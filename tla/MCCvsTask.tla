----------------------------- MODULE MCCvsTask -----------------------------
(* Model-checking instance of CvsTask.                                    *)
EXTENDS CvsTask

(* Three lines through a two-slot buffer make the Receive goroutine block *)
(* on a full buffer and close it while lines are still queued.            *)
MCLines == 3
MCBufSize == 2
====
