------------------------------ MODULE CvsTask ------------------------------
(***************************************************************************)
(* The CSV copy worker cvsTask of src/unnamed/part_000 (package cvstask).  *)
(* InitImpl starts two goroutines: Receive reads lines from the upstream   *)
(* stream into a bounded channel (BUFFERSIZE), Send writes them to the     *)
(* downstream stream.  Each goroutine, when it returns, writes runError    *)
(* and statusCode under their own locks.  The framework calls Tick on a    *)
(* fixed cadence; Tick reports the status when the rate limiter (rate 1/s, *)
(* burst 1) allows it and otherwise calls Exit once the status is terminal.*)
(*                                                                         *)
(* Lines are numbered 1..Lines and a line's key is its number, so curLoc   *)
(* is the number of the last line written (0 is StartLoc).  RPC outcomes   *)
(* are nondeterministic; on a cancelled ctx the gRPC calls fail with       *)
(* Canceled.  Time is a sequence of seconds of TicksPerSec ticks each.     *)
(***************************************************************************)
EXTENDS Naturals, Sequences

CONSTANTS
  Lines,        \* number of lines the upstream file holds
  BufSize,      \* capacity of task.buffer (BUFFERSIZE = 1024 in the code)
  TicksPerSec   \* Tick calls per second of the framework's cadence

ASSUME Lines \in Nat /\ BufSize \in Nat \ {0} /\ TicksPerSec \in Nat \ {0}

VARIABLES
  status,     \* statusCode.code: "Unset" before InitImpl, "Normal", "Finished", "Error"
  runErr,     \* runError.err: "none" or the kind of the error last stored
  cancelled,  \* the ctx InitImpl derived has been cancelled (cancelFn)
  closed,     \* CloseImpl has been called
  rpc,        \* Receive goroutine position
  rItem,      \* the line Receive holds and is putting into the buffer
  rErr,       \* the error Receive returned
  next,       \* the next line the upstream stream delivers
  buf,        \* task.buffer contents
  bclosed,    \* close(task.buffer) has happened
  spc,        \* Send goroutine position
  sItem,      \* the line Send took from the buffer
  sErr,       \* the error Send returned
  counter,    \* task.counter
  curLoc,     \* task.curLoc
  token,      \* tokens in statusRateLimiter's bucket
  ticks,      \* ticks taken in the current second
  exiting,    \* Tick read a terminal status code and is about to call Exit
  exited,     \* BaseWorker.Exit has been called
  exitStatus, \* the status code passed to Exit
  exitErr     \* the error passed to Exit

vars == <<status, runErr, cancelled, closed, rpc, rItem, rErr, next, buf,
          bclosed, spc, sItem, sErr, counter, curLoc, token, ticks, exiting,
          exited, exitStatus, exitErr>>

Terminal == {"Finished", "Error"}
ErrKinds == {"upstream", "downstream", "canceled"}

(* The error a failing gRPC call returns: Canceled once ctx is cancelled.  *)
RpcErr(kind) == IF cancelled THEN "canceled" ELSE kind

-----------------------------------------------------------------------------
(* InitImpl: status Normal, derive the cancellable ctx, start both         *)
(* goroutines.                                                             *)
InitImpl ==
  /\ status = "Unset"
  /\ status' = "Normal"
  /\ rpc' = "dial"
  /\ spc' = "dial"
  /\ UNCHANGED <<runErr, cancelled, closed, rItem, rErr, next, buf, bclosed,
                 sItem, sErr, counter, curLoc, token, ticks, exiting,
                 exited, exitStatus, exitErr>>

(* CloseImpl: cancelFn().                                                  *)
CloseImpl ==
  /\ status # "Unset"
  /\ ~closed
  /\ closed' = TRUE
  /\ cancelled' = TRUE
  /\ UNCHANGED <<status, runErr, rpc, rItem, rErr, next, buf, bclosed, spc,
                 sItem, sErr, counter, curLoc, token, ticks, exiting,
                 exited, exitStatus, exitErr>>

-----------------------------------------------------------------------------
(* Receive.                                                                *)

rVars == <<rpc, rItem, rErr, next>>
sVars == <<spc, sItem, sErr, counter, curLoc>>
tickVars == <<token, ticks, exiting, exited, exitStatus, exitErr>>

(* grpc.Dial and client.ReadLines: on an error Receive returns it without  *)
(* cancelling ctx.                                                         *)
ReceiveDial ==
  /\ rpc = "dial"
  /\ \/ rpc' = "recv" /\ UNCHANGED rErr
     \/ rErr' = RpcErr("upstream") /\ rpc' = "setErr"
  /\ UNCHANGED <<status, runErr, cancelled, closed, rItem, next, buf, bclosed,
                 sVars, tickVars>>

(* Mutant: on EOF Receive returns without close(task.buffer).           *)
ReceiveRecv_EOFNoClose ==
  /\ rpc = "recv"
  /\ \/ /\ rErr' = RpcErr("upstream")
        /\ cancelled' = TRUE
        /\ rpc' = "setErr"
        /\ UNCHANGED <<rItem, next, bclosed>>
     \/ /\ ~cancelled
        /\ next <= Lines
        /\ rItem' = next
        /\ next' = next + 1
        /\ rpc' = "put"
        /\ UNCHANGED <<rErr, cancelled, bclosed>>
     \/ /\ ~cancelled
        /\ next > Lines
        /\ rpc' = "end"
        /\ UNCHANGED <<rItem, rErr, next, cancelled, bclosed>>
  /\ UNCHANGED <<status, runErr, closed, buf, sVars, tickVars>>

(* reader.Recv(): an error cancels ctx (isEOF is never set) and is         *)
(* returned; EOF closes the buffer and returns nil; a line is put next.    *)
ReceiveRecv ==
  /\ rpc = "recv"
  /\ \/ /\ rErr' = RpcErr("upstream")
        /\ cancelled' = TRUE
        /\ rpc' = "setErr"
        /\ UNCHANGED <<rItem, next, bclosed>>
     \/ /\ ~cancelled
        /\ next <= Lines
        /\ rItem' = next
        /\ next' = next + 1
        /\ rpc' = "put"
        /\ UNCHANGED <<rErr, cancelled, bclosed>>
     \/ /\ ~cancelled
        /\ next > Lines
        /\ bclosed' = TRUE
        /\ rpc' = "end"
        /\ UNCHANGED <<rItem, rErr, next, cancelled>>
  /\ UNCHANGED <<status, runErr, closed, buf, sVars, tickVars>>

(* select { case <-ctx.Done(): return nil; case task.buffer <- line: }     *)
ReceivePut ==
  /\ rpc = "put"
  /\ \/ /\ cancelled
        /\ rpc' = "end"
        /\ UNCHANGED buf
     \/ /\ Len(buf) < BufSize
        /\ buf' = Append(buf, rItem)
        /\ rpc' = "recv"
  /\ UNCHANGED <<status, runErr, cancelled, closed, rItem, rErr, next, bclosed,
                 sVars, tickVars>>

(* Mutant: the goroutine sets the status code before the run error.     *)
ReceiveSetRunError_CodeFirst ==
  /\ rpc = "setErr"
  /\ status' = "Error"
  /\ rpc' = "setCode"
  /\ UNCHANGED <<runErr, cancelled, closed, rItem, rErr, next, buf, bclosed,
                 sVars, tickVars>>

(* The goroutine around Receive: on an error, setRunError(err) and then    *)
(* setStatusCode(Error), each under its own lock.                          *)
ReceiveSetRunError ==
  /\ rpc = "setErr"
  /\ runErr' = rErr
  /\ rpc' = "setCode"
  /\ UNCHANGED <<status, cancelled, closed, rItem, rErr, next, buf, bclosed,
                 sVars, tickVars>>

ReceiveSetStatusCode ==
  /\ rpc = "setCode"
  /\ status' = "Error"
  /\ rpc' = "end"
  /\ UNCHANGED <<runErr, cancelled, closed, rItem, rErr, next, buf, bclosed,
                 sVars, tickVars>>

-----------------------------------------------------------------------------
(* Send.                                                                   *)

(* grpc.Dial fails: return err.  client.WriteLines fails: cancelFn(),      *)
(* return err.                                                             *)
SendDial ==
  /\ spc = "dial"
  /\ \/ spc' = "loop" /\ UNCHANGED <<sErr, cancelled>>
     \/ sErr' = RpcErr("downstream") /\ spc' = "setErr" /\ UNCHANGED cancelled
     \/ /\ sErr' = RpcErr("downstream")
        /\ cancelled' = TRUE
        /\ spc' = "setErr"
  /\ UNCHANGED <<status, runErr, closed, rVars, buf, bclosed, sItem, counter,
                 curLoc, tickVars>>

(* Mutant: leaves the loop as soon as the buffer is closed, dropping the   *)
(* lines still in it.                                                      *)
SendLoop_ClosedEndsEarly ==
  /\ spc = "loop"
  /\ \/ /\ buf # << >>
        /\ sItem' = Head(buf)
        /\ buf' = Tail(buf)
        /\ spc' = "write"
        /\ UNCHANGED sErr
     \/ /\ bclosed
        /\ spc' = "closeRecv"
        /\ UNCHANGED <<sItem, buf, sErr>>
     \/ /\ cancelled
        /\ sErr' = "canceled"
        /\ spc' = "setErr"
        /\ UNCHANGED <<sItem, buf>>
  /\ UNCHANGED <<status, runErr, cancelled, closed, rVars, bclosed, counter,
                 curLoc, tickVars>>

(* Mutant: on ctx.Done() Send returns nil instead of ctx.Err().           *)
SendLoop_CtxDoneNil ==
  /\ spc = "loop"
  /\ \/ /\ buf # << >>
        /\ sItem' = Head(buf)
        /\ buf' = Tail(buf)
        /\ spc' = "write"
        /\ UNCHANGED sErr
     \/ /\ buf = << >>
        /\ bclosed
        /\ spc' = "closeRecv"
        /\ UNCHANGED <<sItem, buf, sErr>>
     \/ /\ cancelled
        /\ spc' = "setFinished"
        /\ UNCHANGED <<sItem, buf, sErr>>
  /\ UNCHANGED <<status, runErr, cancelled, closed, rVars, bclosed, counter,
                 curLoc, tickVars>>

(* select on the buffer and ctx.Done(): take a line, or see the closed and *)
(* drained buffer (!more), or return ctx.Err().  When several cases are    *)
(* ready Go picks any of them.                                             *)
SendLoop ==
  /\ spc = "loop"
  /\ \/ /\ buf # << >>
        /\ sItem' = Head(buf)
        /\ buf' = Tail(buf)
        /\ spc' = "write"
        /\ UNCHANGED sErr
     \/ /\ buf = << >>
        /\ bclosed
        /\ spc' = "closeRecv"
        /\ UNCHANGED <<sItem, buf, sErr>>
     \/ /\ cancelled
        /\ sErr' = "canceled"
        /\ spc' = "setErr"
        /\ UNCHANGED <<sItem, buf>>
  /\ UNCHANGED <<status, runErr, cancelled, closed, rVars, bclosed, counter,
                 curLoc, tickVars>>

(* writer.Send: an error cancels ctx and is returned; on success           *)
(* counter.Add(1) and curLoc = the line's key.                             *)
SendWrite ==
  /\ spc = "write"
  /\ \/ /\ counter' = counter + 1
        /\ curLoc' = sItem
        /\ spc' = "loop"
        /\ UNCHANGED <<sErr, cancelled>>
     \/ /\ sErr' = RpcErr("downstream")
        /\ cancelled' = TRUE
        /\ spc' = "setErr"
        /\ UNCHANGED <<counter, curLoc>>
  /\ UNCHANGED <<status, runErr, closed, rVars, buf, bclosed, sItem, tickVars>>

(* writer.CloseAndRecv: an error is returned, else nil (ErrMsg only logs). *)
SendCloseAndRecv ==
  /\ spc = "closeRecv"
  /\ \/ spc' = "setFinished" /\ UNCHANGED sErr
     \/ sErr' = RpcErr("downstream") /\ spc' = "setErr"
  /\ UNCHANGED <<status, runErr, cancelled, closed, rVars, buf, bclosed, sItem,
                 counter, curLoc, tickVars>>

(* The goroutine around Send: on an error setRunError then                 *)
(* setStatusCode(Error); on nil setStatusCode(Finished).                   *)
SendSetRunError ==
  /\ spc = "setErr"
  /\ runErr' = sErr
  /\ spc' = "setError"
  /\ UNCHANGED <<status, cancelled, closed, rVars, buf, bclosed, sItem, sErr,
                 counter, curLoc, tickVars>>

SendSetStatusCode ==
  /\ spc \in {"setError", "setFinished"}
  /\ status' = IF spc = "setError" THEN "Error" ELSE "Finished"
  /\ spc' = "end"
  /\ UNCHANGED <<runErr, cancelled, closed, rVars, buf, bclosed, sItem, sErr,
                 counter, curLoc, tickVars>>

-----------------------------------------------------------------------------
(* The framework's cadence.                                                *)

(* Tick: statusRateLimiter.Allow() takes the token and UpdateStatus        *)
(* reports the status (no worker state changes; a TryAgain error is        *)
(* swallowed); a denied tick reads getStatusCode() and, if the status is   *)
(* terminal, goes on to TickExit.                                          *)
Tick ==
  /\ status # "Unset"
  /\ ~exited /\ ~exiting
  /\ ticks < TicksPerSec
  /\ ticks' = ticks + 1
  /\ \/ /\ token = 1
        /\ token' = 0
        /\ UNCHANGED exiting
     \/ /\ token = 0
        /\ status \in Terminal
        /\ exiting' = TRUE
        /\ UNCHANGED token
     \/ /\ token = 0
        /\ status \notin Terminal
        /\ UNCHANGED <<token, exiting>>
  /\ UNCHANGED <<status, runErr, cancelled, closed, rVars, buf, bclosed, sVars,
                 exited, exitStatus, exitErr>>

(* Exit(ctx, task.Status(), task.getRunError()): the status and runError   *)
(* are read after the status code, each under its own lock.                *)
TickExit ==
  /\ exiting
  /\ exiting' = FALSE
  /\ exited' = TRUE
  /\ exitStatus' = status
  /\ exitErr' = runErr
  /\ UNCHANGED <<status, runErr, cancelled, closed, rVars, buf, bclosed, sVars,
                 token, ticks>>

(* A second passes once its ticks are taken (or the loop has ended): the   *)
(* limiter refills to its burst of 1.                                      *)
NextSecond ==
  /\ ticks = TicksPerSec \/ exited
  /\ ticks' = 0
  /\ token' = 1
  /\ UNCHANGED <<status, runErr, cancelled, closed, rVars, buf, bclosed, sVars,
                 exiting, exited, exitStatus, exitErr>>

-----------------------------------------------------------------------------

Init ==
  /\ status = "Unset"
  /\ runErr = "none"
  /\ cancelled = FALSE
  /\ closed = FALSE
  /\ rpc = "idle"
  /\ rItem = 0
  /\ rErr = "none"
  /\ next = 1
  /\ buf = << >>
  /\ bclosed = FALSE
  /\ spc = "idle"
  /\ sItem = 0
  /\ sErr = "none"
  /\ counter = 0
  /\ curLoc = 0
  /\ token = 1
  /\ ticks = 0
  /\ exiting = FALSE
  /\ exited = FALSE
  /\ exitStatus = "none"
  /\ exitErr = "none"

Receive == ReceiveDial \/ ReceiveRecv \/ ReceivePut \/ ReceiveSetRunError
             \/ ReceiveSetStatusCode
Send == SendDial \/ SendLoop \/ SendWrite \/ SendCloseAndRecv
          \/ SendSetRunError \/ SendSetStatusCode

Next == InitImpl \/ CloseImpl \/ Receive \/ Send \/ Tick \/ TickExit \/ NextSecond

(* The Go scheduler runs every runnable goroutine, and the framework calls *)
(* InitImpl and then Tick on a fixed cadence.  CloseImpl is up to the      *)
(* framework and is not assumed.                                           *)
Spec ==
  /\ Init /\ [][Next]_vars
  /\ WF_vars(InitImpl) /\ WF_vars(Receive) /\ WF_vars(Send)
  /\ WF_vars(Tick) /\ WF_vars(TickExit) /\ WF_vars(NextSecond)

-----------------------------------------------------------------------------
(* Properties.                                                             *)

TypeOK ==
  /\ status \in {"Unset", "Normal"} \cup Terminal
  /\ runErr \in {"none"} \cup ErrKinds
  /\ {cancelled, closed, bclosed, exiting, exited} \subseteq BOOLEAN
  /\ rpc \in {"idle", "dial", "recv", "put", "setErr", "setCode", "end"}
  /\ spc \in {"idle", "dial", "loop", "write", "closeRecv", "setErr",
              "setError", "setFinished", "end"}
  /\ rItem \in 0..Lines /\ sItem \in 0..Lines
  /\ {rErr, sErr, exitErr} \subseteq {"none"} \cup ErrKinds
  /\ next \in 1..Lines + 1
  /\ buf \in Seq(1..Lines) /\ Len(buf) <= BufSize
  /\ counter \in 0..Lines /\ curLoc \in 0..Lines
  /\ token \in 0..1 /\ ticks \in 0..TicksPerSec
  /\ exitStatus \in {"none"} \cup Terminal

(* A Finished status means the whole file was copied: Send saw the buffer  *)
(* closed only after writing every line Receive read, in order, so the    *)
(* counter and the location are those of the last line.  About close()   *)
(* on EOF racing the Send loop's select.                                  *)
FinishedAllSent ==
  status = "Finished" => counter = Lines /\ curLoc = Lines

(* Once the status is terminal it is never rewritten (spec.md 9 (a)), even *)
(* though Receive and Send each write it when they return.                *)
TerminalSticky ==
  [][(status \in Terminal) => status' = status]_status

(* The worker exits with status Error only with the error that caused it: *)
(* each goroutine stores runError before it sets the status code, and     *)
(* Tick reads the code before the error.                                  *)
ErrorHasCause ==
  exited /\ exitStatus = "Error" => exitErr # "none"

(* Every run of the worker ends in Exit: the copy finishes or fails, and  *)
(* a rate-limited tick then calls Exit (spec.md 4, rule 4).               *)
EventuallyExit == <>exited

=============================================================================
