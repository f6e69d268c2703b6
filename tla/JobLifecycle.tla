---------------------------- MODULE JobLifecycle ----------------------------
(***************************************************************************)
(* The life of a job as the transition table of spec.md 4.4 states it,     *)
(* seen from the server master: the job is in none of the FSM's maps, in  *)
(* one of pending, waitAck and online, or finished (removed for good).     *)
(*                                                                         *)
(* A new job enters at waitAck.  The table and the data flow of spec.md 2  *)
(* send it through pending first, but the job FSM of                       *)
(* servermaster/job_fsm.go has no operation that adds a new job to         *)
(* pending: the job manager creates the job master and enters the job with *)
(* JobDispatched.  Submit here is that call.                               *)
(***************************************************************************)
CONSTANT Jobs

VARIABLE status   \* job -> "none" | "pending" | "waitAck" | "online" | "finished"

Statuses == {"none", "pending", "waitAck", "online", "finished"}
Tracked == {"pending", "waitAck", "online"}

Init == status = [j \in Jobs |-> "none"]

Set(j, s) == status' = [status EXCEPT ![j] = s]

Submit(j) == status[j] = "none" /\ Set(j, "waitAck")

(* One dispatcher tick moves any number of pending jobs to waitAck.        *)
Dispatch(S) ==
  /\ S # {}
  /\ \A j \in S : status[j] = "pending"
  /\ status' = [j \in Jobs |-> IF j \in S THEN "waitAck" ELSE status[j]]

(* OnWorkerOnline: the first heartbeat.                                    *)
Online(j) == status[j] = "waitAck" /\ Set(j, "online")

(* OnWorkerDispatched(err), or OnWorkerOffline(needFailover = true).       *)
Requeue(j) == status[j] \in {"waitAck", "online"} /\ Set(j, "pending")

(* OnWorkerOffline(needFailover = false): the sink.                        *)
Finish(j) == status[j] \in {"waitAck", "online"} /\ Set(j, "finished")

(* Server-master failover: every tracked job is reloaded into waitAck.     *)
Failover ==
  status' = [j \in Jobs |-> IF status[j] \in Tracked THEN "waitAck" ELSE status[j]]

Next ==
  \/ \E j \in Jobs : Submit(j) \/ Online(j) \/ Requeue(j) \/ Finish(j)
  \/ \E S \in SUBSET Jobs : Dispatch(S)
  \/ Failover

Spec == Init /\ [][Next]_status

=============================================================================
