------------------------------ MODULE Runtime ------------------------------
(***************************************************************************)
(* The executor's cooperative task runtime, src/executor/runtime/runtime.go:*)
(* one Run goroutine pops task containers from a mutex-guarded FIFO queue, *)
(* polls them and pushes them back unless a Blocked poll manages to park   *)
(* the container (tryBlock).  Event sources on other goroutines wake a     *)
(* parked container.                                                       *)
(*                                                                         *)
(* taskContainer (Poll, tryBlock, setRunnable and the wake-up) is not under *)
(* src/; it is modelled from spec.md 4.1: tryBlock parks the container only *)
(* if no wake-up arrived since Poll started, and a wake-up re-enqueues a    *)
(* parked container or else leaves a notification for tryBlock.            *)
(***************************************************************************)
EXTENDS Sequences, SequencesExt, FiniteSets

CONSTANTS Tasks

ASSUME Tasks # {}

VARIABLES
  q,          \* Runtime.q.tasks: sequence of task containers
  st,         \* container state: "new" (not submitted), "runnable", "blocked"
  notified,   \* a wake-up arrived since the container's last Poll started
  waiting,    \* the last Poll returned Blocked and its event has not fired
  done,       \* the task's Poll has returned Ready
  wokenUnpolled, \* history: woken and not polled since
  pc,         \* Run loop position: "pop", "poll", "block", "push", "stopped"
  cur,        \* the container the Run loop holds (after pop)
  cancelled   \* ctx of Run has been cancelled

vars == <<q, st, notified, waiting, done, wokenUnpolled, pc, cur, cancelled>>

PollResults == {"Ready", "Pending", "Blocked"}

(* queue.pop, under the queue's mutex: the head of a non-empty queue; an   *)
(* empty one returns nil, which Run's caller side treats as idle.          *)
QueuePop(t) == q # << >> /\ t = Head(q) /\ q' = Tail(q)

(* queue.push, under the queue's mutex: append at the back.                *)
QueuePush(t) == q' = Append(q, t)

-----------------------------------------------------------------------------
(* Environment: Submit (spec.md 4.1), event sources, ctx.                  *)

(* Submit: a new container in Runnable state at the back of the queue.     *)
Submit(t) ==
  /\ st[t] = "new"
  /\ st' = [st EXCEPT ![t] = "runnable"]
  /\ QueuePush(t)
  /\ UNCHANGED <<notified, waiting, done, wokenUnpolled, pc, cur, cancelled>>

(* The event a Blocked poll waits for fires: a parked container is made    *)
(* runnable and pushed; otherwise tryBlock is told it must not park.       *)
Wake(t) ==
  /\ waiting[t]
  /\ waiting' = [waiting EXCEPT ![t] = FALSE]
  /\ wokenUnpolled' = [wokenUnpolled EXCEPT ![t] = TRUE]
  /\ IF st[t] = "blocked"
     THEN /\ st' = [st EXCEPT ![t] = "runnable"]
          /\ QueuePush(t)
          /\ UNCHANGED notified
     ELSE /\ notified' = [notified EXCEPT ![t] = TRUE]
          /\ UNCHANGED <<st, q>>
  /\ UNCHANGED <<done, pc, cur, cancelled>>

Cancel ==
  /\ ~cancelled
  /\ cancelled' = TRUE
  /\ UNCHANGED <<q, st, notified, waiting, done, wokenUnpolled, pc, cur>>

-----------------------------------------------------------------------------
(* Runtime.Run, one step per queue access or container call.               *)

(* Loop head: return on ctx.Done(), else q.pop(); an empty queue idles.    *)
PopTask ==
  /\ pc = "pop"
  /\ \/ /\ cancelled
        /\ pc' = "stopped"
        /\ UNCHANGED <<q, cur>>
     \/ /\ ~cancelled
        /\ QueuePop(cur')
        /\ pc' = "poll"
  /\ UNCHANGED <<st, notified, waiting, done, wokenUnpolled, cancelled>>

(* t.Poll(): a finished task keeps answering Ready; otherwise the task     *)
(* may finish, yield, or wait for an event.                                *)
PollTask ==
  /\ pc = "poll"
  /\ \E r \in IF done[cur] THEN {"Ready"} ELSE PollResults :
       /\ done' = [done EXCEPT ![cur] = (r = "Ready")]
       /\ waiting' = [waiting EXCEPT ![cur] = (r = "Blocked")]
       /\ pc' = IF r = "Blocked" THEN "block" ELSE "push"
  /\ notified' = [notified EXCEPT ![cur] = FALSE]
  /\ wokenUnpolled' = [wokenUnpolled EXCEPT ![cur] = FALSE]
  /\ UNCHANGED <<q, st, cur, cancelled>>

(* Mutant: parks whenever Poll said Blocked, ignoring a raced wake-up.   *)
TryBlock_IgnoresNotify ==
  /\ pc = "block"
  /\ st' = [st EXCEPT ![cur] = "blocked"]
  /\ pc' = "pop"
  /\ UNCHANGED <<q, notified, waiting, done, wokenUnpolled, cur, cancelled>>

(* Mutant: a successful tryBlock falls through to setRunnable and push    *)
(* (the `continue` is missing).                                           *)
TryBlock_NoContinue ==
  /\ pc = "block"
  /\ IF notified[cur]
     THEN UNCHANGED st
     ELSE st' = [st EXCEPT ![cur] = "blocked"]
  /\ pc' = "push"
  /\ UNCHANGED <<q, notified, waiting, done, wokenUnpolled, cur, cancelled>>

(* status == Blocked: t.tryBlock() parks the container and continues,     *)
(* unless a wake-up raced in since Poll started.                          *)
TryBlock ==
  /\ pc = "block"
  /\ IF notified[cur]
     THEN /\ pc' = "push"
          /\ UNCHANGED st
     ELSE /\ st' = [st EXCEPT ![cur] = "blocked"]
          /\ pc' = "pop"
  /\ UNCHANGED <<q, notified, waiting, done, wokenUnpolled, cur, cancelled>>

(* t.setRunnable(); s.q.push(t): reached for every poll result but a       *)
(* successful tryBlock, Ready included.                                    *)
Requeue ==
  /\ pc = "push"
  /\ st' = [st EXCEPT ![cur] = "runnable"]
  /\ QueuePush(cur)
  /\ pc' = "pop"
  /\ UNCHANGED <<notified, waiting, done, wokenUnpolled, cur, cancelled>>

-----------------------------------------------------------------------------

Init ==
  /\ q = << >>
  /\ st = [t \in Tasks |-> "new"]
  /\ notified = [t \in Tasks |-> FALSE]
  /\ waiting = [t \in Tasks |-> FALSE]
  /\ done = [t \in Tasks |-> FALSE]
  /\ wokenUnpolled = [t \in Tasks |-> FALSE]
  /\ pc = "pop"
  /\ cur = CHOOSE t \in Tasks : TRUE
  /\ cancelled = FALSE

RunStep == PopTask \/ PollTask \/ TryBlock \/ Requeue

Next ==
  \/ \E t \in Tasks : Submit(t) \/ Wake(t)
  \/ Cancel
  \/ RunStep

(* Run is a busy loop on its own goroutine: it never stops taking steps    *)
(* while one is enabled.  Event sources, submitters and the canceller may  *)
(* never act.                                                              *)
Spec == Init /\ [][Next]_vars /\ WF_vars(RunStep)

-----------------------------------------------------------------------------
(* Properties.                                                             *)

TypeOK ==
  /\ q \in Seq(Tasks)
  /\ st \in [Tasks -> {"new", "runnable", "blocked"}]
  /\ notified \in [Tasks -> BOOLEAN]
  /\ waiting \in [Tasks -> BOOLEAN]
  /\ done \in [Tasks -> BOOLEAN]
  /\ wokenUnpolled \in [Tasks -> BOOLEAN]
  /\ pc \in {"pop", "poll", "block", "push", "stopped"}
  /\ cur \in Tasks
  /\ cancelled \in BOOLEAN

Held == pc \in {"poll", "block", "push"}

(* Every submitted container has exactly one owner: it is once in the      *)
(* queue, or held by the Run loop, or parked as Blocked (spec.md 3,        *)
(* invariant 4).  A second copy would be polled twice; a lost one never.   *)
(* About the race of a wake-up with Poll / tryBlock / push.                *)
SingleOwner ==
  \A t \in Tasks : st[t] # "new" =>
    LET inQ == Cardinality({i \in 1..Len(q) : q[i] = t})
        held == IF Held /\ cur = t THEN 1 ELSE 0
        parked == IF st[t] = "blocked" THEN 1 ELSE 0
    IN inQ + held + parked = 1

(* P5 of spec.md 8, no lost wake-up: a container whose event has fired is *)
(* polled again, unless Run has been cancelled.  About the tryBlock idiom. *)
NoLostWakeup ==
  \A t \in Tasks : wokenUnpolled[t] ~> (~wokenUnpolled[t] \/ cancelled)

(* spec.md 4.1: "Ready -> task is complete; drop the container": a task    *)
(* whose Poll returned Ready is never queued again.                        *)
ReadyDropped ==
  \A t \in Tasks : done[t] => ~\E i \in 1..Len(q) : q[i] = t

=============================================================================
