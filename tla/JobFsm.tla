------------------------------- MODULE JobFsm -------------------------------
(***************************************************************************)
(* The server-master job FSM of src/servermaster/job_fsm.go together with  *)
(* the job-master processes it dispatches and the job-manager callbacks    *)
(* that drive it.                                                          *)
(*                                                                         *)
(* A job is a MasterMeta object (a model value of Jobs).  The three maps   *)
(* pendingJobs, waitAckJobs and onlineJobs are partial functions keyed by  *)
(* master id; a key is the id of the job-master worker that runs the job  *)
(* (IterPendingJobs sets job.ID to the id returned by dispatchJobFn).      *)
(* Every JobFsm method holds jobsMu for its whole body, so each one is a   *)
(* single atomic step, except QueryJob, which locks and unlocks once per   *)
(* map and is therefore three steps.                                       *)
(*                                                                         *)
(* The environment (job-manager callbacks, worker processes, server-master *)
(* failover) lives outside src/ and is modelled from spec.md 4.4-4.5.      *)
(***************************************************************************)
EXTENDS Naturals, FiniteSets, Functions, TLC

CONSTANTS
  Jobs,          \* MasterMeta objects that may be submitted
  IDs,           \* master / worker ids; each is handed out at most once
  MaxRestarts,   \* bound on server-master failovers
  MaxFailures    \* bound on worker crashes plus CreateWorker failures

ASSUME IDs # {} /\ Jobs # {}
ASSUME MaxRestarts \in Nat /\ MaxFailures \in Nat
(* Enough ids for every submission, every re-dispatch after a failure and *)
(* every re-creation after a failover, so that no id shortage blocks.     *)
ASSUME Cardinality(IDs) >= Cardinality(Jobs) * (1 + MaxRestarts) + MaxFailures

VARIABLES
  pendingJobs,   \* id -> job                      (JobFsm.pendingJobs)
  waitAckJobs,   \* id -> [job, addFromFailover]    (JobFsm.waitAckJobs)
  onlineJobs,    \* id -> job                      (JobFsm.onlineJobs)
  proc,          \* worker id -> [job, st]: job-master processes created
  used,          \* ids already handed out by SubmitJob or CreateWorker
  submitted,     \* jobs submitted so far
  finished,      \* jobs whose job master reported it finished
  restarts,      \* server-master failovers so far
  failures,      \* worker crashes and dispatch failures so far
  qry            \* the one QueryJob call in flight

fsmVars == <<pendingJobs, waitAckJobs, onlineJobs>>
envVars == <<proc, used, submitted, finished, restarts, failures>>
vars == <<fsmVars, envVars, qry>>

(* Worker process states: created by CreateWorker, running after its first *)
(* heartbeat, dead when it has crashed and not yet timed out, gone when the *)
(* job manager has been told it is offline.                                *)
WorkerStates == {"created", "running", "dead", "gone"}
Alive == {"created", "running"}

-----------------------------------------------------------------------------
(* Partial-function helpers.                                               *)

Put(f, k, v) == (k :> v) @@ f
Drop(f, k) == Restrict(f, DOMAIN f \ {k})
IsPartialFn(f, D, R) == DOMAIN f \subseteq D /\ \A k \in DOMAIN f : f[k] \in R
Empty == << >>

FreeIDs == IDs \ used

Keys == DOMAIN pendingJobs \cup DOMAIN waitAckJobs \cup DOMAIN onlineJobs

(* The job held under key k, whichever map holds it.                       *)
JobAt(k) ==
  CASE k \in DOMAIN pendingJobs -> pendingJobs[k]
    [] k \in DOMAIN waitAckJobs -> waitAckJobs[k].job
    [] k \in DOMAIN onlineJobs  -> onlineJobs[k]

-----------------------------------------------------------------------------
(* JobFsm methods.  Each is a formula over fsmVars only; the environment   *)
(* actions below conjoin them with the caller's own state change.          *)

(* JobDispatched: unconditionally (over)writes waitAckJobs[job.ID].        *)
JobDispatched(job, id, addFromFailover) ==
  /\ waitAckJobs' = Put(waitAckJobs, id, [job |-> job, addFromFailover |-> addFromFailover])
  /\ UNCHANGED <<pendingJobs, onlineJobs>>

(* Mutant: stores the whole jobHolder in onlineJobs instead of its meta.   *)
JobOnline_StoresHolder(w) ==
  \/ /\ w \in DOMAIN waitAckJobs
     /\ onlineJobs' = Put(onlineJobs, w, waitAckJobs[w])
     /\ waitAckJobs' = Drop(waitAckJobs, w)
     /\ UNCHANGED pendingJobs
  \/ /\ w \notin DOMAIN waitAckJobs
     /\ UNCHANGED fsmVars

(* Mutant: forgets delete(fsm.waitAckJobs, worker.ID()).                   *)
JobOnline_KeepsWaitAck(w) ==
  \/ /\ w \in DOMAIN waitAckJobs
     /\ onlineJobs' = Put(onlineJobs, w, waitAckJobs[w].job)
     /\ UNCHANGED <<pendingJobs, waitAckJobs>>
  \/ /\ w \notin DOMAIN waitAckJobs
     /\ UNCHANGED fsmVars

(* JobOnline: waitAck -> online, or ErrWorkerNotFound.                     *)
JobOnline(w) ==
  \/ /\ w \in DOMAIN waitAckJobs
     /\ onlineJobs' = Put(onlineJobs, w, waitAckJobs[w].job)
     /\ waitAckJobs' = Drop(waitAckJobs, w)
     /\ UNCHANGED pendingJobs
  \/ /\ w \notin DOMAIN waitAckJobs
     /\ UNCHANGED fsmVars

(* Mutant: a job whose master went offline for failover is put back into  *)
(* waitAckJobs instead of pendingJobs.                                     *)
JobOffline_RequeueWaitAck(w, needFailover) ==
  LET Requeue(job) ==
        waitAckJobs' = IF needFailover
                       THEN Put(Drop(waitAckJobs, w), w, [job |-> job, addFromFailover |-> FALSE])
                       ELSE Drop(waitAckJobs, w)
  IN
  \/ /\ w \in DOMAIN onlineJobs
     /\ onlineJobs' = Drop(onlineJobs, w)
     /\ Requeue(onlineJobs[w])
     /\ UNCHANGED pendingJobs
  \/ /\ w \notin DOMAIN onlineJobs
     /\ w \in DOMAIN waitAckJobs
     /\ Requeue(waitAckJobs[w].job)
     /\ UNCHANGED <<pendingJobs, onlineJobs>>
  \/ /\ w \notin DOMAIN onlineJobs
     /\ w \notin DOMAIN waitAckJobs
     /\ UNCHANGED fsmVars

(* Mutant: re-queues the job whatever needFailover says.                  *)
JobOffline_AlwaysRequeue(w, needFailover) ==
  \/ /\ w \in DOMAIN onlineJobs
     /\ onlineJobs' = Drop(onlineJobs, w)
     /\ pendingJobs' = Put(pendingJobs, w, onlineJobs[w])
     /\ UNCHANGED waitAckJobs
  \/ /\ w \notin DOMAIN onlineJobs
     /\ w \in DOMAIN waitAckJobs
     /\ waitAckJobs' = Drop(waitAckJobs, w)
     /\ pendingJobs' = Put(pendingJobs, w, waitAckJobs[w].job)
     /\ UNCHANGED onlineJobs
  \/ /\ w \notin DOMAIN onlineJobs
     /\ w \notin DOMAIN waitAckJobs
     /\ UNCHANGED fsmVars

(* JobOffline: remove from online, else from waitAck, else ignore; with    *)
(* needFailover the job goes back to pending under the same id.           *)
JobOffline(w, needFailover) ==
  LET Requeue(job) ==
        pendingJobs' = IF needFailover THEN Put(pendingJobs, w, job) ELSE pendingJobs
  IN
  \/ /\ w \in DOMAIN onlineJobs
     /\ onlineJobs' = Drop(onlineJobs, w)
     /\ Requeue(onlineJobs[w])
     /\ UNCHANGED waitAckJobs
  \/ /\ w \notin DOMAIN onlineJobs
     /\ w \in DOMAIN waitAckJobs
     /\ waitAckJobs' = Drop(waitAckJobs, w)
     /\ Requeue(waitAckJobs[w].job)
     /\ UNCHANGED onlineJobs
  \/ /\ w \notin DOMAIN onlineJobs
     /\ w \notin DOMAIN waitAckJobs
     /\ UNCHANGED fsmVars

(* Mutant: deletes the waitAck entry without putting the job in pending.  *)
JobDispatchFailed_Drops(w) ==
  \/ /\ w \in DOMAIN waitAckJobs
     /\ waitAckJobs' = Drop(waitAckJobs, w)
     /\ UNCHANGED <<pendingJobs, onlineJobs>>
  \/ /\ w \notin DOMAIN waitAckJobs
     /\ UNCHANGED fsmVars

(* JobDispatchFailed: waitAck -> pending, or ErrWorkerNotFound.            *)
JobDispatchFailed(w) ==
  \/ /\ w \in DOMAIN waitAckJobs
     /\ pendingJobs' = Put(pendingJobs, w, waitAckJobs[w].job)
     /\ waitAckJobs' = Drop(waitAckJobs, w)
     /\ UNCHANGED onlineJobs
  \/ /\ w \notin DOMAIN waitAckJobs
     /\ UNCHANGED fsmVars

(* dispatchJobFn (the job manager's CreateWorker): each new id n starts a  *)
(* job-master process for job jobOf[n].                                    *)
CreateWorkers(jobOf) ==
  /\ proc' = [n \in DOMAIN jobOf |-> [job |-> jobOf[n], st |-> "created"]] @@ proc
  /\ used' = used \cup DOMAIN jobOf

(* Mutant: keys the waitAck entry by the old pending id, not the new one. *)
IterPendingJobs_OldKey ==
  \E S \in SUBSET FreeIDs :
  \E from \in Injection(S, DOMAIN pendingJobs) :
    LET jobOf == [n \in S |-> pendingJobs[from[n]]] IN
    /\ pendingJobs' = Restrict(pendingJobs, DOMAIN pendingJobs \ Range(from))
    /\ waitAckJobs' = [k \in Range(from) |-> [job |-> pendingJobs[k], addFromFailover |-> FALSE]] @@ waitAckJobs
    /\ UNCHANGED onlineJobs
    /\ CreateWorkers(jobOf)

(* Mutant: forgets delete(fsm.pendingJobs, oldJobID).                      *)
IterPendingJobs_KeepsPending ==
  \E S \in SUBSET FreeIDs :
  \E from \in Injection(S, DOMAIN pendingJobs) :
    LET jobOf == [n \in S |-> pendingJobs[from[n]]] IN
    /\ waitAckJobs' = [n \in S |-> [job |-> jobOf[n], addFromFailover |-> FALSE]] @@ waitAckJobs
    /\ UNCHANGED <<pendingJobs, onlineJobs>>
    /\ CreateWorkers(jobOf)

(* IterPendingJobs: ranges over pendingJobs in Go's random map order and   *)
(* stops at the first dispatchJobFn error, so the jobs moved are an        *)
(* arbitrary subset.  Each moved job is re-keyed by the id dispatchJobFn   *)
(* returned: new id n takes the job that was pending under from[n].        *)
IterPendingJobs ==
  \E S \in SUBSET FreeIDs :
  \E from \in Injection(S, DOMAIN pendingJobs) :
    LET jobOf == [n \in S |-> pendingJobs[from[n]]] IN
    /\ pendingJobs' = Restrict(pendingJobs, DOMAIN pendingJobs \ Range(from))
    /\ waitAckJobs' = [n \in S |-> [job |-> jobOf[n], addFromFailover |-> FALSE]] @@ waitAckJobs
    /\ UNCHANGED onlineJobs
    /\ CreateWorkers(jobOf)

(* IterWaitAckJobs: for the entries loaded at failover, calls              *)
(* dispatchJobFn and clears addFromFailover; the id dispatchJobFn returns  *)
(* is discarded, so the entry keeps its old key.  New id n re-creates the  *)
(* job held under from[n].                                                 *)
IterWaitAckJobs ==
  LET Flagged == {k \in DOMAIN waitAckJobs : waitAckJobs[k].addFromFailover} IN
  \E S \in SUBSET FreeIDs :
  \E from \in Injection(S, Flagged) :
    /\ waitAckJobs' = [k \in DOMAIN waitAckJobs |->
                         IF k \in Range(from)
                         THEN [waitAckJobs[k] EXCEPT !.addFromFailover = FALSE]
                         ELSE waitAckJobs[k]]
    /\ UNCHANGED <<pendingJobs, onlineJobs>>
    /\ CreateWorkers([n \in S |-> waitAckJobs[from[n]].job])

-----------------------------------------------------------------------------
(* QueryJob: checkPendingJob, checkWaitAckJob, checkOnlineJob, each under  *)
(* its own lock.  qry.absentAtStart / absentAtEnd record whether the id    *)
(* was in no map when the call began / returned.                           *)

QueryIdle == [pc |-> "idle", id |-> CHOOSE i \in IDs : TRUE, absentAtStart |-> FALSE,
              absentAtEnd |-> FALSE, result |-> "none"]

QueryStart ==
  /\ qry.pc = "idle"
  /\ \E id \in used :
       qry' = [QueryIdle EXCEPT !.pc = "pending", !.id = id, !.absentAtStart = id \notin Keys]
  /\ UNCHANGED <<fsmVars, envVars>>

QueryReturn(result) ==
  qry' = [qry EXCEPT !.pc = "done", !.result = result, !.absentAtEnd = qry.id \notin Keys]

CheckPendingJob ==
  /\ qry.pc = "pending"
  /\ IF qry.id \in DOMAIN pendingJobs
     THEN QueryReturn("pending")
     ELSE qry' = [qry EXCEPT !.pc = "waitAck"]
  /\ UNCHANGED <<fsmVars, envVars>>

CheckWaitAckJob ==
  /\ qry.pc = "waitAck"
  /\ IF qry.id \in DOMAIN waitAckJobs
     THEN QueryReturn("dispatched")
     ELSE qry' = [qry EXCEPT !.pc = "online"]
  /\ UNCHANGED <<fsmVars, envVars>>

(* job.ToPB() yields nil for a handle whose worker has timed out but not   *)
(* yet been reported offline ("tombstone"); QueryJob then returns nil.     *)
CheckOnlineJob ==
  /\ qry.pc = "online"
  /\ QueryReturn(CASE qry.id \notin DOMAIN onlineJobs -> "notfound"
                   [] proc[qry.id].st = "dead"        -> "tombstone"
                   [] OTHER                           -> "online")
  /\ UNCHANGED <<fsmVars, envVars>>

QueryDone ==
  /\ qry.pc = "done"
  /\ qry' = QueryIdle
  /\ UNCHANGED <<fsmVars, envVars>>

-----------------------------------------------------------------------------
(* Environment: the job manager and the job-master processes.              *)

(* SubmitJob: CreateWorker for a fresh job, then JobDispatched(meta, false).*)
SubmitJob(j) ==
  /\ j \notin submitted
  /\ \E w \in FreeIDs :
       /\ JobDispatched(j, w, FALSE)
       /\ CreateWorkers(w :> j)
  /\ submitted' = submitted \cup {j}
  /\ UNCHANGED <<finished, restarts, failures, qry>>

(* First heartbeat of worker w reaches the master: OnWorkerOnline.         *)
WorkerOnline(w) ==
  /\ w \in DOMAIN proc
  /\ proc[w].st = "created"
  /\ proc' = [proc EXCEPT ![w].st = "running"]
  /\ JobOnline(w)
  /\ UNCHANGED <<used, submitted, finished, restarts, failures, qry>>

(* A running job master's online message reaches the master again: its    *)
(* re-handshake after a server-master failover, or a duplicate of its      *)
(* first one (spec.md 4.4).  JobOnline takes it out of waitAck, or fails   *)
(* with WorkerNotFound and changes nothing.                                *)
WorkerOnlineAgain(w) ==
  /\ w \in DOMAIN proc
  /\ proc[w].st = "running"
  /\ JobOnline(w)
  /\ UNCHANGED <<proc, used, submitted, finished, restarts, failures, qry>>

(* CreateWorker's RPC fails: OnWorkerDispatched(err).                      *)
WorkerDispatchFailed(w) ==
  /\ w \in DOMAIN proc
  /\ proc[w].st = "created"
  /\ failures < MaxFailures
  /\ proc' = [proc EXCEPT ![w].st = "gone"]
  /\ JobDispatchFailed(w)
  /\ failures' = failures + 1
  /\ UNCHANGED <<used, submitted, finished, restarts, qry>>

(* A job-master process dies; the master notices only at the timeout.     *)
WorkerCrash(w) ==
  /\ w \in DOMAIN proc
  /\ proc[w].st \in Alive
  /\ failures < MaxFailures
  /\ proc' = [proc EXCEPT ![w].st = "dead"]
  /\ failures' = failures + 1
  /\ UNCHANGED <<fsmVars, used, submitted, finished, restarts, qry>>

(* Heartbeat timeout of a dead worker: OnWorkerOffline(needFailover=true).*)
WorkerTimeout(w) ==
  /\ w \in DOMAIN proc
  /\ proc[w].st = "dead"
  /\ proc' = [proc EXCEPT ![w].st = "gone"]
  /\ JobOffline(w, TRUE)
  /\ UNCHANGED <<used, submitted, finished, restarts, failures, qry>>

(* The job master finishes its job: OnWorkerOffline(needFailover=false).  *)
WorkerFinish(w) ==
  /\ w \in DOMAIN proc
  /\ proc[w].st = "running"
  /\ proc' = [proc EXCEPT ![w].st = "gone"]
  /\ JobOffline(w, FALSE)
  /\ finished' = finished \cup {proc[w].job}
  /\ UNCHANGED <<used, submitted, restarts, failures, qry>>

(* Server-master failover: a new FSM loads every live MasterMeta through   *)
(* JobDispatched(meta, true); job masters keep running; an in-flight       *)
(* QueryJob dies with the old process.                                     *)
ServerMasterFailover ==
  /\ restarts < MaxRestarts
  /\ waitAckJobs' = [k \in Keys |-> [job |-> JobAt(k), addFromFailover |-> TRUE]]
  /\ pendingJobs' = Empty
  /\ onlineJobs' = Empty
  /\ restarts' = restarts + 1
  /\ qry' = QueryIdle
  /\ UNCHANGED <<proc, used, submitted, finished, failures>>

-----------------------------------------------------------------------------

Init ==
  /\ pendingJobs = Empty
  /\ waitAckJobs = Empty
  /\ onlineJobs = Empty
  /\ proc = Empty
  /\ used = {}
  /\ submitted = {}
  /\ finished = {}
  /\ restarts = 0
  /\ failures = 0
  /\ qry = QueryIdle

Query ==
  \/ QueryStart
  \/ CheckPendingJob
  \/ CheckWaitAckJob
  \/ CheckOnlineJob
  \/ QueryDone

Dispatcher ==
  \/ IterPendingJobs /\ UNCHANGED <<submitted, finished, restarts, failures, qry>>
  \/ IterWaitAckJobs /\ UNCHANGED <<submitted, finished, restarts, failures, qry>>

Next ==
  \/ \E j \in Jobs : SubmitJob(j)
  \/ Dispatcher
  \/ \E w \in IDs :
       \/ WorkerOnline(w)
       \/ WorkerOnlineAgain(w)
       \/ WorkerDispatchFailed(w)
       \/ WorkerCrash(w)
       \/ WorkerTimeout(w)
       \/ WorkerFinish(w)
  \/ ServerMasterFailover
  \/ Query

(* The dispatcher loop runs every masterHeartbeatCheckLoopInterval, a     *)
(* living worker heartbeats every workerHeartbeatInterval and a dead one   *)
(* times out after workerTimeoutDuration + workerTimeoutGracefulDuration:  *)
(* these steps cannot be postponed forever.  Crashes, dispatch failures,   *)
(* submissions, finishing and queries need not happen.                     *)
Fairness ==
  /\ WF_vars(IterPendingJobs /\ UNCHANGED <<submitted, finished, restarts, failures, qry>>)
  /\ \A w \in IDs : WF_vars(WorkerOnline(w)) /\ WF_vars(WorkerTimeout(w))

Spec == Init /\ [][Next]_vars /\ Fairness

-----------------------------------------------------------------------------
(* Properties.                                                             *)

TypeOK ==
  /\ IsPartialFn(pendingJobs, IDs, Jobs)
  /\ IsPartialFn(waitAckJobs, IDs, [job : Jobs, addFromFailover : BOOLEAN])
  /\ IsPartialFn(onlineJobs, IDs, Jobs)
  /\ IsPartialFn(proc, IDs, [job : Jobs, st : WorkerStates])
  /\ used \subseteq IDs /\ submitted \subseteq Jobs /\ finished \subseteq submitted
  /\ restarts \in 0..MaxRestarts
  /\ failures \in 0..MaxFailures
  /\ qry.pc \in {"idle", "pending", "waitAck", "online", "done"}

(* P1 of spec.md 8, about the re-keying in IterPendingJobs and the map     *)
(* moves of JobOnline / JobOffline / JobDispatchFailed: a submitted job    *)
(* that no job master has finished is held under exactly one key of the    *)
(* three maps.                                                             *)
LiveJobTrackedOnce ==
  \A j \in submitted \ finished : Cardinality({k \in Keys : JobAt(k) = j}) = 1

(* Once a job master reports its job finished (JobOffline without          *)
(* failover), no map keeps an entry for that job.                          *)
FinishedJobReleased ==
  \A j \in finished : \A k \in Keys : JobAt(k) # j

(* A living job-master process is known to the FSM under its own id, so    *)
(* its heartbeat (JobOnline) and its offline report (JobOffline) reach its *)
(* job: it is in waitAckJobs or onlineJobs under the worker's id, with the *)
(* worker's job.  About IterPendingJobs / IterWaitAckJobs re-keying.      *)
NoOrphanWorker ==
  \A w \in DOMAIN proc :
    proc[w].st \in Alive =>
      \/ w \in DOMAIN waitAckJobs /\ waitAckJobs[w].job = proc[w].job
      \/ w \in DOMAIN onlineJobs /\ onlineJobs[w] = proc[w].job

(* No job is run by two living job masters at once (no double dispatch):  *)
(* about the re-dispatch of IterPendingJobs and IterWaitAckJobs.           *)
AtMostOneLiveWorker ==
  \A j \in submitted :
    Cardinality({w \in DOMAIN proc : proc[w].job = j /\ proc[w].st \in Alive}) <= 1

(* QueryJob reports "not found" only for an id that was in none of the     *)
(* three maps at some instant of the call.  Ids are handed out once and    *)
(* never return to a map once gone, so that instant is the start or the   *)
(* end of the call.  About the three separately locked checks of QueryJob. *)
QueryNotFoundIsReal ==
  (qry.pc = "done" /\ qry.result = "notfound") => (qry.absentAtStart \/ qry.absentAtEnd)

(* Refinement mapping: a job's lifecycle status is the map that holds it;  *)
(* a submitted job that no map holds has finished.                         *)
LifecycleStatus ==
  [j \in Jobs |->
     CASE j \notin submitted                              -> "none"
       [] \E k \in DOMAIN pendingJobs : pendingJobs[k] = j -> "pending"
       [] \E k \in DOMAIN waitAckJobs : waitAckJobs[k].job = j -> "waitAck"
       [] \E k \in DOMAIN onlineJobs : onlineJobs[k] = j   -> "online"
       [] OTHER                                           -> "finished"]

Lifecycle == INSTANCE JobLifecycle WITH status <- LifecycleStatus

(* The FSM moves every job only along the transitions of spec.md 4.4's     *)
(* table: finished is a sink, a job reaches online only from waitAck, and  *)
(* only a failover moves an online job back to waitAck.  About the map     *)
(* moves of every JobFsm method, and the failover reload.                  *)
FollowsLifecycle == Lifecycle!Spec

(* Every submitted job is eventually run by an online job master or has   *)
(* finished: dispatch, re-dispatch after a crash and heartbeats make       *)
(* progress.                                                               *)
JobEventuallyOnline ==
  \A j \in Jobs :
    j \in submitted ~> (j \in finished \/ \E k \in DOMAIN onlineJobs : onlineJobs[k] = j)

=============================================================================
