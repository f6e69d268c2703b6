----------------------------- MODULE OrmClient -----------------------------
(***************************************************************************)
(* The metastore's SQL client, src/pkg/orm/client.go (metaOpsClient), used *)
(* by several server-master processes against one database.                *)
(*                                                                         *)
(* The logic_epochs table holds one record (defaultEpochPK).               *)
(* InitializeEpoch creates it in two statements (First, then Create).      *)
(* GenEpoch runs a transaction: UPDATE epoch = epoch + 1 takes the row     *)
(* lock, and SELECT reads the record before commit or rollback releases    *)
(* the lock.                                                               *)
(*                                                                         *)
(* Job, worker and resource rows are written by UpsertX, in two statements *)
(* (Create, then UpdateX on a duplicate key), and by UpdateX and DeleteX,  *)
(* one statement each; the three families are the same code on different  *)
(* tables.  Projects are added by a single Create, and every project      *)
(* operation is a new row of an append-only table.  gorm runs with         *)
(* SkipDefaultTransaction, so only GenEpoch is a transaction.  Every       *)
(* statement is atomic in the database.  Up to MaxFaults database faults   *)
(* hit GenEpoch's transaction: a failing UPDATE (an error or a lock-wait   *)
(* timeout), a failing SELECT, and a failing COMMIT that the server either *)
(* rolled back or applied with only the answer lost.  Elsewhere the only   *)
(* errors are the ones the data causes (a duplicate key, a missing record) *)
(* and a nil argument.                                                     *)
(*                                                                         *)
(* NewClient does not call Initialize: callers do, so GenEpoch may run on  *)
(* a database whose epoch record does not exist yet.                       *)
(***************************************************************************)
EXTENDS Naturals, Sequences, TLC

CONSTANTS
  Clients,   \* server-master processes sharing the database
  IDs,       \* primary keys of the rows (a worker's is <<job_id, id>>)
  Values,    \* contents of a row
  MinEpoch,  \* defaultMinEpoch (1: ten GenEpoch calls yield 11 in mock_test.go)
  MaxCalls,  \* calls a client makes
  MaxFaults, \* database faults (errors, lock-wait timeouts, lost commit answers)
  NoClient,  \* model value: nobody holds the row lock
  None       \* model value: no own write to check

ASSUME {NoClient, None} \cap Clients = {} /\ MinEpoch \in Nat /\ MaxCalls \in Nat /\ MaxFaults \in Nat

(* The tables a client writes rows to, and their rows.                     *)
Tables == {"job", "worker", "resource", "project"}
Rows == Tables \X IDs

VARIABLES
  hasEpoch,  \* the logic_epochs record exists
  epoch,     \* its epoch column
  rowLock,   \* the client whose GenEpoch transaction holds the record's lock
  rows,      \* the row tables: partial function <<table, id>> -> value
  opLog,     \* rows of the project_operations table
  pc,        \* client position inside its current call
  arg,       \* [row, val] argument of the client's current upsert
  result,    \* outcome of the client's last finished call, or the value read
  sel,       \* the epoch the client's GenEpoch SELECT read
  faults,    \* database faults so far
  commits,   \* history: [epoch, returned] of every committed GenEpoch, in
             \* commit order; returned is FALSE if the caller got an error
  found,    \* the rows (their values) the client's last list query returned
  mine,      \* history: [row, val] the client last wrote, None once another
             \* call touched that row or the client moved on from it
  calls      \* calls each client has started

vars == <<hasEpoch, epoch, rowLock, rows, opLog, pc, arg, result, sel, faults,
          commits, found, mine, calls>>

Idle(c) == pc[c] = "idle" /\ calls[c] < MaxCalls

(* A call starts: the client leaves idle and counts the call.             *)
Start(c, p) ==
  /\ pc' = [pc EXCEPT ![c] = p]
  /\ calls' = [calls EXCEPT ![c] = @ + 1]

(* A call returns with the given outcome.                                  *)
Return(c, r) ==
  /\ pc' = [pc EXCEPT ![c] = "idle"]
  /\ result' = [result EXCEPT ![c] = r]

-----------------------------------------------------------------------------
(* Logic epoch.                                                            *)

(* A database fault may still happen.                                     *)
Fault == faults < MaxFaults /\ faults' = faults + 1

(* InitializeEpoch, statement 1: c.db.First(&logicEp, defaultEpochPK).     *)
(* A record means nothing to do; ErrRecordNotFound leads to Create; any    *)
(* other error (a fault) is returned as ErrMetaOpFail.                     *)
InitializeEpochFirst(c) ==
  /\ Idle(c)
  /\ calls' = [calls EXCEPT ![c] = @ + 1]
  /\ \/ /\ hasEpoch
        /\ result' = [result EXCEPT ![c] = "initOk"]
        /\ UNCHANGED <<pc, faults>>
     \/ /\ ~hasEpoch
        /\ pc' = [pc EXCEPT ![c] = "initCreate"]
        /\ UNCHANGED <<result, faults>>
     \/ /\ Fault
        /\ result' = [result EXCEPT ![c] = "initErr"]
        /\ UNCHANGED pc
  /\ UNCHANGED <<hasEpoch, epoch, rowLock, rows, opLog, mine, arg, commits, found, sel>>

(* InitializeEpoch, statement 2: Create the record with defaultMinEpoch.   *)
(* A duplicate primary key is returned as ErrMetaOpFail.  The INSERT waits *)
(* while a GenEpoch transaction holds the key's lock (InnoDB locks the gap *)
(* of a missing key on UPDATE).  A fault is returned as ErrMetaOpFail      *)
(* too: the INSERT failed, or it was applied and only the answer was lost. *)
InitializeEpochCreate(c) ==
  /\ pc[c] = "initCreate"
  /\ rowLock = NoClient
  /\ \/ /\ hasEpoch
        /\ Return(c, "initErr")
        /\ UNCHANGED <<hasEpoch, epoch, faults>>
     \/ /\ ~hasEpoch
        /\ hasEpoch' = TRUE
        /\ epoch' = MinEpoch
        /\ Return(c, "initOk")
        /\ UNCHANGED faults
     \/ /\ ~hasEpoch
        /\ Fault
        /\ Return(c, "initErr")
        /\ UNCHANGED <<hasEpoch, epoch>>
     \/ /\ ~hasEpoch
        /\ Fault
        /\ hasEpoch' = TRUE
        /\ epoch' = MinEpoch
        /\ Return(c, "initErr")
  /\ UNCHANGED <<rowLock, rows, opLog, mine, arg, commits, found, sel, calls>>

(* GenEpoch is called: db.Transaction begins.                              *)
GenEpochBegin(c) ==
  /\ Idle(c)
  /\ Start(c, "genUpdate")
  /\ UNCHANGED <<hasEpoch, epoch, rowLock, rows, opLog, mine, arg, result, commits, found, sel, faults>>

(* Mutant: the error path releases the lock but keeps the increment, as   *)
(* if the UPDATE had run in autocommit mode outside the transaction.       *)
Rollback_NoUndo(c) ==
  /\ rowLock' = NoClient
  /\ Return(c, "genErr")
  /\ UNCHANGED epoch

(* Rollback: the UPDATE's increment is undone, the row lock released.      *)
Rollback(c) ==
  /\ epoch' = IF hasEpoch THEN epoch - 1 ELSE epoch
  /\ rowLock' = NoClient
  /\ Return(c, "genErr")

(* (1) UPDATE epoch = epoch + 1 WHERE seq_id = defaultEpochPK: waits for   *)
(* the row lock, then holds it to commit.  With no record the UPDATE       *)
(* matches no row and is no error.  A fault (an error, or the lock-wait    *)
(* timeout while another transaction holds the lock) fails the statement: *)
(* nothing was changed, the transaction rolls back and GenEpoch returns 0  *)
(* and ErrMetaOpFail.                                                      *)
GenEpochUpdate(c) ==
  /\ pc[c] = "genUpdate"
  /\ \/ /\ rowLock = NoClient
        /\ rowLock' = c
        /\ epoch' = IF hasEpoch THEN epoch + 1 ELSE epoch
        /\ pc' = [pc EXCEPT ![c] = "genSelect"]
        /\ UNCHANGED <<result, faults>>
     \/ /\ Fault
        /\ Return(c, "genErr")
        /\ UNCHANGED <<epoch, rowLock>>
  /\ UNCHANGED <<hasEpoch, rows, opLog, mine, arg, commits, found, sel, calls>>

(* Mutant: a missing record returns without rolling back the transaction. *)
GenEpochSelect_NoRollback(c) ==
  /\ pc[c] = "genSelect"
  /\ IF hasEpoch
     THEN /\ sel' = [sel EXCEPT ![c] = epoch]
          /\ pc' = [pc EXCEPT ![c] = "genCommit"]
          /\ UNCHANGED <<result, rowLock>>
     ELSE /\ Return(c, "genErr")
          /\ UNCHANGED <<sel, rowLock>>
  /\ UNCHANGED <<hasEpoch, epoch, rows, opLog, mine, arg, commits, found, faults, calls>>

(* (2) SELECT the record (First): its epoch is kept for the caller.         *)
(* ErrRecordNotFound, or a fault, makes the callback return the error, and *)
(* the transaction rolls back.                                              *)
GenEpochSelect(c) ==
  /\ pc[c] = "genSelect"
  /\ \/ /\ hasEpoch
        /\ sel' = [sel EXCEPT ![c] = epoch]
        /\ pc' = [pc EXCEPT ![c] = "genCommit"]
        /\ UNCHANGED <<epoch, rowLock, result, faults>>
     \/ /\ ~hasEpoch
        /\ Rollback(c)
        /\ UNCHANGED <<sel, faults>>
     \/ /\ hasEpoch
        /\ Fault
        /\ Rollback(c)
        /\ UNCHANGED sel
  /\ UNCHANGED <<hasEpoch, rows, opLog, mine, arg, commits, found, calls>>

(* (3) The callback returns nil and db.Transaction commits, releasing the  *)
(* lock; GenEpoch returns the epoch read.  A failing COMMIT is returned as *)
(* ErrMetaOpFail: either the server rolled back, or it committed and only  *)
(* the answer was lost (the connection dropped during COMMIT).             *)
GenEpochCommit(c) ==
  /\ pc[c] = "genCommit"
  /\ \/ /\ commits' = Append(commits, [epoch |-> sel[c], returned |-> TRUE])
        /\ rowLock' = NoClient
        /\ Return(c, "genOk")
        /\ UNCHANGED <<epoch, faults>>
     \/ /\ Fault
        /\ Rollback(c)
        /\ UNCHANGED commits
     \/ /\ Fault
        /\ commits' = Append(commits, [epoch |-> sel[c], returned |-> FALSE])
        /\ rowLock' = NoClient
        /\ Return(c, "genErr")
        /\ UNCHANGED epoch
  /\ UNCHANGED <<hasEpoch, rows, opLog, mine, arg, found, sel, calls>>

-----------------------------------------------------------------------------
(* Rows.                                                                   *)

(* History: client c's statement touches row r.  Every other client stops  *)
(* checking its own write to r, and c's own write becomes new.             *)
Touch(c, r, new) ==
  mine' = [d \in Clients |->
             IF d = c THEN new
             ELSE IF mine[d] # None /\ mine[d].row = r THEN None ELSE mine[d]]

(* c no longer vouches for r after writing it by other means.              *)
Forget(c, r) == IF mine[c] # None /\ mine[c].row = r THEN None ELSE mine[c]

(* isDuplicateEntryErr: the Create failed with MySQL error 1062, the key   *)
(* is taken.                                                               *)
DuplicateKey(r) == r \in DOMAIN rows

(* UpsertX, statement 1: Create(x).  A duplicate key goes on to UpdateX.   *)
UpsertCreate(c, r, v) ==
  /\ Idle(c)
  /\ calls' = [calls EXCEPT ![c] = @ + 1]
  /\ IF DuplicateKey(r)
     THEN /\ pc' = [pc EXCEPT ![c] = "upsUpdate"]
          /\ arg' = [arg EXCEPT ![c] = [row |-> r, val |-> v]]
          /\ UNCHANGED <<rows, result>>
     ELSE /\ rows' = (r :> v) @@ rows
          /\ result' = [result EXCEPT ![c] = "ok"]
          /\ UNCHANGED <<pc, arg>>
  /\ Touch(c, r, [row |-> r, val |-> v])
  /\ UNCHANGED <<hasEpoch, epoch, rowLock, opLog, commits, found, sel, faults>>

(* UPDATE ... SET ... WHERE <key> = x's key: no matching row is no error.  *)
SetRow(r, v) == IF r \in DOMAIN rows THEN [rows EXCEPT ![r] = v] ELSE rows

(* Mutant: the duplicate key is taken for success and UpdateX is skipped.  *)
UpsertUpdate_Skip(c) ==
  /\ pc[c] = "upsUpdate"
  /\ Return(c, "ok")
  /\ Touch(c, arg[c].row, mine[c])
  /\ UNCHANGED <<hasEpoch, epoch, rowLock, rows, opLog, arg, commits, found, sel, faults, calls>>

(* UpsertX, statement 2: UpdateX(x), after the duplicate key.              *)
UpsertUpdate(c) ==
  /\ pc[c] = "upsUpdate"
  /\ rows' = SetRow(arg[c].row, arg[c].val)
  /\ Return(c, "ok")
  /\ Touch(c, arg[c].row, mine[c])
  /\ UNCHANGED <<hasEpoch, epoch, rowLock, opLog, arg, commits, found, sel, faults, calls>>

(* UpdateX called directly.                                                *)
Update(c, r, v) ==
  /\ Idle(c)
  /\ calls' = [calls EXCEPT ![c] = @ + 1]
  /\ rows' = SetRow(r, v)
  /\ result' = [result EXCEPT ![c] = "ok"]
  /\ Touch(c, r, Forget(c, r))
  /\ UNCHANGED <<hasEpoch, epoch, rowLock, opLog, pc, arg, commits, found, sel, faults>>

(* DeleteX: DELETE WHERE <key> = id; no matching row is no error.          *)
Delete(c, r) ==
  /\ Idle(c)
  /\ calls' = [calls EXCEPT ![c] = @ + 1]
  /\ rows' = [k \in DOMAIN rows \ {r} |-> rows[k]]
  /\ result' = [result EXCEPT ![c] = "ok"]
  /\ Touch(c, r, Forget(c, r))
  /\ UNCHANGED <<hasEpoch, epoch, rowLock, opLog, pc, arg, commits, found, sel, faults>>

(* GetXByID: First(&x) WHERE <key> = id; ErrRecordNotFound becomes         *)
(* ErrMetaEntryNotFound.                                                   *)
GetByID(c, r) ==
  /\ Idle(c)
  /\ calls' = [calls EXCEPT ![c] = @ + 1]
  /\ result' = [result EXCEPT ![c] = IF r \in DOMAIN rows THEN rows[r] ELSE "notFound"]
  /\ UNCHANGED <<hasEpoch, epoch, rowLock, rows, opLog, pc, arg, commits, found, sel, faults, mine>>

(* AddProject: a plain Create; a duplicate key is returned as               *)
(* ErrMetaOpFail and writes nothing.                                        *)
AddProject(c, id, v) ==
  /\ Idle(c)
  /\ calls' = [calls EXCEPT ![c] = @ + 1]
  /\ LET r == <<"project", id>> IN
     IF r \in DOMAIN rows
     THEN /\ result' = [result EXCEPT ![c] = "fail"]
          /\ UNCHANGED <<rows, mine>>
     ELSE /\ rows' = (r :> v) @@ rows
          /\ result' = [result EXCEPT ![c] = "ok"]
          /\ Touch(c, r, [row |-> r, val |-> v])
  /\ UNCHANGED <<hasEpoch, epoch, rowLock, opLog, pc, arg, commits, found, sel, faults>>

(* AddProjectOperation: Create of a row whose key the database assigns.    *)
AddProjectOperation(c) ==
  /\ Idle(c)
  /\ calls' = [calls EXCEPT ![c] = @ + 1]
  /\ opLog' = opLog + 1
  /\ result' = [result EXCEPT ![c] = "ok"]
  /\ UNCHANGED <<hasEpoch, epoch, rowLock, rows, pc, arg, commits, found, sel, faults, mine>>

(* A nil project, operation, job, worker or resource is refused before any *)
(* statement runs.                                                         *)
NilArgument(c) ==
  /\ Idle(c)
  /\ calls' = [calls EXCEPT ![c] = @ + 1]
  /\ result' = [result EXCEPT ![c] = "fail"]
  /\ UNCHANGED <<hasEpoch, epoch, rowLock, rows, opLog, pc, arg, commits, found, sel, faults, mine>>

(* The operations of the Client interface, table by table.                 *)
UpsertJob(c, id, v) == UpsertCreate(c, <<"job", id>>, v)
UpdateJob(c, id, v) == Update(c, <<"job", id>>, v)

(* Mutant: a soft delete that keeps the row with a deleted marker.        *)
DeleteJob_Soft(c, id) ==
  /\ Idle(c)
  /\ calls' = [calls EXCEPT ![c] = @ + 1]
  /\ rows' = [k \in DOMAIN rows |-> IF k = <<"job", id>> THEN "deleted" ELSE rows[k]]
  /\ result' = [result EXCEPT ![c] = "ok"]
  /\ UNCHANGED <<hasEpoch, epoch, rowLock, opLog, pc, arg, commits, found, sel, faults, mine>>

DeleteJob(c, id) == Delete(c, <<"job", id>>)
GetJobByID(c, id) == GetByID(c, <<"job", id>>)
UpsertWorker(c, id, v) == UpsertCreate(c, <<"worker", id>>, v)
UpdateWorker(c, id, v) == Update(c, <<"worker", id>>, v)
DeleteWorker(c, id) == Delete(c, <<"worker", id>>)
GetWorkerByID(c, id) == GetByID(c, <<"worker", id>>)
UpsertResource(c, id, v) == UpsertCreate(c, <<"resource", id>>, v)
UpdateResource(c, id, v) == Update(c, <<"resource", id>>, v)
DeleteResource(c, id) == Delete(c, <<"resource", id>>)
GetResourceByID(c, id) == GetByID(c, <<"resource", id>>)
DeleteProject(c, id) == Delete(c, <<"project", id>>)
GetProjectByID(c, id) == GetByID(c, <<"project", id>>)

(* The list queries: one SELECT ... WHERE <filter> (db.Where(...).Find)    *)
(* that returns every row of the table matching the filter, at the moment  *)
(* the statement runs.  The filter columns (project_id, job_id, status,    *)
(* executor_id) are part of a row's value, so a filter is the set of       *)
(* values that match it; an unfiltered Find matches every value.           *)
Filters == SUBSET Values

Find(c, t, match) ==
  /\ Idle(c)
  /\ calls' = [calls EXCEPT ![c] = @ + 1]
  /\ result' = [result EXCEPT ![c] = "ok"]
  /\ found' = [found EXCEPT ![c] =
                 {rows[r] : r \in {k \in DOMAIN rows : k[1] = t /\ rows[k] \in match}}]
  /\ UNCHANGED <<hasEpoch, epoch, rowLock, rows, opLog, pc, arg, commits, sel, faults, mine>>

(* QueryProjectOperations(ByTimeRange): the rows of project_operations for *)
(* one project (and time range).  Which rows those are is not modelled, so *)
(* its rows are left out and the call only succeeds.                       *)
QueryProjectOperations(c) ==
  /\ Idle(c)
  /\ calls' = [calls EXCEPT ![c] = @ + 1]
  /\ result' = [result EXCEPT ![c] = "ok"]
  /\ UNCHANGED <<hasEpoch, epoch, rowLock, rows, opLog, pc, arg, commits, found, sel, faults, mine>>

QueryProjects(c) == Find(c, "project", Values)
QueryJobs(c) == Find(c, "job", Values)
QueryJobsByProjectID(c, match) == Find(c, "job", match)
QueryJobsByStatus(c, match) == Find(c, "job", match)
QueryWorkersByMasterID(c, match) == Find(c, "worker", match)
QueryWorkersByStatus(c, match) == Find(c, "worker", match)
QueryResources(c) == Find(c, "resource", Values)
QueryResourcesByJobID(c, match) == Find(c, "resource", match)
QueryResourcesByExecutorID(c, match) == Find(c, "resource", match)

-----------------------------------------------------------------------------

Init ==
  /\ hasEpoch = FALSE
  /\ epoch = 0
  /\ rowLock = NoClient
  /\ rows = << >>
  /\ opLog = 0
  /\ pc = [c \in Clients |-> "idle"]
  /\ arg = [c \in Clients |-> [row |-> CHOOSE r \in Rows : TRUE,
                               val |-> CHOOSE v \in Values : TRUE]]
  /\ result = [c \in Clients |-> "none"]
  /\ sel = [c \in Clients |-> 0]
  /\ faults = 0
  /\ commits = << >>
  /\ found = [c \in Clients |-> {}]
  /\ mine = [c \in Clients |-> None]
  /\ calls = [c \in Clients |-> 0]

Client(c) ==
  \/ InitializeEpochFirst(c) \/ InitializeEpochCreate(c)
  \/ GenEpochBegin(c) \/ GenEpochUpdate(c) \/ GenEpochSelect(c) \/ GenEpochCommit(c)
  \/ \E id \in IDs, v \in Values :
       \/ UpsertJob(c, id, v) \/ UpdateJob(c, id, v)
       \/ UpsertWorker(c, id, v) \/ UpdateWorker(c, id, v)
       \/ UpsertResource(c, id, v) \/ UpdateResource(c, id, v)
       \/ AddProject(c, id, v)
  \/ UpsertUpdate(c)
  \/ \E id \in IDs :
       \/ DeleteJob(c, id) \/ DeleteWorker(c, id) \/ DeleteResource(c, id)
       \/ DeleteProject(c, id)
       \/ GetJobByID(c, id) \/ GetWorkerByID(c, id) \/ GetResourceByID(c, id)
       \/ GetProjectByID(c, id)
  \/ AddProjectOperation(c)
  \/ NilArgument(c)
  \/ QueryProjects(c) \/ QueryJobs(c) \/ QueryResources(c)
  \/ QueryProjectOperations(c)
  \/ \E match \in Filters :
       \/ QueryJobsByProjectID(c, match) \/ QueryJobsByStatus(c, match)
       \/ QueryWorkersByMasterID(c, match) \/ QueryWorkersByStatus(c, match)
       \/ QueryResourcesByJobID(c, match) \/ QueryResourcesByExecutorID(c, match)

(* The system stops once every client has made its calls.                 *)
Next == \E c \in Clients : Client(c)

(* The database serves every statement a client issues, and a client whose *)
(* statement can run keeps going; clients need not make new calls.         *)
InCall(c) ==
  InitializeEpochCreate(c) \/ GenEpochUpdate(c) \/ GenEpochSelect(c)
  \/ GenEpochCommit(c)  \/ UpsertUpdate(c)

Spec == Init /\ [][Next]_vars /\ \A c \in Clients : WF_vars(InCall(c))

-----------------------------------------------------------------------------
(* Properties.                                                             *)

TypeOK ==
  /\ hasEpoch \in BOOLEAN
  /\ epoch \in Nat
  /\ rowLock \in Clients \cup {NoClient}
  /\ DOMAIN rows \subseteq Rows
  /\ \A r \in DOMAIN rows : rows[r] \in Values
  /\ opLog \in Nat
  /\ pc \in [Clients -> {"idle", "initCreate", "genUpdate", "genSelect", "genCommit",
                         "upsUpdate"}]
  /\ arg \in [Clients -> [row : Rows, val : Values]]
  /\ result \in [Clients -> {"none", "initOk", "initErr", "genOk", "genErr", "ok",
                             "fail", "notFound"} \cup Values]
  /\ found \in [Clients -> Filters]
  /\ sel \in [Clients -> Nat]
  /\ faults \in 0..MaxFaults
  /\ commits \in Seq([epoch : Nat, returned : BOOLEAN])
  /\ mine \in [Clients -> [row : Rows, val : Values] \cup {None}]
  /\ calls \in [Clients -> 0..MaxCalls]

(* After an upsert or AddProject returns, the row holds what the client    *)
(* wrote until some call touches that row again: the Create and the        *)
(* UpdateX of UpsertX together leave the client's value, whichever client   *)
(* created the row first.  Calls of other clients that touch the row       *)
(* after the upsert began, a Delete between its two statements included,   *)
(* release the claim.  About UpsertJob, UpsertWorker and UpsertResource.    *)
OwnWriteVisible ==
  \A c \in Clients :
    pc[c] = "idle" /\ mine[c] # None =>
      /\ mine[c].row \in DOMAIN rows
      /\ rows[mine[c].row] = mine[c].val

(* The committed epoch: the UPDATE of the transaction holding the row     *)
(* lock is not committed yet, and no other client sees it.                 *)
CommittedEpoch == IF rowLock # NoClient /\ hasEpoch THEN epoch - 1 ELSE epoch

Counter == INSTANCE EpochCounter WITH
             epoch <- CommittedEpoch,
             given <- [i \in 1..Len(commits) |-> commits[i].epoch]

(* InitializeEpoch and GenEpoch implement the epoch counter of spec.md 6:  *)
(* every GenEpoch that commits is one atomic increment-and-read, and one   *)
(* that fails changes nothing.  So the epochs handed out across all server *)
(* masters are MinEpoch+1, MinEpoch+2, ... in commit order, none twice.    *)
(* This covers a commit whose answer was lost: its caller gets an error,   *)
(* its epoch is burnt, and later callers see a gap but never a repeat.     *)
(* About concurrent transactions interleaving their UPDATE and SELECT, and *)
(* a failing UPDATE, SELECT or COMMIT rolling the increment back.          *)
ImplementsEpochCounter == Counter!Spec

(* A GenEpoch call always returns, successfully or not: the transaction     *)
(* never leaves the row lock held for the other server masters.             *)
GenEpochReturns ==
  \A c \in Clients : pc[c] = "genUpdate" ~> pc[c] = "idle"

(* Without database faults, InitializeEpoch never fails: "check and add   *)
(* first record if not exists" is idempotent.  About two server masters     *)
(* initialising a fresh database at the same time.                          *)
InitializeEpochSucceeds ==
  \A c \in Clients : result[c] # "initErr"

=============================================================================
