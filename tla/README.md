# TLA+ models of the microcosm job/worker core

This directory holds TLA+ models of the job lifecycle and dispatch core of the
repository (`src/`). It also holds the TLC configurations that check them.
Every definition comes from the Go source. Code that is not under `src/`
(job manager, `taskContainer`, worker framework, heartbeat library) is modelled
from `spec.md` and marked `spec_modelled` in `PROJECT.json`.

## 1. Inventory

| Component | Source | State | Operations | Interacts with |
|---|---|---|---|---|
| Job FSM | `servermaster/job_fsm.go` | `pendingJobs`, `waitAckJobs` (with `addFromFailover`), `onlineJobs`, all under `jobsMu` | `JobDispatched`, `IterPendingJobs`, `IterWaitAckJobs`, `JobOnline`, `JobOffline`, `JobDispatchFailed`, `QueryJob`, `QueryOnlineJob`, `JobCount` | Called by the job manager (not in src): on submit, from the 1 s dispatcher loop, and on worker online/offline/dispatch-failure callbacks. Calls the job manager's `dispatchJobFn` under the lock |
| Executor runtime | `executor/runtime/runtime.go` | FIFO `queue` of task containers (mutex) | `Run` loop: pop, `Poll`, `tryBlock`, `setRunnable` + push | Task containers and their wake-up sources (not in src), ctx |
| CSV copy worker | `unnamed/part_000` (`cvsTask`) | `statusCode`, `runError` (two RW locks), `buffer` chan (1024), `counter`, `curLoc`, rate limiter | `InitImpl` (starts Receive and Send goroutines), `Tick`, `Status`, `CloseImpl`, `Receive`, `Send` | Worker framework (`BaseWorker.UpdateStatus`, `Exit`), upstream/downstream gRPC |
| Fake worker | `unnamed/part_000` (`dummyWorker`) | `init`, `closed`, `tick` | `InitImpl`, `Tick`, `Status`, `CloseImpl` | Worker framework |
| DM dump worker | `jobmaster/dm/dump_worker.go` | `unitHolder` | `InitImpl`, `Tick`, `Status`, `CloseImpl` | dumpling unit |
| Worker protocol types | `unnamed/part_001` | Timeouts (15 s worker, +5 s master grace, 3 s heartbeat and status, 1 s check loop); ping/pong messages with epoch | (types only) | Heartbeat library (not in src) |
| Meta KV mock | `pkg/meta/kvclient/mock/simple_mockclient.go` | `store`, `revision` (mutex) | `Put`, `Get` (prefix scan), `Delete`, `Txn().Do().Commit()` | Tests of the worker framework |
| KV response conversion | `unnamed/part_003` | none | `makeGetResp`, `makeTxnResp`, ... | etcd client |
| ORM metastore client | `pkg/orm/client.go` | SQL tables: epoch, jobs, workers, resources, projects | `InitializeEpoch`, `GenEpoch`, `Upsert*`, `Update*`, `Delete*`, `Get*`, `Query*` | Server master (epoch, MasterMeta persistence) |
| Errors | `pkg/errors/errors.go`, `unnamed/part_002` | none | `ToPBError`, `WrapError` | all |
| Debug HTTP, interfaces | `unnamed/part_000` (`httpHandler`), `jobmaster/system/interface.go`, `externalresource/broker/interfaces.go` | none | I/O or declarations only | - |

**What is hard.**
- Every JobFsm method is one critical section, but the job manager calls it
  from several goroutines: the dispatcher loop, heartbeat callbacks and
  queries. Between those calls, job masters crash, time out, finish or come
  online.
- `QueryJob` releases the lock between its three checks.
- After a server-master failover the FSM is rebuilt while the old job masters
  keep running.
- In the runtime, a wake-up races the `Poll`/`tryBlock` window.
- In the CSV worker, two goroutines race to write the status.
- The metastore mock and the ORM client carry out multi-step operations
  (transaction, upsert, epoch initialisation) without atomicity.

**What makes each component correct.**
- Job FSM: an unfinished job is held under exactly one key, and nothing
  is held for a finished job. A living job master is known under its own
  id. No job is run by two live job masters. A query never reports a live
  job as missing. Every submitted job eventually comes online.
- Runtime: a container has exactly one owner (the queue once, the runner,
  or parked). No wake-up is lost. A Ready task is dropped.
- Workers: a terminal status is sticky, and Exit eventually follows it.
  Status reports stay within the rate limit. Finished implies that every
  line read was written.
- Metastore: epochs are strictly increasing and unique, and an upsert leaves
  its value until another call touches the row. The contract's transactions
  are atomic and its Get reads one key unless asked for a prefix; the
  in-memory mock meets neither.

## 2. Plan and status

1. **`JobFsm`** (done): the FSM, the job manager around it, job-master
   processes and server-master failover. **`JobLifecycle`** (done) is the
   transition table of spec.md 4.4, and `JobFsm` is shown to refine it.
2. **`Runtime`** (done): the executor run loop and the container wake-up
   protocol.
3. **`CvsTask`** (done): the CSV worker's Receive/Send pipeline over a
   bounded buffer, the status races, and Tick with its rate limiter and Exit.
4. **`OrmClient`** (done: epochs, with database faults, refining
   **`EpochCounter`**, and every row write of the four tables), **`MetaMock`**
   checked against **`MetaStore`** (done; it does not refine it), and
   **`KvConv`** (done): `makeGetResp` and `makeTxnResp` as operators
   compared with what a caller is meant to receive.
5. Still open:
   - **`Heartbeat`** (from spec.md 4.2): ping/pong with epochs and the two
     timeouts in discrete time, composed with `JobFsm` so that timeouts
     drive `JobOffline`. The constants it needs are in `part_001`.

## 3. Modules and runs

The project has at most a dozen runs. Each asks one question. Disagreements
found while modelling that no run keeps are listed at the end of the section
for each module. Every module defines a `TypeOK`; it is checked where it says
more than the guards of the actions (`jobfsm_norestart`, `ormclient`). In
`Runtime` and `CvsTask` it would restate the queue's and the channel's bounds.

### JobFsm (`JobFsm.tla`, `MCJobFsm.tla`)

**Correspondence with the code.** The three Go maps are partial functions
from ids to jobs (`waitAckJobs` values are records `[job, addFromFailover]`).
Each method is an operator over the three maps:

- `IterPendingJobs` moves an arbitrary subset of the pending jobs. That is
  what Go's random map order combined with "stop at the first error" allows.
  It re-keys each moved job by a fresh id and creates a job master for it.
- `IterWaitAckJobs` creates a job master for each flagged entry it reaches.
  It clears the flag and leaves the key as it was.
- `QueryJob` is the actions `QueryStart`, `CheckPendingJob`,
  `CheckWaitAckJob`, `CheckOnlineJob` and `QueryDone`, one per lock.

The environment is modelled from spec.md 4.4-4.5:

- `SubmitJob` is CreateWorker followed by `JobDispatched(meta, false)`.
- A job master moves through created → running (first heartbeat,
  `JobOnline`) → gone (finished, `JobOffline(false)`).
- A running job master's online message can reach the master again
  (`WorkerOnlineAgain`): its re-handshake after a server-master failover
  brings the job from waitAck to online without a re-dispatch (spec.md 8,
  scenario 4), and a duplicate message fails with WorkerNotFound. That
  branch of `JobOnline`, and the one of `JobDispatchFailed`, are also taken
  by the job masters `IterWaitAckJobs` re-creates under ids the FSM never
  records.
- A job master may also crash (dead), then time out (`JobOffline(true)`).
- A dispatch may fail (`JobDispatchFailed`).
- `ServerMasterFailover` rebuilds the maps: every live job goes into
  waitAck with `addFromFailover`.

**Bounds.** Two jobs. Six ids without failover (two submissions, two
failures, and a re-dispatch after each). Five ids with one failover and one
failure. `MaxFailures` and `MaxRestarts` are named bounds. The `ASSUME` makes
sure no run stalls for lack of ids.

**Fairness.** The dispatcher loop runs every second. A live job master
heartbeats every 3 s. A dead one times out after 20 s. So `IterPendingJobs`,
`WorkerOnline` and `WorkerTimeout` are weakly fair. Crashes, failures,
submissions, finishing and queries are not fair.

| Run | Expect | Shows |
|---|---|---|
| `jobfsm_norestart` | pass | `LiveJobTrackedOnce`, `FinishedJobReleased`, `NoOrphanWorker`, `AtMostOneLiveWorker`, `JobEventuallyOnline` and `FollowsLifecycle` hold under crashes, dispatch failures and re-dispatch |
| `jobfsm_failover` | pass | One failover: no unfinished job is lost or held twice, and the lifecycle is followed (symmetry on jobs and ids) |
| `jobfsm_orphan` | violation | `IterWaitAckJobs` discards the new id, so the re-created job master is unknown to the FSM. Its heartbeat fails with WorkerNotFound, and the entry leaks after the job finishes |
| `jobfsm_double` | violation | `IterWaitAckJobs` re-creates a job whose job master is alive but has not heartbeated yet |
| `jobfsm_query` | violation | In 7 steps, `QueryJob` reports a job that moved waitAck → pending between its checks as not found |

**Refinement.** `JobLifecycle.tla` is the transition table of spec.md 4.4
for each job: none, pending, waitAck, online, finished. A tracked job moves
only along the table's rows. Finished is a sink. A failover reloads every
tracked job into waitAck. `JobFsm` maps a job to the map that holds it
(`LifecycleStatus`), and `FollowsLifecycle == Lifecycle!Spec` is checked as a
property in both passing runs. One difference is built into the abstract
module: a new job enters at waitAck, not at pending as the table says.
`job_fsm.go` has no operation that adds a new job to pending. Its only entry
point is `JobDispatched`.

### Runtime (`Runtime.tla`, `MCRuntime.tla`)

**Correspondence with the code.** `q` is `Runtime.q.tasks`. The Run loop has
four steps: `PopTask` (ctx check + `q.pop`), `PollTask`, `TryBlock` and
`Requeue` (`setRunnable` + `q.push`). `QueuePop` and `QueuePush` are
`queue.pop` and `queue.push`, each one step under the queue's mutex. An empty
queue's `nil` is the idle `continue` of `Run`, a step that changes nothing.
`taskContainer` is modelled from spec.md 4.1:

- `Poll` may return Ready, Pending or Blocked. Once it has returned Ready,
  it keeps returning Ready.
- A wake-up re-queues a parked container. Otherwise it leaves a
  notification, and `tryBlock` then refuses to park.

Three containers. `Run` is weakly fair, because it is a busy loop on its own
goroutine. Deadlock is not checked, because `Run` idles on an empty queue.

| Run | Expect | Shows |
|---|---|---|
| `runtime` | pass | `SingleOwner` (spec.md invariant 4) and `NoLostWakeup` (P5) |

Not kept as a run: `ReadyDropped` (spec.md 4.1, "Ready: dropped") fails in
four steps. `Run` calls `setRunnable` and `q.push` whatever `Poll` returned
(`runtime.go:52`), so a finished task is polled again forever. To reproduce,
check `INVARIANT ReadyDropped` with `Runtime.cfg`'s constants.

### CvsTask (`CvsTask.tla`, `MCCvsTask.tla`)

**Correspondence with the code.** `cvsTask` in `unnamed/part_000`. The
variables follow the struct:
- `status` and `runErr` are `statusCode` and `runError`;
- `buf` and `bclosed` are the `buffer` channel;
- `counter` and `curLoc` are what Send records;
- `token` and `ticks` are the rate limiter (rate 1/s, burst 1) and the
  framework's tick cadence;
- `exited` and `exitErr` record the call to `BaseWorker.Exit`.

The two goroutines started by `InitImpl` are `Receive` and `Send`. Each is
split at its blocking points: dial, `Recv`, buffer put, `Send` on the stream,
`CloseAndRecv`, and the two writes of the goroutine's error epilogue
(`setRunError`, then `setStatusCode`). A gRPC call may fail with any of a
small set of error kinds. It fails with `context.Canceled` once the context
is cancelled.
- `CloseImpl` cancels the context.
- `Tick` either spends the token on `UpdateStatus`, or, with no token, reads
  the status code. On a terminal code, `TickExit` then reads `Status()` and
  `getRunError()` and calls `Exit`; the reads are separate steps, in the
  code's order. An error `UpdateStatus` returns (other than TryAgain) is
  handed back to the framework, which is outside `src/`, so the model's
  `Tick` always returns nil (`part_000:153`).
- `NextSecond` refills the token after `TicksPerSec` ticks.

**Bounds.** Three lines through a buffer of two. The reader then blocks on a
full buffer and closes it with lines still queued. `TicksPerSec = 2`.

**Fairness.** The Go scheduler runs runnable goroutines (weak fairness of
`Receive` and `Send`). The framework calls `InitImpl`, then `Tick` on a fixed
cadence (weak fairness of `InitImpl`, `Tick` and `NextSecond`). `CloseImpl`
is left to the framework and is not fair.

| Run | Expect | Shows |
|---|---|---|
| `cvstask` | pass | Finished only after every line was written (`FinishedAllSent`). Once the status is Finished or Error it never changes, although both goroutines write it (`TerminalSticky`). An Error exit carries an error (`ErrorHasCause`). Exit eventually happens (`EventuallyExit`) |
| `cvstask_rootcause` | violation | `reader.Recv` fails, and Receive cancels the context (`part_000:216`) and stores the read error. Send's select then returns `ctx.Err()` (`part_000:272`), and its goroutine's `setRunError` runs last, so `Exit` reports `context.Canceled` and not the read failure (`part_000:133`) |

Not kept as a run: with `TicksPerSec = 1`, the limiter grants the token on
every tick. `Tick` then never reaches the `Exit` branch (`part_000:147`), and
`EventuallyExit` fails. spec.md 4.3 says only that the next successful tick
calls `Exit`.

### OrmClient (`OrmClient.tla`, `EpochCounter.tla`, `MCOrmClient.tla`)

**Correspondence with the code.** `metaOpsClient` in `pkg/orm/client.go`,
shared by several server-master processes over one MySQL database. gorm runs
with `SkipDefaultTransaction`, so each statement is one atomic step and only
`GenEpoch` is a transaction.
- `InitializeEpoch` is `First`, then `Create`.
- `GenEpoch` is begin, `UPDATE` (takes the row lock), `SELECT`, and
  `COMMIT` or rollback (releases it).
- Fault model: up to `MaxFaults` database faults hit `GenEpoch`. (`Fault`
  counts them.) The `UPDATE` can fail, with an error or a lock-wait timeout,
  and nothing changes. The `SELECT` can fail, and the transaction rolls back.
  The `COMMIT` can fail in one of two ways: the server rolled back, or it
  committed and only the answer was lost. Either way the caller gets
  `ErrMetaOpFail`. `sel` holds the epoch each client's `SELECT` read.
  Faults also hit `InitializeEpoch`: its `First` can fail, and its `Create`
  can fail or be applied with only the answer lost. The caller then retries,
  and the retry's `First` finds the record.
- The job, worker and resource tables run the same code. `UpsertX` is
  `Create`, then `UpdateX` on a duplicate key (`isDuplicateEntryErr`,
  `DuplicateKey`). A duplicate key means a row with the same id: the
  auto-increment `seq_id` primary key that the tests set by hand
  (`TestJobMock`'s second `UpsertJob`) is not modelled, since the code never
  sets it. `UpdateX`, `DeleteX` and `GetXByID` are one statement
  each. The model writes this once (`UpsertCreate`, `UpsertUpdate`, `Update`,
  `Delete`, `GetByID`) over `rows`, a partial function from
  `<<table, id>>` to a value. One-line operators named after the code's
  functions (`UpsertWorker`, `DeleteResource`, ...) apply it to each table.
  A worker's key `<<job_id, id>>` is one id of the model.
- `AddProject` is a plain `Create`: a taken id fails and writes nothing.
  `DeleteProject` and `GetProjectByID` are the same as on the other tables.
  `AddProjectOperation` adds a row whose key the database assigns
  (`opLog` counts them).
- `NilArgument`: a nil project, operation, job, worker or resource is refused
  before any statement runs.
- The list queries (`QueryProjects`, `QueryJobs`, `QueryJobsByProjectID`,
  `QueryJobsByStatus`, `QueryWorkersByMasterID`, `QueryWorkersByStatus`,
  `QueryResources`, `QueryResourcesByJobID`, `QueryResourcesByExecutorID`)
  are each one `Find` over a table. The `Where` columns (project, job,
  status, executor) belong to a row's value, so a filter is a set of values
  (`Filters`). `found` holds the values the client's last query returned.
  `QueryProjectOperations(ByTimeRange)` only succeeds: the model does not
  record which operation rows belong to which project.

InnoDB's gap lock makes a `Create` of the epoch record wait while another
transaction's `UPDATE` holds the (missing) row's lock.

**Refinement.** `EpochCounter.tla` is the epoch generator of spec.md 6,
seen from its callers. `InitializeEpoch` creates the record with
`MinEpoch`. Each `GenEpoch` that takes effect adds one and hands out the new
value, in one step. The mapping (`CommittedEpoch`) hides the increment of
the transaction that holds the row lock, since no other client can see it
before the commit. So the linearisation point of `GenEpoch` is its
`COMMIT`. The abstract `given` is the sequence of committed epochs.

`commits` is a history
variable. It records every committed `GenEpoch`, in commit order, with its
epoch and whether the caller was told it succeeded. `mine` is also a history
variable. It holds the row and value a client last wrote by `UpsertX` or
`AddProject`. The claim is released when a call of another client touches
that row, or when the client itself updates or deletes it.

**Bounds.** Two clients and two calls each, with one id per table, two
values and one database fault (`MaxFaults = 1`). The `ormclient_init` run
uses no faults. That is enough for an initialisation followed by two interleaved
`GenEpoch` transactions. It also lets two upserts of one row race, and lets a
delete land between the two statements of an upsert. With three calls each,
the state space has 2.5 million states and takes eight minutes. With the fault,
the run has 109,622 states and takes about 20 seconds. One fault is enough to
place a lost commit answer before a second `GenEpoch`.
Symmetry on clients and values. Deadlock is not checked: the clients stop
after `MaxCalls` calls.

**Fairness.** The database serves every statement that can run (weak
fairness of each client's in-call steps). Clients need not start new calls.

| Run | Expect | Shows |
|---|---|---|
| `ormclient` | pass | `ImplementsEpochCounter`: `InitializeEpoch` and `GenEpoch` refine `EpochCounter`, in which each `GenEpoch` that takes effect is one atomic increment-and-read. So committed epochs are MinEpoch+1, +2, ... in commit order. This includes a commit whose answer was lost, whose caller got an error. No epoch is ever handed out twice, and a lost answer only leaves a gap. `InitializeEpoch` creates the record once, even when a lost `Create` answer makes its caller retry, and even when a concurrent `GenEpoch` has already advanced the record (a `Create` that overwrote it would break the refinement). The row lock keeps a concurrent increment out of the window between `UPDATE` and `SELECT`. A failed statement or commit rolls the increment back. `OwnWriteVisible`: once an upsert or `AddProject` returns, the row holds the client's value until another call touches it, whichever client created the row first. `GenEpochReturns`: every GenEpoch returns, including on a missing record, whose rollback releases the lock |
| `ormclient_init` | violation | Two server masters initialising a fresh database both see no record. The second `Create` fails with a duplicate key, and `InitializeEpoch` returns an error (`client.go:214`) |

### KvConv (`KvConv.tla`, `MCKvConv.tla`)

`makeGetResp` and the recursive `makeTxnResp` of `unnamed/part_003` are
operators. `makePutResp` and `makeDeleteResp` are the leaf case of
`makeTxnResp`. Inputs are every range response of up to three key-values
(with deleted versions), and every transaction of up to two responses with
one level of nesting. The result is compared with `Reference`, what a caller
is meant to be given: one entry per live key-value in etcd's order (the
Version check's comment says deleted keys are not returned), and one per
transaction response.

| Run | Expect | Shows |
|---|---|---|
| `kvconv` | violation | In the initial state: both functions allocate with `make(len(n))` and then append (`part_003:19`, `:57`), so each response starts with n nil elements that a caller ranging over `Kvs` dereferences |

The conversions are pure, so a behaviour fixes one input and takes no step.

### MetaMock (`MetaMock.tla`, `MetaStore.tla`, `MCMetaMock.tla`)

`MetaStore.tla` is the metastore contract of spec.md 6: exact and prefix
`Get`, `Put`, `Delete`, and transactions whose `Commit` takes effect in one
step and answers with per-op responses. A caller may also drop a transaction
it never commits (`Abandon`). `MetaMock.tla` is
`pkg/meta/kvclient/mock/simple_mockclient.go`. No code under `src/` uses
this mock (the worker tests take `pkg/metadata`'s), and its comment says
"not support Option/txn yet".
- `Put`, `Delete` and `Get` each run under the mutex. `Get` is always a
  prefix scan and ignores its options.
- `Txn` gives the caller a `mockTxn`, and `Do` appends to it.
- `Commit` calls `Put` once per op (`CommitPut`), taking the lock afresh each
  time, with the op's value, empty for a delete op. It returns a nil
  response (`CommitEnd`) and leaves `t.ops` as it was. The caller still holds
  the `mockTxn` ("done"), and may `Do` more ops onto the old ones, commit it
  again, or let it go (`Release`).

`m.revision` is written by every call and read by none, so it is left out.
The refinement mapping puts the linearisation point of a transaction at the
first `Put` of its `Commit`. From then on, the abstract store already holds
the ops not yet applied. `ImplementsMetaStore == Store!Spec`.

| Run | Expect | Shows |
|---|---|---|
| `metamock` | violation | With two callers, put and delete ops and a key that is a prefix of another, in two steps: after `Put("a/b")`, `Get("a")` without the prefix option returns `a/b` (`simple_mockclient.go:80`) |

Other departures from the contract, each found by TLC when the ones before it
are taken out of `MetaMock.cfg`:
- With Gets limited to prefix scans, `Commit` answers nil where spec.md 6
  says every response carries a cluster id (`:31`).
- With the contract's response, a delete op in a transaction is applied as
  `Put(key, "")` (`:25`).
- With put ops only and no committed `mockTxn` reused, a second caller's
  `Get` between the two `Put`s of one `Commit` sees half a transaction
  (`:24`), in seven steps.

## 4. Not modelled

- Debug HTTP handler (`httpHandler`): pure I/O.
- `JobMaster` and `Broker` interfaces: declarations only.
- Error tables (`ToPBError`, `WrapError`): pure lookups with no state.
- Worker protocol types (`unnamed/part_001`): message types, topics and
  timeout constants. The heartbeat protocol that uses them is outside `src/`.
- `dumpWorker`: its state is the `unitHolder` around dumpling, which is
  outside `src/` and not described by spec.md.
- `dummyWorker`: the fake worker. Each of its operations is one guard and
  one assignment. Its Tick reads `closed` atomically and then increments
  `tick`, so a `CloseImpl` between the two lets one more tick be counted.
  That is harmless in a test worker. A module for it would need a run of
  its own, and the project's runs are spent on the components where
  interleavings matter.
- `JobCount` and `QueryOnlineJob`: they only read under the lock. spec.md's
  P2 says that `JobCount(pending)+JobCount(waitAck)+JobCount(online)` is the
  number of live masters. Here "live" means submitted and not finished,
  because a pending job has no process. Without failover, P2 follows from
  `LiveJobTrackedOnce` and `FinishedJobReleased`, which the
  `jobfsm_norestart` run checks. After failover it fails only through the
  orphan of `jobfsm_orphan`: the re-created job master finishes, and the
  stale waitAck entry is still counted.
- ORM: `Initialize` runs `AutoMigrate` (the model's tables exist from the
  start) and then `InitializeEpoch`, which is modelled. `NewClient`, DSN
  building and connection setup are I/O. Database faults are modelled in
  `InitializeEpoch` and `GenEpoch`. In the other calls a fault turns into
  `ErrMetaOpFail` with nothing written, and no property is about those calls
  failing.
