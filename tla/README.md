# Formal specification of PersonalMemory

TLA+ models of the parts of PersonalMemory whose correctness depends on the order
of events: the Gateway services over their SQLite ledgers, the Hook processes and
their outbox, the data lifecycle mutex, the managed commands that install, copy,
restore and upgrade, and the extraction pipeline of the kernel. TLC checks each
module on small instances; TLAPS proves what matters most for every instance.

    tlc -config ConversationImport.cfg ConversationImport.tla
    tlapm ConversationImportProofs.tla

## 1. The system

PersonalMemory is a local-first memory service for one user. A Gateway (one Node
process, `apps/gateway`) listens on the loopback interface. It keeps the product's
own decisions in SQLite ledgers (`packages/personal-memory`) and asks a vendored
kernel (`src/`) over HTTP for the memories themselves: conversation messages (L0),
atomic memories (L1), scene and persona files derived from them (L2, L3). Browser,
MCP server and Hook workers are its clients. Commands (`scripts/`,
`personalmemory-data.ts`) back up, restore, upgrade and export the data directory
while the Gateway is stopped.

Three kinds of concurrency follow. Inside the Gateway every handler runs to its
next `await` without interruption, so an action of the models is the code between
two awaits. Between the Gateway and the kernel a request can fail, time out, or
take effect without an answer. Between processes only the file system
synchronises: the lock file, the runtime marker, the Hook outbox.

### Inventory

| Component | State | Operations | Hard behaviour | Correct when | Module |
|---|---|---|---|---|---|
| Conversation import (`import-manager.ts`, `import-ledger.ts`) | job and item rows; maps of runs and abort controllers | submit, retry, cancel, run loop, shutdown, recovery | cancel and retry around a pending request; a kill between autocommitted statements | one run per job, no stranded job, nothing stored twice unless a request ended otherwise than with 2xx, counters and status agree with the items | `ConversationImport` |
| Memory edits (`memory-mutations.ts`, `memory-state-ledger.ts`) | status and revision per memory | update, invalidate, delete | a revision checked before the request and used after it | a tombstone is final; no content is written and then refused, except under an erasure | `MemoryGovernance` |
| Review inbox (`memory-reviews.ts`, `memory-review-ledger.ts`) | decision, terms, revision per memory | approve, reject, approve with content, replay | the kernel is asked before the revision is looked at | a stale decision overwrites nothing | `MemoryGovernance` |
| Relations and validity (`memory-governance.ts`, `memory-governance-ledger.ts`) | active relations, windows | add, merge, revoke, set window | cycles through a merge that awaits the kernel | no cycle of supersedes | `MemoryGovernance` |
| Budgeted recall (`recall-service.ts`) | none of its own | fetch, gate, rank, cut | ledgers change while the kernel searches | what is deleted stays forgotten | `MemoryGovernance` |
| Privacy erasure (`privacy-deletions.ts`, `privacy-ledger.ts`) | plans in memory; tombstone, copies, receipts in the ledger | preview, cancel, execute in ten steps, verify | one step of several fails or stops half way; a crash; texts and copies made between preview and execution | a complete receipt is true but for what a half-removed backup leaves; recall never sees half-deleted data; retry remains possible | `PrivacyErasure` |
| Exports and backups (`portable-data.ts`) | registered copies | copy, register, restore | the marker is looked at once | every copy is registered or of a named kind that is not | `PrivacyErasure`, `Retention` (copies and their removal) |
| Retention (`retention-execution-ledger.ts`, `capture-policy-ledger.ts`, the route in `app.ts`, the batch in `privacy-deletions.ts`) | policy, authorization, run leases | authorize, revoke, plan, delete, verify | policy, authorization, day and lease move under a batch; copies are registered under it | deletion starts authorized; a drained run is clean; the index row goes last | `Retention` |
| Backup command (`personalmemory-lifecycle-runtime.mjs`) | lock lease, proof | drain, stop, copy, install | a time-out while the Gateway goes on | what is copied holds nothing expired | `Retention` |
| Data lifecycle mutex (`data-lifecycle-mutex.ts`) | guard and lock files | acquire, release | a kill between any two file system calls; stale owners | one owner | `DataLifecycleMutex`, `LifecycleLock` |
| Gateway process (`cli.ts`, `app.ts`, `server.ts`) | runtime marker | start, stop, routes | orderly stop against kill | as its services | in each module |
| Hook worker and outbox (`personalmemory-hook-runtime.mjs`) | outbox slots, claims, staged turns | enqueue, flush, defer, prune, recover | processes racing over files; a worker killed under its claim | nothing captured is lost, an exhausted entry stays, no entry is pending for ever | `HookOutbox` |
| Hook lifecycle (`hook-lifecycle.ts`, `hook-capture-ledger.ts`, `hook-authorization-ledger.ts`, `personalmemory-hook-managed.mjs`) | authorization and policy revisions, their copy in `runtime.json`, idempotency entries, rows | authorize, change policy, refresh, capture, notify, restart, backup, restore | a request outlives the consent it was built under; commit and notice are two steps; a restore moves revisions back | stored under the consent in force, once, counted once; erased stays erased; the copies catch up | `HookLifecycle` |
| Managed commands (`personalmemory-{install,lifecycle,upgrade}-runtime.mjs`, `personalmemory-data.ts`, `portable-data.ts`) | data directory, directories set aside, backups, receipt, running services | install, stop, restart, backup, restore, upgrade, uninstall | any step fails, the command is killed, services live on without a receipt or close their port long before their stores, the rollback fails too | no memory is lost; data are replaced under nobody but a stray upstream that is still closing; a rolled-back upgrade left all as it was; the user can be served again | `ManagedLifecycle` |
| Migrations (`migration-runner.ts`) | schema version | apply | a start that fails midway | as the upgrade that runs them | `ManagedLifecycle` (`Migrate`) |
| Kernel pipeline in a host process (`utils/pipeline-manager.ts`, `pipeline-factory.ts`, `checkpoint.ts`, `core/hooks/auto-capture.ts`) | session states, timers, serial queues, cursors, checkpoint | capture, notify, L1, L2, L3, evict, destroy, recover | timers against runs and shutdown, a run that fails after it stored, eviction of a session with work | only rows an extended batch displaces are skipped; what waits has a timer or a run ahead; scenes and persona catch up | `MemoryPipeline` |
| Kernel pipeline in the Gateway (`utils/stateful-pipeline-manager.ts`, `core/state/local-backend.ts`, `services/pipeline-worker.ts`, executors of `gateway/server.ts`) | session states, timers, task queue, locks, dead letters | capture, notify, end of session, consume, wait, run, retry, give up | coroutines racing for locks, timers that fire during a run, tasks that time out | no record behind the cursor unread; a cursor never goes back; counted rounds keep a task ahead | `PipelineWorker` |
| Audit ledger, model configuration, memory browsing, upstream client, MCP server, web application, SDKs and plugins, kernel store and offloading, the drain of a restored copy | see PROJECT.json | | none of their own, or vendored | | not modelled |

How they interact: edits, reviews, relations and recall share the ledgers of a
memory and meet in `MemoryGovernance`. Erasure deletes what edits and reviews
write (`Correct`, `Annotate`, `Delete` in `PrivacyErasure`) and what exports copy;
conversely it and retention write the tables of `MemoryGovernance` without taking a
lock of theirs (`EraseState`, `EraseMetadata` there).
Retention, erasure, backup, restore and upgrade exclude one another by the
lifecycle lock: `DataLifecycleMutex` implements `LifecycleLock`, and `Retention`
uses a lock with the behaviour of `LifecycleLock` (`Takeable`, `Taken`,
`Released`, `Abandoned` are its `Take`, `Drop` and `Reclaim`). `HookOutbox` brings a
captured turn to the Gateway any number of times, late or never; `HookLifecycle`
takes exactly that as its input (`requests`) and shows what makes it harmless. The
notice it sends after a commit is the capture of `PipelineWorker`: a lost
notice is `NotifyLost` there. `ManagedLifecycle` is the outer frame, the commands
between whose steps all of the above stops and starts again.

## 2. The modules

Every definition that stands for code is in the `map` of PROJECT.json with its
lines. Definitions introduced by "Mutant:" are plausible errors; none is part of
a specification. They document that every property can be violated by one.

**ConversationImport.** `job` is the ledger: a row and its items. `Refresh`,
`RequestCancel`, `RetryRow`, `Next1`, `Recover` translate the ledger's statements
as functions on a row. `run`, `running`, `controllers` are the manager's
promises and maps. `Submit`, `Retry`, `Cancel` are the routes; each ends in
`Schedule`. `Begin` is the microtask that enters `run(id)`; `SettleOk`,
`SettleRejected`, `SettleError` resume it after `await` and go once around the
loop (`Loop`). `Shutdown` and `Exit` are the orderly stop. `Kill` falls between
calls, `KillInCall` between two autocommitted statements of a call (`TornRows`
enumerates the rows this can leave), `KillInRestart` within the recovery.
`stored`, `lost` and `torn` are history variables. What the upstream stores is `Arrive`:
one round or none, whatever it answers, for it answers 200 whatever it has recorded.
`lost` says that a request of the item ended otherwise than with 2xx.

**MemoryGovernance.** `state`, `review`, `validity`, `supersedes`, `conflicts` are
the tables; `req` holds requests that wait for the kernel. The three promise
locks are conditions on `req` (`StateLockFree`, `ReviewLockFree`,
`RelationLockFree`). A client sends any revision it was ever shown. `KernelApplies`
and `KernelFails` may happen in any order, and a failing request may have been
applied. The kernel's store is deliberately absent: it may return any id at any
time, which is the least the gates must cope with. `Fetch` and `Answer` are the
two ends of a recall, and `recall.gone` the history of what was deleted when one of
them ran. `EraseState` and `EraseMetadata` are what a complete erasure, and for the
first a retention batch, do to these tables beside all locks and revisions.

**PrivacyErasure.** `rows`, `content`, `file`, `tomb`, `meta`, `ledger`, `disk`,
`receipt` are what the disk holds: the four stores, the versions of a memory's
text and the derived files they occur in, the tombstone, the product metadata,
registered and existing copies, the receipt; `headless` are the backups of which the
manifest is gone and data are left. `plan`, `plans`, `prev`, `exec` are
the Gateway's memory: a plan object may be executed after its token left the map.
`PreviewBegin`, `PreviewFindL1`, `PreviewStore` are the pieces of `preview()`
between awaits; `Check` to `Finish` the steps of `execute()`, each of which may
fail with or without its effect (`Attempt`). An export is one file; of the removal of a
backup, `CopyStep` lets every copy stay, go, or stop half way with or without its
manifest (`Behead`), and the next attempt takes a missing manifest for a removed copy.
`CopyBegin` and `CopyEnd` are an
export or backup in a process of its own.

**Retention.** One item per message or memory, dated; `day` is the natural day.
`Begin` to `Verify` are the maintenance route between awaits; `Record` is the
end of a run, which a passed lease refuses. A batch removes copies and readable rows
(`RemoveFiles`), looks whether anything is left (`NothingLeft`), and sends the deletion of
the index row; each of these may fail, and the removal may stop half way
(`CopiesHalfGo`). `CopyBegins`, `CopyRegisters` and `CopyDies` are a data command, an
export or backup: it looks once for the marker of the Gateway and registers what it
has made later, also into the batch of a Gateway started meanwhile (`late`, when a
deletion is out). `BackupBegin` to `BackupDies` are the
backup command. The lock keeps the owner and whether the owner's process ended.

**HookOutbox.** `base` and `claim` are the files of each slot, `staged` and `lease`
the turn store; `pc`, `at`, `seen`, `todo` the memory of a process. `Scan` to
`Recovered` are `#pruneAndRecover()`, with which every operation begins; `StopEvent`
to `Accepted` are a Stop process, `Snapshot` to `FlushEnds` the worker's `flush()`.
Every `link`, `rename`, `unlink` and claim is a step; a process acts on what it
has read before (`seen`, `todo`), by the name of the slot. `old` holds the
captures whose entry has outlived its TTL. `Workers` are incarnations of the one
worker: the start command spawns it after the processes of the start before
have ended.

**HookLifecycle.** `auth` and `policy` are the two consent ledgers, `runtime` the
revisions in `runtime.json`, `reading` what the maintenance worker has read and not
yet written, `requests` what was built with those revisions, `ledger` the
idempotency entries, `rows` the stored turns, `told` and `notices` what the kernel was
and is to be told.
`Build`, `Queue`, `Settle` are a Hook process and the outbox; `CaptureRefused` and
`CaptureStored` are the two ends of the one synchronous handler; `Notify` and
`NotifyFails` the microtask after the commit. `Reinstall`, `Backup` and `Restore` move
all of this to another time, each part as far as the code moves it: the capture
policy is carried over a restore, the authorization is not. `grant` and
`life` are history variables.

**ManagedLifecycle.** `data`, `aside`, `backups`, `receipt`, `alive` are the disk and
the processes; `op`, `pc`, `kept`, `input`, `old` the command and what it
remembers. A service that is told to stop first closes its port (`Shut`) and then
its stores (`Exit`); in between it is in `closing`, and `Offline` sees what the code
asks for, the port of the upstream and the marker of the Gateway. Each step has a success and a failure action (`BackUp`/`BackUpFails`,
`Migrated`/`MigrateFails`, `Switch`/`SwitchFails`), `Killed` ends the command anywhere
and `Die` ends a service. An upgrade runs the very actions of a backup, a migration,
an installation and, when it fails, a restore.

**MemoryPipeline.** Rows of a session are counted per capture (`l0`), records and
scenes by the updates they reflect, so that a cursor is a number. `seen` are the rows an
extraction has taken as new ones: the last `Batch` of its slice (`TakenAsNew`), also when
the slice was `Extended` to the end of a capture, which `cut` remembers. `Capture` and `NotifyResumes` are the two halves of a turn around the
checkpoint write; `IdleFires`, `L2Fires` the timers; the runs of L1, L2 and L3 each
have a start, an end for every answer of the model, and a failure. `writes` is the
serial queue of the checkpoint. `BeginDestroy` to `DestroyEnds`, `Crash` and `Start`
are the life of the process; `booted` are the scenes its last start has found.

**PipelineWorker.** `queue`, `locks`, `st`, `idle`, `l2Timer` are the local backend; `coro` where
each coroutine is. `Consume` takes a task and runs it up to what it reads, or `Waits`
for the lock; `Fails`, `Retries`, `DeadLetter`, `WaitTimesOut` are the error paths;
`Notify`, `IdleFires`, `SessionEnds` what puts tasks in. The backend is memory: `Stop`
forgets it. `lost` records which work was given up for good, in a dead letter or a
lock timeout.

**LifecycleLock** states what the mutex promises: `Take`, `Drop`, `Reclaim` of an
`owner`. **DataLifecycleMutex** is the code: every `openSync`, read, write and
`unlink` of `acquire()` and `release()` is a step, and a process may end at any of
them. The refinement maps `owner` to the operation of a written record.

`MC*` modules give the constants their values where a `.cfg` cannot.

## 3. Runs

| Run | Instance | Distinct states | Shows |
|---|---|---|---|
| `import` | 1 job of 3 rounds, 2 run identities, 2 attempts, 2 kills | 0.12 million | active jobs have a run, status summarises the items, stored once unless a request ended otherwise than with 2xx; every untorn job settles |
| `governance` | 3 memories, 2 requests, 3 changes, plain and merging terms | 96 thousand | acyclic relations, checks hold across the await, tombstones are final, what is deleted stays forgotten |
| `erasure` | 1 memory, 2 versions, 1 backup, 1 plan | 1.1 million | tombstone first, a running plan is the one executed; the index row last, copies registered and a complete receipt true but for half-removed backups |
| `erasure_resurrect` (violation) | 2 memories, 2 plans | | a text erased completely comes back into a derived file |
| `mutex` | 4 operations, 3 processes, one token handed over | 10 thousand | one owner; `LifecycleLock` is implemented |
| `retention` | 2 messages, 1 memory, 1 backup path, 2 requests, 2 days, 3 changes | 2.5 million | one live lease, drained runs and copied data are clean, the index row last but for the copies named in section 5 |
| `outbox` | 2 slots, 3 Stop processes of 2 turns, 2 incarnations of the worker, 1 fault, one entry expires | 66 thousand | no capture is lost; entries settle |
| `hooks` | 1 turn, 3 changes of consent, 1 restore, 3 requests at a time | 0.73 million | stored under consent, whole, once, counted once, erased for good; the copies catch up |
| `hooks_reload` (violation) | 1 turn, 2 changes, 1 restore | | after a restore no policy change is accepted, reloaded or not |
| `lifecycle` | 1 memory, 2 migrations, 3 faults | 0.91 million | no memory is lost, only a stray upstream has replaced data open, a rolled-back upgrade left data and schema; the user is served again |
| `pipeline` | 1 session, captures of 2, 1 and 2 rows, batch of 2, 1 retry, 1 fault, 2 boots | 0.41 million | only displaced rows skipped, rounds and records have a trigger, L3 follows L2; records reach the scenes |
| `worker` | 1 session, 2 coroutines, 2 captures, 1 end, 2 faults, 1 retry | 0.56 million | nothing behind the L2 cursor unread, the L1 cursor only advances, rounds and scenes have a task ahead; records reach L2 |

The violation runs are disagreements between the code and what a document or the
code itself says; PROJECT.json `findings` quotes both sides.

Invariants that TLAPS proves and that a run would only repeat are not in a `.cfg`:
the types of every proved module, `OwnersHoldLock` and `StartsAuthorized` of
`Retention`, `OneRunPerJob` and `CompletedStays` of the import, `OwnerOnRecord` and
`GuardAccounted` of the mutex, `ExhaustedStays` of the outbox.

### Bounds and why they are enough

* `import`: the third round makes "first pending item" differ from "any item",
  two kills allow a kill in the recovery from a kill, two run identities a run
  that is scheduled while the previous one leaves. Jobs share nothing but
  `shutdown()`, so one job shows the interleavings; the proofs cover any number.
* `governance`: three memories are the shortest cycle that is not direct; two
  requests can hold the same lock or different ones; three changes allow a check,
  an interfering write and the answer. Memories and requests are symmetric.
* `erasure`: every store and one copy distinguish all ten steps, and a memory of
  level L1 also occurs in the one persona file. Version 2 is a correction between
  preview and execution. With one token a plan is replaced only after it has left
  the map; the theorems cover any number of tokens and copies. The copy is a backup,
  whose removal has every outcome that of an export has.
* `mutex`: two operations of one process, one handing its token to another
  process, and a third that finds a stale owner.
* `retention`: batch size 1 with two messages needs a second batch, which is what
  the frozen cutoffs are for. Three changes, which bound the revisions and runs together,
  allow an authorization and two runs, or a run and a change of policy or
  authorization under it; `MaxDays` lets one day pass, which makes an item of the
  first expire. One backup path is
  made, registered, removed or half removed, and made again when it is gone.
* `outbox`: both turns prefer slot 0, so that the second has to try the next one; two
  processes of a turn make duplicates; one fault is one kill or failing file
  operation anywhere; two attempts make an entry deferred before it is exhausted.
  `Scenarios` say which processes come up together (three Stop processes; two of
  one turn and a worker; one and two workers in turn), since all at once are too many
  for a liveness property; `Starts` leaves the others out for good. The theorems
  hold for all at once. `Expirable` bounds whose entries outlive their TTL.
* `hooks`: turns share only the consent. Three changes are off, on and a
  policy, so that revisions return to a state they had; one restore gives
  every copy of a revision two lives; three requests at a time are one more than a
  late request and its retry. The theorems hold for any number of each.
* `lifecycle`: three faults are a failing step, a failing rollback, and a kill or a
  service that dies meanwhile. The second migration can fail after the first was
  committed.
* `pipeline`: the captures of 2, 1 and 2 rows with batch 2 cut a batch inside a
  capture; one fault falls anywhere; two boots are a recovery. Sessions share L3 and
  the queues: `Collects` stands for the others, `TriggerL3` sums over all. With this
  batch a capture may be three rows long (`Batch + 1`): one behind a capture of one row
  passes too, and of four such rows one is never fetched (section 5).
* `worker`: two coroutines race for one session's lock and for L3. Two faults and
  one retry make a dead letter. The run has one boot; two have been checked aside,
  and the theorems cover any number of boots, coroutines and sessions.

Deadlock is checked except where the system may really stop: when all processes have
ended (`mutex`, `outbox`), or when nothing is left to extract and nobody speaks
(`pipeline`, `worker`).

### Fairness

`ConversationImport`: `WF(Begin(q))`, since the event loop runs every queued
microtask, and `WF(Settle(q))`, since every upstream request ends at the latest with
its `timeoutMs` abort signal. Nothing is assumed of users, kills and restarts.

`HookOutbox`: `WF(Work(w))`, since the worker's loop comes back every minute and a
request ends after a second; `SF(Recovered(w))`, since a round flushes when the
Gateway tells its authorization, which it does again and again when it runs at
all; `SF(Claim(w, s))`, since an entry that is not due is due a minute later at the
latest. Without `SF(Recovered(w))` entries wait for a Gateway that is never there.

`HookLifecycle`: `WF(ReadAuthorization)`, the worker's minute; `SF(WriteRuntime)`,
since a start of the services waits for the worker's first round
(`waitForHookWorker()`), so that restarts cannot cut off every round.

`ManagedLifecycle`: `WF(Steps)`, a command that was not killed goes on, in one
outcome or another; `WF(Shut(s))` and `WF(Exit(c))`, a service that was told to stop
closes its port, which the kernel enforces after two seconds, and ends at last;
`SF(Begin("stop"))` and `SF(Install)`, the user does not give up. Nothing makes a step
succeed, but only `MaxFaults` of them fail. `ServedAgain` exempts `Orphans`.

`MemoryPipeline`: weak fairness of timers, queued runs and checkpoint writes. The
model answers in the end, since every LLM call has a timeout.
`PipelineWorker`: weak fairness of each coroutine's next step and of the timers,
which the Gateway polls. Conversations, failures, stops and boots
need not come in either, and strong fairness is needed of nothing: a task that cannot
have its lock is not dropped by waiting (`Waits`) until its time is out.

The other modules state safety only.

## 4. Proofs

| Module | Theorems | Inductive invariant |
|---|---|---|
| `ConversationImportProofs` | `InvAlways`, `TypeCorrect`, `NoSecondRun`, `CompletedForGood`, `NoWorkStranded`, `LedgerSummarises`, `NotStoredTwice` | `Inv`, `WorkInv`, `StoredExactly` |
| `MemoryProofs` (`MemoryGovernance`) | `GovernanceTypeCorrect`, `SupersedesStaysAcyclic`, `ChecksHoldAcrossAwait`, `TombstonesAreFinal`, `DeletedAreForgotten` | `GovInv` |
| `MemoryProofs` (`MemoryPipeline`) | `PipelineInvAlways`, `SkippedAreDisplaced`, `RoundsTriggered`, `ScenesTriggered`, `PersonaTriggered` | `PipelineInv`: types, `RowsInv`, `CursorInv`, `QueueInv`, `KnownInv`, `OffInv`; `RoundsInv`, `ScenesInv`, `PersonaInv` |
| `PipelineWorkerProofs` | `WorkerTypes`, `OneHolderPerKey`, `CursorAdvances`, `NoneUnread`, `DownIsForgotten`, `RoundsAreTriggered`, `ScenesReachPersona` | types, `LocksOK`, `DownIsEmpty`, `CursorInv`, `ReadInv`; `RoundsInv`, `ScenesInv` |
| `HookOutboxProofs` | `OutboxInvariant`, `OutboxTypeCorrect`, `CapturesAreNotLost`, `ExhaustedIsFinal` | `OutboxInv` |
| `HookLifecycleProofs` | `TypeCorrect`, `ErasedTextStaysErased`, `RowsHaveEntry`, `TurnsCountedOnce`, `ConsentIsCurrent` | `Inv`: types, `Consents`, `Stored`, `Count` |
| `ManagedLifecycleProofs` (`ManagedLifecycle`) | `TypeCorrect`, `NothingIsLost`, `CriticalStepsUnderStrays`, `RollbackIsComplete` | `Inv`: types, `Quiet`, `OnRecord`, `There`, `Safe`, `Backed` |
| `ManagedLifecycleProofs` (`DataLifecycleMutex`) | `MutexTypeCorrect`, `MutualExclusion`, `OwnersKeepRecord`, `GuardIsAccounted`, `MutexImplementsLock` | `MutexInv` |
| `PrivacyErasureProofs` | `Invariance`, `TypeCorrect`, `TombstoneIsFirst`, `CompleteIsGone`, `NoCopyForgotten`, `RunningIsExecuted`, `IndexIsLast` | `Inv`: types, `Memory`, `Running`, `Behind`, `Registered`, `Gone`, `Cleared` |
| `RetentionProofs` | `Invariance`, `TypeCorrect`, `LockIsHeld`, `AtMostOneLiveLease`, `DrainedStaysClean`, `CopiedClean`, `IndexIsLast`, `StartIsAuthorized` | `Inv`: types, `OwnersHoldLock`, `OneLiveLease`, `Cutoffs`, `Recorded`, `DrainedIsClean`, `AnswersTrue`, `BackupIsClean`, `InForce`, `Traces`, `Counted` |

All hold for every value of the constants allowed by the named assumption of each
module, `SkippedAreDisplaced` for captures that are short enough (`ShortCaptures`). With these,
every safety property of the runs, invariant or action property, is a theorem.

*Import.* "One run per job" is not inductive: `finally` deletes `running[id]` by
job, so it has to be known that the run that leaves is the only one of its job,
and that a job in the map has one. `Inv` carries both directions of the
correspondence, and the controllers that point to a waiting run. That no work is
stranded, and that the status of a row says what its items say, are one argument:
`RowOK` is what a row looks like between two calls of the ledger, also while no process
runs, and `WorkInv` adds that an active row has something unfinished and a run, and that
a running item is under way; every ledger call and the recovery keep it, except for the
rows a kill has torn. `StoredExactly` says of an item whose requests all ended with 2xx
that the upstream holds it at most once, and not at all before the ledger calls it
completed; that it does hold a completed one is not so, since 2xx does not say it.

*Mutex.* Mutual exclusion holds because only the holder of the guard creates or
removes a lock file, with one exception: `release()` takes no guard. `MutexInv`
says who can be between which two calls: at most one live operation past
`OpenGuard` and it is the guard; a process at `unlink` has read a record
whose process has ended, and this remains the record, because
whoever could release it is dead; a process at `release` has its own record
in the file. The refinement follows: only `WriteLock` takes, `ReleaseUnlink` drops
and `UnlinkStale` reclaims.

*Governance.* `Acyclic` is preserved by `AddEdge` since no path leads back from
the target. Paths are defined by closed sets, so a path lemma is proved by
naming a closed set rather than by induction on its length (`NoPathFrom`,
`EdgeKeepsAcyclic`). `ChecksStillHold` needs the locks: `LocksHeld` says that two
open requests never hold the same one, `UpdatesHold` that the state of a memory
with an open update is what the update has checked or the tombstone an erasure has left
on that very row, `MergesHold` that while a merge is open edges only
disappear (`Revoke` is not under the lock), which keeps a valid merge valid
(`FewerEdges`). `DeletedStaysForgotten` needs that a tombstone is for ever, against
requests that began before it and erasures alike: what a recall has found deleted is
still deleted when it answers (`GoneHold`).

*Outbox.* A worker unlinks and renames by the name of a slot, so that no capture is
lost depends on the slot still holding what the worker read. `HeldAsRead` says
that it does: entries are linked into empty slots only, only one worker runs
(`Roles`), and pruning needs a TTL that has passed, which `Kept` excludes.
`QueuedCovered` is the acknowledgement: a Stop process that is about to acknowledge
has left its turn answered or queued. `Worklists` says that a worker about to
unlink has an answer for what it unlinks, and that it never goes by an exhausted
entry.

*Hook lifecycle.* A request is stored when its two revisions are the ledger's, and
the property speaks of the change by the user they came from. `Consents` relates
the two: a copy of revisions of this life of the data (`Recent`) is never ahead of
the ledger, and one that is abreast of it is of the same change. `Stored` and
`Count` say of the backup what the properties say of the data, which is what
makes them survive a restore.

*Managed lifecycle.* A port that is closed says nothing of the stores behind it. `OnRecord`
says that a service which is closing and on record is waited for in the stop of the
command, since its process is known; `Quiet` that from the moment the directory is found
offline to the end of the critical steps none is alive, and of those that are closing
none is on record and none a Gateway, whose marker the check has seen. What remains is
an upstream that a failing installation signalled and forgot: the property names it,
and section 5 says what it means. `Safe` that while a directory is
replaced its memories are in the one set aside; `Backed` that an upgrade holds, from
its first step on the data, a backup equal to what it found.

*Erasure.* The property of the receipt, `CompleteMeansGone`, is an invariant of stable
states and says nothing of an execution under way. `Cleared` says what an execution
that has failed in nothing has emptied by the step it is at, but for the data of
`headless` backups, which the step believes removed; `Registered`, that
every copy of the disk that is no stray and not headless is in the ledger and those of
the memory in its plan; `Gone`, that what a complete receipt covers cannot come back, because
`Behind` its tombstone nothing writes rows of the memory. `Memory` and `Running` tie
the plans, previews and the one execution to one another: a preview under way has a
token of its own, so the plan it stores replaces none that is executed.

*Retention.* `DrainedIsClean` says that nothing eligible under the cutoffs of a drained
run is left. It is preserved since a new or edited item is dated today and every
cutoff is of a day that has been (`Cutoffs`), and established because a verifying
request has the cutoffs of its row (`Recorded`). `BackupIsClean` follows from
`AnswersTrue`, since the command copies on the strength of an answer.
`StartIsAuthorized` needs `InForce`: a request that is to plan under the revision in
force has the cutoffs of that policy. `IndexIsLast` rests on two: `Traces`, every copy on
the disk is active, headless, stray or being made, and `Counted`, while the deletion of
an index row is out every active copy was registered since it was sent.

*Pipeline in a host.* A run is planned when it starts and moves the cursor when it ends,
and captures go on meanwhile. `RowsInv` says that the run ends where a capture ends:
the row a batch stops at belongs to a capture (`CaptureFound`), and if no capture is
longer than `Batch + 1` rows, the whole of it has been fetched (`RunOf`). Then every row
behind the new cursor was taken as new or is one of the rows `Displaced` by the
extension of its batch, as many as the capture goes on behind row `Batch`. `QueueInv` identifies
the session of a run and of the checkpoint write that ends it with the head of its
queue, which nothing else removes; `KnownInv` says that whatever waits for a session
keeps its state out of `gcStaleSessions`. That counted rounds have a trigger then
needs the order of the writes: a round counted while the write of an L1 run is awaited
has its notification behind that write (`CountedAfter`), so it is not the one that is
zeroed. That records have one needs that the run skipped at a cold start has armed the
timer before its write (`SkipArmed`); that the persona follows, that an L2 run which
changed the scenes has its trigger ahead of it unless one is pending (`PersonaInv`). It
speaks of the scenes written since the start (`booted`): a pending L3 does not survive
its process.

*Pipeline in the Gateway.* Everything rests on `LocksOK`: a coroutine that runs a task or
sleeps after a failure has the key of its task alone. Then the cursor an L1 run will set
is still ahead of the one in the checkpoint (`CursorInv`), and what an L2 run will report
as done is what it has read (`ReadInv`). Counted rounds and new scenes are followed from
the queue through the coroutine that took the task (`HasTask`, `OwnL3`): the property asks for
an L3 task of anybody, and the invariant for one of the session itself, since a task of
another session can be given up; an L3 run that has read older scenes has another
behind it (`ReadOlder`).

Only model-checked: the liveness properties `JobsSettle`, `EntriesSettle`, `HooksCatchUp`,
`ServedAgain`, `ScenesCatchUp` and `RecordsReachL2`. Liveness under fairness and
`ENABLED` are out of the prover's reach, as is induction over data. No module uses a
`RECURSIVE` operator.

## 5. What the models leave out

* Contents, hashes, JSON and SQL text; authentication, sessions, rate limits,
  request parsing; file permissions and symbolic links.
* Import payloads: another payload under a known key is refused before any write.
* Locating a memory's rows in a file: a store holds rows of a memory or not.
* In `Retention`, capture exclusion rules; items without a valid timestamp, which
  are never planned; the rewriting of derived files during a batch.
* A backup is a directory of which the removal can stop in two ways, before or after
  its manifest; an export is one file.
* In recall, ranking, budget, paging, degraded levels.
* In `HookOutbox`, the order in which a flush takes entries (any), its maximum of
  16 entries, temporary files, the TTL and capacity of the turn store; whether two
  Stop events of a turn carry the same text is left open.
* In `HookLifecycle`, the recall route, which keeps no state, and a change of the
  installation identity.
* In `ManagedLifecycle`, the web and hook worker processes, secrets, managed hooks and
  agent configuration, concurrent commands, the content of the drain of a restored
  copy, the uninstallation that also deletes the data, a kernel between its spawn and
  its first answer, and what a closing kernel still writes into a directory replaced
  under it.
* In `MemoryPipeline`, stores other than SQLite, a failing insert of conversation rows,
  what the model extracts; a crash before a checkpoint write is a failing write. A
  session key has one session id, every row passes the quality filter of L1, and the
  maximum of an extraction is `Batch`, as both constants are 10.
* In `PipelineWorker`, the remote backend with its timer scanner, quotas, offloading
  tasks, locks that expire because the machine slept.

Not modelled at all, and why: the larger part of the source is the vendored kernel
(the SQLite and vector stores, context offloading and its server, record
deduplication), client SDKs, plugins for other products, the web application and
one-off migration tools. They are request and response code, presentation, or a
library the product does not call; what the product's correctness needs of them
appears as the nondeterministic outcomes of requests. The modules cover about a third
of the files they are about, and a twelfth of the whole repository.

Disagreements that no run shows:

* *Import.* `ImportLedger.complete()` writes the item and then the job summary in two
  autocommit statements. A kill between them leaves every item completed and the job
  running; the constructor recovers the job as failed without recounting, a
  retry is accepted, finds nothing pending and leaves the job pending for ever.
  `JobsSettle` therefore exempts torn jobs. `docs/architecture/CONVERSATION_IMPORT.md:31`
  promises that interrupted rounds can be retried. Nor does completed mean stored: the
  kernel answers `POST /capture` with 200 whatever it has recorded
  (`src/gateway/server.ts:949`), `import-manager.ts` looks at the status, and
  `CONVERSATION_IMPORT.md:30` says that a completed round is never sent again.
* *Memory edits.* An erasure writes its tombstone (`privacy-deletions.ts:963`) beside the
  lock and the revision check of `memory-mutations.ts`: an update that awaits the kernel
  has its content written and is then refused. `CONTROLLED_MUTATIONS.md:14` has the
  requests for one memory run one after the other. `ChecksStillHold` exempts it.
* *Reviews.* `applyOne()` sends the content of an approval to the kernel
  (`memory-reviews.ts:75`) before `MemoryReviewLedger.set()` compares the revision: a
  refused review has overwritten the content. `docs/architecture/CONTROLLED_MUTATIONS.md:14`
  says that an outdated revision overwrites nothing.
* *Erasure.* While `execute()` reads its target again (`privacy-deletions.ts:387`) its
  plan is still pending: a cancel is accepted, and the plan runs.
  `docs/architecture/PRIVACY_ERASURE.md:24` says 执行开始后不接受取消. And a backup whose
  recursive removal stopped after `manifest.json` is taken for removed by the next
  attempt, which finds no manifest (`privacy-deletions.ts:1051`): the receipt becomes
  complete and the copy leaves the ledger with data on the disk, against 每个登记路径均不存在
  (`PRIVACY_ERASURE.md:15`). `CompleteMeansGone`, `CopiesStayRegistered` and
  `IndexGoesLast` exempt `headless`.
* *Retention.* A batch deletes by the timestamps of its plan (`privacy-deletions.ts:590`):
  a memory corrected meanwhile, no longer expired, is deleted with its new text.
  `docs/architecture/RETENTION_EXECUTION.md:33` takes the age of a memory from `updated_time`.
  Half-removed backups are taken for removed as in an erasure. A data command that
  found no Gateway (`portable-data.ts:413`) registers its copy when it is made
  (`portable-data.ts:833`), also while the batch of a Gateway started meanwhile, having
  counted the copies, deletes the index row: the copy outlives the item in it. What a
  killed command leaves is registered by nobody. `IndexGoesLast` names these and the
  copies still being made.
* *Backup.* A backup that gives up waiting releases the lock under whose token the
  Gateway goes on deleting (`personalmemory-lifecycle-runtime.mjs:339`), and an erasure
  may begin beside it. `docs/architecture/RETENTION_EXECUTION.md:76` excludes this.
* *Outbox.* After a TTL has passed, a late `unlink()` of a pruned entry goes by the name of
  the slot (`personalmemory-hook-runtime.mjs:592`) and removes the capture linked into it
  meanwhile. `docs/PROJECT_RULES.md:97` excludes silent loss. `NothingLost` therefore has
  the premise that no TTL has passed.
* *Hook lifecycle.* Revisions are used again after a restore in the same installation
  so that an outbox entry of before can pass as current, against `app.ts:301` ("queued entries
  cannot flush under the old revision") and `docs/PROJECT_RULES.md:115` (旧 outbox 条目 fail closed); `StoredUnderConsent` exempts
  requests of an earlier life.
* *Upgrade.* A command killed between the two renames of a restore leaves no data
  directory. The next installation creates an empty one and reports success, with the
  memories in `.pre-restore-<uuid>` beside it (`DataSurvives` counts them), and restore
  and stop refuse; `docs/PROJECT_RULES.md:90` asks to fail closed. An upgrade whose
  backup fails still says that "the verified backup was restored". The upgrade and the installer
  compare with schema version 7 (`personalmemory-upgrade-runtime.mjs:27`) while
  `PERSONAL_MEMORY_SCHEMA_VERSION` is 12 (`migrations.ts:4`): later migrations run at
  the start of the Gateway, without a backup.
* *Upstream.* The kernel closes its port before its worker, its stores and its core
  (`src/gateway/server.ts:446`), and an installation that fails only signals the upstream it
  started (`install-runtime.mjs:380`, `:813`): `assertUpstreamOffline()` then passes, and a
  migration or the switch of a restore may run under a kernel that still has the data
  open. `OnlyStraysHaveDataOpen` exempts exactly this.
* *Restore.* `finalizeRestored` deletes the input backup before the switch is final, against
  "恢复原数据" of `docs/implementation-records/M4.6.6.2.md:12` when a later step fails.
* *Pipeline in a host.* With a full backlog `runL1` asks for another run while it is still
  queued itself, which is always a duplicate: the comment "drain immediately" is not
  what happens (`Requeued`). `gcStaleSessions` says that a session "can be fully restored
  from checkpoint on next notifyConversation()": defaults are created and written over it.
  `destroy()` says "Pending work is never lost" (`pipeline-manager.ts:527`): idle sessions
  are not run, a restart arms only L2 (`LeftAlone`), and an L3 that is pending at a stop or
  crash is forgotten, although `pipeline-manager.ts:570` flushes "L1 → L2 → L3"
  (`PersonaFollowsScenes` speaks of scenes newer than `booted`). A slice that
  `createL1Runner` extends past 10 rows for "zero data loss" (`pipeline-factory.ts:465`) is
  cut again by `slice(-10)` (`l1-extractor.ts:154`), so that its first rows are background
  at most and never extracted; line 67 says that this was repaired. The comment at
  `pipeline-factory.ts:522` says that rows are skipped only when a whole query of
  2 `L1_BATCH_PROCESS` rows has one timestamp: a capture of `L1_BATCH_PROCESS` + 2 rows
  is enough when the batch ends on its first row, which TLC shows with captures of
  one and four rows and a batch of two.
* *Pipeline in the Gateway.* The cascade after L1 zeroes the count, with it rounds that were
  counted during the run (`pipeline-worker.ts:499`), and the timer that comes for them
  is skipped as "already processed" (`gateway/server.ts:1465`): their rows wait for the
  next round of the session. `POST /session/end` is described as "Flush pending pipeline
  work" (`hermes-plugin/memory/memory_tencentdb/README.md:37`): the flush extracts nothing,
  removes the idle timer and lets the cascade zero the count. A stop forgets a pending
  L3 task, and no boot queues it again: the persona stays as it was until the next L2 of a
  session, which is why `PersonaFollowsScenes` speaks of sessions whose L2 has run.

Observations that are no disagreement with a document: when a file operation of the
Hook worker fails under its claim, the claim names a live process and is not
recovered before the worker ends (`EntriesSettle` exempts it); a change of the policy
during a batch does not stop the batch; a guard file left by a kill inside
`acquire()`, or a lock file created and not written, blocks every lifecycle
operation until it is removed by hand; enabling capture takes up to a minute to
reach the Hook processes, and a Stop in between is refused as stale and dropped; a
turn rebuilt under newer revisions after a lost answer is answered "conflict"; install,
restart and stop take no lifecycle mutex; an installer that is killed leaves services
without a receipt (`Orphans`); the directories `.pre-restore-*` and the backup of an
upgrade that was rolled back are not registered copies; an L2 run that never answers
counts as a success in a host, and a skipped one arms no timer in the Gateway; an L3 task
inherits the retries of its L2 task; the dead letter of an L2 or L3 task removes the
session's L1 timer as well; locks that expire while the machine sleeps let a second
coroutine in, since all use one owner.

## 6. What is next

1. `HookOutbox` and `HookLifecycle` composed: the outbox as what fills `requests`.
2. An abstract specification of the extraction pipeline, captures that are extracted in
   order and none skipped, which `MemoryPipeline` and `PipelineWorker` both implement.
3. The remote state backend of the kernel: its timer scanner and expiring locks.
4. The drain of a restored copy, as a run of `Retention` without concurrency.
