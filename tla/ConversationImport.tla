-------------------------- MODULE ConversationImport --------------------------
(***************************************************************************)
(* Conversation import: the SQLite import ledger                           *)
(* (packages/personal-memory/src/import-ledger.ts) and the in-process      *)
(* manager that drives it (apps/gateway/src/import-manager.ts).            *)
(*                                                                         *)
(* A job is identified by its idempotency key (the table's UNIQUE column). *)
(* A resubmission with another payload is refused before any write and is  *)
(* therefore no step; the payload itself is abstracted away.               *)
(*                                                                         *)
(* Everything the manager does between two awaits is one step.  The ledger *)
(* writes statement by statement in autocommit mode, so a kill may also    *)
(* leave a proper prefix of a call's statements behind (KillInCall).       *)
(***************************************************************************)
EXTENDS Integers, FiniteSets

CONSTANTS
  Jobs,         \* idempotency keys
  N,            \* rounds of a job: its items are numbered 1 .. N
  Runs,         \* identities of the manager's run(id) promises
  None,         \* no job, no controller
  MaxAttempts,  \* bound: a job is retried only while its attempts are below it
  MaxCrashes    \* bound: number of process kills

ASSUME ImportAssumption ==
  /\ N \in Nat \ {0}              \* the import contract requires a round
  /\ MaxAttempts \in Nat \ {0}
  /\ MaxCrashes \in Nat
  /\ None \notin Runs \cup Jobs

VARIABLES
  job,          \* ledger: one row per job with its items (survives a kill)
  proc,         \* "up", "stopping" (shutdown called) or "down"
  run,          \* memory: the run promises
  running,      \* memory: the keys of the manager's `running` map
  controllers,  \* memory: the manager's `controllers` map
  crashes,      \* number of kills so far
  stored,       \* history: how often the upstream stored an item
  lost,         \* history: a request for the item did not end with 2xx
  torn          \* history: jobs a kill hit between two statements of a call

memory == <<run, running, controllers>>
history == <<stored, lost, torn>>
vars == <<job, proc, memory, crashes, history>>

Items == 1 .. N
ItemStatus == {"pending", "running", "completed", "failed", "cancelled"}
JobStatus == {"pending", "running", "completed", "partial", "failed", "cancelled"}

JobRow == [status: JobStatus \cup {"absent"}, cancelRequested: BOOLEAN,
           completed: Nat, failed: Nat,
           items: [Items -> ItemStatus], attempts: [Items -> Nat]]

Run == [pc: {"idle", "scheduled", "waiting"}, job: Jobs \cup {None},
        item: 0 .. N, aborted: BOOLEAN]

\* No row yet, and the row create() inserts: both have every item pending.
Absent == [status |-> "absent", cancelRequested |-> FALSE, completed |-> 0,
           failed |-> 0, items |-> [i \in Items |-> "pending"],
           attempts |-> [i \in Items |-> 0]]
NewRow == [Absent EXCEPT !.status = "pending"]

Idle == [pc |-> "idle", job |-> None, item |-> 0, aborted |-> FALSE]

-----------------------------------------------------------------------------
(* Ledger statements: functions from a row to the row after the statement. *)

Unfinished(r) == {i \in Items : r.items[i] \in {"pending", "running"}}
Having(r, s) == {i \in Items : r.items[i] = s}
Active(r) == r.status \in {"pending", "running"}
Retryable(r) == r.status \in {"failed", "partial", "cancelled"}

Mark(r, i, s) == [r EXCEPT !.items[i] = s]
MarkAll(r, from, to) ==
  [r EXCEPT !.items = [i \in Items |-> IF @[i] \in from THEN to ELSE @[i]]]

\* The status refresh() derives from the items.
Summary(r) ==
  CASE Unfinished(r) # {} -> "running"
    [] Unfinished(r) = {} /\ r.cancelRequested /\ Having(r, "cancelled") # {} ->
         "cancelled"
    [] OTHER -> IF Having(r, "failed") = {} THEN "completed"
                ELSE IF Having(r, "completed") # {} THEN "partial" ELSE "failed"

\* Mutant: refresh() derives the status but forgets the counters.
RefreshStatus(r) == [r EXCEPT !.status = Summary(r)]
Refresh(r) == [r EXCEPT !.status = Summary(r),
                        !.completed = Cardinality(Having(r, "completed")),
                        !.failed = Cardinality(Having(r, "failed"))]

\* complete(), fail() and cancel() of one item.
Finish(r, i, s) == Refresh(Mark(r, i, s))

\* requestCancel(): three statements, the last one refresh().
FlagCancel(r) == [r EXCEPT !.cancelRequested = TRUE]
CancelPending(r) == MarkAll(FlagCancel(r), {"pending"}, "cancelled")
\* Mutant: requestCancel() without its refresh().
RequestCancelUnrefreshed(r) == IF Active(r) THEN CancelPending(r) ELSE r
RequestCancel(r) == IF Active(r) THEN Refresh(CancelPending(r)) ELSE r

\* retry(): two statements.
\* Mutant: retry() requeues the completed items too.
RequeueAll(r) == MarkAll(r, {"failed", "cancelled", "completed"}, "pending")
Requeue(r) == MarkAll(r, {"failed", "cancelled"}, "pending")
RetryRow(r) == [Requeue(r) EXCEPT !.status = "pending",
                                  !.cancelRequested = FALSE, !.failed = 0]

\* next(): nothing to take, or the first pending item in two statements.
NothingNext(r) == r.cancelRequested \/ Having(r, "pending") = {}
FirstPending(r) == CHOOSE i \in Having(r, "pending") :
                     \A k \in Having(r, "pending") : i <= k
TakeItem(r) == [Mark(r, FirstPending(r), "running")
                  EXCEPT !.attempts[FirstPending(r)] = @ + 1]
Next1(r) == [TakeItem(r) EXCEPT !.status = "running"]

\* The constructor's recovery: two statements over every row.
RecoverItems(r) == MarkAll(r, {"pending", "running"},
                     IF r.cancelRequested THEN "cancelled" ELSE "failed")
RecoverJob(r) ==
  IF ~Active(r) THEN r
  ELSE [r EXCEPT !.status = CASE r.cancelRequested -> "cancelled"
                              [] ~r.cancelRequested /\ r.completed > 0 -> "partial"
                              [] OTHER -> "failed",
                 !.failed = Cardinality(Having(r, "failed"))]
Recover(r) == IF r.status = "absent" THEN r ELSE RecoverJob(RecoverItems(r))

-----------------------------------------------------------------------------
Init ==
  /\ job = [j \in Jobs |-> Absent]
  /\ proc = "up"
  /\ run = [q \in Runs |-> Idle]
  /\ running = {}
  /\ controllers = [j \in Jobs |-> None]
  /\ crashes = 0
  /\ stored = [j \in Jobs |-> [i \in Items |-> 0]]
  /\ lost = [j \in Jobs |-> [i \in Items |-> FALSE]]
  /\ torn = {}

SetJob(j, r) == job' = [job EXCEPT ![j] = r]

\* schedule(id), called with the row r the ledger call before it left.
Schedule(j, r) ==
  \/ /\ proc = "stopping"
     /\ SetJob(j, RequestCancel(r))
     /\ UNCHANGED memory
  \/ /\ proc = "up" /\ j \in running
     /\ SetJob(j, r)
     /\ UNCHANGED memory
  \/ /\ proc = "up" /\ j \notin running
     /\ SetJob(j, r)
     /\ \E q \in Runs :
          /\ run[q] = Idle
          /\ run' = [run EXCEPT ![q] = [Idle EXCEPT !.pc = "scheduled", !.job = j]]
     /\ running' = running \cup {j}
     /\ UNCHANGED controllers

\* POST /conversations/capture or /imports: a new job, or a known pending one.
Submit(j) ==
  /\ \/ job[j].status = "absent" /\ Schedule(j, NewRow)
     \/ job[j].status = "pending" /\ Schedule(j, job[j])
  /\ UNCHANGED <<proc, crashes, history>>

\* POST /imports/:id/retry
Retry(j) ==
  /\ Retryable(job[j])
  /\ \A i \in Items : job[j].attempts[i] < MaxAttempts
  /\ Schedule(j, RetryRow(job[j]))
  /\ UNCHANGED <<proc, crashes, history>>

\* AbortController.abort() on the controllers registered for the jobs in J.
Abort(J) ==
  run' = [q \in Runs |->
            IF \E j \in J : controllers[j] = q THEN [run[q] EXCEPT !.aborted = TRUE]
            ELSE run[q]]

\* POST /imports/:id/cancel
Cancel(j) ==
  /\ proc # "down"
  /\ Active(job[j])
  /\ SetJob(j, RequestCancel(job[j]))
  /\ Abort({j})
  /\ UNCHANGED <<proc, running, controllers, crashes, history>>

\* The head of run(id)'s loop on row r: leave through `finally`, or request
\* the capture of the next item.
\* Mutant: `finally` forgets running.delete(id).
LeaveRegistered(q, j, r) ==
  /\ SetJob(j, r)
  /\ run' = [run EXCEPT ![q] = Idle]
  /\ controllers' = [controllers EXCEPT ![j] = None]
  /\ UNCHANGED running

Leave(q, j, r) ==
  /\ SetJob(j, r)
  /\ run' = [run EXCEPT ![q] = Idle]
  /\ running' = running \ {j}
  /\ controllers' = [controllers EXCEPT ![j] = None]

Loop(q, j, r) ==
  \/ NothingNext(r) /\ Leave(q, j, r)
  \/ /\ ~NothingNext(r)
     /\ SetJob(j, Next1(r))
     /\ run' = [run EXCEPT ![q].pc = "waiting", ![q].item = FirstPending(r)]
     /\ controllers' = [controllers EXCEPT ![j] = q]
     /\ UNCHANGED running

\* The microtask queued by schedule() starts run(id).
Begin(q) ==
  /\ run[q].pc = "scheduled"
  /\ Loop(q, run[q].job, job[run[q].job])
  /\ UNCHANGED <<proc, crashes, history>>

\* The upstream stores what arrives, or does not: the kernel answers 200
\* whatever it recorded, and an error after the recording is a 500.
Arrive(j, i) == \E n \in {0, 1} : stored' = [stored EXCEPT ![j][i] = @ + n]

\* The upstream answered 2xx: the item is completed.
SettleOk(q) ==
  LET j == run[q].job  i == run[q].item IN
  /\ run[q].pc = "waiting"
  /\ Loop(q, j, Finish(job[j], i, "completed"))
  /\ Arrive(j, i)
  /\ UNCHANGED <<proc, crashes, lost, torn>>

\* The upstream answered with another status.
SettleRejected(q) ==
  LET j == run[q].job  i == run[q].item IN
  /\ run[q].pc = "waiting"
  /\ Loop(q, j, Finish(job[j], i, "failed"))
  /\ Arrive(j, i)
  /\ lost' = [lost EXCEPT ![j][i] = TRUE]
  /\ UNCHANGED <<proc, crashes, torn>>

\* The request was aborted, timed out or broke: it may have arrived.
SettleError(q) ==
  LET j == run[q].job  i == run[q].item IN
  /\ run[q].pc = "waiting"
  /\ \/ run[q].aborted /\ Leave(q, j, Finish(job[j], i, "cancelled"))
     \/ ~run[q].aborted /\ Loop(q, j, Finish(job[j], i, "failed"))
  /\ Arrive(j, i)
  /\ lost' = [lost EXCEPT ![j][i] = TRUE]
  /\ UNCHANGED <<proc, crashes, torn>>

Settle(q) == SettleOk(q) \/ SettleRejected(q) \/ SettleError(q)

\* shutdown() up to its await, and the exit of the process after it.
Shutdown ==
  LET J == running \cup {j \in Jobs : controllers[j] # None} IN
  /\ proc = "up"
  /\ proc' = "stopping"
  /\ job' = [j \in Jobs |-> IF j \in J THEN RequestCancel(job[j]) ELSE job[j]]
  /\ Abort(J)
  /\ UNCHANGED <<running, controllers, crashes, history>>

Exit ==
  /\ proc = "stopping"
  /\ running = {}
  /\ proc' = "down"
  /\ UNCHANGED <<job, memory, crashes, history>>

-----------------------------------------------------------------------------
(* Kills and restarts.                                                     *)

InFlight(j, i) == \E q \in Runs : run[q].pc = "waiting" /\ run[q].job = j /\ run[q].item = i

\* The process dies: its memory is gone.  Of the requests under way, those of
\* the jobs with arrived[j] = 1 were stored by the upstream.
Die(arrived) ==
  /\ proc # "down"
  /\ crashes < MaxCrashes
  /\ crashes' = crashes + 1
  /\ proc' = "down"
  /\ run' = [q \in Runs |-> Idle]
  /\ running' = {}
  /\ controllers' = [j \in Jobs |-> None]
  /\ lost' = [j \in Jobs |-> [i \in Items |-> lost[j][i] \/ InFlight(j, i)]]
  /\ stored' = [j \in Jobs |-> [i \in Items |->
                  stored[j][i] + IF InFlight(j, i) THEN arrived[j] ELSE 0]]

Arrivals == [Jobs -> {0, 1}]

Kill == (\E arrived \in Arrivals : Die(arrived)) /\ UNCHANGED <<job, torn>>

\* Rows that a proper prefix of the statements of a call under way may leave.
TornCancel(r) == IF Active(r) THEN {FlagCancel(r), CancelPending(r)} ELSE {}
TornRetry(r) == IF Retryable(r) THEN {Requeue(r)} ELSE {}
TornNext(R) == {TakeItem(r) : r \in {p \in R : ~NothingNext(p)}}
TornBegin(j, r) ==
  IF \E q \in Runs : run[q].job = j /\ run[q].pc = "scheduled"
  THEN TornNext({r}) ELSE {}
Verdicts(q) ==
  {"completed", "failed"} \cup (IF run[q].aborted THEN {"cancelled"} ELSE {})
TornSettle(j, r) ==
  UNION {UNION {{Mark(r, run[q].item, s), Finish(r, run[q].item, s)}
                  \cup TornNext({Finish(r, run[q].item, s)}) : s \in Verdicts(q)} :
           q \in {p \in Runs : run[p].job = j /\ run[p].pc = "waiting"}}
TornRows(j) ==
  TornCancel(job[j]) \cup TornRetry(job[j]) \cup TornBegin(j, job[j])
    \cup TornSettle(j, job[j])

KillInCall ==
  \E j \in Jobs, arrived \in Arrivals :
    /\ \E r \in TornRows(j) : SetJob(j, r)
    /\ torn' = torn \cup {j}
    /\ Die(arrived)

\* A new process constructs the ledger.
Restart ==
  /\ proc = "down"
  /\ proc' = "up"
  /\ job' = [j \in Jobs |-> Recover(job[j])]
  /\ UNCHANGED <<memory, crashes, history>>

\* ... and is killed between the two statements of the recovery.
KillInRestart ==
  /\ proc = "down"
  /\ crashes < MaxCrashes
  /\ crashes' = crashes + 1
  /\ job' = [j \in Jobs |->
               IF job[j].status = "absent" THEN job[j] ELSE RecoverItems(job[j])]
  /\ UNCHANGED <<proc, memory, history>>

Next ==
  \/ \E j \in Jobs : Submit(j) \/ Retry(j) \/ Cancel(j)
  \/ \E q \in Runs : Begin(q) \/ Settle(q)
  \/ Shutdown \/ Exit \/ Kill \/ KillInCall \/ KillInRestart \/ Restart

\* The event loop runs every queued microtask, and every upstream request
\* ends, at the latest with its timeoutMs.
Fairness == \A q \in Runs : WF_vars(Begin(q)) /\ WF_vars(Settle(q))

Spec == Init /\ [][Next]_vars
FairSpec == Spec /\ Fairness

-----------------------------------------------------------------------------
(* Properties.                                                             *)

\* Ledger rows, runs and maps have their types (import-ledger.ts tables,
\* import-manager.ts fields).
TypeOK ==
  /\ job \in [Jobs -> JobRow]
  /\ proc \in {"up", "stopping", "down"}
  /\ run \in [Runs -> Run]
  /\ \A q \in Runs : run[q].pc = "waiting" => run[q].item \in Items
  /\ \A q \in Runs : run[q].pc # "idle" => run[q].job \in Jobs
  /\ running \in SUBSET Jobs
  /\ controllers \in [Jobs -> Runs \cup {None}]
  /\ crashes \in 0 .. MaxCrashes
  /\ stored \in [Jobs -> [Items -> Nat]]
  /\ lost \in [Jobs -> [Items -> BOOLEAN]]
  /\ torn \in SUBSET Jobs

\* The `running` map registers exactly the live runs, one per job, although
\* submit, retry and cancel may arrive between schedule() and its microtask
\* and `finally` deletes by job, not by run.
OneRunPerJob ==
  /\ \A q \in Runs : run[q].pc # "idle" => run[q].job \in running
  /\ \A j \in running : \E q \in Runs : run[q].pc # "idle" /\ run[q].job = j
  /\ \A p, q \in Runs : run[p].pc # "idle" /\ run[p].job = run[q].job => p = q

\* A job that the ledger shows as pending or running has a run working on it,
\* and an item is running only while that run waits for its answer: no
\* interleaving of submit, retry, cancel, shutdown and kills between ledger
\* calls strands work.
ActiveHasRun ==
  proc # "down" =>
    \A j \in Jobs \ torn :
      /\ Active(job[j]) => j \in running
      /\ \A i \in Items : job[j].items[i] = "running" => InFlight(j, i)

\* In a live process a job that has ended has no unfinished item, its counters
\* are the counts of its items, and its status tells what happened to them,
\* unless a kill tore one of its ledger calls.
StatusSummarises ==
  proc # "down" =>
    \A j \in Jobs \ torn : LET r == job[j] IN
      /\ r.status = "pending" \/ r.status = "running" => Unfinished(r) # {}
      /\ r.status \in JobStatus \ {"pending", "running"} =>
           /\ Unfinished(r) = {}
           /\ r.completed = Cardinality(Having(r, "completed"))
           /\ r.failed = Cardinality(Having(r, "failed"))
           /\ r.status = "completed" <=> Having(r, "completed") = Items
           /\ r.status = "partial" => r.completed > 0 /\ r.failed > 0
           /\ r.status = "failed" => r.completed = 0 /\ r.failed > 0

\* An item is stored by the upstream at most once, whatever is retried,
\* cancelled or resubmitted, unless one of its requests ended otherwise than
\* with 2xx.  (It may be stored not at all: POST /capture answers 200 whatever
\* the kernel recorded, so a completed item says nothing of what is kept.)
StoredOnceUnlessLost ==
  \A j \in Jobs, i \in Items : ~lost[j][i] => stored[j][i] <= 1

\* retry() requeues only failed and cancelled items: a completed item stays
\* completed through retries, cancels, kills and recoveries, so next() never
\* sends it again.
CompletedStays ==
  [][\A j \in Jobs, i \in Items :
       job[j].items[i] = "completed" => job'[j].items[i] = "completed"]_vars

\* Every pending or running job ends unless the process goes down first or a
\* kill once tore one of its ledger calls.
JobsSettle ==
  \A j \in Jobs :
    Active(job[j]) /\ j \notin torn ~> ~Active(job[j]) \/ proc = "down" \/ j \in torn
=============================================================================
