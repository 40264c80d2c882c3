----------------------- MODULE ConversationImportProofs -----------------------
(***************************************************************************)
(* Proofs about ConversationImport, for every set of jobs, every number of *)
(* rounds and every bound: the types, one run per job, that a completed    *)
(* round stays completed, that no work is stranded, that an ended job's    *)
(* counters and status are those of its items, and that the upstream       *)
(* stores a round once.                                                    *)
(*                                                                         *)
(* Three inductive invariants.  Inv adds to the types what the code relies *)
(* on without saying so: a process that is down has no run, a run has a    *)
(* row, and the item a run waits for is marked running, which no ledger    *)
(* call but the run's own settlement changes.  WorkInv says of the rows no *)
(* kill has torn what a row looks like between two ledger calls, also      *)
(* while no process runs (RowOK), and that only a run told to cancel is    *)
(* ever aborted.  StoredExactly ties the ledger to the upstream.           *)
(***************************************************************************)
EXTENDS ConversationImport, FiniteSetTheorems, WellFoundedInduction, TLAPS

Live(q) == run[q].pc # "idle"

DownIsIdle ==
  proc = "down" => running = {} /\ \A q \in Runs : ~Live(q)

IdleHasNoJob == \A q \in Runs : ~Live(q) => run[q].job = None

LiveHasRow == \A q \in Runs : Live(q) => job[run[q].job].status # "absent"

AbsentIsEmpty == \A j \in Jobs : job[j].status = "absent" => job[j] = Absent

WaitingItemRunning ==
  \A q \in Runs :
    run[q].pc = "waiting" => job[run[q].job].items[run[q].item] = "running"

Inv == /\ TypeOK /\ OneRunPerJob /\ DownIsIdle /\ IdleHasNoJob
       /\ LiveHasRow /\ AbsentIsEmpty /\ WaitingItemRunning

\* What every ledger call but a settlement, next() and a recovery does to a row.
Keeps(r, s) ==
  /\ s \in JobRow
  /\ s.status # "absent"
  /\ \A i \in Items : r.items[i] = "completed" => s.items[i] = "completed"
  /\ \A i \in Items : r.items[i] = "running" => s.items[i] = "running"

-----------------------------------------------------------------------------
(* Ledger statements.                                                      *)

\* The counters of a row are natural numbers: its items are finitely many.
LEMMA CountIsNat ==
  ASSUME NEW r, NEW s
  PROVE  Cardinality(Having(r, s)) \in Nat
<1>1. IsFiniteSet(Items)
  BY FS_Interval, ImportAssumption DEF Items
<1>2. Having(r, s) \in SUBSET Items
  BY DEF Having
<1> QED
  BY <1>1, <1>2, FS_Subset, FS_CardinalityType

\* refresh() changes neither the items nor the cancel flag.
LEMMA RefreshRow ==
  ASSUME NEW r \in JobRow
  PROVE  /\ Refresh(r) \in JobRow
         /\ Refresh(r).items = r.items
         /\ Refresh(r).status # "absent"
<1>1. Summary(r) \in JobStatus
  BY DEF Summary, JobStatus
<1>2. /\ Cardinality(Having(r, "completed")) \in Nat
      /\ Cardinality(Having(r, "failed")) \in Nat
  BY CountIsNat
<1> QED
  BY <1>1, <1>2 DEF Refresh, JobRow, JobStatus

\* Statements that mark items.
LEMMA MarkRow ==
  ASSUME NEW r \in JobRow, NEW i \in Items, NEW s \in ItemStatus
  PROVE  /\ Mark(r, i, s) \in JobRow
         /\ Mark(r, i, s).items = [r.items EXCEPT ![i] = s]
         /\ Mark(r, i, s).status = r.status
BY DEF Mark, JobRow

LEMMA MarkAllRow ==
  ASSUME NEW r \in JobRow, NEW from, NEW to \in ItemStatus
  PROVE  /\ MarkAll(r, from, to) \in JobRow
         /\ MarkAll(r, from, to).status = r.status
         /\ \A i \in Items : MarkAll(r, from, to).items[i] =
                               IF r.items[i] \in from THEN to ELSE r.items[i]
BY DEF MarkAll, JobRow

LEMMA NewRowType == Absent \in JobRow /\ NewRow \in JobRow /\ NewRow.status # "absent"
BY DEF Absent, NewRow, JobRow, ItemStatus, JobStatus

LEMMA FinishRow ==
  ASSUME NEW r \in JobRow, NEW i \in Items, NEW s \in ItemStatus
  PROVE  /\ Finish(r, i, s) \in JobRow
         /\ Finish(r, i, s).items = [r.items EXCEPT ![i] = s]
         /\ Finish(r, i, s).status # "absent"
BY MarkRow, RefreshRow DEF Finish

LEMMA CancelPendingRow ==
  ASSUME NEW r \in JobRow, r.status # "absent"
  PROVE  Keeps(r, FlagCancel(r)) /\ Keeps(r, CancelPending(r))
<1>1. Keeps(r, FlagCancel(r))
  BY DEF Keeps, FlagCancel, JobRow
<1>2. FlagCancel(r) \in JobRow /\ FlagCancel(r).items = r.items
      /\ FlagCancel(r).status = r.status
  BY DEF FlagCancel, JobRow
<1>3. Keeps(r, CancelPending(r))
  BY <1>2, MarkAllRow DEF CancelPending, Keeps, ItemStatus
<1> QED
  BY <1>1, <1>3

LEMMA RequestCancelRow ==
  ASSUME NEW r \in JobRow, r.status # "absent"
  PROVE  Keeps(r, RequestCancel(r))
<1>1. Keeps(r, r)
  BY DEF Keeps
<1> QED
  BY <1>1, CancelPendingRow, RefreshRow DEF RequestCancel, Keeps

LEMMA RetryRowKeeps ==
  ASSUME NEW r \in JobRow, r.status # "absent"
  PROVE  Keeps(r, Requeue(r)) /\ Keeps(r, RetryRow(r))
<1>1. Keeps(r, Requeue(r))
  BY MarkAllRow DEF Requeue, Keeps, ItemStatus
<1>2. RetryRow(r) \in JobRow /\ RetryRow(r).items = Requeue(r).items
      /\ RetryRow(r).status # "absent"
  BY <1>1 DEF RetryRow, Keeps, JobRow, JobStatus
<1> QED
  BY <1>1, <1>2 DEF Keeps

\* ORDER BY ordinal LIMIT 1 finds a pending item when there is one.
LEMMA FirstPendingIsPending ==
  ASSUME NEW r, Having(r, "pending") # {}
  PROVE  FirstPending(r) \in Having(r, "pending")
<1> DEFINE P == Having(r, "pending")
<1>1. P \subseteq Nat
  BY ImportAssumption DEF Having, Items
<1>2. \E i \in P : \A k \in P : <<k, i>> \notin OpToRel(<, Nat)
  BY <1>1, WFMin, NatLessThanWellFounded, Zenon
<1>3. \A a, b \in Nat : a < b => <<a, b>> \in OpToRel(<, Nat)
  BY DEF OpToRel
<1>4. PICK i \in P : \A k \in P : <<k, i>> \notin OpToRel(<, Nat)
  BY <1>2
<1>5. \A k \in P : ~(k < i)
  BY <1>1, <1>3, <1>4, Zenon
<1>6. \A k \in P : i <= k
  BY <1>1, <1>5
<1> QED
  BY <1>6 DEF FirstPending

\* next() marks an item that was pending.
LEMMA NextRow ==
  ASSUME NEW r \in JobRow, ~NothingNext(r), r.status # "absent"
  PROVE  /\ FirstPending(r) \in Items
         /\ r.items[FirstPending(r)] = "pending"
         /\ Next1(r) \in JobRow /\ TakeItem(r) \in JobRow
         /\ Next1(r).items = [r.items EXCEPT ![FirstPending(r)] = "running"]
         /\ TakeItem(r).items = [r.items EXCEPT ![FirstPending(r)] = "running"]
         /\ Next1(r).status # "absent" /\ TakeItem(r).status # "absent"
<1>1. FirstPending(r) \in Items /\ r.items[FirstPending(r)] = "pending"
  BY FirstPendingIsPending DEF NothingNext, Having
<1>2. /\ Mark(r, FirstPending(r), "running") \in JobRow
      /\ Mark(r, FirstPending(r), "running").items
           = [r.items EXCEPT ![FirstPending(r)] = "running"]
      /\ Mark(r, FirstPending(r), "running").status = r.status
  BY <1>1, MarkRow DEF ItemStatus
<1>3. /\ TakeItem(r) \in JobRow
      /\ TakeItem(r).items = [r.items EXCEPT ![FirstPending(r)] = "running"]
      /\ TakeItem(r).status = r.status
  BY <1>1, <1>2 DEF TakeItem, JobRow
<1>4. /\ Next1(r) \in JobRow /\ Next1(r).items = TakeItem(r).items
      /\ Next1(r).status # "absent"
  BY <1>3 DEF Next1, JobRow, JobStatus
<1> QED
  BY <1>1, <1>3, <1>4

\* The recovery fails or cancels what was unfinished and leaves the rest.
LEMMA RecoverRow ==
  ASSUME NEW r \in JobRow, r.status # "absent"
  PROVE  /\ RecoverItems(r) \in JobRow /\ Recover(r) \in JobRow
         /\ RecoverItems(r).status # "absent" /\ Recover(r).status # "absent"
         /\ \A i \in Items : r.items[i] = "completed" =>
              RecoverItems(r).items[i] = "completed" /\ Recover(r).items[i] = "completed"
<1> DEFINE s == RecoverItems(r)
<1>1. /\ s \in JobRow /\ s.status = r.status
      /\ \A i \in Items : r.items[i] = "completed" => s.items[i] = "completed"
  BY MarkAllRow DEF RecoverItems, ItemStatus
<1>2. /\ RecoverJob(s) \in JobRow /\ RecoverJob(s).items = s.items
      /\ RecoverJob(s).status # "absent"
  <2>1. CASE ~Active(s)
    BY <2>1, <1>1 DEF RecoverJob
  <2>2. CASE Active(s)
    <3>1. Cardinality(Having(s, "failed")) \in Nat
      BY CountIsNat
    <3> QED
      BY <2>2, <3>1, <1>1 DEF RecoverJob, JobRow, JobStatus
  <2> QED
    BY <2>1, <2>2
<1> QED
  BY <1>1, <1>2 DEF Recover

-----------------------------------------------------------------------------
(* Steps.                                                                  *)

CompletedKept ==
  \A j \in Jobs, i \in Items :
    job[j].items[i] = "completed" => job'[j].items[i] = "completed"

HistoryOK ==
  /\ crashes \in 0 .. MaxCrashes
  /\ stored \in [Jobs -> [Items -> Nat]]
  /\ lost \in [Jobs -> [Items -> BOOLEAN]]
  /\ torn \in SUBSET Jobs

\* The rows are unchanged or what a ledger call keeps of them.
JobsKept ==
  /\ job' \in [Jobs -> JobRow]
  /\ \A j \in Jobs : job'[j] = job[j] \/ Keeps(job[j], job'[j])

\* The runs do what they did; at most they are aborted.
RunsKept ==
  /\ run' \in [Runs -> Run]
  /\ \A q \in Runs : /\ run'[q].pc = run[q].pc
                     /\ run'[q].job = run[q].job
                     /\ run'[q].item = run[q].item

\* Calls that leave the manager's registrations alone.
LEMMA QuietStep ==
  ASSUME Inv, JobsKept, RunsKept, UNCHANGED <<running, controllers>>,
         proc' \in {"up", "stopping", "down"}, proc' = "down" => proc = "down",
         HistoryOK'
  PROVE  Inv' /\ CompletedKept
<1> USE DEF JobsKept, RunsKept, HistoryOK
<1>1. TypeOK'
  BY DEF Inv, TypeOK
<1>2. OneRunPerJob'
  <2>1. \A q \in Runs : run'[q].pc # "idle" => run'[q].job \in running'
    BY DEF Inv, OneRunPerJob
  <2>2. \A j \in running' : \E q \in Runs : run'[q].pc # "idle" /\ run'[q].job = j
    BY DEF Inv, OneRunPerJob
  <2>3. \A p, q \in Runs :
          run'[p].pc # "idle" /\ run'[p].job = run'[q].job => p = q
    BY DEF Inv, OneRunPerJob
  <2> QED
    BY <2>1, <2>2, <2>3 DEF OneRunPerJob
<1>3. DownIsIdle' /\ IdleHasNoJob'
  BY DEF Inv, DownIsIdle, IdleHasNoJob, Live
<1>4. LiveHasRow'
  BY DEF Inv, TypeOK, LiveHasRow, Live, Keeps
<1>5. AbsentIsEmpty'
  BY DEF Inv, AbsentIsEmpty, Keeps
<1>6. WaitingItemRunning'
  <2> SUFFICES ASSUME NEW q \in Runs, run'[q].pc = "waiting"
               PROVE  job'[run'[q].job].items[run'[q].item] = "running"
    BY DEF WaitingItemRunning
  <2>1. /\ run[q].pc = "waiting" /\ run[q].job \in Jobs /\ run[q].item \in Items
        /\ run'[q].job = run[q].job /\ run'[q].item = run[q].item
    BY DEF Inv, TypeOK
  <2>2. job[run[q].job].items[run[q].item] = "running"
    BY <2>1 DEF Inv, WaitingItemRunning
  <2> QED
    BY <2>1, <2>2 DEF Keeps
<1>7. CompletedKept
  BY DEF CompletedKept, Keeps
<1> QED
  BY <1>1, <1>2, <1>3, <1>4, <1>5, <1>6, <1>7 DEF Inv

\* abort() changes no run's progress.
LEMMA AbortKeepsRuns ==
  ASSUME Inv, NEW J, Abort(J)
  PROVE  RunsKept
<1>1. ASSUME NEW q \in Runs
      PROVE  /\ run'[q] \in Run /\ run'[q].pc = run[q].pc
             /\ run'[q].job = run[q].job /\ run'[q].item = run[q].item
  <2>1. run[q] \in Run
    BY DEF Inv, TypeOK
  <2>2. run'[q] = run[q] \/ run'[q] = [run[q] EXCEPT !.aborted = TRUE]
    BY DEF Abort
  <2> QED
    BY <2>1, <2>2 DEF Run
<1>2. run' \in [Runs -> Run]
  BY <1>1 DEF Abort
<1> QED
  BY <1>1, <1>2 DEF RunsKept

LEMMA SetJobKeeps ==
  ASSUME Inv, NEW j \in Jobs, NEW r, Keeps(job[j], r), SetJob(j, r)
  PROVE  JobsKept
BY DEF Inv, TypeOK, SetJob, JobsKept, Keeps

\* schedule(): a second run of a job is never started.
LEMMA ScheduleStep ==
  ASSUME Inv, NEW j \in Jobs, NEW r, Keeps(job[j], r), Schedule(j, r),
         UNCHANGED <<proc, crashes, history>>
  PROVE  Inv' /\ CompletedKept
<1>0. HistoryOK' /\ proc' \in {"up", "stopping", "down"}
  BY DEF Inv, TypeOK, HistoryOK, history
<1>1. CASE SetJob(j, RequestCancel(r)) /\ UNCHANGED memory
  <2>1. Keeps(r, RequestCancel(r))
    BY RequestCancelRow DEF Keeps
  <2>2. Keeps(job[j], RequestCancel(r))
    BY <2>1 DEF Keeps
  <2>3. JobsKept
    BY <1>1, <2>2, SetJobKeeps
  <2>4. RunsKept
    BY <1>1 DEF Inv, TypeOK, memory, RunsKept
  <2> QED
    BY <1>0, <1>1, <2>3, <2>4, QuietStep DEF memory
<1>2. CASE SetJob(j, r) /\ UNCHANGED memory
  <2>1. JobsKept
    BY <1>2, SetJobKeeps
  <2>2. RunsKept
    BY <1>2 DEF Inv, TypeOK, memory, RunsKept
  <2> QED
    BY <1>0, <1>2, <2>1, <2>2, QuietStep DEF memory
<1>3. CASE /\ proc = "up" /\ j \notin running
           /\ SetJob(j, r)
           /\ \E q \in Runs :
                /\ run[q] = Idle
                /\ run' = [run EXCEPT ![q] = [Idle EXCEPT !.pc = "scheduled", !.job = j]]
           /\ running' = running \cup {j}
           /\ UNCHANGED controllers
  <2>1. PICK q \in Runs :
          /\ run[q] = Idle
          /\ run' = [run EXCEPT ![q] = [Idle EXCEPT !.pc = "scheduled", !.job = j]]
    BY <1>3
  <2>2. JobsKept
    BY <1>3, SetJobKeeps
  <2>3. /\ run[q].pc = "idle" /\ run'[q].pc = "scheduled" /\ run'[q].job = j
        /\ run'[q] \in Run
        /\ \A p \in Runs \ {q} : run'[p] = run[p]
    <3>1. Idle \in Run /\ 0 \in 0 .. N
      BY ImportAssumption DEF Idle, Run
    <3>2. [Idle EXCEPT !.pc = "scheduled", !.job = j] \in Run
      BY <3>1 DEF Idle, Run
    <3>3. run'[q] = [Idle EXCEPT !.pc = "scheduled", !.job = j]
      BY <2>1 DEF Inv, TypeOK
    <3>4. \A p \in Runs \ {q} : run'[p] = run[p]
      BY <2>1 DEF Inv, TypeOK
    <3>5. run[q].pc = "idle"
      BY <2>1 DEF Idle
    <3>6. run'[q].pc = "scheduled" /\ run'[q].job = j
      BY <3>3 DEF Idle
    <3> QED
      BY <3>2, <3>3, <3>4, <3>5, <3>6
  <2>4. TypeOK'
    BY <1>0, <1>3, <2>1, <2>2, <2>3 DEF Inv, TypeOK, JobsKept, HistoryOK
  <2>5. \A p \in Runs : run[p].job # j
    BY <1>3, ImportAssumption DEF Inv, OneRunPerJob, IdleHasNoJob, Live
  <2>6. OneRunPerJob'
    BY <1>3, <2>3, <2>5 DEF Inv, OneRunPerJob
  <2>7. DownIsIdle' /\ IdleHasNoJob'
    BY <1>3, <2>3 DEF Inv, DownIsIdle, IdleHasNoJob, Live
  <2>8. job'[j] = r /\ r.status # "absent"
    BY <1>3 DEF Inv, TypeOK, SetJob, Keeps
  <2>9. LiveHasRow'
    BY <2>2, <2>3, <2>8 DEF Inv, TypeOK, LiveHasRow, Live, JobsKept, Keeps
  <2>10. AbsentIsEmpty'
    BY <2>2 DEF Inv, AbsentIsEmpty, JobsKept, Keeps
  <2>11. WaitingItemRunning'
    <3> SUFFICES ASSUME NEW p \in Runs, run'[p].pc = "waiting"
                 PROVE  job'[run'[p].job].items[run'[p].item] = "running"
      BY DEF WaitingItemRunning
    <3>1. run'[p] = run[p] /\ run[p].job \in Jobs /\ run[p].item \in Items
      BY <2>3 DEF Inv, TypeOK
    <3>2. job[run[p].job].items[run[p].item] = "running"
      BY <3>1 DEF Inv, WaitingItemRunning
    <3> QED
      BY <2>2, <3>1, <3>2 DEF JobsKept, Keeps
  <2>12. CompletedKept
    BY <2>2 DEF CompletedKept, JobsKept, Keeps
  <2> QED
    BY <2>4, <2>6, <2>7, <2>9, <2>10, <2>11, <2>12 DEF Inv
<1> QED
  BY <1>1, <1>2, <1>3 DEF Schedule

LEMMA SubmitStep ==
  ASSUME Inv, NEW j \in Jobs, Submit(j)
  PROVE  Inv' /\ CompletedKept
<1>1. CASE job[j].status = "absent" /\ Schedule(j, NewRow)
  <2>1. job[j] = Absent
    BY <1>1 DEF Inv, AbsentIsEmpty
  <2>2. Keeps(job[j], NewRow)
    BY <2>1, NewRowType DEF Keeps, Absent
  <2> QED
    BY <1>1, <2>2, ScheduleStep DEF Submit
<1>2. CASE job[j].status = "pending" /\ Schedule(j, job[j])
  <2>1. Keeps(job[j], job[j])
    BY <1>2 DEF Inv, TypeOK, Keeps
  <2> QED
    BY <1>2, <2>1, ScheduleStep DEF Submit
<1> QED
  BY <1>1, <1>2 DEF Submit

LEMMA RetryStep ==
  ASSUME Inv, NEW j \in Jobs, Retry(j)
  PROVE  Inv' /\ CompletedKept
<1>1. job[j] \in JobRow /\ job[j].status # "absent"
  BY DEF Inv, TypeOK, Retry, Retryable
<1>2. Keeps(job[j], RetryRow(job[j]))
  BY <1>1, RetryRowKeeps
<1> QED
  BY <1>2, ScheduleStep DEF Retry

LEMMA CancelStep ==
  ASSUME Inv, NEW j \in Jobs, Cancel(j)
  PROVE  Inv' /\ CompletedKept
<1>1. job[j] \in JobRow /\ job[j].status # "absent"
  BY DEF Inv, TypeOK, Cancel, Active
<1>2. JobsKept
  BY <1>1, RequestCancelRow, SetJobKeeps DEF Cancel
<1>3. RunsKept
  BY AbortKeepsRuns DEF Cancel
<1>4. HistoryOK' /\ proc' \in {"up", "stopping", "down"} /\ proc' = proc
  BY DEF Inv, TypeOK, HistoryOK, history, Cancel
<1> QED
  BY <1>2, <1>3, <1>4, QuietStep DEF Cancel

LEMMA ShutdownStep ==
  ASSUME Inv, Shutdown
  PROVE  Inv' /\ CompletedKept
<1> DEFINE J == running \cup {j \in Jobs : controllers[j] # None}
<1>1. job' = [j \in Jobs |-> IF j \in J THEN RequestCancel(job[j]) ELSE job[j]]
  BY DEF Shutdown
<1>2. ASSUME NEW j \in Jobs
      PROVE  job'[j] \in JobRow /\ (job'[j] = job[j] \/ Keeps(job[j], job'[j]))
  <2>1. CASE job[j].status = "absent"
    <3>1. ~Active(job[j])
      BY <2>1 DEF Active
    <3>2. RequestCancel(job[j]) = job[j]
      BY <3>1 DEF RequestCancel
    <3> QED
      BY <1>1, <3>2 DEF Inv, TypeOK
  <2>2. CASE job[j].status # "absent"
    <3>1. job[j] \in JobRow
      BY DEF Inv, TypeOK
    <3>2. Keeps(job[j], RequestCancel(job[j]))
      BY <2>2, <3>1, RequestCancelRow
    <3> QED
      BY <1>1, <3>1, <3>2 DEF Keeps
  <2> QED
    BY <2>1, <2>2
<1>3. JobsKept
  BY <1>1, <1>2 DEF JobsKept
<1>4. RunsKept
  BY AbortKeepsRuns DEF Shutdown
<1>5. HistoryOK' /\ proc' = "stopping"
  BY DEF Inv, TypeOK, HistoryOK, history, Shutdown
<1> QED
  BY <1>3, <1>4, <1>5, QuietStep DEF Shutdown

\* The row a run goes on with: its own call kept what was completed.
GoesOn(j, r) ==
  /\ r \in JobRow /\ r.status # "absent"
  /\ \A i \in Items : job[j].items[i] = "completed" => r.items[i] = "completed"

\* Every other run works on another job.
LEMMA OthersElsewhere ==
  ASSUME Inv, NEW q \in Runs, Live(q), NEW p \in Runs, p # q
  PROVE  run[p].job # run[q].job
BY DEF Inv, OneRunPerJob, Live

\* Leaving through `finally` unregisters the job, whose only run this was.
LEMMA LeaveStep ==
  ASSUME Inv, NEW q \in Runs, Live(q), NEW r, GoesOn(run[q].job, r),
         Leave(q, run[q].job, r), UNCHANGED proc, HistoryOK'
  PROVE  Inv' /\ CompletedKept
<1> DEFINE j == run[q].job
<1>1. j \in Jobs /\ r \in JobRow
  BY DEF Inv, TypeOK, Live, GoesOn
<1>2. job' = [job EXCEPT ![j] = r] /\ job' \in [Jobs -> JobRow]
  BY <1>1 DEF Inv, TypeOK, Leave, SetJob
<1>3. Idle \in Run /\ Idle.pc = "idle" /\ Idle.job = None
  BY ImportAssumption DEF Idle, Run
<1>4. run' \in [Runs -> Run] /\ run'[q] = Idle
      /\ \A p \in Runs \ {q} : run'[p] = run[p] /\ run[p].job # j
  BY <1>3, OthersElsewhere DEF Inv, TypeOK, Leave
<1>5. TypeOK'
  BY <1>1, <1>2, <1>3, <1>4 DEF Inv, TypeOK, Leave, HistoryOK
<1>6. OneRunPerJob'
  <2>1. running' = running \ {j}
    BY DEF Leave
  <2>2. \A p \in Runs : run'[p].pc # "idle" => run'[p].job \in running'
    BY <1>3, <1>4, <2>1 DEF Inv, OneRunPerJob
  <2>3. \A k \in running' : \E p \in Runs : run'[p].pc # "idle" /\ run'[p].job = k
    BY <1>4, <2>1 DEF Inv, OneRunPerJob
  <2>4. ASSUME NEW p \in Runs, NEW o \in Runs, run'[p].pc # "idle",
               run'[p].job = run'[o].job
        PROVE  p = o
    <3>1. p # q /\ run'[p] = run[p] /\ run[p].job \in Jobs
      BY <1>3, <1>4, <2>4 DEF Inv, TypeOK
    <3>2. o # q
      BY <1>3, <1>4, <2>4, <3>1, ImportAssumption
    <3> QED
      BY <1>4, <2>4, <3>1, <3>2 DEF Inv, OneRunPerJob
  <2> QED
    BY <2>2, <2>3, <2>4 DEF OneRunPerJob
<1>7. DownIsIdle'
  BY <1>3, <1>4 DEF Inv, DownIsIdle, Live, Leave
<1>8. IdleHasNoJob'
  BY <1>3, <1>4 DEF Inv, IdleHasNoJob, Live
<1>9. LiveHasRow'
  BY <1>1, <1>2, <1>3, <1>4 DEF Inv, TypeOK, LiveHasRow, Live, GoesOn
<1>10. AbsentIsEmpty'
  BY <1>1, <1>2 DEF Inv, TypeOK, AbsentIsEmpty, GoesOn
<1>11. WaitingItemRunning'
  <2> SUFFICES ASSUME NEW p \in Runs, run'[p].pc = "waiting"
               PROVE  job'[run'[p].job].items[run'[p].item] = "running"
    BY DEF WaitingItemRunning
  <2>1. run'[p] = run[p] /\ run[p].job # j /\ run[p].job \in Jobs
    BY <1>3, <1>4 DEF Inv, TypeOK
  <2> QED
    BY <1>2, <2>1 DEF Inv, TypeOK, WaitingItemRunning
<1>12. CompletedKept
  BY <1>1, <1>2 DEF Inv, TypeOK, CompletedKept, GoesOn
<1> QED
  BY <1>5, <1>6, <1>7, <1>8, <1>9, <1>10, <1>11, <1>12 DEF Inv

\* Taking the next item: it was pending, so no other run waits for it.
LEMMA TakeStep ==
  ASSUME Inv, NEW q \in Runs, Live(q), NEW r, GoesOn(run[q].job, r),
         ~NothingNext(r), SetJob(run[q].job, Next1(r)),
         run' = [run EXCEPT ![q].pc = "waiting", ![q].item = FirstPending(r)],
         controllers' = [controllers EXCEPT ![run[q].job] = q],
         UNCHANGED <<running, proc>>, HistoryOK'
  PROVE  Inv' /\ CompletedKept
<1> DEFINE j == run[q].job
           i == FirstPending(r)
           s == Next1(r)
<1>1. j \in Jobs /\ r \in JobRow /\ r.status # "absent"
  BY DEF Inv, TypeOK, Live, GoesOn
<1>2. /\ i \in Items /\ r.items[i] = "pending" /\ s \in JobRow
      /\ s.items = [r.items EXCEPT ![i] = "running"] /\ s.status # "absent"
  BY <1>1, NextRow
<1>3. job' = [job EXCEPT ![j] = s] /\ job' \in [Jobs -> JobRow]
  BY <1>1, <1>2 DEF Inv, TypeOK, SetJob
<1>4. /\ run' \in [Runs -> Run]
      /\ run'[q].pc = "waiting" /\ run'[q].item = i /\ run'[q].job = j
      /\ \A p \in Runs \ {q} : run'[p] = run[p] /\ run[p].job # j
  <2>1. run[q] \in Run /\ i \in 0 .. N
    BY <1>2, ImportAssumption DEF Inv, TypeOK, Items
  <2>2. run'[q] = [run[q] EXCEPT !.pc = "waiting", !.item = i]
    BY DEF Inv, TypeOK
  <2>3. /\ run'[q] \in Run
        /\ run'[q].pc = "waiting" /\ run'[q].item = i /\ run'[q].job = j
    <3> DEFINE x == run[q]
               y == run'[q]
    <3>1. x \in Run /\ y = [x EXCEPT !.pc = "waiting", !.item = i] /\ i \in 0 .. N
      BY <2>1, <2>2
    <3> HIDE DEF x, y, i
    <3>2. y \in Run
      BY <3>1 DEF Run
    <3>3. y.pc = "waiting" /\ y.item = i /\ y.job = x.job
      BY <3>1 DEF Run
    <3> QED
      BY <3>2, <3>3 DEF x, y
  <2>4. \A p \in Runs \ {q} : run'[p] = run[p] /\ run[p].job # j
    BY OthersElsewhere DEF Inv, TypeOK
  <2>5. run' \in [Runs -> Run]
    BY <2>3, <2>4 DEF Inv, TypeOK
  <2> QED
    BY <2>3, <2>4, <2>5
<1>5. r.items \in [Items -> ItemStatus]
  BY <1>1 DEF JobRow
<1>6. TypeOK'
  BY <1>1, <1>2, <1>3, <1>4 DEF Inv, TypeOK, HistoryOK
<1>7. OneRunPerJob'
  <2>1. \A p \in Runs : run'[p].job = run[p].job /\ (run'[p].pc # "idle" <=> run[p].pc # "idle")
    BY <1>4 DEF Live
  <2>2. OneRunPerJob
    BY DEF Inv
  <2>3. \A p \in Runs : run'[p].pc # "idle" => run'[p].job \in running
    BY <2>1, <2>2, Zenon DEF OneRunPerJob
  <2>4. \A k \in running : \E p \in Runs : run'[p].pc # "idle" /\ run'[p].job = k
    BY <2>1, <2>2, Zenon DEF OneRunPerJob
  <2>5. \A p, o \in Runs :
          run'[p].pc # "idle" /\ run'[p].job = run'[o].job => p = o
    <3> SUFFICES ASSUME NEW p \in Runs, NEW o \in Runs,
                        run'[p].pc # "idle", run'[p].job = run'[o].job
                 PROVE  p = o
      OBVIOUS
    <3>1. run[p].pc # "idle" /\ run[p].job = run[o].job
      BY <2>1
    <3> QED
      BY <2>2, <3>1 DEF OneRunPerJob
  <2> QED
    BY <2>3, <2>4, <2>5 DEF OneRunPerJob
<1>8. DownIsIdle' /\ IdleHasNoJob'
  BY <1>4 DEF Inv, DownIsIdle, IdleHasNoJob, Live
<1>9. LiveHasRow'
  BY <1>1, <1>2, <1>3, <1>4 DEF Inv, TypeOK, LiveHasRow, Live
<1>10. AbsentIsEmpty'
  BY <1>1, <1>2, <1>3 DEF Inv, TypeOK, AbsentIsEmpty
<1>11. WaitingItemRunning'
  <2> SUFFICES ASSUME NEW p \in Runs, run'[p].pc = "waiting"
               PROVE  job'[run'[p].job].items[run'[p].item] = "running"
    BY DEF WaitingItemRunning
  <2>1. CASE p = q
    BY <1>1, <1>2, <1>3, <1>4, <1>5, <2>1 DEF Inv, TypeOK
  <2>2. CASE p # q
    <3>1. run'[p] = run[p] /\ run[p].job # j /\ run[p].job \in Jobs
      BY <1>4, <2>2 DEF Inv, TypeOK
    <3> QED
      BY <1>3, <3>1 DEF Inv, TypeOK, WaitingItemRunning
  <2> QED
    BY <2>1, <2>2
<1>12. CompletedKept
  <2>1. \A k \in Items : r.items[k] = "completed" => s.items[k] = "completed"
    BY <1>2, <1>5
  <2> QED
    BY <1>1, <1>3, <2>1 DEF Inv, TypeOK, CompletedKept, GoesOn
<1> QED
  BY <1>6, <1>7, <1>8, <1>9, <1>10, <1>11, <1>12 DEF Inv

LEMMA LoopStep ==
  ASSUME Inv, NEW q \in Runs, Live(q), NEW r, GoesOn(run[q].job, r),
         Loop(q, run[q].job, r), UNCHANGED proc, HistoryOK'
  PROVE  Inv' /\ CompletedKept
BY LeaveStep, TakeStep DEF Loop

LEMMA BeginStep ==
  ASSUME Inv, NEW q \in Runs, Begin(q)
  PROVE  Inv' /\ CompletedKept
<1>1. Live(q)
  BY DEF Begin, Live
<1>2. GoesOn(run[q].job, job[run[q].job])
  BY <1>1 DEF Inv, TypeOK, LiveHasRow, Live, GoesOn
<1>3. HistoryOK' /\ UNCHANGED proc
  BY DEF Inv, TypeOK, HistoryOK, history, Begin
<1> QED
  BY <1>1, <1>2, <1>3, LoopStep DEF Begin

\* complete(), fail() and cancel() only touch the item the run waits for.
LEMMA SettledRow ==
  ASSUME Inv, NEW q \in Runs, run[q].pc = "waiting", NEW s \in ItemStatus
  PROVE  /\ run[q].job \in Jobs /\ run[q].item \in Items
         /\ GoesOn(run[q].job, Finish(job[run[q].job], run[q].item, s))
<1>1. /\ run[q].job \in Jobs /\ run[q].item \in Items
      /\ job[run[q].job] \in JobRow
      /\ job[run[q].job].items[run[q].item] = "running"
  BY DEF Inv, TypeOK, WaitingItemRunning
<1>2. job[run[q].job].items \in [Items -> ItemStatus]
  BY <1>1 DEF JobRow
<1>3. /\ Finish(job[run[q].job], run[q].item, s) \in JobRow
      /\ Finish(job[run[q].job], run[q].item, s).items
           = [job[run[q].job].items EXCEPT ![run[q].item] = s]
      /\ Finish(job[run[q].job], run[q].item, s).status # "absent"
  BY <1>1, FinishRow
<1>4. \A k \in Items : job[run[q].job].items[k] = "completed" =>
        [job[run[q].job].items EXCEPT ![run[q].item] = s][k] = "completed"
  BY <1>1, <1>2
<1> QED
  BY <1>1, <1>3, <1>4 DEF GoesOn

LEMMA SettleStep ==
  ASSUME Inv, NEW q \in Runs, Settle(q)
  PROVE  Inv' /\ CompletedKept
<1> DEFINE j == run[q].job
           i == run[q].item
<1>1. run[q].pc = "waiting" /\ Live(q) /\ UNCHANGED <<proc, crashes, torn>>
  BY DEF Settle, SettleOk, SettleRejected, SettleError, Live, history
<1>2. j \in Jobs /\ i \in Items
  BY <1>1, SettledRow DEF ItemStatus
<1>3. CASE SettleOk(q)
  <2>1. HistoryOK'
    <3>1. PICK n \in {0, 1} : stored' = [stored EXCEPT ![j][i] = @ + n]
      BY <1>3 DEF SettleOk, Arrive
    <3> QED
      BY <1>1, <1>2, <1>3, <3>1 DEF SettleOk, HistoryOK, Inv, TypeOK
  <2>2. GoesOn(j, Finish(job[j], i, "completed"))
    BY <1>1, SettledRow DEF ItemStatus
  <2> QED
    BY <1>1, <1>3, <2>1, <2>2, LoopStep DEF SettleOk
<1>4. CASE SettleRejected(q)
  <2>1. HistoryOK'
    <3>1. PICK n \in {0, 1} : stored' = [stored EXCEPT ![j][i] = @ + n]
      BY <1>4 DEF SettleRejected, Arrive
    <3>2. lost' = [lost EXCEPT ![j][i] = TRUE]
      BY <1>4 DEF SettleRejected
    <3> QED
      BY <1>1, <1>2, <3>1, <3>2 DEF HistoryOK, Inv, TypeOK
  <2>2. GoesOn(j, Finish(job[j], i, "failed"))
    BY <1>1, SettledRow DEF ItemStatus
  <2> QED
    BY <1>1, <1>4, <2>1, <2>2, LoopStep DEF SettleRejected
<1>5. CASE SettleError(q)
  <2>1. HistoryOK'
    <3>1. PICK n \in {0, 1} : stored' = [stored EXCEPT ![j][i] = @ + n]
      BY <1>5 DEF SettleError, Arrive
    <3>2. lost' = [lost EXCEPT ![j][i] = TRUE]
      BY <1>5 DEF SettleError
    <3> QED
      BY <1>1, <1>2, <3>1, <3>2 DEF HistoryOK, Inv, TypeOK
  <2>2. /\ GoesOn(j, Finish(job[j], i, "failed"))
        /\ GoesOn(j, Finish(job[j], i, "cancelled"))
    BY <1>1, SettledRow DEF ItemStatus
  <2>3. \/ Leave(q, j, Finish(job[j], i, "cancelled"))
        \/ Loop(q, j, Finish(job[j], i, "failed"))
    BY <1>5 DEF SettleError
  <2> QED
    BY <1>1, <2>1, <2>2, <2>3, LoopStep, LeaveStep
<1> QED
  BY <1>3, <1>4, <1>5 DEF Settle

-----------------------------------------------------------------------------
(* Kills and restarts.                                                     *)

\* A process without runs: only the rows and the history matter.
LEMMA DownStep ==
  ASSUME Inv, job' \in [Jobs -> JobRow],
         \A j \in Jobs : job'[j] = job[j] \/ GoesOn(j, job'[j]),
         run' \in [Runs -> Run],
         \A q \in Runs : run'[q].pc = "idle" /\ run'[q].job = None,
         running' = {}, controllers' \in [Jobs -> Runs \cup {None}],
         proc' \in {"up", "stopping", "down"}, HistoryOK'
  PROVE  Inv' /\ CompletedKept
<1>1. TypeOK'
  BY DEF TypeOK, HistoryOK
<1>2. OneRunPerJob'
  BY DEF OneRunPerJob
<1>3. DownIsIdle' /\ IdleHasNoJob' /\ LiveHasRow' /\ WaitingItemRunning'
  BY DEF DownIsIdle, IdleHasNoJob, LiveHasRow, WaitingItemRunning, Live
<1>4. AbsentIsEmpty'
  BY DEF Inv, AbsentIsEmpty, GoesOn
<1>5. CompletedKept
  BY DEF CompletedKept, GoesOn
<1> QED
  BY <1>1, <1>2, <1>3, <1>4, <1>5 DEF Inv

LEMMA DieMemory ==
  ASSUME Inv, NEW arrived \in Arrivals, Die(arrived), torn' \in SUBSET Jobs
  PROVE  /\ run' \in [Runs -> Run]
         /\ \A q \in Runs : run'[q].pc = "idle" /\ run'[q].job = None
         /\ running' = {} /\ controllers' \in [Jobs -> Runs \cup {None}]
         /\ proc' \in {"up", "stopping", "down"} /\ HistoryOK'
<1>1. Idle \in Run /\ Idle.pc = "idle" /\ Idle.job = None
  BY ImportAssumption DEF Idle, Run
<1>2. crashes' \in 0 .. MaxCrashes
  BY ImportAssumption DEF Inv, TypeOK, Die
<1>3. lost' \in [Jobs -> [Items -> BOOLEAN]]
  BY DEF Inv, TypeOK, Die, InFlight
<1>4. ASSUME NEW j \in Jobs, NEW i \in Items
      PROVE  stored[j][i] + (IF InFlight(j, i) THEN arrived[j] ELSE 0) \in Nat
  BY DEF Inv, TypeOK, Arrivals
<1>5. stored' \in [Jobs -> [Items -> Nat]]
  BY <1>4 DEF Die
<1> QED
  BY <1>1, <1>2, <1>3, <1>5 DEF Die, HistoryOK

LEMMA KillStep ==
  ASSUME Inv, Kill
  PROVE  Inv' /\ CompletedKept
<1>1. PICK arrived \in Arrivals : Die(arrived)
  BY DEF Kill
<1>2. job' = job /\ torn' = torn
  BY DEF Kill
<1> QED
  BY <1>1, <1>2, DieMemory, DownStep DEF Inv, TypeOK

\* What next() may leave behind of a row.
LEMMA TornNextRow ==
  ASSUME NEW j \in Jobs, NEW r, GoesOn(j, r), NEW s \in TornNext({r})
  PROVE  GoesOn(j, s)
<1>1. ~NothingNext(r) /\ s = TakeItem(r)
  BY DEF TornNext
<1>2. r \in JobRow /\ r.items \in [Items -> ItemStatus]
  BY DEF GoesOn, JobRow
<1>3. /\ FirstPending(r) \in Items /\ r.items[FirstPending(r)] = "pending"
      /\ s \in JobRow /\ s.items = [r.items EXCEPT ![FirstPending(r)] = "running"]
      /\ s.status # "absent"
  BY <1>1, NextRow DEF GoesOn
<1>4. \A i \in Items : r.items[i] = "completed" => s.items[i] = "completed"
  BY <1>2, <1>3
<1> QED
  BY <1>3, <1>4 DEF GoesOn

\* What a settlement may leave behind of a row.
LEMMA TornSettleRow ==
  ASSUME Inv, NEW j \in Jobs, NEW s \in TornSettle(j, job[j])
  PROVE  GoesOn(j, s)
<1>0. PICK q \in {p \in Runs : run[p].job = j /\ run[p].pc = "waiting"} :
        s \in UNION {{Mark(job[j], run[q].item, v), Finish(job[j], run[q].item, v)}
                       \cup TornNext({Finish(job[j], run[q].item, v)}) : v \in Verdicts(q)}
  BY DEF TornSettle
<1>1. PICK v \in Verdicts(q) :
        s \in {Mark(job[j], run[q].item, v), Finish(job[j], run[q].item, v)}
                \cup TornNext({Finish(job[j], run[q].item, v)})
  BY <1>0
<1>2. v \in ItemStatus
  BY DEF Verdicts, ItemStatus
<1>3. /\ run[q].item \in Items /\ job[j] \in JobRow
      /\ job[j].items[run[q].item] = "running"
      /\ job[j].status # "absent"
  BY DEF Inv, TypeOK, WaitingItemRunning, LiveHasRow, Live
<1>4. GoesOn(j, Finish(job[j], run[q].item, v))
  BY <1>2, SettledRow
<1>5. GoesOn(j, Mark(job[j], run[q].item, v))
  <2>1. /\ Mark(job[j], run[q].item, v) \in JobRow
        /\ Mark(job[j], run[q].item, v).items = [job[j].items EXCEPT ![run[q].item] = v]
        /\ Mark(job[j], run[q].item, v).status = job[j].status
    BY <1>2, <1>3, MarkRow
  <2>2. job[j].items \in [Items -> ItemStatus]
    BY <1>3 DEF JobRow
  <2>3. \A k \in Items : job[j].items[k] = "completed" =>
          [job[j].items EXCEPT ![run[q].item] = v][k] = "completed"
    BY <1>3, <2>2
  <2> QED
    BY <1>3, <2>1, <2>3 DEF GoesOn
<1> QED
  BY <1>1, <1>4, <1>5, TornNextRow

LEMMA TornRow ==
  ASSUME Inv, NEW j \in Jobs, NEW s \in TornRows(j)
  PROVE  GoesOn(j, s)
<1>1. job[j] \in JobRow
  BY DEF Inv, TypeOK
<1>2. CASE s \in TornCancel(job[j])
  BY <1>1, <1>2, CancelPendingRow DEF TornCancel, Active, Keeps, GoesOn
<1>3. CASE s \in TornRetry(job[j])
  BY <1>1, <1>3, RetryRowKeeps DEF TornRetry, Retryable, Keeps, GoesOn
<1>4. CASE s \in TornBegin(j, job[j])
  <2>1. s \in TornNext({job[j]}) /\ job[j].status # "absent"
    BY <1>4 DEF TornBegin, Inv, LiveHasRow, Live
  <2>2. GoesOn(j, job[j])
    BY <1>1, <2>1 DEF GoesOn
  <2> QED
    BY <2>1, <2>2, TornNextRow
<1>5. CASE s \in TornSettle(j, job[j])
  BY <1>5, TornSettleRow
<1> QED
  BY <1>2, <1>3, <1>4, <1>5 DEF TornRows

LEMMA KillInCallStep ==
  ASSUME Inv, KillInCall
  PROVE  Inv' /\ CompletedKept
<1>1. PICK j \in Jobs, arrived \in Arrivals :
        /\ \E r \in TornRows(j) : SetJob(j, r)
        /\ torn' = torn \cup {j}
        /\ Die(arrived)
  BY DEF KillInCall
<1>2. PICK r \in TornRows(j) : SetJob(j, r)
  BY <1>1
<1>3. GoesOn(j, r)
  BY <1>2, TornRow
<1>4. /\ job' \in [Jobs -> JobRow]
      /\ \A k \in Jobs : job'[k] = job[k] \/ GoesOn(k, job'[k])
  BY <1>2, <1>3 DEF Inv, TypeOK, SetJob, GoesOn
<1>5. torn' \in SUBSET Jobs
  BY <1>1 DEF Inv, TypeOK
<1> QED
  BY <1>1, <1>4, <1>5, DieMemory, DownStep

\* The recovery of a row, whole or cut short.
LEMMA RestartSteps ==
  ASSUME Inv, Restart \/ KillInRestart
  PROVE  Inv' /\ CompletedKept
<1>1. proc = "down" /\ proc' \in {"up", "stopping", "down"}
      /\ UNCHANGED <<run, running, controllers>>
  BY DEF Restart, KillInRestart, memory
<1>2. /\ run' \in [Runs -> Run] /\ running' = {}
      /\ controllers' \in [Jobs -> Runs \cup {None}]
      /\ \A q \in Runs : run'[q].pc = "idle" /\ run'[q].job = None
  BY <1>1 DEF Inv, TypeOK, DownIsIdle, IdleHasNoJob, Live
<1>3. HistoryOK'
  BY ImportAssumption DEF Inv, TypeOK, HistoryOK, history, Restart, KillInRestart
<1>4. ASSUME NEW j \in Jobs
      PROVE  job'[j] \in JobRow /\ (job'[j] = job[j] \/ GoesOn(j, job'[j]))
  <2>1. job[j] \in JobRow
    BY DEF Inv, TypeOK
  <2>2. CASE job[j].status = "absent"
    BY <2>1, <2>2 DEF Restart, KillInRestart, Recover
  <2>3. CASE job[j].status # "absent"
    <3>1. job'[j] = Recover(job[j]) \/ job'[j] = RecoverItems(job[j])
      BY <2>3 DEF Restart, KillInRestart
    <3> QED
      BY <2>1, <2>3, <3>1, RecoverRow DEF GoesOn
  <2> QED
    BY <2>2, <2>3
<1>5. job' \in [Jobs -> JobRow]
  BY <1>4 DEF Restart, KillInRestart
<1> QED
  BY <1>1, <1>2, <1>3, <1>4, <1>5, DownStep

-----------------------------------------------------------------------------
(* Theorems.                                                               *)

LEMMA InvInit == Init => Inv
<1> SUFFICES ASSUME Init PROVE Inv
  OBVIOUS
<1> USE DEF Init
<1>1. Idle \in Run /\ Idle.pc = "idle" /\ Idle.job = None
  BY ImportAssumption DEF Idle, Run
<1>2. Absent \in JobRow
  BY NewRowType
<1>3. TypeOK
  BY <1>1, <1>2, ImportAssumption DEF TypeOK
<1>4. OneRunPerJob
  BY <1>1 DEF OneRunPerJob
<1>5. DownIsIdle /\ IdleHasNoJob /\ LiveHasRow /\ AbsentIsEmpty /\ WaitingItemRunning
  BY <1>1 DEF DownIsIdle, IdleHasNoJob, LiveHasRow, AbsentIsEmpty,
              WaitingItemRunning, Live
<1> QED
  BY <1>3, <1>4, <1>5 DEF Inv

LEMMA InvStep == Inv /\ [Next]_vars => Inv' /\ CompletedKept
<1> SUFFICES ASSUME Inv, [Next]_vars PROVE Inv' /\ CompletedKept
  OBVIOUS
<1>1. ASSUME NEW j \in Jobs, Submit(j) \/ Retry(j) \/ Cancel(j)
      PROVE  Inv' /\ CompletedKept
  BY <1>1, SubmitStep, RetryStep, CancelStep
<1>2. ASSUME NEW q \in Runs, Begin(q) \/ Settle(q)
      PROVE  Inv' /\ CompletedKept
  BY <1>2, BeginStep, SettleStep
<1>3. CASE Shutdown
  BY <1>3, ShutdownStep
<1>4. CASE Exit
  <2>1. JobsKept /\ RunsKept
    BY <1>4 DEF Exit, memory, Inv, TypeOK, JobsKept, RunsKept
  <2>2. /\ job' = job /\ run' = run /\ running' = {} /\ running = {}
        /\ controllers' = controllers /\ proc' = "down" /\ HistoryOK'
    BY <1>4 DEF Exit, memory, history, HistoryOK, Inv, TypeOK
  <2>3. \A q \in Runs : run[q].pc = "idle" /\ run[q].job = None
    BY <2>2 DEF Inv, OneRunPerJob, IdleHasNoJob, Live
  <2> QED
    BY <2>2, <2>3, DownStep DEF Inv, TypeOK
<1>5. CASE Kill
  BY <1>5, KillStep
<1>6. CASE KillInCall
  BY <1>6, KillInCallStep
<1>7. CASE KillInRestart \/ Restart
  BY <1>7, RestartSteps
<1>8. CASE UNCHANGED vars
  <2>1. JobsKept /\ RunsKept /\ HistoryOK'
    BY <1>8 DEF vars, memory, history, Inv, TypeOK, JobsKept, RunsKept, HistoryOK
  <2>2. UNCHANGED <<running, controllers, proc>>
    BY <1>8 DEF vars, memory
  <2> QED
    BY <2>1, <2>2, QuietStep DEF Inv, TypeOK
<1> QED
  BY <1>1, <1>2, <1>3, <1>4, <1>5, <1>6, <1>7, <1>8 DEF Next

\* Inv holds for ever: types, one run per job, and what they rest on.
THEOREM InvAlways == Spec => []Inv
BY InvInit, InvStep, PTL DEF Spec

\* Ledger rows, runs and maps keep their types.
THEOREM TypeCorrect == Spec => []TypeOK
<1>1. Inv => TypeOK
  BY DEF Inv
<1> QED
  BY <1>1, InvAlways, PTL

\* The `running` map registers exactly the live runs, and a job never has two:
\* for every number of jobs, rounds, retries and kills.
THEOREM NoSecondRun == Spec => []OneRunPerJob
<1>1. Inv => OneRunPerJob
  BY DEF Inv
<1> QED
  BY <1>1, InvAlways, PTL

\* A round recorded as completed is never reset, so next() never sends it
\* again, whatever is retried, cancelled, killed or recovered.
THEOREM CompletedForGood == Spec => CompletedStays
<1>1. Inv /\ [Next]_vars =>
        [\A j \in Jobs, i \in Items :
           job[j].items[i] = "completed" => job'[j].items[i] = "completed"]_vars
  BY InvStep DEF CompletedKept
<1> QED
  BY <1>1, InvAlways, PTL DEF Spec, CompletedStays

-----------------------------------------------------------------------------
(* Rows no kill has torn.                                                  *)

Ended(r) == r.status \in JobStatus \ {"pending", "running"}

\* What the constructor's recovery turns an unfinished item into.
Verdict(r) == IF r.cancelRequested THEN "cancelled" ELSE "failed"
ToRecover(r) == Unfinished(r) \cup Having(r, Verdict(r))

\* A row between two ledger calls, in a live process or between two processes:
\* an ended row is what refresh() would make of it, and an active row has an
\* item the recovery has to settle, or one a recovery cut short has settled.
RowOK(r) ==
  /\ r.completed = Cardinality(Having(r, "completed"))
  /\ Having(r, "cancelled") # {} => r.cancelRequested
  /\ r.cancelRequested => Having(r, "pending") = {}
  /\ Ended(r) => r.status = Summary(r) /\ r.failed = Cardinality(Having(r, "failed"))
  /\ Active(r) => ToRecover(r) # {}

\* What a call of a live process leaves: an active row has an unfinished item.
RowLive(r) == RowOK(r) /\ (Active(r) => Unfinished(r) # {})

\* The counters and the derived status only look at the items and the flag.
LEMMA SameItems ==
  ASSUME NEW r, NEW s, r.items = s.items
  PROVE  /\ \A v : Having(r, v) = Having(s, v)
         /\ Unfinished(r) = Unfinished(s)
         /\ r.cancelRequested = s.cancelRequested => Summary(r) = Summary(s)
<1>1. \A v : Having(r, v) = Having(s, v)
  BY DEF Having
<1>2. Unfinished(r) = Unfinished(s)
  BY DEF Unfinished
<1> QED
  BY <1>1, <1>2 DEF Summary

LEMMA SameCompleted ==
  ASSUME NEW r, NEW s, NEW v,
         \A i \in Items : r.items[i] = v <=> s.items[i] = v
  PROVE  Having(r, v) = Having(s, v)
BY DEF Having

\* refresh() repairs counters and status, whatever they were.
LEMMA RefreshOK ==
  ASSUME NEW r \in JobRow,
         Having(r, "cancelled") # {} => r.cancelRequested,
         r.cancelRequested => Having(r, "pending") = {}
  PROVE  /\ RowLive(Refresh(r))
         /\ Refresh(r).cancelRequested = r.cancelRequested
         /\ Active(Refresh(r)) => Unfinished(r) # {}
<1> DEFINE s == Refresh(r)
<1>1. /\ s.items = r.items /\ s.cancelRequested = r.cancelRequested
      /\ s.status = Summary(r)
      /\ s.completed = Cardinality(Having(r, "completed"))
      /\ s.failed = Cardinality(Having(r, "failed"))
  BY DEF Refresh, JobRow
<1>2. /\ \A v : Having(s, v) = Having(r, v)
      /\ Unfinished(s) = Unfinished(r) /\ Summary(s) = Summary(r)
  BY <1>1, SameItems
<1>3. Active(s) => Unfinished(r) # {}
  BY <1>1 DEF Active, Summary
<1> HIDE DEF s
<1>4. RowLive(s)
  BY <1>1, <1>2, <1>3 DEF RowLive, RowOK, ToRecover
<1> QED
  BY <1>1, <1>3, <1>4 DEF s

\* requestCancel(): only the pending items change.
LEMMA RequestCancelItems ==
  ASSUME NEW r \in JobRow
  PROVE  \A i \in Items : RequestCancel(r).items[i] =
           IF Active(r) /\ r.items[i] = "pending" THEN "cancelled" ELSE r.items[i]
<1>1. FlagCancel(r) \in JobRow /\ FlagCancel(r).items = r.items
  BY DEF FlagCancel, JobRow
<1>2. /\ CancelPending(r) \in JobRow
      /\ \A i \in Items : CancelPending(r).items[i] =
           IF r.items[i] = "pending" THEN "cancelled" ELSE r.items[i]
  BY <1>1, MarkAllRow DEF CancelPending, ItemStatus
<1>3. Refresh(CancelPending(r)).items = CancelPending(r).items
  BY <1>2, RefreshRow
<1> QED
  BY <1>2, <1>3 DEF RequestCancel

\* After a cancel only an item whose request is under way keeps a row active.
LEMMA RequestCancelOK ==
  ASSUME NEW r \in JobRow, RowLive(r)
  PROVE  /\ RowLive(RequestCancel(r))
         /\ Active(r) => RequestCancel(r).cancelRequested
         /\ r.cancelRequested => RequestCancel(r).cancelRequested
         /\ Active(RequestCancel(r)) =>
              \E i \in Items : RequestCancel(r).items[i] = "running"
<1>1. CASE ~Active(r)
  BY <1>1 DEF RequestCancel
<1>2. CASE Active(r)
  <2> DEFINE c == CancelPending(r)
  <2>1. /\ FlagCancel(r) \in JobRow /\ FlagCancel(r).items = r.items
        /\ FlagCancel(r).cancelRequested = TRUE
    BY DEF FlagCancel, JobRow
  <2>2. /\ c \in JobRow /\ c.cancelRequested = TRUE
        /\ \A i \in Items : c.items[i] # "pending"
    BY <2>1, MarkAllRow DEF CancelPending, ItemStatus, MarkAll, JobRow
  <2>3. RequestCancel(r) = Refresh(c)
    BY <1>2 DEF RequestCancel
  <2> HIDE DEF c
  <2>4. Having(c, "pending") = {}
    BY <2>2 DEF Having
  <2>5. /\ RowLive(Refresh(c)) /\ Refresh(c).cancelRequested
        /\ Active(Refresh(c)) => Unfinished(c) # {}
    BY <2>2, <2>4, RefreshOK
  <2>6. Unfinished(c) # {} => \E i \in Items : c.items[i] = "running"
    BY <2>2 DEF Unfinished
  <2>7. Refresh(c).items = c.items
    BY <2>2, RefreshRow
  <2> QED
    BY <2>3, <2>5, <2>6, <2>7
<1> QED
  BY <1>1, <1>2

\* retry(): what failed or was cancelled is pending, the rest is untouched.
LEMMA RetryItems ==
  ASSUME NEW r \in JobRow
  PROVE  \A i \in Items : RetryRow(r).items[i] =
           IF r.items[i] \in {"failed", "cancelled"} THEN "pending" ELSE r.items[i]
<1>1. /\ Requeue(r) \in JobRow
      /\ \A i \in Items : Requeue(r).items[i] =
           IF r.items[i] \in {"failed", "cancelled"} THEN "pending" ELSE r.items[i]
  BY MarkAllRow DEF Requeue, ItemStatus
<1>2. RetryRow(r).items = Requeue(r).items
  BY <1>1 DEF RetryRow, JobRow
<1> QED
  BY <1>1, <1>2

\* A row that can be retried has an item to retry and none under way.
LEMMA RetryOK ==
  ASSUME NEW r \in JobRow, RowOK(r), Retryable(r)
  PROVE  /\ RowLive(RetryRow(r)) /\ Active(RetryRow(r))
         /\ \A i \in Items : RetryRow(r).items[i] # "running"
<1> DEFINE s == RetryRow(r)
<1>1. Ended(r) /\ r.status = Summary(r)
  BY DEF Retryable, Ended, JobStatus, RowOK
<1>2. Unfinished(r) = {} /\ Having(r, "failed") \cup Having(r, "cancelled") # {}
  BY <1>1 DEF Summary, Ended, Retryable
<1>3. \A i \in Items : r.items[i] \in {"completed", "failed", "cancelled"}
  BY <1>2 DEF Unfinished, JobRow, ItemStatus
<1>4. \A i \in Items : s.items[i] =
        IF r.items[i] = "completed" THEN "completed" ELSE "pending"
  BY <1>3, RetryItems
<1>5. /\ s.status = "pending" /\ s.cancelRequested = FALSE
      /\ s.completed = r.completed
  BY DEF RetryRow, Requeue, MarkAll, JobRow
<1> HIDE DEF s
<1>6. Unfinished(s) # {}
  BY <1>2, <1>4 DEF Having, Unfinished
<1>7. Having(s, "completed") = Having(r, "completed") /\ Having(s, "cancelled") = {}
  BY <1>4 DEF Having
<1>8. Active(s) /\ ~Ended(s)
  BY <1>5 DEF Active, Ended
<1>9. RowLive(s)
  BY <1>5, <1>6, <1>7, <1>8 DEF RowLive, RowOK, ToRecover
<1> QED
  BY <1>4, <1>8, <1>9 DEF s

LEMMA NewRowOK == RowLive(Absent) /\ RowLive(NewRow) /\ Active(NewRow)
<1>1. ASSUME NEW r, r.items = Absent.items, r.completed = 0,
             r.cancelRequested = FALSE, r.status \in {"absent", "pending"}
      PROVE  RowLive(r)
  <2>1. \A i \in Items : r.items[i] = "pending"
    BY <1>1 DEF Absent
  <2>2. Having(r, "completed") = {} /\ Having(r, "cancelled") = {}
    BY <2>1 DEF Having
  <2>3. Unfinished(r) # {}
    BY <2>1, ImportAssumption DEF Unfinished, Items
  <2>4. ~Ended(r)
    BY <1>1 DEF Ended, JobStatus
  <2> QED
    BY <1>1, <2>2, <2>3, <2>4, FS_EmptySet DEF RowLive, RowOK, ToRecover
<1>2. RowLive(Absent)
  BY <1>1 DEF Absent
<1>3. /\ NewRow.items = Absent.items /\ NewRow.completed = 0
      /\ NewRow.cancelRequested = FALSE /\ NewRow.status = "pending"
  BY DEF NewRow, Absent
<1> QED
  BY <1>1, <1>2, <1>3 DEF Active

\* complete(), fail() and cancel() of the item a run waited for.
LEMMA FinishOK ==
  ASSUME NEW r \in JobRow, RowOK(r), NEW i \in Items,
         NEW v \in {"completed", "failed", "cancelled"},
         v = "cancelled" => r.cancelRequested
  PROVE  /\ RowLive(Finish(r, i, v))
         /\ Finish(r, i, v).cancelRequested = r.cancelRequested
<1> DEFINE m == Mark(r, i, v)
<1>1. m \in JobRow /\ m.items = [r.items EXCEPT ![i] = v]
      /\ m.cancelRequested = r.cancelRequested
  BY MarkRow DEF ItemStatus, Mark, JobRow
<1>2. r.items \in [Items -> ItemStatus]
  BY DEF JobRow
<1> HIDE DEF m
<1>3. Having(m, "cancelled") # {} => Having(r, "cancelled") # {} \/ v = "cancelled"
  BY <1>1, <1>2 DEF Having
<1>4. Having(r, "pending") = {} => Having(m, "pending") = {}
  BY <1>1, <1>2 DEF Having
<1>5. /\ Having(m, "cancelled") # {} => m.cancelRequested
      /\ m.cancelRequested => Having(m, "pending") = {}
  BY <1>1, <1>3, <1>4 DEF RowOK
<1> QED
  BY <1>1, <1>5, RefreshOK DEF Finish, m

\* next() leaves an active row with an item under way.
LEMMA NextOK ==
  ASSUME NEW r \in JobRow, RowOK(r), r.status # "absent", ~NothingNext(r)
  PROVE  /\ RowLive(Next1(r)) /\ Next1(r).cancelRequested = r.cancelRequested
         /\ ~Next1(r).cancelRequested
<1> DEFINE s == Next1(r)
           i == FirstPending(r)
<1>1. /\ i \in Items /\ r.items[i] = "pending"
      /\ s.items = [r.items EXCEPT ![i] = "running"]
  BY NextRow
<1>2. /\ s.status = "running" /\ s.cancelRequested = r.cancelRequested
      /\ s.completed = r.completed
  BY DEF Next1, TakeItem, Mark, JobRow
<1>3. r.items \in [Items -> ItemStatus] /\ ~r.cancelRequested
  BY DEF JobRow, NothingNext
<1> HIDE DEF s, i
<1>4. Having(s, "completed") = Having(r, "completed")
  BY <1>1, <1>3 DEF Having
<1>5. Having(s, "cancelled") = Having(r, "cancelled")
  BY <1>1, <1>3 DEF Having
<1>6. Unfinished(s) # {}
  BY <1>1, <1>3 DEF Unfinished
<1>7. Active(s) /\ ~Ended(s)
  BY <1>2 DEF Active, Ended
<1>8. RowLive(s)
  BY <1>2, <1>3, <1>4, <1>5, <1>6, <1>7 DEF RowLive, RowOK, ToRecover
<1> QED
  BY <1>2, <1>3, <1>8 DEF s

\* The recovery settles every unfinished item, and both its statements leave
\* rows the next recovery can go on with.
LEMMA RecoverItemsAre ==
  ASSUME NEW r \in JobRow
  PROVE  \A i \in Items : RecoverItems(r).items[i] =
           IF r.items[i] \in {"pending", "running"} THEN Verdict(r) ELSE r.items[i]
BY MarkAllRow DEF RecoverItems, Verdict, ItemStatus

LEMMA RecoverOK ==
  ASSUME NEW r \in JobRow, RowOK(r), r.status # "absent"
  PROVE  /\ RowOK(RecoverItems(r))
         /\ RowOK(Recover(r)) /\ ~Active(Recover(r))
         /\ Recover(r).items = RecoverItems(r).items
<1> DEFINE s == RecoverItems(r)
           t == RecoverJob(s)
<1>1. \A i \in Items : s.items[i] =
        IF r.items[i] \in {"pending", "running"} THEN Verdict(r) ELSE r.items[i]
  BY RecoverItemsAre
<1>2. /\ s \in JobRow /\ s.status = r.status /\ s.cancelRequested = r.cancelRequested
      /\ s.completed = r.completed /\ s.failed = r.failed
  BY MarkAllRow DEF RecoverItems, ItemStatus, MarkAll, JobRow
<1>3. Recover(r) = t
  BY DEF Recover
<1> HIDE DEF s
<1>4. /\ Unfinished(s) = {} /\ Having(s, "pending") = {}
      /\ Having(s, "completed") = Having(r, "completed")
      /\ Having(s, Verdict(r)) = ToRecover(r)
      /\ Verdict(r) = "failed" => Having(s, "cancelled") = Having(r, "cancelled")
      /\ Verdict(s) = Verdict(r)
  BY <1>1, <1>2 DEF Unfinished, Having, ToRecover, Verdict
<1>5. CASE ~Active(r)
  <2>1. Ended(r) /\ Unfinished(r) = {}
    BY <1>5 DEF Ended, Active, JobRow, JobStatus, RowOK, Summary
  <2>2. \A i \in Items : s.items[i] = r.items[i]
    BY <1>1, <2>1 DEF Unfinished
  <2>3. s.items = r.items
    BY <1>2, <2>2 DEF JobRow
  <2>4. RowOK(s) /\ t = s
    BY <1>2, <1>5, <2>3, SameItems DEF RowOK, RecoverJob, Active, Ended, ToRecover, Verdict
  <2> QED
    BY <1>2, <1>3, <1>5, <2>4 DEF Active, s
<1>6. CASE Active(r)
  <2>1. Active(s) /\ ~Ended(s)
    BY <1>2, <1>6 DEF Active, Ended
  <2>2. Having(s, Verdict(r)) # {} /\ r.completed = Cardinality(Having(r, "completed"))
    BY <1>4, <1>6 DEF RowOK
  <2>3. Having(s, "cancelled") # {} => s.cancelRequested
    BY <1>2, <1>4 DEF RowOK, Verdict
  <2>4. RowOK(s)
    BY <1>2, <1>4, <2>1, <2>2, <2>3 DEF RowOK, ToRecover
  <2>5. /\ t.items = s.items /\ t.cancelRequested = s.cancelRequested
        /\ t.completed = s.completed
        /\ t.failed = Cardinality(Having(s, "failed"))
        /\ t.status = CASE s.cancelRequested -> "cancelled"
                        [] ~s.cancelRequested /\ s.completed > 0 -> "partial"
                        [] OTHER -> "failed"
    BY <1>2, <2>1 DEF RecoverJob, JobRow
  <2> HIDE DEF t
  <2>6. /\ Unfinished(t) = {} /\ \A v : Having(t, v) = Having(s, v)
    BY <1>4, <2>5, SameItems
  <2>7. s.completed > 0 <=> Having(s, "completed") # {}
    <3>1. IsFiniteSet(Having(r, "completed"))
      <4>1. IsFiniteSet(Items)
        BY FS_Interval, ImportAssumption DEF Items
      <4>2. Having(r, "completed") \in SUBSET Items
        BY DEF Having
      <4> QED
        BY <4>1, <4>2, FS_Subset
    <3> QED
      BY <3>1, <1>2, <1>4, <2>2, FS_EmptySet, FS_CardinalityType
  <2>8. t.status = Summary(t)
    <3>1. CASE s.cancelRequested
      BY <1>2, <2>2, <2>5, <2>6, <3>1 DEF Summary, Verdict
    <3>2. CASE ~s.cancelRequested
      BY <1>2, <2>2, <2>5, <2>6, <2>7, <3>2 DEF Summary, Verdict
    <3> QED
      BY <3>1, <3>2
  <2>9. ~Active(t)
    BY <2>5 DEF Active
  <2>10. RowOK(t)
    BY <1>2, <1>4, <2>2, <2>3, <2>5, <2>6, <2>8, <2>9 DEF RowOK
  <2> QED
    BY <1>3, <2>4, <2>5, <2>9, <2>10 DEF s
<1> QED
  BY <1>5, <1>6

-----------------------------------------------------------------------------
(* No work is stranded: every step keeps the rows no kill has torn.        *)

JobOK(j) ==
  j \notin torn =>
    /\ RowOK(job[j])
    /\ proc # "down" =>
         /\ Active(job[j]) => Unfinished(job[j]) # {} /\ j \in running
         /\ \A i \in Items : job[j].items[i] = "running" => InFlight(j, i)

\* Only a request under way is ever aborted, and only for a job that was told
\* to cancel, so that no aborted run takes another item.
AbortedFlagged ==
  \A q \in Runs : run[q].aborted =>
    /\ run[q].pc = "waiting"
    /\ run[q].job \notin torn => job[run[q].job].cancelRequested

\* A controller is registered only while its run waits.
ControllersWait ==
  \A j \in Jobs : controllers[j] # None =>
    run[controllers[j]].pc = "waiting" /\ run[controllers[j]].job = j

WorkInv == (\A j \in Jobs : JobOK(j)) /\ AbortedFlagged /\ ControllersWait

\* The row of a request under way is active.
LEMMA WaitingActive ==
  ASSUME Inv, NEW q \in Runs, run[q].pc = "waiting", RowOK(job[run[q].job])
  PROVE  Active(job[run[q].job])
<1> DEFINE r == job[run[q].job]
<1>1. /\ r \in JobRow /\ run[q].item \in Items /\ r.items[run[q].item] = "running"
      /\ r.status # "absent"
  BY DEF Inv, TypeOK, WaitingItemRunning, LiveHasRow, Live
<1>2. Unfinished(r) # {}
  BY <1>1 DEF Unfinished
<1> HIDE DEF r
<1>3. RowOK(r)
  BY DEF r
<1>4. ~Ended(r)
  BY <1>2, <1>3 DEF RowOK, Ended, Summary
<1> QED
  BY <1>1, <1>4 DEF Ended, Active, JobRow, JobStatus, r

\* The items a live job shows as running are those its runs wait for.
LEMMA RunningIsItsItem ==
  ASSUME Inv, NEW q \in Runs, Live(q), NEW j \in Jobs, j = run[q].job, JobOK(j),
         j \notin torn, NEW i \in Items, job[j].items[i] = "running"
  PROVE  run[q].pc = "waiting" /\ run[q].item = i
<1>1. proc # "down"
  BY DEF Inv, DownIsIdle
<1>2. InFlight(j, i)
  BY <1>1 DEF JobOK
<1>3. PICK p \in Runs : run[p].pc = "waiting" /\ run[p].job = j /\ run[p].item = i
  BY <1>2 DEF InFlight
<1>4. p = q
  BY <1>3, OthersElsewhere
<1> QED
  BY <1>3, <1>4

\* A call beside the runs: it may cancel, retry, abort or schedule.
LEMMA CallWork ==
  ASSUME Inv, WorkInv, proc # "down", torn' = torn, UNCHANGED controllers,
         running \subseteq running', run' \in [Runs -> Run],
         \A q \in Runs : run[q].pc = "waiting" =>
           /\ run'[q].pc = "waiting"
           /\ run'[q].job = run[q].job
           /\ run'[q].item = run[q].item,
         \A q \in Runs : run'[q].aborted =>
           run[q].aborted \/ /\ run[q].pc = "waiting"
                             /\ run[q].job \notin torn =>
                                  job'[run[q].job].cancelRequested,
         \A j \in Jobs \ torn : Active(job[j]) /\ job[j].cancelRequested =>
           job'[j].cancelRequested,
         \A j \in Jobs \ torn : job'[j] = job[j] \/
           /\ RowLive(job'[j])
           /\ Active(job'[j]) => j \in running'
           /\ \A i \in Items : job'[j].items[i] = "running" =>
                job[j].items[i] = "running"
  PROVE  WorkInv'
<1>1. ASSUME NEW j \in Jobs
      PROVE  JobOK(j)'
  <2> SUFFICES ASSUME j \notin torn
               PROVE  /\ RowOK(job'[j])
                      /\ Active(job'[j]) => Unfinished(job'[j]) # {} /\ j \in running'
                      /\ \A i \in Items : job'[j].items[i] = "running" => InFlight(j, i)'
    BY DEF JobOK
  <2>1. /\ RowOK(job[j])
        /\ Active(job[j]) => Unfinished(job[j]) # {} /\ j \in running
        /\ \A i \in Items : job[j].items[i] = "running" => InFlight(j, i)
    BY DEF WorkInv, JobOK
  <2>2. \A i \in Items : InFlight(j, i) => InFlight(j, i)'
    BY DEF InFlight
  <2>3. CASE job'[j] = job[j]
    BY <2>1, <2>2, <2>3
  <2>4. CASE job'[j] # job[j]
    BY <2>1, <2>2, <2>4 DEF RowLive
  <2> QED
    BY <2>3, <2>4
<1>2. AbortedFlagged'
  <2> SUFFICES ASSUME NEW q \in Runs, run'[q].aborted
               PROVE  /\ run'[q].pc = "waiting"
                      /\ run'[q].job \notin torn => job'[run'[q].job].cancelRequested
    BY DEF AbortedFlagged
  <2>1. CASE run[q].aborted
    <3>1. /\ run[q].pc = "waiting" /\ run[q].job \in Jobs
          /\ run[q].job \notin torn => job[run[q].job].cancelRequested
      BY <2>1 DEF WorkInv, AbortedFlagged, Inv, TypeOK
    <3>2. run[q].job \notin torn => Active(job[run[q].job])
      BY <3>1, WaitingActive DEF WorkInv, JobOK
    <3> QED
      BY <3>1, <3>2
  <2>2. CASE ~run[q].aborted
    BY <2>2
  <2> QED
    BY <2>1, <2>2
<1>3. ControllersWait'
  BY DEF WorkInv, ControllersWait, Inv, TypeOK
<1> QED
  BY <1>1, <1>2, <1>3 DEF WorkInv

\* schedule() with the row a submission or a retry left.
LEMMA ScheduleWork ==
  ASSUME Inv, WorkInv, NEW j \in Jobs, NEW r \in JobRow, Schedule(j, r),
         UNCHANGED <<proc, crashes, history>>,
         j \notin torn => RowLive(r),
         j \notin torn => \A i \in Items : r.items[i] = "running" =>
                            job[j].items[i] = "running",
         j \notin torn => (Active(job[j]) /\ job[j].cancelRequested =>
                             r.cancelRequested)
  PROVE  WorkInv'
<1>1. proc # "down" /\ torn' = torn /\ UNCHANGED controllers
  BY DEF Schedule, memory, history
<1>2. CASE SetJob(j, RequestCancel(r)) /\ UNCHANGED memory
  <2>1. /\ job'[j] = RequestCancel(r)
        /\ \A k \in Jobs \ {j} : job'[k] = job[k]
    BY <1>2 DEF Inv, TypeOK, SetJob
  <2>2. \A i \in Items : RequestCancel(r).items[i] = "running" => r.items[i] = "running"
    BY RequestCancelItems
  <2>3. ASSUME j \notin torn
        PROVE  /\ RowLive(job'[j])
               /\ Active(job'[j]) => j \in running'
               /\ \A i \in Items : job'[j].items[i] = "running" =>
                    job[j].items[i] = "running"
               /\ Active(job[j]) /\ job[j].cancelRequested => job'[j].cancelRequested
    <3>1. /\ RowLive(RequestCancel(r))
          /\ r.cancelRequested => RequestCancel(r).cancelRequested
          /\ Active(RequestCancel(r)) =>
               \E i \in Items : RequestCancel(r).items[i] = "running"
      BY <2>3, RequestCancelOK
    <3>2. (\E i \in Items : job[j].items[i] = "running") => j \in running
      <4> SUFFICES ASSUME NEW i \in Items, job[j].items[i] = "running"
                   PROVE  j \in running
        OBVIOUS
      <4>1. InFlight(j, i)
        BY <1>1, <2>3 DEF WorkInv, JobOK
      <4> QED
        BY <4>1 DEF InFlight, Inv, OneRunPerJob
    <3> QED
      BY <1>2, <2>1, <2>2, <2>3, <3>1, <3>2 DEF memory
  <2>4. \A k \in Jobs \ torn : job'[k] = job[k] \/
           /\ RowLive(job'[k])
           /\ Active(job'[k]) => k \in running'
           /\ \A i \in Items : job'[k].items[i] = "running" =>
                job[k].items[i] = "running"
    BY <2>1, <2>3
  <2>5. \A k \in Jobs \ torn : Active(job[k]) /\ job[k].cancelRequested =>
           job'[k].cancelRequested
    BY <2>1, <2>3
  <2>6. run' = run /\ running' = running /\ run' \in [Runs -> Run]
    BY <1>2 DEF memory, Inv, TypeOK
  <2> QED
    BY <1>1, <2>4, <2>5, <2>6, CallWork
<1>3. CASE /\ SetJob(j, r) /\ j \in running' /\ running \subseteq running'
           /\ \A q \in Runs : run'[q] = run[q] \/
                /\ run[q].pc = "idle"
                /\ run'[q] = [Idle EXCEPT !.pc = "scheduled", !.job = j]
           /\ run' \in [Runs -> Run]
  <2>1. job'[j] = r /\ \A k \in Jobs \ {j} : job'[k] = job[k]
    BY <1>3 DEF Inv, TypeOK, SetJob
  <2>2. \A q \in Runs : run[q].pc = "waiting" =>
           /\ run'[q].pc = "waiting"
           /\ run'[q].job = run[q].job
           /\ run'[q].item = run[q].item
    BY <1>3
  <2>3. \A q \in Runs : run'[q].aborted => run[q].aborted
    BY <1>3 DEF Idle
  <2>4. \A k \in Jobs \ torn : job'[k] = job[k] \/
           /\ RowLive(job'[k])
           /\ Active(job'[k]) => k \in running'
           /\ \A i \in Items : job'[k].items[i] = "running" =>
                job[k].items[i] = "running"
    BY <1>3, <2>1
  <2>5. \A k \in Jobs \ torn : Active(job[k]) /\ job[k].cancelRequested =>
           job'[k].cancelRequested
    BY <2>1
  <2> QED
    <3>1. /\ run' \in [Runs -> Run] /\ running \subseteq running'
          /\ proc # "down" /\ torn' = torn /\ UNCHANGED controllers
      BY <1>1, <1>3
    <3>2. \A q \in Runs : run'[q].aborted =>
            run[q].aborted \/ /\ run[q].pc = "waiting"
                              /\ run[q].job \notin torn =>
                                   job'[run[q].job].cancelRequested
      BY <2>3
    <3> QED
      BY <3>1, <3>2, <2>2, <2>4, <2>5, CallWork
<1>4. Schedule(j, r) =>
        \/ SetJob(j, RequestCancel(r)) /\ UNCHANGED memory
        \/ /\ SetJob(j, r) /\ j \in running' /\ running \subseteq running'
           /\ \A q \in Runs : run'[q] = run[q] \/
                /\ run[q].pc = "idle"
                /\ run'[q] = [Idle EXCEPT !.pc = "scheduled", !.job = j]
           /\ run' \in [Runs -> Run]
  <2>1. CASE proc = "up" /\ j \in running /\ SetJob(j, r) /\ UNCHANGED memory
    BY <2>1 DEF memory, Inv, TypeOK
  <2>2. ASSUME SetJob(j, r), running' = running \cup {j}, NEW q \in Runs, run[q] = Idle,
               run' = [run EXCEPT ![q] = [Idle EXCEPT !.pc = "scheduled", !.job = j]]
        PROVE  /\ SetJob(j, r) /\ j \in running' /\ running \subseteq running'
               /\ \A p \in Runs : run'[p] = run[p] \/
                    /\ run[p].pc = "idle"
                    /\ run'[p] = [Idle EXCEPT !.pc = "scheduled", !.job = j]
               /\ run' \in [Runs -> Run]
    <3>1. [Idle EXCEPT !.pc = "scheduled", !.job = j] \in Run
      <4>1. 0 \in 0 .. N
        BY ImportAssumption
      <4> QED
        BY <4>1 DEF Idle, Run
    <3>2. run[q].pc = "idle"
      BY <2>2 DEF Idle
    <3> QED
      BY <2>2, <3>1, <3>2 DEF Inv, TypeOK
  <2> QED
    BY <2>1, <2>2 DEF Schedule
<1> QED
  BY <1>2, <1>3, <1>4

LEMMA SubmitWork ==
  ASSUME Inv, WorkInv, NEW j \in Jobs, Submit(j)
  PROVE  WorkInv'
<1>1. UNCHANGED <<proc, crashes, history>>
  BY DEF Submit
<1>2. CASE job[j].status = "absent" /\ Schedule(j, NewRow)
  <2>1. ~Active(job[j])
    BY <1>2 DEF Active
  <2>2. \A i \in Items : NewRow.items[i] # "running"
    BY DEF NewRow, Absent
  <2> QED
    BY <1>1, <1>2, <2>1, <2>2, NewRowType, NewRowOK, ScheduleWork
<1>3. CASE job[j].status = "pending" /\ Schedule(j, job[j])
  <2>1. job[j] \in JobRow /\ proc # "down"
    BY <1>3 DEF Inv, TypeOK, Schedule
  <2>2. j \notin torn => RowLive(job[j])
    BY <2>1 DEF WorkInv, JobOK, RowLive
  <2> QED
    BY <1>1, <1>3, <2>1, <2>2, ScheduleWork
<1> QED
  BY <1>2, <1>3 DEF Submit

LEMMA RetryWork ==
  ASSUME Inv, WorkInv, NEW j \in Jobs, Retry(j)
  PROVE  WorkInv'
<1>1. /\ Retryable(job[j]) /\ Schedule(j, RetryRow(job[j]))
      /\ UNCHANGED <<proc, crashes, history>> /\ job[j] \in JobRow
  BY DEF Retry, Inv, TypeOK
<1>2. ~Active(job[j]) /\ job[j].status # "absent"
  BY <1>1 DEF Retryable, Active
<1>3. RetryRow(job[j]) \in JobRow
  BY <1>1, <1>2, RetryRowKeeps DEF Keeps
<1>4. j \notin torn => /\ RowLive(RetryRow(job[j]))
                       /\ \A i \in Items : RetryRow(job[j]).items[i] # "running"
  BY <1>1, RetryOK DEF WorkInv, JobOK
<1> QED
  BY <1>1, <1>2, <1>3, <1>4, ScheduleWork

\* What requestCancel() does to the rows in J while their requests are aborted.
LEMMA CancelWork ==
  ASSUME Inv, WorkInv, NEW J, Abort(J), proc # "down", torn' = torn,
         UNCHANGED <<running, controllers>>,
         \A j \in Jobs : job'[j] = IF j \in J THEN RequestCancel(job[j]) ELSE job[j],
         \A j \in J : controllers[j] # None => j \in Jobs
  PROVE  WorkInv'
<1>1. RunsKept
  BY AbortKeepsRuns
<1>2. ASSUME NEW j \in Jobs \ torn
      PROVE  /\ job'[j] = job[j] \/
                  /\ RowLive(job'[j])
                  /\ Active(job'[j]) => j \in running'
                  /\ \A i \in Items : job'[j].items[i] = "running" =>
                       job[j].items[i] = "running"
             /\ Active(job[j]) /\ job[j].cancelRequested => job'[j].cancelRequested
             /\ Active(job[j]) /\ j \in J => job'[j].cancelRequested
  <2>1. job[j] \in JobRow /\ RowLive(job[j]) /\ (Active(job[j]) => j \in running)
    BY DEF Inv, TypeOK, WorkInv, JobOK, RowLive
  <2>2. CASE j \in J /\ Active(job[j])
    BY <2>1, <2>2, RequestCancelOK, RequestCancelItems
  <2>3. CASE j \notin J \/ ~Active(job[j])
    BY <2>3 DEF RequestCancel
  <2> QED
    BY <2>2, <2>3
<1>3. ASSUME NEW q \in Runs, run'[q].aborted, ~run[q].aborted
      PROVE  /\ run[q].pc = "waiting"
             /\ run[q].job \notin torn => job'[run[q].job].cancelRequested
  <2>1. PICK j \in J : controllers[j] = q
    BY <1>3 DEF Abort
  <2>2. j \in Jobs /\ run[q].pc = "waiting" /\ run[q].job = j
    BY <2>1, ImportAssumption DEF WorkInv, ControllersWait
  <2>3. j \notin torn => Active(job[j])
    BY <2>2, WaitingActive DEF WorkInv, JobOK
  <2> QED
    BY <1>2, <2>2, <2>3
<1> QED
  BY <1>1, <1>2, <1>3, CallWork DEF RunsKept

LEMMA CancelCallWork ==
  ASSUME Inv, WorkInv, NEW j \in Jobs, Cancel(j)
  PROVE  WorkInv'
<1>1. \A k \in Jobs : job'[k] = IF k \in {j} THEN RequestCancel(job[k]) ELSE job[k]
  BY DEF Cancel, SetJob, Inv, TypeOK
<1> QED
  BY <1>1, CancelWork DEF Cancel, history

LEMMA ShutdownWork ==
  ASSUME Inv, WorkInv, Shutdown
  PROVE  WorkInv'
<1> DEFINE J == running \cup {j \in Jobs : controllers[j] # None}
<1>1. \A k \in Jobs : job'[k] = IF k \in J THEN RequestCancel(job[k]) ELSE job[k]
  BY DEF Shutdown
<1>2. Abort(J) /\ proc # "down" /\ torn' = torn /\ UNCHANGED <<running, controllers>>
  BY DEF Shutdown, history
<1>3. \A j \in J : j \in Jobs
  BY DEF Inv, TypeOK
<1> HIDE DEF J
<1> QED
  BY <1>1, <1>2, <1>3, CancelWork

\* run(id) leaves through `finally` with a row that has nothing left to do.
LEMMA LeaveWork ==
  ASSUME Inv, WorkInv, NEW q \in Runs, Live(q), NEW r \in JobRow,
         Leave(q, run[q].job, r), UNCHANGED proc, torn' = torn,
         run[q].job \notin torn =>
           RowLive(r) /\ NothingNext(r) /\ \A i \in Items : r.items[i] # "running"
  PROVE  WorkInv'
<1> DEFINE j == run[q].job
<1>1. /\ j \in Jobs /\ job'[j] = r
      /\ \A k \in Jobs \ {j} : job'[k] = job[k]
  BY DEF Inv, TypeOK, Live, Leave, SetJob
<1>2. Idle.pc = "idle" /\ Idle.job = None /\ Idle.aborted = FALSE
  BY DEF Idle
<1>3. run'[q] = Idle /\ \A p \in Runs \ {q} : run'[p] = run[p] /\ run[p].job # j
  BY OthersElsewhere DEF Inv, TypeOK, Leave
<1>4. /\ running' = running \ {j}
      /\ controllers' = [controllers EXCEPT ![j] = None]
  BY DEF Leave
<1> HIDE DEF j
<1>5. ASSUME NEW k \in Jobs
      PROVE  JobOK(k)'
  <2>1. CASE k = j
    <3> SUFFICES ASSUME j \notin torn
                 PROVE  /\ RowOK(r) /\ ~Active(r)
                        /\ \A i \in Items : r.items[i] # "running"
      BY <1>1, <2>1 DEF JobOK
    <3>1. RowLive(r) /\ NothingNext(r) /\ \A i \in Items : r.items[i] # "running"
      BY DEF j
    <3>2. Having(r, "pending") = {}
      BY <3>1 DEF RowLive, RowOK, NothingNext
    <3>3. Unfinished(r) = {}
      BY <3>1, <3>2 DEF Unfinished, Having
    <3>4. ~Active(r)
      BY <3>1, <3>3 DEF RowLive
    <3> QED
      BY <3>1, <3>4 DEF RowLive
  <2>2. CASE k # j
    <3>1. \A i \in Items : InFlight(k, i) => InFlight(k, i)'
      BY <1>3, <2>2 DEF InFlight, j
    <3>2. job'[k] = job[k] /\ (k \in running => k \in running')
      BY <1>1, <1>4, <2>2
    <3> QED
      BY <3>1, <3>2 DEF WorkInv, JobOK
  <2> QED
    BY <2>1, <2>2
<1>6. AbortedFlagged'
  BY <1>1, <1>2, <1>3 DEF WorkInv, AbortedFlagged, Inv, TypeOK
<1>7. ControllersWait'
  BY <1>1, <1>3, <1>4 DEF WorkInv, ControllersWait, Inv, TypeOK, j
<1> QED
  BY <1>5, <1>6, <1>7 DEF WorkInv

\* run(id) takes the next item of a row that is not cancelled.
LEMMA TakeWork ==
  ASSUME Inv, WorkInv, NEW q \in Runs, Live(q), NEW r \in JobRow, r.status # "absent",
         ~NothingNext(r), SetJob(run[q].job, Next1(r)),
         run' = [run EXCEPT ![q].pc = "waiting", ![q].item = FirstPending(r)],
         controllers' = [controllers EXCEPT ![run[q].job] = q],
         UNCHANGED <<running, proc>>, torn' = torn,
         run[q].job \notin torn =>
           /\ RowLive(r) /\ \A i \in Items : r.items[i] # "running"
           /\ run[q].aborted => r.cancelRequested
  PROVE  WorkInv'
<1> DEFINE j == run[q].job
           i == FirstPending(r)
           s == Next1(r)
<1>1. /\ j \in Jobs /\ j \in running /\ job'[j] = s
      /\ \A k \in Jobs \ {j} : job'[k] = job[k]
  BY DEF Inv, TypeOK, Live, OneRunPerJob, SetJob
<1>2. i \in Items /\ s.items = [r.items EXCEPT ![i] = "running"]
  BY NextRow
<1>3. /\ run'[q].pc = "waiting" /\ run'[q].job = j /\ run'[q].item = i
      /\ run'[q].aborted = run[q].aborted
      /\ \A p \in Runs \ {q} : run'[p] = run[p] /\ run[p].job # j
  <2> DEFINE x == run[q]
             y == run'[q]
  <2>1. x \in Run /\ y = [x EXCEPT !.pc = "waiting", !.item = i]
    BY DEF Inv, TypeOK
  <2>2. \A p \in Runs \ {q} : run'[p] = run[p] /\ run[p].job # j
    BY OthersElsewhere DEF Inv, TypeOK
  <2> HIDE DEF x, y, i
  <2>3. y.pc = "waiting" /\ y.item = i /\ y.job = x.job /\ y.aborted = x.aborted
    BY <2>1 DEF Run
  <2> QED
    BY <2>2, <2>3 DEF x, y
<1>4. r.items \in [Items -> ItemStatus] /\ ~r.cancelRequested
  BY DEF JobRow, NothingNext
<1>5. j \notin torn => RowLive(s)
  BY NextOK DEF RowLive
<1>6. j \notin torn => (\A k \in Items : r.items[k] # "running") /\ ~run[q].aborted
  BY <1>4
<1> HIDE DEF j, i, s
<1>7. ASSUME NEW k \in Jobs
      PROVE  JobOK(k)'
  <2>1. CASE k = j
    <3> SUFFICES ASSUME k \notin torn
                 PROVE  RowLive(s) /\ \A m \in Items : s.items[m] = "running" =>
                                        InFlight(k, m)'
      BY <1>1, <2>1 DEF JobOK, RowLive
    <3>1. ASSUME NEW m \in Items, s.items[m] = "running"
          PROVE  InFlight(k, m)'
      <4>1. m = i
        BY <1>2, <1>4, <1>6, <2>1, <3>1
      <4> QED
        BY <1>3, <2>1, <4>1 DEF InFlight
    <3> QED
      BY <1>5, <2>1, <3>1
  <2>2. CASE k # j
    <3>1. \A m \in Items : InFlight(k, m) => InFlight(k, m)'
      BY <1>3, <2>2 DEF InFlight, j
    <3>2. job'[k] = job[k]
      BY <1>1, <2>2
    <3> QED
      BY <3>1, <3>2 DEF WorkInv, JobOK
  <2> QED
    BY <2>1, <2>2
<1>8. AbortedFlagged'
  <2> SUFFICES ASSUME NEW p \in Runs, run'[p].aborted
               PROVE  /\ run'[p].pc = "waiting"
                      /\ run'[p].job \notin torn => job'[run'[p].job].cancelRequested
    BY DEF AbortedFlagged
  <2>1. CASE p = q
    BY <1>3, <1>6, <2>1
  <2>2. CASE p # q
    <3>1. /\ run'[p] = run[p] /\ run[p].job # j /\ run[p].pc = "waiting"
          /\ run[p].job \notin torn => job[run[p].job].cancelRequested
      BY <1>3, <2>2 DEF WorkInv, AbortedFlagged
    <3> QED
      BY <1>1, <3>1 DEF Inv, TypeOK
  <2> QED
    BY <2>1, <2>2
<1>9. ControllersWait'
  <2> SUFFICES ASSUME NEW k \in Jobs, controllers'[k] # None
               PROVE  run'[controllers'[k]].pc = "waiting" /\ run'[controllers'[k]].job = k
    BY DEF ControllersWait
  <2>1. CASE k = j
    BY <1>1, <1>3, <2>1 DEF Inv, TypeOK, j
  <2>2. CASE k # j
    <3>1. /\ controllers'[k] = controllers[k] /\ controllers[k] \in Runs
          /\ run[controllers[k]].pc = "waiting" /\ run[controllers[k]].job = k
      BY <2>2 DEF WorkInv, ControllersWait, Inv, TypeOK, j
    <3>2. controllers[k] # q
      BY <2>2, <3>1 DEF j
    <3> QED
      BY <1>3, <3>1, <3>2
  <2> QED
    BY <2>1, <2>2
<1> QED
  BY <1>7, <1>8, <1>9 DEF WorkInv

LEMMA LoopWork ==
  ASSUME Inv, WorkInv, NEW q \in Runs, Live(q), NEW r \in JobRow, r.status # "absent",
         Loop(q, run[q].job, r), UNCHANGED proc, torn' = torn,
         run[q].job \notin torn =>
           /\ RowLive(r) /\ \A i \in Items : r.items[i] # "running"
           /\ run[q].aborted => r.cancelRequested
  PROVE  WorkInv'
BY LeaveWork, TakeWork DEF Loop

LEMMA BeginWork ==
  ASSUME Inv, WorkInv, NEW q \in Runs, Begin(q)
  PROVE  WorkInv'
<1> DEFINE j == run[q].job
<1>1. /\ Live(q) /\ j \in Jobs /\ job[j] \in JobRow /\ job[j].status # "absent"
      /\ run[q].pc = "scheduled" /\ Loop(q, j, job[j])
      /\ UNCHANGED proc /\ torn' = torn
  BY DEF Begin, Live, Inv, TypeOK, LiveHasRow, history
<1>2. ~run[q].aborted
  BY <1>1 DEF WorkInv, AbortedFlagged
<1>3. j \notin torn => RowLive(job[j]) /\ \A i \in Items : job[j].items[i] # "running"
  <2>1. proc # "down"
    BY <1>1 DEF Inv, DownIsIdle
  <2> QED
    BY <1>1, <2>1, RunningIsItsItem DEF WorkInv, JobOK, RowLive
<1> HIDE DEF j
<1> QED
  BY <1>1, <1>2, <1>3, LoopWork DEF j

\* The row after the settlement of the only item under way.
LEMMA SettledOK ==
  ASSUME Inv, WorkInv, NEW q \in Runs, run[q].pc = "waiting",
         NEW v \in {"completed", "failed", "cancelled"},
         v = "cancelled" => run[q].aborted
  PROVE  /\ Finish(job[run[q].job], run[q].item, v) \in JobRow
         /\ Finish(job[run[q].job], run[q].item, v).status # "absent"
         /\ run[q].job \notin torn =>
              /\ RowLive(Finish(job[run[q].job], run[q].item, v))
              /\ \A i \in Items : Finish(job[run[q].job], run[q].item, v).items[i] # "running"
              /\ run[q].aborted => Finish(job[run[q].job], run[q].item, v).cancelRequested
<1> DEFINE j == run[q].job
           i == run[q].item
           s == Finish(job[j], i, v)
<1>1. /\ Live(q) /\ j \in Jobs /\ i \in Items /\ job[j] \in JobRow
      /\ job[j].items[i] = "running"
  BY DEF Inv, TypeOK, WaitingItemRunning, Live
<1>2. /\ s \in JobRow /\ s.items = [job[j].items EXCEPT ![i] = v]
      /\ s.status # "absent"
  <2>1. v \in ItemStatus
    BY DEF ItemStatus
  <2> QED
    BY <1>1, <2>1, FinishRow
<1>3. ASSUME j \notin torn
      PROVE  /\ RowLive(s)
             /\ \A k \in Items : s.items[k] # "running"
             /\ run[q].aborted => s.cancelRequested
  <2>1. RowOK(job[j]) /\ (run[q].aborted => job[j].cancelRequested)
    BY <1>1, <1>3 DEF WorkInv, JobOK, AbortedFlagged
  <2>2. RowLive(s) /\ s.cancelRequested = job[j].cancelRequested
    BY <1>1, <2>1, FinishOK
  <2>3. \A k \in Items : job[j].items[k] = "running" => k = i
    BY <1>1, <1>3, RunningIsItsItem DEF WorkInv
  <2>4. job[j].items \in [Items -> ItemStatus]
    BY <1>1 DEF JobRow
  <2>5. \A k \in Items : s.items[k] # "running"
    BY <1>1, <1>2, <2>3, <2>4
  <2> QED
    BY <2>1, <2>2, <2>5
<1> QED
  BY <1>2, <1>3

LEMMA SettleWork ==
  ASSUME Inv, WorkInv, NEW q \in Runs, Settle(q)
  PROVE  WorkInv'
<1> DEFINE j == run[q].job
           i == run[q].item
<1>1. /\ run[q].pc = "waiting" /\ Live(q) /\ j \in Jobs
      /\ UNCHANGED proc /\ torn' = torn
  BY DEF Settle, SettleOk, SettleRejected, SettleError, Live, history, Inv, TypeOK
<1>2. CASE Loop(q, j, Finish(job[j], i, "completed"))
  BY <1>1, <1>2, SettledOK, LoopWork
<1>3. CASE Loop(q, j, Finish(job[j], i, "failed"))
  BY <1>1, <1>3, SettledOK, LoopWork
<1>4. CASE run[q].aborted /\ Leave(q, j, Finish(job[j], i, "cancelled"))
  <2> DEFINE s == Finish(job[j], i, "cancelled")
  <2>1. /\ s \in JobRow
        /\ j \notin torn => /\ RowLive(s) /\ s.cancelRequested
                            /\ \A k \in Items : s.items[k] # "running"
    BY <1>1, <1>4, SettledOK
  <2>2. j \notin torn => NothingNext(s)
    BY <2>1 DEF NothingNext
  <2> HIDE DEF s
  <2> QED
    BY <1>1, <1>4, <2>1, <2>2, LeaveWork DEF s
<1> QED
  BY <1>2, <1>3, <1>4 DEF Settle, SettleOk, SettleRejected, SettleError

\* Without a process only the rows matter.
LEMMA DownWork ==
  ASSUME \A j \in Jobs \ torn' : RowOK(job'[j]), proc' = "down",
         \A q \in Runs : ~run'[q].aborted,
         \A j \in Jobs : controllers'[j] = None
  PROVE  WorkInv'
BY DEF WorkInv, JobOK, AbortedFlagged, ControllersWait

LEMMA KillWork ==
  ASSUME Inv, WorkInv, Kill \/ KillInCall
  PROVE  WorkInv'
<1>1. PICK arrived \in Arrivals : Die(arrived)
  BY DEF Kill, KillInCall
<1>2. \A j \in Jobs \ torn' : j \notin torn /\ job'[j] = job[j]
  BY DEF Kill, KillInCall, SetJob, Inv, TypeOK
<1>3. \A j \in Jobs \ torn' : RowOK(job'[j])
  BY <1>2 DEF WorkInv, JobOK
<1>4. \A q \in Runs : ~run'[q].aborted
  BY <1>1 DEF Die, Idle
<1> QED
  BY <1>1, <1>3, <1>4, DownWork DEF Die

LEMMA DownQuiet ==
  ASSUME Inv, WorkInv, running = {}
  PROVE  (\A q \in Runs : ~run[q].aborted) /\ (\A j \in Jobs : controllers[j] = None)
<1>1. \A q \in Runs : run[q].pc = "idle"
  BY DEF Inv, OneRunPerJob
<1>2. \A q \in Runs : ~run[q].aborted
  BY <1>1 DEF WorkInv, AbortedFlagged
<1>3. \A j \in Jobs : controllers[j] = None
  BY <1>1 DEF WorkInv, ControllersWait, Inv, TypeOK
<1> QED
  BY <1>2, <1>3

LEMMA ExitWork ==
  ASSUME Inv, WorkInv, Exit
  PROVE  WorkInv'
<1>1. (\A q \in Runs : ~run'[q].aborted) /\ (\A j \in Jobs : controllers'[j] = None)
  BY DownQuiet DEF Exit, memory
<1>2. \A j \in Jobs \ torn' : RowOK(job'[j])
  BY DEF Exit, history, WorkInv, JobOK
<1> QED
  BY <1>1, <1>2, DownWork DEF Exit

LEMMA RestartWork ==
  ASSUME Inv, WorkInv, Restart \/ KillInRestart
  PROVE  WorkInv'
<1>1. /\ proc = "down" /\ torn' = torn /\ running = {}
      /\ UNCHANGED <<run, running, controllers>>
  BY DEF Restart, KillInRestart, memory, history, Inv, DownIsIdle
<1>2. (\A q \in Runs : ~run[q].aborted) /\ (\A j \in Jobs : controllers[j] = None)
  BY <1>1, DownQuiet
<1>3. ASSUME NEW j \in Jobs \ torn
      PROVE  /\ RowOK(job'[j])
             /\ Restart => /\ ~Active(job'[j])
                           /\ \A i \in Items : job'[j].items[i] # "running"
  <2>1. job[j] \in JobRow /\ RowOK(job[j])
    BY DEF Inv, TypeOK, WorkInv, JobOK
  <2>2. CASE job[j].status = "absent"
    <3>1. job'[j] = job[j] /\ job[j] = Absent
      BY <2>2 DEF Restart, KillInRestart, Recover, Inv, AbsentIsEmpty
    <3>2. ~Active(Absent) /\ \A i \in Items : Absent.items[i] # "running"
      BY DEF Active, Absent
    <3> QED
      BY <2>1, <3>1, <3>2
  <2>3. CASE job[j].status # "absent"
    <3>1. /\ Restart => job'[j] = Recover(job[j])
          /\ KillInRestart => job'[j] = RecoverItems(job[j])
      BY <2>3 DEF Restart, KillInRestart
    <3>2. \A i \in Items : RecoverItems(job[j]).items[i] # "running"
      BY <2>1, RecoverItemsAre DEF Verdict
    <3> QED
      BY <2>1, <2>3, <3>1, <3>2, RecoverOK
  <2> QED
    BY <2>2, <2>3
<1>4. CASE Restart
  <2>1. \A j \in Jobs : JobOK(j)'
    BY <1>1, <1>3, <1>4 DEF JobOK
  <2>2. AbortedFlagged' /\ ControllersWait'
    BY <1>1, <1>2 DEF AbortedFlagged, ControllersWait
  <2> QED
    BY <2>1, <2>2 DEF WorkInv
<1>5. CASE KillInRestart
  BY <1>1, <1>2, <1>3, <1>5, DownWork DEF KillInRestart
<1> QED
  BY <1>4, <1>5

LEMMA WorkInit == Init => WorkInv
<1> SUFFICES ASSUME Init PROVE WorkInv
  OBVIOUS
<1>1. RowOK(Absent) /\ ~Active(Absent) /\ \A i \in Items : Absent.items[i] # "running"
  BY NewRowOK DEF RowLive, Active, Absent
<1>2. \A j \in Jobs : JobOK(j)
  BY <1>1 DEF Init, JobOK
<1>3. AbortedFlagged /\ ControllersWait
  BY DEF Init, AbortedFlagged, ControllersWait, Idle
<1> QED
  BY <1>2, <1>3 DEF WorkInv

LEMMA WorkStep == Inv /\ WorkInv /\ [Next]_vars => WorkInv'
<1> SUFFICES ASSUME Inv, WorkInv, [Next]_vars PROVE WorkInv'
  OBVIOUS
<1>1. ASSUME NEW j \in Jobs, Submit(j) \/ Retry(j) \/ Cancel(j)
      PROVE  WorkInv'
  BY <1>1, SubmitWork, RetryWork, CancelCallWork
<1>2. ASSUME NEW q \in Runs, Begin(q) \/ Settle(q)
      PROVE  WorkInv'
  BY <1>2, BeginWork, SettleWork
<1>3. CASE Shutdown \/ Exit \/ Kill \/ KillInCall \/ KillInRestart \/ Restart
  BY <1>3, ShutdownWork, ExitWork, KillWork, RestartWork
<1>4. CASE UNCHANGED vars
  BY <1>4 DEF vars, memory, history, WorkInv, JobOK, AbortedFlagged,
              ControllersWait, InFlight
<1> QED
  BY <1>1, <1>2, <1>3, <1>4 DEF Next

\* The status of an ended row tells what happened to its items.
LEMMA EndedRow ==
  ASSUME NEW r \in JobRow, RowOK(r), Ended(r)
  PROVE  /\ Unfinished(r) = {}
         /\ r.completed = Cardinality(Having(r, "completed"))
         /\ r.failed = Cardinality(Having(r, "failed"))
         /\ r.status = "completed" <=> Having(r, "completed") = Items
         /\ r.status = "partial" => r.completed > 0 /\ r.failed > 0
         /\ r.status = "failed" => r.completed = 0 /\ r.failed > 0
<1>1. r.status = Summary(r) /\ Unfinished(r) = {}
  BY DEF RowOK, Ended, Summary
<1>2. \A v : Cardinality(Having(r, v)) \in Nat
             /\ (Cardinality(Having(r, v)) = 0 <=> Having(r, v) = {})
  <2>1. IsFiniteSet(Items)
    BY FS_Interval, ImportAssumption DEF Items
  <2>2. \A v : Having(r, v) \in SUBSET Items
    BY DEF Having
  <2> QED
    BY <2>1, <2>2, FS_Subset, FS_CardinalityType, FS_EmptySet
<1>3. \A i \in Items : r.items[i] \in {"completed", "failed", "cancelled"}
  BY <1>1 DEF Unfinished, JobRow, ItemStatus
<1>4. Having(r, "completed") = Items <=>
        Having(r, "failed") = {} /\ Having(r, "cancelled") = {}
  BY <1>3 DEF Having
<1>5. Having(r, "cancelled") # {} => r.cancelRequested
  BY DEF RowOK
<1>6. r.status = "completed" <=> Having(r, "completed") = Items
  BY <1>1, <1>4, <1>5 DEF Summary
<1>7. /\ r.status = "partial" => Having(r, "completed") # {} /\ Having(r, "failed") # {}
      /\ r.status = "failed" => Having(r, "completed") = {} /\ Having(r, "failed") # {}
  BY <1>1 DEF Summary
<1> QED
  BY <1>1, <1>2, <1>6, <1>7 DEF RowOK, Ended

-----------------------------------------------------------------------------
(* What the upstream has stored.                                           *)

\* What the upstream holds of an item whose requests all ended with 2xx: at
\* most one copy, and none before the ledger says completed.
StoredExactly ==
  \A j \in Jobs, i \in Items : ~lost[j][i] =>
    /\ stored[j][i] \in {0, 1}
    /\ job[j].items[i] # "completed" => stored[j][i] = 0

LEMMA LoopStores ==
  ASSUME Inv, NEW q \in Runs, Live(q), NEW r \in JobRow, r.status # "absent",
         Loop(q, run[q].job, r) \/ Leave(q, run[q].job, r)
  PROVE  /\ \A i \in Items :
              job'[run[q].job].items[i] = "completed" <=> r.items[i] = "completed"
         /\ \A k \in Jobs \ {run[q].job} : job'[k] = job[k]
<1>1. run[q].job \in Jobs
  BY DEF Inv, TypeOK, Live
<1>2. CASE SetJob(run[q].job, r)
  BY <1>1, <1>2 DEF SetJob, Inv, TypeOK
<1>3. CASE ~NothingNext(r) /\ SetJob(run[q].job, Next1(r))
  <2>1. /\ FirstPending(r) \in Items /\ r.items[FirstPending(r)] = "pending"
        /\ Next1(r).items = [r.items EXCEPT ![FirstPending(r)] = "running"]
    BY <1>3, NextRow
  <2>2. r.items \in [Items -> ItemStatus]
    BY DEF JobRow
  <2>3. \A i \in Items : Next1(r).items[i] = "completed" <=> r.items[i] = "completed"
    BY <2>1, <2>2
  <2> QED
    BY <1>1, <1>3, <2>3 DEF SetJob, Inv, TypeOK
<1> QED
  BY <1>2, <1>3 DEF Loop, Leave

\* Steps that leave the upstream alone: a completed item stays completed.
LEMMA QuietStored ==
  ASSUME StoredExactly, CompletedKept, UNCHANGED <<stored, lost>>
  PROVE  StoredExactly'
BY DEF StoredExactly, CompletedKept

\* A settlement: only the item the run waited for may have arrived.
LEMMA SettleStored ==
  ASSUME Inv, StoredExactly, CompletedKept, NEW q \in Runs, Settle(q)
  PROVE  StoredExactly'
<1> DEFINE j == run[q].job
           i == run[q].item
<1>1. /\ run[q].pc = "waiting" /\ Live(q) /\ j \in Jobs /\ i \in Items
      /\ job[j].items[i] = "running"
      /\ job[j] \in JobRow /\ job[j].items \in [Items -> ItemStatus]
  BY DEF Settle, SettleOk, SettleRejected, SettleError, Live, Inv, TypeOK,
         WaitingItemRunning, JobRow
<1>2. stored \in [Jobs -> [Items -> Nat]] /\ lost \in [Jobs -> [Items -> BOOLEAN]]
  BY DEF Inv, TypeOK
<1>3. PICK n \in {0, 1} : stored' = [stored EXCEPT ![j][i] = @ + n]
  BY DEF Settle, SettleOk, SettleRejected, SettleError, Arrive
<1>4. \A k \in Jobs, m \in Items : k # j \/ m # i => stored'[k][m] = stored[k][m]
  BY <1>1, <1>2, <1>3
<1>5. CASE SettleOk(q)
  <2> DEFINE s == Finish(job[j], i, "completed")
  <2>1. s \in JobRow /\ s.items = [job[j].items EXCEPT ![i] = "completed"]
        /\ s.status # "absent"
    BY <1>1, FinishRow DEF ItemStatus
  <2>2. s.items[i] = "completed"
    BY <1>1, <2>1
  <2>3. Loop(q, j, s)
    BY <1>5 DEF SettleOk
  <2> HIDE DEF s
  <2>4. job'[j].items[i] = "completed"
    BY <1>1, <2>1, <2>2, <2>3, LoopStores
  <2>5. lost' = lost
    BY <1>5 DEF SettleOk
  <2>6. ~lost[j][i] => stored'[j][i] \in {0, 1}
    BY <1>1, <1>2, <1>3 DEF StoredExactly
  <2> QED
    BY <1>1, <1>4, <2>4, <2>5, <2>6 DEF StoredExactly, CompletedKept
<1>6. CASE SettleRejected(q) \/ SettleError(q)
  <2>1. lost' = [lost EXCEPT ![j][i] = TRUE]
    BY <1>6 DEF SettleRejected, SettleError
  <2>2. /\ lost'[j][i]
        /\ \A k \in Jobs, m \in Items : k # j \/ m # i => lost'[k][m] = lost[k][m]
    BY <1>1, <1>2, <2>1
  <2> QED
    BY <1>4, <2>2 DEF StoredExactly, CompletedKept
<1> QED
  BY <1>5, <1>6 DEF Settle

\* A kill: the requests under way are lost, whatever arrived of them.
LEMMA KillStored ==
  ASSUME Inv, StoredExactly, CompletedKept, Kill \/ KillInCall
  PROVE  StoredExactly'
<1>1. PICK arrived \in Arrivals : Die(arrived)
  BY DEF Kill, KillInCall
<1>2. SUFFICES ASSUME NEW j \in Jobs, NEW i \in Items, ~lost'[j][i]
               PROVE  /\ stored'[j][i] \in {0, 1}
                      /\ job'[j].items[i] # "completed" => stored'[j][i] = 0
  BY DEF StoredExactly
<1>3. ~lost[j][i] /\ ~InFlight(j, i)
  BY <1>1, <1>2 DEF Die
<1>4. stored[j][i] \in Nat
  BY DEF Inv, TypeOK
<1>5. stored'[j][i] = stored[j][i]
  BY <1>1, <1>3, <1>4 DEF Die
<1> QED
  BY <1>3, <1>5 DEF StoredExactly, CompletedKept

LEMMA StoredStep == Inv /\ StoredExactly /\ [Next]_vars => StoredExactly'
<1> SUFFICES ASSUME Inv, StoredExactly, [Next]_vars PROVE StoredExactly'
  OBVIOUS
<1>1. CompletedKept
  BY InvStep
<1>2. ASSUME NEW q \in Runs, Settle(q)
      PROVE  StoredExactly'
  BY <1>1, <1>2, SettleStored
<1>3. CASE Kill \/ KillInCall
  BY <1>1, <1>3, KillStored
<1>4. CASE ~(\E q \in Runs : Settle(q)) /\ ~Kill /\ ~KillInCall
  <2>1. UNCHANGED <<stored, lost>>
    BY <1>4 DEF Next, Submit, Retry, Cancel, Begin, Shutdown, Exit, Restart,
                KillInRestart, vars, history
  <2> QED
    BY <1>1, <2>1, QuietStored
<1> QED
  BY <1>2, <1>3, <1>4

-----------------------------------------------------------------------------
(* Theorems about the ledger.                                              *)

\* A job the ledger shows as pending or running has a run, and a running item
\* a request under way, for every number of jobs, rounds, calls and kills.
THEOREM NoWorkStranded == Spec => []ActiveHasRun
<1>1. Inv /\ WorkInv => ActiveHasRun
  BY DEF WorkInv, JobOK, ActiveHasRun
<1>2. Spec => []WorkInv
  BY InvAlways, WorkInit, WorkStep, PTL DEF Spec
<1> QED
  BY <1>1, <1>2, InvAlways, PTL

\* An ended job has no unfinished item, its counters are the counts of its
\* items, and its status says what happened to them.
THEOREM LedgerSummarises == Spec => []StatusSummarises
<1>1. Inv /\ WorkInv => StatusSummarises
  <2> SUFFICES ASSUME Inv, WorkInv, proc # "down", NEW j \in Jobs \ torn
               PROVE  LET r == job[j] IN
      /\ r.status = "pending" \/ r.status = "running" => Unfinished(r) # {}
      /\ r.status \in JobStatus \ {"pending", "running"} =>
           /\ Unfinished(r) = {}
           /\ r.completed = Cardinality(Having(r, "completed"))
           /\ r.failed = Cardinality(Having(r, "failed"))
           /\ r.status = "completed" <=> Having(r, "completed") = Items
           /\ r.status = "partial" => r.completed > 0 /\ r.failed > 0
           /\ r.status = "failed" => r.completed = 0 /\ r.failed > 0
    BY DEF StatusSummarises
  <2>1. job[j] \in JobRow /\ RowOK(job[j])
    BY DEF Inv, TypeOK, WorkInv, JobOK
  <2>2. Active(job[j]) => Unfinished(job[j]) # {}
    BY DEF WorkInv, JobOK
  <2> QED
    BY <2>1, <2>2, EndedRow DEF Active, Ended
<1>2. Spec => []WorkInv
  BY InvAlways, WorkInit, WorkStep, PTL DEF Spec
<1> QED
  BY <1>1, <1>2, InvAlways, PTL

\* No round is stored twice unless one of its requests ended otherwise than
\* with 2xx: no retry, resubmission, kill or recovery sends a round again that
\* the ledger recorded as completed.
THEOREM NotStoredTwice == Spec => []StoredOnceUnlessLost
<1>1. Init => StoredExactly
  BY DEF Init, StoredExactly, Absent
<1>2. StoredExactly => StoredOnceUnlessLost
  BY DEF StoredExactly, StoredOnceUnlessLost
<1> QED
  BY <1>1, <1>2, InvAlways, StoredStep, PTL DEF Spec
=============================================================================
