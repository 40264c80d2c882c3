---------------------------- MODULE PipelineWorker ----------------------------
(***************************************************************************)
(* The extraction pipeline of the kernel Gateway: StatefulPipelineManager  *)
(* (src/src/utils/stateful-pipeline-manager.ts) counts conversation        *)
(* rounds, LocalStateBackend (core/state/local-backend.ts) holds the       *)
(* session states, the timers, the task queue and the locks, and the       *)
(* coroutines of PipelineWorker (services/pipeline-worker.ts) run the      *)
(* tasks with the executors of gateway/server.ts.                          *)
(*                                                                         *)
(* All coroutines share one workerId, so a lock is a key that is held.     *)
(* The backend is memory: a stop or a crash forgets everything but the     *)
(* stores, the checkpoint cursor of L1 and the files.  A capture is one    *)
(* row and one round here (MemoryPipeline treats captures of many rows).   *)
(* Between two awaits of something other than the backend, a coroutine     *)
(* runs alone.  Locks are renewed in time and do not expire.               *)
(***************************************************************************)
EXTENDS Integers, Sequences

CONSTANTS
  Sessions,
  Coroutines,    \* concurrency
  EveryN,        \* everyNConversations
  Warmup,        \* enableWarmup
  Batch,         \* L1_BATCH_PROCESS, in captures
  MaxRetries,    \* maxRetries
  MaxCaptures,   \* bounds of the model: captures,
  MaxEnds,       \* ends of sessions,
  MaxFaults,     \* failing runs, timeouts of lock waits and lost calls,
  MaxBoots,      \* and boots
  NoState

ASSUME WorkerAssumption ==
  /\ EveryN \in Nat \ {0}
  /\ Warmup \in BOOLEAN
  /\ Batch \in Nat \ {0}
  /\ {MaxRetries, MaxCaptures, MaxEnds, MaxFaults, MaxBoots} \subseteq Nat

VARIABLES
  up,        \* whether the Gateway runs
  l0,        \* store: rows of a session
  out,       \* store: updates of the L1 records of a session so far
  cursor,    \* checkpoint: last_l1_cursor
  scenes,    \* scene files: the updates they reflect
  persona,   \* persona file: the scenes it reflects
  st,        \* sessionStates: rounds, warm-up, the updates that are older
             \* than l2_last_extraction_time
  idle,      \* sessions with an L1_idle timer
  l2Timer,   \* sessions with an L2_schedule timer
  queue,     \* taskQueue
  coro,      \* the coroutines of the worker
  locks,     \* keys held
  untold,    \* captures the Gateway has not been notified of
  read,      \* updates that L2 runs of a session have been given
  lost,      \* tasks that were given up: pairs of a session and a type
  spent      \* captures, ends, faults and boots so far

store == <<l0, out, cursor, scenes, persona>>
backend == <<st, idle, l2Timer, queue, locks>>
vars == <<up, store, backend, coro, untold, read, lost, spent>>

Idle == [stage |-> "idle"]
Fresh == [count |-> 0, warm |-> 0, l2done |-> 0]

AtMost(a, b) == IF a < b THEN a ELSE b

FaultsLeft == spent.faults < MaxFaults
Fault == spent' = [spent EXCEPT !.faults = @ + 1]

Task(type, s) == [type |-> type, s |-> s, timer |-> FALSE, retry |-> 0]
TimerTask(type, s) == [Task(type, s) EXCEPT !.timer = TRUE]

-----------------------------------------------------------------------------
(* Queue and locks.                                                        *)

IsLow(t) == t.type = "L3"

\* Before the first task of a lower priority, else at the end.
Enqueue(q, t) ==
  LET later == {i \in 1..Len(q) : IsLow(q[i]) /\ ~IsLow(t)}
      first == CHOOSE i \in later : \A k \in later : i <= k
  IN  IF later = {} THEN Append(q, t)
      ELSE SubSeq(q, 1, first - 1) \o <<t>> \o SubSeq(q, first, Len(q))

\* Mutants: the type, or all of the task, is the key.
LockKeyTyped(t) == <<t.type, t.s>>
LockKeyOfTask(t) == <<t>>

\* The L1, flush and L2 tasks of a session exclude each other, and the L3
\* tasks of the instance do.
LockKey(t) == IF t.type = "L3" THEN <<"instance">> ELSE <<"session", t.s>>

Release(c) ==
  /\ coro' = [coro EXCEPT ![c] = Idle]
  /\ locks' = locks \ {LockKey(coro[c].task)}

Running(c, type) == up /\ coro[c].stage = "run" /\ coro[c].task.type = type

\* What the session may now miss; a flush has taken the idle timer.
GiveUp(t) == lost' = lost \cup {<<t.s, IF t.type = "flush" THEN "L1" ELSE t.type>>}

\* The last attempt before lockTtlMs fails: the task is dropped.
WaitTimesOut(c) ==
  /\ up
  /\ coro[c].stage = "waiting"
  /\ LockKey(coro[c].task) \in locks
  /\ FaultsLeft /\ Fault
  /\ GiveUp(coro[c].task)
  /\ coro' = [coro EXCEPT ![c] = Idle]
  /\ UNCHANGED <<up, store, backend, untold, read>>

\* A run throws, perhaps after it stored records.
Throws(c, kept) ==
  /\ up
  /\ coro[c].stage = "run"
  /\ FaultsLeft /\ Fault
  /\ kept = 0 \/ coro[c].task.type = "L1"
  /\ out' = [out EXCEPT ![coro[c].task.s] = @ + kept]
  /\ UNCHANGED <<up, l0, cursor, scenes, persona, st, queue, untold, read>>

\* The coroutine sleeps with the lock before it queues the task again.
Fails(c, kept) ==
  /\ Throws(c, kept)
  /\ coro[c].task.retry < MaxRetries
  /\ coro' = [coro EXCEPT ![c].stage = "backoff"]
  /\ UNCHANGED <<idle, l2Timer, locks, lost>>

\* After the last retry the task goes to the dead letters, and the timers of the
\* session are removed.
DeadLetter(c, kept) ==
  /\ Throws(c, kept)
  /\ coro[c].task.retry >= MaxRetries
  /\ LET t == coro[c].task IN
       /\ idle' = idle \ {t.s}
       /\ l2Timer' = l2Timer \ {t.s}
       /\ lost' = lost \cup ({t.s} \X {"L1", "L2", t.type})
  /\ Release(c)

\* Mutant: the backoff releases the lock and forgets the task.
RetriesForgotten(c) ==
  /\ up
  /\ coro[c].stage = "backoff"
  /\ Release(c)
  /\ UNCHANGED <<up, store, queue, st, idle, l2Timer, untold, read, lost, spent>>

Retries(c) ==
  /\ up
  /\ coro[c].stage = "backoff"
  /\ queue' = Enqueue(queue, [coro[c].task EXCEPT !.retry = @ + 1])
  /\ Release(c)
  /\ UNCHANGED <<up, store, st, idle, l2Timer, untold, read, lost, spent>>

-----------------------------------------------------------------------------
(* Rounds: what the captures and the timers put into the queue.            *)

\* The rows are stored by the capture, the Gateway hears of it later.
Capture(s) ==
  /\ spent.captures < MaxCaptures
  /\ l0' = [l0 EXCEPT ![s] = @ + 1]
  /\ untold' = [untold EXCEPT ![s] = @ + 1]
  /\ spent' = [spent EXCEPT !.captures = @ + 1]
  /\ UNCHANGED <<up, out, cursor, scenes, persona, backend, coro, read, lost>>

WarmOf(s) == IF st[s] # NoState THEN st[s].warm ELSE IF Warmup THEN 1 ELSE 0
Threshold(warm) == IF ~Warmup \/ warm = 0 THEN EveryN ELSE AtMost(warm, EveryN)
WarmedUp(warm) == IF 2 * warm >= EveryN THEN 0 ELSE 2 * warm

Current(s) == IF st[s] = NoState THEN Fresh ELSE st[s]

\* notifyConversation with captureAtomic: the threshold queues L1, a round
\* below it sets the idle timer.
Notify(s) ==
  /\ up
  /\ untold[s] > 0
  /\ untold' = [untold EXCEPT ![s] = @ - 1]
  /\ LET n == Current(s).count + 1
         warm == IF Warmup THEN WarmedUp(WarmOf(s)) ELSE Current(s).warm IN
       \/ /\ n >= Threshold(WarmOf(s))
          /\ queue' = Enqueue(queue, Task("L1", s))
          /\ st' = [st EXCEPT ![s] = [Current(s) EXCEPT !.count = 0, !.warm = warm]]
          /\ idle' = idle \ {s}
          /\ lost' = lost \ {<<s, "L1">>}
       \/ /\ n < Threshold(WarmOf(s))
          /\ st' = [st EXCEPT ![s] = [Current(s) EXCEPT !.count = n]]
          /\ idle' = idle \cup {s}
          /\ UNCHANGED <<queue, lost>>
  /\ UNCHANGED <<up, store, l2Timer, coro, locks, read, spent>>

\* The call fails, and nobody repeats it.
NotifyLost(s) ==
  /\ untold[s] > 0
  /\ IF up THEN FaultsLeft /\ Fault ELSE UNCHANGED spent
  /\ untold' = [untold EXCEPT ![s] = @ - 1]
  /\ UNCHANGED <<up, store, backend, coro, read, lost>>

\* Mutant: a timer that fires while a task of the session runs is dropped.
IdleFiresDropped(s) ==
  /\ up
  /\ s \in idle
  /\ idle' = idle \ {s}
  /\ queue' = IF <<"session", s>> \in locks THEN queue ELSE Enqueue(queue, TimerTask("L1", s))
  /\ UNCHANGED <<up, store, st, l2Timer, coro, locks, untold, read, lost, spent>>

IdleFires(s) ==
  /\ up
  /\ s \in idle
  /\ idle' = idle \ {s}
  /\ queue' = Enqueue(queue, TimerTask("L1", s))
  /\ UNCHANGED <<up, store, st, l2Timer, coro, locks, untold, read, lost, spent>>

L2Fires(s) ==
  /\ up
  /\ s \in l2Timer
  /\ l2Timer' = l2Timer \ {s}
  /\ queue' = Enqueue(queue, TimerTask("L2", s))
  /\ UNCHANGED <<up, store, st, idle, coro, locks, untold, read, lost, spent>>

Flushable(s) == st[s] # NoState /\ st[s].count > 0

\* POST /session/end: flushSession takes the idle timer of a session with
\* counted rounds and queues a flush.
SessionEnds(s) ==
  /\ up
  /\ spent.ends < MaxEnds
  /\ Flushable(s)
  /\ idle' = idle \ {s}
  /\ queue' = Enqueue(queue, Task("flush", s))
  /\ spent' = [spent EXCEPT !.ends = @ + 1]
  /\ UNCHANGED <<up, store, st, l2Timer, coro, locks, untold, read, lost>>

-----------------------------------------------------------------------------
(* Tasks.                                                                  *)

\* cascadeSchedule after L1 and flush.
L1Cascade(s) ==
  /\ st' = [st EXCEPT ![s] = [Current(s) EXCEPT !.count = 0]]
  /\ l2Timer' = l2Timer \cup {s}

Runs(c, run) ==
  /\ coro' = [coro EXCEPT ![c] = run]
  /\ locks' = locks \cup {LockKey(run.task)}

Done(c) == coro' = [coro EXCEPT ![c] = Idle] /\ UNCHANGED locks

\* A task of a timer that finds no counted rounds does nothing but cascade.
Skipped(t) == t.timer /\ st[t.s] # NoState /\ st[t.s].count = 0

L1Skips(c, t, q) ==
  /\ t.type = "L1" /\ Skipped(t)
  /\ L1Cascade(t.s)
  /\ Done(c)
  /\ queue' = q
  /\ UNCHANGED <<idle, read, lost>>

\* The rows past the cursor that the run processes, Batch captures of them, and
\* what the page it fetched holds beyond: as captures differ in their rows, any
\* rest may fill the page or not.
L1Reads(c, t, q) ==
  /\ t.type = "L1" /\ ~Skipped(t)
  /\ LET to == AtMost(cursor[t.s] + Batch, l0[t.s]) IN
       \E backlog \in IF to = l0[t.s] THEN {"none"} ELSE {"more", "full"} :
         Runs(c, [stage |-> "run", task |-> t, to |-> to, backlog |-> backlog])
  /\ queue' = q
  /\ UNCHANGED <<st, idle, l2Timer, read, lost>>

\* executeFlush is handleSessionEnd once more: while rounds are counted it
\* queues another flush.
FlushRuns(c, t, q) ==
  /\ t.type = "flush"
  /\ L1Cascade(t.s)
  /\ queue' = IF Flushable(t.s) THEN Enqueue(q, Task("flush", t.s)) ELSE q
  /\ idle' = IF Flushable(t.s) THEN idle \ {t.s} ELSE idle
  /\ lost' = lost \cup {<<t.s, "L1">>}
  /\ Done(c)
  /\ UNCHANGED read

\* The records that changed since l2_last_extraction_time.
L2Reads(c, t, q) ==
  /\ t.type = "L2"
  /\ Runs(c, [stage |-> "run", task |-> t, upto |-> out[t.s],
              some |-> out[t.s] > Current(t.s).l2done])
  /\ read' = [read EXCEPT ![t.s] = IF @ < out[t.s] THEN out[t.s] ELSE @]
  /\ queue' = q
  /\ UNCHANGED <<st, idle, l2Timer, lost>>

L3Reads(c, t, q) ==
  /\ t.type = "L3"
  /\ Runs(c, [stage |-> "run", task |-> t, saw |-> scenes])
  /\ queue' = q
  /\ UNCHANGED <<st, idle, l2Timer, read, lost>>

\* executeTask with the lock of the task, up to what it reads; q is the queue
\* that is left.
Starts(c, t, q) ==
  /\ LockKey(t) \notin locks
  /\ L1Skips(c, t, q) \/ L1Reads(c, t, q) \/ FlushRuns(c, t, q)
     \/ L2Reads(c, t, q) \/ L3Reads(c, t, q)
  /\ UNCHANGED <<up, store, untold, spent>>

Consume(c) ==
  /\ up
  /\ coro[c].stage = "idle"
  /\ queue # <<>>
  /\ Starts(c, Head(queue), Tail(queue))

\* The lock is taken: the coroutine waits, and tries again now and then.
Waits(c) ==
  /\ up
  /\ coro[c].stage = "idle"
  /\ queue # <<>>
  /\ LockKey(Head(queue)) \in locks
  /\ coro' = [coro EXCEPT ![c] = [stage |-> "waiting", task |-> Head(queue)]]
  /\ queue' = Tail(queue)
  /\ UNCHANGED <<up, store, st, idle, l2Timer, locks, untold, read, lost, spent>>

Acquire(c) ==
  /\ up
  /\ coro[c].stage = "waiting"
  /\ Starts(c, coro[c].task, queue)

\* A full page queues the next run, a smaller rest arms the idle timer.
L1Ends(c, kept) ==
  /\ Running(c, "L1")
  /\ LET s == coro[c].task.s IN
       /\ coro[c].to = cursor[s] => kept = 0
       /\ out' = [out EXCEPT ![s] = @ + kept]
       /\ cursor' = [cursor EXCEPT ![s] = coro[c].to]
       /\ queue' = IF coro[c].backlog = "full" THEN Enqueue(queue, Task("L1", s)) ELSE queue
       /\ idle' = IF coro[c].backlog = "more" THEN idle \cup {s} ELSE idle
       /\ L1Cascade(s)
       /\ Release(c)
  /\ UNCHANGED <<up, l0, scenes, persona, untold, read, lost, spent>>

\* Nothing new, no change of a file, or a model that failed: "skipped", and
\* nothing is armed.
L2Skips(c) ==
  /\ Running(c, "L2")
  /\ Release(c)
  /\ IF coro[c].some
     THEN FaultsLeft /\ Fault /\ GiveUp(coro[c].task)
     ELSE UNCHANGED <<spent, lost>>
  /\ UNCHANGED <<up, store, st, idle, l2Timer, queue, untold, read>>

\* The L3 task inherits the data of its L2 task, retryCount included.
L3Of(t) == [t EXCEPT !.type = "L3"]

\* Mutant: one run of L3 at a time is taken to be enough.
CascadeL3Deduped(t) ==
  queue' = IF <<"instance">> \in locks THEN queue ELSE Enqueue(queue, L3Of(t))

CascadeL3(t) == queue' = Enqueue(queue, L3Of(t))

\* The extraction changed the scenes, or spent tokens and failed after all.
L2Ends(c, success) ==
  /\ Running(c, "L2")
  /\ coro[c].some
  /\ IF success THEN UNCHANGED spent ELSE FaultsLeft /\ Fault
  /\ LET s == coro[c].task.s IN
       /\ scenes' = IF success THEN [scenes EXCEPT ![s] = coro[c].upto] ELSE scenes
       /\ st' = [st EXCEPT ![s] = [Current(s) EXCEPT !.l2done = out[s]]]
       /\ l2Timer' = l2Timer \cup {s}
       /\ CascadeL3(coro[c].task)
       /\ lost' = lost \ {<<s, "L3">>}
       /\ Release(c)
  /\ UNCHANGED <<up, l0, out, cursor, persona, idle, untold, read>>

L3Ends(c) ==
  /\ Running(c, "L3")
  /\ persona' = coro[c].saw
  /\ Release(c)
  /\ UNCHANGED <<up, l0, out, cursor, scenes, st, idle, l2Timer, queue, untold, read,
                 lost, spent>>

-----------------------------------------------------------------------------
(* The life of the Gateway.                                                *)

Stop ==
  /\ up
  /\ up' = FALSE
  /\ st' = [s \in Sessions |-> NoState]
  /\ idle' = {} /\ l2Timer' = {}
  /\ queue' = <<>> /\ locks' = {}
  /\ coro' = [c \in Coroutines |-> Idle]
  /\ UNCHANGED <<store, untold, read, lost, spent>>

Boot ==
  /\ ~up
  /\ spent.boots < MaxBoots
  /\ up' = TRUE
  /\ lost' = {}
  /\ spent' = [spent EXCEPT !.boots = @ + 1]
  /\ UNCHANGED <<store, backend, coro, untold, read>>

Zero == [s \in Sessions |-> 0]

Init ==
  /\ up = FALSE
  /\ l0 = Zero /\ out = Zero /\ cursor = Zero /\ scenes = Zero /\ persona = Zero
  /\ st = [s \in Sessions |-> NoState]
  /\ idle = {} /\ l2Timer = {}
  /\ queue = <<>> /\ locks = {}
  /\ coro = [c \in Coroutines |-> Idle]
  /\ untold = Zero /\ read = Zero
  /\ lost = {}
  /\ spent = [captures |-> 0, ends |-> 0, faults |-> 0, boots |-> 0]

\* What a coroutine does next when nothing fails.
Works(c) ==
  \/ Consume(c) \/ Waits(c) \/ Acquire(c) \/ Retries(c)
  \/ (\E kept \in 0..1 : L1Ends(c, kept))
  \/ L2Skips(c) \/ (\E success \in BOOLEAN : L2Ends(c, success))
  \/ L3Ends(c)

Next ==
  \/ \E c \in Coroutines :
       Works(c) \/ WaitTimesOut(c) \/ (\E kept \in 0..1 : Fails(c, kept) \/ DeadLetter(c, kept))
  \/ \E s \in Sessions :
       Capture(s) \/ Notify(s) \/ NotifyLost(s) \/ IdleFires(s) \/ L2Fires(s) \/ SessionEnds(s)
  \/ Stop \/ Boot

\* Coroutines work and timers fire; conversations, failures, stops and boots
\* need not come.
Fairness ==
  /\ \A c \in Coroutines : WF_vars(Works(c))
  /\ \A s \in Sessions : WF_vars(IdleFires(s)) /\ WF_vars(L2Fires(s))

Spec == Init /\ [][Next]_vars /\ Fairness

-----------------------------------------------------------------------------
(* Properties.                                                             *)

Tasks == {queue[i] : i \in 1..Len(queue)}
           \cup {coro[c].task : c \in {d \in Coroutines : coro[d].stage # "idle"}}
Ahead(s, types) == \E t \in Tasks : t.s = s /\ t.type \in types

\* l2_last_extraction_time is the clock at the end of an L2 run, and the next
\* run reads only what changed after it.  Every record that is older has been
\* given to an L2 run: no L1 of the session stores records while L2 runs.
NothingUnread ==
  \A s \in Sessions : st[s] # NoState => st[s].l2done <= read[s]

\* The cursor of L1 is assigned, not raised, by the run that ends: two runs of a
\* session at once would set it back and extract rows again.
CursorOnlyAdvances == [][\A s \in Sessions : cursor'[s] >= cursor[s]]_vars

\* Rounds that are counted have a timer or a task ahead of them, through
\* conflicts of locks, retries and timers that fire during a run, unless a task
\* of the session was given up.
CountedHasTrigger ==
  \A s \in Sessions :
    up /\ Flushable(s) =>
      s \in idle \/ Ahead(s, {"L1", "flush"}) \/ <<s, "L1">> \in lost

\* Scenes the persona does not reflect have an L3 task ahead of them that has not
\* read the scenes yet or has read them as they are: runs of L2 end while L3
\* runs, and no older run of L3 writes over a newer one.  It speaks of sessions
\* whose L2 has run since the boot: a stop forgets the L3 task, and no boot
\* queues it again.  Tasks that were given up excuse it too.
WillSee(c, s) ==
  /\ coro[c].stage # "idle"
  /\ coro[c].task.type = "L3"
  /\ coro[c].stage = "run" => coro[c].saw[s] = scenes[s]

L2HasRun(s) == st[s] # NoState /\ st[s].l2done > 0

PersonaFollowsScenes ==
  \A s \in Sessions :
    up /\ L2HasRun(s) /\ scenes[s] > persona[s] /\ <<s, "L3">> \notin lost =>
      \/ \E i \in 1..Len(queue) : queue[i].type = "L3"
      \/ \E c \in Coroutines : WillSee(c, s)

\* Records reach L2 whatever fails on the way, unless a task of the session is
\* given up or the Gateway stops.
Unscened(s) == up /\ st[s] # NoState /\ out[s] > st[s].l2done

RecordsReachL2 ==
  \A s \in Sessions :
    Unscened(s) ~> (~Unscened(s) \/ <<s, "L1">> \in lost \/ <<s, "L2">> \in lost)
=============================================================================
