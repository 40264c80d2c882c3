---------------------------- MODULE MemoryPipeline ----------------------------
(***************************************************************************)
(* The extraction pipeline of the memory kernel inside its host process,   *)
(* the way the OpenClaw plugin runs it (the Gateway runs PipelineWorker):  *)
(* MemoryPipelineManager (src/src/utils/pipeline-manager.ts) with its      *)
(* timers and serial queues, the capture that feeds it (auto-capture.ts),  *)
(* the L1, L2 and L3 runners (pipeline-factory.ts), the checkpoint file    *)
(* they share (checkpoint.ts), and the life of the core that owns them     *)
(* (tdai-core.ts).                                                         *)
(*                                                                         *)
(* A conversation is captured as L0 rows.  L1 extracts records from the    *)
(* rows past a cursor in the checkpoint, L2 turns records into scenes, L3  *)
(* turns scenes into the persona.  Rows of one capture share one           *)
(* recorded_at, so a cursor is the number of captures it is past; the      *)
(* store is SQLite, where the rows of a capture appear together.  Updates  *)
(* of L1 records are counted, and the cursor of L2 is such a count.        *)
(* Capture passes no messages to notifyConversation, so the message        *)
(* buffers of the manager stay empty and are not a variable.  Time is      *)
(* which timers are pending: a pending timer may fire at any moment.       *)
(***************************************************************************)
EXTENDS Integers, Sequences, FiniteSets, SequencesExt

CONSTANTS
  Sessions,
  EveryN,        \* everyNConversations
  Warmup,        \* enableWarmup
  Batch,         \* L1_BATCH_PROCESS, and as many rows an extraction takes;
                 \* L1_BATCH_QUERY is twice that
  MaxRetries,    \* L1_MAX_RETRIES
  RowsOf,        \* rows each capture of a behaviour records, in their order;
                 \* its length bounds the captures
  MaxFaults,     \* bounds of the model: failing runs and checkpoint writes,
  MaxBoots,      \* and starts of the scheduler
  NoState

ASSUME PipelineAssumption ==
  /\ IsFiniteSet(Sessions)
  /\ EveryN \in Nat \ {0}
  /\ Warmup \in BOOLEAN
  /\ Batch \in Nat \ {0}
  /\ MaxRetries \in Nat
  /\ RowsOf \in Seq(Nat \ {0})
  /\ {MaxFaults, MaxBoots} \subseteq Nat
  /\ NoState \notin [count : Nat, warmup : Nat, pending : Nat, cursor : Nat]

VARIABLES
  phase,     \* the scheduler: off until the first conversation after a boot,
             \* open, closing while destroy() flushes
  flush,     \* how far destroy() is
  l0,        \* store: the rows of a session after each of its captures
  out,       \* store: updates of the L1 records of a session so far
  scenes,    \* scene files: the updates they reflect
  cursor,    \* checkpoint: last_l1_cursor
  ckpt,      \* checkpoint: pipeline_states
  sess,      \* sessionStates
  idle,      \* sessions whose L1 idle timer is pending
  l2Timer,   \* the L2 schedule timer and what it was armed for
  retry,     \* l1RetryCount
  ran,       \* sessions with an l2LastRunTime
  l1Queue,   \* the L1 queue, the running session first
  l1,        \* the L1 run
  l2Queue,   \* the L2 queue, the running session first
  l2,        \* the L2 run
  l3,        \* the L3 run, whether another is pending, and the scenes the last
             \* one saw, be it in an earlier process
  writes,    \* calls of the persister being awaited, oldest first
  inactive,  \* sessions silent for the active window and longer
  seen,      \* rows of a session that an extraction has taken as new ones
  cut,       \* captures of a session to whose end a batch was extended
  booted,    \* the scenes at the last start of the scheduler
  left,      \* sessions that were not pending in the checkpoint they were
             \* restored from and had no conversation since
  spent      \* captures, faults and boots so far

store == <<l0, out, scenes, cursor, ckpt>>
memory == <<sess, idle, l2Timer, retry, ran, l1Queue, l1, l2Queue, l2, l3, writes>>
ghosts == <<inactive, seen, cut, booted, left, spent>>
pipelineVars == <<phase, flush, store, memory, ghosts>>

NoL1 == [stage |-> "idle", to |-> 0, rows |-> 0, backlog |-> "none"]
NoL2 == [stage |-> "idle", upto |-> 0]
NoL3 == [running |-> FALSE, pending |-> FALSE, saw |-> [s \in Sessions |-> 0]]
Fresh == [count |-> 0, warmup |-> IF Warmup THEN 1 ELSE 0, pending |-> 0, cursor |-> 0]

Alive == phase \in {"open", "closing"}
Destroyed == phase # "open"
UpTo(s, k) == IF k = 0 THEN 0 ELSE l0[s][k]

CapturesLeft == spent.captures < Len(RowsOf)
FaultsLeft == spent.faults < MaxFaults
Fault == spent' = [spent EXCEPT !.faults = @ + 1]
MaybeFault(ok) == IF ok THEN UNCHANGED spent ELSE FaultsLeft /\ Fault
InFlight(s) == \E i \in 1..Len(writes) : writes[i].who = "notify" /\ writes[i].s = s

-----------------------------------------------------------------------------
(* Conversation rounds.                                                    *)

Threshold(st) ==
  IF ~Warmup \/ st.warmup <= 0 \/ st.warmup > EveryN THEN EveryN ELSE st.warmup

WarmedUp(st) ==
  IF ~Warmup \/ st.warmup <= 0 THEN st.warmup
  ELSE IF 2 * st.warmup >= EveryN THEN 0 ELSE 2 * st.warmup

\* The manager's queues take a session once: L1 and L2 of a session are
\* queued until their run has ended.
Enqueued(q, s) == IF \E i \in 1..Len(q) : q[i] = s THEN q ELSE Append(q, s)
Queued(q, s) == \E i \in 1..Len(q) : q[i] = s

\* persistStates takes its snapshot at the call, the calls are served in their
\* order, and the caller resumes when its write has ended, well or not.  A
\* crash before the write is a write that fails.
Saved(states, ok) ==
  IF ok THEN [t \in Sessions |-> IF states[t] = NoState THEN ckpt[t] ELSE states[t]] ELSE ckpt

Persist(who, s, thr, states, ok) ==
  /\ writes' = Append(writes, [who |-> who, s |-> s, thr |-> thr])
  /\ ckpt' = Saved(states, ok)

Written(who) ==
  /\ Alive
  /\ writes # <<>>
  /\ Head(writes).who = who
  /\ writes' = Tail(writes)

Rounded(s) == [(IF sess[s] = NoState THEN Fresh ELSE sess[s]) EXCEPT !.count = @ + 1]

\* performAutoCapture up to the first await of notifyConversation.
Capture(s, ok) ==
  /\ phase = "open"
  /\ CapturesLeft
  /\ l0' = [l0 EXCEPT ![s] = Append(@, UpTo(s, Len(@)) + RowsOf[spent.captures + 1])]
  /\ sess' = [sess EXCEPT ![s] = Rounded(s)]
  /\ retry' = [retry EXCEPT ![s] = 0]
  /\ Persist("notify", s, Threshold(Rounded(s)), sess', ok)
  /\ inactive' = inactive \ {s}
  /\ left' = left \ {s}
  /\ spent' = [spent EXCEPT !.captures = @ + 1, !.faults = @ + IF ok THEN 0 ELSE 1]
  /\ ok \/ FaultsLeft
  /\ UNCHANGED <<phase, flush, out, scenes, cursor, idle, l2Timer, ran, l1Queue,
                 l1, l2Queue, l2, l3, seen, cut, booted>>

Evictable == {s \in inactive : sess[s] # NoState /\ ~Queued(l1Queue, s) /\ ~Queued(l2Queue, s)}

\* gcStaleSessions: every map of the manager forgets the session.
Evict(gone) ==
  /\ sess' = [s \in Sessions |-> IF s \in gone THEN NoState ELSE sess[s]]
  /\ l2Timer' = [s \in Sessions |-> IF s \in gone THEN "none" ELSE l2Timer[s]]
  /\ retry' = [s \in Sessions |-> IF s \in gone THEN 0 ELSE retry[s]]
  /\ ran' = ran \ gone

\* The rest of notifyConversation: the threshold queues L1, a round below it
\* resets the idle timer and now and then collects silent sessions.
NotifyResumes ==
  /\ Written("notify")
  /\ LET s == Head(writes).s IN
       \/ /\ sess[s].count >= Head(writes).thr
          /\ l1Queue' = Enqueued(l1Queue, s)
          /\ idle' = IF Queued(l1Queue, s) THEN idle ELSE idle \ {s}
          /\ UNCHANGED <<sess, l2Timer, retry, ran>>
       \/ /\ sess[s].count < Head(writes).thr
          /\ \E gone \in {{}, Evictable} :
               Evict(gone) /\ idle' = (idle \cup {s}) \ gone
          /\ UNCHANGED l1Queue
  /\ UNCHANGED <<phase, flush, store, l1, l2Queue, l2, l3, ghosts>>

\* The notification of a session outside Sessions may collect as well.
Collects ==
  /\ phase = "open"
  /\ Evictable # {}
  /\ Evict(Evictable)
  /\ idle' = idle \ Evictable
  /\ UNCHANGED <<phase, flush, store, l1Queue, l1, l2Queue, l2, l3, writes, ghosts>>

\* A managed timer that fires in a destroyed manager does nothing.
IdleFires(s) ==
  /\ Alive
  /\ s \in idle
  /\ idle' = idle \ {s}
  /\ l1Queue' = IF Destroyed THEN l1Queue ELSE Enqueued(l1Queue, s)
  /\ UNCHANGED <<phase, flush, store, sess, l2Timer, retry, ran, l1, l2Queue, l2,
                 l3, writes, ghosts>>

\* A turn that ends while the manager is being destroyed: its rows are stored
\* and notifyConversation does nothing.
CaptureLate(s) ==
  /\ phase = "closing"
  /\ CapturesLeft
  /\ l0' = [l0 EXCEPT ![s] = Append(@, UpTo(s, Len(@)) + RowsOf[spent.captures + 1])]
  /\ spent' = [spent EXCEPT !.captures = @ + 1]
  /\ UNCHANGED <<phase, flush, out, scenes, cursor, ckpt, memory, inactive, seen, cut,
                 booted, left>>

-----------------------------------------------------------------------------
(* L1: records out of conversation rows.                                   *)

AtMost(a, b) == IF a < b THEN a ELSE b
MaxOf(a, b) == IF a > b THEN a ELSE b

\* The capture of a row; the row up to which the rows past the cursor are
\* fetched, and the one up to which they are processed: Batch rows, and then
\* the rest of the capture that is reached.
CaptureOf(s, row) == CHOOSE k \in 1..Len(l0[s]) : UpTo(s, k - 1) < row /\ row <= UpTo(s, k)

Fetched(s) == AtMost(UpTo(s, cursor[s]) + 2 * Batch, UpTo(s, Len(l0[s])))

\* Mutant: the batch is cut anywhere.
SliceEndUnaligned(s) == AtMost(UpTo(s, cursor[s]) + Batch, Fetched(s))

SliceEnd(s) ==
  LET row == AtMost(UpTo(s, cursor[s]) + Batch, Fetched(s)) IN
  AtMost(UpTo(s, CaptureOf(s, row)), Fetched(s))

Backlog(s) ==
  IF Fetched(s) = SliceEnd(s) THEN "none"
  ELSE IF Fetched(s) = UpTo(s, cursor[s]) + 2 * Batch THEN "full" ELSE "more"

\* The run: the cursor it will set and the rows up to which it processes.
Planned(s) ==
  IF cursor[s] = Len(l0[s])
  THEN [stage |-> "extract", to |-> cursor[s], rows |-> 0, backlog |-> "none"]
  ELSE [stage |-> "extract", to |-> CaptureOf(s, SliceEnd(s)),
        rows |-> SliceEnd(s), backlog |-> Backlog(s)]

L1Start ==
  /\ Alive
  /\ l1.stage = "idle"
  /\ l1Queue # <<>>
  /\ l1' = Planned(Head(l1Queue))
  /\ UNCHANGED <<phase, flush, store, sess, idle, l2Timer, retry, ran, l1Queue,
                 l2Queue, l2, l3, writes, ghosts>>

Stored(s, kept) == out' = [out EXCEPT ![s] = @ + kept]

Advanced(st) == [st EXCEPT !.pending = st.count, !.count = 0, !.warmup = WarmedUp(st)]

\* Mutant: a failing run is not tried again by itself.
NotRearmed(s) == idle

Rearmed(s) == IF retry[s] + 1 <= MaxRetries THEN idle \cup {s} ELSE idle

\* A run that throws, before or after records were stored, leaves the state
\* and tries again after a while, up to MaxRetries times.
L1Fails(kept) ==
  /\ Alive
  /\ l1.stage = "extract"
  /\ FaultsLeft /\ Fault
  /\ LET s == Head(l1Queue) IN
       /\ Stored(s, kept)
       /\ retry' = [retry EXCEPT ![s] = @ + 1]
       /\ idle' = Rearmed(s)
  /\ l1Queue' = Tail(l1Queue)
  /\ l1' = NoL1
  /\ UNCHANGED <<phase, flush, l0, scenes, cursor, ckpt, sess, l2Timer, ran,
                 l2Queue, l2, l3, writes, inactive, seen, cut, booted, left>>

\* extractL1Memories takes the last rows of the slice as new ones; of the rows
\* before them some are background at most.
TakenAsNew(s) == MaxOf(UpTo(s, cursor[s]), l1.rows - Batch) + 1 .. l1.rows

\* The batch was extended: a capture goes on past it.
Extended(s) == l1.rows > UpTo(s, cursor[s]) + Batch

\* The model answers, the records it yields, if any, are stored, the cursor of
\* the checkpoint is moved (markL1ExtractionComplete), and runL1 goes on up to
\* its await.  A run with no rows to read does only the last.
L1Ends(kept, ok) ==
  /\ Alive
  /\ l1.stage = "extract"
  /\ LET s == Head(l1Queue) IN
       /\ l1.to = cursor[s] => kept = 0
       /\ Stored(s, kept)
       /\ seen' = [seen EXCEPT ![s] = @ \cup TakenAsNew(s)]
       /\ cut' = [cut EXCEPT ![s] = IF Extended(s) THEN @ \cup {l1.to} ELSE @]
       /\ cursor' = [cursor EXCEPT ![s] = l1.to]
       /\ sess' = [sess EXCEPT ![s] = Advanced(@)]
       /\ retry' = [retry EXCEPT ![s] = 0]
       /\ Persist("l1", s, 0, sess', ok)
  /\ MaybeFault(ok)
  /\ l1' = [l1 EXCEPT !.stage = "persist"]
  /\ UNCHANGED <<phase, flush, l0, scenes, idle, l2Timer, ran, l1Queue, l2Queue, l2,
                 l3, inactive, booted, left>>

\* advanceL2Timer: the timer only moves earlier; one armed for the maximum
\* interval may already be the earlier one.
AdvanceL2(s) ==
  IF Destroyed THEN UNCHANGED l2Timer
  ELSE \E new \in IF l2Timer[s] = "max" THEN {"max", "delay"} ELSE {"delay"} :
         l2Timer' = [l2Timer EXCEPT ![s] = new]

\* The run asks for the next one while it is still the queued one.
Requeued(s, backlog) ==
  IF backlog = "full" /\ ~Queued(l1Queue, s) THEN <<s>> ELSE <<>>

L1Resumes ==
  /\ Written("l1")
  /\ LET s == Head(writes).s IN
       /\ AdvanceL2(s)
       /\ l1Queue' = Tail(l1Queue) \o Requeued(s, l1.backlog)
       /\ idle' = IF l1.backlog = "more" THEN idle \cup {s} ELSE idle
  /\ l1' = NoL1
  /\ UNCHANGED <<phase, flush, store, sess, retry, ran, l2Queue, l2, l3, ghosts>>

-----------------------------------------------------------------------------
(* L2: scenes out of records.  L3: the persona out of scenes.              *)

ArmMax(s) ==
  l2Timer' = IF Destroyed THEN l2Timer ELSE [l2Timer EXCEPT ![s] = "max"]

\* Mutant: only the timer that follows L1 runs L2.
WakesAfterL1(s) == l2Timer[s] = "delay"

\* onL2TimerFired: the periodic timer of a silent session just stops.
Wakes(s) == ~(l2Timer[s] = "max" /\ s \in inactive)

\* The intervals of L2 are longer than the checkpoint write that ends its run.
L2Fires(s) ==
  /\ Alive
  /\ l2Timer[s] # "none"
  /\ ~(l2.stage = "persist" /\ Head(l2Queue) = s)
  /\ l2Timer' = [l2Timer EXCEPT ![s] = "none"]
  /\ l2Queue' = IF ~Destroyed /\ Wakes(s) THEN Enqueued(l2Queue, s) ELSE l2Queue
  /\ UNCHANGED <<phase, flush, store, sess, idle, retry, ran, l1Queue, l1, l2, l3,
                 writes, ghosts>>

L2Start ==
  /\ Alive
  /\ l2.stage = "idle"
  /\ l2Queue # <<>>
  /\ l2' = [stage |-> "extract", upto |-> out[Head(l2Queue)]]
  /\ UNCHANGED <<phase, flush, store, sess, idle, l2Timer, retry, ran, l1Queue, l1,
                 l2Queue, l3, writes, ghosts>>

\* Mutant: a failing run arms no timer.
L2ThrowsUnarmed ==
  /\ Alive
  /\ l2.stage = "extract"
  /\ FaultsLeft /\ Fault
  /\ l2Queue' = Tail(l2Queue)
  /\ l2' = NoL2
  /\ UNCHANGED <<phase, flush, store, sess, idle, l2Timer, retry, ran, l1Queue, l1,
                 l3, writes, inactive, seen, cut, booted, left>>

L2Throws ==
  /\ Alive
  /\ l2.stage = "extract"
  /\ FaultsLeft /\ Fault
  /\ ArmMax(Head(l2Queue))
  /\ l2Queue' = Tail(l2Queue)
  /\ l2' = NoL2
  /\ UNCHANGED <<phase, flush, store, sess, idle, retry, ran, l1Queue, l1, l3,
                 writes, inactive, seen, cut, booted, left>>

\* What the runner answers: no new record or no changed file is "skipped", an
\* extraction that did not succeed answers nothing, one that did moves the
\* cursor to the records it read.
Answers(s) ==
  IF l2.upto = sess[s].cursor THEN {"skipped"}
  ELSE {"done"} \cup IF FaultsLeft THEN {"skipped", "nothing"} ELSE {}

\* The first run of a session, when skipped, is not counted as a run.
ColdStart(s, answer) == s \notin ran /\ answer = "skipped"

Consumed(st, answer) ==
  [st EXCEPT !.pending = 0, !.cursor = IF answer = "done" THEN l2.upto ELSE @]

L2Ends(answer, ok) ==
  /\ Alive
  /\ l2.stage = "extract"
  /\ LET s == Head(l2Queue) IN
       /\ answer \in Answers(s)
       /\ MaybeFault(ok /\ (answer = "done" \/ l2.upto = sess[s].cursor))
       /\ scenes' = IF answer = "done" THEN [scenes EXCEPT ![s] = l2.upto] ELSE scenes
       /\ sess' = [sess EXCEPT ![s] = Consumed(@, answer)]
       /\ IF ColdStart(s, answer)
          THEN ArmMax(s) /\ UNCHANGED ran /\ Persist("l2skip", s, 0, sess', ok)
          ELSE ran' = ran \cup {s} /\ UNCHANGED l2Timer /\ Persist("l2", s, 0, sess', ok)
  /\ l2' = [l2 EXCEPT !.stage = "persist"]
  /\ UNCHANGED <<phase, flush, l0, out, cursor, idle, retry, l1Queue, l1, l2Queue,
                 l3, inactive, seen, cut, booted, left>>

\* Mutant: a trigger during a run is taken for a duplicate.
TriggerL3Deduped ==
  l3' = IF Destroyed \/ l3.running THEN l3
        ELSE [running |-> TRUE, pending |-> FALSE, saw |-> scenes]

TriggerL3 ==
  l3' = IF Destroyed THEN l3
        ELSE IF l3.running THEN [l3 EXCEPT !.pending = TRUE]
        ELSE [running |-> TRUE, pending |-> FALSE, saw |-> scenes]

L2Resumes ==
  /\ \/ Written("l2") /\ ArmMax(Head(writes).s) /\ TriggerL3
     \/ Written("l2skip") /\ UNCHANGED <<l2Timer, l3>>
  /\ l2Queue' = Tail(l2Queue)
  /\ l2' = NoL2
  /\ UNCHANGED <<phase, flush, store, sess, idle, retry, ran, l1Queue, l1, ghosts>>

\* Whether the persona was generated or not, a pending L3 runs again.
L3Ends ==
  /\ Alive
  /\ l3.running
  /\ l3' = IF l3.pending /\ ~Destroyed
           THEN [running |-> TRUE, pending |-> FALSE, saw |-> scenes]
           ELSE [l3 EXCEPT !.running = FALSE]
  /\ UNCHANGED <<phase, flush, store, sess, idle, l2Timer, retry, ran, l1Queue, l1,
                 l2Queue, l2, writes, ghosts>>

-----------------------------------------------------------------------------
(* The life of the process.                                                *)

Forgotten ==
  /\ sess' = [s \in Sessions |-> NoState]
  /\ idle' = {}
  /\ l2Timer' = [s \in Sessions |-> "none"]
  /\ retry' = [s \in Sessions |-> 0]
  /\ ran' = {}
  /\ l1Queue' = <<>> /\ l1' = NoL1
  /\ l2Queue' = <<>> /\ l2' = NoL2
  /\ l3' = [l3 EXCEPT !.running = FALSE, !.pending = FALSE]
  /\ writes' = <<>>
  /\ flush' = "none"

Pending(st) == st # NoState /\ (st.count > 0 \/ st.pending > 0)

Recovered(st) ==
  IF Pending(st) THEN [st EXCEPT !.pending = MaxOf(st.pending, st.count), !.count = 0]
  ELSE st

\* ensureSchedulerStarted, at the first conversation after a boot: start()
\* restores the checkpoint, and what is pending in it arms L2.
Start ==
  /\ phase = "off"
  /\ CapturesLeft /\ spent.boots < MaxBoots
  /\ phase' = "open"
  /\ spent' = [spent EXCEPT !.boots = @ + 1]
  /\ sess' = [s \in Sessions |-> Recovered(ckpt[s])]
  /\ l2Timer' = [s \in Sessions |-> IF Pending(ckpt[s]) THEN "delay" ELSE "none"]
  /\ booted' = scenes
  /\ left' = {s \in Sessions : ~Pending(ckpt[s])}
  /\ UNCHANGED <<flush, store, idle, retry, ran, l1Queue, l1, l2Queue, l2, l3, writes,
                 inactive, seen, cut>>

\* destroy(), on gateway_stop of the host: idle timers are cancelled, and as no
\* message is buffered no L1 run is queued for them.
BeginDestroy ==
  /\ phase = "open"
  /\ phase' = "closing"
  /\ flush' = "l1"
  /\ idle' = {}
  /\ UNCHANGED <<store, sess, l2Timer, retry, ran, l1Queue, l1, l2Queue, l2, l3,
                 writes, ghosts>>

\* Once L1 is idle every pending L2 timer is flushed.
FlushL2 ==
  /\ flush = "l1"
  /\ l1Queue = <<>>
  /\ flush' = "l2"
  /\ \E order \in SetToSeqs({s \in Sessions : l2Timer[s] # "none" /\ Wakes(s) /\ ~Queued(l2Queue, s)}) :
       l2Queue' = l2Queue \o order
  /\ l2Timer' = [s \in Sessions |-> "none"]
  /\ UNCHANGED <<phase, store, sess, idle, retry, ran, l1Queue, l1, l2, l3, writes,
                 ghosts>>

Off == phase' = "off" /\ Forgotten

\* The flush is over, or DESTROY_TIMEOUT_MS is: the states are persisted and
\* the core closes its stores under whatever still runs.
DestroyEnds(ok) ==
  /\ phase = "closing"
  /\ Off
  /\ ckpt' = Saved(sess, ok)
  /\ MaybeFault(ok)
  /\ UNCHANGED <<l0, out, scenes, cursor, inactive, seen, cut, booted, left>>

Crash ==
  /\ phase # "off"
  /\ Off
  /\ UNCHANGED <<store, ghosts>>

\* The active window of a session passes with no round of it.  Its shorter
\* timers and its runs end long before that.
GoesSilent(s) ==
  /\ Alive
  /\ s \notin inactive \cup idle
  /\ sess[s] # NoState
  /\ l2Timer[s] # "delay"
  /\ ~Queued(l1Queue, s) /\ ~Queued(l2Queue, s) /\ ~InFlight(s)
  /\ inactive' = inactive \cup {s}
  /\ UNCHANGED <<phase, flush, store, memory, seen, cut, booted, left, spent>>

-----------------------------------------------------------------------------
PipelineInit ==
  /\ phase = "off"
  /\ flush = "none"
  /\ l0 = [s \in Sessions |-> <<>>]
  /\ out = [s \in Sessions |-> 0]
  /\ scenes = [s \in Sessions |-> 0]
  /\ cursor = [s \in Sessions |-> 0]
  /\ ckpt = [s \in Sessions |-> NoState]
  /\ sess = [s \in Sessions |-> NoState]
  /\ idle = {}
  /\ l2Timer = [s \in Sessions |-> "none"]
  /\ retry = [s \in Sessions |-> 0]
  /\ ran = {}
  /\ l1Queue = <<>> /\ l1 = NoL1
  /\ l2Queue = <<>> /\ l2 = NoL2
  /\ l3 = NoL3
  /\ writes = <<>>
  /\ inactive = {}
  /\ seen = [s \in Sessions |-> {}]
  /\ cut = [s \in Sessions |-> {}]
  /\ booted = [s \in Sessions |-> 0]
  /\ left = {}
  /\ spent = [captures |-> 0, faults |-> 0, boots |-> 0]

Resumes == NotifyResumes \/ L1Resumes \/ L2Resumes

L1Answers == \E kept \in 0..1, ok \in BOOLEAN : L1Ends(kept, ok)
L2Answers == \E answer \in {"done", "skipped", "nothing"}, ok \in BOOLEAN : L2Ends(answer, ok)

PipelineNext ==
  \/ \E s \in Sessions :
       \/ IdleFires(s) \/ CaptureLate(s) \/ L2Fires(s) \/ GoesSilent(s)
       \/ \E ok \in BOOLEAN : Capture(s, ok)
  \/ \E kept \in 0..1 : L1Fails(kept)
  \/ \E ok \in BOOLEAN : DestroyEnds(ok)
  \/ L1Start \/ L1Answers \/ L2Start \/ L2Throws \/ L2Answers \/ L3Ends \/ Collects
  \/ Resumes
  \/ Start \/ BeginDestroy \/ FlushL2 \/ Crash

\* Timers fire, runs end and the checkpoint is written; conversations, failures
\* and stops need not come.
Fairness ==
  /\ WF_pipelineVars((\E s \in Sessions : IdleFires(s)) \/ L1Start \/ L1Answers)
  /\ \A s \in Sessions : WF_pipelineVars(L2Fires(s))
  /\ WF_pipelineVars(L2Start \/ L2Answers)
  /\ WF_pipelineVars(Resumes)

PipelineSpec == PipelineInit /\ [][PipelineNext]_pipelineVars /\ Fairness

-----------------------------------------------------------------------------
(* Properties.                                                             *)

L1Coming(s) == s \in idle \/ Queued(l1Queue, s) \/ InFlight(s)

\* Nothing comes any more by itself: the retries of the session are used up, or
\* it was not pending in the checkpoint it was restored from.
LeftAlone(s) == s \in left \/ retry[s] > MaxRetries

\* The rows a session may lose to its extended batches: a batch that ends in a
\* capture goes on to the capture's end, past Batch rows by at most the capture's
\* rows less one, and the extraction leaves out as many at its front.
Displaced(s) ==
  UNION {UpTo(s, k - 1) - Batch + 2 .. UpTo(s, k) - Batch : k \in cut[s]}

\* The cursor of a session passes no row that no extraction took as new but those
\* that an extended batch displaces: failing runs, crashes and late captures skip
\* none, and captures of one row cost none.  pipeline-factory.ts promises more
\* (zero data loss across the boundary): its extended slice is cut again by
\* l1-extractor.ts.  It needs captures of at most Batch + 1 rows, since a longer
\* one may go on past the rows that are fetched.
OnlyDisplacedSkipped ==
  \A s \in Sessions : 1..UpTo(s, cursor[s]) \subseteq seen[s] \cup Displaced(s)

\* A session with counted rounds waits for something: its idle timer, a queued
\* or running L1, or the notification itself.  Neither a failing run nor a
\* timer that fires during a run leaves it without, unless it is left alone.
RoundsHaveTrigger ==
  phase = "open" => \A s \in Sessions :
    sess[s] # NoState /\ sess[s].count > 0 => L1Coming(s) \/ LeftAlone(s)

\* Records the scenes do not reflect have an L2 run ahead of them: a timer, a
\* queued run, or the L1 run that will arm one; a timer that fires during a run
\* is dropped, and the run arms another.  Silent sessions wait for their next
\* conversation.
ScenesHaveTrigger ==
  phase = "open" => \A s \in Sessions :
    sess[s] # NoState /\ out[s] > sess[s].cursor =>
      \/ l2Timer[s] # "none" \/ Queued(l2Queue, s)
      \/ L1Coming(s) \/ LeftAlone(s) \/ s \in inactive

\* Scenes written since the scheduler started, and newer than the ones the last L3
\* run could see, have an L3 run ahead of them: the dedup flags of L3 lose no
\* trigger.  Scenes of an earlier process may be without one: a pending L3 is
\* dropped at a stop and lost in a crash, although destroy() is said to flush it
\* (pipeline-manager.ts), and nothing restores it until an L2 run triggers L3.
PersonaFollowsScenes ==
  phase = "open" => \A s \in Sessions :
    scenes[s] > l3.saw[s] /\ scenes[s] > booted[s] =>
      l3.pending \/ (l2.stage = "persist" /\ Head(l2Queue) = s)

\* Records reach the scenes, whatever fails on the way, unless the session
\* falls silent, is left alone or the process stops.
ScenesCatchUp ==
  \A s \in Sessions :
    (phase = "open" /\ sess[s] # NoState /\ out[s] > sess[s].cursor) ~>
      \/ phase # "open" \/ s \in inactive \/ LeftAlone(s)
      \/ sess[s] = NoState \/ out[s] = sess[s].cursor
=============================================================================
