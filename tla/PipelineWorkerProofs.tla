------------------------ MODULE PipelineWorkerProofs ------------------------
(***************************************************************************)
(* Proofs about PipelineWorker, for every set of sessions, number of       *)
(* coroutines and batch size and for any number of captures, failures,     *)
(* stops and boots: the types, that no record is behind the L2 cursor      *)
(* unread, that the L1 cursor never goes back, and that counted rounds and *)
(* new scenes keep a task ahead of them.                                   *)
(*                                                                         *)
(* All of them rest on LocksOK: a coroutine that runs a task, or sleeps    *)
(* after a failure, holds the key of its task alone.  A task is then       *)
(* followed from the queue through the coroutine that took it: HasTask     *)
(* says of either that it has a task of a session.                         *)
(***************************************************************************)
EXTENDS PipelineWorker, SequenceTheorems, WellFoundedInduction, TLAPS

Types == {"L1", "flush", "L2", "L3"}
TaskSet == [type : Types, s : Sessions, timer : BOOLEAN, retry : Nat]
TaskOf(type) == {t \in TaskSet : t.type = type}

StateRec == [count : Nat, warm : Nat, l2done : Nat]

Waiting == [stage : {"waiting"}, task : TaskSet]
Busy == {"run", "backoff"}
RunsL1 == [stage : Busy, task : TaskOf("L1"), to : Nat, backlog : {"none", "more", "full"}]
RunsL2 == [stage : Busy, task : TaskOf("L2"), upto : Nat, some : BOOLEAN]
RunsL3 == [stage : Busy, task : TaskOf("L3"), saw : [Sessions -> Nat]]
CoroSet == {Idle} \cup Waiting \cup RunsL1 \cup RunsL2 \cup RunsL3

Counters == [captures : Nat, ends : Nat, faults : Nat, boots : Nat]

StoreOK ==
  /\ l0 \in [Sessions -> Nat]
  /\ out \in [Sessions -> Nat]
  /\ cursor \in [Sessions -> Nat]
  /\ scenes \in [Sessions -> Nat]
  /\ persona \in [Sessions -> Nat]

TypeOK ==
  /\ up \in BOOLEAN
  /\ StoreOK
  /\ st \in [Sessions -> StateRec \cup {NoState}]
  /\ idle \subseteq Sessions
  /\ l2Timer \subseteq Sessions
  /\ queue \in Seq(TaskSet)
  /\ coro \in [Coroutines -> CoroSet]
  /\ untold \in [Sessions -> Nat]
  /\ read \in [Sessions -> Nat]
  /\ lost \subseteq Sessions \X Types
  /\ spent \in Counters

\* A coroutine that has the key of its task.
Holds(c) == coro[c].stage \in Busy

LocksOK ==
  /\ \A c \in Coroutines : Holds(c) => LockKey(coro[c].task) \in locks
  /\ \A c, d \in Coroutines :
       Holds(c) /\ Holds(d) /\ LockKey(coro[c].task) = LockKey(coro[d].task) => c = d

\* A Gateway that is down has no task and no state of a session.
DownIsEmpty ==
  ~up => /\ \A s \in Sessions : st[s] = NoState
         /\ \A c \in Coroutines : coro[c] = Idle

CursorInv ==
  /\ \A s \in Sessions : cursor[s] <= l0[s]
  /\ \A c \in Coroutines :
       coro[c].stage = "run" /\ coro[c].task.type = "L1" =>
         LET s == coro[c].task.s IN cursor[s] <= coro[c].to /\ coro[c].to <= l0[s]

ReadInv ==
  /\ NothingUnread
  /\ \A c \in Coroutines :
       coro[c].stage = "run" /\ coro[c].task.type = "L2" =>
         out[coro[c].task.s] <= read[coro[c].task.s]

\* A queue, or a coroutine, has a task of a session.
HasTask(q, s, types) == \E i \in 1..Len(q) : q[i].s = s /\ q[i].type \in types

RoundTypes == {"L1", "flush"}

CoroHasRounds(c, s) ==
  coro[c].stage # "idle" /\ coro[c].task.s = s /\ coro[c].task.type \in RoundTypes

Triggered(s) ==
  \/ s \in idle
  \/ HasTask(queue, s, RoundTypes)
  \/ \E c \in Coroutines : CoroHasRounds(c, s)
  \/ <<s, "L1">> \in lost

RoundsInv == \A s \in Sessions : up /\ Flushable(s) => Triggered(s)

\* The L3 task of the session itself, in the queue or in a coroutine that has not
\* read older scenes.
OwnL3(s) ==
  \/ HasTask(queue, s, {"L3"})
  \/ \E c \in Coroutines : WillSee(c, s) /\ coro[c].task.s = s

\* An L3 run that has read older scenes, and would write them, has one behind it.
ReadOlder(c, s) ==
  coro[c].stage = "run" /\ coro[c].task.type = "L3" /\ coro[c].saw[s] # scenes[s]

Reflected(s) ==
  up /\ L2HasRun(s) /\ <<s, "L3">> \notin lost =>
    /\ scenes[s] > persona[s] => OwnL3(s)
    /\ \A c \in Coroutines : ReadOlder(c, s) => OwnL3(s)

ScenesInv == \A s \in Sessions : Reflected(s)

-----------------------------------------------------------------------------
(* The queue.                                                              *)

\* What a sequence has.
Has(q, x) == \E k \in 1..Len(q) : q[k] = x

LEMMA ConcatHas ==
  ASSUME NEW S, NEW a \in Seq(S), NEW b \in Seq(S), NEW x, Has(a, x) \/ Has(b, x)
  PROVE  a \o b \in Seq(S) /\ Has(a \o b, x)
<1>1. /\ a \o b \in Seq(S)
      /\ Len(a \o b) = Len(a) + Len(b)
      /\ \A i \in 1..Len(a) + Len(b) :
           (a \o b)[i] = IF i <= Len(a) THEN a[i] ELSE b[i - Len(a)]
  BY ConcatProperties
<1>2. Len(a) \in Nat /\ Len(b) \in Nat
  OBVIOUS
<1>3. CASE Has(a, x)
  <2>1. PICK k \in 1..Len(a) : a[k] = x
    BY <1>3 DEF Has
  <2>2. k \in 1..Len(a) + Len(b) /\ k <= Len(a)
    BY <1>2
  <2>3. (a \o b)[k] = x
    BY <1>1, <2>1, <2>2
  <2> QED
    BY <1>1, <2>2, <2>3 DEF Has
<1>4. CASE Has(b, x)
  <2>1. PICK k \in 1..Len(b) : b[k] = x
    BY <1>4 DEF Has
  <2>2. Len(a) + k \in 1..Len(a) + Len(b) /\ ~(Len(a) + k <= Len(a)) /\ Len(a) + k - Len(a) = k
    BY <1>2
  <2>3. (a \o b)[Len(a) + k] = x
    BY <1>1, <2>1, <2>2
  <2> QED
    BY <1>1, <2>2, <2>3 DEF Has
<1> QED
  BY <1>3, <1>4

\* A sequence cut before one of its places has what it had.
LEMMA CutHas ==
  ASSUME NEW S, NEW q \in Seq(S), NEW n \in 1..Len(q)
  PROVE  /\ SubSeq(q, 1, n - 1) \in Seq(S)
         /\ SubSeq(q, n, Len(q)) \in Seq(S)
         /\ \A i \in 1..Len(q) :
              Has(SubSeq(q, 1, n - 1), q[i]) \/ Has(SubSeq(q, n, Len(q)), q[i])
<1>1. Len(q) \in Nat /\ 1 \in Int /\ n \in Int /\ n - 1 \in Int /\ Len(q) \in Int
  OBVIOUS
<1>2. \A i \in 1..Len(q) : q[i] \in S
  OBVIOUS
<1>3. /\ SubSeq(q, 1, n - 1) \in Seq(S)
      /\ Len(SubSeq(q, 1, n - 1)) = n - 1
      /\ \A i \in 1..(n - 1) : SubSeq(q, 1, n - 1)[i] = q[i]
  <2>1. \A i \in 1..(n - 1) : q[i] \in S
    BY <1>1, <1>2
  <2>2. /\ SubSeq(q, 1, n - 1) \in Seq(S)
        /\ Len(SubSeq(q, 1, n - 1)) = IF 1 <= n - 1 THEN n - 1 - 1 + 1 ELSE 0
        /\ \A i \in 1..(n - 1 - 1 + 1) : SubSeq(q, 1, n - 1)[i] = q[1 + i - 1]
    BY <1>1, <2>1, SubSeqProperties
  <2> QED
    BY <1>1, <2>2
<1>4. /\ SubSeq(q, n, Len(q)) \in Seq(S)
      /\ Len(SubSeq(q, n, Len(q))) = Len(q) - n + 1
      /\ \A i \in 1..(Len(q) - n + 1) : SubSeq(q, n, Len(q))[i] = q[n + i - 1]
  <2>1. \A i \in n..Len(q) : q[i] \in S
    BY <1>1, <1>2
  <2>2. /\ SubSeq(q, n, Len(q)) \in Seq(S)
        /\ Len(SubSeq(q, n, Len(q))) = IF n <= Len(q) THEN Len(q) - n + 1 ELSE 0
        /\ \A i \in 1..(Len(q) - n + 1) : SubSeq(q, n, Len(q))[i] = q[n + i - 1]
    BY <1>1, <2>1, SubSeqProperties
  <2> QED
    BY <1>1, <2>2
<1>5. ASSUME NEW i \in 1..Len(q)
      PROVE  Has(SubSeq(q, 1, n - 1), q[i]) \/ Has(SubSeq(q, n, Len(q)), q[i])
  <2>1. CASE i <= n - 1
    <3>1. i \in 1..(n - 1)
      BY <1>1, <2>1
    <3> QED
      BY <1>3, <3>1 DEF Has
  <2>2. CASE i >= n
    <3>1. i - n + 1 \in 1..(Len(q) - n + 1) /\ n + (i - n + 1) - 1 = i
      BY <1>1, <2>2
    <3>2. SubSeq(q, n, Len(q))[i - n + 1] = q[i]
      BY <1>4, <3>1
    <3> QED
      BY <1>4, <3>1, <3>2 DEF Has
  <2> QED
    BY <1>1, <2>1, <2>2
<1> QED
  BY <1>3, <1>4, <1>5

\* The task goes somewhere into the queue, which loses none.
LEMMA EnqueueKeeps ==
  ASSUME NEW q \in Seq(TaskSet), NEW t \in TaskSet
  PROVE  /\ Enqueue(q, t) \in Seq(TaskSet)
         /\ \A i \in 1..Len(q) : Has(Enqueue(q, t), q[i])
         /\ Has(Enqueue(q, t), t)
<1> DEFINE later == {i \in 1..Len(q) : IsLow(q[i]) /\ ~IsLow(t)}
<1>1. CASE later = {}
  <2>1. Enqueue(q, t) = Append(q, t)
    BY <1>1 DEF Enqueue
  <2>2. /\ Append(q, t) \in Seq(TaskSet)
        /\ Len(Append(q, t)) = Len(q) + 1
        /\ \A i \in 1..Len(q) : Append(q, t)[i] = q[i]
        /\ Append(q, t)[Len(q) + 1] = t
    BY AppendProperties
  <2>3. Len(q) \in Nat
    OBVIOUS
  <2>4. \A i \in 1..Len(q) : i \in 1..(Len(q) + 1)
    BY <2>3
  <2>5. \A i \in 1..Len(q) : Has(Append(q, t), q[i])
    BY <2>2, <2>4 DEF Has
  <2>6. Has(Append(q, t), t)
    BY <2>2, <2>3 DEF Has
  <2> QED
    BY <2>1, <2>2, <2>5, <2>6
<1>2. CASE later # {}
  <2> DEFINE first == CHOOSE i \in later : \A k \in later : i <= k
             before == SubSeq(q, 1, first - 1)
             after == SubSeq(q, first, Len(q))
  <2>1. Enqueue(q, t) = (before \o <<t>>) \o after
    BY <1>2 DEF Enqueue
  <2>2. first \in later
    <3>1. later \subseteq Nat
      OBVIOUS
    <3>2. \E i \in later : \A k \in later : <<k, i>> \notin OpToRel(<, Nat)
      BY <1>2, <3>1, WFMin, NatLessThanWellFounded, Zenon
    <3>3. \A a, b \in Nat : a < b => <<a, b>> \in OpToRel(<, Nat)
      BY DEF OpToRel
    <3>4. PICK i \in later : \A k \in later : <<k, i>> \notin OpToRel(<, Nat)
      BY <3>2
    <3>5. \A k \in later : ~(k < i)
      BY <3>1, <3>3, <3>4, Zenon
    <3>6. \A k \in later : i <= k
      BY <3>1, <3>5
    <3> QED
      BY <3>6
  <2>3. first \in 1..Len(q)
    BY <2>2
  <2> HIDE DEF first
  <2>4. /\ before \in Seq(TaskSet)
        /\ after \in Seq(TaskSet)
        /\ \A i \in 1..Len(q) : Has(before, q[i]) \/ Has(after, q[i])
    BY <2>3, CutHas
  <2> HIDE DEF before, after
  <2>5. <<t>> \in Seq(TaskSet) /\ Has(<<t>>, t)
    BY DEF Has
  <2>6. before \o <<t>> \in Seq(TaskSet) /\ Has(before \o <<t>>, t)
    BY <2>4, <2>5, ConcatHas
  <2>7. (before \o <<t>>) \o after \in Seq(TaskSet) /\ Has((before \o <<t>>) \o after, t)
    BY <2>4, <2>6, ConcatHas
  <2>8. ASSUME NEW i \in 1..Len(q)
        PROVE  Has((before \o <<t>>) \o after, q[i])
    <3>1. CASE Has(before, q[i])
      <4>1. Has(before \o <<t>>, q[i])
        BY <2>4, <2>5, <3>1, ConcatHas
      <4> QED
        BY <2>4, <2>6, <4>1, ConcatHas
    <3>2. CASE Has(after, q[i])
      BY <2>4, <2>6, <3>2, ConcatHas
    <3> QED
      BY <2>4, <3>1, <3>2
  <2> QED
    BY <2>1, <2>7, <2>8
<1> QED
  BY <1>1, <1>2

LEMMA EnqueueHas ==
  ASSUME NEW q \in Seq(TaskSet), NEW t \in TaskSet, NEW s, NEW types
  PROVE  /\ HasTask(q, s, types) => HasTask(Enqueue(q, t), s, types)
         /\ t.s = s /\ t.type \in types => HasTask(Enqueue(q, t), s, types)
<1>1. ASSUME HasTask(q, s, types)
      PROVE  HasTask(Enqueue(q, t), s, types)
  <2>1. PICK i \in 1..Len(q) : q[i].s = s /\ q[i].type \in types
    BY <1>1 DEF HasTask
  <2>2. Has(Enqueue(q, t), q[i])
    BY EnqueueKeeps
  <2> QED
    BY <2>1, <2>2 DEF Has, HasTask
<1>2. ASSUME t.s = s, t.type \in types
      PROVE  HasTask(Enqueue(q, t), s, types)
  <2>1. Has(Enqueue(q, t), t)
    BY EnqueueKeeps
  <2> QED
    BY <1>2, <2>1 DEF Has, HasTask
<1> QED
  BY <1>1, <1>2

\* A task of a queue is its head or in its tail.
LEMMA TailHas ==
  ASSUME NEW q \in Seq(TaskSet), q # <<>>, NEW s, NEW types, HasTask(q, s, types)
  PROVE  \/ Head(q).s = s /\ Head(q).type \in types
         \/ HasTask(Tail(q), s, types)
<1>1. PICK i \in 1..Len(q) : q[i].s = s /\ q[i].type \in types
  BY DEF HasTask
<1>2. /\ Len(Tail(q)) = Len(q) - 1
      /\ \A k \in 1..Len(Tail(q)) : Tail(q)[k] = q[k + 1]
  BY HeadTailProperties
<1>3. CASE i = 1
  BY <1>1, <1>3
<1>4. CASE i # 1
  <2>1. i - 1 \in 1..Len(Tail(q)) /\ i - 1 + 1 = i
    BY <1>2, <1>4
  <2>2. Tail(q)[i - 1] = q[i]
    BY <1>2, <2>1
  <2> QED
    BY <1>1, <2>1, <2>2 DEF HasTask
<1> QED
  BY <1>3, <1>4

-----------------------------------------------------------------------------
(* Types.                                                                  *)

LEMMA CoroTypes ==
  ASSUME NEW r \in CoroSet
  PROVE  /\ r.stage \in {"idle", "waiting", "run", "backoff"}
         /\ r.stage # "idle" => r.task \in TaskSet
         /\ r.stage \in Busy => r.task.type \in {"L1", "L2", "L3"}
         /\ r.stage \in Busy /\ r.task.type = "L1" => r \in RunsL1
         /\ r.stage \in Busy /\ r.task.type = "L2" => r \in RunsL2
         /\ r.stage \in Busy /\ r.task.type = "L3" => r \in RunsL3
<1>1. CASE r = Idle
  BY <1>1 DEF Idle, Busy
<1>2. CASE r \in Waiting
  BY <1>2 DEF Waiting, Busy
<1>3. CASE r \in RunsL1
  BY <1>3 DEF RunsL1, Busy, TaskOf
<1>4. CASE r \in RunsL2
  BY <1>4 DEF RunsL2, Busy, TaskOf
<1>5. CASE r \in RunsL3
  BY <1>5 DEF RunsL3, Busy, TaskOf
<1> QED
  BY <1>1, <1>2, <1>3, <1>4, <1>5 DEF CoroSet

\* A failed run keeps its task.
LEMMA BackoffTypes ==
  ASSUME NEW r \in CoroSet, r.stage = "run"
  PROVE  LET b == [r EXCEPT !.stage = "backoff"]
         IN  b \in CoroSet /\ b.stage = "backoff" /\ b.task = r.task
<1>1. r \in RunsL1 \cup RunsL2 \cup RunsL3
  BY DEF CoroSet, Idle, Waiting
<1>2. CASE r \in RunsL1
  BY <1>2 DEF RunsL1, Busy, CoroSet
<1>3. CASE r \in RunsL2
  BY <1>3 DEF RunsL2, Busy, CoroSet
<1>4. CASE r \in RunsL3
  BY <1>4 DEF RunsL3, Busy, CoroSet
<1> QED
  BY <1>1, <1>2, <1>3, <1>4

LEMMA IdleTypes == Idle \in CoroSet /\ Idle.stage = "idle" /\ Idle.stage \notin Busy
  BY DEF CoroSet, Idle, Busy

LEMMA TaskTypes ==
  ASSUME NEW s \in Sessions, NEW type \in Types
  PROVE  /\ Task(type, s) \in TaskSet /\ Task(type, s).s = s /\ Task(type, s).type = type
         /\ TimerTask(type, s) \in TaskSet
         /\ TimerTask(type, s).s = s /\ TimerTask(type, s).type = type
  BY DEF Task, TimerTask, TaskSet

LEMMA L3OfTypes ==
  ASSUME NEW t \in TaskSet
  PROVE  L3Of(t) \in TaskSet /\ L3Of(t).s = t.s /\ L3Of(t).type = "L3"
  BY DEF L3Of, TaskSet, Types

LEMMA RetryTypes ==
  ASSUME NEW t \in TaskSet
  PROVE  LET r == [t EXCEPT !.retry = @ + 1]
         IN  r \in TaskSet /\ r.s = t.s /\ r.type = t.type
  BY DEF TaskSet

LEMMA TaskFields ==
  ASSUME NEW t \in TaskSet
  PROVE  t.s \in Sessions /\ t.type \in Types /\ t.timer \in BOOLEAN /\ t.retry \in Nat
  BY DEF TaskSet

LEMMA CurrentTypes ==
  ASSUME TypeOK, NEW s \in Sessions
  PROVE  /\ Current(s) \in StateRec
         /\ Current(s).l2done > 0 => L2HasRun(s)
         /\ st[s] # NoState => Current(s) = st[s]
         /\ st[s] = NoState => Current(s).l2done = 0 /\ Current(s).count = 0
  BY DEF TypeOK, Current, Fresh, StateRec, L2HasRun

\* A failure is counted.
LEMMA FaultTypes ==
  ASSUME TypeOK, Fault
  PROVE  spent' \in Counters
<1>1. spent \in Counters
  BY DEF TypeOK
<1> QED
  BY <1>1 DEF Fault, Counters

\* What is left of a queue when its head is taken.
LEMMA HeadTypes ==
  ASSUME TypeOK, queue # <<>>
  PROVE  Head(queue) \in TaskSet /\ Tail(queue) \in Seq(TaskSet)
  BY HeadTailProperties DEF TypeOK

\* What Consume and Acquire have in common: the coroutine, idle or waiting, has a
\* task, q is the queue without it.
Picked(c, t, q) ==
  /\ up
  /\ t \in TaskSet
  /\ q \in Seq(TaskSet)
  /\ coro[c].stage \in {"idle", "waiting"}
  /\ coro[c].stage # "idle" => coro[c].task = t
  /\ \A s, types : HasTask(queue, s, types) =>
       HasTask(q, s, types) \/ (t.s = s /\ t.type \in types)

LEMMA ConsumePicks ==
  ASSUME TypeOK, NEW c \in Coroutines, Consume(c)
  PROVE  Picked(c, Head(queue), Tail(queue)) /\ Starts(c, Head(queue), Tail(queue))
<1>1. up /\ coro[c].stage = "idle" /\ queue # <<>> /\ Starts(c, Head(queue), Tail(queue))
  BY DEF Consume
<1>2. queue \in Seq(TaskSet)
  BY DEF TypeOK
<1> QED
  BY <1>1, <1>2, HeadTypes, TailHas DEF Picked

LEMMA AcquirePicks ==
  ASSUME TypeOK, NEW c \in Coroutines, Acquire(c)
  PROVE  Picked(c, coro[c].task, queue) /\ Starts(c, coro[c].task, queue)
<1>1. coro[c].task \in TaskSet
  BY CoroTypes DEF Acquire, TypeOK
<1> QED
  BY <1>1 DEF Acquire, TypeOK, Picked

LEMMA L1ReadsTypes ==
  ASSUME TypeOK, NEW c \in Coroutines, NEW t, NEW q, Picked(c, t, q), L1Reads(c, t, q)
  PROVE  \E to \in Nat, backlog \in {"none", "more", "full"} :
           LET run == [stage |-> "run", task |-> t, to |-> to, backlog |-> backlog]
           IN  /\ Runs(c, run)
               /\ run \in CoroSet
               /\ to = AtMost(cursor[t.s] + Batch, l0[t.s])
<1> DEFINE to == AtMost(cursor[t.s] + Batch, l0[t.s])
<1>1. t \in TaskSet /\ t.type = "L1" /\ t.s \in Sessions
  BY TaskFields DEF Picked, L1Reads
<1>2. to \in Nat
  <2>1. cursor[t.s] \in Nat /\ l0[t.s] \in Nat
    BY <1>1 DEF TypeOK, StoreOK
  <2> QED
    BY <2>1, WorkerAssumption DEF AtMost
<1>3. PICK backlog \in {"none", "more", "full"} :
        Runs(c, [stage |-> "run", task |-> t, to |-> to, backlog |-> backlog])
  BY DEF L1Reads
<1>4. [stage |-> "run", task |-> t, to |-> to, backlog |-> backlog] \in CoroSet
  BY <1>1, <1>2 DEF CoroSet, RunsL1, Busy, TaskOf
<1> QED
  BY <1>2, <1>3, <1>4

\* What a coroutine that starts a task is afterwards: it runs the task with the
\* key of it, or it is done with it.
LEMMA StartsTypes ==
  ASSUME TypeOK, NEW c \in Coroutines, NEW t, NEW q, Picked(c, t, q), Starts(c, t, q)
  PROVE  /\ coro' \in [Coroutines -> CoroSet]
         /\ \A d \in Coroutines : d # c => coro'[d] = coro[d]
         /\ \/ /\ L1Skips(c, t, q) \/ FlushRuns(c, t, q)
               /\ coro'[c] = Idle /\ locks' = locks
            \/ /\ L1Reads(c, t, q) \/ L2Reads(c, t, q) \/ L3Reads(c, t, q)
               /\ coro'[c].stage = "run" /\ coro'[c].task = t
               /\ locks' = locks \cup {LockKey(t)}
<1>1. t \in TaskSet /\ coro \in [Coroutines -> CoroSet]
  BY DEF Picked, TypeOK
<1>2. ASSUME NEW run \in CoroSet, run.stage = "run", run.task = t, Runs(c, run)
      PROVE  /\ coro' \in [Coroutines -> CoroSet]
             /\ \A d \in Coroutines : d # c => coro'[d] = coro[d]
             /\ coro'[c].stage = "run" /\ coro'[c].task = t
             /\ locks' = locks \cup {LockKey(t)}
  BY <1>1, <1>2 DEF Runs
<1>3. CASE L1Skips(c, t, q) \/ FlushRuns(c, t, q)
  BY <1>1, <1>3, IdleTypes DEF L1Skips, FlushRuns, Done
<1>4. CASE L1Reads(c, t, q)
  <2>1. PICK to \in Nat, backlog \in {"none", "more", "full"} :
          /\ Runs(c, [stage |-> "run", task |-> t, to |-> to, backlog |-> backlog])
          /\ [stage |-> "run", task |-> t, to |-> to, backlog |-> backlog] \in CoroSet
    BY <1>4, L1ReadsTypes
  <2> QED
    BY <1>2, <1>4, <2>1
<1>5. CASE L2Reads(c, t, q)
  <2> DEFINE run == [stage |-> "run", task |-> t, upto |-> out[t.s],
                     some |-> out[t.s] > Current(t.s).l2done]
  <2>1. t.type = "L2" /\ Runs(c, run) /\ t.s \in Sessions
    BY <1>1, <1>5, TaskFields DEF L2Reads
  <2>2. run \in CoroSet
    BY <1>1, <2>1 DEF CoroSet, RunsL2, Busy, TaskOf, TypeOK, StoreOK
  <2> QED
    BY <1>2, <1>5, <2>1, <2>2
<1>6. CASE L3Reads(c, t, q)
  <2> DEFINE run == [stage |-> "run", task |-> t, saw |-> scenes]
  <2>1. t.type = "L3" /\ Runs(c, run)
    BY <1>6 DEF L3Reads
  <2>2. run \in CoroSet
    BY <1>1, <2>1 DEF CoroSet, RunsL3, Busy, TaskOf, TypeOK, StoreOK
  <2> QED
    BY <1>2, <1>6, <2>1, <2>2
<1> QED
  BY <1>3, <1>4, <1>5, <1>6 DEF Starts

LEMMA CascadeTypes ==
  ASSUME TypeOK, NEW s \in Sessions, L1Cascade(s)
  PROVE  /\ st' \in [Sessions -> StateRec \cup {NoState}]
         /\ l2Timer' \subseteq Sessions
         /\ [Current(s) EXCEPT !.count = 0] \in StateRec
         /\ st' = [st EXCEPT ![s] = [Current(s) EXCEPT !.count = 0]]
<1>1. Current(s) \in StateRec
  BY CurrentTypes
<1>2. [Current(s) EXCEPT !.count = 0] \in StateRec
  BY <1>1 DEF StateRec
<1> QED
  BY <1>2 DEF TypeOK, L1Cascade

LEMMA InitTypes == Init => TypeOK
<1> SUFFICES ASSUME Init PROVE TypeOK
  OBVIOUS
<1>1. Zero \in [Sessions -> Nat]
  BY DEF Zero
<1>2. coro \in [Coroutines -> CoroSet]
  BY IdleTypes DEF Init
<1>3. spent \in Counters
  BY DEF Init, Counters
<1>4. queue \in Seq(TaskSet)
  BY DEF Init
<1> QED
  BY <1>1, <1>2, <1>3, <1>4 DEF Init, TypeOK, StoreOK

\* A start of a task.
LEMMA StartsKeepTypes ==
  ASSUME TypeOK, NEW c \in Coroutines, NEW t, NEW q, Picked(c, t, q), Starts(c, t, q)
  PROVE  TypeOK'
<1>1. coro' \in [Coroutines -> CoroSet]
  BY StartsTypes
<1>2. t \in TaskSet /\ q \in Seq(TaskSet) /\ t.s \in Sessions /\ t.type \in Types
  BY TaskFields DEF Picked
<1>3. up' = up /\ UNCHANGED store /\ untold' = untold /\ spent' = spent
  BY DEF Starts
<1>4. CASE L1Skips(c, t, q)
  BY <1>1, <1>2, <1>3, <1>4, CascadeTypes DEF L1Skips, TypeOK, StoreOK, store
<1>5. CASE L1Reads(c, t, q)
  BY <1>1, <1>2, <1>3, <1>5 DEF L1Reads, TypeOK, StoreOK, store
<1>6. CASE FlushRuns(c, t, q)
  <2>1. Task("flush", t.s) \in TaskSet
    BY <1>2, TaskTypes DEF Types
  <2>2. queue' \in Seq(TaskSet)
    BY <1>2, <1>6, <2>1, EnqueueKeeps DEF FlushRuns
  <2>3. lost' \subseteq Sessions \X Types
    BY <1>2, <1>6 DEF FlushRuns, TypeOK, Types
  <2>4. L1Cascade(t.s) /\ idle' \subseteq idle /\ read' = read
    BY <1>6 DEF FlushRuns
  <2> QED
    BY <1>1, <1>2, <1>3, <2>2, <2>3, <2>4, CascadeTypes DEF TypeOK, StoreOK, store
<1>7. CASE L2Reads(c, t, q)
  <2>1. read' \in [Sessions -> Nat]
    BY <1>2, <1>7 DEF L2Reads, TypeOK, StoreOK
  <2> QED
    BY <1>1, <1>2, <1>3, <1>7, <2>1 DEF L2Reads, TypeOK, StoreOK, store
<1>8. CASE L3Reads(c, t, q)
  BY <1>1, <1>2, <1>3, <1>8 DEF L3Reads, TypeOK, StoreOK, store
<1> QED
  BY <1>4, <1>5, <1>6, <1>7, <1>8 DEF Starts

LEMMA WaitsKeepTypes ==
  ASSUME TypeOK, NEW c \in Coroutines, Waits(c)
  PROVE  TypeOK'
<1>1. Head(queue) \in TaskSet /\ Tail(queue) \in Seq(TaskSet)
  BY HeadTypes DEF Waits
<1>2. [stage |-> "waiting", task |-> Head(queue)] \in CoroSet
  BY <1>1 DEF CoroSet, Waiting
<1>3. coro' \in [Coroutines -> CoroSet]
  BY <1>2 DEF Waits, TypeOK
<1> QED
  BY <1>1, <1>3 DEF Waits, TypeOK, StoreOK, store

LEMMA WaitTimesOutKeepsTypes ==
  ASSUME TypeOK, NEW c \in Coroutines, WaitTimesOut(c)
  PROVE  TypeOK'
<1>1. coro[c].task.s \in Sessions /\ coro[c].task.type \in Types
  BY CoroTypes, TaskFields DEF WaitTimesOut, TypeOK
<1>2. coro' \in [Coroutines -> CoroSet]
  BY IdleTypes DEF WaitTimesOut, TypeOK
<1>3. lost' \subseteq Sessions \X Types
  BY <1>1 DEF WaitTimesOut, GiveUp, TypeOK, Types
<1>4. spent' \in Counters
  BY FaultTypes DEF WaitTimesOut
<1> QED
  BY <1>2, <1>3, <1>4 DEF WaitTimesOut, TypeOK, StoreOK, store, backend

\* What a failed run leaves of the stores.
LEMMA ThrowsTypes ==
  ASSUME TypeOK, NEW c \in Coroutines, NEW kept \in 0..1, Throws(c, kept)
  PROVE  /\ coro[c].task \in TaskSet /\ coro[c].task.s \in Sessions
         /\ coro[c].task.type \in {"L1", "L2", "L3"}
         /\ out' \in [Sessions -> Nat]
         /\ spent' \in Counters
<1>1. coro[c] \in CoroSet /\ coro[c].stage = "run"
  BY DEF Throws, TypeOK
<1>2. coro[c].task \in TaskSet /\ coro[c].task.s \in Sessions
  BY <1>1, CoroTypes, TaskFields
<1>3. coro[c].task.type \in {"L1", "L2", "L3"}
  BY <1>1, CoroTypes DEF Busy
<1>4. out \in [Sessions -> Nat] /\ kept \in Nat
  BY DEF TypeOK, StoreOK
<1>5. out' = [out EXCEPT ![coro[c].task.s] = @ + kept]
  BY DEF Throws
<1>6. out' \in [Sessions -> Nat]
  BY <1>2, <1>4, <1>5
<1>7. spent' \in Counters
  BY FaultTypes DEF Throws
<1> QED
  BY <1>2, <1>3, <1>6, <1>7

LEMMA FailsKeepsTypes ==
  ASSUME TypeOK, NEW c \in Coroutines, NEW kept \in 0..1, Fails(c, kept)
  PROVE  TypeOK'
<1>1. Throws(c, kept)
  BY DEF Fails
<1>2. coro' \in [Coroutines -> CoroSet]
  <2>1. [coro[c] EXCEPT !.stage = "backoff"] \in CoroSet
    BY <1>1, BackoffTypes DEF Throws, TypeOK
  <2>2. coro' = [coro EXCEPT ![c] = [coro[c] EXCEPT !.stage = "backoff"]]
    BY DEF Fails
  <2> QED
    BY <2>1, <2>2 DEF TypeOK
<1>3. out' \in [Sessions -> Nat] /\ spent' \in Counters
  BY <1>1, ThrowsTypes
<1> QED
  BY <1>1, <1>2, <1>3 DEF Fails, Throws, TypeOK, StoreOK

LEMMA ReleaseTypes ==
  ASSUME TypeOK, NEW c \in Coroutines, Release(c)
  PROVE  coro' \in [Coroutines -> CoroSet]
  BY IdleTypes DEF Release, TypeOK

LEMMA DeadLetterKeepsTypes ==
  ASSUME TypeOK, NEW c \in Coroutines, NEW kept \in 0..1, DeadLetter(c, kept)
  PROVE  TypeOK'
<1>1. Throws(c, kept) /\ Release(c)
  BY DEF DeadLetter
<1>2. coro[c].task.s \in Sessions /\ coro[c].task.type \in Types
  BY <1>1, ThrowsTypes DEF Types
<1>3. lost' \subseteq Sessions \X Types
  BY <1>2 DEF DeadLetter, TypeOK, Types
<1>4. idle' \subseteq idle /\ l2Timer' \subseteq l2Timer
  BY DEF DeadLetter
<1>5. out' \in [Sessions -> Nat] /\ spent' \in Counters
  BY <1>1, ThrowsTypes
<1>6. coro' \in [Coroutines -> CoroSet]
  BY <1>1, ReleaseTypes
<1> QED
  BY <1>1, <1>3, <1>4, <1>5, <1>6 DEF Throws, TypeOK, StoreOK

LEMMA RetriesKeepsTypes ==
  ASSUME TypeOK, NEW c \in Coroutines, Retries(c)
  PROVE  TypeOK'
<1>1. coro[c].task \in TaskSet
  BY CoroTypes DEF Retries, TypeOK
<1>2. [coro[c].task EXCEPT !.retry = @ + 1] \in TaskSet
  BY <1>1, RetryTypes
<1>3. queue' \in Seq(TaskSet)
  BY <1>2, EnqueueKeeps DEF Retries, TypeOK
<1>4. coro' \in [Coroutines -> CoroSet]
  BY ReleaseTypes DEF Retries
<1> QED
  BY <1>3, <1>4 DEF Retries, TypeOK, StoreOK, store

LEMMA RunTypes ==
  ASSUME TypeOK, NEW c \in Coroutines, NEW type \in {"L1", "L2", "L3"}, Running(c, type)
  PROVE  /\ coro[c].task \in TaskSet /\ coro[c].task.s \in Sessions
         /\ type = "L1" => coro[c] \in RunsL1
         /\ type = "L2" => coro[c] \in RunsL2
         /\ type = "L3" => coro[c] \in RunsL3
<1>1. coro[c] \in CoroSet /\ coro[c].stage = "run" /\ coro[c].task.type = type
  BY DEF Running, TypeOK
<1>2. coro[c].task \in TaskSet
  BY <1>1, CoroTypes
<1> QED
  BY <1>1, <1>2, CoroTypes, TaskFields DEF Busy

LEMMA L1EndsKeepsTypes ==
  ASSUME TypeOK, NEW c \in Coroutines, NEW kept \in 0..1, L1Ends(c, kept)
  PROVE  TypeOK'
<1> DEFINE s == coro[c].task.s
<1>1. Running(c, "L1") /\ L1Cascade(s) /\ Release(c)
  BY DEF L1Ends
<1>2. s \in Sessions /\ coro[c] \in RunsL1
  BY <1>1, RunTypes
<1>3. coro[c].to \in Nat
  BY <1>2 DEF RunsL1
<1>4. Task("L1", s) \in TaskSet
  BY <1>2, TaskTypes DEF Types
<1>5. queue' \in Seq(TaskSet)
  BY <1>4, EnqueueKeeps DEF L1Ends, TypeOK
<1>6. out' \in [Sessions -> Nat]
  <2>1. out' = [out EXCEPT ![s] = @ + kept]
    BY DEF L1Ends
  <2>2. out \in [Sessions -> Nat] /\ kept \in Nat
    BY DEF TypeOK, StoreOK
  <2> QED
    BY <1>2, <2>1, <2>2
<1>7. cursor' \in [Sessions -> Nat]
  BY <1>2, <1>3 DEF L1Ends, TypeOK, StoreOK
<1>8. idle' \subseteq Sessions
  BY <1>2 DEF L1Ends, TypeOK
<1>9. st' \in [Sessions -> StateRec \cup {NoState}] /\ l2Timer' \subseteq Sessions
  BY <1>1, <1>2, CascadeTypes
<1>10. coro' \in [Coroutines -> CoroSet]
  BY <1>1, ReleaseTypes
<1>11. UNCHANGED <<up, l0, scenes, persona, untold, read, lost, spent>>
  BY DEF L1Ends
<1> QED
  BY <1>5, <1>6, <1>7, <1>8, <1>9, <1>10, <1>11 DEF TypeOK, StoreOK

LEMMA L2SkipsKeepsTypes ==
  ASSUME TypeOK, NEW c \in Coroutines, L2Skips(c)
  PROVE  TypeOK'
<1>1. coro[c].task.s \in Sessions /\ coro[c].task.type \in Types
  BY RunTypes, TaskFields DEF L2Skips
<1>2. coro' \in [Coroutines -> CoroSet]
  BY ReleaseTypes DEF L2Skips
<1>3. lost' \subseteq Sessions \X Types
  BY <1>1 DEF L2Skips, GiveUp, TypeOK, Types
<1>4. spent' \in Counters
  BY FaultTypes DEF L2Skips, TypeOK
<1> QED
  BY <1>2, <1>3, <1>4 DEF L2Skips, TypeOK, StoreOK, store

LEMMA L2EndsKeepsTypes ==
  ASSUME TypeOK, NEW c \in Coroutines, NEW success \in BOOLEAN, L2Ends(c, success)
  PROVE  TypeOK'
<1> DEFINE s == coro[c].task.s
<1>1. Running(c, "L2") /\ Release(c) /\ CascadeL3(coro[c].task)
  BY DEF L2Ends
<1>2. s \in Sessions /\ coro[c].task \in TaskSet /\ coro[c] \in RunsL2
  BY <1>1, RunTypes
<1>3. scenes' \in [Sessions -> Nat]
  <2>1. coro[c].upto \in Nat
    BY <1>2 DEF RunsL2
  <2> QED
    BY <1>2, <2>1 DEF L2Ends, TypeOK, StoreOK
<1>4. st' \in [Sessions -> StateRec \cup {NoState}]
  <2>1. Current(s) \in StateRec /\ out[s] \in Nat
    BY <1>2, CurrentTypes DEF TypeOK, StoreOK
  <2>2. [Current(s) EXCEPT !.l2done = out[s]] \in StateRec
    BY <2>1 DEF StateRec
  <2> QED
    BY <1>2, <2>2 DEF L2Ends, TypeOK
<1>5. queue' \in Seq(TaskSet)
  BY <1>1, <1>2, L3OfTypes, EnqueueKeeps DEF CascadeL3, TypeOK
<1>6. coro' \in [Coroutines -> CoroSet]
  BY <1>1, ReleaseTypes
<1>7. l2Timer' \subseteq Sessions /\ lost' \subseteq lost
  BY <1>2 DEF L2Ends, TypeOK
<1>8. spent' \in Counters
  BY FaultTypes DEF L2Ends, TypeOK
<1>9. UNCHANGED <<up, l0, out, cursor, persona, idle, untold, read>>
  BY DEF L2Ends
<1> QED
  BY <1>3, <1>4, <1>5, <1>6, <1>7, <1>8, <1>9 DEF TypeOK, StoreOK

LEMMA L3EndsKeepsTypes ==
  ASSUME TypeOK, NEW c \in Coroutines, L3Ends(c)
  PROVE  TypeOK'
<1>1. coro[c] \in RunsL3
  BY RunTypes DEF L3Ends
<1>2. persona' \in [Sessions -> Nat]
  BY <1>1 DEF L3Ends, RunsL3
<1>3. coro' \in [Coroutines -> CoroSet]
  BY ReleaseTypes DEF L3Ends
<1> QED
  BY <1>2, <1>3 DEF L3Ends, TypeOK, StoreOK

\* Captures, timers and ends of sessions, Stop and Boot.
LEMMA NotifyKeepsTypes ==
  ASSUME TypeOK, NEW s \in Sessions, Notify(s)
  PROVE  TypeOK'
<1> DEFINE n == Current(s).count + 1
           warm == IF Warmup THEN WarmedUp(WarmOf(s)) ELSE Current(s).warm
<1>1. Current(s) \in StateRec
  BY CurrentTypes
<1>2. n \in Nat
  BY <1>1 DEF StateRec
<1>3. warm \in Nat
  <2>1. WarmOf(s) \in Nat
    BY DEF WarmOf, TypeOK, StateRec
  <2>2. 2 * WarmOf(s) \in Nat
    BY <2>1
  <2>3. WarmedUp(WarmOf(s)) \in Nat
    BY <2>2 DEF WarmedUp
  <2> QED
    BY <1>1, <2>3 DEF StateRec
<1> HIDE DEF n, warm
<1>4. [Current(s) EXCEPT !.count = 0, !.warm = warm] \in StateRec
  BY <1>1, <1>3 DEF StateRec
<1>5. [Current(s) EXCEPT !.count = n] \in StateRec
  BY <1>1, <1>2 DEF StateRec
<1>6. st' \in [Sessions -> StateRec \cup {NoState}]
  BY <1>4, <1>5 DEF Notify, TypeOK, n, warm
<1>7. Task("L1", s) \in TaskSet
  BY TaskTypes DEF Types
<1>8. queue' \in Seq(TaskSet)
  BY <1>7, EnqueueKeeps DEF Notify, TypeOK
<1>9. idle' \subseteq Sessions /\ lost' \subseteq lost
  BY DEF Notify, TypeOK
<1>10. untold' \in [Sessions -> Nat]
  BY DEF Notify, TypeOK
<1>11. UNCHANGED <<up, store, l2Timer, coro, locks, read, spent>>
  BY DEF Notify
<1> QED
  BY <1>6, <1>8, <1>9, <1>10, <1>11 DEF TypeOK, StoreOK, store

LEMMA SessionKeepsTypes ==
  ASSUME TypeOK, NEW s \in Sessions,
         Capture(s) \/ NotifyLost(s) \/ IdleFires(s) \/ L2Fires(s) \/ SessionEnds(s)
  PROVE  TypeOK'
<1>1. CASE Capture(s)
  <2>1. spent' \in Counters
    <3>1. spent \in Counters /\ spent' = [spent EXCEPT !.captures = @ + 1]
      BY <1>1 DEF Capture, TypeOK
    <3> QED
      BY <3>1 DEF Counters
  <2>2. l0' \in [Sessions -> Nat] /\ untold' \in [Sessions -> Nat]
    BY <1>1 DEF Capture, TypeOK, StoreOK
  <2> QED
    BY <1>1, <2>1, <2>2 DEF Capture, TypeOK, StoreOK, backend
<1>2. CASE NotifyLost(s)
  <2>1. spent' \in Counters
    BY <1>2, FaultTypes DEF NotifyLost, TypeOK
  <2>2. untold' \in [Sessions -> Nat]
    BY <1>2 DEF NotifyLost, TypeOK
  <2> QED
    BY <1>2, <2>1, <2>2 DEF NotifyLost, TypeOK, StoreOK, store, backend
<1>3. CASE IdleFires(s)
  <2>1. TimerTask("L1", s) \in TaskSet
    BY TaskTypes DEF Types
  <2>2. queue' \in Seq(TaskSet) /\ idle' \subseteq idle
    BY <1>3, <2>1, EnqueueKeeps DEF IdleFires, TypeOK
  <2> QED
    BY <1>3, <2>2 DEF IdleFires, TypeOK, StoreOK, store
<1>4. CASE L2Fires(s)
  <2>1. TimerTask("L2", s) \in TaskSet
    BY TaskTypes DEF Types
  <2>2. queue' \in Seq(TaskSet) /\ l2Timer' \subseteq l2Timer
    BY <1>4, <2>1, EnqueueKeeps DEF L2Fires, TypeOK
  <2> QED
    BY <1>4, <2>2 DEF L2Fires, TypeOK, StoreOK, store
<1>5. CASE SessionEnds(s)
  <2>1. Task("flush", s) \in TaskSet
    BY TaskTypes DEF Types
  <2>2. queue' \in Seq(TaskSet) /\ idle' \subseteq idle
    BY <1>5, <2>1, EnqueueKeeps DEF SessionEnds, TypeOK
  <2>3. spent' \in Counters
    <3>1. spent \in Counters /\ spent' = [spent EXCEPT !.ends = @ + 1]
      BY <1>5 DEF SessionEnds, TypeOK
    <3> QED
      BY <3>1 DEF Counters
  <2> QED
    BY <1>5, <2>2, <2>3 DEF SessionEnds, TypeOK, StoreOK, store
<1> QED
  BY <1>1, <1>2, <1>3, <1>4, <1>5

LEMMA LifeKeepsTypes ==
  ASSUME TypeOK, Stop \/ Boot
  PROVE  TypeOK'
<1>1. CASE Stop
  <2>1. coro' \in [Coroutines -> CoroSet]
    BY <1>1, IdleTypes DEF Stop
  <2>2. queue' \in Seq(TaskSet)
    BY <1>1 DEF Stop
  <2> QED
    BY <1>1, <2>1, <2>2 DEF Stop, TypeOK, StoreOK, store
<1>2. CASE Boot
  <2>1. spent' \in Counters
    <3>1. spent \in Counters /\ spent' = [spent EXCEPT !.boots = @ + 1]
      BY <1>2 DEF Boot, TypeOK
    <3> QED
      BY <3>1 DEF Counters
  <2> QED
    BY <1>2, <2>1 DEF Boot, TypeOK, StoreOK, store, backend
<1> QED
  BY <1>1, <1>2

-----------------------------------------------------------------------------
(* One step.                                                               *)

\* What a coroutine does.
CoroStep(c) ==
  \/ \E t, q : Picked(c, t, q) /\ Starts(c, t, q)
  \/ Waits(c) \/ Retries(c)
  \/ \E kept \in 0..1 : L1Ends(c, kept)
  \/ L2Skips(c)
  \/ \E success \in BOOLEAN : L2Ends(c, success)
  \/ L3Ends(c)
  \/ WaitTimesOut(c)
  \/ \E kept \in 0..1 : Fails(c, kept) \/ DeadLetter(c, kept)

\* What happens to a session.
SessionStep(s) ==
  Capture(s) \/ Notify(s) \/ NotifyLost(s) \/ IdleFires(s) \/ L2Fires(s) \/ SessionEnds(s)

LEMMA NextSteps ==
  ASSUME TypeOK, Next
  PROVE  \/ \E c \in Coroutines : CoroStep(c)
         \/ \E s \in Sessions : SessionStep(s)
         \/ Stop \/ Boot
<1>1. ASSUME NEW c \in Coroutines, Works(c)
      PROVE  CoroStep(c)
  <2>1. CASE Consume(c)
    BY <2>1, ConsumePicks DEF CoroStep
  <2>2. CASE Acquire(c)
    BY <2>2, AcquirePicks DEF CoroStep
  <2> QED
    BY <1>1, <2>1, <2>2 DEF Works, CoroStep
<1> QED
  BY <1>1 DEF Next, CoroStep, SessionStep

LEMMA CoroKeepsTypes ==
  ASSUME TypeOK, NEW c \in Coroutines, CoroStep(c)
  PROVE  TypeOK'
  BY StartsKeepTypes, WaitsKeepTypes, RetriesKeepsTypes, L1EndsKeepsTypes, L2SkipsKeepsTypes,
     L2EndsKeepsTypes, L3EndsKeepsTypes, WaitTimesOutKeepsTypes, FailsKeepsTypes,
     DeadLetterKeepsTypes DEF CoroStep

LEMMA StepKeepsTypes ==
  ASSUME TypeOK, [Next]_vars
  PROVE  TypeOK'
<1>1. CASE Next
  <2>1. ASSUME NEW s \in Sessions, SessionStep(s)
        PROVE  TypeOK'
    BY <2>1, NotifyKeepsTypes, SessionKeepsTypes DEF SessionStep
  <2> QED
    BY <1>1, <2>1, NextSteps, CoroKeepsTypes, LifeKeepsTypes
<1>2. CASE UNCHANGED vars
  BY <1>2 DEF TypeOK, StoreOK, vars, store, backend
<1> QED
  BY <1>1, <1>2

\* The state of every variable stays of its type: among others, the queue and the
\* coroutines have tasks of sessions, and what a coroutine runs fits the task.
THEOREM WorkerTypes == Spec => []TypeOK
  BY InitTypes, StepKeepsTypes, PTL DEF Spec

-----------------------------------------------------------------------------
(* Locks.                                                                  *)

\* What a step does to coroutines and keys: a coroutine takes a free key, gives
\* up the key it has, or keeps what it has.
Takes(c) ==
  /\ ~Holds(c)
  /\ LockKey(coro'[c].task) \notin locks
  /\ locks' = locks \cup {LockKey(coro'[c].task)}

Releases(c) ==
  /\ Holds(c) /\ coro'[c].stage \notin Busy
  /\ locks' = locks \ {LockKey(coro[c].task)}

Retains(c) ==
  /\ locks' = locks
  /\ coro'[c].stage \in Busy => Holds(c) /\ coro'[c].task = coro[c].task

OnlyCoro(c) == \A d \in Coroutines : d # c => coro'[d] = coro[d]

LEMMA LocksKept ==
  ASSUME LocksOK, NEW c \in Coroutines, OnlyCoro(c), Takes(c) \/ Releases(c) \/ Retains(c)
  PROVE  LocksOK'
<1>1. CASE Takes(c)
  BY <1>1 DEF LocksOK, Takes, Holds, OnlyCoro
<1>2. CASE Releases(c)
  BY <1>2 DEF LocksOK, Releases, Holds, OnlyCoro
<1>3. CASE Retains(c)
  BY <1>3 DEF LocksOK, Retains, Holds, OnlyCoro
<1> QED
  BY <1>1, <1>2, <1>3

LEMMA ReleaseReleases ==
  ASSUME TypeOK, NEW c \in Coroutines, Holds(c), Release(c)
  PROVE  OnlyCoro(c) /\ Releases(c) /\ coro'[c] = Idle
  BY IdleTypes DEF TypeOK, Release, Releases, OnlyCoro

LEMMA StartsTakes ==
  ASSUME TypeOK, NEW c \in Coroutines, NEW t, NEW q, Picked(c, t, q), Starts(c, t, q)
  PROVE  OnlyCoro(c) /\ (Takes(c) \/ Retains(c))
<1>1. OnlyCoro(c)
  BY StartsTypes DEF OnlyCoro
<1>2. ~Holds(c) /\ LockKey(t) \notin locks
  BY DEF Picked, Holds, Busy, Starts
<1>3. \/ coro'[c] = Idle /\ locks' = locks
      \/ coro'[c].task = t /\ locks' = locks \cup {LockKey(t)}
  BY StartsTypes
<1> QED
  BY <1>1, <1>2, <1>3, IdleTypes DEF Takes, Retains

\* Fails: stage and nothing else.
LEMMA FailsBacksOff ==
  ASSUME TypeOK, NEW c \in Coroutines, NEW kept \in 0..1, Fails(c, kept)
  PROVE  /\ OnlyCoro(c) /\ Retains(c)
         /\ coro'[c].stage = "backoff" /\ coro'[c].task = coro[c].task
<1>1. coro[c] \in CoroSet /\ coro[c].stage = "run" /\ coro \in [Coroutines -> CoroSet]
  BY DEF Fails, Throws, TypeOK
<1>2. coro' = [coro EXCEPT ![c] = [coro[c] EXCEPT !.stage = "backoff"]] /\ locks' = locks
  BY DEF Fails
<1>3. coro'[c] = [coro[c] EXCEPT !.stage = "backoff"] /\ OnlyCoro(c)
  BY <1>1, <1>2 DEF OnlyCoro
<1>4. coro'[c].stage = "backoff" /\ coro'[c].task = coro[c].task
  BY <1>1, <1>3, BackoffTypes
<1> QED
  BY <1>1, <1>2, <1>3, <1>4 DEF Retains, Holds, Busy

LEMMA WaitsIdles ==
  ASSUME TypeOK, NEW c \in Coroutines, Waits(c) \/ WaitTimesOut(c)
  PROVE  /\ OnlyCoro(c) /\ Retains(c)
         /\ Waits(c) => coro'[c] = [stage |-> "waiting", task |-> Head(queue)]
         /\ WaitTimesOut(c) => coro'[c] = Idle
  BY IdleTypes DEF TypeOK, Waits, WaitTimesOut, OnlyCoro, Retains, Busy, backend

\* Each step of a coroutine does one of these.
LEMMA CoroLocks ==
  ASSUME TypeOK, NEW c \in Coroutines, CoroStep(c)
  PROVE  OnlyCoro(c) /\ (Takes(c) \/ Releases(c) \/ Retains(c))
<1>1. ASSUME Holds(c), Release(c)
      PROVE  OnlyCoro(c) /\ (Takes(c) \/ Releases(c) \/ Retains(c))
  BY <1>1, ReleaseReleases
<1>2. CASE \E t, q : Picked(c, t, q) /\ Starts(c, t, q)
  BY <1>2, StartsTakes
<1>3. CASE Waits(c) \/ WaitTimesOut(c)
  BY <1>3, WaitsIdles
<1>4. CASE Retries(c)
  BY <1>1, <1>4 DEF Retries, Holds, Busy
<1>5. CASE \E kept \in 0..1 : L1Ends(c, kept)
  BY <1>1, <1>5 DEF L1Ends, Running, Holds, Busy
<1>6. CASE L2Skips(c)
  BY <1>1, <1>6 DEF L2Skips, Running, Holds, Busy
<1>7. CASE \E success \in BOOLEAN : L2Ends(c, success)
  BY <1>1, <1>7 DEF L2Ends, Running, Holds, Busy
<1>8. CASE L3Ends(c)
  BY <1>1, <1>8 DEF L3Ends, Running, Holds, Busy
<1>9. CASE \E kept \in 0..1 : Fails(c, kept)
  BY <1>9, FailsBacksOff
<1>10. CASE \E kept \in 0..1 : DeadLetter(c, kept)
  BY <1>1, <1>10 DEF DeadLetter, Throws, Holds, Busy
<1> QED
  BY <1>2, <1>3, <1>4, <1>5, <1>6, <1>7, <1>8, <1>9, <1>10 DEF CoroStep

\* Nothing else touches a coroutine while the Gateway runs.
LEMMA SessionLeavesCoro ==
  ASSUME NEW s \in Sessions, SessionStep(s)
  PROVE  coro' = coro /\ locks' = locks
  BY DEF SessionStep, Capture, Notify, NotifyLost, IdleFires, L2Fires, SessionEnds, backend

LEMMA StepKeepsLocks ==
  ASSUME TypeOK, LocksOK, [Next]_vars
  PROVE  LocksOK'
<1>1. ASSUME NEW c \in Coroutines, CoroStep(c)
      PROVE  LocksOK'
  BY <1>1, CoroLocks, LocksKept
<1>2. ASSUME coro' = coro, locks' = locks
      PROVE  LocksOK'
  BY <1>2 DEF LocksOK, Holds
<1>3. CASE Stop
  BY <1>3, IdleTypes DEF Stop, LocksOK, Holds
<1>4. CASE Boot
  BY <1>2, <1>4 DEF Boot, backend
<1>5. CASE UNCHANGED vars
  BY <1>2, <1>5 DEF vars, backend
<1> QED
  BY <1>1, <1>2, <1>3, <1>4, <1>5, NextSteps, SessionLeavesCoro

\* Tasks with one key, run or backed off, do not overlap.
THEOREM OneHolderPerKey == Spec => []LocksOK
<1>1. Init => LocksOK
  BY IdleTypes DEF Init, LocksOK, Holds
<1>2. Spec => []TypeOK
  BY WorkerTypes
<1>3. TypeOK /\ LocksOK /\ [Next]_vars => LocksOK'
  BY StepKeepsLocks
<1> QED
  BY <1>1, <1>2, <1>3, PTL DEF Spec

-----------------------------------------------------------------------------
(* Cursors.                                                                *)

LEMMA CoroIsUp ==
  ASSUME NEW c \in Coroutines, CoroStep(c)
  PROVE  up /\ up' = up
  BY DEF CoroStep, Picked, Starts, Waits, Retries, L1Ends, L2Skips, L2Ends, L3Ends,
         WaitTimesOut, Fails, DeadLetter, Throws, Running

LEMMA StepKeepsDownEmpty ==
  ASSUME TypeOK, DownIsEmpty, [Next]_vars
  PROVE  DownIsEmpty'
<1>1. ASSUME up' = up, st' = st, coro' = coro
      PROVE  DownIsEmpty'
  BY <1>1 DEF DownIsEmpty
<1>2. ASSUME up'
      PROVE  DownIsEmpty'
  BY <1>2 DEF DownIsEmpty
<1>3. ASSUME NEW c \in Coroutines, CoroStep(c)
      PROVE  DownIsEmpty'
  BY <1>2, <1>3, CoroIsUp
<1>4. ASSUME NEW s \in Sessions, SessionStep(s)
      PROVE  DownIsEmpty'
  <2>1. CASE Capture(s) \/ NotifyLost(s) \/ IdleFires(s) \/ L2Fires(s) \/ SessionEnds(s)
    BY <1>1, <2>1 DEF Capture, NotifyLost, IdleFires, L2Fires, SessionEnds, backend
  <2>2. CASE Notify(s)
    BY <1>2, <2>2 DEF Notify
  <2> QED
    BY <1>4, <2>1, <2>2 DEF SessionStep
<1>5. CASE Stop
  BY <1>5 DEF Stop, DownIsEmpty
<1>6. CASE Boot
  BY <1>2, <1>6 DEF Boot
<1>7. CASE UNCHANGED vars
  BY <1>1, <1>7 DEF vars, backend
<1> QED
  BY <1>3, <1>4, <1>5, <1>6, <1>7, NextSteps

\* What the steps that neither start nor end a run of L1 leave alone.
LEMMA CursorFrame ==
  ASSUME CursorInv, l0' = l0, cursor' = cursor,
         NEW c \in Coroutines, OnlyCoro(c), coro'[c].stage # "run"
  PROVE  CursorInv'
  BY DEF CursorInv, OnlyCoro

LEMMA ReleaseStops ==
  ASSUME TypeOK, NEW c \in Coroutines, Release(c)
  PROVE  OnlyCoro(c) /\ coro'[c] = Idle /\ coro'[c].stage = "idle"
  BY IdleTypes DEF TypeOK, Release, OnlyCoro

\* Two coroutines that hold keys have tasks of different sessions, L3 apart, and
\* not both L3.
LEMMA Exclusive ==
  ASSUME LocksOK, NEW c \in Coroutines, NEW d \in Coroutines, c # d, Holds(c), Holds(d)
  PROVE  /\ coro[c].task.type # "L3" /\ coro[d].task.type # "L3" =>
              coro[c].task.s # coro[d].task.s
         /\ ~(coro[c].task.type = "L3" /\ coro[d].task.type = "L3")
  BY DEF LocksOK, LockKey

\* The run reads up to a row that is stored.
LEMMA StartsKeepCursor ==
  ASSUME TypeOK, CursorInv, NEW c \in Coroutines, NEW t, NEW q,
         Picked(c, t, q), Starts(c, t, q)
  PROVE  CursorInv'
<1>1. OnlyCoro(c) /\ t.s \in Sessions /\ l0' = l0 /\ cursor' = cursor
  BY StartsTakes, TaskFields DEF Picked, Starts, store
<1>2. CASE L1Skips(c, t, q) \/ FlushRuns(c, t, q)
  <2>1. coro'[c].stage # "run"
    BY <1>2, IdleTypes DEF L1Skips, FlushRuns, Done, TypeOK
  <2> QED
    BY <1>1, <2>1, CursorFrame
<1>3. CASE L1Reads(c, t, q)
  <2>1. PICK to \in Nat, backlog \in {"none", "more", "full"} :
          /\ Runs(c, [stage |-> "run", task |-> t, to |-> to, backlog |-> backlog])
          /\ to = AtMost(cursor[t.s] + Batch, l0[t.s])
    BY <1>3, L1ReadsTypes
  <2>2. coro'[c].task = t /\ coro'[c].to = to
    BY <2>1 DEF Runs, TypeOK
  <2>3. cursor[t.s] <= l0[t.s] /\ cursor[t.s] \in Nat /\ l0[t.s] \in Nat /\ Batch \in Nat
    BY <1>1, WorkerAssumption DEF CursorInv, TypeOK, StoreOK
  <2>4. cursor[t.s] <= to /\ to <= l0[t.s]
    BY <2>1, <2>3 DEF AtMost
  <2> QED
    BY <1>1, <2>2, <2>4 DEF CursorInv, OnlyCoro
<1>4. CASE L2Reads(c, t, q) \/ L3Reads(c, t, q)
  <2>1. coro'[c].task = t /\ t.type # "L1"
    BY <1>4 DEF L2Reads, L3Reads, Runs, TypeOK
  <2> QED
    BY <1>1, <2>1 DEF CursorInv, OnlyCoro
<1> QED
  BY <1>2, <1>3, <1>4 DEF Starts

\* No other run of the session has read rows from the older cursor.
LEMMA L1EndsKeepsCursor ==
  ASSUME TypeOK, LocksOK, CursorInv, NEW c \in Coroutines, NEW kept \in 0..1, L1Ends(c, kept)
  PROVE  CursorInv' /\ \A s \in Sessions : cursor'[s] >= cursor[s]
<1> DEFINE s == coro[c].task.s
<1>1. Running(c, "L1") /\ Release(c) /\ l0' = l0
  BY DEF L1Ends
<1>2. s \in Sessions /\ coro[c].to \in Nat
  BY <1>1, RunTypes DEF RunsL1
<1>3. OnlyCoro(c) /\ coro'[c].stage = "idle"
  BY <1>1, ReleaseStops
<1>4. cursor' = [cursor EXCEPT ![s] = coro[c].to]
  BY DEF L1Ends
<1>5. cursor[s] <= coro[c].to /\ coro[c].to <= l0[s]
  BY <1>1 DEF CursorInv, Running
<1>6. cursor \in [Sessions -> Nat]
  BY DEF TypeOK, StoreOK
<1>7. ASSUME NEW d \in Coroutines, coro'[d].stage = "run", coro'[d].task.type = "L1"
      PROVE  d # c /\ coro'[d] = coro[d] /\ coro[d].task.s # s
  <2>1. d # c /\ coro'[d] = coro[d]
    BY <1>3, <1>7 DEF OnlyCoro
  <2> QED
    BY <1>1, <1>7, <2>1, Exclusive DEF Running, Holds, Busy
<1>8. \A z \in Sessions : cursor'[z] <= l0'[z]
  BY <1>1, <1>2, <1>4, <1>5, <1>6 DEF CursorInv
<1>9. ASSUME NEW d \in Coroutines, coro'[d].stage = "run", coro'[d].task.type = "L1"
      PROVE  cursor'[coro'[d].task.s] <= coro'[d].to /\ coro'[d].to <= l0'[coro'[d].task.s]
  <2>1. coro'[d] = coro[d] /\ coro[d].task.s # s
    BY <1>7, <1>9
  <2>2. coro[d].task.s \in Sessions
    BY <1>9, <2>1, CoroTypes, TaskFields DEF TypeOK
  <2>3. cursor'[coro[d].task.s] = cursor[coro[d].task.s]
    BY <1>4, <1>6, <2>1, <2>2
  <2> QED
    BY <1>1, <1>9, <2>1, <2>3 DEF CursorInv
<1>10. \A z \in Sessions : cursor'[z] >= cursor[z]
  BY <1>2, <1>4, <1>5, <1>6
<1> QED
  BY <1>8, <1>9, <1>10 DEF CursorInv

LEMMA CoroKeepsCursor ==
  ASSUME TypeOK, LocksOK, CursorInv, NEW c \in Coroutines, CoroStep(c)
  PROVE  CursorInv' /\ \A s \in Sessions : cursor'[s] >= cursor[s]
<1> SUFFICES CursorInv' /\ (cursor' = cursor \/ \A s \in Sessions : cursor'[s] >= cursor[s])
  BY DEF TypeOK, StoreOK
<1>1. ASSUME Release(c), l0' = l0, cursor' = cursor
      PROVE  CursorInv'
  BY <1>1, ReleaseStops, CursorFrame
<1>2. ASSUME NEW t, NEW q, Picked(c, t, q), Starts(c, t, q)
      PROVE  CursorInv' /\ cursor' = cursor
  BY <1>2, StartsKeepCursor DEF Starts, store
<1>3. CASE Waits(c) \/ WaitTimesOut(c)
  <2>1. OnlyCoro(c) /\ coro'[c].stage # "run"
    BY <1>3, WaitsIdles, IdleTypes
  <2> QED
    BY <1>3, <2>1, CursorFrame DEF Waits, WaitTimesOut, store
<1>4. CASE Retries(c) \/ L2Skips(c)
  BY <1>1, <1>4 DEF Retries, L2Skips, store
<1>5. CASE L3Ends(c) \/ \E success \in BOOLEAN : L2Ends(c, success)
  BY <1>1, <1>5 DEF L3Ends, L2Ends
<1>6. CASE \E kept \in 0..1 : L1Ends(c, kept)
  BY <1>6, L1EndsKeepsCursor
<1>7. CASE \E kept \in 0..1 : Fails(c, kept)
  <2>1. OnlyCoro(c) /\ coro'[c].stage # "run"
    BY <1>7, FailsBacksOff
  <2> QED
    BY <1>7, <2>1, CursorFrame DEF Fails, Throws
<1>8. CASE \E kept \in 0..1 : DeadLetter(c, kept)
  BY <1>1, <1>8 DEF DeadLetter, Throws
<1> QED
  BY <1>2, <1>3, <1>4, <1>5, <1>6, <1>7, <1>8 DEF CoroStep

LEMMA StepKeepsCursor ==
  ASSUME TypeOK, LocksOK, CursorInv, [Next]_vars
  PROVE  CursorInv' /\ \A s \in Sessions : cursor'[s] >= cursor[s]
<1> SUFFICES CursorInv' /\ (cursor' = cursor \/ \A s \in Sessions : cursor'[s] >= cursor[s])
  BY DEF TypeOK, StoreOK
<1>1. ASSUME l0' = l0, cursor' = cursor, coro' = coro
      PROVE  CursorInv'
  BY <1>1 DEF CursorInv
<1>2. ASSUME NEW s \in Sessions, SessionStep(s)
      PROVE  CursorInv' /\ cursor' = cursor
  <2>1. CASE Capture(s)
    <3>1. cursor' = cursor /\ coro' = coro /\ l0' = [l0 EXCEPT ![s] = @ + 1]
      BY <2>1 DEF Capture
    <3>2. \A z \in Sessions : l0[z] <= l0'[z] /\ l0[z] \in Nat /\ l0'[z] \in Nat
      BY <3>1 DEF TypeOK, StoreOK
    <3>3. \A z \in Sessions : cursor[z] \in Nat
      BY DEF TypeOK, StoreOK
    <3>4. \A z \in Sessions : cursor'[z] <= l0'[z]
      BY <3>1, <3>2, <3>3 DEF CursorInv
    <3>5. ASSUME NEW c \in Coroutines, coro'[c].stage = "run", coro'[c].task.type = "L1"
          PROVE  cursor'[coro'[c].task.s] <= coro'[c].to /\ coro'[c].to <= l0'[coro'[c].task.s]
      <4>1. coro[c].stage = "run" /\ coro[c].task.type = "L1"
        BY <3>1, <3>5
      <4>2. coro[c].task.s \in Sessions /\ coro[c] \in RunsL1
        BY <4>1, CoroTypes, TaskFields DEF TypeOK, Busy
      <4>3. coro[c].to \in Nat
        BY <4>2 DEF RunsL1
      <4>4. cursor[coro[c].task.s] <= coro[c].to /\ coro[c].to <= l0[coro[c].task.s]
        BY <4>1 DEF CursorInv
      <4>5. coro[c].to <= l0'[coro[c].task.s]
        BY <3>2, <4>2, <4>3, <4>4
      <4> QED
        BY <3>1, <4>4, <4>5
    <3> QED
      BY <3>1, <3>4, <3>5 DEF CursorInv
  <2>2. CASE ~Capture(s)
    BY <1>1, <1>2, <2>2
    DEF SessionStep, Notify, NotifyLost, IdleFires, L2Fires, SessionEnds, store, backend
  <2> QED
    BY <2>1, <2>2
<1>3. CASE Stop
  BY <1>3, IdleTypes DEF Stop, store, CursorInv
<1>4. CASE Boot
  BY <1>1, <1>4 DEF Boot, store
<1>5. CASE UNCHANGED vars
  BY <1>1, <1>5 DEF vars, store
<1> QED
  BY <1>2, <1>3, <1>4, <1>5, NextSteps, CoroKeepsCursor

\* The L1 cursor of a session never goes back, so no row is extracted again.
THEOREM CursorAdvances == Spec => CursorOnlyAdvances
<1>1. Init => CursorInv
  BY IdleTypes DEF Init, CursorInv, Zero
<1>2. TypeOK /\ LocksOK /\ CursorInv /\ [Next]_vars => CursorInv'
  BY StepKeepsCursor
<1>3. TypeOK /\ LocksOK /\ CursorInv /\ [Next]_vars =>
        [\A s \in Sessions : cursor'[s] >= cursor[s]]_vars
  BY StepKeepsCursor
<1> QED
  BY <1>1, <1>2, <1>3, WorkerTypes, OneHolderPerKey, PTL DEF Spec, CursorOnlyAdvances

-----------------------------------------------------------------------------
(* What L2 has read.                                                       *)

\* A step that is not the end of an L2 run leaves l2_last_extraction_time alone;
\* at most the state of a session is made or forgotten.
KeepsL2Done ==
  \A s \in Sessions :
    st'[s] # NoState =>
      st'[s].l2done = 0 \/ (st[s] # NoState /\ st'[s].l2done = st[s].l2done)

LEMMA CascadeKeepsL2Done ==
  ASSUME TypeOK, NEW s \in Sessions, L1Cascade(s)
  PROVE  KeepsL2Done
<1>1. Current(s) \in StateRec
  BY CurrentTypes
<1>2. [Current(s) EXCEPT !.count = 0].l2done = Current(s).l2done
  BY <1>1 DEF StateRec
<1>3. st'[s] = [Current(s) EXCEPT !.count = 0] /\ \A z \in Sessions : z # s => st'[z] = st[z]
  BY DEF TypeOK, L1Cascade
<1> QED
  BY <1>2, <1>3, CurrentTypes DEF KeepsL2Done

LEMMA NotifyKeepsL2Done ==
  ASSUME TypeOK, NEW s \in Sessions, Notify(s)
  PROVE  KeepsL2Done
<1> DEFINE n == Current(s).count + 1
           warm == IF Warmup THEN WarmedUp(WarmOf(s)) ELSE Current(s).warm
<1>1. Current(s) \in StateRec
  BY CurrentTypes
<1>2. \/ st' = [st EXCEPT ![s] = [Current(s) EXCEPT !.count = 0, !.warm = warm]]
      \/ st' = [st EXCEPT ![s] = [Current(s) EXCEPT !.count = n]]
  BY DEF Notify
<1> HIDE DEF n, warm
<1>3. /\ [Current(s) EXCEPT !.count = 0, !.warm = warm].l2done = Current(s).l2done
      /\ [Current(s) EXCEPT !.count = n].l2done = Current(s).l2done
  BY <1>1 DEF StateRec
<1>4. st'[s].l2done = Current(s).l2done /\ \A z \in Sessions : z # s => st'[z] = st[z]
  BY <1>2, <1>3 DEF TypeOK
<1> QED
  BY <1>4, CurrentTypes DEF KeepsL2Done

\* Stores and states stay, or states lose what L2 did; no run of L2 starts.
LEMMA ReadFrame ==
  ASSUME TypeOK, ReadInv, KeepsL2Done, read' = read,
         \A c \in Coroutines : coro'[c].stage = "run" /\ coro'[c].task.type = "L2" =>
           /\ coro'[c] = coro[c]
           /\ out'[coro[c].task.s] = out[coro[c].task.s]
  PROVE  ReadInv'
<1>1. \A s \in Sessions : read[s] \in Nat
  BY DEF TypeOK
<1> QED
  BY <1>1 DEF ReadInv, NothingUnread, KeepsL2Done

LEMMA NothingRunsAfter ==
  ASSUME NEW c \in Coroutines, OnlyCoro(c), coro'[c].stage # "run", out' = out
  PROVE  \A d \in Coroutines : coro'[d].stage = "run" /\ coro'[d].task.type = "L2" =>
           coro'[d] = coro[d] /\ out'[coro[d].task.s] = out[coro[d].task.s]
  BY DEF OnlyCoro

LEMMA SameL2Done == st' = st => KeepsL2Done
  BY DEF KeepsL2Done

\* An L2 run is given all that is stored.
LEMMA StartsKeepRead ==
  ASSUME TypeOK, ReadInv, NEW c \in Coroutines, NEW t, NEW q,
         Picked(c, t, q), Starts(c, t, q)
  PROVE  ReadInv'
<1>1. /\ OnlyCoro(c) /\ t.s \in Sessions /\ out' = out
      /\ \A d \in Coroutines : coro[d].stage # "idle" => coro[d].task.s \in Sessions
  BY StartsTakes, TaskFields, CoroTypes DEF Picked, Starts, store, TypeOK
<1>2. CASE L1Skips(c, t, q) \/ FlushRuns(c, t, q)
  <2>1. coro'[c].stage # "run"
    BY <1>2, IdleTypes DEF L1Skips, FlushRuns, Done, TypeOK
  <2>2. KeepsL2Done /\ read' = read
    BY <1>1, <1>2, CascadeKeepsL2Done DEF L1Skips, FlushRuns
  <2> QED
    BY <1>1, <2>1, <2>2, NothingRunsAfter, ReadFrame
<1>3. CASE L1Reads(c, t, q) \/ L3Reads(c, t, q)
  <2>1. coro'[c].task = t
    BY <1>3, StartsTypes, StartsTakes DEF L1Reads, L3Reads, Runs, TypeOK
  <2>2. t.type # "L2" /\ st' = st /\ read' = read
    BY <1>3 DEF L1Reads, L3Reads
  <2> QED
    BY <1>1, <2>1, <2>2, SameL2Done, ReadFrame DEF OnlyCoro
<1>4. CASE L2Reads(c, t, q)
  <2>1. coro'[c].task = t /\ st' = st
    BY <1>4 DEF L2Reads, Runs, TypeOK
  <2>2. read' = [read EXCEPT ![t.s] = IF @ < out[t.s] THEN out[t.s] ELSE @]
    BY <1>4 DEF L2Reads
  <2>3. \A s \in Sessions : read[s] \in Nat /\ out[s] \in Nat
    BY DEF TypeOK, StoreOK
  <2>4. out[t.s] <= read'[t.s] /\ \A s \in Sessions : read[s] <= read'[s] /\ read'[s] \in Nat
    BY <1>1, <2>2, <2>3 DEF TypeOK
  <2>5. ASSUME NEW s \in Sessions, st'[s] # NoState
        PROVE  st'[s].l2done <= read'[s]
    <3>1. st[s].l2done <= read[s]
      BY <2>1, <2>5 DEF ReadInv, NothingUnread
    <3>2. st[s].l2done \in Nat
      BY <2>1, <2>5 DEF TypeOK, StateRec
    <3> QED
      BY <2>1, <2>3, <2>4, <3>1, <3>2
  <2>6. ASSUME NEW d \in Coroutines, coro'[d].stage = "run", coro'[d].task.type = "L2"
        PROVE  out'[coro'[d].task.s] <= read'[coro'[d].task.s]
    <3>1. CASE d = c
      BY <1>1, <2>1, <2>4, <3>1
    <3>2. CASE d # c
      <4>1. coro'[d] = coro[d] /\ coro[d].task.s \in Sessions
        BY <1>1, <2>6, <3>2 DEF OnlyCoro
      <4>2. out[coro[d].task.s] <= read[coro[d].task.s]
        BY <2>6, <4>1 DEF ReadInv
      <4> QED
        BY <1>1, <2>3, <2>4, <4>1, <4>2
    <3> QED
      BY <3>1, <3>2
  <2> QED
    BY <2>5, <2>6 DEF ReadInv, NothingUnread
<1> QED
  BY <1>2, <1>3, <1>4 DEF Starts

\* A run that stores records has the lock of the session: no run of L2 misses them.
LEMMA StoringKeepsRead ==
  ASSUME TypeOK, LocksOK, ReadInv, NEW c \in Coroutines, NEW kept \in 0..1,
         coro[c].stage = "run", kept = 0 \/ coro[c].task.type = "L1",
         out' = [out EXCEPT ![coro[c].task.s] = @ + kept],
         OnlyCoro(c), coro'[c].stage # "run", KeepsL2Done, read' = read
  PROVE  ReadInv'
<1>1. out \in [Sessions -> Nat] /\ coro[c].task.s \in Sessions
  BY CoroTypes, TaskFields DEF TypeOK, StoreOK
<1>2. kept = 0 => out' = out
  BY <1>1
<1>3. ASSUME NEW d \in Coroutines, coro'[d].stage = "run", coro'[d].task.type = "L2"
      PROVE  coro'[d] = coro[d] /\ out'[coro[d].task.s] = out[coro[d].task.s]
  <2>1. d # c /\ coro'[d] = coro[d]
    BY <1>3 DEF OnlyCoro
  <2>2. kept # 0 => coro[d].task.s # coro[c].task.s
    BY <1>3, <2>1, Exclusive DEF Holds, Busy
  <2>3. coro[d].task.s \in Sessions
    BY <1>3, <2>1, CoroTypes, TaskFields DEF TypeOK
  <2> QED
    BY <1>1, <1>2, <2>1, <2>2, <2>3
<1> QED
  BY <1>3, ReadFrame

LEMMA L2EndsKeepsRead ==
  ASSUME TypeOK, ReadInv, NEW c \in Coroutines, NEW success \in BOOLEAN, L2Ends(c, success)
  PROVE  ReadInv'
<1> DEFINE s == coro[c].task.s
<1>1. Running(c, "L2") /\ Release(c) /\ out' = out /\ read' = read
  BY DEF L2Ends
<1>2. OnlyCoro(c) /\ coro'[c].stage # "run" /\ s \in Sessions
  BY <1>1, ReleaseStops, RunTypes
<1>3. out[s] <= read[s]
  BY <1>1 DEF ReadInv, Running
<1>4. st' = [st EXCEPT ![s] = [Current(s) EXCEPT !.l2done = out[s]]]
  BY DEF L2Ends
<1>5. st'[s].l2done = out[s] /\ \A z \in Sessions : z # s => st'[z] = st[z]
  BY <1>2, <1>4, CurrentTypes DEF TypeOK, StateRec
<1>6. NothingUnread'
  BY <1>1, <1>3, <1>5 DEF ReadInv, NothingUnread
<1> QED
  BY <1>1, <1>2, <1>6, NothingRunsAfter DEF ReadInv

LEMMA CoroKeepsRead ==
  ASSUME TypeOK, LocksOK, ReadInv, NEW c \in Coroutines, CoroStep(c)
  PROVE  ReadInv'
<1>1. ASSUME OnlyCoro(c), coro'[c].stage # "run", out' = out, read' = read, st' = st
      PROVE  ReadInv'
  BY <1>1, NothingRunsAfter, SameL2Done, ReadFrame
<1>2. CASE \E t, q : Picked(c, t, q) /\ Starts(c, t, q)
  BY <1>2, StartsKeepRead
<1>3. CASE Waits(c) \/ WaitTimesOut(c)
  <2>1. OnlyCoro(c) /\ coro'[c].stage # "run"
    BY <1>3, WaitsIdles, IdleTypes
  <2> QED
    BY <1>1, <1>3, <2>1 DEF Waits, WaitTimesOut, store, backend
<1>4. CASE Retries(c) \/ L2Skips(c) \/ L3Ends(c)
  <2>1. Release(c) /\ out' = out /\ read' = read /\ st' = st
    BY <1>4 DEF Retries, L2Skips, L3Ends, store
  <2> QED
    BY <1>1, <2>1, ReleaseStops
<1>5. CASE \E success \in BOOLEAN : L2Ends(c, success)
  BY <1>5, L2EndsKeepsRead
<1>6. ASSUME NEW kept \in 0..1, L1Ends(c, kept)
      PROVE  ReadInv'
  <2>1. Running(c, "L1") /\ Release(c) /\ L1Cascade(coro[c].task.s) /\ read' = read
    BY <1>6 DEF L1Ends
  <2>2. coro[c].task.s \in Sessions
    BY <2>1, RunTypes
  <2>3. OnlyCoro(c) /\ coro'[c].stage # "run" /\ KeepsL2Done
    BY <2>1, <2>2, ReleaseStops, CascadeKeepsL2Done
  <2>4. out' = [out EXCEPT ![coro[c].task.s] = @ + kept]
    BY <1>6 DEF L1Ends
  <2> QED
    BY <2>1, <2>3, <2>4, StoringKeepsRead DEF Running
<1>7. ASSUME NEW kept \in 0..1, Fails(c, kept) \/ DeadLetter(c, kept)
      PROVE  ReadInv'
  <2>1. Throws(c, kept)
    BY <1>7 DEF Fails, DeadLetter
  <2>2. /\ coro[c].stage = "run" /\ (kept = 0 \/ coro[c].task.type = "L1")
        /\ out' = [out EXCEPT ![coro[c].task.s] = @ + kept]
        /\ st' = st /\ read' = read
    BY <2>1 DEF Throws
  <2>3. OnlyCoro(c) /\ coro'[c].stage # "run"
    BY <1>7, FailsBacksOff, ReleaseStops DEF DeadLetter
  <2> QED
    BY <2>2, <2>3, SameL2Done, StoringKeepsRead
<1> QED
  BY <1>2, <1>3, <1>4, <1>5, <1>6, <1>7 DEF CoroStep

LEMMA StepKeepsRead ==
  ASSUME TypeOK, LocksOK, ReadInv, [Next]_vars
  PROVE  ReadInv'
<1>1. ASSUME out' = out, read' = read, coro' = coro, KeepsL2Done
      PROVE  ReadInv'
  BY <1>1, ReadFrame
<1>2. ASSUME NEW s \in Sessions, SessionStep(s)
      PROVE  ReadInv'
  <2>1. CASE Notify(s)
    BY <1>1, <2>1, NotifyKeepsL2Done DEF Notify, store
  <2>2. CASE ~Notify(s)
    BY <1>1, <1>2, <2>2, SameL2Done
    DEF SessionStep, Capture, NotifyLost, IdleFires, L2Fires, SessionEnds, store, backend
  <2> QED
    BY <2>1, <2>2
<1>3. CASE Stop
  <2>1. \A c \in Coroutines : coro'[c].stage # "run"
    BY <1>3, IdleTypes DEF Stop
  <2>2. \A s \in Sessions : st'[s] = NoState
    BY <1>3 DEF Stop
  <2> QED
    BY <2>1, <2>2 DEF ReadInv, NothingUnread
<1>4. CASE Boot \/ UNCHANGED vars
  BY <1>1, <1>4, SameL2Done DEF Boot, vars, store, backend
<1> QED
  BY <1>2, <1>3, <1>4, NextSteps, CoroKeepsRead

\* No record is behind l2_last_extraction_time that no L2 run of the session has
\* been given, whichever coroutines run its tasks and whatever fails.
THEOREM NoneUnread == Spec => []NothingUnread
<1>1. Init => ReadInv
  BY IdleTypes DEF Init, ReadInv, NothingUnread
<1>2. TypeOK /\ LocksOK /\ ReadInv /\ [Next]_vars => ReadInv'
  BY StepKeepsRead
<1>3. ReadInv => NothingUnread
  BY DEF ReadInv
<1> QED
  BY <1>1, <1>2, <1>3, WorkerTypes, OneHolderPerKey, PTL DEF Spec

-----------------------------------------------------------------------------
(* Rounds that are counted.                                                *)

\* Nothing the trigger of a session may be is taken away.
KeepsTrigger(s) ==
  /\ s \in idle => s \in idle'
  /\ HasTask(queue, s, RoundTypes) => HasTask(queue', s, RoundTypes)
  /\ \A c \in Coroutines : CoroHasRounds(c, s) => CoroHasRounds(c, s)'
  /\ <<s, "L1">> \in lost => <<s, "L1">> \in lost'

LEMMA TriggerKept ==
  ASSUME NEW s \in Sessions, KeepsTrigger(s), Triggered(s)
  PROVE  Triggered(s)'
  BY DEF KeepsTrigger, Triggered

\* The others' coroutines, and that of c while it has a task of rounds.
LEMMA CoroRoundsKept ==
  ASSUME NEW c \in Coroutines, OnlyCoro(c), NEW s \in Sessions,
         CoroHasRounds(c, s) => CoroHasRounds(c, s)'
  PROVE  \A d \in Coroutines : CoroHasRounds(d, s) => CoroHasRounds(d, s)'
  BY DEF OnlyCoro, CoroHasRounds

\* A step that leaves the rounds of the session as they are, and its triggers.
LEMMA RoundsKept ==
  ASSUME RoundsInv, NEW s \in Sessions, up, Flushable(s)' => Flushable(s), KeepsTrigger(s)
  PROVE  up' /\ Flushable(s)' => Triggered(s)'
  BY TriggerKept DEF RoundsInv

\* A run of L1, a flush and a timer that finds nothing zero the count.
LEMMA CascadeCounts ==
  ASSUME TypeOK, NEW s \in Sessions, L1Cascade(s)
  PROVE  /\ ~Flushable(s)'
         /\ \A z \in Sessions : z # s => Flushable(z)' = Flushable(z)
<1>1. Current(s) \in StateRec
  BY CurrentTypes
<1>2. [Current(s) EXCEPT !.count = 0].count = 0
  BY <1>1 DEF StateRec
<1> QED
  BY <1>2 DEF L1Cascade, Flushable, TypeOK

LEMMA StartsKeepRounds ==
  ASSUME TypeOK, RoundsInv, NEW c \in Coroutines, NEW t, NEW q,
         Picked(c, t, q), Starts(c, t, q), NEW s \in Sessions
  PROVE  up' /\ Flushable(s)' => Triggered(s)'
<1>1. OnlyCoro(c) /\ t \in TaskSet /\ t.s \in Sessions /\ q \in Seq(TaskSet) /\ up /\ up' = up
  BY StartsTakes, TaskFields DEF Picked, Starts
<1>2. /\ HasTask(queue, s, RoundTypes) =>
           HasTask(q, s, RoundTypes) \/ (t.s = s /\ t.type \in RoundTypes)
      /\ CoroHasRounds(c, s) => t.s = s /\ t.type \in RoundTypes
  BY DEF Picked, CoroHasRounds
<1>3. CASE L1Skips(c, t, q) \/ FlushRuns(c, t, q)
  <2>1. CASE s = t.s
    BY <1>1, <1>3, <2>1, CascadeCounts DEF L1Skips, FlushRuns
  <2>2. CASE s # t.s
    <3>1. Flushable(s)' => Flushable(s)
      BY <1>1, <1>3, <2>2, CascadeCounts DEF L1Skips, FlushRuns
    <3>2. Task("flush", t.s) \in TaskSet
      BY <1>1, TaskTypes DEF Types
    <3>3. HasTask(q, s, RoundTypes) => HasTask(queue', s, RoundTypes)
      BY <1>1, <1>3, <3>2, EnqueueHas DEF L1Skips, FlushRuns
    <3>4. /\ s \in idle => s \in idle'
          /\ <<s, "L1">> \in lost => <<s, "L1">> \in lost'
      BY <1>3, <2>2 DEF L1Skips, FlushRuns
    <3>5. \A d \in Coroutines : CoroHasRounds(d, s) => CoroHasRounds(d, s)'
      BY <1>1, <1>2, <2>2, CoroRoundsKept
    <3>6. KeepsTrigger(s)
      BY <1>2, <2>2, <3>3, <3>4, <3>5 DEF KeepsTrigger
    <3> QED
      BY <1>1, <3>1, <3>6, RoundsKept
  <2> QED
    BY <2>1, <2>2
<1>4. CASE L1Reads(c, t, q) \/ L2Reads(c, t, q) \/ L3Reads(c, t, q)
  <2>1. st' = st /\ idle' = idle /\ lost' = lost /\ queue' = q
    BY <1>4 DEF L1Reads, L2Reads, L3Reads
  <2>2. coro'[c].stage = "run" /\ coro'[c].task = t
    <3>1. CASE coro'[c] = Idle /\ (L1Skips(c, t, q) \/ FlushRuns(c, t, q))
      BY <1>4, <3>1, IdleTypes DEF L1Skips, FlushRuns, L1Reads, L2Reads, L3Reads, Runs, TypeOK
    <3> QED
      BY <3>1, StartsTypes
  <2>3. CASE t.s = s /\ t.type \in RoundTypes
    BY <2>2, <2>3 DEF Triggered, CoroHasRounds
  <2>4. CASE ~(t.s = s /\ t.type \in RoundTypes)
    <3>1. \A d \in Coroutines : CoroHasRounds(d, s) => CoroHasRounds(d, s)'
      BY <1>1, <1>2, <2>4, CoroRoundsKept
    <3>2. KeepsTrigger(s)
      BY <1>2, <2>1, <2>4, <3>1 DEF KeepsTrigger
    <3>3. Flushable(s)' => Flushable(s)
      BY <2>1 DEF Flushable
    <3> QED
      BY <1>1, <3>2, <3>3, RoundsKept
  <2> QED
    BY <2>3, <2>4
<1> QED
  BY <1>3, <1>4 DEF Starts

\* A run that is no run of rounds, and the queue loses nothing.
LEMMA OtherRunKeepsRounds ==
  ASSUME RoundsInv, NEW c \in Coroutines, OnlyCoro(c), up,
         coro[c].task.type \notin RoundTypes, NEW s \in Sessions,
         Flushable(s)' => Flushable(s),
         HasTask(queue, s, RoundTypes) => HasTask(queue', s, RoundTypes),
         idle \subseteq idle', <<s, "L1">> \in lost => <<s, "L1">> \in lost'
  PROVE  up' /\ Flushable(s)' => Triggered(s)'
<1>1. \A d \in Coroutines : CoroHasRounds(d, s) => CoroHasRounds(d, s)'
  BY CoroRoundsKept DEF CoroHasRounds
<1>2. KeepsTrigger(s)
  BY <1>1 DEF KeepsTrigger
<1> QED
  BY <1>2, RoundsKept

LEMMA WaitingKeepsRounds ==
  ASSUME TypeOK, RoundsInv, NEW c \in Coroutines, Waits(c) \/ WaitTimesOut(c),
         NEW s \in Sessions
  PROVE  up' /\ Flushable(s)' => Triggered(s)'
<1>1. OnlyCoro(c) /\ up /\ st' = st /\ idle' = idle
  BY WaitsIdles DEF Waits, WaitTimesOut, backend
<1>2. Flushable(s)' = Flushable(s)
  BY <1>1 DEF Flushable
<1>3. CASE Waits(c)
  <2> DEFINE t == Head(queue)
  <2>1. coro'[c].stage = "waiting" /\ coro'[c].task = t /\ queue' = Tail(queue) /\ lost' = lost
    <3>1. coro'[c] = [stage |-> "waiting", task |-> t]
      BY <1>3, WaitsIdles
    <3>2. queue' = Tail(queue) /\ lost' = lost
      BY <1>3 DEF Waits
    <3> QED
      BY <3>1, <3>2
  <2>2. HasTask(queue, s, RoundTypes) =>
          HasTask(queue', s, RoundTypes) \/ (t.s = s /\ t.type \in RoundTypes)
    BY <1>3, <2>1, TailHas DEF Waits, TypeOK
  <2>3. CASE t.s = s /\ t.type \in RoundTypes
    BY <2>1, <2>3 DEF Triggered, CoroHasRounds
  <2>4. CASE ~(t.s = s /\ t.type \in RoundTypes)
    <3>1. ~CoroHasRounds(c, s)
      BY <1>3 DEF Waits, CoroHasRounds
    <3>2. \A d \in Coroutines : CoroHasRounds(d, s) => CoroHasRounds(d, s)'
      BY <1>1, <3>1, CoroRoundsKept
    <3>3. KeepsTrigger(s)
      BY <1>1, <2>1, <2>2, <2>4, <3>2 DEF KeepsTrigger
    <3> QED
      BY <1>1, <1>2, <3>3, RoundsKept
  <2> QED
    BY <2>3, <2>4
<1>4. CASE WaitTimesOut(c)
  <2>1. queue' = queue /\ GiveUp(coro[c].task)
    BY <1>4 DEF WaitTimesOut, backend
  <2>2. CASE CoroHasRounds(c, s)
    <3>1. <<s, "L1">> \in lost'
      BY <2>1, <2>2 DEF GiveUp, CoroHasRounds, RoundTypes
    <3> QED
      BY <3>1 DEF Triggered
  <2>3. CASE ~CoroHasRounds(c, s)
    <3>1. \A d \in Coroutines : CoroHasRounds(d, s) => CoroHasRounds(d, s)'
      BY <1>1, <2>3, CoroRoundsKept
    <3>2. KeepsTrigger(s)
      BY <1>1, <2>1, <3>1 DEF KeepsTrigger, GiveUp
    <3> QED
      BY <1>1, <1>2, <3>2, RoundsKept
  <2> QED
    BY <2>2, <2>3
<1> QED
  BY <1>3, <1>4

LEMMA FailingKeepsRounds ==
  ASSUME TypeOK, RoundsInv, NEW c \in Coroutines, NEW kept \in 0..1,
         Fails(c, kept) \/ DeadLetter(c, kept), NEW s \in Sessions
  PROVE  up' /\ Flushable(s)' => Triggered(s)'
<1>1. Throws(c, kept) /\ up /\ st' = st /\ queue' = queue /\ coro[c].stage = "run"
  BY DEF Fails, DeadLetter, Throws
<1>2. Flushable(s)' = Flushable(s)
  BY <1>1 DEF Flushable
<1>3. CASE Fails(c, kept)
  <2>1. /\ OnlyCoro(c) /\ coro'[c].stage = "backoff" /\ coro'[c].task = coro[c].task
        /\ idle' = idle /\ lost' = lost
    BY <1>3, FailsBacksOff DEF Fails
  <2>2. \A d \in Coroutines : CoroHasRounds(d, s) => CoroHasRounds(d, s)'
    BY <2>1, CoroRoundsKept DEF CoroHasRounds
  <2>3. KeepsTrigger(s)
    BY <1>1, <2>1, <2>2 DEF KeepsTrigger
  <2> QED
    BY <1>1, <1>2, <2>3, RoundsKept
<1>4. CASE DeadLetter(c, kept)
  <2>1. /\ OnlyCoro(c)
        /\ idle' = idle \ {coro[c].task.s}
        /\ lost' = lost \cup ({coro[c].task.s} \X {"L1", "L2", coro[c].task.type})
    BY <1>4, ReleaseStops DEF DeadLetter
  <2>2. CASE coro[c].task.s = s
    BY <2>1, <2>2 DEF Triggered
  <2>3. CASE coro[c].task.s # s
    <3>1. \A d \in Coroutines : CoroHasRounds(d, s) => CoroHasRounds(d, s)'
      BY <2>1, <2>3, CoroRoundsKept DEF CoroHasRounds
    <3>2. KeepsTrigger(s)
      BY <1>1, <2>1, <2>3, <3>1 DEF KeepsTrigger
    <3> QED
      BY <1>1, <1>2, <3>2, RoundsKept
  <2> QED
    BY <2>2, <2>3
<1> QED
  BY <1>3, <1>4

\* The task is in the queue before its coroutine is idle.
LEMMA RetriesKeepsRounds ==
  ASSUME TypeOK, RoundsInv, NEW c \in Coroutines, Retries(c), NEW s \in Sessions
  PROVE  up' /\ Flushable(s)' => Triggered(s)'
<1> DEFINE again == [coro[c].task EXCEPT !.retry = @ + 1]
<1>1. coro[c].task \in TaskSet
  BY CoroTypes DEF Retries, TypeOK
<1>2. again \in TaskSet /\ again.s = coro[c].task.s /\ again.type = coro[c].task.type
  BY <1>1, RetryTypes
<1>3. up /\ st' = st /\ idle' = idle /\ lost' = lost /\ queue' = Enqueue(queue, again)
  BY DEF Retries
<1> HIDE DEF again
<1>4. /\ HasTask(queue, s, RoundTypes) => HasTask(queue', s, RoundTypes)
      /\ CoroHasRounds(c, s) => HasTask(queue', s, RoundTypes)
  BY <1>2, <1>3, EnqueueHas DEF TypeOK, CoroHasRounds
<1>5. OnlyCoro(c)
  BY ReleaseStops DEF Retries
<1>6. Flushable(s)' = Flushable(s)
  BY <1>3 DEF Flushable
<1>7. CASE CoroHasRounds(c, s)
  BY <1>4, <1>7 DEF Triggered
<1>8. CASE ~CoroHasRounds(c, s)
  <2>1. \A d \in Coroutines : CoroHasRounds(d, s) => CoroHasRounds(d, s)'
    BY <1>5, <1>8, CoroRoundsKept
  <2>2. KeepsTrigger(s)
    BY <1>3, <1>4, <2>1 DEF KeepsTrigger
  <2> QED
    BY <1>3, <1>6, <2>2, RoundsKept
<1> QED
  BY <1>7, <1>8

LEMMA L1EndsKeepsRounds ==
  ASSUME TypeOK, RoundsInv, NEW c \in Coroutines, NEW kept \in 0..1, L1Ends(c, kept),
         NEW s \in Sessions
  PROVE  up' /\ Flushable(s)' => Triggered(s)'
<1> DEFINE z == coro[c].task.s
<1>1. Running(c, "L1") /\ Release(c) /\ L1Cascade(z) /\ up /\ lost' = lost
  BY DEF L1Ends, Running
<1>2. z \in Sessions /\ OnlyCoro(c)
  BY <1>1, RunTypes, ReleaseStops
<1>3. CASE s = z
  BY <1>1, <1>2, <1>3, CascadeCounts
<1>4. CASE s # z
  <2>1. Flushable(s)' = Flushable(s)
    BY <1>1, <1>2, <1>4, CascadeCounts
  <2>2. Task("L1", z) \in TaskSet
    BY <1>2, TaskTypes DEF Types
  <2>3. HasTask(queue, s, RoundTypes) => HasTask(queue', s, RoundTypes)
    BY <2>2, EnqueueHas DEF L1Ends, TypeOK
  <2>4. s \in idle => s \in idle'
    BY DEF L1Ends
  <2>5. \A d \in Coroutines : CoroHasRounds(d, s) => CoroHasRounds(d, s)'
    BY <1>2, <1>4, CoroRoundsKept DEF CoroHasRounds
  <2>6. KeepsTrigger(s)
    BY <1>1, <2>3, <2>4, <2>5 DEF KeepsTrigger
  <2> QED
    BY <1>1, <2>1, <2>6, RoundsKept
<1> QED
  BY <1>3, <1>4

LEMMA L2EndsKeepsRounds ==
  ASSUME TypeOK, RoundsInv, NEW c \in Coroutines, NEW success \in BOOLEAN,
         L2Ends(c, success), NEW s \in Sessions
  PROVE  up' /\ Flushable(s)' => Triggered(s)'
<1> DEFINE z == coro[c].task.s
<1>1. /\ Running(c, "L2") /\ Release(c) /\ CascadeL3(coro[c].task) /\ up
      /\ idle' = idle /\ lost' = lost \ {<<z, "L3">>}
  BY DEF L2Ends, Running
<1>2. z \in Sessions /\ OnlyCoro(c) /\ coro[c].task \in TaskSet
  BY <1>1, RunTypes, ReleaseStops
<1>3. Flushable(s)' => Flushable(s)
  <2>1. st' = [st EXCEPT ![z] = [Current(z) EXCEPT !.l2done = out[z]]]
    BY DEF L2Ends
  <2>2. [Current(z) EXCEPT !.l2done = out[z]].count = Current(z).count
    BY <1>2, CurrentTypes DEF StateRec
  <2>3. st'[z].count = Current(z).count /\ (s # z => st'[s] = st[s])
    BY <1>2, <2>1, <2>2 DEF TypeOK
  <2> QED
    BY <1>2, <2>3, CurrentTypes DEF Flushable
<1>4. HasTask(queue, s, RoundTypes) => HasTask(queue', s, RoundTypes)
  BY <1>1, <1>2, L3OfTypes, EnqueueHas DEF CascadeL3, TypeOK
<1>5. coro[c].task.type \notin RoundTypes
  BY <1>1 DEF Running, RoundTypes
<1>6. <<s, "L1">> \in lost => <<s, "L1">> \in lost'
  BY <1>1
<1> QED
  BY <1>1, <1>2, <1>3, <1>4, <1>5, <1>6, OtherRunKeepsRounds

LEMMA CoroKeepsRounds ==
  ASSUME TypeOK, RoundsInv, NEW c \in Coroutines, CoroStep(c), NEW s \in Sessions
  PROVE  up' /\ Flushable(s)' => Triggered(s)'
<1>1. CASE L2Skips(c) \/ L3Ends(c)
  <2>1. /\ up /\ Release(c) /\ coro[c].task.type \notin RoundTypes
        /\ st' = st /\ queue' = queue /\ idle' = idle /\ lost \subseteq lost'
    BY <1>1 DEF L2Skips, L3Ends, Running, RoundTypes, GiveUp
  <2>2. Flushable(s)' = Flushable(s)
    BY <2>1 DEF Flushable
  <2> QED
    BY <2>1, <2>2, ReleaseStops, OtherRunKeepsRounds
<1> QED
  BY <1>1, StartsKeepRounds, WaitingKeepsRounds, RetriesKeepsRounds, L1EndsKeepsRounds,
     L2EndsKeepsRounds, FailingKeepsRounds DEF CoroStep

\* Below the threshold a round sets the timer of its session, at it the count is
\* zero again.
LEMMA NotifyKeepsRounds ==
  ASSUME TypeOK, RoundsInv, NEW z \in Sessions, Notify(z), NEW s \in Sessions
  PROVE  up' /\ Flushable(s)' => Triggered(s)'
<1> DEFINE n == Current(z).count + 1
           warm == IF Warmup THEN WarmedUp(WarmOf(z)) ELSE Current(z).warm
<1>1. /\ up /\ coro' = coro
      /\ \/ /\ queue' = Enqueue(queue, Task("L1", z))
            /\ st' = [st EXCEPT ![z] = [Current(z) EXCEPT !.count = 0, !.warm = warm]]
            /\ idle' = idle \ {z}
            /\ lost' = lost \ {<<z, "L1">>}
         \/ /\ st' = [st EXCEPT ![z] = [Current(z) EXCEPT !.count = n]]
            /\ idle' = idle \cup {z}
            /\ queue' = queue /\ lost' = lost
  BY DEF Notify
<1> HIDE DEF n, warm
<1>2. Task("L1", z) \in TaskSet
  BY TaskTypes DEF Types
<1>3. HasTask(queue, s, RoundTypes) => HasTask(queue', s, RoundTypes)
  BY <1>1, <1>2, EnqueueHas DEF TypeOK
<1>4. CASE s # z
  <2>1. Flushable(s)' = Flushable(s)
    BY <1>1, <1>4 DEF Flushable, TypeOK
  <2>2. KeepsTrigger(s)
    BY <1>1, <1>3, <1>4 DEF KeepsTrigger, CoroHasRounds
  <2> QED
    BY <1>1, <2>1, <2>2, RoundsKept
<1>5. CASE s = z
  <2>1. CASE idle' = idle \cup {z}
    BY <1>5, <2>1 DEF Triggered
  <2>2. CASE st' = [st EXCEPT ![z] = [Current(z) EXCEPT !.count = 0, !.warm = warm]]
    <3>1. [Current(z) EXCEPT !.count = 0, !.warm = warm].count = 0
      BY CurrentTypes DEF StateRec
    <3>2. ~Flushable(s)'
      BY <1>5, <2>2, <3>1 DEF Flushable, TypeOK
    <3> QED
      BY <3>2
  <2> QED
    BY <1>1, <2>1, <2>2
<1> QED
  BY <1>4, <1>5

LEMMA SessionKeepsRounds ==
  ASSUME TypeOK, RoundsInv, NEW z \in Sessions, SessionStep(z), NEW s \in Sessions
  PROVE  up' /\ Flushable(s)' => Triggered(s)'
<1>1. ASSUME NEW t \in TaskSet, t.s = z, t.type \in RoundTypes, up,
             queue' = Enqueue(queue, t), idle' = idle \ {z},
             st' = st, coro' = coro, lost' = lost
      PROVE  up' /\ Flushable(s)' => Triggered(s)'
  <2>1. /\ HasTask(queue, s, RoundTypes) => HasTask(queue', s, RoundTypes)
        /\ s = z => HasTask(queue', s, RoundTypes)
    BY <1>1, EnqueueHas DEF TypeOK
  <2>2. CASE s = z
    BY <2>1, <2>2 DEF Triggered
  <2>3. CASE s # z
    <3>1. Flushable(s)' = Flushable(s) /\ KeepsTrigger(s)
      BY <1>1, <2>1, <2>3 DEF Flushable, KeepsTrigger, CoroHasRounds
    <3> QED
      BY <1>1, <3>1, RoundsKept
  <2> QED
    BY <2>2, <2>3
<1>2. CASE IdleFires(z)
  <2>1. TimerTask("L1", z) \in TaskSet /\ TimerTask("L1", z).s = z
    BY TaskTypes DEF Types
  <2>2. TimerTask("L1", z).type \in RoundTypes
    BY TaskTypes DEF Types, RoundTypes
  <2> QED
    BY <1>1, <1>2, <2>1, <2>2 DEF IdleFires
<1>3. CASE SessionEnds(z)
  <2>1. Task("flush", z) \in TaskSet /\ Task("flush", z).s = z
    BY TaskTypes DEF Types
  <2>2. Task("flush", z).type \in RoundTypes
    BY TaskTypes DEF Types, RoundTypes
  <2> QED
    BY <1>1, <1>3, <2>1, <2>2 DEF SessionEnds
<1>4. CASE L2Fires(z)
  <2>1. TimerTask("L2", z) \in TaskSet
    BY TaskTypes DEF Types
  <2>2. HasTask(queue, s, RoundTypes) => HasTask(queue', s, RoundTypes)
    BY <1>4, <2>1, EnqueueHas DEF L2Fires, TypeOK
  <2>3. KeepsTrigger(s) /\ Flushable(s)' = Flushable(s) /\ up
    BY <1>4, <2>2 DEF L2Fires, KeepsTrigger, CoroHasRounds, Flushable
  <2> QED
    BY <2>3, RoundsKept
<1>5. CASE Capture(z) \/ NotifyLost(z)
  <2>1. up' = up /\ backend' = backend /\ coro' = coro /\ lost' = lost
    BY <1>5 DEF Capture, NotifyLost
  <2>2. KeepsTrigger(s) /\ Flushable(s)' = Flushable(s)
    BY <2>1 DEF backend, KeepsTrigger, CoroHasRounds, Flushable
  <2> QED
    BY <2>1, <2>2, RoundsKept
<1> QED
  BY <1>2, <1>3, <1>4, <1>5, NotifyKeepsRounds DEF SessionStep

LEMMA StepKeepsRounds ==
  ASSUME TypeOK, DownIsEmpty, RoundsInv, [Next]_vars
  PROVE  RoundsInv'
<1>1. CASE Stop
  BY <1>1 DEF Stop, RoundsInv
<1>2. CASE Boot
  BY <1>2 DEF Boot, backend, DownIsEmpty, RoundsInv, Flushable
<1>3. CASE UNCHANGED vars
  BY <1>3 DEF vars, backend, RoundsInv, Flushable, Triggered, CoroHasRounds
<1> QED
  BY <1>1, <1>2, <1>3, NextSteps, CoroKeepsRounds, SessionKeepsRounds DEF RoundsInv

\* The trigger of the session is what CountedHasTrigger asks for.
LEMMA RoundsInvSuffices ==
  ASSUME TypeOK, RoundsInv
  PROVE  CountedHasTrigger
<1> SUFFICES ASSUME NEW s \in Sessions, Triggered(s)
             PROVE  s \in idle \/ Ahead(s, {"L1", "flush"}) \/ <<s, "L1">> \in lost
  BY DEF RoundsInv, CountedHasTrigger
<1>1. HasTask(queue, s, RoundTypes) => Ahead(s, {"L1", "flush"})
  BY DEF HasTask, Ahead, Tasks, RoundTypes
<1>2. ASSUME NEW c \in Coroutines, CoroHasRounds(c, s)
      PROVE  Ahead(s, {"L1", "flush"})
  BY <1>2 DEF CoroHasRounds, Ahead, Tasks, RoundTypes
<1> QED
  BY <1>1, <1>2 DEF Triggered

\* A Gateway that is down has no state of a session in its backend and no task in
\* a coroutine: what the next boot finds is what stop() leaves in the stores.
THEOREM DownIsForgotten == Spec => []DownIsEmpty
<1>1. Init => DownIsEmpty
  BY DEF Init, DownIsEmpty
<1>2. TypeOK /\ DownIsEmpty /\ [Next]_vars => DownIsEmpty'
  BY StepKeepsDownEmpty
<1> QED
  BY <1>1, <1>2, WorkerTypes, PTL DEF Spec

\* Rounds that are counted have a timer or a task of their session ahead of them
\* unless one was given up, for any number of coroutines, retries and boots.
THEOREM RoundsAreTriggered == Spec => []CountedHasTrigger
<1>1. Init => RoundsInv
  BY DEF Init, RoundsInv
<1>2. TypeOK /\ DownIsEmpty /\ RoundsInv /\ [Next]_vars => RoundsInv'
  BY StepKeepsRounds
<1>3. TypeOK /\ RoundsInv => CountedHasTrigger
  BY RoundsInvSuffices
<1> QED
  BY <1>1, <1>2, <1>3, WorkerTypes, DownIsForgotten, PTL DEF Spec

-----------------------------------------------------------------------------
(* Scenes the persona does not reflect.                                    *)

Mine(c, s) == WillSee(c, s) /\ coro[c].task.s = s

\* A step that takes away no L3 task of the session and lets no run of L3 read
\* older scenes, nor changes what it compares.
LEMMA ReflectedKept ==
  ASSUME NEW s \in Sessions, Reflected(s), up,
         L2HasRun(s)' => L2HasRun(s),
         <<s, "L3">> \in lost => <<s, "L3">> \in lost',
         scenes'[s] = scenes[s], persona'[s] = persona[s],
         OwnL3(s) => OwnL3(s)',
         \A c \in Coroutines : ReadOlder(c, s)' => ReadOlder(c, s)
  PROVE  Reflected(s)'
  BY DEF Reflected

LEMMA OwnL3Kept ==
  ASSUME NEW s \in Sessions, HasTask(queue, s, {"L3"}) => HasTask(queue', s, {"L3"}),
         \A c \in Coroutines : Mine(c, s) => Mine(c, s)'
  PROVE  OwnL3(s) => OwnL3(s)'
  BY DEF OwnL3, Mine

\* A coroutine whose task is of another kind.
LEMMA OtherRunKeepsMine ==
  ASSUME NEW c \in Coroutines, OnlyCoro(c), NEW s \in Sessions, scenes'[s] = scenes[s],
         Mine(c, s) => Mine(c, s)', ReadOlder(c, s)' => ReadOlder(c, s)
  PROVE  /\ \A d \in Coroutines : Mine(d, s) => Mine(d, s)'
         /\ \A d \in Coroutines : ReadOlder(d, s)' => ReadOlder(d, s)
<1>1. ASSUME NEW d \in Coroutines, coro'[d] = coro[d]
      PROVE  (Mine(d, s) => Mine(d, s)') /\ (ReadOlder(d, s)' => ReadOlder(d, s))
  BY <1>1 DEF Mine, WillSee, ReadOlder
<1> QED
  BY <1>1 DEF OnlyCoro

LEMMA KeptL2HasRun ==
  ASSUME TypeOK, KeepsL2Done, NEW s \in Sessions
  PROVE  L2HasRun(s)' => L2HasRun(s)
  BY DEF KeepsL2Done, L2HasRun

LEMMA StartsKeepScenes ==
  ASSUME TypeOK, ScenesInv, NEW c \in Coroutines, NEW t, NEW q,
         Picked(c, t, q), Starts(c, t, q), NEW s \in Sessions
  PROVE  Reflected(s)'
<1>1. /\ OnlyCoro(c) /\ t \in TaskSet /\ t.s \in Sessions /\ q \in Seq(TaskSet) /\ up
      /\ scenes' = scenes /\ persona' = persona
  BY StartsTakes, TaskFields DEF Picked, Starts, store
<1>2. /\ HasTask(queue, s, {"L3"}) => HasTask(q, s, {"L3"}) \/ (t.s = s /\ t.type = "L3")
      /\ Mine(c, s) => t.s = s /\ t.type = "L3"
  BY DEF Picked, Mine, WillSee
<1>3. L2HasRun(s)' => L2HasRun(s)
  <2>1. KeepsL2Done
    BY <1>1, CascadeKeepsL2Done, SameL2Done
    DEF Starts, L1Skips, FlushRuns, L1Reads, L2Reads, L3Reads
  <2> QED
    BY <2>1, KeptL2HasRun
<1>4. lost \subseteq lost'
  BY DEF Starts, L1Skips, FlushRuns, L1Reads, L2Reads, L3Reads
<1>5. HasTask(q, s, {"L3"}) => HasTask(queue', s, {"L3"})
  <2>1. Task("flush", t.s) \in TaskSet
    BY <1>1, TaskTypes DEF Types
  <2> QED
    BY <1>1, <2>1, EnqueueHas DEF Starts, L1Skips, FlushRuns, L1Reads, L2Reads, L3Reads
<1>6. CASE L3Reads(c, t, q)
  <2>1. t.type = "L3" /\ coro'[c] = [stage |-> "run", task |-> t, saw |-> scenes]
    BY <1>6 DEF L3Reads, Runs, TypeOK
  <2>2. t.s = s => Mine(c, s)'
    BY <1>1, <2>1 DEF Mine, WillSee
  <2>3. ~ReadOlder(c, s)'
    BY <1>1, <2>1 DEF ReadOlder
  <2>4. CASE t.s = s
    BY <2>2, <2>4 DEF Reflected, OwnL3, Mine
  <2>5. CASE t.s # s
    BY <1>1, <1>2, <1>3, <1>4, <1>5, <2>3, <2>5, OtherRunKeepsMine, OwnL3Kept, ReflectedKept
    DEF ScenesInv
  <2> QED
    BY <2>4, <2>5
<1>7. CASE ~L3Reads(c, t, q)
  <2>1. t.type # "L3"
    BY <1>7 DEF Starts, L1Skips, FlushRuns, L1Reads, L2Reads
  <2>2. ~ReadOlder(c, s)'
    <3>1. coro'[c] = Idle \/ coro'[c].task = t
      BY StartsTypes
    <3> QED
      BY <2>1, <3>1, IdleTypes DEF ReadOlder
  <2> QED
    BY <1>1, <1>2, <1>3, <1>4, <1>5, <2>1, <2>2, OtherRunKeepsMine, OwnL3Kept, ReflectedKept
    DEF ScenesInv
<1> QED
  BY <1>6, <1>7

\* What it takes of a step that leaves the coroutine without a run, and the queue
\* and the stores with what they had.
LEMMA EndKeepsScenes ==
  ASSUME TypeOK, ScenesInv, NEW c \in Coroutines, OnlyCoro(c), up, coro'[c].stage # "run",
         KeepsL2Done, scenes' = scenes, persona' = persona, NEW s \in Sessions,
         <<s, "L3">> \in lost => <<s, "L3">> \in lost',
         HasTask(queue, s, {"L3"}) => HasTask(queue', s, {"L3"}),
         Mine(c, s) => Mine(c, s)' \/ HasTask(queue', s, {"L3"}) \/ <<s, "L3">> \in lost'
  PROVE  Reflected(s)'
<1>1. ~ReadOlder(c, s)'
  BY DEF ReadOlder
<1>2. CASE HasTask(queue', s, {"L3"}) \/ <<s, "L3">> \in lost'
  BY <1>2 DEF Reflected, OwnL3
<1>3. CASE Mine(c, s) => Mine(c, s)'
  BY <1>1, <1>3, KeptL2HasRun, OtherRunKeepsMine, OwnL3Kept, ReflectedKept DEF ScenesInv
<1> QED
  BY <1>2, <1>3

LEMMA WaitingKeepsScenes ==
  ASSUME TypeOK, ScenesInv, NEW c \in Coroutines, Waits(c) \/ WaitTimesOut(c),
         NEW s \in Sessions
  PROVE  Reflected(s)'
<1>1. /\ OnlyCoro(c) /\ up /\ KeepsL2Done /\ scenes' = scenes /\ persona' = persona
  BY WaitsIdles, SameL2Done DEF Waits, WaitTimesOut, backend, store
<1>2. CASE Waits(c)
  <2> DEFINE t == Head(queue)
  <2>1. coro'[c] = [stage |-> "waiting", task |-> t]
    BY <1>2, WaitsIdles
  <2>2. queue' = Tail(queue) /\ lost' = lost /\ queue # <<>> /\ ~Mine(c, s)
    BY <1>2 DEF Waits, Mine, WillSee
  <2>3. HasTask(queue, s, {"L3"}) =>
          HasTask(queue', s, {"L3"}) \/ (t.s = s /\ t.type = "L3")
    BY <2>2, TailHas DEF TypeOK
  <2>4. CASE t.s = s /\ t.type = "L3"
    <3>1. Mine(c, s)'
      BY <2>1, <2>4 DEF Mine, WillSee
    <3> QED
      BY <3>1 DEF Reflected, OwnL3, Mine
  <2>5. CASE ~(t.s = s /\ t.type = "L3")
    <3>1. coro'[c].stage # "run"
      BY <2>1
    <3> QED
      BY <1>1, <2>2, <2>3, <2>5, <3>1, EndKeepsScenes
  <2> QED
    BY <2>4, <2>5
<1>3. CASE WaitTimesOut(c)
  <2>1. coro'[c].stage # "run"
    BY <1>3, WaitsIdles, IdleTypes
  <2>2. queue' = queue /\ GiveUp(coro[c].task)
    BY <1>3 DEF WaitTimesOut, backend
  <2>3. Mine(c, s) => <<s, "L3">> \in lost'
    BY <2>2 DEF GiveUp, Mine, WillSee
  <2>4. <<s, "L3">> \in lost => <<s, "L3">> \in lost'
    BY <2>2 DEF GiveUp
  <2> QED
    BY <1>1, <2>1, <2>2, <2>3, <2>4, EndKeepsScenes
<1> QED
  BY <1>2, <1>3

LEMMA FailingKeepsScenes ==
  ASSUME TypeOK, ScenesInv, NEW c \in Coroutines, NEW kept \in 0..1,
         Fails(c, kept) \/ DeadLetter(c, kept), NEW s \in Sessions
  PROVE  Reflected(s)'
<1>1. /\ up /\ KeepsL2Done /\ scenes' = scenes /\ persona' = persona /\ queue' = queue
  BY SameL2Done DEF Fails, DeadLetter, Throws
<1>2. CASE Fails(c, kept)
  <2>1. /\ OnlyCoro(c) /\ coro'[c].stage = "backoff" /\ coro'[c].task = coro[c].task
        /\ lost' = lost
    BY <1>2, FailsBacksOff DEF Fails
  <2>2. Mine(c, s) => Mine(c, s)'
    BY <2>1 DEF Mine, WillSee
  <2> QED
    BY <1>1, <2>1, <2>2, EndKeepsScenes
<1>3. CASE DeadLetter(c, kept)
  <2>1. /\ OnlyCoro(c) /\ coro'[c].stage # "run"
        /\ lost' = lost \cup ({coro[c].task.s} \X {"L1", "L2", coro[c].task.type})
    BY <1>3, ReleaseStops DEF DeadLetter
  <2>2. Mine(c, s) => <<s, "L3">> \in lost'
    BY <2>1 DEF Mine, WillSee
  <2> QED
    BY <1>1, <2>1, <2>2, EndKeepsScenes
<1> QED
  BY <1>2, <1>3

LEMMA RetriesKeepsScenes ==
  ASSUME TypeOK, ScenesInv, NEW c \in Coroutines, Retries(c), NEW s \in Sessions
  PROVE  Reflected(s)'
<1> DEFINE again == [coro[c].task EXCEPT !.retry = @ + 1]
<1>1. coro[c].task \in TaskSet
  BY CoroTypes DEF Retries, TypeOK
<1>2. again \in TaskSet /\ again.s = coro[c].task.s /\ again.type = coro[c].task.type
  BY <1>1, RetryTypes
<1>3. /\ up /\ KeepsL2Done /\ scenes' = scenes /\ persona' = persona /\ lost' = lost
      /\ queue' = Enqueue(queue, again)
  BY SameL2Done DEF Retries, store
<1> HIDE DEF again
<1>4. /\ HasTask(queue, s, {"L3"}) => HasTask(queue', s, {"L3"})
      /\ Mine(c, s) => HasTask(queue', s, {"L3"})
  BY <1>2, <1>3, EnqueueHas DEF TypeOK, Mine, WillSee
<1>5. OnlyCoro(c) /\ coro'[c].stage # "run"
  BY ReleaseStops DEF Retries
<1> QED
  BY <1>3, <1>4, <1>5, EndKeepsScenes

LEMMA L1EndsKeepsScenes ==
  ASSUME TypeOK, ScenesInv, NEW c \in Coroutines, NEW kept \in 0..1, L1Ends(c, kept),
         NEW s \in Sessions
  PROVE  Reflected(s)'
<1> DEFINE z == coro[c].task.s
<1>1. /\ Running(c, "L1") /\ Release(c) /\ L1Cascade(z) /\ up
      /\ scenes' = scenes /\ persona' = persona /\ lost' = lost
  BY DEF L1Ends, Running
<1>2. z \in Sessions /\ OnlyCoro(c) /\ coro'[c].stage # "run"
  BY <1>1, RunTypes, ReleaseStops
<1>3. KeepsL2Done
  BY <1>1, <1>2, CascadeKeepsL2Done
<1>4. Task("L1", z) \in TaskSet
  BY <1>2, TaskTypes DEF Types
<1>5. HasTask(queue, s, {"L3"}) => HasTask(queue', s, {"L3"})
  BY <1>4, EnqueueHas DEF L1Ends, TypeOK
<1>6. ~Mine(c, s)
  BY <1>1 DEF Mine, WillSee, Running
<1> QED
  BY <1>1, <1>2, <1>3, <1>5, <1>6, EndKeepsScenes

LEMMA L2SkipsKeepsScenes ==
  ASSUME TypeOK, ScenesInv, NEW c \in Coroutines, L2Skips(c), NEW s \in Sessions
  PROVE  Reflected(s)'
<1>1. /\ Running(c, "L2") /\ Release(c) /\ up /\ KeepsL2Done
      /\ scenes' = scenes /\ persona' = persona /\ queue' = queue /\ lost \subseteq lost'
  BY SameL2Done DEF L2Skips, Running, GiveUp, store
<1>2. OnlyCoro(c) /\ coro'[c].stage # "run" /\ ~Mine(c, s)
  BY <1>1, ReleaseStops DEF Mine, WillSee, Running
<1> QED
  BY <1>1, <1>2, EndKeepsScenes

\* The L3 task of the session is queued behind every run that has read its older
\* scenes.
LEMMA L2EndsKeepsScenes ==
  ASSUME TypeOK, ScenesInv, NEW c \in Coroutines, NEW success \in BOOLEAN,
         L2Ends(c, success), NEW s \in Sessions
  PROVE  Reflected(s)'
<1> DEFINE z == coro[c].task.s
<1>1. /\ Running(c, "L2") /\ Release(c) /\ CascadeL3(coro[c].task) /\ up
      /\ persona' = persona /\ lost' = lost \ {<<z, "L3">>}
  BY DEF L2Ends, Running
<1>2. z \in Sessions /\ OnlyCoro(c) /\ coro[c].task \in TaskSet /\ coro'[c].stage # "run"
  BY <1>1, RunTypes, ReleaseStops
<1>3. /\ HasTask(queue, s, {"L3"}) => HasTask(queue', s, {"L3"})
      /\ s = z => HasTask(queue', s, {"L3"})
  BY <1>1, <1>2, L3OfTypes, EnqueueHas DEF CascadeL3, TypeOK
<1>4. CASE s = z
  BY <1>3, <1>4 DEF Reflected, OwnL3
<1>5. CASE s # z
  <2>1. scenes'[s] = scenes[s] /\ st'[s] = st[s]
    BY <1>2, <1>5 DEF L2Ends, TypeOK, StoreOK
  <2>2. L2HasRun(s)' => L2HasRun(s)
    BY <2>1 DEF L2HasRun
  <2>3. ~Mine(c, s) /\ ~ReadOlder(c, s)'
    BY <1>1, <1>2 DEF Mine, WillSee, Running, ReadOlder
  <2>4. <<s, "L3">> \in lost => <<s, "L3">> \in lost'
    BY <1>1, <1>5
  <2> QED
    BY <1>1, <1>2, <1>3, <2>1, <2>2, <2>3, <2>4, OtherRunKeepsMine, OwnL3Kept, ReflectedKept
    DEF ScenesInv
<1> QED
  BY <1>4, <1>5

\* No other run of L3 has read anything; what this one has read is what the scenes
\* are, or a task of the session follows.
LEMMA L3EndsKeepsScenes ==
  ASSUME TypeOK, LocksOK, ScenesInv, NEW c \in Coroutines, L3Ends(c), NEW s \in Sessions
  PROVE  Reflected(s)'
<1>1. /\ Running(c, "L3") /\ Release(c) /\ persona' = coro[c].saw
      /\ UNCHANGED <<up, scenes, st, queue, lost>>
  BY DEF L3Ends
<1>2. OnlyCoro(c) /\ coro'[c].stage # "run" /\ coro[c] \in RunsL3
  BY <1>1, RunTypes, ReleaseStops
<1>3. \A d \in Coroutines : ~ReadOlder(d, s)'
  <2>1. ASSUME NEW d \in Coroutines, ReadOlder(d, s)'
        PROVE  FALSE
    <3>1. coro'[d].stage = "run" /\ coro'[d].task.type = "L3"
      BY <2>1 DEF ReadOlder
    <3>2. d # c /\ coro[d].stage = "run" /\ coro[d].task.type = "L3"
      BY <1>2, <3>1 DEF OnlyCoro
    <3> QED
      BY <1>1, <3>2, Exclusive DEF Holds, Busy, Running
  <2> QED
    BY <2>1
<1>4. L2HasRun(s)' = L2HasRun(s)
  BY <1>1 DEF L2HasRun
<1>5. ASSUME up, L2HasRun(s), <<s, "L3">> \notin lost, scenes[s] > coro[c].saw[s]
      PROVE  OwnL3(s)'
  <2>1. coro[c].saw[s] # scenes[s]
    BY <1>2, <1>5 DEF RunsL3, TypeOK, StoreOK
  <2>2. ReadOlder(c, s) /\ ~Mine(c, s)
    BY <1>1, <2>1 DEF Running, ReadOlder, Mine, WillSee
  <2>3. OwnL3(s)
    BY <1>5, <2>2 DEF ScenesInv, Reflected
  <2>4. \A d \in Coroutines : Mine(d, s) => Mine(d, s)'
    <3>1. ASSUME NEW d \in Coroutines, d # c, Mine(d, s)
          PROVE  Mine(d, s)'
      <4>1. coro'[d] = coro[d] /\ scenes' = scenes
        BY <1>1, <1>2, <3>1 DEF OnlyCoro
      <4> QED
        BY <3>1, <4>1 DEF Mine, WillSee
    <3> QED
      BY <2>2, <3>1
  <2> QED
    BY <1>1, <2>3, <2>4, OwnL3Kept
<1> QED
  BY <1>1, <1>3, <1>4, <1>5 DEF Reflected

LEMMA CoroKeepsScenes ==
  ASSUME TypeOK, LocksOK, ScenesInv, NEW c \in Coroutines, CoroStep(c), NEW s \in Sessions
  PROVE  Reflected(s)'
  BY StartsKeepScenes, WaitingKeepsScenes, RetriesKeepsScenes, L1EndsKeepsScenes,
     L2SkipsKeepsScenes, L2EndsKeepsScenes, L3EndsKeepsScenes, FailingKeepsScenes DEF CoroStep

LEMMA SessionKeepsScenes ==
  ASSUME TypeOK, ScenesInv, NEW z \in Sessions, SessionStep(z), NEW s \in Sessions
  PROVE  Reflected(s)'
<1>1. coro' = coro /\ scenes' = scenes /\ persona' = persona /\ up' = up
  BY DEF SessionStep, Capture, Notify, NotifyLost, IdleFires, L2Fires, SessionEnds, store
<1>2. KeepsL2Done
  BY NotifyKeepsL2Done, SameL2Done
  DEF SessionStep, Capture, NotifyLost, IdleFires, L2Fires, SessionEnds, backend
<1>3. <<s, "L3">> \in lost => <<s, "L3">> \in lost'
  BY DEF SessionStep, Capture, Notify, NotifyLost, IdleFires, L2Fires, SessionEnds
<1>4. HasTask(queue, s, {"L3"}) => HasTask(queue', s, {"L3"})
  <2>1. /\ Task("L1", z) \in TaskSet /\ TimerTask("L1", z) \in TaskSet
        /\ TimerTask("L2", z) \in TaskSet /\ Task("flush", z) \in TaskSet
    BY TaskTypes DEF Types
  <2>2. queue' = queue \/ \E t \in TaskSet : queue' = Enqueue(queue, t)
    BY <2>1
    DEF SessionStep, Capture, Notify, NotifyLost, IdleFires, L2Fires, SessionEnds, backend
  <2> QED
    BY <2>2, EnqueueHas DEF TypeOK
<1>5. /\ \A c \in Coroutines : Mine(c, s) => Mine(c, s)'
      /\ \A c \in Coroutines : ReadOlder(c, s)' => ReadOlder(c, s)
  BY <1>1 DEF Mine, WillSee, ReadOlder
<1>6. CASE up
  BY <1>1, <1>2, <1>3, <1>4, <1>5, <1>6, KeptL2HasRun, OwnL3Kept, ReflectedKept DEF ScenesInv
<1>7. CASE ~up
  BY <1>1, <1>7 DEF Reflected
<1> QED
  BY <1>6, <1>7

LEMMA StepKeepsScenes ==
  ASSUME TypeOK, LocksOK, DownIsEmpty, ScenesInv, [Next]_vars
  PROVE  ScenesInv'
<1>1. CASE Stop
  BY <1>1 DEF Stop, ScenesInv, Reflected
<1>2. CASE Boot
  BY <1>2 DEF Boot, backend, DownIsEmpty, ScenesInv, Reflected, L2HasRun
<1>3. CASE UNCHANGED vars
  BY <1>3 DEF vars, backend, store, ScenesInv, Reflected, L2HasRun, OwnL3, WillSee, ReadOlder
<1> QED
  BY <1>1, <1>2, <1>3, NextSteps, CoroKeepsScenes, SessionKeepsScenes DEF ScenesInv

LEMMA ScenesInvSuffices ==
  ASSUME ScenesInv
  PROVE  PersonaFollowsScenes
  BY DEF ScenesInv, Reflected, OwnL3, HasTask, PersonaFollowsScenes

\* Scenes of a session whose L2 has run since the boot reach the persona, or an L3
\* task that has not read older ones is ahead of them; and no run of L3 that has
\* read older scenes is the last one.
THEOREM ScenesReachPersona == Spec => []PersonaFollowsScenes
<1>1. Init => ScenesInv
  BY DEF Init, ScenesInv, Reflected
<1>2. TypeOK /\ LocksOK /\ DownIsEmpty /\ ScenesInv /\ [Next]_vars => ScenesInv'
  BY StepKeepsScenes
<1>3. ScenesInv => PersonaFollowsScenes
  BY ScenesInvSuffices
<1> QED
  BY <1>1, <1>2, <1>3, WorkerTypes, OneHolderPerKey, DownIsForgotten, PTL DEF Spec
=============================================================================
