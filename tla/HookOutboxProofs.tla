---------------------------- MODULE HookOutboxProofs ----------------------------
(***************************************************************************)
(* Theorems about HookOutbox, for every number of turns, Stop processes,   *)
(* worker incarnations and slots.  The invariant says that what a worker   *)
(* goes by is still what the slot holds: one worker runs at a time, a Stop *)
(* process fills empty slots only, and nothing is pruned before its TTL.   *)
(***************************************************************************)
EXTENDS HookOutbox, TLAPS

\* An entry that is not exhausted has attempts left.
FreshEntry(e) == e # None => e.failed \/ e.attempts < MaxAttempts

Fresh ==
  /\ \A s \in Slots : FreshEntry(base[s])
  /\ \A p \in Processes, s \in Slots : FreshEntry(seen[p][s])

\* Where a Stop process and where a worker can be.
HookSteps == {"off", "capture", "scan", "prune", "recover", "remove", "check", "link",
              "again", "queued", "ended"}
WorkerSteps == {"off", "scan", "prune", "recover", "remove", "snapshot", "flush",
"sent",
                "deliver", "rewrite", "unclaim", "ended"}

Roles ==
  /\ \A h \in Hooks : pc[h] \in HookSteps
  /\ \A w \in Workers : pc[w] \in WorkerSteps
  /\ \A v, w \in Workers : Alive(v) /\ Alive(w) => v = w

\* The worker has a claim and goes by the entry at[w]; the entries it holds are
\* those it has not rewritten.
Working(w) == pc[w] \in {"sent", "deliver", "rewrite"}
Holding(w, s) ==
  /\ seen[w][s] # None
  /\ \/ pc[w] \in {"flush", "sent", "deliver"}
     \/ pc[w] \in {"rewrite", "unclaim"} /\ s # at[w]

Worklists ==
  \A w \in Workers :
    /\ Working(w) => seen[w][at[w]] # None
    /\ \A s \in Slots : Holding(w, s) => ~seen[w][s].failed
    /\ pc[w] = "deliver" => Turn[seen[w][at[w]].hook] \in answered

\* What keeps the captures.
Covered(t) == t \in answered \/ Queued(t)

\* No turn is neither staged nor kept, a Stop process about to acknowledge has left
\* its turn to something, and what a worker goes by is what the slot holds.
TurnsCovered == \A t \in Turns : t \in staged \/ Covered(t)

QueuedCovered == \A h \in Hooks : pc[h] = "queued" => Covered(Turn[h])

HeldAsRead ==
  \A w \in Workers :
    /\ \A s \in Slots : Holding(w, s) => base[s] = seen[w][s]
    /\ pc[w] = "rewrite" =>
         /\ base[at[w]] # None
         /\ ~base[at[w]].failed
         /\ base[at[w]].hook = seen[w][at[w]].hook

Kept == old = {} => TurnsCovered /\ QueuedCovered /\ HeldAsRead

OutboxInv == TypeOK /\ Fresh /\ Roles /\ Worklists /\ Kept

\* There is a slot.
LEMMA SlotZero == 0 \in Slots
  BY OutboxAssumption DEF Slots

USE OutboxAssumption, SlotZero
USE DEF Processes, Entries, Nothing, files, memory, Goto, Put, PutClaim, Forget

\* The slot that enqueue() tries exists.
LEMMA SlotOfIsSlot ==
  ASSUME TypeOK, NEW h \in Hooks
  PROVE  SlotOf(h) \in Slots
  BY DEF TypeOK, SlotOf, Slots

\* What #defer() and #fail() write is an entry of the same capture, exhausted or
\* with attempts left.
LEMMA RewrittenEntry ==
  ASSUME NEW e \in Entries, ~e.failed, e.attempts < MaxAttempts
  PROVE  \A f \in {Deferred(e), Failed(e)} :
           f \in Entries /\ f.hook = e.hook /\ (f.failed \/ f.attempts < MaxAttempts)
  <1>1. e.hook \in Hooks /\ e.attempts + 1 \in 0 .. MaxAttempts
    BY OutboxAssumption
  <1>2. ASSUME NEW failed \in BOOLEAN, failed \/ e.attempts + 1 < MaxAttempts
        PROVE  LET f == Rewritten(e, failed)
               IN  f \in Entries /\ f.hook = e.hook /\ (f.failed \/ f.attempts < MaxAttempts)
    BY <1>1, <1>2 DEF Rewritten
  <1>3. CASE e.attempts + 1 >= MaxAttempts
    BY <1>2, <1>3 DEF Deferred, Failed
  <1>4. CASE ~(e.attempts + 1 >= MaxAttempts)
    <2>1. e.attempts + 1 < MaxAttempts
      BY <1>1, <1>4, OutboxAssumption
    <2>2. (e.attempts + 1 >= MaxAttempts) = FALSE
      BY <1>4
    <2>3. Deferred(e) = Rewritten(e, FALSE)
      BY <2>2 DEF Deferred
    <2> QED BY <2>1, <2>3, <1>2 DEF Failed
  <1> QED BY <1>3, <1>4

\* A process that ends, or a worker that goes back to its next round, changes no
\* file and forgets what it has read.
LEMMA RestKeeps ==
  ASSUME OutboxInv, NEW p \in Processes, Alive(p), NEW step \in {"scan", "ended"},
         step = "scan" => p \in Workers, Rest(p, step),
         UNCHANGED <<staged, base, claim, old, answered>>,
         lease' \in [Turns -> Hooks \cup {None}], faults' \in 0 .. MaxFaults
  PROVE  OutboxInv'
  <1>1. TypeOK'
    BY DEF OutboxInv, TypeOK, Steps, Rest
  <1>2. Fresh'
    BY DEF OutboxInv, TypeOK, Fresh, FreshEntry, Rest
  <1>3. Roles'
    BY DEF OutboxInv, TypeOK, Roles, HookSteps, WorkerSteps, Alive, Rest
  <1>4. Worklists'
    BY DEF OutboxInv, TypeOK, Roles, HookSteps, WorkerSteps, Worklists, Working, Holding,
      Rest
  <1>5. Kept'
    BY DEF OutboxInv, TypeOK, Roles, HookSteps, WorkerSteps, Alive, Worklists, Working,
      Holding, Kept, TurnsCovered, QueuedCovered, HeldAsRead, Covered, Queued, Rest
  <1> QED BY <1>1, <1>2, <1>3, <1>4, <1>5 DEF OutboxInv

\* The same for an exception, which may give the turn back.
LEMMA ThrowKeeps ==
  ASSUME OutboxInv, NEW p \in Processes, Alive(p), Throw(p),
         UNCHANGED <<staged, base, claim, old, answered>>, faults' \in 0 .. MaxFaults
  PROVE  OutboxInv'
  <1>1. lease' \in [Turns -> Hooks \cup {None}]
    BY DEF Throw, Release, OutboxInv, TypeOK
  <1>2. CASE p \in Hooks
    BY <1>1, <1>2, RestKeeps DEF Throw
  <1>3. CASE p \notin Hooks
    BY <1>1, <1>3, RestKeeps DEF Throw
  <1> QED BY <1>2, <1>3

-----------------------------------------------------------------------------
(* Each action keeps the invariant: first #pruneAndRecover(), *)

LEMMA ScanKeeps ==
  ASSUME OutboxInv, NEW p \in Processes, Scan(p)
  PROVE  OutboxInv'
  <1>1. TypeOK'
    BY DEF OutboxInv, TypeOK, Steps, Scan
  <1>2. Fresh'
    BY DEF OutboxInv, TypeOK, Fresh, FreshEntry, Scan
  <1>3. Roles'
    BY DEF OutboxInv, TypeOK, Roles, HookSteps, WorkerSteps, Alive, Scan
  <1>4. Worklists'
    BY DEF OutboxInv, TypeOK, Roles, HookSteps, WorkerSteps, Worklists, Working, Holding,
      Scan
  <1>5. Kept'
    BY DEF OutboxInv, TypeOK, Roles, HookSteps, WorkerSteps, Alive, Worklists, Working,
      Holding, Kept, TurnsCovered, QueuedCovered, HeldAsRead, Covered, Queued, Scan
  <1> QED BY <1>1, <1>2, <1>3, <1>4, <1>5 DEF OutboxInv

\* Only an entry past its TTL is pruned, and then nothing is claimed of it.
LEMMA PruneKeeps ==
  ASSUME OutboxInv, NEW p \in Processes, NEW s \in Slots, Prune(p, s)
  PROVE  OutboxInv'
  <1>1. TypeOK'
    BY DEF OutboxInv, TypeOK, Steps, Prune
  <1>2. Fresh'
    BY DEF OutboxInv, TypeOK, Fresh, FreshEntry, Prune
  <1>3. Roles'
    BY DEF OutboxInv, TypeOK, Roles, HookSteps, WorkerSteps, Alive, Prune
  <1>4. Worklists'
    BY DEF OutboxInv, TypeOK, Roles, HookSteps, WorkerSteps, Worklists, Working, Holding,
      Prune
  <1>5. Kept'
    BY DEF OutboxInv, TypeOK, Roles, HookSteps, WorkerSteps, Alive, Worklists, Working,
      Holding, Kept, TurnsCovered, QueuedCovered, HeldAsRead, Covered, Queued, Prune
  <1> QED BY <1>1, <1>2, <1>3, <1>4, <1>5 DEF OutboxInv

LEMMA ListClaimsKeeps ==
  ASSUME OutboxInv, NEW p \in Processes, ListClaims(p)
  PROVE  OutboxInv'
  <1>1. TypeOK'
    BY DEF OutboxInv, TypeOK, Steps, ListClaims
  <1>2. Fresh'
    BY DEF OutboxInv, TypeOK, Fresh, FreshEntry, ListClaims
  <1>3. Roles'
    BY DEF OutboxInv, TypeOK, Roles, HookSteps, WorkerSteps, Alive, ListClaims
  <1>4. Worklists'
    BY DEF OutboxInv, TypeOK, Roles, HookSteps, WorkerSteps, Worklists, Working, Holding,
      ListClaims
  <1>5. Kept'
    BY DEF OutboxInv, TypeOK, Roles, HookSteps, WorkerSteps, Alive, Worklists, Working,
      Holding, Kept, TurnsCovered, QueuedCovered, HeldAsRead, Covered, Queued, ListClaims
  <1> QED BY <1>1, <1>2, <1>3, <1>4, <1>5 DEF OutboxInv

LEMMA LookAtClaimKeeps ==
  ASSUME OutboxInv, NEW p \in Processes, NEW s \in Slots, LookAtClaim(p, s)
  PROVE  OutboxInv'
  <1>1. CASE Stale(s)
    <2>0. /\ pc[p] = "recover"
          /\ pc' = [pc EXCEPT ![p] = "remove"]
          /\ at' = [at EXCEPT ![p] = s]
          /\ UNCHANGED <<files, seen, todo, old, answered, faults>>
      BY <1>1 DEF OutboxInv, TypeOK, LookAtClaim
    <2>1. TypeOK'
      BY <2>0 DEF OutboxInv, TypeOK, Steps
    <2>2. Fresh'
      BY <2>0 DEF OutboxInv, TypeOK, Fresh, FreshEntry
    <2>3. Roles'
      BY <2>0 DEF OutboxInv, TypeOK, Roles, HookSteps, WorkerSteps, Alive
    <2>4. Worklists'
      BY <2>0 DEF OutboxInv, TypeOK, Roles, HookSteps, WorkerSteps, Worklists, Working,
        Holding
    <2>5. Kept'
      BY <2>0 DEF OutboxInv, TypeOK, Roles, HookSteps, WorkerSteps, Alive, Worklists,
        Working, Holding, Kept, TurnsCovered, QueuedCovered, HeldAsRead, Covered, Queued
    <2> QED BY <2>1, <2>2, <2>3, <2>4, <2>5 DEF OutboxInv
  <1>2. CASE ~Stale(s)
    <2>0. /\ pc[p] = "recover"
          /\ todo' = [todo EXCEPT ![p] = @ \ {s}]
          /\ UNCHANGED <<files, pc, at, seen, old, answered, faults>>
      BY <1>2 DEF OutboxInv, TypeOK, LookAtClaim
    <2>1. TypeOK'
      BY <2>0 DEF OutboxInv, TypeOK, Steps
    <2>2. Fresh'
      BY <2>0 DEF OutboxInv, TypeOK, Fresh, FreshEntry
    <2>3. Roles'
      BY <2>0 DEF OutboxInv, TypeOK, Roles, HookSteps, WorkerSteps, Alive
    <2>4. Worklists'
      BY <2>0 DEF OutboxInv, TypeOK, Roles, HookSteps, WorkerSteps, Worklists, Working,
        Holding
    <2>5. Kept'
      BY <2>0 DEF OutboxInv, TypeOK, Roles, HookSteps, WorkerSteps, Alive, Worklists,
        Working, Holding, Kept, TurnsCovered, QueuedCovered, HeldAsRead, Covered, Queued
    <2> QED BY <2>1, <2>2, <2>3, <2>4, <2>5 DEF OutboxInv
  <1> QED BY <1>1, <1>2

LEMMA MissClaimKeeps ==
  ASSUME OutboxInv, NEW p \in Processes, NEW s \in Slots, MissClaim(p, s)
  PROVE  OutboxInv'
  BY ThrowKeeps DEF OutboxInv, TypeOK, Alive, MissClaim

LEMMA RemoveClaimKeeps ==
  ASSUME OutboxInv, NEW p \in Processes, RemoveClaim(p)
  PROVE  OutboxInv'
  <1>1. TypeOK'
    BY DEF OutboxInv, TypeOK, Steps, RemoveClaim
  <1>2. Fresh'
    BY DEF OutboxInv, TypeOK, Fresh, FreshEntry, RemoveClaim
  <1>3. Roles'
    BY DEF OutboxInv, TypeOK, Roles, HookSteps, WorkerSteps, Alive, RemoveClaim
  <1>4. Worklists'
    BY DEF OutboxInv, TypeOK, Roles, HookSteps, WorkerSteps, Worklists, Working, Holding,
      RemoveClaim
  <1>5. Kept'
    BY DEF OutboxInv, TypeOK, Roles, HookSteps, WorkerSteps, Alive, Worklists, Working,
      Holding, Kept, TurnsCovered, QueuedCovered, HeldAsRead, Covered, Queued, RemoveClaim
  <1> QED BY <1>1, <1>2, <1>3, <1>4, <1>5 DEF OutboxInv

LEMMA RecoveredKeeps ==
  ASSUME OutboxInv, NEW p \in Processes, Recovered(p)
  PROVE  OutboxInv'
  <1>1. TypeOK'
    BY DEF OutboxInv, TypeOK, Steps, Recovered
  <1>2. Fresh'
    BY DEF OutboxInv, TypeOK, Fresh, FreshEntry, Recovered
  <1>3. Roles'
    BY DEF OutboxInv, TypeOK, Roles, HookSteps, WorkerSteps, Alive, Recovered
  <1>4. Worklists'
    BY DEF OutboxInv, TypeOK, Roles, HookSteps, WorkerSteps, Worklists, Working, Holding,
      Recovered
  <1>5. Kept'
    BY DEF OutboxInv, TypeOK, Roles, HookSteps, WorkerSteps, Alive, Worklists, Working,
      Holding, Kept, TurnsCovered, QueuedCovered, HeldAsRead, Covered, Queued, Recovered
  <1> QED BY <1>1, <1>2, <1>3, <1>4, <1>5 DEF OutboxInv

LEMMA StatusOnlyKeeps ==
  ASSUME OutboxInv, NEW p \in Processes, StatusOnly(p)
  PROVE  OutboxInv'
  <1>1. TypeOK'
    BY DEF OutboxInv, TypeOK, Steps, StatusOnly
  <1>2. Fresh'
    BY DEF OutboxInv, TypeOK, Fresh, FreshEntry, StatusOnly
  <1>3. Roles'
    BY DEF OutboxInv, TypeOK, Roles, HookSteps, WorkerSteps, Alive, StatusOnly
  <1>4. Worklists'
    BY DEF OutboxInv, TypeOK, Roles, HookSteps, WorkerSteps, Worklists, Working, Holding,
      StatusOnly
  <1>5. Kept'
    BY DEF OutboxInv, TypeOK, Roles, HookSteps, WorkerSteps, Alive, Worklists, Working,
      Holding, Kept, TurnsCovered, QueuedCovered, HeldAsRead, Covered, Queued, StatusOnly
  <1> QED BY <1>1, <1>2, <1>3, <1>4, <1>5 DEF OutboxInv

-----------------------------------------------------------------------------
(* then the Stop process, *)

LEMMA StopEventKeeps ==
  ASSUME OutboxInv, NEW h \in Hooks, StopEvent(h)
  PROVE  OutboxInv'
  <1>1. TypeOK'
    BY DEF OutboxInv, TypeOK, Steps, StopEvent
  <1>2. Fresh'
    BY DEF OutboxInv, TypeOK, Fresh, FreshEntry, StopEvent
  <1>3. Roles'
    BY DEF OutboxInv, TypeOK, Roles, HookSteps, WorkerSteps, Alive, StopEvent
  <1>4. Worklists'
    BY DEF OutboxInv, TypeOK, Roles, HookSteps, WorkerSteps, Worklists, Working, Holding,
      StopEvent
  <1>5. Kept'
    BY DEF OutboxInv, TypeOK, Roles, HookSteps, WorkerSteps, Alive, Worklists, Working,
      Holding, Kept, TurnsCovered, QueuedCovered, HeldAsRead, Covered, Queued, StopEvent
  <1> QED BY <1>1, <1>2, <1>3, <1>4, <1>5 DEF OutboxInv

LEMMA CaptureKeeps ==
  ASSUME OutboxInv, NEW h \in Hooks, Capture(h)
  PROVE  OutboxInv'
  <1>1. CASE Goto(h, "ended")
    <2>0. /\ pc[h] = "capture"
          /\ pc' = [pc EXCEPT ![h] = "ended"]
          /\ answered' = answered \cup {Turn[h]}
          /\ staged' = staged \/ staged' = staged \ {Turn[h]}
          /\ lease' \in [Turns -> Hooks \cup {None}]
          /\ UNCHANGED <<base, claim, at, seen, todo, old, faults>>
      BY <1>1 DEF OutboxInv, TypeOK, Capture, Acknowledge, Release
    <2>1. TypeOK'
      BY <2>0 DEF OutboxInv, TypeOK, Steps
    <2>2. Fresh'
      BY <2>0 DEF OutboxInv, TypeOK, Fresh, FreshEntry
    <2>3. Roles'
      BY <2>0 DEF OutboxInv, TypeOK, Roles, HookSteps, WorkerSteps, Alive
    <2>4. Worklists'
      BY <2>0 DEF OutboxInv, TypeOK, Roles, HookSteps, WorkerSteps, Worklists, Working,
        Holding
    <2>5. Kept'
      BY <2>0 DEF OutboxInv, TypeOK, Roles, HookSteps, WorkerSteps, Alive, Worklists,
        Working, Holding, Kept, TurnsCovered, QueuedCovered, HeldAsRead, Covered, Queued
    <2> QED BY <2>1, <2>2, <2>3, <2>4, <2>5 DEF OutboxInv
  <1>2. CASE Goto(h, "scan")
    <2>0. /\ pc[h] = "capture"
          /\ pc' = [pc EXCEPT ![h] = "scan"]
          /\ UNCHANGED <<files, at, seen, todo, old, answered, faults>>
      BY <1>2 DEF OutboxInv, TypeOK, Capture
    <2>1. TypeOK'
      BY <2>0 DEF OutboxInv, TypeOK, Steps
    <2>2. Fresh'
      BY <2>0 DEF OutboxInv, TypeOK, Fresh, FreshEntry
    <2>3. Roles'
      BY <2>0 DEF OutboxInv, TypeOK, Roles, HookSteps, WorkerSteps, Alive
    <2>4. Worklists'
      BY <2>0 DEF OutboxInv, TypeOK, Roles, HookSteps, WorkerSteps, Worklists, Working,
        Holding
    <2>5. Kept'
      BY <2>0 DEF OutboxInv, TypeOK, Roles, HookSteps, WorkerSteps, Alive, Worklists,
        Working, Holding, Kept, TurnsCovered, QueuedCovered, HeldAsRead, Covered, Queued
    <2> QED BY <2>1, <2>2, <2>3, <2>4, <2>5 DEF OutboxInv
  <1> QED BY <1>1, <1>2 DEF Capture

LEMMA LookForDuplicateKeeps ==
  ASSUME OutboxInv, NEW h \in Hooks, LookForDuplicate(h)
  PROVE  OutboxInv'
  <1>1. TypeOK'
    BY DEF OutboxInv, TypeOK, Steps, LookForDuplicate
  <1>2. Fresh'
    BY DEF OutboxInv, TypeOK, Fresh, FreshEntry, LookForDuplicate
  <1>3. Roles'
    BY DEF OutboxInv, TypeOK, Roles, HookSteps, WorkerSteps, Alive, LookForDuplicate
  <1>4. Worklists'
    BY DEF OutboxInv, TypeOK, Roles, HookSteps, WorkerSteps, Worklists, Working, Holding,
      LookForDuplicate
  <1>5. Kept'
    BY DEF OutboxInv, TypeOK, Roles, HookSteps, WorkerSteps, Alive, Worklists, Working,
      Holding, Kept, TurnsCovered, QueuedCovered, HeldAsRead, Covered, Queued,
      LookForDuplicate
  <1> QED BY <1>1, <1>2, <1>3, <1>4, <1>5 DEF OutboxInv

LEMMA PayloadConflictsKeeps ==
  ASSUME OutboxInv, NEW h \in Hooks, PayloadConflicts(h)
  PROVE  OutboxInv'
  BY ThrowKeeps DEF OutboxInv, TypeOK, Alive, PayloadConflicts

\* The entry fills a slot that was empty, so that it hides none.
LEMMA LinkKeeps ==
  ASSUME OutboxInv, NEW h \in Hooks, Link(h)
  PROVE  OutboxInv'
  <1> SlotOf(h) \in Slots
    BY SlotOfIsSlot DEF OutboxInv
  <1>1. TypeOK'
    BY DEF OutboxInv, TypeOK, Steps, Link
  <1>2. Fresh'
    BY DEF OutboxInv, TypeOK, Fresh, FreshEntry, Link
  <1>3. Roles'
    BY DEF OutboxInv, TypeOK, Roles, HookSteps, WorkerSteps, Alive, Link
  <1>4. Worklists'
    BY DEF OutboxInv, TypeOK, Roles, HookSteps, WorkerSteps, Worklists, Working, Holding,
      Link
  <1>5. Kept'
    <2>1. SUFFICES ASSUME old = {}
         PROVE  TurnsCovered' /\ QueuedCovered' /\ HeldAsRead'
      BY DEF Kept, Link
    <2>2. TurnsCovered /\ QueuedCovered /\ HeldAsRead
      BY <2>1 DEF OutboxInv, Kept
    <2>3. ASSUME NEW t \in Turns, Covered(t)
         PROVE  Covered(t)'
      <3>1. CASE t \in answered
        BY <3>1 DEF Covered, Link
      <3>2. CASE Queued(t)
        <4>1. PICK s \in Slots : base[s] # None /\ Turn[base[s].hook] = t
          BY <3>2 DEF Queued
        <4>2. s # SlotOf(h)
          BY <4>1 DEF Link
        <4>3. base'[s] = base[s]
          BY <4>2, SlotOfIsSlot DEF OutboxInv, TypeOK, Link
        <4> QED BY <4>1, <4>3 DEF Covered, Queued
      <3> QED BY <2>3, <3>1, <3>2 DEF Covered
    <2>4. TurnsCovered' /\ QueuedCovered'
      <3>0. [hook |-> h, attempts |-> 0, failed |-> FALSE] \in Entries
        OBVIOUS
      <3>1. base'[SlotOf(h)] # None /\ base'[SlotOf(h)].hook = h
        BY SlotOfIsSlot, <3>0 DEF OutboxInv, TypeOK, Link
      <3>2. Covered(Turn[h])'
        BY <3>1, SlotOfIsSlot DEF OutboxInv, Covered, Queued
      <3> QED BY <2>2, <2>3, <3>2 DEF OutboxInv, TypeOK, TurnsCovered, QueuedCovered,
      Link, Goto, Processes
    <2>5. HeldAsRead'
      BY <2>2, SlotOfIsSlot DEF OutboxInv, HeldAsRead, Worklists, Working, Holding, Roles,
        WorkerSteps, TypeOK, Link
    <2> QED BY <2>4, <2>5
  <1> QED BY <1>1, <1>2, <1>3, <1>4, <1>5 DEF OutboxInv

LEMMA SlotTakenKeeps ==
  ASSUME OutboxInv, NEW h \in Hooks, SlotTaken(h)
  PROVE  OutboxInv'
  <1>1. TypeOK'
    BY DEF OutboxInv, TypeOK, Steps, SlotTaken, Slots
  <1>2. Fresh'
    BY DEF OutboxInv, TypeOK, Fresh, FreshEntry, SlotTaken, Slots
  <1>3. Roles'
    BY DEF OutboxInv, TypeOK, Roles, HookSteps, WorkerSteps, Alive, SlotTaken, Slots
  <1>4. Worklists'
    BY DEF OutboxInv, TypeOK, Roles, HookSteps, WorkerSteps, Worklists, Working, Holding,
      SlotTaken, Slots
  <1>5. Kept'
    BY DEF OutboxInv, TypeOK, Roles, HookSteps, WorkerSteps, Alive, Worklists, Working,
      Holding, Kept, TurnsCovered, QueuedCovered, HeldAsRead, Covered, Queued, SlotTaken,
      Slots
  <1> QED BY <1>1, <1>2, <1>3, <1>4, <1>5 DEF OutboxInv

LEMMA OutboxFullKeeps ==
  ASSUME OutboxInv, NEW h \in Hooks, OutboxFull(h)
  PROVE  OutboxInv'
  <1>1. CASE Throw(h)
    BY <1>1, ThrowKeeps DEF OutboxInv, TypeOK, Alive, OutboxFull
  <1>2. CASE Queued(Turn[h]) /\ Goto(h, "queued") /\ UNCHANGED <<at, seen, todo, lease>>
    <2>1. TypeOK'
      BY <1>2 DEF OutboxInv, TypeOK, Steps, OutboxFull
    <2>2. Fresh'
      BY <1>2 DEF OutboxInv, TypeOK, Fresh, FreshEntry, OutboxFull
    <2>3. Roles'
      BY <1>2 DEF OutboxInv, TypeOK, Roles, HookSteps, WorkerSteps, Alive, OutboxFull
    <2>4. Worklists'
      BY <1>2 DEF OutboxInv, TypeOK, Roles, HookSteps, WorkerSteps, Worklists, Working,
        Holding, OutboxFull
    <2>5. Kept'
      BY <1>2 DEF OutboxInv, TypeOK, Roles, HookSteps, WorkerSteps, Alive, Worklists,
        Working, Holding, Kept, TurnsCovered, QueuedCovered, HeldAsRead, Covered, Queued,
        OutboxFull
    <2> QED BY <2>1, <2>2, <2>3, <2>4, <2>5 DEF OutboxInv
  <1> QED BY <1>1, <1>2 DEF OutboxFull

LEMMA AcceptedKeeps ==
  ASSUME OutboxInv, NEW h \in Hooks, Accepted(h)
  PROVE  OutboxInv'
  <1>1. TypeOK'
    BY DEF OutboxInv, TypeOK, Steps, Accepted, Acknowledge, Release, Rest
  <1>2. Fresh'
    BY DEF OutboxInv, TypeOK, Fresh, FreshEntry, Accepted, Acknowledge, Release, Rest
  <1>3. Roles'
    BY DEF OutboxInv, TypeOK, Roles, HookSteps, WorkerSteps, Alive, Accepted, Acknowledge,
      Release, Rest
  <1>4. Worklists'
    BY DEF OutboxInv, TypeOK, Roles, HookSteps, WorkerSteps, Worklists, Working, Holding,
      Accepted, Acknowledge, Release, Rest
  <1>5. Kept'
    BY DEF OutboxInv, TypeOK, Roles, HookSteps, WorkerSteps, Alive, Worklists, Working,
      Holding, Kept, TurnsCovered, QueuedCovered, HeldAsRead, Covered, Queued, Accepted,
      Acknowledge, Release, Rest
  <1> QED BY <1>1, <1>2, <1>3, <1>4, <1>5 DEF OutboxInv

-----------------------------------------------------------------------------
(* and the worker, time and faults. *)

LEMMA ExpireKeeps ==
  ASSUME OutboxInv, NEW h \in Hooks, Expire(h)
  PROVE  OutboxInv'
  <1>1. TypeOK'
    BY DEF OutboxInv, TypeOK, Steps, Expire
  <1>2. Fresh'
    BY DEF OutboxInv, TypeOK, Fresh, FreshEntry, Expire
  <1>3. Roles'
    BY DEF OutboxInv, TypeOK, Roles, HookSteps, WorkerSteps, Alive, Expire
  <1>4. Worklists'
    BY DEF OutboxInv, TypeOK, Roles, HookSteps, WorkerSteps, Worklists, Working, Holding,
      Expire
  <1>5. Kept'
    BY DEF OutboxInv, TypeOK, Roles, HookSteps, WorkerSteps, Alive, Worklists, Working,
      Holding, Kept, TurnsCovered, QueuedCovered, HeldAsRead, Covered, Queued, Expire
  <1> QED BY <1>1, <1>2, <1>3, <1>4, <1>5 DEF OutboxInv

LEMMA StartKeeps ==
  ASSUME OutboxInv, NEW w \in Workers, Start(w)
  PROVE  OutboxInv'
  <1>1. TypeOK'
    BY DEF OutboxInv, TypeOK, Steps, Start
  <1>2. Fresh'
    BY DEF OutboxInv, TypeOK, Fresh, FreshEntry, Start
  <1>3. Roles'
    BY DEF OutboxInv, TypeOK, Roles, HookSteps, WorkerSteps, Alive, Start
  <1>4. Worklists'
    BY DEF OutboxInv, TypeOK, Roles, HookSteps, WorkerSteps, Worklists, Working, Holding,
      Start
  <1>5. Kept'
    BY DEF OutboxInv, TypeOK, Roles, HookSteps, WorkerSteps, Alive, Worklists, Working,
      Holding, Kept, TurnsCovered, QueuedCovered, HeldAsRead, Covered, Queued, Start
  <1> QED BY <1>1, <1>2, <1>3, <1>4, <1>5 DEF OutboxInv

LEMMA SnapshotKeeps ==
  ASSUME OutboxInv, NEW w \in Workers, Snapshot(w)
  PROVE  OutboxInv'
  <1>1. TypeOK'
    BY DEF OutboxInv, TypeOK, Steps, Snapshot
  <1>2. Fresh'
    BY DEF OutboxInv, TypeOK, Fresh, FreshEntry, Snapshot
  <1>3. Roles'
    BY DEF OutboxInv, TypeOK, Roles, HookSteps, WorkerSteps, Alive, Snapshot
  <1>4. Worklists'
    BY DEF OutboxInv, TypeOK, Roles, HookSteps, WorkerSteps, Worklists, Working, Holding,
      Snapshot
  <1>5. Kept'
    BY DEF OutboxInv, TypeOK, Roles, HookSteps, WorkerSteps, Alive, Worklists, Working,
      Holding, Kept, TurnsCovered, QueuedCovered, HeldAsRead, Covered, Queued, Snapshot
  <1> QED BY <1>1, <1>2, <1>3, <1>4, <1>5 DEF OutboxInv

LEMMA SkipKeeps ==
  ASSUME OutboxInv, NEW w \in Workers, NEW s \in Slots, Skip(w, s)
  PROVE  OutboxInv'
  <1>1. TypeOK'
    BY DEF OutboxInv, TypeOK, Steps, Skip
  <1>2. Fresh'
    BY DEF OutboxInv, TypeOK, Fresh, FreshEntry, Skip
  <1>3. Roles'
    BY DEF OutboxInv, TypeOK, Roles, HookSteps, WorkerSteps, Alive, Skip
  <1>4. Worklists'
    BY DEF OutboxInv, TypeOK, Roles, HookSteps, WorkerSteps, Worklists, Working, Holding,
      Skip
  <1>5. Kept'
    BY DEF OutboxInv, TypeOK, Roles, HookSteps, WorkerSteps, Alive, Worklists, Working,
      Holding, Kept, TurnsCovered, QueuedCovered, HeldAsRead, Covered, Queued, Skip
  <1> QED BY <1>1, <1>2, <1>3, <1>4, <1>5 DEF OutboxInv

LEMMA ClaimKeeps ==
  ASSUME OutboxInv, NEW w \in Workers, NEW s \in Slots, Claim(w, s)
  PROVE  OutboxInv'
  <1>1. TypeOK'
    BY DEF OutboxInv, TypeOK, Steps, Claim
  <1>2. Fresh'
    BY DEF OutboxInv, TypeOK, Fresh, FreshEntry, Claim
  <1>3. Roles'
    BY DEF OutboxInv, TypeOK, Roles, HookSteps, WorkerSteps, Alive, Claim
  <1>4. Worklists'
    BY DEF OutboxInv, TypeOK, Roles, HookSteps, WorkerSteps, Worklists, Working, Holding,
      Claim
  <1>5. Kept'
    BY DEF OutboxInv, TypeOK, Roles, HookSteps, WorkerSteps, Alive, Worklists, Working,
      Holding, Kept, TurnsCovered, QueuedCovered, HeldAsRead, Covered, Queued, Claim
  <1> QED BY <1>1, <1>2, <1>3, <1>4, <1>5 DEF OutboxInv

\* An answer, a failure, or a claim that is lost.
LEMMA ReplyKeeps ==
  ASSUME OutboxInv, NEW w \in Workers, Reply(w)
  PROVE  OutboxInv'
  <1> DEFINE e == seen[w][at[w]]
  <1>0. pc[w] = "sent" /\ e \in Entries /\ ~e.failed /\ e.attempts < MaxAttempts
    BY DEF OutboxInv, Reply, Worklists, Working, Holding, Fresh, FreshEntry, TypeOK
  <1>a. \A f \in {Deferred(e), Failed(e)} :
           f \in Entries /\ f.hook = e.hook /\ (f.failed \/ f.attempts < MaxAttempts)
    BY <1>0, RewrittenEntry
  <1>1. CASE Goto(w, "deliver")
    <2>0. /\ pc' = [pc EXCEPT ![w] = "deliver"]
          /\ answered' = answered \cup {Turn[e.hook]}
          /\ UNCHANGED <<files, at, seen, todo, old, faults>>
      BY <1>1 DEF OutboxInv, TypeOK, Reply
    <2>1. TypeOK'
      BY <1>0, <2>0 DEF OutboxInv, TypeOK, Steps
    <2>2. Fresh'
      BY <1>0, <2>0 DEF OutboxInv, TypeOK, Fresh, FreshEntry
    <2>3. Roles'
      BY <1>0, <2>0 DEF OutboxInv, TypeOK, Roles, HookSteps, WorkerSteps, Alive
    <2>4. Worklists'
      BY <1>0, <2>0 DEF OutboxInv, TypeOK, Roles, HookSteps, WorkerSteps, Worklists,
        Working, Holding
    <2>5. Kept'
      BY <1>0, <2>0 DEF OutboxInv, TypeOK, Roles, HookSteps, WorkerSteps, Alive,
        Worklists, Working, Holding, Kept, TurnsCovered, QueuedCovered, HeldAsRead,
        Covered, Queued
    <2> QED BY <2>1, <2>2, <2>3, <2>4, <2>5 DEF OutboxInv
  <1>2. CASE Goto(w, "rewrite")
    <2>0. /\ pc' = [pc EXCEPT ![w] = "rewrite"]
          /\ \E f \in Entries :
             /\ f.hook = e.hook /\ (f.failed \/ f.attempts < MaxAttempts)
             /\ seen' = [seen EXCEPT ![w][at[w]] = f]
          /\ UNCHANGED <<files, at, todo, old, answered, faults>>
      BY <1>2, <1>a, <1>0 DEF OutboxInv, TypeOK, Reply
    <2>1. TypeOK'
      BY <1>0, <2>0 DEF OutboxInv, TypeOK, Steps
    <2>2. Fresh'
      BY <1>0, <2>0 DEF OutboxInv, TypeOK, Fresh, FreshEntry
    <2>3. Roles'
      BY <1>0, <2>0 DEF OutboxInv, TypeOK, Roles, HookSteps, WorkerSteps, Alive
    <2>4. Worklists'
      BY <1>0, <2>0 DEF OutboxInv, TypeOK, Roles, HookSteps, WorkerSteps, Worklists,
        Working, Holding
    <2>5. Kept'
      BY <1>0, <2>0 DEF OutboxInv, TypeOK, Roles, HookSteps, WorkerSteps, Alive,
        Worklists, Working, Holding, Kept, TurnsCovered, QueuedCovered, HeldAsRead,
        Covered, Queued
    <2> QED BY <2>1, <2>2, <2>3, <2>4, <2>5 DEF OutboxInv
  <1>3. CASE Goto(w, "flush")
    <2>0. /\ pc' = [pc EXCEPT ![w] = "flush"]
          /\ seen' = [seen EXCEPT ![w][at[w]] = None]
          /\ answered \subseteq answered'
          /\ answered' \in {answered, answered \cup {Turn[e.hook]}}
          /\ UNCHANGED <<files, at, todo, old, faults>>
      BY <1>3 DEF OutboxInv, TypeOK, Reply
    <2>1. TypeOK'
      BY <1>0, <2>0 DEF OutboxInv, TypeOK, Steps
    <2>2. Fresh'
      BY <1>0, <2>0 DEF OutboxInv, TypeOK, Fresh, FreshEntry
    <2>3. Roles'
      BY <1>0, <2>0 DEF OutboxInv, TypeOK, Roles, HookSteps, WorkerSteps, Alive
    <2>4. Worklists'
      BY <1>0, <2>0 DEF OutboxInv, TypeOK, Roles, HookSteps, WorkerSteps, Worklists,
        Working, Holding
    <2>5. Kept'
      BY <1>0, <2>0 DEF OutboxInv, TypeOK, Roles, HookSteps, WorkerSteps, Alive,
        Worklists, Working, Holding, Kept, TurnsCovered, QueuedCovered, HeldAsRead,
        Covered, Queued
    <2> QED BY <2>1, <2>2, <2>3, <2>4, <2>5 DEF OutboxInv
  <1> QED BY <1>1, <1>2, <1>3 DEF Reply

\* What is unlinked is what was read, and it is answered.
LEMMA DeliverKeeps ==
  ASSUME OutboxInv, NEW w \in Workers, Deliver(w)
  PROVE  OutboxInv'
  <1>1. CASE base[at[w]] = None
    BY <1>1, ThrowKeeps DEF OutboxInv, TypeOK, Alive, Deliver
  <1>2. CASE base[at[w]] # None
    <2>1. TypeOK'
      BY <1>2 DEF OutboxInv, TypeOK, Steps, Deliver
    <2>2. Fresh'
      BY <1>2 DEF OutboxInv, TypeOK, Fresh, FreshEntry, Deliver
    <2>3. Roles'
      BY <1>2 DEF OutboxInv, TypeOK, Roles, HookSteps, WorkerSteps, Alive, Deliver
    <2>4. Worklists'
      BY <1>2 DEF OutboxInv, TypeOK, Roles, HookSteps, WorkerSteps, Worklists, Working,
        Holding, Deliver
    <2>5. Kept'
      <3>1. SUFFICES ASSUME old = {}
           PROVE  TurnsCovered' /\ QueuedCovered' /\ HeldAsRead'
        BY DEF Kept, Deliver
      <3>2. TurnsCovered /\ QueuedCovered /\ HeldAsRead
        BY <3>1 DEF OutboxInv, Kept
      <3>3. ASSUME NEW t \in Turns, Covered(t)
           PROVE  Covered(t)'
        <4>1. CASE t \in answered
          BY <4>1 DEF Covered, Deliver
        <4>2. CASE Queued(t)
          <5>1. PICK s \in Slots : base[s] # None /\ Turn[base[s].hook] = t
            BY <4>2 DEF Queued
          <5>2. CASE s = at[w]
            BY <3>2, <5>1, <5>2 DEF OutboxInv, Worklists, Working, HeldAsRead, Holding,
              Deliver, Covered
          <5>3. CASE s # at[w]
            BY <1>2, <5>1, <5>3 DEF OutboxInv, TypeOK, Deliver, Covered, Queued
          <5> QED BY <5>2, <5>3
        <4> QED BY <3>3, <4>1, <4>2 DEF Covered
      <3>4. TurnsCovered' /\ QueuedCovered'
        BY <1>2, <3>2, <3>3 DEF OutboxInv, Roles, WorkerSteps, TypeOK, TurnsCovered,
          QueuedCovered, Deliver
      <3>5. HeldAsRead'
        <4>1. \A v \in Workers : v # w => pc'[v] \in {"off", "ended"}
          BY <1>2 DEF OutboxInv, Roles, WorkerSteps, Alive, TypeOK, Deliver
        <4>2. pc' = [pc EXCEPT ![w] = "unclaim"] /\ at' = at /\ seen' = seen
          BY <1>2 DEF Deliver
        <4>3. \A s \in Slots : s # at[w] => base'[s] = base[s]
          BY <1>2 DEF OutboxInv, TypeOK, Deliver
        <4>4. \A s \in Slots : Holding(w, s)' => Holding(w, s)
          BY <4>2, <1>2 DEF OutboxInv, TypeOK, Holding, Deliver
        <4> QED BY <3>2, <4>1, <4>2, <4>3, <4>4 DEF OutboxInv, TypeOK, HeldAsRead,
        Holding, Processes
      <3> QED BY <3>4, <3>5
    <2> QED BY <2>1, <2>2, <2>3, <2>4, <2>5 DEF OutboxInv
  <1> QED BY <1>1, <1>2

\* What is written is the same capture.
LEMMA RewriteKeeps ==
  ASSUME OutboxInv, NEW w \in Workers, Rewrite(w)
  PROVE  OutboxInv'
  <1>1. TypeOK'
    BY DEF OutboxInv, TypeOK, Steps, Rewrite
  <1>2. Fresh'
    BY DEF OutboxInv, TypeOK, Fresh, FreshEntry, Rewrite
  <1>3. Roles'
    BY DEF OutboxInv, TypeOK, Roles, HookSteps, WorkerSteps, Alive, Rewrite
  <1>4. Worklists'
    BY DEF OutboxInv, TypeOK, Roles, HookSteps, WorkerSteps, Worklists, Working, Holding,
      Rewrite
  <1>5. Kept'
    <2>1. SUFFICES ASSUME old = {}
         PROVE  TurnsCovered' /\ QueuedCovered' /\ HeldAsRead'
      BY DEF Kept, Rewrite
    <2>2. TurnsCovered /\ QueuedCovered /\ HeldAsRead
      BY <2>1 DEF OutboxInv, Kept
    <2>3. ASSUME NEW t \in Turns, Covered(t)
         PROVE  Covered(t)'
      <3>1. CASE t \in answered
        BY <3>1 DEF Covered, Rewrite
      <3>2. CASE Queued(t)
        <4>1. PICK s \in Slots : base[s] # None /\ Turn[base[s].hook] = t
          BY <3>2 DEF Queued
        <4>2. CASE s = at[w]
          BY <2>2, <4>1, <4>2 DEF OutboxInv, Worklists, Working, HeldAsRead, Holding,
            TypeOK, Rewrite, Covered, Queued
        <4>3. CASE s # at[w]
          BY <4>1, <4>3 DEF OutboxInv, TypeOK, Rewrite, Covered, Queued
        <4> QED BY <4>2, <4>3
      <3> QED BY <2>3, <3>1, <3>2 DEF Covered
    <2>4. TurnsCovered' /\ QueuedCovered'
      BY <2>2, <2>3 DEF OutboxInv, Roles, WorkerSteps, TypeOK, TurnsCovered,
        QueuedCovered, Rewrite
    <2>5. HeldAsRead'
      <3>1. \A v \in Workers : v # w => pc'[v] \in {"off", "ended"}
        BY DEF OutboxInv, Roles, WorkerSteps, Alive, TypeOK, Rewrite
      <3>2. pc' = [pc EXCEPT ![w] = "unclaim"] /\ at' = at /\ seen' = seen
        BY DEF Rewrite
      <3>3. \A s \in Slots : s # at[w] => base'[s] = base[s]
        BY DEF OutboxInv, TypeOK, Rewrite
      <3>4. \A s \in Slots : Holding(w, s)' => Holding(w, s)
        BY <3>2 DEF OutboxInv, TypeOK, Holding, Rewrite
      <3> QED BY <2>2, <3>1, <3>2, <3>3, <3>4 DEF OutboxInv, TypeOK, HeldAsRead,
      Holding, Processes
    <2> QED BY <2>4, <2>5
  <1> QED BY <1>1, <1>2, <1>3, <1>4, <1>5 DEF OutboxInv

LEMMA UnclaimKeeps ==
  ASSUME OutboxInv, NEW w \in Workers, Unclaim(w)
  PROVE  OutboxInv'
  <1>1. TypeOK'
    BY DEF OutboxInv, TypeOK, Steps, Unclaim
  <1>2. Fresh'
    BY DEF OutboxInv, TypeOK, Fresh, FreshEntry, Unclaim
  <1>3. Roles'
    BY DEF OutboxInv, TypeOK, Roles, HookSteps, WorkerSteps, Alive, Unclaim
  <1>4. Worklists'
    BY DEF OutboxInv, TypeOK, Roles, HookSteps, WorkerSteps, Worklists, Working, Holding,
      Unclaim
  <1>5. Kept'
    BY DEF OutboxInv, TypeOK, Roles, HookSteps, WorkerSteps, Alive, Worklists, Working,
      Holding, Kept, TurnsCovered, QueuedCovered, HeldAsRead, Covered, Queued, Unclaim
  <1> QED BY <1>1, <1>2, <1>3, <1>4, <1>5 DEF OutboxInv

LEMMA FlushEndsKeeps ==
  ASSUME OutboxInv, NEW w \in Workers, FlushEnds(w)
  PROVE  OutboxInv'
  <1>1. TypeOK'
    BY DEF OutboxInv, TypeOK, Steps, FlushEnds, Rest
  <1>2. Fresh'
    BY DEF OutboxInv, TypeOK, Fresh, FreshEntry, FlushEnds, Rest
  <1>3. Roles'
    BY DEF OutboxInv, TypeOK, Roles, HookSteps, WorkerSteps, Alive, FlushEnds, Rest
  <1>4. Worklists'
    BY DEF OutboxInv, TypeOK, Roles, HookSteps, WorkerSteps, Worklists, Working, Holding,
      FlushEnds, Rest
  <1>5. Kept'
    BY DEF OutboxInv, TypeOK, Roles, HookSteps, WorkerSteps, Alive, Worklists, Working,
      Holding, Kept, TurnsCovered, QueuedCovered, HeldAsRead, Covered, Queued, FlushEnds,
      Rest
  <1> QED BY <1>1, <1>2, <1>3, <1>4, <1>5 DEF OutboxInv

LEMMA LeaseExpiresKeeps ==
  ASSUME OutboxInv, NEW t \in Turns, LeaseExpires(t)
  PROVE  OutboxInv'
  <1>1. TypeOK'
    BY DEF OutboxInv, TypeOK, Steps, LeaseExpires
  <1>2. Fresh'
    BY DEF OutboxInv, TypeOK, Fresh, FreshEntry, LeaseExpires
  <1>3. Roles'
    BY DEF OutboxInv, TypeOK, Roles, HookSteps, WorkerSteps, Alive, LeaseExpires
  <1>4. Worklists'
    BY DEF OutboxInv, TypeOK, Roles, HookSteps, WorkerSteps, Worklists, Working, Holding,
      LeaseExpires
  <1>5. Kept'
    BY DEF OutboxInv, TypeOK, Roles, HookSteps, WorkerSteps, Alive, Worklists, Working,
      Holding, Kept, TurnsCovered, QueuedCovered, HeldAsRead, Covered, Queued,
      LeaseExpires
  <1> QED BY <1>1, <1>2, <1>3, <1>4, <1>5 DEF OutboxInv

LEMMA KillKeeps ==
  ASSUME OutboxInv, NEW p \in Processes, Kill(p)
  PROVE  OutboxInv'
  <1>1. TypeOK'
    BY DEF OutboxInv, TypeOK, Steps, Kill, Fault, Rest
  <1>2. Fresh'
    BY DEF OutboxInv, TypeOK, Fresh, FreshEntry, Kill, Fault, Rest
  <1>3. Roles'
    BY DEF OutboxInv, TypeOK, Roles, HookSteps, WorkerSteps, Alive, Kill, Fault, Rest
  <1>4. Worklists'
    BY DEF OutboxInv, TypeOK, Roles, HookSteps, WorkerSteps, Worklists, Working, Holding,
      Kill, Fault, Rest
  <1>5. Kept'
    BY DEF OutboxInv, TypeOK, Roles, HookSteps, WorkerSteps, Alive, Worklists, Working,
      Holding, Kept, TurnsCovered, QueuedCovered, HeldAsRead, Covered, Queued, Kill,
      Fault, Rest
  <1> QED BY <1>1, <1>2, <1>3, <1>4, <1>5 DEF OutboxInv

LEMMA ErrorKeeps ==
  ASSUME OutboxInv, NEW p \in Processes, Error(p)
  PROVE  OutboxInv'
  BY ThrowKeeps DEF OutboxInv, TypeOK, Alive, Error, Fault

LEMMA UnlinkFailsKeeps ==
  ASSUME OutboxInv, NEW p \in Processes, UnlinkFails(p)
  PROVE  OutboxInv'
  <1>1. CASE pc[p] = "prune"
    <2>0. /\ faults' \in 0 .. MaxFaults
          /\ \E s \in Slots : seen' = [seen EXCEPT ![p][s] = None]
          /\ UNCHANGED <<files, pc, at, todo, old, answered>>
      BY <1>1 DEF OutboxInv, TypeOK, UnlinkFails, Fault, LeaveClaim
    <2>1. TypeOK'
      BY <1>1, <2>0 DEF OutboxInv, TypeOK, Steps
    <2>2. Fresh'
      BY <1>1, <2>0 DEF OutboxInv, TypeOK, Fresh, FreshEntry
    <2>3. Roles'
      BY <1>1, <2>0 DEF OutboxInv, TypeOK, Roles, HookSteps, WorkerSteps, Alive
    <2>4. Worklists'
      BY <1>1, <2>0 DEF OutboxInv, TypeOK, Roles, HookSteps, WorkerSteps, Worklists,
        Working, Holding
    <2>5. Kept'
      BY <1>1, <2>0 DEF OutboxInv, TypeOK, Roles, HookSteps, WorkerSteps, Alive,
        Worklists, Working, Holding, Kept, TurnsCovered, QueuedCovered, HeldAsRead,
        Covered, Queued
    <2> QED BY <2>1, <2>2, <2>3, <2>4, <2>5 DEF OutboxInv
  <1>2. CASE pc[p] = "remove"
    <2>0. /\ faults' \in 0 .. MaxFaults
          /\ todo' = [todo EXCEPT ![p] = @ \ {at[p]}]
          /\ at' = [at EXCEPT ![p] = 0]
          /\ pc' = [pc EXCEPT ![p] = "recover"]
          /\ UNCHANGED <<files, seen, old, answered>>
      BY <1>2 DEF OutboxInv, TypeOK, UnlinkFails, Fault, LeaveClaim
    <2>1. TypeOK'
      BY <1>2, <2>0 DEF OutboxInv, TypeOK, Steps
    <2>2. Fresh'
      BY <1>2, <2>0 DEF OutboxInv, TypeOK, Fresh, FreshEntry
    <2>3. Roles'
      BY <1>2, <2>0 DEF OutboxInv, TypeOK, Roles, HookSteps, WorkerSteps, Alive
    <2>4. Worklists'
      BY <1>2, <2>0 DEF OutboxInv, TypeOK, Roles, HookSteps, WorkerSteps, Worklists,
        Working, Holding
    <2>5. Kept'
      BY <1>2, <2>0 DEF OutboxInv, TypeOK, Roles, HookSteps, WorkerSteps, Alive,
        Worklists, Working, Holding, Kept, TurnsCovered, QueuedCovered, HeldAsRead,
        Covered, Queued
    <2> QED BY <2>1, <2>2, <2>3, <2>4, <2>5 DEF OutboxInv
  <1>3. CASE LeaveClaim(p)
    <2>0. /\ pc[p] = "unclaim"
          /\ faults' \in 0 .. MaxFaults
          /\ seen' = [seen EXCEPT ![p][at[p]] = None]
          /\ at' = [at EXCEPT ![p] = 0]
          /\ pc' = [pc EXCEPT ![p] = "flush"]
          /\ UNCHANGED <<files, todo, old, answered>>
      BY <1>3 DEF OutboxInv, TypeOK, UnlinkFails, Fault, LeaveClaim
    <2>1. TypeOK'
      BY <1>3, <2>0 DEF OutboxInv, TypeOK, Steps
    <2>2. Fresh'
      BY <1>3, <2>0 DEF OutboxInv, TypeOK, Fresh, FreshEntry
    <2>3. Roles'
      BY <1>3, <2>0 DEF OutboxInv, TypeOK, Roles, HookSteps, WorkerSteps, Alive
    <2>4. Worklists'
      BY <1>3, <2>0 DEF OutboxInv, TypeOK, Roles, HookSteps, WorkerSteps, Worklists,
        Working, Holding
    <2>5. Kept'
      BY <1>3, <2>0 DEF OutboxInv, TypeOK, Roles, HookSteps, WorkerSteps, Alive,
        Worklists, Working, Holding, Kept, TurnsCovered, QueuedCovered, HeldAsRead,
        Covered, Queued
    <2> QED BY <2>1, <2>2, <2>3, <2>4, <2>5 DEF OutboxInv
  <1> QED BY <1>1, <1>2, <1>3 DEF UnlinkFails

-----------------------------------------------------------------------------
(* Together: the invariant holds at first and is kept. *)

LEMMA InitEstablishes == Init => OutboxInv
  BY DEF Init, Starts, OutboxInv, TypeOK, Steps, Fresh, FreshEntry, Roles, HookSteps, WorkerSteps,
    Alive, Worklists, Working, Holding, Kept, TurnsCovered, QueuedCovered, HeldAsRead

LEMMA PruneAndRecoverKeeps ==
  ASSUME OutboxInv, NEW p \in Processes, PruneAndRecover(p)
  PROVE  OutboxInv'
  BY ScanKeeps, PruneKeeps, ListClaimsKeeps, LookAtClaimKeeps, MissClaimKeeps,
    RemoveClaimKeeps, RecoveredKeeps, StatusOnlyKeeps DEF PruneAndRecover

LEMMA HookKeeps ==
  ASSUME OutboxInv, NEW h \in Hooks, Hook(h)
  PROVE  OutboxInv'
  BY StopEventKeeps, CaptureKeeps, LookForDuplicateKeeps, PayloadConflictsKeeps,
    LinkKeeps, SlotTakenKeeps, OutboxFullKeeps, AcceptedKeeps DEF Hook

LEMMA WorkKeeps ==
  ASSUME OutboxInv, NEW w \in Workers, Work(w)
  PROVE  OutboxInv'
  BY PruneAndRecoverKeeps, SnapshotKeeps, SkipKeeps, ClaimKeeps, ReplyKeeps, DeliverKeeps,
    RewriteKeeps, UnclaimKeeps, FlushEndsKeeps DEF Work

LEMMA NextKeeps ==
  ASSUME OutboxInv, [Next]_vars
  PROVE  OutboxInv'
  <1>1. ASSUME NEW h \in Hooks, PruneAndRecover(h) \/ Hook(h) \/ Expire(h)
        PROVE  OutboxInv'
    BY <1>1, PruneAndRecoverKeeps, HookKeeps, ExpireKeeps
  <1>2. ASSUME NEW w \in Workers, Start(w) \/ Work(w)
        PROVE  OutboxInv'
    BY <1>2, StartKeeps, WorkKeeps
  <1>3. ASSUME NEW p \in Processes, Kill(p) \/ Error(p) \/ UnlinkFails(p)
        PROVE  OutboxInv'
    BY <1>3, KillKeeps, ErrorKeeps, UnlinkFailsKeeps
  <1>4. ASSUME NEW t \in Turns, LeaseExpires(t)
        PROVE  OutboxInv'
    BY <1>4, LeaseExpiresKeeps
  <1>5. CASE UNCHANGED vars
    BY <1>5 DEF vars, OutboxInv, TypeOK, Fresh, Roles, Alive, Worklists, Working, Holding,
      Kept, TurnsCovered, QueuedCovered, HeldAsRead, Covered, Queued
  <1> QED BY <1>1, <1>2, <1>3, <1>4, <1>5 DEF Next

\* The invariant holds in every reachable state.
THEOREM OutboxInvariant == Spec => []OutboxInv
  <1>1. Init => OutboxInv
    BY InitEstablishes
  <1>2. OutboxInv /\ [Next]_vars => OutboxInv'
    BY NextKeeps
  <1> QED BY <1>1, <1>2, PTL DEF Spec

-----------------------------------------------------------------------------
(* What it gives. *)

\* The files and the memory of every process keep their types; in particular
\* attempts are bounded.
THEOREM OutboxTypeCorrect == Spec => []TypeOK
  <1>1. OutboxInv => TypeOK
    BY DEF OutboxInv
  <1> QED BY <1>1, OutboxInvariant, PTL

\* A capture is in the turn store, answered for good or in the outbox as long as
\* no entry has outlived its TTL, whatever process is killed or fails where.
THEOREM CapturesAreNotLost == Spec => []NothingLost
  <1>1. OutboxInv => NothingLost
    BY DEF OutboxInv, Kept, TurnsCovered, Covered, NothingLost
  <1> QED BY <1>1, OutboxInvariant, PTL

\* The steps that change a base file leave an exhausted entry alone.
LEMMA ExhaustedUntouched ==
  ASSUME OutboxInv, Next, NEW s \in Slots, base[s] # None, base[s].failed, old = {}
  PROVE  base'[s] = base[s]
  <1> USE DEF OutboxInv, TypeOK
  <1>1. ASSUME NEW p \in Processes, NEW r \in Slots, Prune(p, r)
        PROVE  base'[s] = base[s]
    BY <1>1 DEF Prune
  <1>2. ASSUME NEW h \in Hooks, Link(h)
        PROVE  base'[s] = base[s]
    BY <1>2, SlotOfIsSlot DEF Link
  <1>3. ASSUME NEW w \in Workers, Deliver(w)
        PROVE  base'[s] = base[s]
    BY <1>3 DEF Deliver, Kept, HeldAsRead, Worklists, Working, Holding
  <1>4. ASSUME NEW w \in Workers, Rewrite(w)
        PROVE  base'[s] = base[s]
    BY <1>4 DEF Rewrite, Kept, HeldAsRead
  <1>5. CASE UNCHANGED base
    BY <1>5
  <1>6. \/ \E p \in Processes, r \in Slots : Prune(p, r)
        \/ \E h \in Hooks : Link(h)
        \/ \E w \in Workers : Deliver(w) \/ Rewrite(w)
        \/ UNCHANGED base
    BY DEF Next, PruneAndRecover, Hook, Work, Scan, ListClaims, LookAtClaim, MissClaim,
      RemoveClaim, Recovered, StatusOnly, StopEvent, Capture, LookForDuplicate,
      PayloadConflicts, SlotTaken, OutboxFull, Accepted, Expire, Start, Snapshot, Skip,
      Claim, Reply, Unclaim, FlushEnds, LeaseExpires, Kill, Error, UnlinkFails, LeaveClaim
  <1> QED BY <1>1, <1>2, <1>3, <1>4, <1>5, <1>6

\* An entry that has used up its attempts stays in its slot as it is until its
\* TTL.
THEOREM ExhaustedIsFinal == Spec => ExhaustedStays
  <1> DEFINE Stays == \A s \in Slots :
                        base[s] # None /\ base[s].failed /\ old = {} => base'[s] = base[s]
  <1>1. OutboxInv /\ [Next]_vars => [Stays]_base
    BY ExhaustedUntouched DEF vars
  <1> QED BY <1>1, OutboxInvariant, PTL DEF Spec, ExhaustedStays
=============================================================================
