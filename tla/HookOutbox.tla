------------------------------ MODULE HookOutbox ------------------------------
(***************************************************************************)
(* The capture path of the Hook processes                                  *)
(* (scripts/personalmemory-hook-runtime.mjs): a Stop event starts a        *)
(* process that claims the staged turn, offers it to the Gateway and, when *)
(* the Gateway cannot be reached, puts it into the private outbox; the     *)
(* maintenance worker delivers what is in the outbox.                      *)
(*                                                                         *)
(* The processes share files only.  The outbox has N slots, each a base    *)
(* file with an entry and a claim file.  Every file operation is a step,   *)
(* except that the outbox is read at once and a claim is made and written  *)
(* at once: a claim whose writer was killed goes the way of any claim of a *)
(* dead process.  The turn store works under a lock of its own; what it    *)
(* does is one step.                                                       *)
(***************************************************************************)
EXTENDS Integers

CONSTANTS
  Turns,        \* turns to capture, each with its idempotency key
  Hooks,        \* processes started by Stop events; they name outbox entries
  Turn,         \* the turn of a process
  Workers,      \* maintenance worker processes, one after the other
  N,            \* MAX_OUTBOX_ENTRIES
  Preferred,    \* the slot a turn's key is tried at first
  MaxAttempts,  \* MAX_OUTBOX_ATTEMPTS
  MaxFaults,    \* bound of the model: kills and failing operations
  Expirable,    \* bound of the model: whose entries may outlive their TTL
  None

Slots == 0 .. N - 1

ASSUME OutboxAssumption ==
  /\ N \in Nat \ {0}
  /\ MaxAttempts \in Nat \ {0}
  /\ MaxFaults \in Nat
  /\ Expirable \subseteq Hooks
  /\ Turn \in [Hooks -> Turns]
  /\ Preferred \in [Turns -> Slots]
  /\ Hooks \cap Workers = {}
  /\ None \notin Hooks \cup Workers
  /\ \A e \in [hook : Hooks, attempts : 0 .. MaxAttempts, failed : BOOLEAN] : e # None

VARIABLES
  staged,   \* turns in the turn store
  lease,    \* per turn: the process that has claimed it in the turn store
  base,     \* per slot: the entry of the base file
  claim,    \* per slot: the worker named by the claim file
  pc,       \* per process: where it is
  at,       \* per process: the slot it works at, or how many it has tried
  seen,     \* per process: the entries it has read and still goes by
  todo,     \* per process: the claim files it has listed and not looked at
  old,      \* entries past their TTL
  answered, \* history: turns with a final answer of the Gateway to somebody
  faults    \* how many faults there were

files == <<staged, lease, base, claim>>
memory == <<pc, at, seen, todo>>
vars == <<files, memory, old, answered, faults>>

Processes == Hooks \cup Workers
Entries == [hook : Hooks, attempts : 0 .. MaxAttempts, failed : BOOLEAN]
Nothing == [s \in Slots |-> None]

\* Some of the processes never come up.
Starts(present) ==
  /\ staged = Turns
  /\ lease = [t \in Turns |-> None]
  /\ base = Nothing
  /\ claim = Nothing
  /\ pc = [p \in Processes |-> IF p \in present THEN "off" ELSE "ended"]
  /\ at = [p \in Processes |-> 0]
  /\ seen = [p \in Processes |-> Nothing]
  /\ todo = [p \in Processes |-> {}]
  /\ old = {}
  /\ answered = {}
  /\ faults = 0

Init == Starts(Processes)

Alive(w) == pc[w] \notin {"off", "ended"}

Goto(p, step) == pc' = [pc EXCEPT ![p] = step]
Put(s, e) == base' = [base EXCEPT ![s] = e]
PutClaim(s, w) == claim' = [claim EXCEPT ![s] = w]
Forget(p, s) == seen' = [seen EXCEPT ![p][s] = None]

\* What a process has in memory once it is through with the outbox.
Rest(p, step) ==
  /\ Goto(p, step)
  /\ at' = [at EXCEPT ![p] = 0]
  /\ seen' = [seen EXCEPT ![p] = Nothing]
  /\ todo' = [todo EXCEPT ![p] = {}]

\* release() of the turn store, with the token of the claim.
Release(h) ==
  lease' = [lease EXCEPT ![Turn[h]] = IF @ = h THEN None ELSE @]

\* acknowledge() of the turn store.
Acknowledge(h) ==
  /\ staged' = IF lease[Turn[h]] = h THEN staged \ {Turn[h]} ELSE staged
  /\ Release(h)

\* An exception: a Stop process gives the turn back and ends, the worker comes
\* again with its next round.
Throw(p) ==
  IF p \in Hooks THEN Rest(p, "ended") /\ Release(p)
                 ELSE Rest(p, "scan") /\ UNCHANGED lease

-----------------------------------------------------------------------------
(* #pruneAndRecover(), which every operation on the outbox begins with.    *)

Scan(p) ==
  /\ pc[p] = "scan"
  /\ seen' = [seen EXCEPT ![p] = base]
  /\ Goto(p, "prune")
  /\ UNCHANGED <<files, at, todo, old, answered, faults>>

\* The base file of an entry past its TTL is unlinked, whatever it holds now.
Prune(p, s) ==
  /\ pc[p] = "prune"
  /\ seen[p][s] # None
  /\ seen[p][s].hook \in old
  /\ Put(s, None)
  /\ Forget(p, s)
  /\ UNCHANGED <<staged, lease, claim, pc, at, todo, old, answered, faults>>

ListClaims(p) ==
  /\ pc[p] = "prune"
  /\ \A s \in Slots : seen[p][s] # None => seen[p][s].hook \notin old
  /\ todo' = [todo EXCEPT ![p] = {s \in Slots : claim[s] # None}]
  /\ seen' = [seen EXCEPT ![p] = Nothing]
  /\ Goto(p, "recover")
  /\ UNCHANGED <<files, at, old, answered, faults>>

\* Mutant: the process that wrote the claim is not looked for.
StaleWithoutBase(s) == base[s] = None

\* A claim left over: 30 seconds old and of a process that has ended, or
\* without a base file.
Stale(s) == pc[claim[s]] = "ended" \/ base[s] = None

LookAtClaim(p, s) ==
  /\ pc[p] = "recover"
  /\ s \in todo[p]
  /\ claim[s] # None
  /\ IF Stale(s)
     THEN Goto(p, "remove") /\ at' = [at EXCEPT ![p] = s] /\ UNCHANGED todo
     ELSE todo' = [todo EXCEPT ![p] = @ \ {s}] /\ UNCHANGED <<pc, at>>
  /\ UNCHANGED <<files, seen, old, answered, faults>>

\* lstat() of a claim that is gone throws.
MissClaim(p, s) ==
  /\ pc[p] = "recover"
  /\ s \in todo[p]
  /\ claim[s] = None
  /\ Throw(p)
  /\ UNCHANGED <<staged, base, claim, old, answered, faults>>

\* The claim file is unlinked, whoever made it by now.
RemoveClaim(p) ==
  /\ pc[p] = "remove"
  /\ PutClaim(at[p], None)
  /\ todo' = [todo EXCEPT ![p] = @ \ {at[p]}]
  /\ at' = [at EXCEPT ![p] = 0]
  /\ Goto(p, "recover")
  /\ UNCHANGED <<staged, lease, base, seen, old, answered, faults>>

Recovered(p) ==
  /\ pc[p] = "recover"
  /\ todo[p] = {}
  /\ Goto(p, IF p \in Hooks THEN "check" ELSE "snapshot")
  /\ UNCHANGED <<files, at, seen, todo, old, answered, faults>>

\* Each round of the worker ends with status(), and is nothing else while the
\* Gateway does not tell its authorization.
StatusOnly(w) ==
  /\ w \in Workers
  /\ pc[w] = "recover"
  /\ todo[w] = {}
  /\ Goto(w, "scan")
  /\ UNCHANGED <<files, at, seen, todo, old, answered, faults>>

PruneAndRecover(p) ==
  \/ Scan(p) \/ ListClaims(p) \/ RemoveClaim(p) \/ Recovered(p) \/ StatusOnly(p)
  \/ \E s \in Slots : Prune(p, s) \/ LookAtClaim(p, s) \/ MissClaim(p, s)

-----------------------------------------------------------------------------
(* A Stop process: #stop() and enqueue().                                  *)

StopEvent(h) ==
  /\ pc[h] = "off"
  /\ Turn[h] \in staged
  /\ lease[Turn[h]] = None
  /\ lease' = [lease EXCEPT ![Turn[h]] = h]
  /\ Goto(h, "capture")
  /\ UNCHANGED <<staged, base, claim, at, seen, todo, old, answered, faults>>

\* A final answer, which a protocol error counts as; or none, and the turn
\* goes to the outbox.  An answer the process is killed over is no answer.
Capture(h) ==
  /\ pc[h] = "capture"
  /\ \/ /\ answered' = answered \cup {Turn[h]}
        /\ Acknowledge(h)
        /\ Goto(h, "ended")
     \/ /\ Goto(h, "scan")
        /\ UNCHANGED <<staged, lease, answered>>
  /\ UNCHANGED <<base, claim, at, seen, todo, old, faults>>

\* records.find() of an entry with the same idempotency key.
Queued(t) == \E s \in Slots : base[s] # None /\ Turn[base[s].hook] = t

LookForDuplicate(h) ==
  /\ pc[h] \in {"check", "again"}
  /\ Goto(h, IF Queued(Turn[h]) THEN "queued" ELSE "link")
  /\ UNCHANGED <<files, at, seen, todo, old, answered, faults>>

\* The entry of the same turn has another text: a client may send two Stop
\* events of a turn.  Whether it does is left open.
PayloadConflicts(h) ==
  /\ pc[h] \in {"check", "again"}
  /\ Queued(Turn[h])
  /\ Throw(h)
  /\ UNCHANGED <<staged, base, claim, old, answered, faults>>

SlotOf(h) == (Preferred[Turn[h]] + at[h]) % N

\* link() of the temporary file, which fails when the base file exists.
Link(h) ==
  /\ pc[h] = "link"
  /\ base[SlotOf(h)] = None
  /\ Put(SlotOf(h), [hook |-> h, attempts |-> 0, failed |-> FALSE])
  /\ Goto(h, "queued")
  /\ UNCHANGED <<staged, lease, claim, at, seen, todo, old, answered, faults>>

\* The slot is taken: a duplicate is looked for before the next one is tried.
SlotTaken(h) ==
  /\ pc[h] = "link"
  /\ base[SlotOf(h)] # None
  /\ at[h] + 1 < N
  /\ at' = [at EXCEPT ![h] = @ + 1]
  /\ Goto(h, "again")
  /\ UNCHANGED <<files, seen, todo, old, answered, faults>>

\* The last slot is taken too: the outbox is full, unless with the same turn.
OutboxFull(h) ==
  /\ pc[h] = "link"
  /\ base[SlotOf(h)] # None
  /\ at[h] + 1 = N
  /\ \/ Throw(h)
     \/ Queued(Turn[h]) /\ Goto(h, "queued") /\ UNCHANGED <<at, seen, todo, lease>>
  /\ UNCHANGED <<staged, base, claim, old, answered, faults>>

\* enqueue() returns and the turn is acknowledged.
Accepted(h) ==
  /\ pc[h] = "queued"
  /\ Acknowledge(h)
  /\ Rest(h, "ended")
  /\ UNCHANGED <<base, claim, old, answered, faults>>

Hook(h) ==
  \/ StopEvent(h) \/ Capture(h) \/ LookForDuplicate(h) \/ PayloadConflicts(h)
  \/ Link(h) \/ SlotTaken(h) \/ OutboxFull(h) \/ Accepted(h)

-----------------------------------------------------------------------------
(* The worker: flush().                                                    *)

\* The start command spawns it, under the lifecycle lock and when the processes
\* of the start before have ended.
Start(w) ==
  /\ pc[w] = "off"
  /\ \A v \in Workers : ~Alive(v)
  /\ Goto(w, "scan")
  /\ UNCHANGED <<files, at, seen, todo, old, answered, faults>>

\* The entries of this flush; a failed one is passed over.
Snapshot(w) ==
  /\ pc[w] = "snapshot"
  /\ seen' = [seen EXCEPT ![w] =
       [s \in Slots |-> IF base[s] # None /\ ~base[s].failed THEN base[s] ELSE None]]
  /\ Goto(w, "flush")
  /\ UNCHANGED <<files, at, todo, old, answered, faults>>

\* Claimed by another, or not due yet after a first attempt.
Skip(w, s) ==
  /\ pc[w] = "flush"
  /\ seen[w][s] # None
  /\ claim[s] # None \/ seen[w][s].attempts > 0
  /\ Forget(w, s)
  /\ UNCHANGED <<files, pc, at, todo, old, answered, faults>>

\* writeFile(claim, flag "wx"), then the request.
Claim(w, s) ==
  /\ pc[w] = "flush"
  /\ seen[w][s] # None
  /\ claim[s] = None
  /\ PutClaim(s, w)
  /\ at' = [at EXCEPT ![w] = s]
  /\ Goto(w, "sent")
  /\ UNCHANGED <<staged, lease, base, seen, todo, old, answered, faults>>

\* #defer() and #fail(): what the entry becomes.
Rewritten(e, failed) == [hook |-> e.hook, attempts |-> e.attempts + 1, failed |-> failed]
Deferred(e) == Rewritten(e, e.attempts + 1 >= MaxAttempts)
Failed(e) == Rewritten(e, TRUE)

\* The Gateway answers or does not; without its claim the worker leaves the
\* entry as it is.
Reply(w) ==
  LET s == at[w]  e == seen[w][s]  owns == claim[s] = w IN
  /\ pc[w] = "sent"
  /\ \/ /\ answered' = answered \cup {Turn[e.hook]}
        /\ IF owns THEN Goto(w, "deliver") /\ UNCHANGED seen
                   ELSE Goto(w, "flush") /\ Forget(w, s)
     \/ /\ IF owns THEN /\ Goto(w, "rewrite")
                        /\ \E f \in {Deferred(e), Failed(e)} :
                             seen' = [seen EXCEPT ![w][s] = f]
                   ELSE Goto(w, "flush") /\ Forget(w, s)
        /\ UNCHANGED answered
  /\ UNCHANGED <<files, at, todo, old, faults>>

\* unlink() of the base file, which throws when there is none.
Deliver(w) ==
  /\ pc[w] = "deliver"
  /\ IF base[at[w]] = None
     THEN Throw(w) /\ UNCHANGED base
     ELSE Put(at[w], None) /\ Goto(w, "unclaim") /\ UNCHANGED <<lease, at, seen, todo>>
  /\ UNCHANGED <<staged, claim, old, answered, faults>>

\* Mutant: the base file is unlinked before the new one is written.
RewriteInPlace(w) ==
  /\ pc[w] = "rewrite"
  /\ IF base[at[w]] = None THEN Put(at[w], seen[w][at[w]]) /\ Goto(w, "unclaim")
                           ELSE Put(at[w], None) /\ UNCHANGED pc
  /\ UNCHANGED <<staged, lease, claim, at, seen, todo, old, answered, faults>>

\* rename() of the temporary file over the base file.
Rewrite(w) ==
  /\ pc[w] = "rewrite"
  /\ Put(at[w], seen[w][at[w]])
  /\ Goto(w, "unclaim")
  /\ UNCHANGED <<staged, lease, claim, at, seen, todo, old, answered, faults>>

LeaveClaim(w) ==
  /\ pc[w] = "unclaim"
  /\ Forget(w, at[w])
  /\ at' = [at EXCEPT ![w] = 0]
  /\ Goto(w, "flush")
  /\ UNCHANGED <<files, todo>>

Unclaim(w) ==
  /\ pc[w] = "unclaim"
  /\ PutClaim(at[w], None)
  /\ Forget(w, at[w])
  /\ at' = [at EXCEPT ![w] = 0]
  /\ Goto(w, "flush")
  /\ UNCHANGED <<staged, lease, base, todo, old, answered, faults>>

FlushEnds(w) ==
  /\ pc[w] = "flush"
  /\ seen[w] = Nothing
  /\ Rest(w, "scan")
  /\ UNCHANGED <<files, old, answered, faults>>

Work(w) ==
  \/ PruneAndRecover(w)
  \/ Snapshot(w) \/ Reply(w) \/ Deliver(w) \/ Rewrite(w) \/ Unclaim(w) \/ FlushEnds(w)
  \/ \E s \in Slots : Skip(w, s) \/ Claim(w, s)

-----------------------------------------------------------------------------
(* Time and faults.                                                        *)

\* Half a minute, and the turn can be claimed again.
LeaseExpires(t) ==
  /\ lease[t] # None
  /\ lease' = [lease EXCEPT ![t] = None]
  /\ UNCHANGED <<staged, base, claim, memory, old, answered, faults>>

\* A day passes over the entry; a Stop process lives for seconds.
Expire(h) ==
  /\ h \in Expirable \ old
  /\ pc[h] = "ended"
  /\ \E s \in Slots : base[s] # None /\ base[s].hook = h
  /\ old' = old \cup {h}
  /\ UNCHANGED <<files, memory, answered, faults>>

Fault ==
  /\ faults < MaxFaults
  /\ faults' = faults + 1

Kill(p) ==
  /\ Fault
  /\ Alive(p)
  /\ Rest(p, "ended")
  /\ UNCHANGED <<files, old, answered>>

\* A file operation fails; a worker leaves the claim it has behind.
Error(p) ==
  /\ Fault
  /\ pc[p] \notin {"off", "ended", "capture", "remove", "sent", "unclaim"}
  /\ Throw(p)
  /\ UNCHANGED <<staged, base, claim, old, answered>>

\* An unlink() fails whose failure is caught: the file stays.
UnlinkFails(p) ==
  /\ Fault
  /\ \/ /\ pc[p] = "prune"
        /\ \E s \in Slots :
             seen[p][s] # None /\ seen[p][s].hook \in old /\ Forget(p, s)
        /\ UNCHANGED <<files, pc, at, todo>>
     \/ /\ pc[p] = "remove"
        /\ todo' = [todo EXCEPT ![p] = @ \ {at[p]}]
        /\ at' = [at EXCEPT ![p] = 0]
        /\ Goto(p, "recover")
        /\ UNCHANGED <<files, seen>>
     \/ LeaveClaim(p)
  /\ UNCHANGED <<old, answered>>

Next ==
  \/ \E h \in Hooks : PruneAndRecover(h) \/ Hook(h) \/ Expire(h)
  \/ \E w \in Workers : Start(w) \/ Work(w)
  \/ \E p \in Processes : Kill(p) \/ Error(p) \/ UnlinkFails(p)
  \/ \E t \in Turns : LeaseExpires(t)

Spec == Init /\ [][Next]_vars

\* A worker that runs goes on and its requests end after a second.  The Gateway
\* tells its authorization again and again, so that some rounds flush, and an
\* entry is due again after a minute at the latest: it is not skipped for ever.
Fairness ==
  \A w \in Workers :
    /\ WF_vars(Work(w))
    /\ SF_vars(Recovered(w))
    /\ \A s \in Slots : SF_vars(Claim(w, s))

FairSpec == Spec /\ Fairness

-----------------------------------------------------------------------------
(* Properties.                                                             *)

Steps == {"off", "capture", "scan", "prune", "recover", "remove", "check",
          "link", "again", "queued", "snapshot", "flush", "sent", "deliver",
          "rewrite", "unclaim", "ended"}

TypeOK ==
  /\ staged \subseteq Turns
  /\ lease \in [Turns -> Hooks \cup {None}]
  /\ base \in [Slots -> Entries \cup {None}]
  /\ claim \in [Slots -> Workers \cup {None}]
  /\ pc \in [Processes -> Steps]
  /\ at \in [Processes -> Slots]
  /\ seen \in [Processes -> [Slots -> Entries \cup {None}]]
  /\ todo \in [Processes -> SUBSET Slots]
  /\ old \subseteq Hooks
  /\ answered \subseteq Turns
  /\ faults \in 0 .. MaxFaults

\* A turn that has left the turn store has its final answer or is in the
\* outbox, whatever process was killed or failed where, as long as no entry
\* has outlived its TTL and one worker runs at a time.
NothingLost ==
  old = {} => \A t \in Turns : t \in staged \cup answered \/ Queued(t)

\* An entry that has used up its attempts is neither sent again nor touched
\* until its TTL, with Stop processes and new workers coming and going.
ExhaustedStays ==
  [][\A s \in Slots :
       base[s] # None /\ base[s].failed /\ old = {} => base'[s] = base[s]]_base

Pending(s, h) == base[s] # None /\ base[s].hook = h /\ ~base[s].failed

\* A claim that its worker is not working under any more.
LeftBehind(s) ==
  /\ claim[s] # None
  /\ Alive(claim[s])
  /\ ~(pc[claim[s]] \in {"sent", "deliver", "rewrite", "unclaim"} /\ at[claim[s]] = s)

\* An entry does not stay pending for ever while a worker runs, unless a failed
\* file operation left the worker's own claim on its slot.
EntriesSettle ==
  \A h \in Hooks :
    (\E s \in Slots : Pending(s, h)) ~>
      \/ \A s \in Slots : Pending(s, h) => LeftBehind(s)
      \/ \A w \in Workers : ~Alive(w)
=============================================================================
