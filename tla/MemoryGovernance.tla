---------------------------- MODULE MemoryGovernance ----------------------------
(***************************************************************************)
(* What the user decides about structured (L1) memories, and what a recall *)
(* answers meanwhile: edits, invalidations and deletions                   *)
(* (memory-mutations.ts over memory-state-ledger.ts), the review inbox     *)
(* (memory-reviews.ts over memory-review-ledger.ts), conflict and          *)
(* supersedes relations and validity windows (memory-governance.ts over    *)
(* memory-governance-ledger.ts), and recall-service.ts.  Erasure and       *)
(* retention (privacy-deletions.ts) write the same tables.                 *)
(*                                                                         *)
(* Each service has its own promise locks, and holds one across the        *)
(* request to the kernel; a ledger call is one synchronous step.  Erasure  *)
(* and retention take none of these locks.                                 *)
(***************************************************************************)
EXTENDS Integers, FiniteSets, FiniteSetsExt

CONSTANTS
  Memories,       \* L1 memory ids
  Requests,       \* HTTP requests that can wait for the kernel at once
  Terms,          \* of a relation or verdict: its reason and merged-content hash
  MergeTerms,     \* the terms that carry a merged content
  MaxChanges,     \* bound of the model: revisions, relations, open requests
  None

ASSUME GovernanceAssumption ==
  /\ MergeTerms \subseteq Terms
  /\ MaxChanges \in Nat
  /\ None \notin Memories

VARIABLES
  state,       \* personalmemory_memory_states
  review,      \* personalmemory_memory_reviews
  validity,    \* personalmemory_memory_validity, against the clock
  supersedes,  \* active relations of kind supersedes
  conflicts,   \* active relations of kind conflicts_with, which are symmetric
  req,         \* requests that wait for the kernel; a refusal changes nothing
  recall       \* a recall: the ids it holds, and has answered when idle; and, a
               \* history, the memories that were deleted at this or an earlier one

ledgers == <<state, review, validity, supersedes, conflicts>>
vars == <<ledgers, req, recall>>

Edges == [source : Memories, target : Memories, terms : Terms]
Pairs == [ends : SUBSET Memories, terms : Terms]

RequestRecords ==
  [op : {"none", "update", "delete", "review", "merge"},
   pc : {"idle", "sent", "applied"},
   m : Memories \cup {None}, to : Memories \cup {None},
   terms : Terms \cup {None}, rev : Nat]

NoRequest == [op |-> "none", pc |-> "idle", m |-> None, to |-> None,
              terms |-> None, rev |-> 0]

NoReview == [status |-> "pending", terms |-> None, rev |-> 0]
NoWindow == [window |-> "open", rev |-> 0]

Init ==
  /\ state = [m \in Memories |-> [status |-> "active", rev |-> 0]]
  /\ review = [m \in Memories |-> NoReview]
  /\ validity = [m \in Memories |-> NoWindow]
  /\ supersedes = {}
  /\ conflicts = {}
  /\ req = [r \in Requests |-> NoRequest]
  /\ recall = [pc |-> "idle", items |-> {}, gone |-> {}]

Busy(r) == req[r].pc # "idle"

\* Every write is taken from the bound when its request begins.
Spent ==
  LET Revisions(m) == state[m].rev + review[m].rev + validity[m].rev
  IN MapThenSumSet(Revisions, Memories) + Cardinality(supersedes)
       + Cardinality(conflicts) + Cardinality({r \in Requests : Busy(r)})

Bounded == Spent < MaxChanges

\* Mutant: an update does not take the lock.
StateLockIgnoresUpdates(m) ==
  \A r \in Requests : Busy(r) /\ req[r].op = "delete" => req[r].m # m

\* withLock of the three services: per memory, per memory, and per level.
StateLockFree(m) ==
  \A r \in Requests : Busy(r) /\ req[r].op \in {"update", "delete"} => req[r].m # m
ReviewLockFree(m) ==
  \A r \in Requests : Busy(r) /\ req[r].op = "review" => req[r].m # m
RelationLockFree ==
  \A r \in Requests : Busy(r) => req[r].op # "merge"

Closed(r) == req' = [req EXCEPT ![r] = NoRequest]

Sent(r, request) ==
  req' = [req EXCEPT ![r] = [request EXCEPT !.pc = "sent"]]

-----------------------------------------------------------------------------
(* The kernel's side of a request.  Its store is not modelled: it may return    *)
(* any id at any time, a deleted one after a rebuild of its index included.    *)

KernelApplies(r) ==
  /\ req[r].pc = "sent"
  /\ req' = [req EXCEPT ![r].pc = "applied"]
  /\ UNCHANGED <<ledgers, recall>>

\* It refuses, the request times out, or its answer is lost.  A request to
\* delete has answered 202 with its tombstone, the others UPSTREAM_REJECTED.
KernelFails(r) ==
  /\ Busy(r)
  /\ Closed(r)
  /\ UNCHANGED <<ledgers, recall>>

-----------------------------------------------------------------------------
(* memory-mutations.ts over memory-state-ledger.ts. *)

\* assertRevision of an update, which an invalidated memory refuses too.
Updatable(m, rev) == state[m].rev = rev /\ state[m].status = "active"

\* MemoryStateLedger.set accepts the write.
StateAccepts(m, status, rev) ==
  /\ state[m].rev = rev
  /\ state[m].status = "deleted" => status = "deleted"

SetState(m, status, rev) ==
  state' = [state EXCEPT ![m] = [status |-> status, rev |-> rev + 1]]

Update(r, m, rev) ==
  /\ ~Busy(r) /\ Bounded
  /\ StateLockFree(m)
  /\ Updatable(m, rev)
  /\ Sent(r, [NoRequest EXCEPT !.op = "update", !.m = m, !.rev = rev])
  /\ UNCHANGED <<ledgers, recall>>

\* The kernel has the new content; now the state.
UpdateSettles(r) ==
  /\ req[r].op = "update" /\ req[r].pc = "applied"
  /\ IF StateAccepts(req[r].m, "active", req[r].rev)
     THEN SetState(req[r].m, "active", req[r].rev)
     ELSE UNCHANGED state
  /\ Closed(r)
  /\ UNCHANGED <<review, validity, supersedes, conflicts, recall>>

\* Mutant: a tombstone can be invalidated.
InvalidateAny(m) ==
  /\ Bounded
  /\ StateLockFree(m)
  /\ SetState(m, "invalidated", state[m].rev)
  /\ UNCHANGED <<review, validity, supersedes, conflicts, req, recall>>

\* One synchronous step under the lock; a refusal changes nothing.
Invalidate(m) ==
  /\ Bounded
  /\ StateLockFree(m)
  /\ state[m].status # "deleted"
  /\ SetState(m, "invalidated", state[m].rev)
  /\ UNCHANGED <<review, validity, supersedes, conflicts, req, recall>>

\* The tombstone is committed before the kernel is asked; a repeated delete
\* keeps the tombstone there is and asks again.
Delete(r, m, rev) ==
  /\ ~Busy(r) /\ Bounded
  /\ StateLockFree(m)
  /\ state[m].rev = rev
  /\ IF state[m].status = "deleted" THEN UNCHANGED state
     ELSE SetState(m, "deleted", rev)
  /\ Sent(r, [NoRequest EXCEPT !.op = "delete", !.m = m, !.rev = rev])
  /\ UNCHANGED <<review, validity, supersedes, conflicts, recall>>

DeleteSettles(r) ==
  /\ req[r].op = "delete" /\ req[r].pc = "applied"
  /\ Closed(r)
  /\ UNCHANGED <<ledgers, recall>>

-----------------------------------------------------------------------------
(* memory-reviews.ts over memory-review-ledger.ts. *)

\* MemoryReviewLedger.set: a retry finds its own result and writes nothing.
Replayed(m, status, terms, rev) ==
  review[m] = [status |-> status, terms |-> terms, rev |-> rev + 1]

ReviewAccepts(m, status, terms, rev) ==
  review[m].rev = rev \/ Replayed(m, status, terms, rev)

SetReview(m, status, terms, rev) ==
  review' = IF review[m].rev = rev
            THEN [review EXCEPT ![m] =
                    [status |-> status, terms |-> terms, rev |-> rev + 1]]
            ELSE review

\* applyOne: an approval with content goes to the kernel first, whatever the
\* revision of the review is.
ReviewWithContent(r, m, terms, rev) ==
  /\ ~Busy(r) /\ Bounded
  /\ ReviewLockFree(m)
  /\ Sent(r, [NoRequest EXCEPT !.op = "review", !.m = m, !.terms = terms,
                               !.rev = rev])
  /\ UNCHANGED <<ledgers, recall>>

ReviewSettles(r) ==
  LET q == req[r]
  IN /\ q.op = "review" /\ q.pc = "applied"
     /\ SetReview(q.m, "approved", q.terms, q.rev)
     /\ Closed(r)
     /\ UNCHANGED <<state, validity, supersedes, conflicts, recall>>

\* The other items are decided in the step they begin in.
Review(m, status, terms, rev) ==
  /\ Bounded
  /\ ReviewLockFree(m)
  /\ ReviewAccepts(m, status, terms, rev)
  /\ SetReview(m, status, terms, rev)
  /\ UNCHANGED <<state, validity, supersedes, conflicts, req, recall>>

-----------------------------------------------------------------------------
(* memory-governance.ts over memory-governance-ledger.ts. *)

\* Some path of active supersedes edges leads from a to b: b is in every set
\* that holds the successors of a and the successors of its own members.
SupersedesPath(edges, a, b) ==
  \A S \in SUBSET Memories :
    (\A e \in edges : e.source = a \/ e.source \in S => e.target \in S) => b \in S

\* Mutant: only the direct cycle is refused.
ValidatedDirect(s, t, terms) ==
  LET found == {e \in supersedes : e.source = s /\ e.target = t}
  IN IF s = t \/ \E e \in supersedes : e.source = t /\ e.target = s THEN "cycle"
     ELSE IF \E e \in found : e.terms # terms THEN "conflict"
     ELSE IF found # {} THEN "exists"
     ELSE "new"

\* validateRelation of a supersedes relation.
Validated(s, t, terms) ==
  LET found == {e \in supersedes : e.source = s /\ e.target = t}
  IN IF s = t \/ SupersedesPath(supersedes, t, s) THEN "cycle"
     ELSE IF \E e \in found : e.terms # terms THEN "conflict"
     ELSE IF found # {} THEN "exists"
     ELSE "new"

\* addRelation of the ledger, which validates once more.
AddEdge(s, t, terms) ==
  supersedes' = IF Validated(s, t, terms) = "new"
                THEN supersedes \cup
                       {[source |-> s, target |-> t, terms |-> terms]}
                ELSE supersedes

\* Without merged content the service never leaves the step it began in.
Supersede(s, t, terms) ==
  /\ Bounded
  /\ RelationLockFree
  /\ terms \notin MergeTerms /\ Validated(s, t, terms) = "new"
  /\ AddEdge(s, t, terms)
  /\ UNCHANGED <<state, review, validity, conflicts, req, recall>>

\* A manual merge: the relation is valid, so the content is written first.
Merge(r, s, t, terms) ==
  /\ ~Busy(r) /\ Bounded
  /\ RelationLockFree
  /\ terms \in MergeTerms /\ Validated(s, t, terms) = "new"
  /\ Sent(r, [NoRequest EXCEPT !.op = "merge", !.m = s, !.to = t,
                               !.terms = terms])
  /\ UNCHANGED <<ledgers, recall>>

MergeSettles(r) ==
  /\ req[r].op = "merge" /\ req[r].pc = "applied"
  /\ AddEdge(req[r].m, req[r].to, req[r].terms)
  /\ Closed(r)
  /\ UNCHANGED <<state, review, validity, conflicts, recall>>

\* The pair is stored in one order; other terms for it are a conflict.
Oppose(a, b, terms) ==
  /\ Bounded
  /\ RelationLockFree
  /\ a # b
  /\ \A p \in conflicts : p.ends # {a, b}
  /\ conflicts' = conflicts \cup {[ends |-> {a, b}, terms |-> terms]}
  /\ UNCHANGED <<state, review, validity, supersedes, req, recall>>

\* Not under the lock; an active relation still has its first revision.
Revoke ==
  /\ \/ \E e \in supersedes : supersedes' = supersedes \ {e} /\ UNCHANGED conflicts
     \/ \E p \in conflicts : conflicts' = conflicts \ {p} /\ UNCHANGED supersedes
  /\ UNCHANGED <<state, review, validity, req, recall>>

\* Not under a lock either; the window as it stands to the clock now.
SetValidity(m, window) ==
  /\ Bounded
  /\ validity' = [validity EXCEPT ![m] = [window |-> window, rev |-> @.rev + 1]]
  /\ UNCHANGED <<state, review, supersedes, conflicts, req, recall>>

\* Time passes: a window begins or ends.
Elapse(m) ==
  /\ \/ validity[m].window = "before"
        /\ validity' = [validity EXCEPT ![m].window = "open"]
     \/ validity[m].window = "open" /\ validity[m].rev > 0
        /\ validity' = [validity EXCEPT ![m].window = "after"]
  /\ UNCHANGED <<state, review, supersedes, conflicts, req, recall>>

-----------------------------------------------------------------------------
(* privacy-deletions.ts, which runs beside all of this. *)

\* upsertTombstone: the status, whatever the row was and whoever waits; only a
\* first row gets a revision.
Erased(row) == [status |-> "deleted", rev |-> IF row.rev = 0 THEN 1 ELSE row.rev]

EraseState(m) ==
  /\ Bounded
  /\ state' = [state EXCEPT ![m] = Erased(@)]
  /\ UNCHANGED <<review, validity, supersedes, conflicts, req, recall>>

\* Mutant: the state row goes with the other rows.
EraseAllRows(m) ==
  /\ state[m].status = "deleted"
  /\ state' = [state EXCEPT ![m] = [status |-> "active", rev |-> 0]]
  /\ review' = [review EXCEPT ![m] = NoReview]
  /\ validity' = [validity EXCEPT ![m] = NoWindow]
  /\ supersedes' = {e \in supersedes : m \notin {e.source, e.target}}
  /\ conflicts' = {p \in conflicts : m \notin p.ends}
  /\ UNCHANGED <<req, recall>>

\* cleanupProductMetadata, in one transaction: every other row of the memory,
\* and the tombstone once more.  Both callers wrote it when they began.
EraseMetadata(m) ==
  /\ state[m].status = "deleted"
  /\ state' = [state EXCEPT ![m] = Erased(@)]
  /\ review' = [review EXCEPT ![m] = NoReview]
  /\ validity' = [validity EXCEPT ![m] = NoWindow]
  /\ supersedes' = {e \in supersedes : m \notin {e.source, e.target}}
  /\ conflicts' = {p \in conflicts : m \notin p.ends}
  /\ UNCHANGED <<req, recall>>

-----------------------------------------------------------------------------
(* recall-service.ts. *)

Suppressed(m) == state[m].status \in {"invalidated", "deleted"}
Approved(m) == review[m].status = "approved"
Recallable(m) ==
  /\ validity[m].window = "open"
  /\ \A e \in supersedes : e.target # m
  /\ \A p \in conflicts : m \notin p.ends
PassesGates(m) == ~Suppressed(m) /\ Approved(m) /\ Recallable(m)

Deleted == {m \in Memories : state[m].status = "deleted"}

\* The kernel has answered the search, with whatever ids; the other levels are
\* still awaited.
Fetch ==
  /\ recall.pc = "idle"
  /\ recall' = [pc |-> "fetched", items |-> Memories, gone |-> recall.gone \cup Deleted]
  /\ UNCHANGED <<ledgers, req>>

\* After the last await, the three gates in one step.  The budget then keeps a
\* prefix of what passed, which is not modelled.
Answer ==
  /\ recall.pc = "fetched"
  /\ recall' = [pc |-> "idle", items |-> {m \in recall.items : PassesGates(m)},
                gone |-> recall.gone \cup Deleted]
  /\ UNCHANGED <<ledgers, req>>

-----------------------------------------------------------------------------

\* A client sends any revision it was shown, of rows erased since included.
Shown == 0 .. MaxChanges

Mutations(r, m) ==
  \/ \E rev \in Shown : Update(r, m, rev) \/ Delete(r, m, rev)
  \/ Invalidate(m)

Reviews(r, m) ==
  \E rev \in Shown, terms \in Terms :
    \/ ReviewWithContent(r, m, terms, rev)
    \/ \E status \in {"approved", "rejected"} : Review(m, status, terms, rev)

Relations(r) ==
  \E s, t \in Memories, terms \in Terms :
    Supersede(s, t, terms) \/ Merge(r, s, t, terms) \/ Oppose(s, t, terms)

Settles(r) ==
  \/ UpdateSettles(r) \/ DeleteSettles(r) \/ ReviewSettles(r) \/ MergeSettles(r)
  \/ KernelApplies(r) \/ KernelFails(r)

Next ==
  \/ \E r \in Requests, m \in Memories : Mutations(r, m) \/ Reviews(r, m)
  \/ \E r \in Requests : Relations(r) \/ Settles(r)
  \/ \E m \in Memories :
       \/ Elapse(m) \/ EraseState(m) \/ EraseMetadata(m)
       \/ \E w \in {"before", "open", "after"} : SetValidity(m, w)
  \/ Revoke
  \/ Fetch \/ Answer

Spec == Init /\ [][Next]_vars
-----------------------------------------------------------------------------
(* Properties. *)

TypeOK ==
  /\ state \in [Memories -> [status : {"active", "invalidated", "deleted"},
                             rev : Nat]]
  /\ review \in [Memories -> [status : {"pending", "approved", "rejected"},
                              terms : Terms \cup {None}, rev : Nat]]
  /\ validity \in [Memories -> [window : {"before", "open", "after"}, rev : Nat]]
  /\ supersedes \subseteq Edges
  /\ conflicts \subseteq Pairs
  /\ req \in [Requests -> RequestRecords]
  /\ recall \in [pc : {"idle", "fetched"}, items : SUBSET Memories,
                gone : SUBSET Memories]

\* MEMORY_CONFLICT_GOVERNANCE.md:16: the active supersedes relations are free
\* of cycles, with revocations and merges awaiting the kernel in between.
Acyclic == \A m \in Memories : ~SupersedesPath(supersedes, m, m)

\* What an update or a merge checked before it asked the kernel still holds
\* until the kernel has answered, so neither writes the content and is then
\* refused as a conflict or a cycle (CONTROLLED_MUTATIONS.md:14,
\* MEMORY_CONFLICT_GOVERNANCE.md:13).  Of an update with one exception, an erasure
\* of the memory itself, which takes no lock and leaves its tombstone on the
\* very row the update has checked.
ChecksStillHold ==
  \A r \in Requests :
    /\ Busy(r) /\ req[r].op = "update" =>
         \/ Updatable(req[r].m, req[r].rev)
         \/ state[req[r].m] = Erased([status |-> "active", rev |-> req[r].rev])
    /\ Busy(r) /\ req[r].op = "merge" =>
         Validated(req[r].m, req[r].to, req[r].terms) = "new"

\* A tombstone is final, also for requests that began before it.
TombstonesStay ==
  [][\A m \in Memories : state[m].status = "deleted" => state'[m] = state[m]]_vars

\* A memory that was deleted when some recall began or ended is answered by none
\* from then on, whatever the kernel returns.  Erasure makes its review and its
\* window new rows of revision 0, so that requests of before fit them again and
\* a late approval opens every gate but one: the tombstone has to outlive them.
DeletedStaysForgotten ==
  recall.pc = "idle" => recall.items \cap recall.gone = {}
=============================================================================
