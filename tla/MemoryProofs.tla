------------------------------ MODULE MemoryProofs ------------------------------
(***************************************************************************)
(* Theorems about the two components a memory passes through: the kernel   *)
(* pipeline that makes it (MemoryPipeline) and the Gateway's edits,        *)
(* reviews, relations and recall of it (MemoryGovernance), for every set   *)
(* of sessions, memories and requests and every bound.                     *)
(*                                                                         *)
(* Governance.  SupersedesPath speaks of closed sets, so a path is refuted *)
(* by naming a closed set that misses its end; the inductive invariant     *)
(* GovInv adds to the checked properties that requests are well formed and *)
(* that two of them never hold the same lock.                              *)
(*                                                                         *)
(* Pipeline.  PipelineInv is the inductive invariant: the types, the rows  *)
(* and cursors of the sessions and of the L1 run (RowsInv), which run the  *)
(* queues and the calls of the persister serve (QueueInv), the sessions    *)
(* the manager knows (KnownInv) and what a stopped scheduler holds         *)
(* (OffInv).  Each checked property of the pipeline is then proved with    *)
(* the few facts it adds about what a session waits for.                   *)
(***************************************************************************)
EXTENDS MemoryGovernance, MemoryPipeline, SequenceTheorems, FiniteSetTheorems,
        WellFoundedInduction, TLAPS

(***************************************************************************)
(* MEMORY GOVERNANCE                                                       *)
(***************************************************************************)

-----------------------------------------------------------------------------
(* Paths. *)

ClosedFrom(edges, a, S) ==
  \A e \in edges : e.source = a \/ e.source \in S => e.target \in S

\* A closed set that misses the end refutes a path.
LEMMA NoPathFrom ==
  ASSUME NEW edges, NEW a, NEW b, NEW S \in SUBSET Memories,
         ClosedFrom(edges, a, S), b \notin S
  PROVE  ~SupersedesPath(edges, a, b)
  BY DEF ClosedFrom, SupersedesPath

\* Where there is no path some closed set misses the end.
LEMMA NoPathGives ==
  ASSUME NEW edges, NEW a, NEW b, ~SupersedesPath(edges, a, b)
  PROVE  \E S \in SUBSET Memories : ClosedFrom(edges, a, S) /\ b \notin S
  BY DEF ClosedFrom, SupersedesPath

\* Revoking relations makes no path.
LEMMA FewerEdges ==
  ASSUME NEW edges, NEW kept \in SUBSET edges, NEW a, NEW b,
         ~SupersedesPath(edges, a, b)
  PROVE  ~SupersedesPath(kept, a, b)
  <1>1. PICK S \in SUBSET Memories : ClosedFrom(edges, a, S) /\ b \notin S
    BY NoPathGives
  <1>2. ClosedFrom(kept, a, S)
    BY <1>1 DEF ClosedFrom
  <1> QED BY <1>1, <1>2, NoPathFrom

\* A new edge from s to t makes no cycle where none was, when t does not lead
\* to s: the check before the insert is enough.
LEMMA EdgeKeepsAcyclic ==
  ASSUME NEW edges \in SUBSET Edges, NEW s \in Memories, NEW t \in Memories,
         NEW terms \in Terms, s # t, ~SupersedesPath(edges, t, s),
         \A m \in Memories : ~SupersedesPath(edges, m, m)
  PROVE  LET more == edges \cup {[source |-> s, target |-> t, terms |-> terms]}
         IN \A m \in Memories : ~SupersedesPath(more, m, m)
  <1> DEFINE new == [source |-> s, target |-> t, terms |-> terms]
             more == edges \cup {new}
  <1>1. PICK C \in SUBSET Memories : ClosedFrom(edges, t, C) /\ s \notin C
    BY NoPathGives
  <1> DEFINE D == C \cup {t}
  <1>2. \A e \in edges : e.source \in D => e.target \in D
    BY <1>1 DEF ClosedFrom
  <1>3. s \notin D
    BY <1>1
  <1>4. SUFFICES ASSUME NEW m \in Memories
                 PROVE  ~SupersedesPath(more, m, m)
    OBVIOUS
  <1>5. PICK A \in SUBSET Memories : ClosedFrom(edges, m, A) /\ m \notin A
    BY NoPathGives
  <1>6. CASE m \in D
    <2>1. ClosedFrom(more, m, A \cap D)
      BY <1>2, <1>3, <1>5, <1>6 DEF ClosedFrom
    <2> QED BY <1>5, <2>1, NoPathFrom
  <1>7. CASE m \notin D
    <2>1. ClosedFrom(more, m, A \cup D)
      BY <1>2, <1>5 DEF ClosedFrom
    <2>2. m \notin A \cup D
      BY <1>5, <1>7
    <2>3. A \cup D \in SUBSET Memories
      OBVIOUS
    <2> QED BY <2>1, <2>2, <2>3, NoPathFrom
  <1> QED BY <1>6, <1>7

-----------------------------------------------------------------------------
(* The inductive invariant. *)

\* A request that waits names the memories and terms it was sent with.
RequestsFit ==
  \A r \in Requests : Busy(r) =>
    /\ req[r].op # "none" /\ req[r].m \in Memories
    /\ req[r].op \in {"review", "merge"} => req[r].terms \in Terms
    /\ req[r].op = "merge" => req[r].to \in Memories

\* Two requests never hold one lock of the mutation or the governance service.
LocksHeld ==
  \A r, q \in Requests : Busy(r) /\ Busy(q) /\ r # q =>
    /\ req[r].op \in {"update", "delete"} /\ req[q].op \in {"update", "delete"}
         => req[r].m # req[q].m
    /\ ~(req[r].op = "merge" /\ req[q].op = "merge")

UpdatesHold ==
  \A r \in Requests :
    Busy(r) /\ req[r].op = "update" =>
      \/ Updatable(req[r].m, req[r].rev)
      \/ state[req[r].m] = Erased([status |-> "active", rev |-> req[r].rev])
MergesHold ==
  \A r \in Requests :
    Busy(r) /\ req[r].op = "merge" =>
      Validated(req[r].m, req[r].to, req[r].terms) = "new"


\* A tombstone is a row, which has had a revision; what a recall found deleted
\* still is, and is not in its answer.
GoneHold ==
  /\ \A m \in Memories : state[m].status = "deleted" => state[m].rev # 0
  /\ \A m \in recall.gone : state[m].status = "deleted"
  /\ DeletedStaysForgotten

GovInv ==
  /\ TypeOK /\ RequestsFit /\ LocksHeld /\ UpdatesHold /\ MergesHold /\ Acyclic
  /\ GoneHold

\* What validateRelation answers for a relation that may be added.
LEMMA ValidatedNew ==
  ASSUME NEW s, NEW t, NEW terms
  PROVE  Validated(s, t, terms) = "new" <=>
           /\ s # t /\ ~SupersedesPath(supersedes, t, s)
           /\ \A e \in supersedes : ~(e.source = s /\ e.target = t)
  BY DEF Validated

\* The invariant holds initially.
LEMMA InvInit == Init => GovInv
  <1> SUFFICES ASSUME Init PROVE GovInv
    OBVIOUS
  <1> USE GovernanceAssumption
  <1>1. \A r \in Requests : ~Busy(r)
    BY DEF Init, Busy, NoRequest, RequestRecords
  <1>2. TypeOK /\ GoneHold
    BY DEF Init, TypeOK, NoRequest, RequestRecords, NoReview, NoWindow, GoneHold,
           DeletedStaysForgotten
  <1>3. Acyclic
    <2>1. \A m \in Memories : ClosedFrom({}, m, {})
      BY DEF ClosedFrom
    <2> QED BY <2>1, NoPathFrom DEF Init, Acyclic
  <1> QED BY <1>1, <1>2, <1>3 DEF GovInv, RequestsFit, LocksHeld, UpdatesHold, MergesHold

-----------------------------------------------------------------------------
(* The type invariant is preserved. *)

LEMMA TypeStep ==
  ASSUME TypeOK, RequestsFit, [Next]_vars
  PROVE  TypeOK'
  <1> USE GovernanceAssumption DEF TypeOK
  <1>1. ASSUME NEW r \in Requests, NEW m \in Memories, Mutations(r, m)
        PROVE  TypeOK'
    <2>1. ASSUME NEW rev \in Shown, Update(r, m, rev) PROVE TypeOK'
      <3>1. rev \in Nat
        BY DEF Shown
      <3> QED BY <2>1, <3>1 DEF Update, Sent, NoRequest, RequestRecords, ledgers
    <2>2. ASSUME NEW rev \in Shown, Delete(r, m, rev) PROVE TypeOK'
      <3>1. rev \in Nat
        BY DEF Shown
      <3>2. req' \in [Requests -> RequestRecords]
        BY <2>2, <3>1 DEF Delete, Sent, NoRequest, RequestRecords
      <3>3. state' \in [Memories ->
              [status : {"active", "invalidated", "deleted"}, rev : Nat]]
        BY <2>2, <3>1 DEF Delete, SetState
      <3> QED BY <2>2, <3>2, <3>3 DEF Delete
    <2>3. ASSUME Invalidate(m) PROVE TypeOK'
      BY <2>3 DEF Invalidate, SetState
    <2> QED BY <1>1, <2>1, <2>2, <2>3 DEF Mutations
  <1>2. ASSUME NEW r \in Requests, NEW m \in Memories, Reviews(r, m)
        PROVE  TypeOK'
    <2>1. ASSUME NEW rev \in Shown, NEW terms \in Terms,
                 ReviewWithContent(r, m, terms, rev)
          PROVE  TypeOK'
      <3>1. rev \in Nat
        BY DEF Shown
      <3> QED BY <2>1, <3>1 DEF ReviewWithContent, Sent, NoRequest, RequestRecords, ledgers
    <2>2. ASSUME NEW rev \in Shown, NEW terms \in Terms,
                 NEW status \in {"approved", "rejected"},
                 Review(m, status, terms, rev)
          PROVE  TypeOK'
      BY <2>2 DEF Review, SetReview, Shown
    <2> QED BY <1>2, <2>1, <2>2 DEF Reviews
  <1>3. ASSUME NEW r \in Requests, Relations(r)
        PROVE  TypeOK'
    <2> PICK s \in Memories, t \in Memories, terms \in Terms :
          Supersede(s, t, terms) \/ Merge(r, s, t, terms) \/ Oppose(s, t, terms)
      BY <1>3 DEF Relations
    <2>1. CASE Supersede(s, t, terms)
      BY <2>1 DEF Supersede, AddEdge, Edges
    <2>2. CASE Merge(r, s, t, terms)
      BY <2>2 DEF Merge, Sent, NoRequest, RequestRecords, ledgers
    <2>3. CASE Oppose(s, t, terms)
      BY <2>3 DEF Oppose, Pairs
    <2> QED BY <2>1, <2>2, <2>3
  <1>4. ASSUME NEW r \in Requests, Settles(r)
        PROVE  TypeOK'
    <2>1. CASE UpdateSettles(r)
      <3>1. req[r].m \in Memories
        BY <2>1 DEF UpdateSettles, RequestsFit, Busy
      <3>2. req[r].rev \in Nat
        BY DEF RequestRecords
      <3>3. state' \in [Memories ->
              [status : {"active", "invalidated", "deleted"}, rev : Nat]]
        BY <2>1, <3>1, <3>2 DEF UpdateSettles, SetState
      <3> QED BY <2>1, <3>3 DEF UpdateSettles, Closed, NoRequest, RequestRecords
    <2>2. CASE DeleteSettles(r)
      BY <2>2 DEF DeleteSettles, Closed, NoRequest, RequestRecords, ledgers
    <2>3. CASE ReviewSettles(r)
      <3>1. req[r].m \in Memories /\ req[r].terms \in Terms
        BY <2>3 DEF ReviewSettles, RequestsFit, Busy
      <3>2. req[r].rev \in Nat
        BY DEF RequestRecords
      <3>3. review' \in [Memories ->
              [status : {"pending", "approved", "rejected"},
               terms : Terms \cup {None}, rev : Nat]]
        BY <2>3, <3>1, <3>2 DEF ReviewSettles, SetReview
      <3> QED BY <2>3, <3>3 DEF ReviewSettles, Closed, NoRequest, RequestRecords
    <2>4. CASE MergeSettles(r)
      <3>1. req[r].m \in Memories /\ req[r].to \in Memories /\ req[r].terms \in Terms
        BY <2>4 DEF MergeSettles, RequestsFit, Busy
      <3> QED BY <2>4, <3>1 DEF MergeSettles, AddEdge, Edges, Closed, NoRequest, RequestRecords
    <2>5. CASE KernelApplies(r)
      <3>1. ASSUME NEW q \in RequestRecords
            PROVE  [q EXCEPT !.pc = "applied"] \in RequestRecords
        BY DEF RequestRecords
      <3>2. req' = [req EXCEPT ![r] = [req[r] EXCEPT !.pc = "applied"]]
        BY <2>5 DEF KernelApplies
      <3> QED BY <2>5, <3>1, <3>2 DEF KernelApplies, ledgers
    <2>6. CASE KernelFails(r)
      BY <2>6 DEF KernelFails, Closed, NoRequest, RequestRecords, ledgers
    <2> QED BY <1>4, <2>1, <2>2, <2>3, <2>4, <2>5, <2>6 DEF Settles
  <1>5. ASSUME NEW m \in Memories, Elapse(m) PROVE TypeOK'
    <2>1. \A w \in {"open", "after"} : [validity[m] EXCEPT !.window = w] \in
            [window : {"before", "open", "after"}, rev : Nat]
      OBVIOUS
    <2>2. \E w \in {"open", "after"} :
            validity' = [validity EXCEPT ![m] = [validity[m] EXCEPT !.window = w]]
      BY <1>5 DEF Elapse
    <2> QED BY <1>5, <2>1, <2>2 DEF Elapse
  <1>6. ASSUME NEW m \in Memories, NEW w \in {"before", "open", "after"},
               SetValidity(m, w)
        PROVE  TypeOK'
    BY <1>6 DEF SetValidity
  <1>7. CASE Revoke
    BY <1>7 DEF Revoke
  <1>8. CASE Fetch \/ Answer
    BY <1>8 DEF Fetch, Answer, ledgers, Deleted
  <1>9. CASE UNCHANGED vars
    BY <1>9 DEF vars, ledgers
  <1>10. ASSUME NEW m \in Memories, EraseState(m) \/ EraseMetadata(m) PROVE TypeOK'
    <2>1. Erased(state[m]) \in [status : {"active", "invalidated", "deleted"}, rev : Nat]
      BY DEF Erased
    <2>2. CASE EraseState(m)
      BY <2>1, <2>2 DEF EraseState
    <2>3. CASE EraseMetadata(m)
      BY <2>1, <2>3 DEF EraseMetadata, NoReview, NoWindow
    <2> QED BY <1>10, <2>2, <2>3
  <1> QED BY <1>1, <1>2, <1>3, <1>4, <1>5, <1>6, <1>7, <1>8, <1>9, <1>10 DEF Next

-----------------------------------------------------------------------------
(* Requests and their locks. *)

\* A step after which every waiting request waited before, for the same thing.
NoNewRequest ==
  \A q \in Requests : Busy(q)' =>
    /\ Busy(q)
    /\ req'[q].op = req[q].op /\ req'[q].m = req[q].m /\ req'[q].to = req[q].to
    /\ req'[q].terms = req[q].terms /\ req'[q].rev = req[q].rev

\* A request that closes leaves the others as they are.
LEMMA ClosedIsGone ==
  ASSUME TypeOK, NEW r \in Requests, Closed(r)
  PROVE  NoNewRequest /\ ~Busy(r)'
  BY DEF TypeOK, Closed, NoNewRequest, Busy, NoRequest

\* The kernel's side of a request is none of the ledgers' business.
LEMMA AppliedIsSame ==
  ASSUME TypeOK, NEW r \in Requests, KernelApplies(r)
  PROVE  NoNewRequest
  BY DEF TypeOK, KernelApplies, NoNewRequest, Busy, RequestRecords

\* Without new requests the locks stay held by those that held them.
LEMMA NoNewRequestLocks ==
  ASSUME RequestsFit, LocksHeld, NoNewRequest
  PROVE  RequestsFit' /\ LocksHeld'
  BY DEF RequestsFit, LocksHeld, NoNewRequest

\* An update stays possible while the row it checked is left alone or erased.
LEMMA NoNewRequestUpdates ==
  ASSUME TypeOK, RequestsFit, UpdatesHold, NoNewRequest,
         \A q \in Requests : Busy(q)' /\ req[q].op = "update" =>
           state'[req[q].m] \in {state[req[q].m], Erased(state[req[q].m])}
  PROVE  UpdatesHold'
  <1> SUFFICES ASSUME NEW q \in Requests, Busy(q)', req'[q].op = "update"
               PROVE  \/ Updatable(req[q].m, req[q].rev)'
                      \/ state'[req'[q].m] = Erased([status |-> "active", rev |-> req'[q].rev])
    BY DEF UpdatesHold
  <1>1. /\ Busy(q) /\ req[q].op = "update"
        /\ req'[q].m = req[q].m /\ req'[q].rev = req[q].rev
    BY DEF NoNewRequest
  <1> DEFINE row == [status |-> "active", rev |-> req[q].rev]
  <1>2. req[q].m \in Memories /\ req[q].rev \in Nat
    BY <1>1 DEF RequestsFit, TypeOK, RequestRecords
  <1>3. state[req[q].m] \in [status : {"active", "invalidated", "deleted"}, rev : Nat]
    BY <1>2 DEF TypeOK
  <1>4. Updatable(req[q].m, req[q].rev) => state[req[q].m] = row
    BY <1>3 DEF Updatable
  <1>5. Erased(Erased(row)) = Erased(row)
    BY <1>2 DEF Erased
  <1>6. state[req[q].m] = row \/ state[req[q].m] = Erased(row)
    BY <1>1, <1>4 DEF UpdatesHold
  <1>7. state'[req[q].m] = row \/ state'[req[q].m] = Erased(row)
    BY <1>1, <1>5, <1>6
  <1>8. state'[req[q].m] = row => Updatable(req[q].m, req[q].rev)'
    BY <1>1 DEF Updatable
  <1> QED BY <1>1, <1>7, <1>8

\* A merge stays valid while relations are only revoked, or no merge waits.
LEMMA NoNewRequestMerges ==
  ASSUME MergesHold, NoNewRequest,
         supersedes' \subseteq supersedes
           \/ \A q \in Requests : Busy(q)' => req[q].op # "merge"
  PROVE  MergesHold'
  <1> SUFFICES ASSUME NEW q \in Requests, Busy(q)', req'[q].op = "merge"
               PROVE  (Validated(req[q].m, req[q].to, req[q].terms) = "new")'
    BY DEF MergesHold
  <1> DEFINE s == req[q].m
             t == req[q].to
             terms == req[q].terms
  <1>1. Busy(q) /\ req[q].op = "merge" /\ req'[q].m = s /\ req'[q].to = t
        /\ req'[q].terms = terms
    BY DEF NoNewRequest
  <1>2. supersedes' \subseteq supersedes
    BY <1>1
  <1>3. /\ s # t /\ ~SupersedesPath(supersedes, t, s)
        /\ \A e \in supersedes : ~(e.source = s /\ e.target = t)
    BY <1>1, ValidatedNew DEF MergesHold
  <1>4. ~SupersedesPath(supersedes', t, s)
    BY <1>2, <1>3, FewerEdges
  <1>5. \A e \in supersedes' : ~(e.source = s /\ e.target = t)
    BY <1>2, <1>3
  <1>6. req'[q].m # req'[q].to /\ ~SupersedesPath(supersedes', req'[q].to, req'[q].m)
    BY <1>1, <1>3, <1>4
  <1>7. {e \in supersedes' : e.source = req'[q].m /\ e.target = req'[q].to} = {}
    BY <1>1, <1>5
  <1> QED BY <1>6, <1>7 DEF Validated

\* Adding a relation that validateRelation passes keeps the relations acyclic,
\* and one it does not pass is not added.
LEMMA AddEdgeAcyclic ==
  ASSUME TypeOK, Acyclic, NEW s \in Memories, NEW t \in Memories,
         NEW terms \in Terms, AddEdge(s, t, terms)
  PROVE  Acyclic'
  <1>1. CASE Validated(s, t, terms) = "new"
    <2>1. s # t /\ ~SupersedesPath(supersedes, t, s)
      BY <1>1, ValidatedNew
    <2>2. supersedes' = supersedes \cup
                          {[source |-> s, target |-> t, terms |-> terms]}
      BY <1>1 DEF AddEdge
    <2>3. supersedes \in SUBSET Edges
      BY DEF TypeOK
    <2> QED BY <2>1, <2>2, <2>3, EdgeKeepsAcyclic DEF Acyclic
  <1>2. CASE Validated(s, t, terms) # "new"
    BY <1>2 DEF AddEdge, Acyclic
  <1> QED BY <1>1, <1>2

-----------------------------------------------------------------------------
(* The rest of the invariant is preserved, one service at a time. *)

Rest == RequestsFit /\ LocksHeld /\ UpdatesHold /\ MergesHold /\ Acyclic

\* Edits, invalidations and deletions.
LEMMA MutationsStep ==
  ASSUME GovInv, NEW r \in Requests, NEW m \in Memories, Mutations(r, m)
  PROVE  Rest'
  <1> USE DEF GovInv
  <1>1. ASSUME NEW rev, Update(r, m, rev)
        PROVE  Rest'
    <2>1. /\ Busy(r)' /\ req'[r].op = "update" /\ req'[r].m = m /\ req'[r].rev = rev
          /\ \A q \in Requests \ {r} : req'[q] = req[q] /\ Busy(q)' = Busy(q)
      BY <1>1 DEF TypeOK, Update, Sent, Busy, NoRequest
    <2>2. RequestsFit'
      BY <2>1 DEF RequestsFit
    <2>3. LocksHeld'
      BY <1>1, <2>1 DEF LocksHeld, Update, StateLockFree
    <2>4. UpdatesHold'
      BY <1>1, <2>1 DEF UpdatesHold, Updatable, Update, ledgers
    <2>5. MergesHold'
      BY <1>1, <2>1 DEF MergesHold, Validated, Update, ledgers
    <2>6. Acyclic'
      BY <1>1 DEF Acyclic, Update, ledgers
    <2> QED BY <2>2, <2>3, <2>4, <2>5, <2>6 DEF Rest
  <1>2. ASSUME NEW rev, Delete(r, m, rev)
        PROVE  Rest'
    <2>1. /\ Busy(r)' /\ req'[r].op = "delete" /\ req'[r].m = m
          /\ \A q \in Requests \ {r} : req'[q] = req[q] /\ Busy(q)' = Busy(q)
      BY <1>2 DEF TypeOK, Delete, Sent, Busy, NoRequest
    <2>2. RequestsFit'
      BY <2>1 DEF RequestsFit
    <2>3. LocksHeld'
      BY <1>2, <2>1 DEF LocksHeld, Delete, StateLockFree
    <2>4. \A n \in Memories \ {m} : state'[n] = state[n]
      BY <1>2 DEF TypeOK, Delete, SetState
    <2>5. UpdatesHold'
      <3> SUFFICES ASSUME NEW q \in Requests, Busy(q)', req'[q].op = "update"
                   PROVE  \/ Updatable(req[q].m, req[q].rev)'
                          \/ state'[req'[q].m] = Erased([status |-> "active", rev |-> req'[q].rev])
        BY DEF UpdatesHold
      <3>1. /\ q # r /\ Busy(q) /\ req'[q] = req[q]
            /\ \/ Updatable(req[q].m, req[q].rev)
               \/ state[req[q].m] = Erased([status |-> "active", rev |-> req[q].rev])
        BY <2>1 DEF UpdatesHold
      <3>2. req[q].m \in Memories \ {m}
        BY <1>2, <3>1 DEF RequestsFit, Delete, StateLockFree
      <3> QED BY <2>4, <3>1, <3>2 DEF Updatable
    <2>6. MergesHold'
      BY <1>2, <2>1 DEF MergesHold, Validated, Delete
    <2>7. Acyclic'
      BY <1>2 DEF Acyclic, Delete
    <2> QED BY <2>2, <2>3, <2>5, <2>6, <2>7 DEF Rest
  <1>3. CASE Invalidate(m)
    <2>1. NoNewRequest /\ supersedes' = supersedes
      BY <1>3 DEF Invalidate, NoNewRequest, Busy
    <2>2. \A q \in Requests : Busy(q)' /\ req[q].op = "update" =>
            state'[req[q].m] = state[req[q].m]
      BY <1>3, <2>1 DEF NoNewRequest, TypeOK, Invalidate, StateLockFree, SetState,
                        RequestsFit
    <2>3. Acyclic'
      BY <2>1 DEF Acyclic
    <2> QED BY <2>1, <2>2, <2>3, NoNewRequestLocks, NoNewRequestUpdates,
               NoNewRequestMerges DEF Rest
  <1> QED BY <1>1, <1>2, <1>3 DEF Mutations

\* Reviews take no lock the invariant is about, and write neither table.
LEMMA ReviewsStep ==
  ASSUME GovInv, NEW r \in Requests, NEW m \in Memories, Reviews(r, m)
  PROVE  Rest'
  <1> USE DEF GovInv
  <1>1. ASSUME NEW rev, NEW terms \in Terms, ReviewWithContent(r, m, terms, rev)
        PROVE  Rest'
    <2>1. /\ Busy(r)' /\ req'[r].op = "review" /\ req'[r].m = m
          /\ req'[r].terms = terms
          /\ \A q \in Requests \ {r} : req'[q] = req[q] /\ Busy(q)' = Busy(q)
      BY <1>1 DEF TypeOK, ReviewWithContent, Sent, Busy, NoRequest
    <2>2. state' = state /\ supersedes' = supersedes
      BY <1>1 DEF ReviewWithContent, ledgers
    <2>3. RequestsFit' /\ LocksHeld'
      BY <2>1 DEF RequestsFit, LocksHeld
    <2>4. UpdatesHold' /\ MergesHold' /\ Acyclic'
      BY <2>1, <2>2 DEF UpdatesHold, Updatable, MergesHold, Validated, Acyclic
    <2> QED BY <2>3, <2>4 DEF Rest
  <1>2. ASSUME NEW rev, NEW terms \in Terms, NEW status,
               Review(m, status, terms, rev)
        PROVE  Rest'
    <2>1. NoNewRequest /\ supersedes' = supersedes /\ state' = state
      BY <1>2 DEF Review, NoNewRequest, Busy
    <2>2. Acyclic'
      BY <2>1 DEF Acyclic
    <2> QED BY <2>1, <2>2, NoNewRequestLocks, NoNewRequestUpdates,
               NoNewRequestMerges DEF Rest
  <1> QED BY <1>1, <1>2 DEF Reviews

\* Relations are added under their lock: no merge waits when one is.
LEMMA RelationsStep ==
  ASSUME GovInv, NEW r \in Requests, Relations(r)
  PROVE  Rest'
  <1> USE DEF GovInv
  <1> PICK s \in Memories, t \in Memories, terms \in Terms :
        Supersede(s, t, terms) \/ Merge(r, s, t, terms) \/ Oppose(s, t, terms)
    BY DEF Relations
  <1>1. CASE Supersede(s, t, terms)
    <2>1. NoNewRequest /\ state' = state
      BY <1>1 DEF Supersede, NoNewRequest, Busy
    <2>2. \A q \in Requests : Busy(q)' => req[q].op # "merge"
      BY <1>1, <2>1 DEF NoNewRequest, Supersede, RelationLockFree
    <2>3. Acyclic'
      BY <1>1, AddEdgeAcyclic DEF Supersede
    <2> QED BY <2>1, <2>2, <2>3, NoNewRequestLocks, NoNewRequestUpdates,
               NoNewRequestMerges DEF Rest
  <1>2. CASE Merge(r, s, t, terms)
    <2>1. /\ Busy(r)' /\ req'[r].op = "merge" /\ req'[r].m = s /\ req'[r].to = t
          /\ req'[r].terms = terms
          /\ \A q \in Requests \ {r} : req'[q] = req[q] /\ Busy(q)' = Busy(q)
      BY <1>2 DEF TypeOK, Merge, Sent, Busy, NoRequest
    <2>2. state' = state /\ supersedes' = supersedes
      BY <1>2 DEF Merge, ledgers
    <2>3. RequestsFit'
      BY <2>1 DEF RequestsFit
    <2>4. LocksHeld'
      BY <1>2, <2>1 DEF LocksHeld, Merge, RelationLockFree
    <2>5. UpdatesHold' /\ Acyclic'
      BY <2>1, <2>2 DEF UpdatesHold, Updatable, Acyclic
    <2>6. MergesHold'
      BY <1>2, <2>1, <2>2 DEF MergesHold, Validated, Merge
    <2> QED BY <2>3, <2>4, <2>5, <2>6 DEF Rest
  <1>3. CASE Oppose(s, t, terms)
    <2>1. NoNewRequest /\ supersedes' = supersedes /\ state' = state
      BY <1>3 DEF Oppose, NoNewRequest, Busy
    <2>2. Acyclic'
      BY <2>1 DEF Acyclic
    <2> QED BY <2>1, <2>2, NoNewRequestLocks, NoNewRequestUpdates,
               NoNewRequestMerges DEF Rest
  <1> QED BY <1>1, <1>2, <1>3

\* A request ends: the one that holds a lock is the only one to use it.
LEMMA SettlesStep ==
  ASSUME GovInv, NEW r \in Requests, Settles(r)
  PROVE  Rest'
  <1> USE DEF GovInv
  <1>1. CASE UpdateSettles(r)
    <2>1. NoNewRequest /\ ~Busy(r)' /\ supersedes' = supersedes
      BY <1>1, ClosedIsGone DEF UpdateSettles
    <2>2. ASSUME NEW q \in Requests, Busy(q)', req[q].op = "update"
          PROVE  state'[req[q].m] = state[req[q].m]
      <3>1. Busy(q) /\ q # r /\ Busy(r)
        BY <1>1, <2>1, <2>2 DEF NoNewRequest, UpdateSettles, Busy
      <3>2. req[q].m # req[r].m /\ req[q].m \in Memories /\ req[r].m \in Memories
        BY <1>1, <2>2, <3>1 DEF LocksHeld, UpdateSettles, RequestsFit
      <3> QED BY <1>1, <3>2 DEF UpdateSettles, SetState, TypeOK
    <2>3. Acyclic'
      BY <2>1 DEF Acyclic
    <2> QED BY <2>1, <2>2, <2>3, NoNewRequestLocks, NoNewRequestUpdates,
               NoNewRequestMerges DEF Rest
  <1>2. CASE MergeSettles(r)
    <2>1. NoNewRequest /\ ~Busy(r)' /\ state' = state
      BY <1>2, ClosedIsGone DEF MergeSettles
    <2>2. ASSUME NEW q \in Requests, Busy(q)'
          PROVE  req[q].op # "merge"
      BY <1>2, <2>1, <2>2 DEF NoNewRequest, LocksHeld, MergeSettles, Busy
    <2>3. req[r].m \in Memories /\ req[r].to \in Memories /\ req[r].terms \in Terms
      BY <1>2 DEF MergeSettles, RequestsFit, Busy
    <2>4. Acyclic'
      BY <1>2, <2>3, AddEdgeAcyclic DEF MergeSettles
    <2> QED BY <2>1, <2>2, <2>4, NoNewRequestLocks, NoNewRequestUpdates,
               NoNewRequestMerges DEF Rest
  <1>3. CASE DeleteSettles(r) \/ ReviewSettles(r) \/ KernelApplies(r) \/ KernelFails(r)
    <2>1. NoNewRequest
      BY <1>3, ClosedIsGone, AppliedIsSame
         DEF DeleteSettles, ReviewSettles, KernelFails
    <2>2. state' = state /\ supersedes' = supersedes
      BY <1>3 DEF DeleteSettles, ReviewSettles, KernelApplies, KernelFails, ledgers
    <2>3. Acyclic'
      BY <2>2 DEF Acyclic
    <2> QED BY <2>1, <2>2, <2>3, NoNewRequestLocks, NoNewRequestUpdates,
               NoNewRequestMerges DEF Rest
  <1> QED BY <1>1, <1>2, <1>3 DEF Settles

\* Revocations, windows and recalls.
LEMMA OthersStep ==
  ASSUME GovInv,
         \/ \E m \in Memories :
              \/ Elapse(m)
              \/ \E w \in {"before", "open", "after"} : SetValidity(m, w)
         \/ Revoke \/ Fetch \/ Answer \/ UNCHANGED vars
  PROVE  Rest'
  <1> USE DEF GovInv
  <1>1. NoNewRequest /\ state' = state
    BY DEF Elapse, SetValidity, Revoke, Fetch, Answer, vars, ledgers,
           NoNewRequest, Busy
  <1>2. supersedes' \subseteq supersedes
    BY DEF Elapse, SetValidity, Revoke, Fetch, Answer, vars, ledgers
  <1>3. Acyclic'
    BY <1>2, FewerEdges DEF Acyclic
  <1> QED BY <1>1, <1>2, <1>3, NoNewRequestLocks, NoNewRequestUpdates,
             NoNewRequestMerges DEF Rest

\* Erasure: rows become tombstones, relations disappear.
LEMMA ErasureStep ==
  ASSUME GovInv, NEW m \in Memories, EraseState(m) \/ EraseMetadata(m)
  PROVE  Rest'
  <1> USE DEF GovInv
  <1>1. NoNewRequest /\ supersedes' \subseteq supersedes
    BY DEF EraseState, EraseMetadata, NoNewRequest, Busy
  <1>2. \A n \in Memories : state'[n] \in {state[n], Erased(state[n])}
    BY DEF EraseState, EraseMetadata, TypeOK
  <1>3. \A q \in Requests : Busy(q)' /\ req[q].op = "update" =>
          state'[req[q].m] \in {state[req[q].m], Erased(state[req[q].m])}
    BY <1>1, <1>2 DEF NoNewRequest, RequestsFit
  <1>4. Acyclic'
    BY <1>1, FewerEdges DEF Acyclic
  <1> QED BY <1>1, <1>3, <1>4, NoNewRequestLocks, NoNewRequestUpdates,
             NoNewRequestMerges DEF Rest

\* No service takes a tombstone away.
LEMMA TombstoneStep ==
  ASSUME GovInv, Next, NEW m \in Memories, state[m].status = "deleted"
  PROVE  state'[m] = state[m]
  <1> USE DEF GovInv, TypeOK
  <1>1. ASSUME NEW r \in Requests, NEW n \in Memories, Mutations(r, n)
        PROVE  state'[m] = state[m]
    BY <1>1 DEF Mutations, Update, Delete, Invalidate, SetState, Updatable, ledgers
  <1>2. ASSUME NEW r \in Requests, Settles(r)
        PROVE  state'[m] = state[m]
    <2>1. CASE UpdateSettles(r)
      BY <2>1 DEF UpdateSettles, StateAccepts, SetState
    <2>2. CASE ~UpdateSettles(r)
      BY <1>2, <2>2 DEF Settles, DeleteSettles, ReviewSettles, MergeSettles,
                        KernelApplies, KernelFails, ledgers
    <2> QED BY <2>1, <2>2
  <1>3. ASSUME NEW r \in Requests, NEW n \in Memories, Reviews(r, n)
        PROVE  state'[m] = state[m]
    BY <1>3 DEF Reviews, ReviewWithContent, Review, ledgers
  <1>4. ASSUME NEW r \in Requests, Relations(r)
        PROVE  state'[m] = state[m]
    BY <1>4 DEF Relations, Supersede, Merge, Oppose, ledgers
  <1>5. CASE \/ \E n \in Memories :
                  \/ Elapse(n)
                  \/ \E w \in {"before", "open", "after"} : SetValidity(n, w)
             \/ Revoke \/ Fetch \/ Answer
    BY <1>5 DEF Elapse, SetValidity, Revoke, Fetch, Answer, ledgers
  <1>6. ASSUME NEW n \in Memories, EraseState(n) \/ EraseMetadata(n)
        PROVE  state'[m] = state[m]
    <2>1. state[m] = [status |-> state[m].status, rev |-> state[m].rev]
      OBVIOUS
    <2>2. Erased(state[m]) = state[m]
      BY <2>1 DEF Erased, GoneHold
    <2> QED BY <1>6, <2>2 DEF EraseState, EraseMetadata
  <1> QED BY <1>1, <1>2, <1>3, <1>4, <1>5, <1>6 DEF Next

\* Only a deletion and an erasure write a tombstone, each with a revision.
LEMMA TombstoneRow ==
  ASSUME GovInv, Next, NEW m \in Memories, state'[m].status = "deleted"
  PROVE  state'[m].rev # 0
  <1> USE DEF GovInv, TypeOK
  <1>1. CASE state[m].status = "deleted"
    BY <1>1, TombstoneStep DEF GoneHold
  <1>2. CASE state'[m] = state[m]
    BY <1>2 DEF GoneHold
  <1>3. ASSUME NEW rev \in Nat, NEW status, NEW n \in Memories, SetState(n, status, rev)
        PROVE  state'[n].rev # 0
    BY <1>3 DEF SetState
  <1>4. ASSUME NEW n \in Memories, EraseState(n) \/ EraseMetadata(n), state'[m] # state[m]
        PROVE  state'[m].rev # 0
    <2>1. state'[m] = Erased(state[m])
      BY <1>4 DEF EraseState, EraseMetadata
    <2> QED BY <2>1 DEF Erased
  <1>5. ASSUME NEW r \in Requests, NEW n \in Memories, Mutations(r, n), state'[m] # state[m]
        PROVE  state'[m].rev # 0
    <2>1. PICK rev \in Shown : Update(r, n, rev) \/ Delete(r, n, rev) \/ Invalidate(n)
      BY <1>5, GovernanceAssumption DEF Mutations, Shown
    <2>2. rev \in Nat /\ state[n].rev \in Nat
      BY <2>1 DEF Shown
    <2>3. \E v \in Nat, status \in {"deleted", "invalidated"} : SetState(n, status, v)
      BY <1>5, <2>1, <2>2 DEF Update, Delete, Invalidate, ledgers
    <2>4. n = m
      BY <1>5, <2>3 DEF SetState
    <2> QED BY <1>3, <2>3, <2>4
  <1>6. ASSUME NEW r \in Requests, Settles(r), state'[m] # state[m]
        PROVE  state'[m].rev # 0
    <2>1. UpdateSettles(r)
      BY <1>6 DEF Settles, DeleteSettles, ReviewSettles, MergeSettles,
                  KernelApplies, KernelFails, ledgers
    <2>2. req[r].m \in Memories /\ req[r].rev \in Nat
      BY <2>1 DEF UpdateSettles, RequestsFit, RequestRecords, Busy
    <2>3. SetState(req[r].m, "active", req[r].rev)
      BY <1>6, <2>1 DEF UpdateSettles
    <2> QED BY <1>3, <1>6, <2>2, <2>3 DEF SetState
  <1>7. ASSUME NEW r \in Requests, NEW n \in Memories, Reviews(r, n) \/ Relations(r)
        PROVE  state' = state
    BY <1>7 DEF Reviews, ReviewWithContent, Review, Relations, Supersede, Merge, Oppose,
                ledgers
  <1>8. CASE \/ \E n \in Memories :
                  \/ Elapse(n)
                  \/ \E w \in {"before", "open", "after"} : SetValidity(n, w)
             \/ Revoke \/ Fetch \/ Answer
    BY <1>2, <1>8 DEF Elapse, SetValidity, Revoke, Fetch, Answer, ledgers
  <1> QED BY <1>2, <1>4, <1>5, <1>6, <1>7, <1>8 DEF Next

\* Recalls end; nothing else gives an answer.
LEMMA RecallStep ==
  ASSUME Next
  PROVE  recall' = recall \/ Fetch \/ Answer
  <1>1. ASSUME NEW r \in Requests, NEW n \in Memories,
               Mutations(r, n) \/ Reviews(r, n)
        PROVE  recall' = recall
    BY <1>1 DEF Mutations, Update, Delete, Invalidate,
                Reviews, ReviewWithContent, Review
  <1>2. ASSUME NEW r \in Requests, Relations(r)
        PROVE  recall' = recall
    BY <1>2 DEF Relations, Supersede, Merge, Oppose
  <1>3. ASSUME NEW r \in Requests, Settles(r)
        PROVE  recall' = recall
    BY <1>3 DEF Settles, UpdateSettles, DeleteSettles, ReviewSettles,
                MergeSettles, KernelApplies, KernelFails
  <1>4. CASE \/ \E n \in Memories :
                  \/ Elapse(n) \/ EraseState(n) \/ EraseMetadata(n)
                  \/ \E w \in {"before", "open", "after"} : SetValidity(n, w)
             \/ Revoke
    BY <1>4 DEF Elapse, EraseState, EraseMetadata, SetValidity, Revoke
  <1> QED BY <1>1, <1>2, <1>3, <1>4 DEF Next

\* A tombstone found by a recall stays, and keeps the memory out of its answer.
LEMMA GoneStep ==
  ASSUME GovInv, [Next]_vars
  PROVE  GoneHold'
  <1> USE DEF GovInv, TypeOK, GoneHold
  <1>1. CASE UNCHANGED vars
    BY <1>1 DEF vars, ledgers, DeletedStaysForgotten
  <1>2. CASE Next
    <2>1. \A m \in Memories : state[m].status = "deleted" => state'[m] = state[m]
      BY <1>2, TombstoneStep
    <2>5. \A m \in Memories : state'[m].status = "deleted" => state'[m].rev # 0
      BY <1>2, TombstoneRow
    <2>2. CASE recall' = recall
      BY <2>1, <2>2, <2>5 DEF DeletedStaysForgotten
    <2>3. CASE Fetch
      BY <2>1, <2>3, <2>5 DEF Fetch, Deleted, DeletedStaysForgotten
    <2>4. CASE Answer
      <3>1. recall'.gone = recall.gone \cup Deleted /\ recall'.pc = "idle"
        BY <2>4 DEF Answer
      <3>2. recall'.items = {m \in recall.items : PassesGates(m)}
        BY <2>4 DEF Answer
      <3>3. \A m \in recall'.gone : m \in Memories /\ state[m].status = "deleted"
        BY <3>1 DEF Deleted
      <3>4. \A m \in recall'.items : state[m].status # "deleted"
        BY <3>2 DEF PassesGates, Suppressed
      <3> QED BY <2>1, <2>5, <3>3, <3>4 DEF DeletedStaysForgotten
    <2> QED BY <1>2, <2>2, <2>3, <2>4, RecallStep
  <1> QED BY <1>1, <1>2

\* The invariant is inductive.
LEMMA InvStep == GovInv /\ [Next]_vars => GovInv'
  <1> SUFFICES ASSUME GovInv, [Next]_vars PROVE GovInv'
    OBVIOUS
  <1>1. TypeOK'
    BY TypeStep DEF GovInv
  <1>2. Rest'
    BY MutationsStep, ReviewsStep, RelationsStep, SettlesStep, OthersStep, ErasureStep
       DEF Next
  <1>3. GoneHold'
    BY GoneStep
  <1> QED BY <1>1, <1>2, <1>3 DEF Rest, GovInv

\* The invariant holds always.
LEMMA InvAlways == Spec => []GovInv
  BY InvInit, InvStep, PTL DEF Spec

-----------------------------------------------------------------------------
(* Theorems. *)

\* The governance state stays well formed.
THEOREM GovernanceTypeCorrect == Spec => []TypeOK
  <1>1. GovInv => TypeOK
    BY DEF GovInv
  <1> QED BY <1>1, InvAlways, PTL

\* The active supersedes relations of memory-governance-ledger.ts stay free of
\* cycles, however relations are added, merged and revoked.
THEOREM SupersedesStaysAcyclic == Spec => []Acyclic
  <1>1. GovInv => Acyclic
    BY DEF GovInv
  <1> QED BY <1>1, InvAlways, PTL

\* No update and no merge writes a content and is then refused, unless the
\* memory of the update is erased meanwhile.
THEOREM ChecksHoldAcrossAwait == Spec => []ChecksStillHold
  <1>1. GovInv => ChecksStillHold
    BY DEF GovInv, UpdatesHold, MergesHold, ChecksStillHold
  <1> QED BY <1>1, InvAlways, PTL

\* A tombstone of memory-state-ledger.ts is never changed again.
THEOREM TombstonesAreFinal == Spec => TombstonesStay
  <1>1. GovInv /\ [Next]_vars =>
          [\A m \in Memories : state[m].status = "deleted" => state'[m] = state[m]]_vars
    <2> SUFFICES ASSUME GovInv, Next, NEW m \in Memories,
                        state[m].status = "deleted"
                 PROVE  state'[m] = state[m]
      OBVIOUS
    <2> QED BY TombstoneStep
  <1> QED BY <1>1, InvAlways, PTL DEF Spec, TombstonesStay

\* No answer of recall-service.ts has a memory that was deleted before, by the
\* user, an erasure or retention.
THEOREM DeletedAreForgotten == Spec => []DeletedStaysForgotten
  <1>1. GovInv => DeletedStaysForgotten
    BY DEF GovInv, GoneHold
  <1> QED BY <1>1, InvAlways, PTL


(***************************************************************************)
(* MEMORY PIPELINE                                                         *)
(***************************************************************************)

StateRec == [count : Nat, warmup : Nat, pending : Nat, cursor : Nat]
Stages == {"idle", "extract", "persist"}
L1Runs == [stage : Stages, to : Nat, rows : Nat, backlog : {"none", "more", "full"}]
L2Runs == [stage : Stages, upto : Nat]
L3Runs == [running : BOOLEAN, pending : BOOLEAN, saw : [Sessions -> Nat]]
Write == [who : {"notify", "l1", "l2", "l2skip"}, s : Sessions, thr : Nat]
SpentRec == [captures : Nat, faults : Nat, boots : Nat]

StoreTypes ==
  /\ l0 \in [Sessions -> Seq(Nat)]
  /\ out \in [Sessions -> Nat]
  /\ scenes \in [Sessions -> Nat]
  /\ cursor \in [Sessions -> Nat]
  /\ ckpt \in [Sessions -> StateRec \cup {NoState}]

MemoryTypes ==
  /\ sess \in [Sessions -> StateRec \cup {NoState}]
  /\ idle \subseteq Sessions
  /\ l2Timer \in [Sessions -> {"none", "max", "delay"}]
  /\ retry \in [Sessions -> Nat]
  /\ ran \subseteq Sessions
  /\ l1Queue \in Seq(Sessions)
  /\ l1 \in L1Runs
  /\ l2Queue \in Seq(Sessions)
  /\ l2 \in L2Runs
  /\ l3 \in L3Runs
  /\ writes \in Seq(Write)

GhostTypes ==
  /\ inactive \subseteq Sessions
  /\ seen \in [Sessions -> SUBSET Nat]
  /\ cut \in [Sessions -> SUBSET Nat]
  /\ booted \in [Sessions -> Nat]
  /\ left \subseteq Sessions
  /\ spent \in SpentRec

PipelineTypes ==
  /\ phase \in {"off", "open", "closing"}
  /\ flush \in {"none", "l1", "l2"}
  /\ StoreTypes /\ MemoryTypes /\ GhostTypes

\* What createL1Runner takes for granted of captures: its comment
\* (pipeline-factory.ts:522) expects at most about a batch of rows of one instant.
\* A batch and one row is as long as a capture can be: the batch may end on the
\* first row of a capture, and the query returns two batches.
ShortCaptures == \A k \in 1..Len(RowsOf) : RowsOf[k] <= Batch + 1

\* The rows of a session after its first k captures, and what every capture adds.
After(q, k) == IF k = 0 THEN 0 ELSE q[k]

Grows(q) ==
  /\ \A i, j \in 0..Len(q) : i < j => After(q, i) < After(q, j)
  /\ ShortCaptures => \A k \in 1..Len(q) : After(q, k) <= After(q, k - 1) + Batch + 1

\* The run either has no row to read, or will set the cursor to a later capture:
\* when captures are short it takes the rows up to the end of that one, which is
\* the first that a batch from the cursor ends in.
RunOf(s) ==
  \/ l1.to = cursor[s] /\ l1.rows = 0
  \/ /\ cursor[s] < l1.to
     /\ ShortCaptures => /\ l1.rows = UpTo(s, l1.to)
                         /\ UpTo(s, l1.to - 1) < UpTo(s, cursor[s]) + Batch

\* Cursors and extended batches are at captures that are stored.
RowsInv ==
  /\ \A s \in Sessions : /\ Grows(l0[s]) /\ cursor[s] <= Len(l0[s])
                         /\ cut[s] \subseteq 1..Len(l0[s])
  /\ l1.stage = "extract" =>
       LET s == Head(l1Queue) IN l1.to <= Len(l0[s]) /\ RunOf(s)

CursorInv == ShortCaptures => OnlyDisplacedSkipped

\* A run is the one of the session at the head of its queue, and so is the call of
\* the persister that ends it, of which there is one.
OfL2(w) == w.who \in {"l2", "l2skip"}

QueueInv ==
  /\ l1.stage # "idle" => l1Queue # <<>>
  /\ l2.stage # "idle" => l2Queue # <<>>
  /\ \A i \in 1..Len(writes) :
       /\ writes[i].who = "l1" => l1.stage = "persist" /\ writes[i].s = Head(l1Queue)
       /\ OfL2(writes[i]) => l2.stage = "persist" /\ writes[i].s = Head(l2Queue)
  /\ \A i, j \in 1..Len(writes) :
       /\ writes[i].who = "l1" /\ writes[j].who = "l1" => i = j
       /\ OfL2(writes[i]) /\ OfL2(writes[j]) => i = j

\* Whatever waits for a session keeps its state in the manager.
Waited(s) ==
  \/ s \in idle \/ l2Timer[s] # "none"
  \/ Queued(l1Queue, s) \/ Queued(l2Queue, s) \/ InFlight(s)

KnownInv ==
  /\ \A s \in Sessions : Waited(s) => sess[s] \in StateRec
  /\ \A s \in inactive : ~InFlight(s)

OffInv ==
  /\ phase = "off" =>
       /\ writes = <<>> /\ l1Queue = <<>> /\ l2Queue = <<>>
       /\ l1 = NoL1 /\ l2 = NoL2 /\ idle = {}
  /\ flush # "none" => phase = "closing"

PipelineInv ==
  PipelineTypes /\ RowsInv /\ CursorInv /\ QueueInv /\ KnownInv /\ OffInv

-----------------------------------------------------------------------------
(* Queues.                                                                 *)

LEMMA EnqueuedHas ==
  ASSUME NEW q \in Seq(Sessions), NEW s \in Sessions
  PROVE  /\ Enqueued(q, s) \in Seq(Sessions) /\ Enqueued(q, s) # <<>>
         /\ q # <<>> => Head(Enqueued(q, s)) = Head(q)
         /\ \A z : Queued(Enqueued(q, s), z) <=> Queued(q, z) \/ z = s
<1>1. Len(q) \in Nat
  OBVIOUS
<1>2. CASE Queued(q, s)
  <2>1. Enqueued(q, s) = q
    BY <1>2 DEF Enqueued, Queued
  <2> QED
    BY <1>2, <2>1 DEF Queued
<1>3. CASE ~Queued(q, s)
  <2>1. Enqueued(q, s) = Append(q, s)
    BY <1>3 DEF Enqueued, Queued
  <2>2. /\ Append(q, s) \in Seq(Sessions) /\ Append(q, s) # <<>>
        /\ Len(Append(q, s)) = Len(q) + 1
        /\ \A i \in 1..Len(q) : Append(q, s)[i] = q[i]
        /\ Append(q, s)[Len(q) + 1] = s
    BY AppendProperties
  <2>3. q # <<>> => Head(Append(q, s)) = Head(q)
    BY <2>2
  <2>4. \A i : i \in 1..Len(q) + 1 <=> i \in 1..Len(q) \/ i = Len(q) + 1
    BY <1>1
  <2>5. ASSUME NEW z
        PROVE  Queued(Append(q, s), z) <=> Queued(q, z) \/ z = s
    BY <2>2, <2>4 DEF Queued
  <2> QED
    BY <2>1, <2>2, <2>3, <2>5
<1> QED
  BY <1>2, <1>3

LEMMA TailQueued ==
  ASSUME NEW q \in Seq(Sessions), q # <<>>
  PROVE  /\ Head(q) \in Sessions /\ Queued(q, Head(q)) /\ Tail(q) \in Seq(Sessions)
         /\ \A z : Queued(Tail(q), z) => Queued(q, z)
         /\ \A z : Queued(q, z) => z = Head(q) \/ Queued(Tail(q), z)
<1>1. /\ Head(q) \in Sessions /\ Tail(q) \in Seq(Sessions)
      /\ Len(Tail(q)) = Len(q) - 1
      /\ \A i \in 1..Len(Tail(q)) : Tail(q)[i] = q[i + 1]
  BY HeadTailProperties
<1>2. Len(q) \in Nat /\ Len(q) > 0 /\ 1 \in 1..Len(q) /\ q[1] = Head(q)
  OBVIOUS
<1>3. Queued(q, Head(q))
  BY <1>2 DEF Queued
<1>4. ASSUME NEW z, Queued(Tail(q), z)
      PROVE  Queued(q, z)
  <2>1. PICK i \in 1..Len(Tail(q)) : Tail(q)[i] = z
    BY <1>4 DEF Queued
  <2>2. i + 1 \in 1..Len(q)
    BY <1>1, <1>2
  <2> QED
    BY <1>1, <2>1, <2>2 DEF Queued
<1>5. ASSUME NEW z, Queued(q, z), z # Head(q)
      PROVE  Queued(Tail(q), z)
  <2>1. PICK i \in 1..Len(q) : q[i] = z
    BY <1>5 DEF Queued
  <2>2. i # 1
    BY <1>2, <1>5, <2>1
  <2>3. i - 1 \in 1..Len(Tail(q)) /\ i - 1 + 1 = i
    BY <1>1, <1>2, <2>2
  <2> QED
    BY <1>1, <2>1, <2>3 DEF Queued
<1> QED
  BY <1>1, <1>3, <1>4, <1>5

LEMMA JoinQueued ==
  ASSUME NEW a \in Seq(Sessions), NEW b \in Seq(Sessions)
  PROVE  /\ a \o b \in Seq(Sessions)
         /\ a # <<>> => a \o b # <<>> /\ Head(a \o b) = Head(a)
         /\ \A z : Queued(a \o b, z) <=> Queued(a, z) \/ Queued(b, z)
<1>1. /\ a \o b \in Seq(Sessions)
      /\ Len(a \o b) = Len(a) + Len(b)
      /\ \A i \in 1..Len(a) + Len(b) :
           (a \o b)[i] = IF i <= Len(a) THEN a[i] ELSE b[i - Len(a)]
  BY ConcatProperties
<1>2. Len(a) \in Nat /\ Len(b) \in Nat
  OBVIOUS
<1>3. a # <<>> => a \o b # <<>> /\ Head(a \o b) = Head(a)
  <2>1. ASSUME a # <<>>
        PROVE  a \o b # <<>> /\ Head(a \o b) = Head(a)
    <3>1. Len(a) > 0 /\ Head(a) = a[1] /\ Len(a \o b) > 0 /\ 1 \in 1..Len(a) + Len(b)
      BY <1>1, <1>2, <2>1
    <3>2. (a \o b)[1] = a[1] /\ a \o b # <<>>
      BY <1>1, <1>2, <3>1
    <3> QED
      BY <1>1, <3>1, <3>2
  <2> QED
    BY <2>1
<1>4. ASSUME NEW z, Queued(a \o b, z)
      PROVE  Queued(a, z) \/ Queued(b, z)
  <2>1. PICK i \in 1..Len(a) + Len(b) : (a \o b)[i] = z
    BY <1>1, <1>4 DEF Queued
  <2>2. CASE i <= Len(a)
    <3>1. i \in 1..Len(a) /\ a[i] = z
      BY <1>1, <1>2, <2>1, <2>2
    <3> QED
      BY <3>1 DEF Queued
  <2>3. CASE ~(i <= Len(a))
    <3>1. i - Len(a) \in 1..Len(b) /\ b[i - Len(a)] = z
      BY <1>1, <1>2, <2>1, <2>3
    <3> QED
      BY <3>1 DEF Queued
  <2> QED
    BY <2>2, <2>3
<1>5. ASSUME NEW z, Queued(a, z)
      PROVE  Queued(a \o b, z)
  <2>1. PICK i \in 1..Len(a) : a[i] = z
    BY <1>5 DEF Queued
  <2>2. i \in 1..Len(a) + Len(b) /\ i <= Len(a)
    BY <1>2
  <2> QED
    BY <1>1, <2>1, <2>2 DEF Queued
<1>6. ASSUME NEW z, Queued(b, z)
      PROVE  Queued(a \o b, z)
  <2>1. PICK i \in 1..Len(b) : b[i] = z
    BY <1>6 DEF Queued
  <2>2. Len(a) + i \in 1..Len(a) + Len(b) /\ ~(Len(a) + i <= Len(a)) /\ Len(a) + i - Len(a) = i
    BY <1>2
  <2>3. (a \o b)[Len(a) + i] = z
    BY <1>1, <2>1, <2>2
  <2> QED
    BY <1>1, <2>2, <2>3 DEF Queued
<1> QED
  BY <1>1, <1>3, <1>4, <1>5, <1>6

\* The order destroy() flushes sessions in is a queue of them.
LEMMA OrderIsQueue ==
  ASSUME NEW S \in SUBSET Sessions, NEW order \in SetToSeqs(S)
  PROVE  order \in Seq(Sessions) /\ \A z : Queued(order, z) => z \in S
<1>1. Cardinality(S) \in Nat
  BY PipelineAssumption, FS_Subset, FS_CardinalityType
<1>2. order \in [1..Cardinality(S) -> S]
  BY DEF SetToSeqs
<1>3. order \in Seq(S)
  BY <1>1, <1>2
<1>4. order \in Seq(Sessions)
  BY <1>3
<1>5. \A i \in 1..Len(order) : order[i] \in S
  BY <1>3
<1> QED
  BY <1>4, <1>5 DEF Queued

\* Calls of the persister.
LEMMA WriteAppended ==
  ASSUME NEW q \in Seq(Write), NEW w \in Write
  PROVE  /\ Append(q, w) \in Seq(Write)
         /\ Len(Append(q, w)) = Len(q) + 1 /\ Len(q) \in Nat
         /\ \A i \in 1..Len(q) : Append(q, w)[i] = q[i]
         /\ Append(q, w)[Len(q) + 1] = w
         /\ \A i \in 1..Len(q) + 1 : i \in 1..Len(q) \/ i = Len(q) + 1
  BY AppendProperties

LEMMA WriteTaken ==
  ASSUME NEW q \in Seq(Write), q # <<>>
  PROVE  /\ Head(q) \in Write /\ Head(q) = q[1] /\ 1 \in 1..Len(q)
         /\ Tail(q) \in Seq(Write)
         /\ \A i \in 1..Len(Tail(q)) : i + 1 \in 1..Len(q) /\ i + 1 # 1 /\ Tail(q)[i] = q[i + 1]
         /\ \A i \in 1..Len(q) : i # 1 => i - 1 \in 1..Len(Tail(q)) /\ Tail(q)[i - 1] = q[i]
<1>1. /\ Head(q) \in Write /\ Tail(q) \in Seq(Write)
      /\ Len(Tail(q)) = Len(q) - 1
      /\ \A i \in 1..Len(Tail(q)) : Tail(q)[i] = q[i + 1]
  BY HeadTailProperties
<1>2. Len(q) \in Nat /\ Len(q) > 0 /\ Head(q) = q[1]
  OBVIOUS
<1>3. ASSUME NEW i \in 1..Len(Tail(q))
      PROVE  i + 1 \in 1..Len(q) /\ i + 1 # 1
  BY <1>1, <1>2
<1>4. ASSUME NEW i \in 1..Len(q), i # 1
      PROVE  i - 1 \in 1..Len(Tail(q)) /\ Tail(q)[i - 1] = q[i]
  <2>1. i - 1 \in 1..Len(Tail(q)) /\ i - 1 + 1 = i
    BY <1>1, <1>2, <1>4
  <2> QED
    BY <1>1, <2>1
<1> QED
  BY <1>1, <1>2, <1>3, <1>4

-----------------------------------------------------------------------------
(* Rows and cursors.                                                       *)

LEMMA RowsGrow ==
  ASSUME NEW q \in Seq(Nat), Grows(q),
         NEW n \in Nat \ {0}, ShortCaptures => n <= Batch + 1
  PROVE  LET r == Append(q, After(q, Len(q)) + n) IN
         /\ r \in Seq(Nat) /\ Len(r) = Len(q) + 1
         /\ \A k \in 0..Len(q) : After(r, k) = After(q, k)
         /\ Grows(r)
<1> DEFINE v == After(q, Len(q)) + n
           r == Append(q, v)
<1>1. Len(q) \in Nat /\ Batch \in Nat /\ n \in Nat /\ n > 0
  BY PipelineAssumption
<1>2. \A k \in 0..Len(q) : After(q, k) \in Nat
  BY <1>1 DEF After
<1>3. v \in Nat
  BY <1>1, <1>2
<1>4. /\ r \in Seq(Nat) /\ Len(r) = Len(q) + 1
      /\ \A k \in 1..Len(q) : r[k] = q[k]
      /\ r[Len(q) + 1] = v
  BY <1>3, AppendProperties
<1> HIDE DEF r, v
<1>5. \A k \in 0..Len(q) : After(r, k) = After(q, k)
  BY <1>1, <1>4 DEF After
<1>6. After(r, Len(q) + 1) = v
  BY <1>1, <1>4 DEF After
<1>7. ASSUME NEW k \in 0..Len(q)
      PROVE  After(q, k) <= After(q, Len(q))
  <2>1. After(q, k) \in Nat /\ After(q, Len(q)) \in Nat /\ Len(q) \in 0..Len(q)
    BY <1>1, <1>2
  <2>2. k < Len(q) => After(q, k) < After(q, Len(q))
    BY <2>1 DEF Grows
  <2>3. k = Len(q) \/ k < Len(q)
    BY <1>1
  <2> QED
    BY <2>1, <2>2, <2>3
<1>8. After(q, Len(q)) < v /\ (ShortCaptures => v <= After(q, Len(q)) + Batch + 1)
  BY <1>1, <1>2 DEF v
<1>9. ASSUME NEW i \in 0..Len(r), NEW j \in 0..Len(r), i < j
      PROVE  After(r, i) < After(r, j)
  <2>1. i \in 0..Len(q)
    BY <1>1, <1>4, <1>9
  <2>2. CASE j \in 0..Len(q)
    BY <1>5, <1>9, <2>1, <2>2 DEF Grows
  <2>3. CASE j = Len(q) + 1
    <3>1. After(r, i) <= After(q, Len(q)) /\ After(r, i) \in Nat
      BY <1>2, <1>5, <1>7, <2>1
    <3> QED
      BY <1>1, <1>2, <1>3, <1>6, <1>8, <2>3, <3>1
  <2> QED
    BY <1>1, <1>4, <2>2, <2>3
<1>10. ASSUME NEW k \in 1..Len(r), ShortCaptures
       PROVE  After(r, k) <= After(r, k - 1) + Batch + 1
  <2>1. CASE k \in 1..Len(q)
    <3>1. k - 1 \in 0..Len(q) /\ k \in 0..Len(q)
      BY <1>1, <2>1
    <3> QED
      BY <1>5, <1>10, <2>1, <3>1 DEF Grows
  <2>2. CASE k = Len(q) + 1
    <3>1. k - 1 = Len(q) /\ Len(q) \in 0..Len(q)
      BY <1>1, <2>2
    <3> QED
      BY <1>5, <1>6, <1>8, <1>10, <2>2, <3>1
  <2> QED
    BY <1>1, <1>4, <2>1, <2>2
<1> QED
  BY <1>4, <1>5, <1>9, <1>10 DEF Grows, r, v

\* Every row is of one capture.
LEMMA CaptureFound ==
  ASSUME NEW s \in Sessions, l0[s] \in Seq(Nat), Grows(l0[s]),
         NEW row \in Nat, 0 < row, row <= UpTo(s, Len(l0[s]))
  PROVE  /\ CaptureOf(s, row) \in 1..Len(l0[s])
         /\ UpTo(s, CaptureOf(s, row) - 1) < row /\ row <= UpTo(s, CaptureOf(s, row))
<1>1. Len(l0[s]) \in Nat /\ \A k \in 0..Len(l0[s]) : UpTo(s, k) \in Nat
  BY DEF UpTo
<1> DEFINE T == {k \in 0..Len(l0[s]) : row <= UpTo(s, k)}
<1>2. T \subseteq Nat /\ T # {}
  BY <1>1
<1>3. \E k \in T : \A y \in T : ~(<<y, k>> \in OpToRel(<, Nat))
  <2> HIDE DEF T
  <2> QED
    BY <1>2, NatLessThanWellFounded, WFMin
<1>4. \E k \in T : \A y \in T : ~(y < k)
  <2>1. ASSUME NEW y \in T, NEW k \in T, y < k
        PROVE  <<y, k>> \in OpToRel(<, Nat)
    <3>1. y \in Nat /\ k \in Nat
      BY <1>2
    <3> QED
      BY <2>1, <3>1 DEF OpToRel
  <2> HIDE DEF T
  <2> QED
    BY <1>3, <2>1
<1>5. PICK k \in 0..Len(l0[s]) : row <= UpTo(s, k) /\ \A y \in T : ~(y < k)
  BY <1>4
<1>6. k \in 1..Len(l0[s]) /\ k - 1 \in 0..Len(l0[s])
  <2>1. k # 0
    BY <1>5 DEF UpTo
  <2> QED
    BY <1>1, <1>5, <2>1
<1>7. ~(row <= UpTo(s, k - 1))
  <2>1. k - 1 < k
    BY <1>1, <1>6
  <2> QED
    BY <1>5, <1>6, <2>1
<1>8. UpTo(s, k - 1) < row /\ row <= UpTo(s, k)
  BY <1>1, <1>5, <1>6, <1>7
<1> QED
  BY <1>6, <1>8 DEF CaptureOf

\* A run that has rows to read ends where a capture ends and sets the cursor there.
LEMMA PlannedRun ==
  ASSUME NEW s \in Sessions, l0[s] \in Seq(Nat), Grows(l0[s]),
         cursor[s] \in Nat, cursor[s] <= Len(l0[s])
  PROVE  /\ Planned(s) \in L1Runs /\ Planned(s).stage = "extract"
         /\ Planned(s).to <= Len(l0[s])
         /\ \/ Planned(s).to = cursor[s] /\ Planned(s).rows = 0
            \/ /\ cursor[s] < Planned(s).to
               /\ ShortCaptures =>
                    /\ Planned(s).rows = UpTo(s, Planned(s).to)
                    /\ UpTo(s, Planned(s).to - 1) < UpTo(s, cursor[s]) + Batch
<1> DEFINE N == Len(l0[s])
           c == cursor[s]
<1>1. N \in Nat /\ \A k \in 0..N : UpTo(s, k) \in Nat
  BY DEF UpTo
<1>2. Batch \in Nat /\ Batch > 0
  BY PipelineAssumption
<1>3. CASE c = N
  BY <1>1, <1>3 DEF Planned, L1Runs, Stages
<1>4. CASE c # N
  <2>1. c \in 0..N /\ c + 1 \in 0..N /\ N \in 0..N
    BY <1>1, <1>4
  <2>2. \A i, j \in 0..N : i < j => UpTo(s, i) < UpTo(s, j)
    BY DEF Grows, After, UpTo
  <2>3. ShortCaptures => \A k \in 1..N : UpTo(s, k) <= UpTo(s, k - 1) + Batch + 1
    BY DEF Grows, After, UpTo
  <2>4. \A i, j \in 0..N : i <= j => UpTo(s, i) <= UpTo(s, j)
    BY <1>1, <2>2
  <2> DEFINE u == UpTo(s, c)
             e == UpTo(s, N)
             f == Fetched(s)
             row == AtMost(u + Batch, f)
             k == CaptureOf(s, row)
             end == AtMost(UpTo(s, k), f)
  <2>5. u < UpTo(s, c + 1) /\ UpTo(s, c + 1) <= e
    BY <1>1, <2>1, <2>2, <2>4
  <2>6. u \in Nat /\ e \in Nat /\ UpTo(s, c + 1) \in Nat /\ u < e
    BY <1>1, <2>1, <2>5
  <2>7. f \in Nat /\ f <= e /\ u < f /\ (f = e \/ f = u + 2 * Batch)
    BY <1>2, <2>6 DEF Fetched, AtMost
  <2> HIDE DEF f
  <2>8. row \in Nat /\ u < row /\ row <= f /\ row <= u + Batch
    BY <1>2, <2>6, <2>7 DEF AtMost
  <2> HIDE DEF row
  <2>9. k \in 1..N /\ UpTo(s, k - 1) < row /\ row <= UpTo(s, k)
    BY <2>6, <2>7, <2>8, CaptureFound
  <2> HIDE DEF k
  <2>10. k \in 0..N /\ k - 1 \in 0..N
    BY <1>1, <2>9
  <2>11. UpTo(s, k) \in Nat /\ UpTo(s, k - 1) \in Nat
    BY <1>1, <2>10
  <2>12. ShortCaptures => UpTo(s, k) <= f
    <3>1. CASE f = e
      BY <2>1, <2>4, <2>10, <3>1
    <3>2. CASE f = u + 2 * Batch
      <4>1. ShortCaptures => UpTo(s, k) <= UpTo(s, k - 1) + Batch + 1
        BY <2>3, <2>9
      <4> QED
        BY <1>2, <2>6, <2>8, <2>9, <2>11, <3>2, <4>1
    <3> QED
      BY <2>7, <3>1, <3>2
  <2>13. /\ SliceEnd(s) = end /\ end \in Nat /\ row <= end /\ end <= UpTo(s, k)
         /\ ShortCaptures => UpTo(s, k) <= end
    BY <2>7, <2>8, <2>9, <2>11, <2>12 DEF SliceEnd, AtMost, f, row, k
  <2> HIDE DEF end
  <2>14. c + 1 <= k
    <3>1. ASSUME k <= c
          PROVE  FALSE
      <4>1. UpTo(s, k) <= u
        BY <2>1, <2>4, <2>10, <3>1
      <4> QED
        BY <2>6, <2>8, <2>9, <2>11, <4>1
    <3> QED
      BY <2>1, <2>10, <3>1
  <2>15. CaptureOf(s, end) = k
    <3> DEFINE m == CaptureOf(s, end)
    <3>1. 0 < end /\ end <= e
      <4>1. UpTo(s, k) <= e
        BY <1>1, <2>1, <2>4, <2>10
      <4> QED
        BY <2>6, <2>8, <2>11, <2>13, <4>1
    <3>2. m \in 1..N /\ UpTo(s, m - 1) < end /\ end <= UpTo(s, m)
      BY <2>13, <3>1, CaptureFound
    <3> HIDE DEF m
    <3>3. m \in 0..N /\ m - 1 \in 0..N /\ UpTo(s, m) \in Nat /\ UpTo(s, m - 1) \in Nat
      BY <1>1, <3>2
    <3>4. ~(m <= k - 1)
      <4>1. m <= k - 1 => UpTo(s, m) <= UpTo(s, k - 1)
        BY <2>4, <2>10, <3>3
      <4> QED
        BY <2>8, <2>9, <2>11, <2>13, <3>2, <3>3, <4>1
    <3>5. ~(k <= m - 1)
      <4>1. k <= m - 1 => UpTo(s, k) <= UpTo(s, m - 1)
        BY <2>4, <2>10, <3>3
      <4> QED
        BY <2>11, <2>13, <3>2, <3>3, <4>1
    <3>6. m = k
      BY <2>10, <3>3, <3>4, <3>5
    <3> QED
      BY <3>6 DEF m
  <2>16. Planned(s) = [stage |-> "extract", to |-> k, rows |-> end, backlog |-> Backlog(s)]
    BY <1>4, <2>13, <2>15 DEF Planned
  <2>17. Backlog(s) \in {"none", "more", "full"}
    BY DEF Backlog
  <2>18. ShortCaptures => end = UpTo(s, k)
    BY <2>11, <2>13
  <2>19. UpTo(s, k - 1) < u + Batch
    BY <1>2, <2>6, <2>8, <2>9, <2>11
  <2>20. /\ Planned(s) \in L1Runs /\ Planned(s).stage = "extract"
         /\ Planned(s).to = k /\ Planned(s).rows = end
    BY <2>10, <2>13, <2>16, <2>17 DEF L1Runs, Stages
  <2> QED
    BY <1>1, <2>1, <2>10, <2>14, <2>18, <2>19, <2>20
<1> QED
  BY <1>3, <1>4

-----------------------------------------------------------------------------
(* Types.                                                                  *)

LEMMA RoundTypes ==
  /\ Fresh \in StateRec
  /\ \A st \in StateRec : /\ Threshold(st) \in Nat
                          /\ Advanced(st) \in StateRec
                          /\ [st EXCEPT !.count = @ + 1] \in StateRec
  /\ \A st \in StateRec : st # NoState => Recovered(st) \in StateRec
<1>1. EveryN \in Nat /\ Warmup \in BOOLEAN
  BY PipelineAssumption
<1>2. Fresh \in StateRec
  BY DEF Fresh, StateRec
<1>3. ASSUME NEW st \in StateRec
      PROVE  /\ Threshold(st) \in Nat /\ WarmedUp(st) \in Nat
             /\ [st EXCEPT !.count = @ + 1] \in StateRec
             /\ [st EXCEPT !.pending = MaxOf(st.pending, st.count), !.count = 0] \in StateRec
  <2>1. st.count \in Nat /\ st.warmup \in Nat /\ st.pending \in Nat /\ st.cursor \in Nat
    BY DEF StateRec
  <2>2. Threshold(st) \in Nat
    BY <1>1, <2>1 DEF Threshold
  <2>3. WarmedUp(st) \in Nat
    BY <1>1, <2>1 DEF WarmedUp
  <2>4. [st EXCEPT !.count = @ + 1] \in StateRec
    BY <2>1 DEF StateRec
  <2>5. MaxOf(st.pending, st.count) \in Nat
    BY <2>1 DEF MaxOf
  <2>6. [st EXCEPT !.pending = MaxOf(st.pending, st.count), !.count = 0] \in StateRec
    BY <2>1, <2>5 DEF StateRec
  <2> QED
    BY <2>2, <2>3, <2>4, <2>6
<1>4. ASSUME NEW st \in StateRec
      PROVE  Advanced(st) \in StateRec
  BY <1>3, <1>4 DEF Advanced, StateRec
<1>5. ASSUME NEW st \in StateRec
      PROVE  Recovered(st) \in StateRec
  BY <1>3, <1>5 DEF Recovered
<1> QED
  BY <1>2, <1>3, <1>4, <1>5

LEMMA PersistTypes ==
  ASSUME PipelineTypes, NEW who \in {"notify", "l1", "l2", "l2skip"}, NEW s \in Sessions,
         NEW thr \in Nat, NEW states \in [Sessions -> StateRec \cup {NoState}],
         NEW ok \in BOOLEAN, Persist(who, s, thr, states, ok)
  PROVE  /\ writes' \in Seq(Write)
         /\ ckpt' \in [Sessions -> StateRec \cup {NoState}]
<1>1. [who |-> who, s |-> s, thr |-> thr] \in Write
  BY DEF Write
<1>2. writes' \in Seq(Write)
  BY <1>1, WriteAppended DEF Persist, PipelineTypes, MemoryTypes
<1>3. ckpt' \in [Sessions -> StateRec \cup {NoState}]
  BY DEF Persist, Saved, PipelineTypes, StoreTypes
<1> QED
  BY <1>2, <1>3

\* The session of a run is one of the model, with a state in the manager.
LEMMA RunTypes ==
  ASSUME PipelineInv
  PROVE  /\ l1.stage # "idle" => l1Queue # <<>> /\ Head(l1Queue) \in Sessions
                                 /\ sess[Head(l1Queue)] \in StateRec
         /\ l2.stage # "idle" => l2Queue # <<>> /\ Head(l2Queue) \in Sessions
                                 /\ sess[Head(l2Queue)] \in StateRec
         /\ writes # <<>> => Head(writes).s \in Sessions /\ Head(writes).thr \in Nat
<1>1. l1Queue \in Seq(Sessions) /\ l2Queue \in Seq(Sessions) /\ writes \in Seq(Write)
  BY DEF PipelineInv, PipelineTypes, MemoryTypes
<1>2. ASSUME l1.stage # "idle"
      PROVE  l1Queue # <<>> /\ Head(l1Queue) \in Sessions /\ sess[Head(l1Queue)] \in StateRec
  BY <1>1, <1>2, TailQueued DEF PipelineInv, QueueInv, KnownInv, Waited
<1>3. ASSUME l2.stage # "idle"
      PROVE  l2Queue # <<>> /\ Head(l2Queue) \in Sessions /\ sess[Head(l2Queue)] \in StateRec
  BY <1>1, <1>3, TailQueued DEF PipelineInv, QueueInv, KnownInv, Waited
<1>4. ASSUME writes # <<>>
      PROVE  Head(writes).s \in Sessions /\ Head(writes).thr \in Nat
  <2>1. Head(writes) \in Write
    BY <1>1, <1>4, WriteTaken
  <2> QED
    BY <2>1 DEF Write
<1> QED
  BY <1>2, <1>3, <1>4

LEMMA CaptureTypes ==
  ASSUME PipelineInv, NEW s \in Sessions, CapturesLeft
  PROVE  /\ RowsOf[spent.captures + 1] \in Nat \ {0}
         /\ ShortCaptures => RowsOf[spent.captures + 1] <= Batch + 1
         /\ UpTo(s, Len(l0[s])) = After(l0[s], Len(l0[s]))
         /\ Append(l0[s], UpTo(s, Len(l0[s])) + RowsOf[spent.captures + 1]) \in Seq(Nat)
         /\ Rounded(s) \in StateRec
<1>1. spent.captures \in Nat /\ l0[s] \in Seq(Nat) /\ sess[s] \in StateRec \cup {NoState}
  BY DEF PipelineInv, PipelineTypes, StoreTypes, MemoryTypes, GhostTypes, SpentRec
<1>2. RowsOf \in Seq(Nat \ {0}) /\ Len(RowsOf) \in Nat
  BY PipelineAssumption
<1>3. spent.captures + 1 \in 1..Len(RowsOf)
  BY <1>1, <1>2 DEF CapturesLeft
<1>4. /\ RowsOf[spent.captures + 1] \in Nat \ {0}
      /\ ShortCaptures => RowsOf[spent.captures + 1] <= Batch + 1
  BY <1>2, <1>3 DEF ShortCaptures
<1>5. UpTo(s, Len(l0[s])) = After(l0[s], Len(l0[s])) /\ UpTo(s, Len(l0[s])) \in Nat
  BY <1>1 DEF UpTo, After
<1>6. UpTo(s, Len(l0[s])) + RowsOf[spent.captures + 1] \in Nat
  BY <1>2, <1>4, <1>5
<1>7. Append(l0[s], UpTo(s, Len(l0[s])) + RowsOf[spent.captures + 1]) \in Seq(Nat)
  BY <1>1, <1>6, AppendProperties
<1>8. Rounded(s) \in StateRec
  BY <1>1, RoundTypes DEF Rounded
<1> QED
  BY <1>4, <1>5, <1>7, <1>8

LEMMA SpentTypes ==
  ASSUME PipelineTypes
  PROVE  /\ [spent EXCEPT !.captures = @ + 1] \in SpentRec
         /\ [spent EXCEPT !.boots = @ + 1] \in SpentRec
         /\ [spent EXCEPT !.faults = @ + 1] \in SpentRec
         /\ \A ok \in BOOLEAN : MaybeFault(ok) => spent' \in SpentRec
         /\ \A ok \in BOOLEAN : [spent EXCEPT !.captures = @ + 1,
                                              !.faults = @ + IF ok THEN 0 ELSE 1] \in SpentRec
<1>1. spent \in SpentRec
  BY DEF PipelineTypes, GhostTypes
<1>2. ASSUME NEW n \in 0..1
      PROVE  [spent EXCEPT !.captures = @ + 1, !.faults = @ + n] \in SpentRec
  <2>1. spent.captures \in Nat /\ spent.faults \in Nat /\ n \in Nat
    BY <1>1 DEF SpentRec
  <2>2. spent.captures + 1 \in Nat /\ spent.faults + n \in Nat
    BY <2>1
  <2> QED
    BY <1>1, <2>2 DEF SpentRec
<1>3. [spent EXCEPT !.captures = @ + 1] \in SpentRec /\ [spent EXCEPT !.boots = @ + 1] \in SpentRec
  BY <1>1 DEF SpentRec
<1>4. [spent EXCEPT !.faults = @ + 1] \in SpentRec
  BY <1>1 DEF SpentRec
<1>5. ASSUME NEW ok \in BOOLEAN
      PROVE  [spent EXCEPT !.captures = @ + 1, !.faults = @ + IF ok THEN 0 ELSE 1] \in SpentRec
  <2>1. CASE ok
    BY <1>2, <2>1
  <2>2. CASE ~ok
    BY <1>2, <2>2
  <2> QED
    BY <2>1, <2>2
<1> QED
  BY <1>1, <1>3, <1>4, <1>5 DEF MaybeFault, Fault

LEMMA PipelineInvInit ==
  ASSUME PipelineInit
  PROVE  PipelineInv
<1>2. StoreTypes
  BY DEF PipelineInit, StoreTypes
<1>3. NoL1 \in L1Runs /\ NoL2 \in L2Runs /\ NoL3 \in L3Runs
  BY DEF NoL1, NoL2, NoL3, L1Runs, L2Runs, L3Runs, Stages
<1>4. MemoryTypes
  BY <1>3 DEF PipelineInit, MemoryTypes
<1>5. PipelineTypes
  BY <1>2, <1>4 DEF PipelineInit, PipelineTypes, GhostTypes, SpentRec
<1>6. RowsInv
  BY DEF PipelineInit, RowsInv, Grows, After, NoL1
<1>6a. CursorInv
  BY DEF PipelineInit, CursorInv, OnlyDisplacedSkipped, UpTo
<1>7. QueueInv
  BY DEF PipelineInit, QueueInv, NoL1, NoL2
<1>8. KnownInv
  BY DEF PipelineInit, KnownInv, Waited, Queued, InFlight
<1>9. OffInv
  BY DEF PipelineInit, OffInv
<1> QED
  BY <1>5, <1>6, <1>6a, <1>7, <1>8, <1>9 DEF PipelineInv

LEMMA CapturesKeepTypes ==
  ASSUME PipelineInv, NEW s \in Sessions,
         CaptureLate(s) \/ \E ok \in BOOLEAN : Capture(s, ok)
  PROVE  PipelineTypes'
<1>1. PipelineTypes
  BY DEF PipelineInv
<1>2. CASE CaptureLate(s)
  <2>1. /\ l0' \in [Sessions -> Seq(Nat)]
        /\ spent' \in SpentRec
    BY <1>1, <1>2, CaptureTypes, SpentTypes DEF CaptureLate, PipelineTypes, StoreTypes
  <2> QED
    BY <1>1, <1>2, <2>1
    DEF CaptureLate, PipelineTypes, StoreTypes, MemoryTypes, GhostTypes, memory
<1>3. ASSUME NEW ok \in BOOLEAN, Capture(s, ok)
      PROVE  PipelineTypes'
  <2>1. /\ l0' \in [Sessions -> Seq(Nat)]
        /\ spent' \in SpentRec
        /\ sess' \in [Sessions -> StateRec \cup {NoState}]
        /\ retry' \in [Sessions -> Nat]
    BY <1>1, <1>3, CaptureTypes, SpentTypes
    DEF Capture, PipelineTypes, StoreTypes, MemoryTypes
  <2>2. Threshold(Rounded(s)) \in Nat
    BY <1>3, CaptureTypes, RoundTypes DEF Capture
  <2>3. writes' \in Seq(Write) /\ ckpt' \in [Sessions -> StateRec \cup {NoState}]
    <3>1. Persist("notify", s, Threshold(Rounded(s)), sess', ok)
      BY <1>3 DEF Capture
    <3>2. sess' \in [Sessions -> StateRec \cup {NoState}]
      BY <2>1
    <3> QED
      BY <1>1, <2>2, <3>1, <3>2, PersistTypes
  <2> QED
    BY <1>1, <1>3, <2>1, <2>3
    DEF Capture, PipelineTypes, StoreTypes, MemoryTypes, GhostTypes
<1> QED
  BY <1>2, <1>3

LEMMA EvictTypes ==
  ASSUME PipelineTypes, NEW gone, Evict(gone)
  PROVE  /\ sess' \in [Sessions -> StateRec \cup {NoState}]
         /\ l2Timer' \in [Sessions -> {"none", "max", "delay"}]
         /\ retry' \in [Sessions -> Nat]
         /\ ran' \subseteq Sessions
  BY DEF Evict, PipelineTypes, MemoryTypes

LEMMA TriggerTypes ==
  ASSUME PipelineTypes
  PROVE  /\ [running |-> TRUE, pending |-> FALSE, saw |-> scenes] \in L3Runs
         /\ [l3 EXCEPT !.running = FALSE] \in L3Runs
         /\ [l3 EXCEPT !.running = FALSE, !.pending = FALSE] \in L3Runs
         /\ TriggerL3 => l3' \in L3Runs
<1>1. l3 \in L3Runs /\ scenes \in [Sessions -> Nat]
  BY DEF PipelineTypes, StoreTypes, MemoryTypes
<1>2. /\ [running |-> TRUE, pending |-> FALSE, saw |-> scenes] \in L3Runs
      /\ [l3 EXCEPT !.pending = TRUE] \in L3Runs
      /\ [l3 EXCEPT !.running = FALSE] \in L3Runs
  BY <1>1 DEF L3Runs
<1>3. [l3 EXCEPT !.running = FALSE, !.pending = FALSE] \in L3Runs
  BY <1>1 DEF L3Runs
<1> QED
  BY <1>1, <1>2, <1>3 DEF TriggerL3

\* Timers and what follows a write to the checkpoint.
LEMMA ResumesKeepTypes ==
  ASSUME PipelineInv, NotifyResumes \/ L1Resumes \/ L2Resumes \/ Collects
  PROVE  PipelineTypes'
<1>1. PipelineTypes /\ l1Queue \in Seq(Sessions) /\ l2Queue \in Seq(Sessions) /\ writes \in Seq(Write)
  BY DEF PipelineInv, PipelineTypes, MemoryTypes
<1>2. ASSUME writes # <<>>
      PROVE  Tail(writes) \in Seq(Write)
  BY <1>1, <1>2, WriteTaken
<1>3. NoL1 \in L1Runs /\ NoL2 \in L2Runs
  BY DEF NoL1, NoL2, L1Runs, L2Runs, Stages
<1>4. CASE NotifyResumes
  <2>1. writes' \in Seq(Write) /\ Head(writes).s \in Sessions
    BY <1>1, <1>2, <1>4, RunTypes DEF NotifyResumes, Written
  <2>2. l1Queue' \in Seq(Sessions)
    BY <1>1, <1>4, <2>1, EnqueuedHas DEF NotifyResumes
  <2>3. /\ sess' \in [Sessions -> StateRec \cup {NoState}]
        /\ l2Timer' \in [Sessions -> {"none", "max", "delay"}]
        /\ retry' \in [Sessions -> Nat]
        /\ ran' \subseteq Sessions
    BY <1>1, <1>4, EvictTypes DEF NotifyResumes, PipelineTypes, MemoryTypes
  <2>4. idle' \subseteq Sessions
    BY <1>1, <1>4, <2>1 DEF NotifyResumes, PipelineTypes, MemoryTypes
  <2> QED
    BY <1>1, <1>4, <2>1, <2>2, <2>3, <2>4
    DEF NotifyResumes, PipelineTypes, StoreTypes, MemoryTypes, GhostTypes, store, ghosts
<1>5. CASE L1Resumes
  <2>1. writes' \in Seq(Write) /\ Head(writes).s \in Sessions /\ Head(writes).who = "l1"
    BY <1>1, <1>2, <1>5, RunTypes DEF L1Resumes, Written
  <2>2. l1Queue # <<>>
    BY <1>1, <1>5, WriteTaken, RunTypes DEF L1Resumes, Written, PipelineInv, QueueInv
  <2>3. Tail(l1Queue) \in Seq(Sessions)
    BY <1>1, <2>2, TailQueued
  <2>4. Requeued(Head(writes).s, l1.backlog) \in Seq(Sessions)
    BY <2>1 DEF Requeued
  <2>5. l1Queue' \in Seq(Sessions)
    BY <1>5, <2>3, <2>4, JoinQueued DEF L1Resumes
  <2>6. l2Timer' \in [Sessions -> {"none", "max", "delay"}]
    BY <1>1, <1>5, <2>1 DEF L1Resumes, AdvanceL2, PipelineTypes, MemoryTypes
  <2>7. idle' \subseteq Sessions
    BY <1>1, <1>5, <2>1 DEF L1Resumes, PipelineTypes, MemoryTypes
  <2> QED
    BY <1>1, <1>3, <1>5, <2>1, <2>5, <2>6, <2>7
    DEF L1Resumes, PipelineTypes, StoreTypes, MemoryTypes, GhostTypes, store, ghosts
<1>6. CASE L2Resumes
  <2>1. /\ writes # <<>> /\ writes' = Tail(writes) /\ Head(writes).s \in Sessions
        /\ OfL2(Head(writes))
    BY <1>6, RunTypes DEF L2Resumes, Written, OfL2
  <2>2. l2Queue # <<>>
    BY <1>1, <2>1, WriteTaken, RunTypes DEF PipelineInv, QueueInv
  <2>3. Tail(l2Queue) \in Seq(Sessions)
    BY <1>1, <2>2, TailQueued
  <2>4. l2Timer' \in [Sessions -> {"none", "max", "delay"}]
    BY <1>1, <1>6, <2>1 DEF L2Resumes, ArmMax, PipelineTypes, MemoryTypes
  <2>5. l3' \in L3Runs
    BY <1>1, <1>6, TriggerTypes DEF L2Resumes, PipelineTypes, MemoryTypes
  <2> QED
    BY <1>1, <1>2, <1>3, <1>6, <2>1, <2>3, <2>4, <2>5
    DEF L2Resumes, PipelineTypes, StoreTypes, MemoryTypes, GhostTypes, store, ghosts
<1>7. CASE Collects
  BY <1>1, <1>7, EvictTypes
  DEF Collects, PipelineTypes, StoreTypes, MemoryTypes, GhostTypes, store, ghosts
<1> QED
  BY <1>4, <1>5, <1>6, <1>7

LEMMA RunsKeepTypes ==
  ASSUME PipelineInv,
         L1Start \/ L1Answers \/ L2Start \/ L2Throws \/ L2Answers \/ L3Ends
         \/ \E kept \in 0..1 : L1Fails(kept)
  PROVE  PipelineTypes'
<1>1. PipelineTypes /\ l1Queue \in Seq(Sessions) /\ l2Queue \in Seq(Sessions)
  BY DEF PipelineInv, PipelineTypes, MemoryTypes
<1>2. NoL1 \in L1Runs /\ NoL2 \in L2Runs
  BY DEF NoL1, NoL2, L1Runs, L2Runs, Stages
<1>3. CASE L1Start
  <2>1. Head(l1Queue) \in Sessions
    BY <1>1, <1>3, TailQueued DEF L1Start
  <2>2. l1' \in L1Runs
    BY <1>1, <1>3, <2>1, PlannedRun
    DEF L1Start, PipelineInv, RowsInv, PipelineTypes, StoreTypes
  <2> QED
    BY <1>1, <1>3, <2>2
    DEF L1Start, PipelineTypes, StoreTypes, MemoryTypes, GhostTypes, store, ghosts
<1>4. ASSUME NEW kept \in 0..1, L1Fails(kept)
      PROVE  PipelineTypes'
  <2>1. l1Queue # <<>> /\ Head(l1Queue) \in Sessions
    BY <1>4, RunTypes DEF L1Fails
  <2>2. l1Queue' \in Seq(Sessions)
    BY <1>1, <1>4, <2>1, TailQueued DEF L1Fails
  <2>3. out' \in [Sessions -> Nat]
    BY <1>1, <1>4, <2>1 DEF L1Fails, Stored, PipelineTypes, StoreTypes
  <2>4. retry' \in [Sessions -> Nat] /\ idle' \subseteq Sessions
    BY <1>1, <1>4, <2>1 DEF L1Fails, Rearmed, PipelineTypes, MemoryTypes
  <2>5. spent' \in SpentRec
    BY <1>1, <1>4, SpentTypes DEF L1Fails, Fault
  <2> QED
    BY <1>1, <1>2, <1>4, <2>2, <2>3, <2>4, <2>5
    DEF L1Fails, PipelineTypes, StoreTypes, MemoryTypes, GhostTypes
<1>5. ASSUME NEW kept \in 0..1, NEW ok \in BOOLEAN, L1Ends(kept, ok)
      PROVE  PipelineTypes'
  <2>1. /\ l1Queue # <<>> /\ Head(l1Queue) \in Sessions /\ sess[Head(l1Queue)] \in StateRec
        /\ l1 \in L1Runs /\ l1.to \in Nat /\ l1.rows \in Nat
    BY <1>1, <1>5, RunTypes DEF L1Ends, PipelineTypes, MemoryTypes, L1Runs
  <2>2. out' \in [Sessions -> Nat] /\ cursor' \in [Sessions -> Nat]
    BY <1>1, <1>5, <2>1 DEF L1Ends, Stored, PipelineTypes, StoreTypes
  <2>3. Advanced(sess[Head(l1Queue)]) \in StateRec
    BY <2>1, RoundTypes
  <2>4. sess' \in [Sessions -> StateRec \cup {NoState}]
    BY <1>1, <1>5, <2>1, <2>3 DEF L1Ends, PipelineTypes, MemoryTypes
  <2>5. /\ retry' \in [Sessions -> Nat]
        /\ seen' \in [Sessions -> SUBSET Nat] /\ cut' \in [Sessions -> SUBSET Nat]
    <3> DEFINE s == Head(l1Queue)
    <3>1. /\ seen \in [Sessions -> SUBSET Nat] /\ cut \in [Sessions -> SUBSET Nat]
          /\ cursor[s] \in Nat /\ l0[s] \in Seq(Nat) /\ cursor[s] <= Len(l0[s])
      BY <1>1, <2>1 DEF PipelineInv, RowsInv, PipelineTypes, StoreTypes, GhostTypes
    <3>2. UpTo(s, cursor[s]) \in Nat
      <4>1. cursor[s] = 0 \/ cursor[s] \in 1..Len(l0[s])
        BY <3>1
      <4> QED
        BY <3>1, <4>1 DEF UpTo
    <3>3. TakenAsNew(s) \subseteq Nat
      BY <2>1, <3>2, PipelineAssumption DEF TakenAsNew, MaxOf
    <3>4. seen' = [seen EXCEPT ![s] = @ \cup TakenAsNew(s)]
      BY <1>5 DEF L1Ends
    <3>5. cut' = [cut EXCEPT ![s] = IF Extended(s) THEN @ \cup {l1.to} ELSE @]
      BY <1>5 DEF L1Ends
    <3>6. retry' \in [Sessions -> Nat]
      BY <1>1, <1>5, <2>1 DEF L1Ends, PipelineTypes, MemoryTypes
    <3> HIDE DEF s
    <3> QED
      BY <2>1, <3>1, <3>3, <3>4, <3>5, <3>6 DEF s
  <2>6. writes' \in Seq(Write) /\ ckpt' \in [Sessions -> StateRec \cup {NoState}]
    <3>1. Persist("l1", Head(l1Queue), 0, sess', ok)
      BY <1>5 DEF L1Ends
    <3> QED
      BY <1>1, <2>1, <2>4, <3>1, PersistTypes
  <2>7. l1' \in L1Runs
    BY <1>5, <2>1 DEF L1Ends, L1Runs, Stages
  <2>8. spent' \in SpentRec
    BY <1>1, <1>5, SpentTypes DEF L1Ends
  <2> QED
    BY <1>1, <1>5, <2>2, <2>4, <2>5, <2>6, <2>7, <2>8
    DEF L1Ends, PipelineTypes, StoreTypes, MemoryTypes, GhostTypes
<1>6. CASE L2Start
  <2>1. Head(l2Queue) \in Sessions
    BY <1>1, <1>6, TailQueued DEF L2Start
  <2>2. l2' \in L2Runs
    BY <1>1, <1>6, <2>1 DEF L2Start, PipelineTypes, StoreTypes, L2Runs, Stages
  <2> QED
    BY <1>1, <1>6, <2>2
    DEF L2Start, PipelineTypes, StoreTypes, MemoryTypes, GhostTypes, store, ghosts
<1>7. CASE L2Throws
  <2>1. l2Queue # <<>> /\ Head(l2Queue) \in Sessions
    BY <1>7, RunTypes DEF L2Throws
  <2>2. l2Queue' \in Seq(Sessions)
    BY <1>1, <1>7, <2>1, TailQueued DEF L2Throws
  <2>3. l2Timer' \in [Sessions -> {"none", "max", "delay"}]
    BY <1>1, <1>7, <2>1 DEF L2Throws, ArmMax, PipelineTypes, MemoryTypes
  <2>4. spent' \in SpentRec
    BY <1>1, <1>7, SpentTypes DEF L2Throws, Fault
  <2> QED
    BY <1>1, <1>2, <1>7, <2>2, <2>3, <2>4
    DEF L2Throws, PipelineTypes, StoreTypes, MemoryTypes, GhostTypes, store
<1>8. ASSUME NEW answer, NEW ok \in BOOLEAN, L2Ends(answer, ok)
      PROVE  PipelineTypes'
  <2> DEFINE s == Head(l2Queue)
             cold == ColdStart(s, answer)
  <2>1. s \in Sessions /\ sess[s] \in StateRec /\ l2 \in L2Runs /\ l2.upto \in Nat
    BY <1>1, <1>8, RunTypes DEF L2Ends, PipelineTypes, MemoryTypes, L2Runs
  <2>2. Consumed(sess[s], answer) \in StateRec
    BY <2>1 DEF Consumed, StateRec
  <2>3. sess' = [sess EXCEPT ![s] = Consumed(@, answer)]
    BY <1>8 DEF L2Ends
  <2>4. sess' \in [Sessions -> StateRec \cup {NoState}]
    BY <1>1, <2>1, <2>2, <2>3 DEF PipelineTypes, MemoryTypes
  <2>5. scenes' \in [Sessions -> Nat]
    BY <1>1, <1>8, <2>1 DEF L2Ends, PipelineTypes, StoreTypes
  <2>6. Persist("l2skip", s, 0, sess', ok) \/ Persist("l2", s, 0, sess', ok)
    BY <1>8 DEF L2Ends
  <2>7. writes' \in Seq(Write) /\ ckpt' \in [Sessions -> StateRec \cup {NoState}]
    BY <1>1, <2>1, <2>4, <2>6, PersistTypes
  <2>8. l2Timer' \in [Sessions -> {"none", "max", "delay"}] /\ ran' \subseteq Sessions
    BY <1>1, <1>8, <2>1 DEF L2Ends, ArmMax, PipelineTypes, MemoryTypes
  <2>9. l2' \in L2Runs
    BY <1>8, <2>1 DEF L2Ends, L2Runs, Stages
  <2>10. spent' \in SpentRec
    <3>1. \E okay \in BOOLEAN : MaybeFault(okay)
      BY <1>8 DEF L2Ends
    <3> QED
      BY <1>1, <3>1, SpentTypes
  <2> QED
    BY <1>1, <1>8, <2>4, <2>5, <2>7, <2>8, <2>9, <2>10
    DEF L2Ends, PipelineTypes, StoreTypes, MemoryTypes, GhostTypes
<1>9. CASE L3Ends
  <2>1. l3' \in L3Runs
    BY <1>1, <1>9, TriggerTypes DEF L3Ends
  <2> QED
    BY <1>1, <1>9, <2>1
    DEF L3Ends, PipelineTypes, StoreTypes, MemoryTypes, GhostTypes, store, ghosts
<1> QED
  BY <1>3, <1>4, <1>5, <1>6, <1>7, <1>8, <1>9 DEF L1Answers, L2Answers

LEMMA LifeKeepsTypes ==
  ASSUME PipelineInv,
         \/ Start \/ BeginDestroy \/ FlushL2 \/ Crash \/ UNCHANGED pipelineVars
         \/ \E ok \in BOOLEAN : DestroyEnds(ok)
         \/ \E s \in Sessions : IdleFires(s) \/ L2Fires(s) \/ GoesSilent(s)
  PROVE  PipelineTypes'
<1>1. PipelineTypes /\ l1Queue \in Seq(Sessions) /\ l2Queue \in Seq(Sessions)
  BY DEF PipelineInv, PipelineTypes, MemoryTypes
<1>2. Off => phase' \in {"off"} /\ flush' \in {"none"} /\ MemoryTypes'
  <2>1. NoL1 \in L1Runs /\ NoL2 \in L2Runs
    BY DEF NoL1, NoL2, L1Runs, L2Runs, Stages
  <2> QED
    BY <1>1, <2>1, TriggerTypes DEF Off, Forgotten, MemoryTypes
<1>3. CASE Start
  <2>1. \A s \in Sessions : Recovered(ckpt[s]) \in StateRec \cup {NoState}
    <3>1. \A s \in Sessions : ckpt[s] \in StateRec \cup {NoState}
      BY <1>1 DEF PipelineTypes, StoreTypes
    <3>2. Recovered(NoState) = NoState
      BY DEF Recovered, Pending
    <3> QED
      BY <3>1, <3>2, RoundTypes
  <2>2. sess' \in [Sessions -> StateRec \cup {NoState}]
    BY <1>3, <2>1 DEF Start
  <2>3. l2Timer' \in [Sessions -> {"none", "max", "delay"}]
    BY <1>3 DEF Start
  <2>4. spent' \in SpentRec
    BY <1>1, <1>3, SpentTypes DEF Start
  <2> QED
    BY <1>1, <1>3, <2>2, <2>3, <2>4
    DEF Start, PipelineTypes, StoreTypes, MemoryTypes, GhostTypes, store
<1>4. CASE BeginDestroy
  BY <1>1, <1>4
  DEF BeginDestroy, PipelineTypes, StoreTypes, MemoryTypes, GhostTypes, store, ghosts
<1>5. CASE FlushL2
  <2>1. PICK order \in SetToSeqs({s \in Sessions : l2Timer[s] # "none" /\ Wakes(s) /\ ~Queued(l2Queue, s)}) :
          l2Queue' = l2Queue \o order
    BY <1>5 DEF FlushL2
  <2>2. order \in Seq(Sessions)
    BY OrderIsQueue
  <2>3. l2Queue' \in Seq(Sessions)
    BY <1>1, <2>1, <2>2, JoinQueued
  <2> QED
    BY <1>1, <1>5, <2>3
    DEF FlushL2, PipelineTypes, StoreTypes, MemoryTypes, GhostTypes, store, ghosts
<1>6. CASE Crash
  BY <1>1, <1>2, <1>6 DEF Crash, PipelineTypes, StoreTypes, GhostTypes, store, ghosts
<1>7. ASSUME NEW ok \in BOOLEAN, DestroyEnds(ok)
      PROVE  PipelineTypes'
  <2>1. ckpt' \in [Sessions -> StateRec \cup {NoState}]
    BY <1>1, <1>7 DEF DestroyEnds, Saved, PipelineTypes, StoreTypes, MemoryTypes
  <2>2. spent' \in SpentRec
    BY <1>1, <1>7, SpentTypes DEF DestroyEnds
  <2> QED
    BY <1>1, <1>2, <1>7, <2>1, <2>2 DEF DestroyEnds, PipelineTypes, StoreTypes, GhostTypes
<1>8. ASSUME NEW s \in Sessions, IdleFires(s)
      PROVE  PipelineTypes'
  <2>1. l1Queue' \in Seq(Sessions) /\ idle' \subseteq Sessions
    BY <1>1, <1>8, EnqueuedHas DEF IdleFires, PipelineTypes, MemoryTypes
  <2> QED
    BY <1>1, <1>8, <2>1
    DEF IdleFires, PipelineTypes, StoreTypes, MemoryTypes, GhostTypes, store, ghosts
<1>9. ASSUME NEW s \in Sessions, L2Fires(s)
      PROVE  PipelineTypes'
  <2>1. l2Queue' \in Seq(Sessions) /\ l2Timer' \in [Sessions -> {"none", "max", "delay"}]
    BY <1>1, <1>9, EnqueuedHas DEF L2Fires, PipelineTypes, MemoryTypes
  <2> QED
    BY <1>1, <1>9, <2>1
    DEF L2Fires, PipelineTypes, StoreTypes, MemoryTypes, GhostTypes, store, ghosts
<1>10. ASSUME NEW s \in Sessions, GoesSilent(s)
       PROVE  PipelineTypes'
  BY <1>1, <1>10
  DEF GoesSilent, PipelineTypes, StoreTypes, MemoryTypes, GhostTypes, store, memory
<1>11. CASE UNCHANGED pipelineVars
  BY <1>1, <1>11
  DEF pipelineVars, PipelineTypes, StoreTypes, MemoryTypes, GhostTypes, store, memory, ghosts
<1> QED
  BY <1>3, <1>4, <1>5, <1>6, <1>7, <1>8, <1>9, <1>10, <1>11

-----------------------------------------------------------------------------
(* Which row a cursor is at.                                               *)

LEMMA RowsStay ==
  ASSUME RowsInv, CursorInv, UNCHANGED <<l0, cursor, seen, cut>>,
         l1'.stage # "extract" \/ (l1' = l1 /\ Head(l1Queue') = Head(l1Queue))
  PROVE  (RowsInv /\ CursorInv)'
<1>1. \A s, k : UpTo(s, k)' = UpTo(s, k)
  BY DEF UpTo
<1>2. OnlyDisplacedSkipped' = OnlyDisplacedSkipped
  BY <1>1 DEF OnlyDisplacedSkipped, Displaced
<1>3. ShortCaptures' = ShortCaptures
  BY DEF ShortCaptures
<1>4. ASSUME l1' = l1
      PROVE  \A s : RunOf(s)' = RunOf(s)
  BY <1>1, <1>4 DEF RunOf
<1>5. CursorInv'
  BY <1>2, <1>3 DEF CursorInv
<1> QED
  BY <1>4, <1>5 DEF RowsInv

LEMMA CapturesKeepRows ==
  ASSUME PipelineInv, NEW s \in Sessions, CapturesLeft,
         l0' = [l0 EXCEPT ![s] = Append(@, UpTo(s, Len(@)) + RowsOf[spent.captures + 1])],
         UNCHANGED <<cursor, seen, cut, l1, l1Queue>>
  PROVE  (RowsInv /\ CursorInv)'
<1>1. /\ \A z \in Sessions : l0[z] \in Seq(Nat) /\ cursor[z] \in Nat
      /\ l0 \in [Sessions -> Seq(Nat)] /\ l1.to \in Nat
      /\ l1Queue \in Seq(Sessions)
  BY DEF PipelineInv, PipelineTypes, StoreTypes, MemoryTypes, L1Runs
<1>2. \A z \in Sessions : /\ Grows(l0[z]) /\ cursor[z] <= Len(l0[z])
                         /\ cut[z] \subseteq 1..Len(l0[z])
  BY DEF PipelineInv, RowsInv
<1>3. /\ RowsOf[spent.captures + 1] \in Nat \ {0}
      /\ ShortCaptures => RowsOf[spent.captures + 1] <= Batch + 1
      /\ UpTo(s, Len(l0[s])) = After(l0[s], Len(l0[s]))
  BY CaptureTypes
<1>4. /\ l0'[s] \in Seq(Nat) /\ Len(l0'[s]) = Len(l0[s]) + 1
      /\ \A k \in 0..Len(l0[s]) : After(l0'[s], k) = After(l0[s], k)
      /\ Grows(l0'[s])
  BY <1>1, <1>2, <1>3, RowsGrow
<1>5. \A z \in Sessions \ {s} : l0'[z] = l0[z]
  BY <1>1
<1>6. ASSUME NEW z \in Sessions
      PROVE  /\ Grows(l0'[z]) /\ Len(l0[z]) \in Nat /\ Len(l0[z]) <= Len(l0'[z])
             /\ Len(l0'[z]) \in Nat
             /\ \A k \in 0..Len(l0[z]) : UpTo(z, k)' = UpTo(z, k)
  BY <1>1, <1>2, <1>4, <1>5 DEF UpTo, After
<1>7. ASSUME NEW z \in Sessions
      PROVE  /\ cursor[z] <= Len(l0'[z]) /\ cut[z] \subseteq 1..Len(l0'[z])
             /\ UpTo(z, cursor[z])' = UpTo(z, cursor[z])
  <2>1. cursor[z] \in 0..Len(l0[z])
    BY <1>1, <1>2, <1>6
  <2>2. cut[z] \subseteq 1..Len(l0[z]) /\ cursor[z] <= Len(l0[z]) /\ cursor[z] \in Nat
    BY <1>1, <1>2
  <2> QED
    BY <1>6, <2>1, <2>2
<1>8. ASSUME NEW z \in Sessions
      PROVE  Displaced(z)' = Displaced(z)
  <2>1. ASSUME NEW k \in cut[z]
        PROVE  UpTo(z, k)' = UpTo(z, k) /\ UpTo(z, k - 1)' = UpTo(z, k - 1)
    <3>1. k \in 0..Len(l0[z]) /\ k - 1 \in 0..Len(l0[z])
      BY <1>2, <1>6
    <3>2. UpTo(z, k)' = UpTo(z, k)
      BY <1>6, <3>1
    <3>3. UpTo(z, k - 1)' = UpTo(z, k - 1)
      BY <1>6, <3>1
    <3> QED
      BY <3>2, <3>3
  <2>2. /\ cut'[z] = cut[z]
        /\ \A k \in cut[z] : UpTo(z, k)' = UpTo(z, k) /\ UpTo(z, k - 1)' = UpTo(z, k - 1)
    BY <2>1
  <2> QED
    BY <2>2 DEF Displaced
<1>9. ASSUME l1.stage = "extract"
      PROVE  LET z == Head(l1Queue) IN l1.to <= Len(l0'[z]) /\ RunOf(z)'
  <2> DEFINE z == Head(l1Queue)
  <2>1. z \in Sessions
    BY <1>9, RunTypes
  <2>2. l1.to <= Len(l0[z]) /\ RunOf(z)
    BY <1>9 DEF PipelineInv, RowsInv
  <2>3. l1' = l1 /\ cursor' = cursor /\ z' = z
    OBVIOUS
  <2> HIDE DEF z
  <2>4. l1.to \in 0..Len(l0[z]) /\ l1.to <= Len(l0'[z])
    BY <1>1, <1>6, <2>1, <2>2
  <2>5. /\ UpTo(z, l1.to)' = UpTo(z, l1.to)
        /\ cursor[z] < l1.to => UpTo(z, l1.to - 1)' = UpTo(z, l1.to - 1)
        /\ UpTo(z, cursor[z])' = UpTo(z, cursor[z])
    <3>1. UpTo(z, l1.to)' = UpTo(z, l1.to)
      BY <1>6, <2>1, <2>3, <2>4
    <3>2. cursor[z] < l1.to => l1.to - 1 \in 0..Len(l0[z])
      BY <1>1, <1>6, <2>1, <2>4
    <3>3. cursor[z] < l1.to => UpTo(z, l1.to - 1)' = UpTo(z, l1.to - 1)
      BY <1>6, <2>1, <2>3, <3>2
    <3> QED
      BY <1>7, <2>1, <2>3, <3>1, <3>3
  <2>6. RunOf(z)'
    BY <2>2, <2>3, <2>5 DEF RunOf, ShortCaptures
  <2> QED
    BY <2>4, <2>6 DEF z
<1>10. ShortCaptures => OnlyDisplacedSkipped'
  <2>1. ShortCaptures => \A z \in Sessions : 1..UpTo(z, cursor[z]) \subseteq seen[z] \cup Displaced(z)
    BY DEF PipelineInv, CursorInv, OnlyDisplacedSkipped
  <2>2. \A z \in Sessions : (1..UpTo(z, cursor[z]))' = 1..UpTo(z, cursor[z])
    BY <1>7
  <2> QED
    BY <1>8, <2>1, <2>2 DEF OnlyDisplacedSkipped
<1> QED
  BY <1>6, <1>7, <1>9, <1>10 DEF RowsInv, CursorInv, ShortCaptures

\* What a run that is over has taken: with short captures, every row from the
\* cursor to the end of its last capture, but those the extended batch displaces.
LEMMA EndTakes ==
  ASSUME PipelineInv, ShortCaptures, NEW s \in Sessions, l0[s] \in Seq(Nat),
         cursor[s] \in Nat, l1.to \in Nat, l1.rows \in Nat, cursor[s] <= Len(l0[s]),
         l1.to <= Len(l0[s]), RunOf(s), NEW x \in 1..UpTo(s, l1.to)
  PROVE  \/ x \in 1..UpTo(s, cursor[s])
         \/ x \in TakenAsNew(s)
         \/ /\ Extended(s)
            /\ x \in UpTo(s, l1.to - 1) - Batch + 2 .. UpTo(s, l1.to) - Batch
<1>1. Batch \in Nat
  BY PipelineAssumption
<1>2. \A k \in 0..Len(l0[s]) : UpTo(s, k) \in Nat
  BY DEF UpTo
<1>3. cursor[s] \in 0..Len(l0[s]) /\ l1.to \in 0..Len(l0[s])
  OBVIOUS
<1>4. UpTo(s, cursor[s]) \in Nat /\ UpTo(s, l1.to) \in Nat
  BY <1>2, <1>3
<1>5. CASE l1.to = cursor[s]
  BY <1>5
<1>6. CASE cursor[s] < l1.to
  <2>1. l1.rows = UpTo(s, l1.to) /\ UpTo(s, l1.to - 1) < UpTo(s, cursor[s]) + Batch
    BY <1>3, <1>6 DEF RunOf
  <2>2. l1.to - 1 \in 0..Len(l0[s])
    BY <1>3, <1>6
  <2>3. UpTo(s, l1.to - 1) \in Nat
    BY <1>2, <2>2
  <2> QED
    BY <1>1, <1>4, <2>1, <2>3 DEF TakenAsNew, Extended, MaxOf
<1> QED
  BY <1>5, <1>6 DEF RunOf

LEMMA StepKeepsRows ==
  ASSUME PipelineInv, [PipelineNext]_pipelineVars
  PROVE  (RowsInv /\ CursorInv)'
<1>1. RowsInv /\ CursorInv /\ l1Queue \in Seq(Sessions)
  BY DEF PipelineInv, PipelineTypes, MemoryTypes
<1>2. ASSUME NEW s \in Sessions, CaptureLate(s) \/ \E ok \in BOOLEAN : Capture(s, ok)
      PROVE  (RowsInv /\ CursorInv)'
  BY <1>2, CapturesKeepRows DEF CaptureLate, Capture, memory
<1>3. CASE L1Start
  <2> DEFINE s == Head(l1Queue)
  <2>1. s \in Sessions
    BY <1>1, <1>3, TailQueued DEF L1Start
  <2>2. l0[s] \in Seq(Nat) /\ Grows(l0[s]) /\ cursor[s] \in Nat /\ cursor[s] <= Len(l0[s])
    BY <1>1, <2>1 DEF PipelineInv, PipelineTypes, StoreTypes, RowsInv
  <2>3. /\ Planned(s).to <= Len(l0[s])
        /\ \/ Planned(s).to = cursor[s] /\ Planned(s).rows = 0
           \/ /\ cursor[s] < Planned(s).to
              /\ ShortCaptures =>
                   /\ Planned(s).rows = UpTo(s, Planned(s).to)
                   /\ UpTo(s, Planned(s).to - 1) < UpTo(s, cursor[s]) + Batch
    BY <2>1, <2>2, PlannedRun
  <2>4. l1' = Planned(s) /\ s' = s /\ UNCHANGED <<l0, cursor, seen, cut, l1Queue>>
    BY <1>3 DEF L1Start, store, ghosts
  <2> HIDE DEF s
  <2>5. \A z, k : UpTo(z, k)' = UpTo(z, k)
    BY <2>4 DEF UpTo
  <2>6. l1'.to <= Len(l0'[s]) /\ RunOf(s)'
    BY <2>3, <2>4, <2>5 DEF RunOf, ShortCaptures
  <2>7. OnlyDisplacedSkipped' = OnlyDisplacedSkipped
    BY <2>4, <2>5 DEF OnlyDisplacedSkipped, Displaced
  <2>8. CursorInv'
    BY <1>1, <2>7 DEF CursorInv, ShortCaptures
  <2>9. s = Head(l1Queue)
    BY DEF s
  <2> QED
    BY <1>1, <2>4, <2>6, <2>8, <2>9 DEF RowsInv
<1>4. ASSUME NEW kept \in 0..1, NEW ok \in BOOLEAN, L1Ends(kept, ok)
      PROVE  (RowsInv /\ CursorInv)'
  <2> DEFINE s == Head(l1Queue)
  <2>1. /\ s \in Sessions /\ l1.stage = "extract" /\ l1'.stage = "persist"
        /\ l0' = l0 /\ cursor' = [cursor EXCEPT ![s] = l1.to]
        /\ seen' = [seen EXCEPT ![s] = @ \cup TakenAsNew(s)]
        /\ cut' = [cut EXCEPT ![s] = IF Extended(s) THEN @ \cup {l1.to} ELSE @]
    BY <1>4, RunTypes DEF L1Ends, PipelineInv, PipelineTypes, MemoryTypes, L1Runs
  <2>2. /\ \A z \in Sessions : cursor[z] \in Nat /\ l0[z] \in Seq(Nat)
        /\ cursor \in [Sessions -> Nat] /\ seen \in [Sessions -> SUBSET Nat]
        /\ cut \in [Sessions -> SUBSET Nat]
        /\ l1.to \in Nat /\ l1.rows \in Nat
    BY DEF PipelineInv, PipelineTypes, StoreTypes, MemoryTypes, GhostTypes, L1Runs
  <2>3. l1.to <= Len(l0[s]) /\ RunOf(s)
    BY <1>1, <2>1 DEF RowsInv
  <2>4. \A z, k : UpTo(z, k)' = UpTo(z, k)
    BY <2>1 DEF UpTo
  <2>5. \A z \in Sessions \ {s} : /\ cursor'[z] = cursor[z] /\ seen'[z] = seen[z]
                                 /\ cut'[z] = cut[z]
    BY <2>1, <2>2
  <2>6. /\ cursor'[s] = l1.to /\ seen'[s] = seen[s] \cup TakenAsNew(s)
        /\ cut'[s] = IF Extended(s) THEN cut[s] \cup {l1.to} ELSE cut[s]
        /\ s' = s
    BY <1>4, <2>1, <2>2 DEF L1Ends
  <2> HIDE DEF s
  <2>7. cursor[s] \in 0..Len(l0[s]) /\ l1.to \in 0..Len(l0[s])
    BY <1>1, <2>1, <2>2, <2>3 DEF RowsInv
  <2>8. Extended(s) => l1.to \in 1..Len(l0[s])
    <3>1. UpTo(s, cursor[s]) \in Nat
      BY <2>1, <2>2, <2>7 DEF UpTo
    <3>2. l1.to = cursor[s] /\ l1.rows = 0 => ~Extended(s)
      BY <3>1, PipelineAssumption DEF Extended
    <3> QED
      BY <2>1, <2>2, <2>3, <2>7, <3>2 DEF RunOf
  <2>9. Displaced(s) \subseteq Displaced(s)'
    <3>1. cut[s] \subseteq cut'[s] /\ s' = s
      BY <2>6
    <3> QED
      BY <2>4, <3>1 DEF Displaced
  <2>10. \A z \in Sessions \ {s} : Displaced(z)' = Displaced(z)
    BY <2>4, <2>5 DEF Displaced
  <2>11. ASSUME ShortCaptures, NEW x \in 1..UpTo(s, l1.to)
         PROVE  x \in seen'[s] \cup Displaced(s)'
    <3>1. CASE x \in 1..UpTo(s, cursor[s])
      <4>1. x \in seen[s] \cup Displaced(s)
        BY <1>1, <2>1, <2>11, <3>1 DEF CursorInv, OnlyDisplacedSkipped
      <4> QED
        BY <2>6, <2>9, <4>1
    <3>2. CASE x \in TakenAsNew(s)
      BY <2>6, <3>2
    <3>3. CASE /\ Extended(s)
               /\ x \in UpTo(s, l1.to - 1) - Batch + 2 .. UpTo(s, l1.to) - Batch
      <4>1. l1.to \in cut'[s] /\ s' = s
        BY <2>6, <3>3
      <4> QED
        BY <2>4, <3>3, <4>1 DEF Displaced
    <3> QED
      BY <1>1, <2>1, <2>2, <2>3, <2>7, <2>11, <3>1, <3>2, <3>3, EndTakes
  <2>12. ShortCaptures => OnlyDisplacedSkipped'
    <3>1. ASSUME ShortCaptures, NEW z \in Sessions
          PROVE  1..UpTo(z, cursor'[z]) \subseteq seen'[z] \cup Displaced(z)'
      <4>1. CASE z = s
        BY <2>6, <2>11, <3>1, <4>1
      <4>2. CASE z # s
        BY <1>1, <2>5, <2>10, <3>1, <4>2 DEF CursorInv, OnlyDisplacedSkipped
      <4> QED
        BY <4>1, <4>2
    <3>2. \A z \in Sessions : UpTo(z, cursor[z])' = UpTo(z, cursor'[z])
      BY <2>4
    <3> QED
      BY <3>1, <3>2 DEF OnlyDisplacedSkipped
  <2>13. \A z \in Sessions : /\ Grows(l0'[z]) /\ cursor'[z] <= Len(l0'[z])
                            /\ cut'[z] \subseteq 1..Len(l0'[z])
    BY <1>1, <2>1, <2>3, <2>5, <2>6, <2>8 DEF RowsInv
  <2> QED
    BY <2>1, <2>12, <2>13 DEF RowsInv, CursorInv, ShortCaptures
<1>5. ASSUME NEW kept \in 0..1, L1Fails(kept)
      PROVE  (RowsInv /\ CursorInv)'
  BY <1>1, <1>5, RowsStay DEF L1Fails, NoL1
<1>6. CASE L1Resumes
  BY <1>1, <1>6, RowsStay DEF L1Resumes, NoL1, store, ghosts
<1>7. ASSUME Off, UNCHANGED <<l0, cursor, seen, cut>>
      PROVE  (RowsInv /\ CursorInv)'
  BY <1>1, <1>7, RowsStay DEF Off, Forgotten, NoL1
<1>8. CASE NotifyResumes \/ \E s \in Sessions : IdleFires(s)
  <2>1. UNCHANGED <<l0, cursor, seen, cut, l1>>
    BY <1>8 DEF NotifyResumes, IdleFires, store, ghosts
  <2>2. l1Queue # <<>> => Head(l1Queue') = Head(l1Queue)
    <3>1. CASE NotifyResumes
      <4>1. Head(writes).s \in Sessions
        BY <3>1, RunTypes DEF NotifyResumes, Written
      <4> QED
        BY <1>1, <3>1, <4>1, EnqueuedHas DEF NotifyResumes
    <3>2. ASSUME NEW s \in Sessions, IdleFires(s)
          PROVE  l1Queue # <<>> => Head(l1Queue') = Head(l1Queue)
      BY <1>1, <3>2, EnqueuedHas DEF IdleFires
    <3> QED
      BY <1>8, <3>1, <3>2
  <2>3. l1.stage = "extract" => l1Queue # <<>>
    BY DEF PipelineInv, QueueInv
  <2> QED
    BY <1>1, <2>1, <2>2, <2>3, RowsStay
<1>9. ASSUME UNCHANGED <<l0, cursor, seen, cut, l1, l1Queue>>
      PROVE  (RowsInv /\ CursorInv)'
  BY <1>1, <1>9, RowsStay
<1>10. CASE L2Resumes \/ Start \/ BeginDestroy \/ FlushL2 \/ L2Start \/ L2Throws
            \/ L2Answers \/ L3Ends \/ Collects \/ UNCHANGED pipelineVars
            \/ \E s \in Sessions : L2Fires(s) \/ GoesSilent(s)
  BY <1>9, <1>10
  DEF L2Resumes, Start, BeginDestroy, FlushL2, L2Start, L2Throws, L2Answers, L2Ends,
      L3Ends, Collects, L2Fires, GoesSilent, pipelineVars, store, memory, ghosts
<1>11. CASE Crash \/ \E ok \in BOOLEAN : DestroyEnds(ok)
  BY <1>7, <1>11 DEF Crash, DestroyEnds, store, ghosts
<1> QED
  BY <1>2, <1>3, <1>4, <1>5, <1>6, <1>8, <1>10, <1>11 DEF PipelineNext, Resumes, L1Answers

-----------------------------------------------------------------------------
(* Which run a queue and the persister serve.                              *)

LEMMA QueuesStay ==
  ASSUME QueueInv, writes' = writes, l1' = l1, l2' = l2,
         l1Queue # <<>> => l1Queue' # <<>> /\ Head(l1Queue') = Head(l1Queue),
         l2Queue # <<>> => l2Queue' # <<>> /\ Head(l2Queue') = Head(l2Queue)
  PROVE  QueueInv'
<1>1. l1.stage = "persist" => l1Queue # <<>>
  BY DEF QueueInv
<1>2. l2.stage = "persist" => l2Queue # <<>>
  BY DEF QueueInv
<1> QED
  BY <1>1, <1>2 DEF QueueInv, OfL2

\* A run that waits for no call of the persister may start or end.
LEMMA L1MayChange ==
  ASSUME QueueInv, l1.stage # "persist", writes' = writes, l2' = l2, l2Queue' = l2Queue,
         l1'.stage # "idle" => l1Queue' # <<>>
  PROVE  QueueInv'
BY DEF QueueInv, OfL2

LEMMA L2MayChange ==
  ASSUME QueueInv, l2.stage # "persist", writes' = writes, l1' = l1, l1Queue' = l1Queue,
         l2'.stage # "idle" => l2Queue' # <<>>
  PROVE  QueueInv'
BY DEF QueueInv, OfL2

LEMMA WriteAdded ==
  ASSUME QueueInv, writes \in Seq(Write), NEW w \in Write, writes' = Append(writes, w),
         UNCHANGED <<l1Queue, l2Queue>>,
         w.who # "l1" => l1' = l1,
         w.who = "l1" => l1.stage = "extract" /\ l1'.stage = "persist" /\ w.s = Head(l1Queue),
         ~OfL2(w) => l2' = l2,
         OfL2(w) => l2.stage = "extract" /\ l2'.stage = "persist" /\ w.s = Head(l2Queue)
  PROVE  QueueInv'
<1>1. /\ Len(writes') = Len(writes) + 1 /\ Len(writes) \in Nat
      /\ \A i \in 1..Len(writes) : writes'[i] = writes[i]
      /\ writes'[Len(writes) + 1] = w
      /\ \A i \in 1..Len(writes) + 1 : i \in 1..Len(writes) \/ i = Len(writes) + 1
  BY WriteAppended
<1>2. w.who = "l1" => \A i \in 1..Len(writes) : writes[i].who # "l1"
  BY DEF QueueInv
<1>3. OfL2(w) => \A i \in 1..Len(writes) : ~OfL2(writes[i])
  BY DEF QueueInv
<1>4. l1'.stage # "idle" => l1Queue' # <<>>
  BY DEF QueueInv
<1>5. l2'.stage # "idle" => l2Queue' # <<>>
  BY DEF QueueInv
<1>6. ASSUME NEW i \in 1..Len(writes')
      PROVE  /\ writes'[i].who = "l1" => l1'.stage = "persist" /\ writes'[i].s = Head(l1Queue)
             /\ OfL2(writes'[i]) => l2'.stage = "persist" /\ writes'[i].s = Head(l2Queue)
  <2>1. CASE i \in 1..Len(writes)
    <3>1. writes'[i] = writes[i]
      BY <1>1, <2>1
    <3>2. writes[i].who = "l1" => w.who # "l1"
      BY <1>2, <2>1
    <3>3. OfL2(writes[i]) => ~OfL2(w)
      BY <1>3, <2>1
    <3> QED
      BY <2>1, <3>1, <3>2, <3>3 DEF QueueInv
  <2>2. CASE i = Len(writes) + 1
    BY <1>1, <2>2
  <2> QED
    BY <1>1, <2>1, <2>2
<1>7. ASSUME NEW i \in 1..Len(writes'), NEW j \in 1..Len(writes')
      PROVE  /\ writes'[i].who = "l1" /\ writes'[j].who = "l1" => i = j
             /\ OfL2(writes'[i]) /\ OfL2(writes'[j]) => i = j
  BY <1>1, <1>2, <1>3 DEF QueueInv
<1> QED
  BY <1>4, <1>5, <1>6, <1>7 DEF QueueInv, OfL2

LEMMA WriteEnded ==
  ASSUME QueueInv, writes \in Seq(Write), writes # <<>>, writes' = Tail(writes),
         Head(writes).who # "l1" =>
           /\ l1' = l1
           /\ l1Queue # <<>> => l1Queue' # <<>> /\ Head(l1Queue') = Head(l1Queue),
         Head(writes).who = "l1" => l1'.stage = "idle",
         ~OfL2(Head(writes)) => l2' = l2 /\ l2Queue' = l2Queue,
         OfL2(Head(writes)) => l2'.stage = "idle"
  PROVE  QueueInv'
<1>1. /\ Head(writes) = writes[1] /\ 1 \in 1..Len(writes)
      /\ \A i \in 1..Len(writes') : /\ i + 1 \in 1..Len(writes) /\ i + 1 # 1
                                    /\ writes'[i] = writes[i + 1]
  BY WriteTaken
<1>2. l1'.stage # "idle" => l1Queue' # <<>>
  BY DEF QueueInv
<1>3. l2'.stage # "idle" => l2Queue' # <<>>
  BY DEF QueueInv
<1>4. ASSUME NEW i \in 1..Len(writes')
      PROVE  /\ writes'[i].who = "l1" =>
                  l1'.stage = "persist" /\ writes'[i].s = Head(l1Queue')
             /\ OfL2(writes'[i]) => l2'.stage = "persist" /\ writes'[i].s = Head(l2Queue')
  <2>1. writes'[i] = writes[i + 1] /\ i + 1 \in 1..Len(writes) /\ i + 1 # 1
    BY <1>1
  <2>2. writes[i + 1].who = "l1" => /\ Head(writes).who # "l1" /\ l1.stage = "persist"
                                    /\ writes[i + 1].s = Head(l1Queue) /\ l1Queue # <<>>
    BY <1>1, <2>1 DEF QueueInv
  <2>3. OfL2(writes[i + 1]) => /\ ~OfL2(Head(writes)) /\ l2.stage = "persist"
                               /\ writes[i + 1].s = Head(l2Queue)
    BY <1>1, <2>1 DEF QueueInv
  <2> QED
    BY <2>1, <2>2, <2>3
<1>5. ASSUME NEW i \in 1..Len(writes'), NEW j \in 1..Len(writes')
      PROVE  /\ writes'[i].who = "l1" /\ writes'[j].who = "l1" => i = j
             /\ OfL2(writes'[i]) /\ OfL2(writes'[j]) => i = j
  <2>1. i + 1 = j + 1 => i = j
    OBVIOUS
  <2> QED
    BY <1>1, <2>1 DEF QueueInv
<1> QED
  BY <1>2, <1>3, <1>4, <1>5 DEF QueueInv, OfL2

LEMMA StepKeepsQueues ==
  ASSUME PipelineInv, [PipelineNext]_pipelineVars
  PROVE  QueueInv'
<1>1. /\ QueueInv /\ l1Queue \in Seq(Sessions) /\ l2Queue \in Seq(Sessions)
      /\ writes \in Seq(Write) /\ l1 \in L1Runs /\ l2 \in L2Runs
  BY DEF PipelineInv, PipelineTypes, MemoryTypes
<1>2. ASSUME NEW who \in {"notify", "l1", "l2", "l2skip"}, NEW s \in Sessions, NEW thr \in Nat
      PROVE  [who |-> who, s |-> s, thr |-> thr] \in Write
  BY DEF Write
<1>3. ASSUME NEW s \in Sessions, NEW ok \in BOOLEAN, Capture(s, ok)
      PROVE  QueueInv'
  <2> DEFINE w == [who |-> "notify", s |-> s, thr |-> Threshold(Rounded(s))]
  <2>1. w \in Write
    BY <1>2, <1>3, CaptureTypes, RoundTypes DEF Capture
  <2>2. writes' = Append(writes, w) /\ w.who = "notify" /\ UNCHANGED <<l1Queue, l2Queue, l1, l2>>
    BY <1>3 DEF Capture, Persist
  <2> HIDE DEF w
  <2> QED
    BY <1>1, <2>1, <2>2, WriteAdded DEF OfL2
<1>4. ASSUME NEW kept \in 0..1, NEW ok \in BOOLEAN, L1Ends(kept, ok)
      PROVE  QueueInv'
  <2> DEFINE w == [who |-> "l1", s |-> Head(l1Queue), thr |-> 0]
  <2>1. w \in Write
    BY <1>2, <1>4, RunTypes DEF L1Ends
  <2>2. /\ writes' = Append(writes, w) /\ w.who = "l1" /\ w.s = Head(l1Queue)
        /\ l1.stage = "extract" /\ UNCHANGED <<l1Queue, l2Queue, l2>>
    BY <1>4 DEF L1Ends, Persist
  <2>3. l1'.stage = "persist"
    BY <1>1, <1>4 DEF L1Ends, L1Runs
  <2> HIDE DEF w
  <2> QED
    BY <1>1, <2>1, <2>2, <2>3, WriteAdded DEF OfL2
<1>5. ASSUME NEW answer, NEW ok \in BOOLEAN, L2Ends(answer, ok)
      PROVE  QueueInv'
  <2>1. PICK who \in {"l2", "l2skip"} : Persist(who, Head(l2Queue), 0, sess', ok)
    BY <1>5 DEF L2Ends
  <2> DEFINE w == [who |-> who, s |-> Head(l2Queue), thr |-> 0]
  <2>2. w \in Write
    BY <1>2, <1>5, RunTypes DEF L2Ends
  <2>3. /\ writes' = Append(writes, w) /\ w.who = who /\ w.s = Head(l2Queue)
        /\ l2.stage = "extract" /\ UNCHANGED <<l1Queue, l2Queue, l1>>
    BY <1>5, <2>1 DEF L2Ends, Persist
  <2>4. l2'.stage = "persist"
    BY <1>1, <1>5 DEF L2Ends, L2Runs
  <2> HIDE DEF w
  <2> QED
    BY <1>1, <2>2, <2>3, <2>4, WriteAdded DEF OfL2
<1>6. CASE NotifyResumes
  <2>1. /\ writes # <<>> /\ Head(writes).who = "notify" /\ writes' = Tail(writes)
        /\ Head(writes).s \in Sessions /\ UNCHANGED <<l1, l2, l2Queue>>
    BY <1>6, RunTypes DEF NotifyResumes, Written
  <2>2. l1Queue # <<>> => l1Queue' # <<>> /\ Head(l1Queue') = Head(l1Queue)
    BY <1>1, <1>6, <2>1, EnqueuedHas DEF NotifyResumes
  <2> QED
    BY <1>1, <2>1, <2>2, WriteEnded DEF OfL2
<1>7. CASE L1Resumes
  BY <1>1, <1>7, WriteEnded DEF L1Resumes, Written, OfL2, NoL1
<1>8. CASE L2Resumes
  BY <1>1, <1>8, WriteEnded DEF L2Resumes, Written, OfL2, NoL2
<1>9. CASE L1Start
  BY <1>1, <1>9, L1MayChange DEF L1Start
<1>10. ASSUME NEW kept \in 0..1, L1Fails(kept)
       PROVE  QueueInv'
  BY <1>1, <1>10, L1MayChange DEF L1Fails, NoL1
<1>11. CASE L2Start \/ L2Throws
  BY <1>1, <1>11, L2MayChange DEF L2Start, L2Throws, NoL2
<1>12. CASE FlushL2
  <2>1. PICK order \in SetToSeqs({s \in Sessions : l2Timer[s] # "none" /\ Wakes(s) /\ ~Queued(l2Queue, s)}) :
          l2Queue' = l2Queue \o order
    BY <1>12 DEF FlushL2
  <2>2. order \in Seq(Sessions)
    BY OrderIsQueue
  <2>3. l2Queue # <<>> => l2Queue' # <<>> /\ Head(l2Queue') = Head(l2Queue)
    BY <1>1, <2>1, <2>2, JoinQueued
  <2> QED
    BY <1>1, <1>12, <2>3, QueuesStay DEF FlushL2
<1>13. ASSUME NEW s \in Sessions, IdleFires(s) \/ L2Fires(s)
       PROVE  QueueInv'
  <2>1. l1Queue # <<>> => l1Queue' # <<>> /\ Head(l1Queue') = Head(l1Queue)
    BY <1>1, <1>13, EnqueuedHas DEF IdleFires, L2Fires
  <2>2. l2Queue # <<>> => l2Queue' # <<>> /\ Head(l2Queue') = Head(l2Queue)
    BY <1>1, <1>13, EnqueuedHas DEF IdleFires, L2Fires
  <2> QED
    BY <1>1, <1>13, <2>1, <2>2, QueuesStay DEF IdleFires, L2Fires
<1>14. CASE L3Ends \/ Collects \/ Start \/ BeginDestroy \/ UNCHANGED pipelineVars
            \/ \E s \in Sessions : CaptureLate(s) \/ GoesSilent(s)
  BY <1>1, <1>14, QueuesStay
  DEF L3Ends, Collects, Start, BeginDestroy, CaptureLate, GoesSilent, pipelineVars, memory
<1>15. CASE Crash \/ \E ok \in BOOLEAN : DestroyEnds(ok)
  BY <1>15 DEF Crash, DestroyEnds, Off, Forgotten, QueueInv, NoL1, NoL2
<1> QED
  BY <1>3, <1>4, <1>5, <1>6, <1>7, <1>8, <1>9, <1>10, <1>11, <1>12, <1>13, <1>14, <1>15
  DEF PipelineNext, Resumes, L1Answers, L2Answers

-----------------------------------------------------------------------------
(* Sessions the manager knows.                                             *)

LEMMA FlightAdded ==
  ASSUME writes \in Seq(Write), NEW who \in {"notify", "l1", "l2", "l2skip"},
         NEW s \in Sessions, NEW thr \in Nat,
         writes' = Append(writes, [who |-> who, s |-> s, thr |-> thr])
  PROVE  \A z : InFlight(z)' <=> InFlight(z) \/ (who = "notify" /\ z = s)
<1> DEFINE w == [who |-> who, s |-> s, thr |-> thr]
<1>1. w \in Write /\ w.who = who /\ w.s = s /\ writes' = Append(writes, w)
  BY DEF Write
<1> HIDE DEF w
<1>2. /\ Len(writes') = Len(writes) + 1 /\ Len(writes) \in Nat
      /\ \A i \in 1..Len(writes) : writes'[i] = writes[i]
      /\ writes'[Len(writes) + 1] = w
      /\ \A i \in 1..Len(writes) + 1 : i \in 1..Len(writes) \/ i = Len(writes) + 1
  BY <1>1, WriteAppended
<1>3. \A i \in 1..Len(writes) : i \in 1..Len(writes')
  BY <1>2
<1>4. Len(writes) + 1 \in 1..Len(writes')
  BY <1>2
<1> QED
  BY <1>1, <1>2, <1>3, <1>4 DEF InFlight

LEMMA FlightEnded ==
  ASSUME writes \in Seq(Write), writes # <<>>, writes' = Tail(writes)
  PROVE  /\ \A z : InFlight(z)' => InFlight(z)
         /\ \A z : InFlight(z) => InFlight(z)' \/ (Head(writes).who = "notify" /\ Head(writes).s = z)
         /\ Head(writes).who = "notify" => InFlight(Head(writes).s)
<1>1. /\ Head(writes) = writes[1] /\ 1 \in 1..Len(writes)
      /\ \A i \in 1..Len(writes') : i + 1 \in 1..Len(writes) /\ writes'[i] = writes[i + 1]
      /\ \A i \in 1..Len(writes) : i # 1 => /\ i - 1 \in 1..Len(writes')
                                            /\ writes'[i - 1] = writes[i]
  BY WriteTaken
<1>2. ASSUME NEW z, InFlight(z)'
      PROVE  InFlight(z)
  <2>1. PICK i \in 1..Len(writes') : writes'[i].who = "notify" /\ writes'[i].s = z
    BY <1>2 DEF InFlight
  <2> QED
    BY <1>1, <2>1 DEF InFlight
<1>3. ASSUME NEW z, InFlight(z)
      PROVE  InFlight(z)' \/ (Head(writes).who = "notify" /\ Head(writes).s = z)
  <2>1. PICK i \in 1..Len(writes) : writes[i].who = "notify" /\ writes[i].s = z
    BY <1>3 DEF InFlight
  <2>2. CASE i = 1
    BY <1>1, <2>1, <2>2
  <2>3. CASE i # 1
    BY <1>1, <2>1, <2>3 DEF InFlight
  <2> QED
    BY <2>2, <2>3
<1> QED
  BY <1>1, <1>2, <1>3 DEF InFlight

LEMMA KnownStay ==
  ASSUME KnownInv, inactive' \subseteq inactive,
         \A z \in Sessions : Waited(z)' => Waited(z),
         \A z : InFlight(z)' => InFlight(z),
         \A z \in Sessions : sess[z] \in StateRec => sess'[z] \in StateRec
  PROVE  KnownInv'
BY DEF KnownInv

\* A collected session is waited for by nothing.
LEMMA EvictedUnwaited ==
  ASSUME PipelineInv, NEW z \in Evictable
  PROVE  /\ z \in inactive /\ ~Queued(l1Queue, z) /\ ~Queued(l2Queue, z) /\ ~InFlight(z)
BY DEF Evictable, PipelineInv, KnownInv

LEMMA RunsKeepKnown ==
  ASSUME PipelineInv,
         L1Start \/ L1Answers \/ L2Start \/ L2Throws \/ L2Answers \/ L3Ends
         \/ \E kept \in 0..1 : L1Fails(kept)
  PROVE  KnownInv'
<1>1. /\ KnownInv /\ QueueInv /\ l1Queue \in Seq(Sessions) /\ l2Queue \in Seq(Sessions)
      /\ writes \in Seq(Write) /\ sess \in [Sessions -> StateRec \cup {NoState}]
      /\ l2 \in L2Runs /\ l2Timer \in [Sessions -> {"none", "max", "delay"}]
  BY DEF PipelineInv, PipelineTypes, MemoryTypes
<1>2. CASE L1Start \/ L2Start \/ L3Ends
  BY <1>1, <1>2, KnownStay
  DEF L1Start, L2Start, L3Ends, store, ghosts, Waited, Queued, InFlight
<1>3. ASSUME NEW kept \in 0..1, L1Fails(kept)
      PROVE  KnownInv'
  <2> DEFINE s == Head(l1Queue)
  <2>1. l1Queue # <<>> /\ s \in Sessions
    BY <1>3, RunTypes DEF L1Fails
  <2>2. Queued(l1Queue, s) /\ \A z : Queued(Tail(l1Queue), z) => Queued(l1Queue, z)
    BY <1>1, <2>1, TailQueued
  <2>3. \A z : InFlight(z)' <=> InFlight(z)
    BY <1>3 DEF L1Fails, InFlight
  <2>4. ASSUME NEW z \in Sessions, Waited(z)'
        PROVE  Waited(z)
    BY <1>3, <2>2, <2>3, <2>4 DEF L1Fails, Rearmed, Waited
  <2> QED
    BY <1>1, <1>3, <2>3, <2>4, KnownStay DEF L1Fails
<1>4. ASSUME NEW kept \in 0..1, NEW ok \in BOOLEAN, L1Ends(kept, ok)
      PROVE  KnownInv'
  <2> DEFINE s == Head(l1Queue)
  <2>1. s \in Sessions /\ sess[s] \in StateRec
    BY <1>4, RunTypes DEF L1Ends
  <2>2. \A z : InFlight(z)' <=> InFlight(z)
    BY <1>1, <1>4, <2>1, FlightAdded DEF L1Ends, Persist
  <2>3. ASSUME NEW z \in Sessions, Waited(z)'
        PROVE  Waited(z)
    BY <1>4, <2>2, <2>3 DEF L1Ends, Waited
  <2>4. Advanced(sess[s]) \in StateRec
    BY <2>1, RoundTypes
  <2>5. \A z \in Sessions : sess[z] \in StateRec => sess'[z] \in StateRec
    BY <1>1, <1>4, <2>1, <2>4 DEF L1Ends
  <2> QED
    BY <1>1, <1>4, <2>2, <2>3, <2>5, KnownStay DEF L1Ends
<1>5. CASE L2Throws
  <2> DEFINE s == Head(l2Queue)
  <2>1. l2Queue # <<>> /\ s \in Sessions
    BY <1>5, RunTypes DEF L2Throws
  <2>2. Queued(l2Queue, s) /\ \A z : Queued(Tail(l2Queue), z) => Queued(l2Queue, z)
    BY <1>1, <2>1, TailQueued
  <2>3. \A z : InFlight(z)' <=> InFlight(z)
    BY <1>5 DEF L2Throws, InFlight
  <2>4. \A z \in Sessions : z # s => l2Timer'[z] = l2Timer[z]
    BY <1>1, <1>5, <2>1 DEF L2Throws, ArmMax
  <2>5. ASSUME NEW z \in Sessions, Waited(z)'
        PROVE  Waited(z)
    BY <1>5, <2>2, <2>3, <2>4, <2>5 DEF L2Throws, Waited
  <2> QED
    BY <1>1, <1>5, <2>3, <2>5, KnownStay DEF L2Throws
<1>6. ASSUME NEW answer, NEW ok \in BOOLEAN, L2Ends(answer, ok)
      PROVE  KnownInv'
  <2> DEFINE s == Head(l2Queue)
  <2>1. l2Queue # <<>> /\ s \in Sessions /\ sess[s] \in StateRec /\ l2.upto \in Nat
    BY <1>1, <1>6, RunTypes DEF L2Ends, L2Runs
  <2>2. Queued(l2Queue, s)
    BY <1>1, <2>1, TailQueued
  <2>3. PICK who \in {"l2", "l2skip"} : Persist(who, s, 0, sess', ok)
    BY <1>6 DEF L2Ends
  <2>4. \A z : InFlight(z)' <=> InFlight(z)
    BY <1>1, <2>1, <2>3, FlightAdded DEF Persist
  <2>5. \A z \in Sessions : z # s => l2Timer'[z] = l2Timer[z]
    BY <1>1, <1>6, <2>1 DEF L2Ends, ArmMax
  <2>6. ASSUME NEW z \in Sessions, Waited(z)'
        PROVE  Waited(z)
    BY <1>6, <2>2, <2>4, <2>5, <2>6 DEF L2Ends, Waited
  <2>7. Consumed(sess[s], answer) \in StateRec
    BY <2>1 DEF Consumed, StateRec
  <2>8. sess' = [sess EXCEPT ![s] = Consumed(@, answer)]
    BY <1>6 DEF L2Ends
  <2>9. \A z \in Sessions : sess[z] \in StateRec => sess'[z] \in StateRec
    BY <1>1, <2>1, <2>7, <2>8
  <2> QED
    BY <1>1, <1>6, <2>4, <2>6, <2>9, KnownStay DEF L2Ends
<1> QED
  BY <1>2, <1>3, <1>4, <1>5, <1>6 DEF L1Answers, L2Answers

LEMMA StepKeepsKnown ==
  ASSUME PipelineInv, [PipelineNext]_pipelineVars
  PROVE  KnownInv'
<1>1. /\ KnownInv /\ QueueInv /\ l1Queue \in Seq(Sessions) /\ l2Queue \in Seq(Sessions)
      /\ writes \in Seq(Write) /\ sess \in [Sessions -> StateRec \cup {NoState}]
      /\ l2Timer \in [Sessions -> {"none", "max", "delay"}]
      /\ inactive \subseteq Sessions /\ idle \subseteq Sessions
  BY DEF PipelineInv, PipelineTypes, MemoryTypes, GhostTypes
<1>2. ASSUME NEW s \in Sessions, NEW ok \in BOOLEAN, Capture(s, ok)
      PROVE  KnownInv'
  <2>1. Rounded(s) \in StateRec /\ Threshold(Rounded(s)) \in Nat
    BY <1>2, CaptureTypes, RoundTypes DEF Capture
  <2>2. \A z : InFlight(z)' <=> InFlight(z) \/ z = s
    BY <1>1, <1>2, <2>1, FlightAdded DEF Capture, Persist
  <2>3. sess'[s] \in StateRec /\ \A z \in Sessions : z # s => sess'[z] = sess[z]
    BY <1>1, <1>2, <2>1 DEF Capture
  <2>4. ASSUME NEW z \in Sessions, Waited(z)'
        PROVE  Waited(z) \/ z = s
    BY <1>2, <2>2, <2>4 DEF Capture, Waited
  <2>5. inactive' = inactive \ {s}
    BY <1>2 DEF Capture
  <2> QED
    BY <1>1, <2>2, <2>3, <2>4, <2>5 DEF KnownInv
<1>3. ASSUME NEW gone \in SUBSET Evictable, Evict(gone),
             \A z \in idle' : z \notin gone /\ (z \in idle \/ InFlight(z)),
             UNCHANGED <<l1Queue, l2Queue, inactive>>,
             \A z : InFlight(z)' => InFlight(z)
      PROVE  KnownInv'
  <2>1. \A z \in gone : ~Queued(l1Queue, z) /\ ~Queued(l2Queue, z) /\ ~InFlight(z)
    BY <1>3, EvictedUnwaited
  <2>2. ASSUME NEW z \in Sessions, Waited(z)'
        PROVE  Waited(z) /\ z \notin gone
    <3>1. l2Timer'[z] # "none" => l2Timer[z] # "none" /\ z \notin gone
      BY <1>3 DEF Evict
    <3> QED
      BY <1>3, <2>1, <2>2, <3>1 DEF Waited
  <2>3. \A z \in Sessions : z \notin gone => sess'[z] = sess[z]
    BY <1>3 DEF Evict
  <2> QED
    BY <1>1, <1>3, <2>2, <2>3 DEF KnownInv
<1>4. CASE NotifyResumes
  <2> DEFINE s == Head(writes).s
  <2>1. /\ writes # <<>> /\ writes' = Tail(writes) /\ Head(writes).who = "notify"
        /\ s \in Sessions
    BY <1>4, RunTypes DEF NotifyResumes, Written
  <2>2. (\A z : InFlight(z)' => InFlight(z)) /\ InFlight(s)
    BY <1>1, <2>1, FlightEnded
  <2>3. CASE l1Queue' = Enqueued(l1Queue, s) /\ UNCHANGED <<sess, l2Timer>> /\ idle' \subseteq idle
    <3>1. \A z : Queued(l1Queue', z) <=> Queued(l1Queue, z) \/ z = s
      BY <1>1, <2>1, <2>3, EnqueuedHas
    <3>2. l2Queue' = l2Queue /\ inactive' = inactive
      BY <1>4 DEF NotifyResumes, ghosts
    <3>3. ASSUME NEW z \in Sessions, Waited(z)'
          PROVE  Waited(z)
      BY <2>2, <2>3, <3>1, <3>2, <3>3 DEF Waited
    <3> QED
      BY <1>1, <2>2, <2>3, <3>2, <3>3, KnownStay
  <2>4. ASSUME NEW gone \in {{}, Evictable}, Evict(gone), idle' = (idle \cup {s}) \ gone,
               l1Queue' = l1Queue
        PROVE  KnownInv'
    <3>1. /\ gone \in SUBSET Evictable
          /\ \A z \in idle' : z \notin gone /\ (z \in idle \/ InFlight(z))
      BY <2>2, <2>4
    <3>2. l2Queue' = l2Queue /\ inactive' = inactive
      BY <1>4 DEF NotifyResumes, ghosts
    <3> HIDE DEF s
    <3> QED
      BY <1>3, <2>2, <2>4, <3>1, <3>2
  <2> QED
    BY <1>4, <2>3, <2>4 DEF NotifyResumes
<1>5. CASE Collects
  <2>1. /\ Evict(Evictable) /\ idle' = idle \ Evictable
        /\ UNCHANGED <<l1Queue, l2Queue, inactive, writes>>
    BY <1>5 DEF Collects, ghosts
  <2>2. \A z : InFlight(z)' <=> InFlight(z)
    BY <2>1 DEF InFlight
  <2>3. \A z \in idle' : z \notin Evictable /\ (z \in idle \/ InFlight(z))
    BY <2>1
  <2> QED
    BY <1>3, <2>1, <2>2, <2>3
<1>6. CASE L1Resumes
  <2> DEFINE s == Head(writes).s
  <2>1. /\ writes # <<>> /\ writes' = Tail(writes) /\ Head(writes).who = "l1" /\ s \in Sessions
    BY <1>6, RunTypes DEF L1Resumes, Written
  <2>2. l1Queue # <<>> /\ s = Head(l1Queue)
    BY <1>1, <2>1, WriteTaken, RunTypes DEF QueueInv
  <2>3. \A z : InFlight(z)' => InFlight(z)
    BY <1>1, <2>1, FlightEnded
  <2>4. /\ Queued(l1Queue, s) /\ Tail(l1Queue) \in Seq(Sessions)
        /\ \A z : Queued(Tail(l1Queue), z) => Queued(l1Queue, z)
    BY <1>1, <2>2, TailQueued
  <2>5. /\ Requeued(s, l1.backlog) \in Seq(Sessions)
        /\ \A z : Queued(Requeued(s, l1.backlog), z) => z = s
    BY <2>1 DEF Requeued, Queued
  <2>6. l1Queue' = Tail(l1Queue) \o Requeued(s, l1.backlog)
    BY <1>6 DEF L1Resumes
  <2>7. \A z : Queued(l1Queue', z) => Queued(l1Queue, z)
    <3>1. \A z : Queued(l1Queue', z) <=> \/ Queued(Tail(l1Queue), z)
                                         \/ Queued(Requeued(s, l1.backlog), z)
      BY <2>4, <2>5, <2>6, JoinQueued
    <3> QED
      BY <2>4, <2>5, <3>1
  <2>8. \A z \in Sessions : z # s => l2Timer'[z] = l2Timer[z]
    BY <1>1, <1>6, <2>1 DEF L1Resumes, AdvanceL2
  <2>9. UNCHANGED <<sess, l2Queue, inactive>> /\ idle' \subseteq idle \cup {s}
    BY <1>6 DEF L1Resumes, ghosts
  <2> HIDE DEF s
  <2>10. ASSUME NEW z \in Sessions, Waited(z)'
         PROVE  Waited(z)
    BY <2>3, <2>4, <2>7, <2>8, <2>9, <2>10 DEF Waited
  <2> QED
    BY <1>1, <2>3, <2>9, <2>10, KnownStay
<1>7. CASE L2Resumes
  <2> DEFINE s == Head(writes).s
  <2>1. /\ writes # <<>> /\ writes' = Tail(writes) /\ OfL2(Head(writes)) /\ s \in Sessions
    BY <1>7, RunTypes DEF L2Resumes, Written, OfL2
  <2>2. l2Queue # <<>> /\ s = Head(l2Queue)
    BY <1>1, <2>1, WriteTaken, RunTypes DEF QueueInv
  <2>3. \A z : InFlight(z)' => InFlight(z)
    BY <1>1, <2>1, FlightEnded
  <2>4. /\ Queued(l2Queue, s)
        /\ \A z : Queued(Tail(l2Queue), z) => Queued(l2Queue, z)
    BY <1>1, <2>2, TailQueued
  <2>5. \A z \in Sessions : z # s => l2Timer'[z] = l2Timer[z]
    BY <1>1, <1>7, <2>1 DEF L2Resumes, ArmMax
  <2>6. UNCHANGED <<sess, l1Queue, inactive, idle>> /\ l2Queue' = Tail(l2Queue)
    BY <1>7 DEF L2Resumes, ghosts
  <2> HIDE DEF s
  <2>7. ASSUME NEW z \in Sessions, Waited(z)'
        PROVE  Waited(z)
    BY <2>3, <2>4, <2>5, <2>6, <2>7 DEF Waited
  <2> QED
    BY <1>1, <2>3, <2>6, <2>7, KnownStay
<1>8. ASSUME NEW s \in Sessions, IdleFires(s) \/ L2Fires(s)
      PROVE  KnownInv'
  <2>1. /\ \A z : Queued(l1Queue', z) => Queued(l1Queue, z) \/ (z = s /\ s \in idle)
        /\ \A z : Queued(l2Queue', z) => Queued(l2Queue, z) \/ (z = s /\ l2Timer[s] # "none")
    BY <1>1, <1>8, EnqueuedHas DEF IdleFires, L2Fires
  <2>2. \A z : InFlight(z)' <=> InFlight(z)
    BY <1>8 DEF IdleFires, L2Fires, InFlight
  <2>3. \A z \in Sessions : l2Timer'[z] # "none" => l2Timer[z] # "none"
    BY <1>1, <1>8 DEF IdleFires, L2Fires
  <2>4. ASSUME NEW z \in Sessions, Waited(z)'
        PROVE  Waited(z)
    BY <1>8, <2>1, <2>2, <2>3, <2>4 DEF IdleFires, L2Fires, Waited
  <2> QED
    BY <1>1, <1>8, <2>2, <2>4, KnownStay DEF IdleFires, L2Fires, ghosts
<1>9. CASE FlushL2
  <2>1. PICK order \in SetToSeqs({s \in Sessions : l2Timer[s] # "none" /\ Wakes(s) /\ ~Queued(l2Queue, s)}) :
          l2Queue' = l2Queue \o order
    BY <1>9 DEF FlushL2
  <2>2. /\ order \in Seq(Sessions)
        /\ \A z : Queued(order, z) => l2Timer[z] # "none"
    BY OrderIsQueue
  <2>3. \A z : Queued(l2Queue', z) => Queued(l2Queue, z) \/ l2Timer[z] # "none"
    BY <1>1, <2>1, <2>2, JoinQueued
  <2>4. /\ UNCHANGED <<sess, idle, l1Queue, writes, inactive>>
        /\ \A z \in Sessions : l2Timer'[z] = "none"
    BY <1>9 DEF FlushL2, ghosts
  <2>5. \A z : InFlight(z)' <=> InFlight(z)
    BY <2>4 DEF InFlight
  <2>6. ASSUME NEW z \in Sessions, Waited(z)'
        PROVE  Waited(z)
    BY <2>3, <2>4, <2>5, <2>6 DEF Waited
  <2> QED
    BY <1>1, <2>4, <2>5, <2>6, KnownStay
<1>10. CASE Start
  <2>1. /\ writes = <<>> /\ l1Queue = <<>> /\ l2Queue = <<>> /\ idle = {}
        /\ UNCHANGED <<writes, l1Queue, l2Queue, idle, inactive>>
    BY <1>10 DEF Start, PipelineInv, OffInv
  <2>2. \A z : ~InFlight(z)' /\ ~Queued(l1Queue', z) /\ ~Queued(l2Queue', z)
    BY <2>1 DEF InFlight, Queued
  <2>3. ASSUME NEW z \in Sessions, l2Timer'[z] # "none"
        PROVE  sess'[z] \in StateRec
    <3>1. Pending(ckpt[z]) /\ ckpt[z] \in StateRec \cup {NoState}
      BY <1>10, <2>3 DEF Start, PipelineInv, PipelineTypes, StoreTypes
    <3>2. ckpt[z] \in StateRec /\ ckpt[z] # NoState
      BY <3>1 DEF Pending
    <3>3. Recovered(ckpt[z]) \in StateRec
      BY <3>2, RoundTypes
    <3> QED
      BY <1>10, <3>3 DEF Start
  <2> QED
    BY <2>1, <2>2, <2>3 DEF KnownInv, Waited
<1>11. ASSUME NEW s \in Sessions, GoesSilent(s)
       PROVE  KnownInv'
  <2>1. \A z : InFlight(z)' <=> InFlight(z)
    BY <1>11 DEF GoesSilent, memory, InFlight
  <2>2. \A z \in Sessions : Waited(z)' <=> Waited(z)
    BY <1>11, <2>1 DEF GoesSilent, memory, Waited
  <2> QED
    BY <1>1, <1>11, <2>1, <2>2 DEF GoesSilent, memory, KnownInv
<1>12. CASE BeginDestroy \/ UNCHANGED pipelineVars \/ \E s \in Sessions : CaptureLate(s)
  <2>1. /\ UNCHANGED <<sess, l2Timer, l1Queue, l2Queue, writes, inactive>>
        /\ idle' \subseteq idle
    BY <1>12 DEF BeginDestroy, CaptureLate, pipelineVars, memory, ghosts
  <2>2. \A z : InFlight(z)' <=> InFlight(z)
    BY <2>1 DEF InFlight
  <2>3. \A z \in Sessions : Waited(z)' => Waited(z)
    BY <2>1, <2>2 DEF Waited
  <2> QED
    BY <1>1, <2>1, <2>2, <2>3, KnownStay
<1>13. CASE Crash \/ \E ok \in BOOLEAN : DestroyEnds(ok)
  <2>1. Off
    BY <1>13 DEF Crash, DestroyEnds
  <2>2. \A z \in Sessions : ~Waited(z)'
    BY <2>1 DEF Off, Forgotten, Waited, InFlight, Queued
  <2>3. \A z : ~InFlight(z)'
    BY <2>1 DEF Off, Forgotten, InFlight
  <2> QED
    BY <2>2, <2>3 DEF KnownInv
<1> QED
  BY <1>2, <1>4, <1>5, <1>6, <1>7, <1>8, <1>9, <1>10, <1>11, <1>12, <1>13, RunsKeepKnown
  DEF PipelineNext, Resumes

LEMMA StepKeepsOff ==
  ASSUME PipelineInv, [PipelineNext]_pipelineVars
  PROVE  OffInv'
<1>1. OffInv /\ phase \in {"off", "open", "closing"}
  BY DEF PipelineInv, PipelineTypes
<1>2. CASE Crash \/ \E ok \in BOOLEAN : DestroyEnds(ok)
  BY <1>2 DEF Crash, DestroyEnds, Off, Forgotten, OffInv
<1>3. CASE Start \/ BeginDestroy \/ FlushL2
  BY <1>1, <1>3 DEF Start, BeginDestroy, FlushL2, OffInv
<1>4. ASSUME phase # "off", UNCHANGED <<phase, flush>>
      PROVE  OffInv'
  BY <1>1, <1>4 DEF OffInv
<1>5. CASE Resumes
  BY <1>4, <1>5 DEF Resumes, NotifyResumes, L1Resumes, L2Resumes, Written, Alive
<1>6. CASE L1Start \/ L1Answers \/ L2Start \/ L2Throws \/ L2Answers \/ L3Ends \/ Collects
           \/ \E kept \in 0..1 : L1Fails(kept)
  BY <1>4, <1>6 DEF L1Start, L1Answers, L1Ends, L2Start, L2Throws, L2Answers, L2Ends,
                    L3Ends, Collects, L1Fails, Alive
<1>7. CASE \E s \in Sessions :
             \/ IdleFires(s) \/ CaptureLate(s) \/ L2Fires(s) \/ GoesSilent(s)
             \/ \E ok \in BOOLEAN : Capture(s, ok)
  BY <1>4, <1>7 DEF IdleFires, CaptureLate, L2Fires, GoesSilent, Capture, Alive
<1>8. CASE UNCHANGED pipelineVars
  BY <1>1, <1>8 DEF pipelineVars, memory, OffInv
<1> QED
  BY <1>2, <1>3, <1>5, <1>6, <1>7, <1>8 DEF PipelineNext

LEMMA StepKeepsInv ==
  ASSUME PipelineInv, [PipelineNext]_pipelineVars
  PROVE  PipelineInv'
<1>1. PipelineTypes'
  BY CapturesKeepTypes, ResumesKeepTypes, RunsKeepTypes, LifeKeepsTypes DEF PipelineNext, Resumes
<1> QED
  BY <1>1, StepKeepsRows, StepKeepsQueues, StepKeepsKnown, StepKeepsOff DEF PipelineInv

\* The state of every variable stays of its type, a run is the one of the session
\* at the head of its queue, a call of the persister is the one its run waits for,
\* and the manager knows every session something waits for.
THEOREM PipelineInvAlways == PipelineSpec => []PipelineInv
<1>1. PipelineInv /\ [PipelineNext]_pipelineVars => PipelineInv'
  BY StepKeepsInv
<1> QED
  BY <1>1, PipelineInvInit, PTL DEF PipelineSpec

\* The L1 cursor of a session passes no row that no extraction took as new but
\* those an extended batch displaces, for every batch size and every sequence of
\* captures no longer than a batch and a row: a run then ends where a capture
\* ends.  A longer capture can be skipped in part.
THEOREM SkippedAreDisplaced == ShortCaptures /\ PipelineSpec => []OnlyDisplacedSkipped
<1> SUFFICES ASSUME ShortCaptures PROVE PipelineSpec => []OnlyDisplacedSkipped
  OBVIOUS
<1>1. PipelineInv => OnlyDisplacedSkipped
  BY DEF PipelineInv, CursorInv
<1> QED
  BY <1>1, PipelineInvAlways, PTL

-----------------------------------------------------------------------------
(* Rounds that are counted.                                                *)

\* A round counted while the write of the L1 run is awaited has its notification
\* behind that write.
ToldAfter(i) ==
  \E k \in 1..Len(writes) :
    i < k /\ writes[k].who = "notify" /\ writes[k].s = writes[i].s

CountedAfter ==
  \A i \in 1..Len(writes) :
    writes[i].who = "l1" => sess[writes[i].s].count = 0 \/ ToldAfter(i)

RoundsInv == RoundsHaveTrigger /\ CountedAfter

LEMMA WriteSession ==
  ASSUME NEW q \in Seq(Write), NEW i \in 1..Len(q)
  PROVE  q[i].s \in Sessions
<1>1. q[i] \in Write
  OBVIOUS
<1> QED
  BY <1>1 DEF Write

LEMMA CountedStay ==
  ASSUME CountedAfter, writes \in Seq(Write), writes' = writes,
         \A z \in Sessions : (\E i \in 1..Len(writes) : writes[i].who = "l1" /\ writes[i].s = z)
                               => sess'[z].count = sess[z].count
  PROVE  CountedAfter'
<1>1. \A i : ToldAfter(i)' <=> ToldAfter(i)
  BY DEF ToldAfter
<1>2. \A i \in 1..Len(writes) : writes[i].s \in Sessions
  BY WriteSession
<1> QED
  BY <1>1, <1>2 DEF CountedAfter

LEMMA CountedAdded ==
  ASSUME CountedAfter, writes \in Seq(Write), NEW w \in Write, writes' = Append(writes, w),
         w.who = "l1" => sess'[w.s].count = 0,
         \A z \in Sessions : sess'[z].count = sess[z].count \/ sess'[z].count = 0
                               \/ (w.who = "notify" /\ w.s = z)
  PROVE  CountedAfter'
<1>1. /\ Len(writes') = Len(writes) + 1 /\ Len(writes) \in Nat
      /\ \A i \in 1..Len(writes) : writes'[i] = writes[i] /\ writes[i].s \in Sessions
      /\ writes'[Len(writes) + 1] = w
      /\ \A i \in 1..Len(writes) + 1 : i \in 1..Len(writes) \/ i = Len(writes) + 1
  BY WriteAppended, WriteSession
<1>2. /\ \A i \in 1..Len(writes) : i \in 1..Len(writes') /\ i < Len(writes) + 1
      /\ Len(writes) + 1 \in 1..Len(writes')
  BY <1>1
<1>3. ASSUME NEW i \in 1..Len(writes), ToldAfter(i)
      PROVE  ToldAfter(i)'
  BY <1>1, <1>2, <1>3 DEF ToldAfter
<1>4. ASSUME NEW i \in 1..Len(writes), w.who = "notify", w.s = writes[i].s
      PROVE  ToldAfter(i)'
  BY <1>1, <1>2, <1>4 DEF ToldAfter
<1>5. ASSUME NEW i \in 1..Len(writes'), writes'[i].who = "l1"
      PROVE  sess'[writes'[i].s].count = 0 \/ ToldAfter(i)'
  <2>1. CASE i = Len(writes) + 1
    BY <1>1, <1>5, <2>1
  <2>2. CASE i \in 1..Len(writes)
    <3>1. sess[writes[i].s].count = 0 \/ ToldAfter(i)
      BY <1>1, <1>5, <2>2 DEF CountedAfter
    <3>2. \/ sess'[writes[i].s].count = sess[writes[i].s].count
          \/ sess'[writes[i].s].count = 0
          \/ w.who = "notify" /\ w.s = writes[i].s
      BY <1>1, <2>2
    <3> QED
      BY <1>1, <1>3, <1>4, <2>2, <3>1, <3>2
  <2> QED
    BY <1>1, <2>1, <2>2
<1> QED
  BY <1>5 DEF CountedAfter

LEMMA CountedEnded ==
  ASSUME CountedAfter, writes \in Seq(Write), writes # <<>>, writes' = Tail(writes),
         \A z \in Sessions : (\E i \in 1..Len(writes) : writes[i].who = "l1" /\ writes[i].s = z)
                               => sess'[z].count = sess[z].count
  PROVE  CountedAfter'
<1>1. /\ \A i \in 1..Len(writes') : /\ i + 1 \in 1..Len(writes) /\ i + 1 # 1
                                    /\ writes'[i] = writes[i + 1]
      /\ \A i \in 1..Len(writes) : i # 1 => i - 1 \in 1..Len(writes') /\ writes'[i - 1] = writes[i]
  BY WriteTaken
<1>2. \A i \in 1..Len(writes) : writes[i].s \in Sessions
  BY WriteSession
<1>3. ASSUME NEW i \in 1..Len(writes'), ToldAfter(i + 1)
      PROVE  ToldAfter(i)'
  <2>1. PICK k \in 1..Len(writes) :
          i + 1 < k /\ writes[k].who = "notify" /\ writes[k].s = writes[i + 1].s
    BY <1>3 DEF ToldAfter
  <2>2. k # 1 /\ i < k - 1
    BY <2>1
  <2>3. k - 1 \in 1..Len(writes') /\ writes'[k - 1] = writes[k]
    BY <1>1, <2>2
  <2>4. writes'[i] = writes[i + 1]
    BY <1>1
  <2>5. writes'[k - 1].who = "notify" /\ writes'[k - 1].s = writes'[i].s
    BY <2>1, <2>3, <2>4
  <2> QED
    BY <2>2, <2>3, <2>5 DEF ToldAfter
<1>4. ASSUME NEW i \in 1..Len(writes'), writes'[i].who = "l1"
      PROVE  sess'[writes'[i].s].count = 0 \/ ToldAfter(i)'
  <2>1. i + 1 \in 1..Len(writes) /\ writes'[i] = writes[i + 1]
    BY <1>1
  <2>2. sess[writes[i + 1].s].count = 0 \/ ToldAfter(i + 1)
    BY <1>4, <2>1 DEF CountedAfter
  <2>3. sess'[writes[i + 1].s].count = sess[writes[i + 1].s].count
    BY <1>2, <1>4, <2>1
  <2> QED
    BY <1>3, <2>1, <2>2, <2>3
<1> QED
  BY <1>4 DEF CountedAfter

\* The session of an L1 run keeps its state.
LEMMA RunKeepsState ==
  ASSUME PipelineInv, NEW i \in 1..Len(writes), writes[i].who = "l1"
  PROVE  Queued(l1Queue, writes[i].s) /\ writes[i].s \notin Evictable
<1>1. l1Queue # <<>> /\ writes[i].s = Head(l1Queue) /\ l1Queue \in Seq(Sessions)
  BY DEF PipelineInv, QueueInv, PipelineTypes, MemoryTypes
<1> QED
  BY <1>1, TailQueued DEF Evictable

LEMMA StepKeepsCounted ==
  ASSUME PipelineInv, CountedAfter, [PipelineNext]_pipelineVars
  PROVE  CountedAfter'
<1>1. /\ writes \in Seq(Write) /\ sess \in [Sessions -> StateRec \cup {NoState}]
      /\ l2 \in L2Runs
  BY DEF PipelineInv, PipelineTypes, MemoryTypes
<1>2. ASSUME NEW who \in {"notify", "l1", "l2", "l2skip"}, NEW s \in Sessions, NEW thr \in Nat
      PROVE  [who |-> who, s |-> s, thr |-> thr] \in Write
  BY DEF Write
<1>3. ASSUME NEW s \in Sessions, NEW ok \in BOOLEAN, Capture(s, ok)
      PROVE  CountedAfter'
  <2> DEFINE w == [who |-> "notify", s |-> s, thr |-> Threshold(Rounded(s))]
  <2>1. w \in Write
    BY <1>2, <1>3, CaptureTypes, RoundTypes DEF Capture
  <2>2. writes' = Append(writes, w) /\ w.who = "notify" /\ w.s = s
    BY <1>3 DEF Capture, Persist
  <2>3. \A z \in Sessions : z # s => sess'[z] = sess[z]
    BY <1>1, <1>3 DEF Capture
  <2> HIDE DEF w
  <2> QED
    BY <1>1, <2>1, <2>2, <2>3, CountedAdded
<1>4. ASSUME NEW kept \in 0..1, NEW ok \in BOOLEAN, L1Ends(kept, ok)
      PROVE  CountedAfter'
  <2> DEFINE s == Head(l1Queue)
             w == [who |-> "l1", s |-> s, thr |-> 0]
  <2>1. w \in Write /\ s \in Sessions /\ sess[s] \in StateRec
    BY <1>2, <1>4, RunTypes DEF L1Ends
  <2>2. writes' = Append(writes, w) /\ w.who = "l1" /\ w.s = s
    BY <1>4 DEF L1Ends, Persist
  <2>3. sess' = [sess EXCEPT ![s] = Advanced(@)]
    BY <1>4 DEF L1Ends
  <2>4. Advanced(sess[s]).count = 0
    BY <2>1 DEF Advanced, StateRec
  <2>5. sess'[s].count = 0 /\ \A z \in Sessions : z # s => sess'[z] = sess[z]
    BY <1>1, <2>1, <2>3, <2>4
  <2> HIDE DEF w, s
  <2> QED
    BY <1>1, <2>1, <2>2, <2>5, CountedAdded
<1>5. ASSUME NEW answer, NEW ok \in BOOLEAN, L2Ends(answer, ok)
      PROVE  CountedAfter'
  <2> DEFINE s == Head(l2Queue)
  <2>1. PICK who \in {"l2", "l2skip"} : Persist(who, s, 0, sess', ok)
    BY <1>5 DEF L2Ends
  <2> DEFINE w == [who |-> who, s |-> s, thr |-> 0]
  <2>2. w \in Write /\ s \in Sessions /\ sess[s] \in StateRec
    BY <1>2, <1>5, RunTypes DEF L2Ends
  <2>3. writes' = Append(writes, w) /\ w.who # "l1"
    BY <2>1 DEF Persist
  <2>4. sess' = [sess EXCEPT ![s] = Consumed(@, answer)]
    BY <1>5 DEF L2Ends
  <2>5. Consumed(sess[s], answer).count = sess[s].count
    BY <2>2 DEF Consumed, StateRec
  <2>6. \A z \in Sessions : sess'[z].count = sess[z].count
    BY <1>1, <2>2, <2>4, <2>5
  <2> HIDE DEF w, s
  <2> QED
    BY <1>1, <2>2, <2>3, <2>6, CountedAdded
<1>6. CASE Resumes
  <2>1. writes # <<>> /\ writes' = Tail(writes)
    BY <1>6 DEF Resumes, NotifyResumes, L1Resumes, L2Resumes, Written
  <2>2. sess' = sess \/ \E gone \in {{}, Evictable} : Evict(gone)
    BY <1>6 DEF Resumes, NotifyResumes, L1Resumes, L2Resumes
  <2>3. \A z \in Sessions : z \notin Evictable => sess'[z] = sess[z]
    BY <2>2 DEF Evict
  <2> QED
    BY <1>1, <2>1, <2>3, RunKeepsState, CountedEnded
<1>7. CASE Collects
  <2>1. writes' = writes /\ \A z \in Sessions : z \notin Evictable => sess'[z] = sess[z]
    BY <1>7 DEF Collects, Evict
  <2> QED
    BY <1>1, <2>1, RunKeepsState, CountedStay
<1>8. CASE \/ L1Start \/ L2Start \/ L2Throws \/ L3Ends \/ BeginDestroy \/ FlushL2
           \/ (\E kept \in 0..1 : L1Fails(kept)) \/ UNCHANGED pipelineVars
           \/ \E s \in Sessions : IdleFires(s) \/ CaptureLate(s) \/ L2Fires(s) \/ GoesSilent(s)
  <2>1. sess' = sess /\ writes' = writes
    BY <1>8 DEF L1Start, L2Start, L2Throws, L3Ends, BeginDestroy, FlushL2, L1Fails,
                IdleFires, CaptureLate, L2Fires, GoesSilent, pipelineVars, memory
  <2> QED
    BY <1>1, <2>1, CountedStay
<1>9. CASE Start \/ Crash \/ \E ok \in BOOLEAN : DestroyEnds(ok)
  <2>1. writes' = <<>>
    BY <1>9 DEF Start, Crash, DestroyEnds, Off, Forgotten, PipelineInv, OffInv
  <2> QED
    BY <2>1 DEF CountedAfter
<1> QED
  BY <1>3, <1>4, <1>5, <1>6, <1>7, <1>8, <1>9 DEF PipelineNext, L1Answers, L2Answers

\* The trigger of a session survives every step of an open scheduler but the end of
\* its own L1 run.
LEMMA TriggerKept ==
  ASSUME PipelineInv, [PipelineNext]_pipelineVars, phase = "open", phase' = "open",
         NEW z \in Sessions, L1Coming(z) \/ LeftAlone(z),
         ~(L1Resumes /\ z = Head(writes).s)
  PROVE  (L1Coming(z) \/ LeftAlone(z))' \/ sess'[z] = NoState
<1>1. /\ writes \in Seq(Write) /\ sess \in [Sessions -> StateRec \cup {NoState}]
      /\ l1Queue \in Seq(Sessions) /\ retry \in [Sessions -> Nat] /\ MaxRetries \in Nat
  BY PipelineAssumption DEF PipelineInv, PipelineTypes, MemoryTypes
<1>2. ASSUME UNCHANGED <<idle, l1Queue, writes, left, retry>>
      PROVE  (L1Coming(z) \/ LeftAlone(z))'
  BY <1>2 DEF L1Coming, LeftAlone, InFlight
<1>3. ASSUME NEW s \in Sessions, NEW ok \in BOOLEAN, Capture(s, ok)
      PROVE  (L1Coming(z) \/ LeftAlone(z))'
  <2>1. Threshold(Rounded(s)) \in Nat
    BY <1>3, CaptureTypes, RoundTypes DEF Capture
  <2>2. InFlight(z)' <=> InFlight(z) \/ z = s
    BY <1>1, <1>3, <2>1, FlightAdded DEF Capture, Persist
  <2>3. /\ idle' = idle /\ l1Queue' = l1Queue /\ left' = left \ {s}
        /\ z # s => retry'[z] = retry[z]
    BY <1>1, <1>3 DEF Capture
  <2> QED
    BY <2>2, <2>3 DEF L1Coming, LeftAlone
<1>4. ASSUME NEW kept \in 0..1, NEW ok \in BOOLEAN, L1Ends(kept, ok)
      PROVE  (L1Coming(z) \/ LeftAlone(z))'
  <2> DEFINE s == Head(l1Queue)
  <2>1. s \in Sessions /\ l1Queue # <<>>
    BY <1>4, RunTypes DEF L1Ends
  <2>2. Queued(l1Queue, s)
    BY <1>1, <2>1, TailQueued
  <2>3. InFlight(z)' <=> InFlight(z)
    BY <1>1, <1>4, <2>1, FlightAdded DEF L1Ends, Persist
  <2>4. /\ UNCHANGED <<idle, l1Queue, left>>
        /\ z # s => retry'[z] = retry[z]
    BY <1>1, <1>4 DEF L1Ends
  <2> QED
    BY <2>2, <2>3, <2>4 DEF L1Coming, LeftAlone
<1>5. ASSUME NEW answer, NEW ok \in BOOLEAN, L2Ends(answer, ok)
      PROVE  (L1Coming(z) \/ LeftAlone(z))'
  <2>1. PICK who \in {"l2", "l2skip"} : Persist(who, Head(l2Queue), 0, sess', ok)
    BY <1>5 DEF L2Ends
  <2>2. Head(l2Queue) \in Sessions
    BY <1>5, RunTypes DEF L2Ends
  <2>3. InFlight(z)' <=> InFlight(z)
    BY <1>1, <2>1, <2>2, FlightAdded DEF Persist
  <2>4. UNCHANGED <<idle, l1Queue, left, retry>>
    BY <1>5 DEF L2Ends
  <2> QED
    BY <2>3, <2>4 DEF L1Coming, LeftAlone
<1>6. ASSUME NEW kept \in 0..1, L1Fails(kept)
      PROVE  (L1Coming(z) \/ LeftAlone(z))'
  <2> DEFINE s == Head(l1Queue)
  <2>1. s \in Sessions /\ l1Queue # <<>>
    BY <1>6, RunTypes DEF L1Fails
  <2>2. Queued(l1Queue, z) => z = s \/ Queued(l1Queue', z)
    BY <1>1, <1>6, <2>1, TailQueued DEF L1Fails
  <2>3. UNCHANGED <<writes, left>> /\ idle \subseteq idle' /\ (z # s => retry'[z] = retry[z])
    BY <1>1, <1>6 DEF L1Fails, Rearmed
  <2>4. InFlight(z)' <=> InFlight(z)
    BY <2>3 DEF InFlight
  <2>5. z = s => z \in idle' \/ retry'[z] > MaxRetries
    BY <1>1, <1>6, <2>1 DEF L1Fails, Rearmed
  <2> QED
    BY <2>2, <2>3, <2>4, <2>5 DEF L1Coming, LeftAlone
<1>7. ASSUME NEW gone \in SUBSET Evictable, Evict(gone), z \notin gone
      PROVE  retry'[z] = retry[z]
  BY <1>7 DEF Evict
<1>8. CASE NotifyResumes
  <2> DEFINE s == Head(writes).s
  <2>1. /\ writes # <<>> /\ writes' = Tail(writes) /\ s \in Sessions /\ left' = left
    BY <1>8, RunTypes DEF NotifyResumes, Written, ghosts
  <2>2. InFlight(z) => InFlight(z)' \/ z = s
    BY <1>1, <2>1, FlightEnded
  <2>3. CASE l1Queue' = Enqueued(l1Queue, s) /\ retry' = retry /\ idle \ {s} \subseteq idle'
    <3>1. Queued(l1Queue', z) <=> Queued(l1Queue, z) \/ z = s
      BY <1>1, <2>1, <2>3, EnqueuedHas
    <3> QED
      BY <2>1, <2>2, <2>3, <3>1 DEF L1Coming, LeftAlone
  <2>4. ASSUME NEW gone \in {{}, Evictable}, Evict(gone), idle' = (idle \cup {s}) \ gone,
               l1Queue' = l1Queue
        PROVE  (L1Coming(z) \/ LeftAlone(z))' \/ sess'[z] = NoState
    <3>1. CASE z \in gone
      BY <2>4, <3>1 DEF Evict
    <3>2. CASE z \notin gone
      <4>1. gone \in SUBSET Evictable
        OBVIOUS
      <4>2. retry'[z] = retry[z]
        BY <1>7, <2>4, <3>2, <4>1
      <4> QED
        BY <2>1, <2>2, <2>4, <3>2, <4>2 DEF L1Coming, LeftAlone
    <3> QED
      BY <3>1, <3>2
  <2> QED
    BY <1>8, <2>3, <2>4 DEF NotifyResumes
<1>9. CASE Collects
  <2>1. /\ Evict(Evictable) /\ idle' = idle \ Evictable /\ UNCHANGED <<l1Queue, writes, left>>
    BY <1>9 DEF Collects, ghosts
  <2>2. InFlight(z)' <=> InFlight(z)
    BY <2>1 DEF InFlight
  <2>3. z \in Evictable => sess'[z] = NoState
    BY <2>1 DEF Evict
  <2>4. z \notin Evictable => retry'[z] = retry[z]
    BY <2>1 DEF Evict
  <2> QED
    BY <2>1, <2>2, <2>3, <2>4 DEF L1Coming, LeftAlone
<1>10. CASE L1Resumes
  <2> DEFINE s == Head(writes).s
  <2>1. /\ writes # <<>> /\ writes' = Tail(writes) /\ Head(writes).who = "l1" /\ s \in Sessions
        /\ left' = left /\ retry' = retry /\ idle \subseteq idle'
        /\ l1Queue' = Tail(l1Queue) \o Requeued(s, l1.backlog)
    BY <1>10, RunTypes DEF L1Resumes, Written, ghosts
  <2>2. l1Queue # <<>> /\ s = Head(l1Queue)
    BY <1>1, <2>1, WriteTaken, RunTypes DEF PipelineInv, QueueInv
  <2>3. InFlight(z) => InFlight(z)'
    BY <1>1, <2>1, FlightEnded
  <2>4. Tail(l1Queue) \in Seq(Sessions) /\ (Queued(l1Queue, z) => z = s \/ Queued(Tail(l1Queue), z))
    BY <1>1, <2>2, TailQueued
  <2>5. Requeued(s, l1.backlog) \in Seq(Sessions)
    BY <2>1 DEF Requeued
  <2>6. Queued(Tail(l1Queue), z) => Queued(l1Queue', z)
    BY <2>1, <2>4, <2>5, JoinQueued
  <2>7. z # s
    BY <1>10
  <2> HIDE DEF s
  <2> QED
    BY <2>1, <2>3, <2>4, <2>6, <2>7 DEF L1Coming, LeftAlone
<1>11. CASE L2Resumes
  <2>1. /\ writes # <<>> /\ writes' = Tail(writes) /\ Head(writes).who # "notify"
        /\ UNCHANGED <<idle, l1Queue, left, retry>>
    BY <1>11 DEF L2Resumes, Written, ghosts
  <2>2. InFlight(z) => InFlight(z)'
    BY <1>1, <2>1, FlightEnded
  <2> QED
    BY <2>1, <2>2 DEF L1Coming, LeftAlone
<1>12. ASSUME NEW s \in Sessions, IdleFires(s)
       PROVE  (L1Coming(z) \/ LeftAlone(z))'
  <2>1. /\ UNCHANGED <<writes, left, retry>> /\ idle' = idle \ {s}
        /\ l1Queue' = Enqueued(l1Queue, s)
    BY <1>12 DEF IdleFires, Destroyed, ghosts
  <2>2. Queued(l1Queue', z) <=> Queued(l1Queue, z) \/ z = s
    BY <1>1, <2>1, EnqueuedHas
  <2>3. InFlight(z)' <=> InFlight(z)
    BY <2>1 DEF InFlight
  <2> QED
    BY <2>1, <2>2, <2>3 DEF L1Coming, LeftAlone
<1>13. CASE \/ L1Start \/ L2Start \/ L2Throws \/ L3Ends \/ FlushL2 \/ UNCHANGED pipelineVars
            \/ \E s \in Sessions : CaptureLate(s) \/ L2Fires(s) \/ GoesSilent(s)
  BY <1>2, <1>13 DEF L1Start, L2Start, L2Throws, L3Ends, FlushL2, CaptureLate, L2Fires,
                     GoesSilent, pipelineVars, memory, ghosts
<1>14. ~(Start \/ BeginDestroy \/ Crash \/ \E ok \in BOOLEAN : DestroyEnds(ok))
  BY DEF Start, BeginDestroy, Crash, DestroyEnds, Off
<1> QED
  BY <1>3, <1>4, <1>5, <1>6, <1>8, <1>9, <1>10, <1>11, <1>12, <1>13, <1>14
  DEF PipelineNext, Resumes, L1Answers, L2Answers

LEMMA StateIsKnown ==
  \A st \in StateRec : st # NoState
BY PipelineAssumption DEF StateRec

LEMMA OpensByStart ==
  ASSUME [PipelineNext]_pipelineVars, phase # "open", phase' = "open"
  PROVE  Start
BY DEF PipelineNext, pipelineVars, Resumes, NotifyResumes, L1Resumes, L2Resumes, Collects,
       L1Start, L1Answers, L1Ends, L1Fails, L2Start, L2Throws, L2Answers, L2Ends, L3Ends,
       BeginDestroy, FlushL2, Crash, DestroyEnds, Off, IdleFires, CaptureLate, L2Fires,
       GoesSilent, Capture

\* Only a capture counts a round.
LEMMA CountChange ==
  ASSUME PipelineInv, [PipelineNext]_pipelineVars, phase = "open", phase' = "open",
         NEW z \in Sessions, sess'[z] # NoState, sess'[z].count > 0
  PROVE  (sess[z] # NoState /\ sess[z].count > 0) \/ InFlight(z)'
<1>1. /\ writes \in Seq(Write) /\ sess \in [Sessions -> StateRec \cup {NoState}]
  BY DEF PipelineInv, PipelineTypes, MemoryTypes
<1>2. CASE sess'[z] = sess[z]
  BY <1>2
<1>3. ASSUME NEW s \in Sessions, NEW ok \in BOOLEAN, Capture(s, ok)
      PROVE  sess'[z] = sess[z] \/ InFlight(z)'
  <2>1. Threshold(Rounded(s)) \in Nat
    BY <1>3, CaptureTypes, RoundTypes DEF Capture
  <2>2. InFlight(z)' <=> InFlight(z) \/ z = s
    BY <1>1, <1>3, <2>1, FlightAdded DEF Capture, Persist
  <2>3. z # s => sess'[z] = sess[z]
    BY <1>1, <1>3 DEF Capture
  <2> QED
    BY <2>2, <2>3
<1>4. ASSUME NEW kept \in 0..1, NEW ok \in BOOLEAN, L1Ends(kept, ok)
      PROVE  sess'[z] = sess[z] \/ sess'[z].count = 0
  <2> DEFINE s == Head(l1Queue)
  <2>1. s \in Sessions /\ sess[s] \in StateRec
    BY <1>4, RunTypes DEF L1Ends
  <2>2. sess' = [sess EXCEPT ![s] = Advanced(@)]
    BY <1>4 DEF L1Ends
  <2>3. Advanced(sess[s]).count = 0
    BY <2>1 DEF Advanced, StateRec
  <2> QED
    BY <1>1, <2>1, <2>2, <2>3
<1>5. ASSUME NEW answer, NEW ok \in BOOLEAN, L2Ends(answer, ok)
      PROVE  sess'[z] = sess[z] \/ (sess[z] # NoState /\ sess'[z].count = sess[z].count)
  <2> DEFINE s == Head(l2Queue)
  <2>1. s \in Sessions /\ sess[s] \in StateRec /\ sess[s] # NoState
    BY <1>5, RunTypes, StateIsKnown DEF L2Ends
  <2>2. sess' = [sess EXCEPT ![s] = Consumed(@, answer)]
    BY <1>5 DEF L2Ends
  <2>3. Consumed(sess[s], answer).count = sess[s].count
    BY <2>1 DEF Consumed, StateRec
  <2> QED
    BY <1>1, <2>1, <2>2, <2>3
<1>6. CASE NotifyResumes \/ Collects
  <2>1. sess' = sess \/ \E gone \in {{}, Evictable} : Evict(gone)
    BY <1>6 DEF NotifyResumes, Collects
  <2> QED
    BY <1>2, <2>1 DEF Evict
<1>7. CASE \/ L1Resumes \/ L2Resumes \/ L1Start \/ L2Start \/ L2Throws \/ L3Ends \/ FlushL2
           \/ UNCHANGED pipelineVars \/ (\E kept \in 0..1 : L1Fails(kept))
           \/ \E s \in Sessions : IdleFires(s) \/ CaptureLate(s) \/ L2Fires(s) \/ GoesSilent(s)
  <2>1. sess' = sess
    BY <1>7 DEF L1Resumes, L2Resumes, L1Start, L2Start, L2Throws, L3Ends, FlushL2, L1Fails,
                IdleFires, CaptureLate, L2Fires, GoesSilent, pipelineVars, memory
  <2> QED
    BY <1>2, <2>1
<1>8. ~(Start \/ BeginDestroy \/ Crash \/ \E ok \in BOOLEAN : DestroyEnds(ok))
  BY DEF Start, BeginDestroy, Crash, DestroyEnds, Off
<1> QED
  BY <1>2, <1>3, <1>4, <1>5, <1>6, <1>7, <1>8 DEF PipelineNext, Resumes, L1Answers, L2Answers

LEMMA StepKeepsRounds ==
  ASSUME PipelineInv, RoundsInv, [PipelineNext]_pipelineVars
  PROVE  RoundsInv'
<1>1. /\ writes \in Seq(Write) /\ sess \in [Sessions -> StateRec \cup {NoState}]
      /\ ckpt \in [Sessions -> StateRec \cup {NoState}]
  BY DEF PipelineInv, PipelineTypes, StoreTypes, MemoryTypes
<1>2. CountedAfter'
  BY StepKeepsCounted DEF RoundsInv
<1>3. ASSUME NEW z \in Sessions, phase' = "open", sess'[z] # NoState, sess'[z].count > 0
      PROVE  (L1Coming(z) \/ LeftAlone(z))'
  <2>1. CASE phase = "open"
    <3>1. CASE InFlight(z)'
      BY <3>1 DEF L1Coming
    <3>2. CASE sess[z] # NoState /\ sess[z].count > 0
      <4>1. L1Coming(z) \/ LeftAlone(z)
        BY <2>1, <3>2 DEF RoundsInv, RoundsHaveTrigger
      <4>2. CASE ~(L1Resumes /\ z = Head(writes).s)
        BY <1>3, <2>1, <4>1, <4>2, TriggerKept
      <4>3. CASE L1Resumes /\ z = Head(writes).s
        <5>1. /\ writes # <<>> /\ writes' = Tail(writes) /\ Head(writes).who = "l1"
          BY <4>3 DEF L1Resumes, Written
        <5>2. /\ Head(writes) = writes[1] /\ 1 \in 1..Len(writes)
              /\ \A i \in 1..Len(writes) : i # 1 => /\ i - 1 \in 1..Len(writes')
                                                    /\ writes'[i - 1] = writes[i]
          BY <1>1, <5>1, WriteTaken
        <5>3. writes[1].s = z /\ sess[writes[1].s].count # 0
          <6>1. sess[z].count \in Nat
            BY <1>1, <3>2 DEF StateRec
          <6> QED
            BY <3>2, <4>3, <5>2, <6>1
        <5>4. ToldAfter(1)
          BY <5>1, <5>2, <5>3 DEF RoundsInv, CountedAfter
        <5>5. PICK k \in 1..Len(writes) : 1 < k /\ writes[k].who = "notify" /\ writes[k].s = z
          BY <5>3, <5>4 DEF ToldAfter
        <5>6. InFlight(z)'
          BY <5>2, <5>5 DEF InFlight
        <5> QED
          BY <5>6 DEF L1Coming
      <4> QED
        BY <4>2, <4>3
    <3> QED
      BY <1>3, <2>1, <3>1, <3>2, CountChange
  <2>2. CASE phase # "open"
    <3>1. Start
      BY <1>3, <2>2, OpensByStart
    <3>2. ~Pending(ckpt[z])
      <4>1. ASSUME Pending(ckpt[z])
            PROVE  FALSE
        <5>1. ckpt[z] \in StateRec
          BY <1>1, <4>1 DEF Pending
        <5>2. Recovered(ckpt[z]).count = 0
          BY <4>1, <5>1 DEF Recovered, StateRec
        <5>3. sess'[z].count = 0
          BY <3>1, <5>2 DEF Start
        <5> QED
          BY <1>3, <5>3
      <4> QED
        BY <4>1
    <3> QED
      BY <3>1, <3>2 DEF Start, LeftAlone
  <2> QED
    BY <2>1, <2>2
<1> QED
  BY <1>2, <1>3 DEF RoundsInv, RoundsHaveTrigger

\* Counted rounds of an open scheduler have a timer, a queued or running L1 or
\* their notification ahead of them unless their retries are used up or they were
\* left alone at the start: a round counted while an L1 run is writing is notified
\* after that write.
THEOREM RoundsTriggered == PipelineSpec => []RoundsHaveTrigger
<1>1. PipelineInit => RoundsInv
  BY DEF PipelineInit, RoundsInv, RoundsHaveTrigger, CountedAfter
<1>2. PipelineInv /\ RoundsInv /\ [PipelineNext]_pipelineVars => RoundsInv'
  BY StepKeepsRounds
<1>3. RoundsInv => RoundsHaveTrigger
  BY DEF RoundsInv
<1> QED
  BY <1>1, <1>2, <1>3, PipelineInvAlways, PTL DEF PipelineSpec

-----------------------------------------------------------------------------
(* Records that the scenes do not reflect.                                 *)

\* The run that was skipped at a cold start armed the timer before its write, and
\* the timer does not fire before the write ends.
SkipArmed ==
  phase = "open" => \A i \in 1..Len(writes) :
    writes[i].who = "l2skip" => l2Timer[writes[i].s] # "none"

ScenesInv == ScenesHaveTrigger /\ SkipArmed

L2Coming(s) == l2Timer[s] # "none" \/ Queued(l2Queue, s) \/ s \in inactive

\* The session of an L2 run keeps its state and its timer.
LEMMA RunKeepsTimer ==
  ASSUME PipelineInv, NEW i \in 1..Len(writes), OfL2(writes[i])
  PROVE  /\ Queued(l2Queue, writes[i].s) /\ writes[i].s \notin Evictable
         /\ \A s \in Sessions : L2Fires(s) => s # writes[i].s
<1>1. l2Queue # <<>> /\ writes[i].s = Head(l2Queue) /\ l2.stage = "persist" /\ l2Queue \in Seq(Sessions)
  BY DEF PipelineInv, QueueInv, PipelineTypes, MemoryTypes, OfL2
<1> QED
  BY <1>1, TailQueued DEF Evictable, L2Fires

LEMMA StepKeepsSkip ==
  ASSUME PipelineInv, SkipArmed, [PipelineNext]_pipelineVars
  PROVE  SkipArmed'
<1>1. /\ writes \in Seq(Write) /\ l2Timer \in [Sessions -> {"none", "max", "delay"}]
      /\ \A i \in 1..Len(writes) : writes[i].s \in Sessions
  BY WriteSession DEF PipelineInv, PipelineTypes, MemoryTypes
<1>2. CASE phase' # "open"
  BY <1>2 DEF SkipArmed
<1>3. CASE phase' = "open" /\ phase # "open"
  <2>1. writes' = <<>>
    BY <1>3, OpensByStart DEF Start, PipelineInv, OffInv
  <2> QED
    BY <2>1 DEF SkipArmed
<1>4. CASE phase' = "open" /\ phase = "open"
  <2>1. ASSUME writes' = writes,
               \A i \in 1..Len(writes) :
                 OfL2(writes[i]) => l2Timer'[writes[i].s] = l2Timer[writes[i].s]
        PROVE  SkipArmed'
    BY <1>4, <2>1 DEF SkipArmed, OfL2
  <2>2. ASSUME NEW w \in Write, writes' = Append(writes, w),
               w.who = "l2skip" => l2Timer'[w.s] # "none",
               \A s \in Sessions : l2Timer'[s] = l2Timer[s] \/ l2Timer'[s] # "none"
        PROVE  SkipArmed'
    <3>1. /\ Len(writes') = Len(writes) + 1
          /\ \A i \in 1..Len(writes) : writes'[i] = writes[i]
          /\ writes'[Len(writes) + 1] = w
          /\ \A i \in 1..Len(writes) + 1 : i \in 1..Len(writes) \/ i = Len(writes) + 1
      BY <1>1, <2>2, WriteAppended
    <3>2. ASSUME NEW i \in 1..Len(writes'), writes'[i].who = "l2skip"
          PROVE  l2Timer'[writes'[i].s] # "none"
      <4>1. CASE i \in 1..Len(writes)
        BY <1>1, <1>4, <2>2, <3>1, <3>2, <4>1 DEF SkipArmed
      <4>2. CASE i = Len(writes) + 1
        BY <2>2, <3>1, <3>2, <4>2
      <4> QED
        BY <3>1, <4>1, <4>2
    <3> QED
      BY <3>2 DEF SkipArmed
  <2>3. ASSUME writes # <<>>, writes' = Tail(writes),
               \A i \in 1..Len(writes) :
                 OfL2(writes[i]) => \/ l2Timer'[writes[i].s] = l2Timer[writes[i].s]
                                    \/ l2Timer'[writes[i].s] # "none"
        PROVE  SkipArmed'
    <3>1. \A i \in 1..Len(writes') : i + 1 \in 1..Len(writes) /\ writes'[i] = writes[i + 1]
      BY <1>1, <2>3, WriteTaken
    <3>2. ASSUME NEW i \in 1..Len(writes'), writes'[i].who = "l2skip"
          PROVE  l2Timer'[writes'[i].s] # "none"
      <4>1. i + 1 \in 1..Len(writes) /\ writes'[i] = writes[i + 1]
        BY <3>1
      <4> QED
        BY <1>4, <2>3, <3>2, <4>1 DEF SkipArmed, OfL2
    <3> QED
      BY <3>2 DEF SkipArmed
  <2>4. ASSUME NEW who \in {"notify", "l1", "l2", "l2skip"}, NEW s \in Sessions, NEW thr \in Nat
        PROVE  [who |-> who, s |-> s, thr |-> thr] \in Write
    BY DEF Write
  <2>5. ASSUME NEW s \in Sessions, NEW ok \in BOOLEAN, Capture(s, ok)
        PROVE  SkipArmed'
    <3> DEFINE w == [who |-> "notify", s |-> s, thr |-> Threshold(Rounded(s))]
    <3>1. w \in Write
      BY <2>4, <2>5, CaptureTypes, RoundTypes DEF Capture
    <3>2. writes' = Append(writes, w) /\ w.who = "notify" /\ l2Timer' = l2Timer
      BY <2>5 DEF Capture, Persist
    <3> HIDE DEF w
    <3> QED
      BY <2>2, <3>1, <3>2
  <2>6. ASSUME NEW kept \in 0..1, NEW ok \in BOOLEAN, L1Ends(kept, ok)
        PROVE  SkipArmed'
    <3> DEFINE w == [who |-> "l1", s |-> Head(l1Queue), thr |-> 0]
    <3>1. w \in Write
      BY <2>4, <2>6, RunTypes DEF L1Ends
    <3>2. writes' = Append(writes, w) /\ w.who = "l1" /\ l2Timer' = l2Timer
      BY <2>6 DEF L1Ends, Persist
    <3> HIDE DEF w
    <3> QED
      BY <2>2, <3>1, <3>2
  <2>7. ASSUME NEW answer, NEW ok \in BOOLEAN, L2Ends(answer, ok)
        PROVE  SkipArmed'
    <3> DEFINE s == Head(l2Queue)
    <3>1. s \in Sessions
      BY <2>7, RunTypes DEF L2Ends
    <3>2. CASE ColdStart(s, answer)
      <4> DEFINE w == [who |-> "l2skip", s |-> s, thr |-> 0]
      <4>1. w \in Write
        BY <2>4, <3>1
      <4>2. writes' = Append(writes, w) /\ w.s = s /\ ArmMax(s)
        BY <2>7, <3>2 DEF L2Ends, Persist
      <4>3. l2Timer'[s] # "none" /\ \A z \in Sessions : z # s => l2Timer'[z] = l2Timer[z]
        BY <1>1, <1>4, <3>1, <4>2 DEF ArmMax, Destroyed
      <4> HIDE DEF w, s
      <4> QED
        BY <2>2, <3>1, <4>1, <4>2, <4>3
    <3>3. CASE ~ColdStart(s, answer)
      <4> DEFINE w == [who |-> "l2", s |-> s, thr |-> 0]
      <4>1. w \in Write
        BY <2>4, <3>1
      <4>2. writes' = Append(writes, w) /\ w.who = "l2" /\ l2Timer' = l2Timer
        BY <2>7, <3>3 DEF L2Ends, Persist
      <4> HIDE DEF w, s
      <4> QED
        BY <2>2, <4>1, <4>2
    <3> QED
      BY <3>2, <3>3
  <2>8. CASE Resumes
    <3>1. writes # <<>> /\ writes' = Tail(writes) /\ Head(writes).s \in Sessions
      BY <2>8, RunTypes DEF Resumes, NotifyResumes, L1Resumes, L2Resumes, Written
    <3>2. \A s \in Sessions : s \notin Evictable =>
            l2Timer'[s] = l2Timer[s] \/ l2Timer'[s] # "none"
      <4>1. CASE NotifyResumes
        BY <4>1 DEF NotifyResumes, Evict
      <4>2. CASE L1Resumes
        BY <1>1, <3>1, <4>2 DEF L1Resumes, AdvanceL2
      <4>3. CASE L2Resumes
        BY <1>1, <3>1, <4>3 DEF L2Resumes, ArmMax
      <4> QED
        BY <2>8, <4>1, <4>2, <4>3 DEF Resumes
    <3> QED
      BY <1>1, <2>3, <3>1, <3>2, RunKeepsTimer
  <2>9. CASE Collects
    <3>1. writes' = writes /\ \A s \in Sessions : s \notin Evictable => l2Timer'[s] = l2Timer[s]
      BY <2>9 DEF Collects, Evict
    <3> QED
      BY <1>1, <2>1, <3>1, RunKeepsTimer
  <2>10. ASSUME NEW s \in Sessions, L2Fires(s)
         PROVE  SkipArmed'
    <3>1. writes' = writes /\ \A z \in Sessions : z # s => l2Timer'[z] = l2Timer[z]
      BY <1>1, <2>10 DEF L2Fires
    <3> QED
      BY <1>1, <2>1, <2>10, <3>1, RunKeepsTimer
  <2>11. CASE L2Throws
    <3>1. writes' = writes /\ l2.stage # "persist"
      BY <2>11 DEF L2Throws
    <3>2. \A i \in 1..Len(writes) : ~OfL2(writes[i])
      BY <3>1 DEF PipelineInv, QueueInv
    <3> QED
      BY <2>1, <3>1, <3>2
  <2>12. CASE \/ L1Start \/ L2Start \/ L3Ends \/ UNCHANGED pipelineVars
              \/ (\E kept \in 0..1 : L1Fails(kept))
              \/ \E s \in Sessions : IdleFires(s) \/ CaptureLate(s) \/ GoesSilent(s)
    BY <2>1, <2>12 DEF L1Start, L2Start, L3Ends, L1Fails, IdleFires, CaptureLate, GoesSilent,
                       pipelineVars, memory
  <2>13. ~(Start \/ BeginDestroy \/ FlushL2 \/ Crash \/ \E ok \in BOOLEAN : DestroyEnds(ok))
    BY <1>4 DEF Start, BeginDestroy, FlushL2, Crash, DestroyEnds, Off, PipelineInv, OffInv
  <2> QED
    BY <2>5, <2>6, <2>7, <2>8, <2>9, <2>10, <2>11, <2>12, <2>13
    DEF PipelineNext, L1Answers, L2Answers
<1> QED
  BY <1>2, <1>3, <1>4

\* What runs L2 for a session survives every step of an open scheduler: the timer
\* that fires queues a run, and the run that ends arms a timer.
LEMMA L2Kept ==
  ASSUME PipelineInv, SkipArmed, [PipelineNext]_pipelineVars, phase = "open", phase' = "open",
         NEW z \in Sessions, L2Coming(z)
  PROVE  L2Coming(z)' \/ InFlight(z)' \/ sess'[z] = NoState
<1>1. /\ writes \in Seq(Write) /\ l2Timer \in [Sessions -> {"none", "max", "delay"}]
      /\ l2Queue \in Seq(Sessions)
  BY DEF PipelineInv, PipelineTypes, MemoryTypes
<1>2. ASSUME l2Timer[z] # "none" => l2Timer'[z] # "none",
             Queued(l2Queue, z) => Queued(l2Queue', z), inactive \subseteq inactive'
      PROVE  L2Coming(z)'
  BY <1>2 DEF L2Coming
<1>3. ASSUME NEW s \in Sessions, NEW ok \in BOOLEAN, Capture(s, ok)
      PROVE  L2Coming(z)' \/ InFlight(z)'
  <2>1. Threshold(Rounded(s)) \in Nat
    BY <1>3, CaptureTypes, RoundTypes DEF Capture
  <2>2. InFlight(z)' <=> InFlight(z) \/ z = s
    BY <1>1, <1>3, <2>1, FlightAdded DEF Capture, Persist
  <2>3. l2Timer' = l2Timer /\ l2Queue' = l2Queue /\ inactive' = inactive \ {s}
    BY <1>3 DEF Capture
  <2> QED
    BY <2>2, <2>3 DEF L2Coming
<1>4. CASE NotifyResumes \/ Collects
  <2>1. /\ l2Queue' = l2Queue /\ inactive' = inactive
        /\ (sess' = sess /\ l2Timer' = l2Timer) \/ \E gone \in {{}, Evictable} : Evict(gone)
    BY <1>4 DEF NotifyResumes, Collects, ghosts
  <2>2. sess'[z] = NoState \/ l2Timer'[z] = l2Timer[z]
    BY <2>1 DEF Evict
  <2> QED
    BY <1>2, <2>1, <2>2
<1>5. CASE L1Resumes
  <2>1. Head(writes).s \in Sessions
    BY <1>5, RunTypes DEF L1Resumes, Written
  <2>2. l2Timer[z] # "none" => l2Timer'[z] # "none"
    BY <1>1, <1>5, <2>1 DEF L1Resumes, AdvanceL2
  <2> QED
    BY <1>2, <1>5, <2>2 DEF L1Resumes, ghosts
<1>6. CASE L2Resumes
  <2> DEFINE s == Head(writes).s
  <2>1. /\ writes # <<>> /\ s \in Sessions /\ Head(writes) = writes[1] /\ 1 \in 1..Len(writes)
        /\ OfL2(writes[1]) /\ l2Queue' = Tail(l2Queue) /\ inactive' = inactive
    BY <1>1, <1>6, RunTypes, WriteTaken DEF L2Resumes, Written, OfL2, ghosts
  <2>2. l2Queue # <<>> /\ s = Head(l2Queue)
    BY <2>1 DEF PipelineInv, QueueInv
  <2>3. Queued(l2Queue, z) => z = s \/ Queued(l2Queue', z)
    BY <1>1, <2>1, <2>2, TailQueued
  <2>4. l2Timer'[s] # "none" /\ \A y \in Sessions : y # s => l2Timer'[y] = l2Timer[y]
    <3>1. CASE Written("l2") /\ ArmMax(s)
      BY <1>1, <2>1, <3>1 DEF ArmMax, Destroyed
    <3>2. CASE Written("l2skip") /\ UNCHANGED l2Timer
      <4>1. writes[1].who = "l2skip"
        BY <2>1, <3>2 DEF Written
      <4> QED
        BY <2>1, <3>2, <4>1 DEF SkipArmed
    <3> QED
      BY <1>6, <3>1, <3>2 DEF L2Resumes
  <2> HIDE DEF s
  <2> QED
    BY <2>1, <2>3, <2>4 DEF L2Coming
<1>7. CASE L2Throws
  <2> DEFINE s == Head(l2Queue)
  <2>1. l2Queue # <<>> /\ s \in Sessions
    BY <1>7, RunTypes DEF L2Throws
  <2>2. Queued(l2Queue, z) => z = s \/ Queued(Tail(l2Queue), z)
    BY <1>1, <2>1, TailQueued
  <2>3. /\ l2Queue' = Tail(l2Queue) /\ inactive' = inactive
        /\ l2Timer' = [l2Timer EXCEPT ![s] = "max"]
    BY <1>7 DEF L2Throws, ArmMax, Destroyed
  <2> HIDE DEF s
  <2> QED
    BY <1>1, <2>1, <2>2, <2>3 DEF L2Coming
<1>8. ASSUME NEW answer, NEW ok \in BOOLEAN, L2Ends(answer, ok)
      PROVE  L2Coming(z)'
  <2>1. Head(l2Queue) \in Sessions
    BY <1>8, RunTypes DEF L2Ends
  <2>2. l2Timer[z] # "none" => l2Timer'[z] # "none"
    BY <1>1, <1>8, <2>1 DEF L2Ends, ArmMax
  <2> QED
    BY <1>2, <1>8, <2>2 DEF L2Ends
<1>9. ASSUME NEW s \in Sessions, L2Fires(s)
      PROVE  L2Coming(z)'
  <2>1. /\ l2Timer' = [l2Timer EXCEPT ![s] = "none"] /\ inactive' = inactive
        /\ l2Queue' = IF Wakes(s) THEN Enqueued(l2Queue, s) ELSE l2Queue
    BY <1>9 DEF L2Fires, Destroyed, ghosts
  <2>2. Queued(Enqueued(l2Queue, s), z) <=> Queued(l2Queue, z) \/ z = s
    BY <1>1, EnqueuedHas
  <2>3. z # s => l2Timer'[z] = l2Timer[z]
    BY <1>1, <2>1
  <2>4. z = s => Queued(l2Queue', z) \/ z \in inactive'
    BY <2>1, <2>2 DEF Wakes
  <2>5. Queued(l2Queue, z) => Queued(l2Queue', z)
    BY <2>1, <2>2
  <2> QED
    BY <2>1, <2>3, <2>4, <2>5 DEF L2Coming
<1>10. CASE \/ L1Start \/ L1Answers \/ L2Start \/ L3Ends \/ UNCHANGED pipelineVars
            \/ (\E kept \in 0..1 : L1Fails(kept))
            \/ \E s \in Sessions : IdleFires(s) \/ CaptureLate(s) \/ GoesSilent(s)
  <2>1. l2Timer' = l2Timer /\ l2Queue' = l2Queue /\ inactive \subseteq inactive'
    BY <1>10 DEF L1Start, L1Answers, L1Ends, L2Start, L3Ends, L1Fails, IdleFires, CaptureLate,
                 GoesSilent, pipelineVars, memory, ghosts
  <2> QED
    BY <1>2, <2>1
<1>11. ~(Start \/ BeginDestroy \/ FlushL2 \/ Crash \/ \E ok \in BOOLEAN : DestroyEnds(ok))
  BY DEF Start, BeginDestroy, FlushL2, Crash, DestroyEnds, Off, PipelineInv, OffInv
<1> QED
  BY <1>3, <1>4, <1>5, <1>6, <1>7, <1>8, <1>9, <1>10, <1>11 DEF PipelineNext, Resumes, L2Answers

\* Records come from an L1 run, which is queued or tries again, and a cursor moves
\* at the end of an L2 run, which is queued until its write ends.
LEMMA RecordChange ==
  ASSUME PipelineInv, [PipelineNext]_pipelineVars, phase = "open", phase' = "open",
         NEW z \in Sessions, sess'[z] # NoState, out'[z] > sess'[z].cursor
  PROVE  \/ sess[z] # NoState /\ out[z] > sess[z].cursor
         \/ (L1Coming(z) \/ LeftAlone(z) \/ L2Coming(z))'
<1>1. /\ writes \in Seq(Write) /\ sess \in [Sessions -> StateRec \cup {NoState}]
      /\ out \in [Sessions -> Nat] /\ retry \in [Sessions -> Nat] /\ MaxRetries \in Nat
      /\ l1Queue \in Seq(Sessions) /\ l2Queue \in Seq(Sessions)
  BY PipelineAssumption DEF PipelineInv, PipelineTypes, StoreTypes, MemoryTypes
<1>2. CASE sess'[z] = sess[z] /\ out'[z] = out[z]
  BY <1>2
<1>3. ASSUME NEW s \in Sessions, NEW ok \in BOOLEAN, Capture(s, ok)
      PROVE  (sess'[z] = sess[z] /\ out'[z] = out[z]) \/ L1Coming(z)'
  <2>1. Threshold(Rounded(s)) \in Nat
    BY <1>3, CaptureTypes, RoundTypes DEF Capture
  <2>2. InFlight(z)' <=> InFlight(z) \/ z = s
    BY <1>1, <1>3, <2>1, FlightAdded DEF Capture, Persist
  <2>3. out' = out /\ (z # s => sess'[z] = sess[z])
    BY <1>1, <1>3 DEF Capture
  <2> QED
    BY <2>2, <2>3 DEF L1Coming
<1>4. ASSUME NEW kept \in 0..1, NEW ok \in BOOLEAN, L1Ends(kept, ok)
      PROVE  (sess'[z] = sess[z] /\ out'[z] = out[z]) \/ L1Coming(z)'
  <2> DEFINE s == Head(l1Queue)
  <2>1. s \in Sessions /\ l1Queue # <<>>
    BY <1>4, RunTypes DEF L1Ends
  <2>2. Queued(l1Queue, s)
    BY <1>1, <2>1, TailQueued
  <2>3. l1Queue' = l1Queue /\ (z # s => sess'[z] = sess[z] /\ out'[z] = out[z])
    BY <1>1, <1>4 DEF L1Ends, Stored
  <2> QED
    BY <2>2, <2>3 DEF L1Coming
<1>5. ASSUME NEW kept \in 0..1, L1Fails(kept)
      PROVE  (sess'[z] = sess[z] /\ out'[z] = out[z]) \/ (L1Coming(z) \/ LeftAlone(z))'
  <2> DEFINE s == Head(l1Queue)
  <2>1. s \in Sessions
    BY <1>5, RunTypes DEF L1Fails
  <2>2. sess' = sess /\ (z # s => out'[z] = out[z])
    BY <1>1, <1>5 DEF L1Fails, Stored
  <2>3. z = s => z \in idle' \/ retry'[z] > MaxRetries
    BY <1>1, <1>5, <2>1 DEF L1Fails, Rearmed
  <2> QED
    BY <2>2, <2>3 DEF L1Coming, LeftAlone
<1>6. ASSUME NEW answer, NEW ok \in BOOLEAN, L2Ends(answer, ok)
      PROVE  (sess'[z] = sess[z] /\ out'[z] = out[z]) \/ L2Coming(z)'
  <2> DEFINE s == Head(l2Queue)
  <2>1. s \in Sessions /\ l2Queue # <<>>
    BY <1>6, RunTypes DEF L2Ends
  <2>2. Queued(l2Queue, s)
    BY <1>1, <2>1, TailQueued
  <2>3. l2Queue' = l2Queue /\ out' = out /\ (z # s => sess'[z] = sess[z])
    BY <1>1, <1>6 DEF L2Ends
  <2> QED
    BY <2>2, <2>3 DEF L2Coming
<1>7. CASE NotifyResumes \/ Collects
  <2>1. out' = out /\ (sess' = sess \/ \E gone \in {{}, Evictable} : Evict(gone))
    BY <1>7 DEF NotifyResumes, Collects, store
  <2> QED
    BY <1>2, <2>1 DEF Evict
<1>8. CASE \/ L1Resumes \/ L2Resumes \/ L1Start \/ L2Start \/ L2Throws \/ L3Ends
           \/ UNCHANGED pipelineVars
           \/ \E s \in Sessions : IdleFires(s) \/ CaptureLate(s) \/ L2Fires(s) \/ GoesSilent(s)
  <2>1. sess' = sess /\ out' = out
    BY <1>8 DEF L1Resumes, L2Resumes, L1Start, L2Start, L2Throws, L3Ends,
                IdleFires, CaptureLate, L2Fires, GoesSilent, pipelineVars, memory, store
  <2> QED
    BY <1>2, <2>1
<1>9. ~(Start \/ BeginDestroy \/ FlushL2 \/ Crash \/ \E ok \in BOOLEAN : DestroyEnds(ok))
  BY DEF Start, BeginDestroy, FlushL2, Crash, DestroyEnds, Off, PipelineInv, OffInv
<1> QED
  BY <1>2, <1>3, <1>4, <1>5, <1>6, <1>7, <1>8, <1>9 DEF PipelineNext, Resumes, L1Answers, L2Answers

LEMMA StepKeepsScenes ==
  ASSUME PipelineInv, ScenesInv, [PipelineNext]_pipelineVars
  PROVE  ScenesInv'
<1>1. SkipArmed'
  BY StepKeepsSkip DEF ScenesInv
<1>2. ASSUME NEW z \in Sessions, phase' = "open", sess'[z] # NoState, out'[z] > sess'[z].cursor
      PROVE  (L1Coming(z) \/ LeftAlone(z) \/ L2Coming(z))'
  <2>1. CASE phase = "open"
    <3>1. CASE sess[z] # NoState /\ out[z] > sess[z].cursor
      <4>1. L1Coming(z) \/ LeftAlone(z) \/ L2Coming(z)
        BY <2>1, <3>1 DEF ScenesInv, ScenesHaveTrigger, L2Coming
      <4>2. CASE L2Coming(z)
        BY <1>2, <2>1, <4>2, L2Kept DEF ScenesInv, L1Coming
      <4>3. CASE L1Coming(z) \/ LeftAlone(z)
        <5>1. CASE ~(L1Resumes /\ z = Head(writes).s)
          BY <1>2, <2>1, <4>3, <5>1, TriggerKept
        <5>2. CASE L1Resumes /\ z = Head(writes).s
          <6>1. \E new \in {"max", "delay"} : l2Timer' = [l2Timer EXCEPT ![z] = new]
            BY <2>1, <5>2 DEF L1Resumes, AdvanceL2, Destroyed
          <6>2. l2Timer \in [Sessions -> {"none", "max", "delay"}]
            BY DEF PipelineInv, PipelineTypes, MemoryTypes
          <6>3. l2Timer'[z] # "none"
            BY <6>1, <6>2
          <6> QED
            BY <6>3 DEF L2Coming
        <5> QED
          BY <5>1, <5>2
      <4> QED
        BY <4>1, <4>2, <4>3
    <3> QED
      BY <1>2, <2>1, <3>1, RecordChange
  <2>2. CASE phase # "open"
    <3>1. Start
      BY <1>2, <2>2, OpensByStart
    <3> QED
      BY <3>1 DEF Start, LeftAlone, L2Coming
  <2> QED
    BY <2>1, <2>2
<1> QED
  BY <1>1, <1>2 DEF ScenesInv, ScenesHaveTrigger, L2Coming

\* Records the scenes do not reflect have an L2 timer or run, or an L1 run that
\* arms one, ahead of them, unless the session is silent or left alone: a timer that
\* fires during a run is dropped, and the end of the run arms the next.
THEOREM ScenesTriggered == PipelineSpec => []ScenesHaveTrigger
<1>1. PipelineInit => ScenesInv
  BY DEF PipelineInit, ScenesInv, ScenesHaveTrigger, SkipArmed
<1>2. PipelineInv /\ ScenesInv /\ [PipelineNext]_pipelineVars => ScenesInv'
  BY StepKeepsScenes
<1>3. ScenesInv => ScenesHaveTrigger
  BY DEF ScenesInv
<1> QED
  BY <1>1, <1>2, <1>3, PipelineInvAlways, PTL DEF PipelineSpec

-----------------------------------------------------------------------------
(* Scenes that the persona does not reflect.                               *)

\* An L2 run that changed the scenes is followed by its trigger of L3 unless a
\* trigger is pending.
PersonaInv ==
  phase = "open" => \A s \in Sessions :
    scenes[s] > l3.saw[s] /\ scenes[s] > booted[s] =>
      l3.pending \/ \E i \in 1..Len(writes) : writes[i].who = "l2" /\ writes[i].s = s

LEMMA StepKeepsPersona ==
  ASSUME PipelineInv, PersonaInv, [PipelineNext]_pipelineVars
  PROVE  PersonaInv'
<1>1. /\ writes \in Seq(Write) /\ scenes \in [Sessions -> Nat] /\ l3 \in L3Runs
      /\ l3.saw \in [Sessions -> Nat]
  BY DEF PipelineInv, PipelineTypes, StoreTypes, MemoryTypes, L3Runs
<1>2. CASE phase' # "open"
  BY <1>2 DEF PersonaInv
<1>3. ASSUME l3'.saw = scenes, scenes' = scenes
      PROVE  PersonaInv'
  BY <1>1, <1>3 DEF PersonaInv
<1>4. CASE phase' = "open" /\ phase # "open"
  <2>1. booted' = scenes /\ scenes' = scenes
    BY <1>4, OpensByStart DEF Start, store
  <2> QED
    BY <1>1, <2>1 DEF PersonaInv
<1>5. CASE phase' = "open" /\ phase = "open"
  <2>1. ASSUME scenes' = scenes, booted' = booted, l3'.saw = l3.saw,
               l3.pending => l3'.pending,
               \A i \in 1..Len(writes) : writes[i].who = "l2" =>
                 \E k \in 1..Len(writes') : writes'[k] = writes[i]
        PROVE  PersonaInv'
    <3>1. ASSUME NEW s \in Sessions, scenes'[s] > l3'.saw[s], scenes'[s] > booted'[s]
          PROVE  l3'.pending \/ \E k \in 1..Len(writes') : writes'[k].who = "l2" /\ writes'[k].s = s
      <4>1. l3.pending \/ \E i \in 1..Len(writes) : writes[i].who = "l2" /\ writes[i].s = s
        BY <1>5, <2>1, <3>1 DEF PersonaInv
      <4> QED
        BY <2>1, <4>1
    <3> QED
      BY <3>1 DEF PersonaInv
  <2>2. ASSUME NEW w \in Write, writes' = Append(writes, w)
        PROVE  /\ \A i \in 1..Len(writes) : i \in 1..Len(writes') /\ writes'[i] = writes[i]
               /\ Len(writes) + 1 \in 1..Len(writes') /\ writes'[Len(writes) + 1] = w
    BY <1>1, <2>2, WriteAppended
  <2>3. ASSUME writes # <<>>, writes' = Tail(writes), Head(writes).who # "l2"
        PROVE  \A i \in 1..Len(writes) : writes[i].who = "l2" =>
                 \E k \in 1..Len(writes') : writes'[k] = writes[i]
    <3>1. /\ Head(writes) = writes[1]
          /\ \A i \in 1..Len(writes) : i # 1 => /\ i - 1 \in 1..Len(writes')
                                                /\ writes'[i - 1] = writes[i]
      BY <1>1, <2>3, WriteTaken
    <3> QED
      BY <2>3, <3>1
  <2>4. ASSUME NEW who \in {"notify", "l1", "l2", "l2skip"}, NEW s \in Sessions, NEW thr \in Nat
        PROVE  [who |-> who, s |-> s, thr |-> thr] \in Write
    BY DEF Write
  <2>5. ASSUME NEW s \in Sessions, NEW ok \in BOOLEAN, Capture(s, ok)
        PROVE  PersonaInv'
    <3>1. [who |-> "notify", s |-> s, thr |-> Threshold(Rounded(s))] \in Write
      BY <2>4, <2>5, CaptureTypes, RoundTypes DEF Capture
    <3>2. /\ writes' = Append(writes, [who |-> "notify", s |-> s, thr |-> Threshold(Rounded(s))])
          /\ UNCHANGED <<scenes, booted, l3>>
      BY <2>5 DEF Capture, Persist
    <3> QED
      BY <2>1, <2>2, <3>1, <3>2
  <2>6. ASSUME NEW kept \in 0..1, NEW ok \in BOOLEAN, L1Ends(kept, ok)
        PROVE  PersonaInv'
    <3>1. [who |-> "l1", s |-> Head(l1Queue), thr |-> 0] \in Write
      BY <2>4, <2>6, RunTypes DEF L1Ends
    <3>2. /\ writes' = Append(writes, [who |-> "l1", s |-> Head(l1Queue), thr |-> 0])
          /\ UNCHANGED <<scenes, booted, l3>>
      BY <2>6 DEF L1Ends, Persist
    <3> QED
      BY <2>1, <2>2, <3>1, <3>2
  <2>7. ASSUME NEW answer, NEW ok \in BOOLEAN, L2Ends(answer, ok)
        PROVE  PersonaInv'
    <3> DEFINE s == Head(l2Queue)
    <3>1. s \in Sessions
      BY <2>7, RunTypes DEF L2Ends
    <3>2. CASE answer = "done"
      <4> DEFINE w == [who |-> "l2", s |-> s, thr |-> 0]
      <4>1. ~ColdStart(s, answer)
        BY <3>2 DEF ColdStart
      <4>2. /\ writes' = Append(writes, w) /\ l3' = l3 /\ booted' = booted
            /\ scenes' = [scenes EXCEPT ![s] = l2.upto]
        BY <2>7, <3>2, <4>1 DEF L2Ends, Persist
      <4>3. w \in Write /\ w.who = "l2" /\ w.s = s
        BY <2>4, <3>1
      <4> HIDE DEF w, s
      <4>4. ASSUME NEW z \in Sessions, scenes'[z] > l3'.saw[z], scenes'[z] > booted'[z]
            PROVE  l3'.pending \/ \E k \in 1..Len(writes') : writes'[k].who = "l2" /\ writes'[k].s = z
        <5>1. CASE z = s
          BY <2>2, <4>2, <4>3, <5>1
        <5>2. CASE z # s
          <6>1. scenes[z] > l3.saw[z] /\ scenes[z] > booted[z]
            BY <1>1, <4>2, <4>4, <5>2
          <6>2. l3.pending \/ \E i \in 1..Len(writes) : writes[i].who = "l2" /\ writes[i].s = z
            BY <1>5, <6>1 DEF PersonaInv
          <6> QED
            BY <2>2, <4>2, <4>3, <6>2
        <5> QED
          BY <5>1, <5>2
      <4> QED
        BY <4>4 DEF PersonaInv
    <3>3. CASE answer # "done"
      <4>1. PICK who \in {"l2", "l2skip"} : Persist(who, s, 0, sess', ok)
        BY <2>7 DEF L2Ends
      <4>2. writes' = Append(writes, [who |-> who, s |-> s, thr |-> 0]) /\ UNCHANGED <<scenes, booted, l3>>
        BY <2>7, <3>3, <4>1 DEF L2Ends, Persist
      <4>3. [who |-> who, s |-> s, thr |-> 0] \in Write
        BY <2>4, <3>1
      <4> QED
        BY <2>1, <2>2, <4>2, <4>3
    <3> QED
      BY <3>2, <3>3
  <2>8. CASE NotifyResumes \/ L1Resumes
    <3>1. /\ writes # <<>> /\ writes' = Tail(writes) /\ Head(writes).who # "l2"
          /\ UNCHANGED <<scenes, booted, l3>>
      BY <2>8 DEF NotifyResumes, L1Resumes, Written, store, ghosts
    <3> QED
      BY <2>1, <2>3, <3>1
  <2>9. CASE L2Resumes
    <3>1. CASE Written("l2") /\ TriggerL3
      <4>1. scenes' = scenes
        BY <2>9 DEF L2Resumes, store
      <4>2. CASE l3.running
        <5>1. l3'.pending
          BY <1>1, <1>5, <3>1, <4>2 DEF TriggerL3, Destroyed, L3Runs
        <5> QED
          BY <5>1 DEF PersonaInv
      <4>3. CASE ~l3.running
        <5>1. l3'.saw = scenes
          BY <1>5, <3>1, <4>3 DEF TriggerL3, Destroyed
        <5> QED
          BY <1>3, <4>1, <5>1
      <4> QED
        BY <4>2, <4>3
    <3>2. CASE Written("l2skip") /\ UNCHANGED l3
      <4>1. /\ writes # <<>> /\ writes' = Tail(writes) /\ Head(writes).who # "l2"
            /\ UNCHANGED <<scenes, booted, l3>>
        BY <2>9, <3>2 DEF L2Resumes, Written, store, ghosts
      <4> QED
        BY <2>1, <2>3, <4>1
    <3> QED
      BY <2>9, <3>1, <3>2 DEF L2Resumes
  <2>10. CASE L3Ends
    <3>1. scenes' = scenes /\ writes' = writes /\ booted' = booted
      BY <2>10 DEF L3Ends, store, ghosts
    <3>2. CASE l3.pending
      <4>1. l3'.saw = scenes
        BY <1>5, <2>10, <3>2 DEF L3Ends, Destroyed
      <4> QED
        BY <1>3, <3>1, <4>1
    <3>3. CASE ~l3.pending
      <4>1. l3'.saw = l3.saw
        BY <1>1, <2>10, <3>3 DEF L3Ends, L3Runs
      <4> QED
        BY <2>1, <3>1, <3>3, <4>1
    <3> QED
      BY <3>2, <3>3
  <2>11. CASE \/ L1Start \/ L2Start \/ L2Throws \/ Collects \/ UNCHANGED pipelineVars
              \/ (\E kept \in 0..1 : L1Fails(kept))
              \/ \E s \in Sessions : IdleFires(s) \/ CaptureLate(s) \/ L2Fires(s) \/ GoesSilent(s)
    <3>1. UNCHANGED <<scenes, booted, l3, writes>>
      BY <2>11 DEF L1Start, L2Start, L2Throws, Collects, L1Fails, IdleFires, CaptureLate,
                   L2Fires, GoesSilent, pipelineVars, memory, store, ghosts
    <3> QED
      BY <2>1, <3>1
  <2>12. ~(Start \/ BeginDestroy \/ FlushL2 \/ Crash \/ \E ok \in BOOLEAN : DestroyEnds(ok))
    BY <1>5 DEF Start, BeginDestroy, FlushL2, Crash, DestroyEnds, Off, PipelineInv, OffInv
  <2> QED
    BY <2>5, <2>6, <2>7, <2>8, <2>9, <2>10, <2>11, <2>12
    DEF PipelineNext, Resumes, L1Answers, L2Answers
<1> QED
  BY <1>2, <1>4, <1>5

\* Scenes written since the scheduler started, and newer than those the last L3 run
\* could see, have a pending L3 or the end of their L2 run ahead of them: the two
\* flags that serialise L3 lose no trigger while the process runs.  What is pending
\* at a stop or in a crash is lost until the next L2 run.
THEOREM PersonaTriggered == PipelineSpec => []PersonaFollowsScenes
<1>1. PipelineInit => PersonaInv
  BY DEF PipelineInit, PersonaInv
<1>2. PipelineInv /\ PersonaInv /\ [PipelineNext]_pipelineVars => PersonaInv'
  BY StepKeepsPersona
<1>3. PipelineInv /\ PersonaInv => PersonaFollowsScenes
  BY DEF PipelineInv, QueueInv, OfL2, PersonaInv, PersonaFollowsScenes
<1> QED
  BY <1>1, <1>2, <1>3, PipelineInvAlways, PTL DEF PipelineSpec
=============================================================================
