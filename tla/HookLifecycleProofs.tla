------------------------- MODULE HookLifecycleProofs -------------------------
(***************************************************************************)
(* Proofs about module HookLifecycle, for any number of turns, changes and *)
(* restores.                                                               *)
(***************************************************************************)
EXTENDS HookLifecycle, TLAPS

(***************************************************************************)
(* The strengthening.  A copy of the revisions is never ahead of the       *)
(* ledger it was read from, and a copy that is abreast of it is of the     *)
(* same change by the user.  What the properties say of the data holds of  *)
(* the copy in the backup as well.                                         *)
(***************************************************************************)
Recent(x) ==
  /\ x.life <= life
  /\ x.life = life => /\ x.rev <= auth.rev
                      /\ x.rev = auth.rev => x.grant = auth.grant

Counted(a) ==
  /\ a.rev >= 1
  /\ a.rev = 1 => a.grant = 0

Consents ==
  /\ Counted(auth)
  /\ saved # None => Counted(saved.auth)
  /\ Recent(runtime)
  /\ reading # None => Recent(reading)
  /\ \A r \in requests : Recent(r.from)

Whole(l, present) == \A t \in Turns : l[t] # None <=> t \in present \cup erased

Stored ==
  /\ Whole(ledger, rows)
  /\ rows \cap erased = {}
  /\ saved # None => /\ Whole(saved.ledger, saved.rows)
                     /\ saved.rows \cap erased = {}

Once(l, n, pending, lost) ==
  \A t \in Turns : IF l[t] # None
                   THEN \/ n[t] = 1 /\ t \notin pending /\ t \notin lost
                        \/ n[t] = 0 /\ t \in pending /\ t \notin lost
                        \/ n[t] = 0 /\ t \notin pending /\ t \in lost
                   ELSE n[t] = 0 /\ t \notin pending /\ t \notin lost

Count ==
  /\ Once(ledger, told, notices, untold)
  /\ saved # None => Once(saved.ledger, saved.told, {}, saved.untold)

Inv == TypeOK /\ Consents /\ Stored /\ Count

-----------------------------------------------------------------------------
(* Types. *)

LEMMA InitType == Init => TypeOK
BY LifecycleAssumption, SMT DEF Init, TypeOK, Installed, Grants, Snapshots,
   Authorizations

LEMMA SnapshotType ==
  ASSUME TypeOK
  PROVE  Snapshot(auth) \in Snapshots
BY DEF TypeOK, Snapshot, Snapshots, Authorizations

LEMMA InstalledType ==
  ASSUME NEW n \in 0 .. MaxRestores
  PROVE  Installed(n) \in Snapshots
BY LifecycleAssumption, SMT DEF Installed, Snapshots, Grants

\* What the two updates do to the latest row of the ledger.
LEMMA UpdateAuth ==
  ASSUME TypeOK, grants < MaxChanges,
         \/ \E capture \in BOOLEAN : Authorize(capture)
         \/ \E refuses \in SUBSET Turns : ChangePolicy(refuses)
  PROVE  /\ auth' \in Authorizations
         /\ auth'.rev = auth.rev + 1
         /\ grants' \in Grants
<1>1. grants + 1 \in Grants /\ grants' = grants + 1
  <2>1. grants \in 0 .. MaxChanges /\ MaxChanges \in Nat
    BY LifecycleAssumption DEF TypeOK, Grants
  <2>2. grants + 1 \in 0 .. MaxChanges
    BY <2>1, SMT
  <2>3. grants' = grants + 1
    BY DEF Authorize, ChangePolicy
  <2> QED
    BY <2>2, <2>3 DEF Grants
<1>2. auth \in [rev : Nat, pol : Nat, capture : BOOLEAN, grant : Grants]
  BY DEF TypeOK, Authorizations
<1>3. auth.rev + 1 \in Nat /\ auth.pol + 1 \in Nat
  BY <1>2, SMT
<1>4. ASSUME NEW capture \in BOOLEAN, Authorize(capture)
      PROVE  auth' \in Authorizations /\ auth'.rev = auth.rev + 1
  BY <1>1, <1>2, <1>3, <1>4 DEF Authorize, Authorizations
<1>5. ASSUME NEW refuses \in SUBSET Turns, ChangePolicy(refuses)
      PROVE  auth' \in Authorizations /\ auth'.rev = auth.rev + 1
  BY <1>1, <1>2, <1>3, <1>5 DEF ChangePolicy, Authorizations
<1> QED
  BY <1>1, <1>4, <1>5

LEMMA NextType == TypeOK /\ [Next]_vars => TypeOK'
<1> SUFFICES ASSUME TypeOK, [Next]_vars PROVE TypeOK'
  OBVIOUS
<1> USE LifecycleAssumption
<1>1. ASSUME NEW capture \in BOOLEAN, Authorize(capture) PROVE TypeOK'
  <2>1. auth' \in Authorizations /\ grants' \in Grants
    BY <1>1, UpdateAuth DEF Authorize
  <2> QED
    BY <1>1, <2>1 DEF Authorize, TypeOK, hooks
<1>2. ASSUME NEW refuses \in SUBSET Turns, ChangePolicy(refuses) PROVE TypeOK'
  <2>1. auth' \in Authorizations /\ grants' \in Grants
    BY <1>2, UpdateAuth DEF ChangePolicy
  <2>2. policy' \in [rev : Nat, refuses : SUBSET Turns]
    BY <1>2, SMT DEF ChangePolicy, TypeOK
  <2> QED
    BY <1>2, <2>1, <2>2 DEF ChangePolicy, TypeOK, hooks
<1>3. ASSUME NEW t \in Turns, Erase(t) PROVE TypeOK'
  BY <1>3, SMT DEF Erase, TypeOK, hooks
<1>4. ASSUME NEW t \in Turns, Build(t) PROVE TypeOK'
  BY <1>4, SMT DEF Build, TypeOK, data, history
<1>5. ASSUME NEW t \in Turns, Notify(t) PROVE TypeOK'
  BY <1>5, SMT DEF Notify, TypeOK, hooks, history
<1>6. ASSUME NEW t \in Turns, NotifyFails(t) PROVE TypeOK'
  BY <1>6, SMT DEF NotifyFails, TypeOK, data, hooks, history
<1>7. ASSUME NEW r \in requests, Queue(r) PROVE TypeOK'
  BY <1>7, SMT DEF Queue, TypeOK, data, history
<1>8. ASSUME NEW r \in requests, GiveUp(r) PROVE TypeOK'
  BY <1>8, SMT DEF GiveUp, TypeOK, data, history
<1>9. ASSUME NEW r \in requests, CaptureRefused(r) PROVE TypeOK'
  BY <1>9, SMT DEF CaptureRefused, TypeOK, data, history
<1>10. ASSUME NEW r \in requests, CaptureStored(r) PROVE TypeOK'
  <2>1. r \in [turn : Turns, from : Snapshots]
    BY DEF TypeOK
  <2>2. r.turn \in Turns /\ Revisions(r.from) \in [rev : Nat, pol : Nat]
    BY <2>1 DEF Revisions, Snapshots
  <2>3. ledger' \in [Turns -> [rev : Nat, pol : Nat] \cup {None}]
    BY <1>10, <2>2 DEF CaptureStored, TypeOK
  <2> QED
    BY <1>10, <2>2, <2>3 DEF CaptureStored, Settle, TypeOK, history
<1>11. CASE ReadAuthorization
  BY <1>11, SnapshotType DEF ReadAuthorization, TypeOK, data, history
<1>12. CASE WriteRuntime
  BY <1>12 DEF WriteRuntime, TypeOK, data, history
<1>13. CASE Restart
  <2>1. Installed(life) \in Snapshots
    BY InstalledType DEF TypeOK
  <2> QED
    BY <1>13, <2>1 DEF Restart, Reinstall, TypeOK, data, history
<1>14. CASE Backup
  <2>1. Installed(life) \in Snapshots
    BY InstalledType DEF TypeOK
  <2> QED
    BY <1>14, <2>1 DEF Backup, Reinstall, Data, TypeOK, data, history
<1>15. CASE Restore
  <2>1. life + 1 \in 0 .. MaxRestores
    BY <1>15 DEF Restore, TypeOK
  <2>2. Installed(life + 1) \in Snapshots
    BY <2>1, InstalledType
  <2> QED
    BY <1>15, <2>1, <2>2 DEF Restore, Reinstall, TypeOK
<1>16. CASE UNCHANGED vars
  BY <1>16 DEF TypeOK, vars, data, hooks, history
<1> QED
  BY <1>1, <1>2, <1>3, <1>4, <1>5, <1>6, <1>7, <1>8, <1>9, <1>10, <1>11,
     <1>12, <1>13, <1>14, <1>15, <1>16 DEF Next

-----------------------------------------------------------------------------
(* Consents.  Every step but the two updates and the restore leaves the    *)
(* authorization alone, and takes its copies from what was recent.         *)

LEMMA NextConsents == TypeOK /\ Consents /\ [Next]_vars => Consents'
<1> SUFFICES ASSUME TypeOK, Consents, [Next]_vars PROVE Consents'
  OBVIOUS
<1> USE LifecycleAssumption
<1>a. /\ auth.rev \in Nat /\ life \in Nat
      /\ \A x \in Snapshots : x.rev \in Nat /\ x.life \in Nat
      /\ runtime \in Snapshots /\ (reading # None => reading \in Snapshots)
      /\ \A r \in requests : r.from \in Snapshots
  BY DEF TypeOK, Snapshots, Authorizations
<1>b. ASSUME auth'.rev = auth.rev + 1, auth' \in Authorizations,
             UNCHANGED <<hooks, saved, life>>
      PROVE  Consents'
  <2>1. \A x \in Snapshots : Recent(x) => Recent(x)'
    BY <1>a, <1>b, SMT DEF Recent
  <2>2. Counted(auth')
    BY <1>a, <1>b, SMT DEF Counted, Consents
  <2> QED
    BY <1>a, <1>b, <2>1, <2>2 DEF Consents, hooks
<1>c. ASSUME UNCHANGED <<auth, life>> PROVE \A x : Recent(x)' <=> Recent(x)
  BY <1>c DEF Recent
<1>d. Recent(Installed(life))
  BY <1>a, SMT DEF Recent, Installed, Consents, Counted
<1>1. ASSUME NEW capture \in BOOLEAN, Authorize(capture) PROVE Consents'
  <2>1. auth'.rev = auth.rev + 1 /\ auth' \in Authorizations
    BY <1>1, UpdateAuth DEF Authorize
  <2> QED
    BY <1>1, <1>b, <2>1 DEF Authorize
<1>2. ASSUME NEW refuses \in SUBSET Turns, ChangePolicy(refuses) PROVE Consents'
  <2>1. auth'.rev = auth.rev + 1 /\ auth' \in Authorizations
    BY <1>2, UpdateAuth DEF ChangePolicy
  <2> QED
    BY <1>2, <1>b, <2>1 DEF ChangePolicy
<1>3. ASSUME NEW t \in Turns, Erase(t) PROVE Consents'
  BY <1>3, <1>c DEF Erase, Consents, hooks
<1>4. ASSUME NEW t \in Turns, Build(t) PROVE Consents'
  BY <1>4, <1>c DEF Build, Consents, data, history
<1>5. ASSUME NEW t \in Turns, Notify(t) \/ NotifyFails(t) PROVE Consents'
  BY <1>5, <1>c DEF Notify, NotifyFails, Consents, data, hooks, history
<1>6. ASSUME NEW r \in requests, Queue(r) \/ GiveUp(r) \/ CaptureRefused(r)
      PROVE  Consents'
  BY <1>6, <1>c DEF Queue, GiveUp, CaptureRefused, Consents, data, history
<1>7. ASSUME NEW r \in requests, CaptureStored(r) PROVE Consents'
  BY <1>7, <1>c DEF CaptureStored, Settle, Consents, history
<1>8. CASE ReadAuthorization
  <2>1. Recent(Snapshot(auth))
    BY <1>a, SMT DEF Recent, Snapshot
  <2> QED
    BY <1>8, <1>c, <2>1 DEF ReadAuthorization, Consents, data, history
<1>9. CASE WriteRuntime
  BY <1>9, <1>c DEF WriteRuntime, Consents, data, history
<1>10. CASE Restart
  BY <1>10, <1>c, <1>d DEF Restart, Reinstall, Consents, data, history
<1>11. CASE Backup
  BY <1>11, <1>c, <1>d DEF Backup, Reinstall, Data, Consents, data, history
<1>12. CASE Restore
  <2>1. Counted(auth') /\ auth'.rev \in Nat /\ auth'.rev >= 1
    BY <1>12 DEF Restore, Consents, TypeOK, Authorizations, Counted
  <2>2. \A x \in Snapshots : Recent(x) => Recent(x)'
    BY <1>12, <1>a, SMT DEF Restore, Recent
  <2>3. Recent(runtime)'
    BY <1>12, <1>a, <2>1, SMT DEF Restore, Reinstall, Recent, Installed, Counted
  <2>4. saved # None
    BY <1>12 DEF Restore
  <2> QED
    BY <1>12, <1>a, <2>1, <2>2, <2>3, <2>4 DEF Restore, Reinstall, Consents
<1>13. CASE UNCHANGED vars
  BY <1>13, <1>c DEF Consents, vars, data, hooks, history
<1> QED
  BY <1>1, <1>2, <1>3, <1>4, <1>5, <1>6, <1>7, <1>8, <1>9, <1>10, <1>11,
     <1>12, <1>13 DEF Next
-----------------------------------------------------------------------------
(* What is stored.  The idempotency ledger, the rows and the backup.       *)

LEMMA NextStored == TypeOK /\ Stored /\ [Next]_vars => Stored'
<1> SUFFICES ASSUME TypeOK, Stored, [Next]_vars PROVE Stored'
  OBVIOUS
<1>a. ASSUME UNCHANGED <<ledger, rows, saved, erased>> PROVE Stored'
  BY <1>a DEF Stored, Whole
<1>1. ASSUME NEW capture \in BOOLEAN, Authorize(capture) PROVE Stored'
  BY <1>1, <1>a DEF Authorize
<1>2. ASSUME NEW refuses \in SUBSET Turns, ChangePolicy(refuses) PROVE Stored'
  BY <1>2, <1>a DEF ChangePolicy
<1>3. ASSUME NEW t \in Turns, Erase(t) PROVE Stored'
  <2>1. Whole(ledger, rows)'
    BY <1>3 DEF Erase, Stored, Whole
  <2>2. (rows \cap erased = {})'
    BY <1>3 DEF Erase, Stored
  <2>3. saved' = None
    BY <1>3 DEF Erase
  <2> QED
    BY <2>1, <2>2, <2>3 DEF Stored
<1>4. ASSUME NEW t \in Turns, Build(t) \/ Notify(t) \/ NotifyFails(t) PROVE Stored'
  BY <1>4, <1>a DEF Build, Notify, NotifyFails, data, history
<1>5. ASSUME NEW r \in requests, Queue(r) \/ GiveUp(r) \/ CaptureRefused(r)
      PROVE  Stored'
  BY <1>5, <1>a DEF Queue, GiveUp, CaptureRefused, data, history
<1>6. ASSUME NEW r \in requests, CaptureStored(r) PROVE Stored'
  <2>1. r.turn \in Turns /\ Revisions(r.from) # None
    BY LifecycleAssumption DEF TypeOK, Revisions, Snapshots
  <2>2. r.turn \notin erased
    BY <1>6, <2>1 DEF CaptureStored, Known, Stored, Whole
  <2>3. Whole(ledger, rows)'
    BY <1>6, <2>1 DEF CaptureStored, TypeOK, Stored, Whole, history
  <2>4. (rows \cap erased = {})'
    BY <1>6, <2>2 DEF CaptureStored, Stored, history
  <2> QED
    BY <1>6, <2>3, <2>4 DEF CaptureStored, Stored, Whole, history
<1>7. CASE ReadAuthorization \/ WriteRuntime \/ Restart
  BY <1>7, <1>a DEF ReadAuthorization, WriteRuntime, Restart, data, history
<1>8. CASE Backup
  <2>1. saved'.ledger = ledger /\ saved'.rows = rows
    BY <1>8 DEF Backup, Data
  <2> QED
    BY <1>8, <2>1 DEF Backup, Stored, Whole, data, history
<1>9. CASE Restore
  BY <1>9 DEF Restore, Stored, Whole
<1>10. CASE UNCHANGED vars
  BY <1>10, <1>a DEF vars, data, history
<1> QED
  BY <1>1, <1>2, <1>3, <1>4, <1>5, <1>6, <1>7, <1>8, <1>9, <1>10 DEF Next

-----------------------------------------------------------------------------
(* What the kernel was told.                                               *)

LEMMA NextCount == TypeOK /\ Count /\ [Next]_vars => Count'
<1> SUFFICES ASSUME TypeOK, Count, [Next]_vars PROVE Count'
  OBVIOUS
<1>t. told \in [Turns -> Nat]
  BY DEF TypeOK
<1>a. ASSUME UNCHANGED <<ledger, told, notices, untold, saved>> PROVE Count'
  BY <1>a DEF Count, Once
<1>b. Once(ledger, told, {}, untold \cup notices)
  BY DEF Count, Once
<1>1. ASSUME NEW capture \in BOOLEAN, Authorize(capture) PROVE Count'
  BY <1>1, <1>a DEF Authorize
<1>2. ASSUME NEW refuses \in SUBSET Turns, ChangePolicy(refuses) PROVE Count'
  BY <1>2, <1>a DEF ChangePolicy
<1>3. ASSUME NEW t \in Turns, Erase(t) PROVE Count'
  BY <1>3 DEF Erase, Count, Once, hooks
<1>4. ASSUME NEW t \in Turns, Build(t) PROVE Count'
  BY <1>4, <1>a DEF Build, data, history
<1>5. ASSUME NEW t \in Turns, Notify(t) PROVE Count'
  <2>1. Once(ledger, told, notices, untold)'
    BY <1>5, <1>t, SMT DEF Notify, Count, Once
  <2> QED
    BY <1>5, <2>1 DEF Notify, Count, Once
<1>6. ASSUME NEW t \in Turns, NotifyFails(t) PROVE Count'
  BY <1>6 DEF NotifyFails, Count, Once, data, history
<1>7. ASSUME NEW r \in requests, Queue(r) \/ GiveUp(r) \/ CaptureRefused(r)
      PROVE  Count'
  BY <1>7, <1>a DEF Queue, GiveUp, CaptureRefused, data, history
<1>8. ASSUME NEW r \in requests, CaptureStored(r) PROVE Count'
  <2>1. r.turn \in Turns /\ Revisions(r.from) # None
    BY LifecycleAssumption DEF TypeOK, Revisions, Snapshots
  <2>2. Once(ledger, told, notices, untold)'
    BY <1>8, <2>1 DEF CaptureStored, Known, TypeOK, Count, Once
  <2> QED
    BY <1>8, <2>2 DEF CaptureStored, Count, Once
<1>9. CASE ReadAuthorization \/ WriteRuntime
  BY <1>9, <1>a DEF ReadAuthorization, WriteRuntime, data, history
<1>10. CASE Restart
  BY <1>10, <1>b DEF Restart, Reinstall, Count, Once, data, history
<1>11. CASE Backup
  <2>1. /\ saved'.ledger = ledger /\ saved'.told = told
        /\ saved'.untold = untold \cup notices
    BY <1>11 DEF Backup, Data
  <2> QED
    BY <1>11, <1>b, <2>1 DEF Backup, Reinstall, Count, Once, data, history
<1>12. CASE Restore
  BY <1>12 DEF Restore, Reinstall, Count, Once
<1>13. CASE UNCHANGED vars
  BY <1>13, <1>a DEF vars, data
<1> QED
  BY <1>1, <1>2, <1>3, <1>4, <1>5, <1>6, <1>7, <1>8, <1>9, <1>10, <1>11,
     <1>12, <1>13 DEF Next

-----------------------------------------------------------------------------
(* The theorems.                                                           *)

LEMMA InitInv == Init => Inv
<1> SUFFICES ASSUME Init PROVE Inv
  OBVIOUS
<1>1. TypeOK
  BY InitType
<1>2. Consents
  BY SMT DEF Init, Consents, Recent, Counted, Installed
<1>3. Stored
  BY DEF Init, Stored, Whole
<1>4. Count
  BY SMT DEF Init, Count, Once
<1> QED
  BY <1>1, <1>2, <1>3, <1>4 DEF Inv

LEMMA Invariance == Spec => []Inv
<1>1. Inv /\ [Next]_vars => Inv'
  BY NextType, NextConsents, NextStored, NextCount DEF Inv
<1> QED
  BY <1>1, InitInv, PTL DEF Spec

\* Every variable of the Hook lifecycle keeps its type: the ledgers, the copies
\* of their revisions and the data of the backup.
THEOREM TypeCorrect == Spec => []TypeOK
<1>1. Inv => TypeOK
  BY DEF Inv
<1> QED
  BY <1>1, Invariance, PTL

\* A capture that comes again, from the outbox, a second process or after a
\* restore, never brings the text of an erased turn back.
THEOREM ErasedTextStaysErased == Spec => []ErasedStaysErased
<1>1. Inv => ErasedStaysErased
  BY DEF Inv, Stored, ErasedStaysErased
<1> QED
  BY <1>1, Invariance, PTL

\* Rows and idempotency entry of a capture are there together or not at all.
THEOREM RowsHaveEntry == Spec => []StoredWhole
<1>1. Inv => StoredWhole
  <2> SUFFICES ASSUME Inv PROVE StoredWhole
    OBVIOUS
  <2>1. rows \cup erased \subseteq Turns
    BY DEF Inv, TypeOK
  <2> QED
    BY <2>1 DEF Inv, Stored, Whole, StoredWhole, Known
<1> QED
  BY <1>1, Invariance, PTL

\* The kernel is told of a stored turn once, unless the notice was lost, and
\* never of one that is not stored.
THEOREM TurnsCountedOnce == Spec => []CountedOnce
<1>1. Inv => CountedOnce
  <2> SUFFICES ASSUME Inv, NEW t \in Turns
               PROVE  Announced(t) = IF Known(t) THEN 1 ELSE 0
    BY DEF CountedOnce
  <2>1. Once(ledger, told, notices, untold)
    BY DEF Inv, Count
  <2>2. CASE Known(t)
    <3>1. CASE told[t] = 1 /\ t \notin notices /\ t \notin untold
      BY <2>2, <3>1, SMT DEF Announced
    <3>2. CASE told[t] = 0 /\ t \in notices /\ t \notin untold
      BY <2>2, <3>2, SMT DEF Announced
    <3>3. CASE told[t] = 0 /\ t \notin notices /\ t \in untold
      BY <2>2, <3>3, SMT DEF Announced
    <3> QED
      BY <2>1, <2>2, <3>1, <3>2, <3>3 DEF Once, Known
  <2>3. CASE ~ Known(t)
    <3>1. told[t] = 0 /\ t \notin notices /\ t \notin untold
      BY <2>1, <2>3 DEF Once, Known
    <3> QED
      BY <2>3, <3>1, SMT DEF Announced
  <2> QED
    BY <2>2, <2>3
<1> QED
  BY <1>1, Invariance, PTL

\* A capture is stored under the very change of consent its process went by.
THEOREM ConsentIsCurrent == Spec => StoredUnderConsent
<1>1. Inv /\ [Next]_vars =>
        [\A r \in requests :
           StoresFor(r) /\ r.from.life = life => r.from.grant = auth.grant]_vars
  <2> SUFFICES ASSUME Inv, Next, NEW r \in requests,
                      StoresFor(r), r.from.life = life
               PROVE  r.from.grant = auth.grant
    OBVIOUS
  <2>1. r.turn \in Turns /\ Revisions(r.from) # None
    BY LifecycleAssumption DEF Inv, TypeOK, Revisions, Snapshots
  <2>2. ledger'[r.turn] # ledger[r.turn] /\ life' = life
    BY <2>1 DEF StoresFor
  <2>3. ~ Restore
    <3>1. life \in Nat
      BY DEF Inv, TypeOK
    <3> QED
      BY <2>2, <3>1, SMT DEF Restore
  <2>4. PICK q \in requests : CaptureStored(q)
    <3>1. ASSUME UNCHANGED ledger PROVE FALSE
      BY <2>2, <3>1
    <3>2. ASSUME NEW q \in requests, Queue(q) \/ GiveUp(q) \/ CaptureRefused(q)
          PROVE  UNCHANGED ledger
      BY <3>2 DEF Queue, GiveUp, CaptureRefused, data
    <3>3. ASSUME NEW t \in Turns,
                 Erase(t) \/ Build(t) \/ Notify(t) \/ NotifyFails(t)
          PROVE  UNCHANGED ledger
      BY <3>3 DEF Erase, Build, Notify, NotifyFails, data
    <3>4. ASSUME \/ \E capture \in BOOLEAN : Authorize(capture)
                 \/ \E refuses \in SUBSET Turns : ChangePolicy(refuses)
                 \/ ReadAuthorization \/ WriteRuntime \/ Restart \/ Backup
          PROVE  UNCHANGED ledger
      BY <3>4 DEF Authorize, ChangePolicy, ReadAuthorization, WriteRuntime,
         Restart, Backup, data
    <3> QED
      BY <2>3, <3>1, <3>2, <3>3, <3>4 DEF Next
  <2>5. Revisions(r.from) = Revisions(q.from)
    BY <2>1, <2>2, <2>4 DEF CaptureStored, StoresFor, Inv, TypeOK
  <2>6. Revisions(q.from) = Revisions(auth)
    BY <2>4 DEF CaptureStored, Denied, Stale
  <2>7. r.from.rev = auth.rev
    BY <2>5, <2>6 DEF Revisions
  <2> QED
    BY <2>7 DEF Inv, Consents, Recent
<1> QED
  BY <1>1, Invariance, PTL DEF Spec, StoredUnderConsent
=============================================================================
