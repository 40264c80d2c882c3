--------------------------- MODULE RetentionProofs ---------------------------
(***************************************************************************)
(* Proofs about module Retention, for any messages, memories, requests,    *)
(* retention periods and batch sizes.                                      *)
(***************************************************************************)
EXTENDS Retention, TLAPS

(***************************************************************************)
(* The strengthening.  Every cutoff in use is one of a day that has been,  *)
(* so that an item stamped today is not before it; a request that deletes  *)
(* has the cutoffs of its row in the run ledger; an answer that says       *)
(* drained is true; a request that plans under the policy in force has     *)
(* cutoffs of that policy; and while the call of a request that deletes    *)
(* rows is out, what it counted is gone and every active copy was          *)
(* registered since.                                                       *)
(***************************************************************************)
Past(cut) == cut # None => cut <= day
Clean(cut0, cut1) == Eligible(L0, cut0) \cup Eligible(L1, cut1) = {}

Cutoffs ==
  /\ \A k \in DOMAIN runs : Past(runs[k].cut0) /\ Past(runs[k].cut1)
  /\ \A r \in Requests : Past(req[r].cut0) /\ Past(req[r].cut1)
  /\ backup.pc \in {"stop", "copy"} /\ backup.proof # None =>
       Past(backup.proof.cut0) /\ Past(backup.proof.cut1)

Recorded ==
  \A r \in Requests : req[r].pc \in Deleting \cup {"verify"} =>
    /\ runs[req[r].run].cut0 = req[r].cut0
    /\ runs[req[r].run].cut1 = req[r].cut1

AnswersTrue ==
  \A r \in Requests : req[r].pc = "answered" /\ req[r].answer = "drained" =>
    Clean(req[r].cut0, req[r].cut1)

Of(cut, period) == (cut = None) = (period = None) /\ (cut # None => cut <= Cutoff(period))

InForce ==
  \A r \in Requests :
    /\ req[r].policy <= policy.rev
    /\ req[r].pc = "plan" /\ req[r].policy = policy.rev =>
         Of(req[r].cut0, policy.l0) /\ Of(req[r].cut1, policy.l1)

Traces == disk \subseteq copies \cup headless \cup stray \cup making

Out == {"index", "l0_index"}

Counted ==
  \A r \in Requests :
    /\ req[r].pc \in Out => copies \subseteq late
    /\ req[r].pc = "index" => req[r].item \in tomb /\ req[r].item \notin readable
    /\ req[r].pc = "l0_index" => req[r].l0 \cap readable = {}

Inv == /\ TypeOK /\ OwnersHoldLock /\ OneLiveLease
       /\ Cutoffs /\ Recorded /\ DrainedIsClean /\ AnswersTrue /\ BackupIsClean /\ InForce
       /\ Traces /\ Counted

-----------------------------------------------------------------------------
(* What the handlers do to a request. *)

ReqsType == req \in [Requests -> ReqRecord]
Working == Deleting \cup {"verify"}

Fresh(q) == /\ q.pc \in {"idle", "answered"} /\ q.token = "none" /\ q.policy = 0
            /\ q.cut0 = None /\ q.cut1 = None /\ q.answer \in {"none", "error"}

Alike(p, q) == /\ q.policy = p.policy /\ q.auth = p.auth
               /\ q.cut0 = p.cut0 /\ q.cut1 = p.cut1 /\ q.run = p.run

LEMMA IdleType == Idle \in ReqRecord /\ Fresh(Idle) /\ Idle.pc = "idle"
BY DEF Idle, ReqRecord, Answers, Cut, Fresh

LEMMA ReplyFacts ==
  ASSUME TypeOK, NEW r \in Requests, NEW answer \in Answers, Reply(r, answer)
  PROVE  /\ ReqsType'
         /\ \A o \in Requests \ {r} : req'[o] = req[o]
         /\ \/ Fresh(req'[r]) /\ req'[r].pc = "idle"
            \/ /\ Alike(req[r], req'[r]) /\ req'[r].token = req[r].token
               /\ req'[r].pc = "answered" /\ req'[r].answer = answer
<1>1. \/ req'[r] = Idle
      \/ req'[r] = [req[r] EXCEPT !.pc = "answered", !.answer = answer]
  BY DEF Reply, TypeOK
<1>2. \A o \in Requests \ {r} : req'[o] = req[o]
  BY DEF Reply, TypeOK
<1>3. DOMAIN req' = Requests /\ req' = [o \in Requests |-> req'[o]]
  BY DEF Reply, TypeOK
<1>4. req[r] \in ReqRecord
  BY DEF TypeOK
<1>5. [req[r] EXCEPT !.pc = "answered", !.answer = answer] \in ReqRecord
  BY <1>4 DEF ReqRecord
<1>6. ReqsType'
  BY <1>1, <1>2, <1>3, <1>5, IdleType DEF TypeOK, ReqsType
<1> QED
  BY <1>1, <1>2, <1>4, <1>6, IdleType DEF ReqRecord, Alike

PathsType == /\ copies \subseteq Copies /\ disk \subseteq Copies /\ headless \subseteq Backups
             /\ making \subseteq Copies /\ stray \subseteq Copies /\ late \subseteq Copies

\* The call goes out, after the count.
Calls(r) == /\ req'[r].item = req[r].item /\ req'[r].l0 = req[r].l0
            /\ \/ Check(r) /\ req'[r].pc = "index"
               \/ L0Check(r) /\ req'[r].pc = "l0_index"

\* A step of a batch, as far as the other requests and the ledger see it.
Deletes(r) ==
  /\ ReqsType'
  /\ \A o \in Requests \ {r} : req'[o] = req[o]
  /\ Alike(req[r], req'[r]) /\ req'[r].token = req[r].token
  /\ req[r].pc \in Working /\ req'[r].pc \in Working
  /\ UNCHANGED <<day, date, policy, auth, runs, lock, up, erasing, backup>>
  /\ index' \subseteq index /\ readable' \subseteq readable
  /\ tomb' \subseteq L1 /\ PathsType'
  /\ req'[r].pc \in Out => Calls(r)

\* A step with which the batch ends for good.
Fails(r) ==
  /\ req[r].pc \in Working /\ Record(r, "partial")
  /\ UNCHANGED <<day, date, policy, auth, up, erasing, backup>>
  /\ index' \subseteq index /\ readable' \subseteq readable
  /\ tomb' \subseteq L1 /\ PathsType'

\* A step of a data command, on its own and under the backup command.
Aside == /\ UNCHANGED <<day, date, index, readable, tomb, policy, auth, runs, lock, up, req, erasing>>
         /\ PathsType'
CopyWork == Aside /\ UNCHANGED backup
BackupWork == /\ Aside /\ backup.pc = "copy"
              /\ \/ \E c \in Copies : backup' = [backup EXCEPT !.copy = c]
                 \/ backup' = [backup EXCEPT !.pc = "install"]

Steps(r) == \/ Tombstone(r) \/ Files(r) \/ Check(r) \/ Index(r)
            \/ L0Files(r) \/ L0Check(r) \/ L0Index(r)

LEMMA GotoFacts ==
  ASSUME TypeOK, NEW r \in Requests, req[r].pc \in Working,
         NEW s \in {"check", "index", "l0_check", "l0_index", "verify"}, Goto(r, s)
  PROVE  /\ ReqsType' /\ req'[r] = [req[r] EXCEPT !.pc = s]
         /\ \A o \in Requests \ {r} : req'[o] = req[o]
         /\ Alike(req[r], req'[r]) /\ req'[r].token = req[r].token
         /\ req'[r].pc = s /\ req'[r].pc \in Working
         /\ req'[r].item = req[r].item /\ req'[r].l0 = req[r].l0
<1>1. req[r] \in ReqRecord
  BY DEF TypeOK
<1>2. [req[r] EXCEPT !.pc = s] \in ReqRecord
  BY <1>1 DEF ReqRecord, Deleting
<1>3. req' = [req EXCEPT ![r] = [req[r] EXCEPT !.pc = s]]
  BY DEF TypeOK, Goto
<1>4. /\ ReqsType' /\ req'[r] = [req[r] EXCEPT !.pc = s]
      /\ \A o \in Requests \ {r} : req'[o] = req[o]
  BY <1>2, <1>3 DEF ReqsType, TypeOK
<1> QED
  BY <1>1, <1>4 DEF ReqRecord, Alike, Working, Deleting

LEMMA RemoveFacts ==
  ASSUME TypeOK, CopiesGo \/ CopiesHalfGo, UNCHANGED <<making, stray>>
  PROVE  PathsType'
<1>1. PathsType
  BY DEF TypeOK, PathsType
<1>2. CASE CopiesGo
  BY <1>1, <1>2 DEF CopiesGo, PathsType
<1>3. CASE CopiesHalfGo
  BY <1>1, <1>3 DEF CopiesHalfGo, PathsType
<1> QED
  BY <1>2, <1>3

LEMMA RemoveFilesFacts ==
  ASSUME TypeOK, NEW r \in Requests, req[r].pc \in Working, NEW items,
         NEW next \in {"check", "l0_check"}, RemoveFiles(r, items, next)
  PROVE  Deletes(r) \/ Fails(r)
<1>1. PathsType' /\ readable' \subseteq readable /\ tomb' \subseteq L1 /\ index' = index
      /\ UNCHANGED <<day, date, policy, auth, up, erasing, backup>>
  BY RemoveFacts DEF RemoveFiles, settings, TypeOK
<1>2. CASE Goto(r, next) /\ UNCHANGED <<runs, lock>>
  BY <1>1, <1>2, GotoFacts DEF Deletes, Out
<1>3. CASE Record(r, "partial")
  BY <1>1, <1>3 DEF Fails
<1> QED
  BY <1>2, <1>3 DEF RemoveFiles

LEMMA CheckFacts ==
  ASSUME TypeOK, NEW r \in Requests, Check(r) \/ L0Check(r)
  PROVE  Deletes(r)
<1>1. PathsType /\ req[r].pc \in Working
  BY DEF TypeOK, PathsType, Check, L0Check, Working, Deleting
<1>2. UNCHANGED <<day, data, settings, runs, lock, up, erasing, backup>>
  BY DEF Check, L0Check, NothingLeft
<1>3. PathsType'
  BY <1>1, <1>2 DEF data, paths, PathsType
<1>4. \/ Check(r) /\ Goto(r, "index")
      \/ L0Check(r) /\ Goto(r, "l0_index")
  BY DEF Check, L0Check, NothingLeft
<1>5. /\ ReqsType' /\ \A o \in Requests \ {r} : req'[o] = req[o]
      /\ Alike(req[r], req'[r]) /\ req'[r].token = req[r].token
      /\ req'[r].pc \in Working /\ Calls(r)
  BY <1>1, <1>4, GotoFacts DEF Calls
<1> QED
  BY <1>1, <1>2, <1>3, <1>5 DEF data, settings, TypeOK, Deletes

LEMMA StepFacts ==
  ASSUME TypeOK, NEW r \in Requests, Steps(r)
  PROVE  Deletes(r) \/ Fails(r)
<1>1. req[r] \in ReqRecord /\ PathsType
  BY DEF TypeOK, PathsType
<1>2. CASE Tombstone(r)
  <2>1. PICK m \in req[r].l1 : req' = [req EXCEPT ![r].item = m, ![r].pc = "files"]
                               /\ tomb' = tomb \cup {m}
    BY <1>2 DEF Tombstone
  <2>2. m \in L1
    BY <1>1, <2>1 DEF ReqRecord
  <2>3. [req[r] EXCEPT !.item = m, !.pc = "files"] \in ReqRecord
    BY <1>1, <2>2 DEF ReqRecord, Deleting
  <2>4. req' = [req EXCEPT ![r] = [req[r] EXCEPT !.item = m, !.pc = "files"]]
    BY <2>1 DEF TypeOK
  <2> HIDE <2>1
  <2>5. /\ ReqsType' /\ req'[r] = [req[r] EXCEPT !.item = m, !.pc = "files"]
        /\ \A o \in Requests \ {r} : req'[o] = req[o]
    BY <2>3, <2>4 DEF ReqsType, TypeOK
  <2>6. Alike(req[r], req'[r]) /\ req'[r].token = req[r].token /\ req'[r].pc = "files"
    BY <1>1, <2>5 DEF ReqRecord, Alike
  <2>7. tomb' \subseteq L1
    BY <2>1, <2>2 DEF TypeOK
  <2>8. PathsType'
    BY <1>1, <1>2 DEF Tombstone, paths, PathsType
  <2> QED
    BY <1>2, <2>5, <2>6, <2>7, <2>8 DEF Tombstone, settings, TypeOK, Working,
       Deleting, Deletes, Out
<1>3. CASE Files(r) \/ L0Files(r)
  <2>1. req[r].pc \in Working
    BY <1>3 DEF Files, L0Files, Working, Deleting
  <2> QED
    BY <1>3, <2>1, RemoveFilesFacts DEF Files, L0Files
<1>4. CASE Check(r) \/ L0Check(r)
  BY <1>4, CheckFacts
<1>5. CASE Index(r)
  <2> DEFINE q == [req[r] EXCEPT !.l1 = @ \ {req[r].item}, !.item = None]
  <2>1. q \in ReqRecord /\ Alike(req[r], q) /\ q.token = req[r].token
    BY <1>1 DEF ReqRecord, Alike
  <2>2. req' = [req EXCEPT ![r] = [q EXCEPT !.pc = AfterL1(q)]]
    BY <1>5 DEF Index
  <2> HIDE DEF q
  <2>3. AfterL1(q) \in {"tombstone", "l0_files", "verify"}
    BY DEF AfterL1
  <2>4. [q EXCEPT !.pc = AfterL1(q)] \in ReqRecord
    BY <2>1, <2>3 DEF ReqRecord, Deleting
  <2>5. /\ ReqsType' /\ req'[r] = [q EXCEPT !.pc = AfterL1(q)]
        /\ \A o \in Requests \ {r} : req'[o] = req[o]
    BY <2>2, <2>4 DEF ReqsType, TypeOK
  <2>6. Alike(req[r], req'[r]) /\ req'[r].token = req[r].token /\ req'[r].pc = AfterL1(q)
    BY <2>1, <2>5 DEF ReqRecord, Alike
  <2>7. PathsType'
    BY <1>1, <1>5 DEF Index, paths, PathsType
  <2> QED
    BY <1>5, <2>3, <2>5, <2>6, <2>7 DEF Index, settings, TypeOK, Working,
       Deleting, Deletes, Out
<1>6. CASE L0Index(r)
  <2>1. PathsType' /\ req[r].pc \in Working
    BY <1>1, <1>6 DEF L0Index, paths, PathsType, Working, Deleting
  <2>2. /\ UNCHANGED <<day, date, policy, auth, up, erasing, backup>>
        /\ index' \subseteq index /\ readable' = readable /\ tomb' \subseteq L1
    BY <1>6 DEF L0Index, settings, TypeOK
  <2>3. CASE Goto(r, "verify") /\ UNCHANGED <<runs, lock>>
    BY <2>1, <2>2, <2>3, GotoFacts DEF Deletes, Out
  <2>4. CASE Record(r, "partial")
    BY <2>1, <2>2, <2>4 DEF Fails
  <2> QED
    BY <1>6, <2>3, <2>4 DEF L0Index
<1> QED
  BY <1>2, <1>3, <1>4, <1>5, <1>6 DEF Steps

LEMMA BatchFailsFacts ==
  ASSUME TypeOK, NEW r \in Requests, BatchFails(r)
  PROVE  Fails(r)
<1>1. PathsType
  BY DEF TypeOK, PathsType
<1>2. PathsType'
  BY <1>1 DEF BatchFails, data, paths, PathsType
<1> QED
  BY <1>2 DEF BatchFails, data, settings, TypeOK, Fails, Working

LEMMA CopyFacts ==
  ASSUME TypeOK, NEW c \in Copies, CopyBegins(c) \/ CopyRegisters(c) \/ CopyDies(c)
  PROVE  Aside
<1>1. PathsType
  BY DEF TypeOK, PathsType
<1>2. CASE CopyBegins(c)
  BY <1>1, <1>2 DEF CopyBegins, settings, Aside, PathsType
<1>3. CASE CopyRegisters(c)
  BY <1>1, <1>3 DEF CopyRegisters, settings, Aside, PathsType
<1>4. CASE CopyDies(c)
  BY <1>1, <1>4 DEF CopyDies, settings, Aside, PathsType
<1> QED
  BY <1>2, <1>3, <1>4

LEMMA BackupWorkFacts ==
  ASSUME TypeOK, BackupCopies \/ BackupCopied
  PROVE  BackupWork
<1>1. PathsType
  BY DEF TypeOK, PathsType
<1>2. CASE UNCHANGED <<day, data, settings, runs, lock, up, req, erasing>>
  <2>1. Aside
    BY <1>1, <1>2 DEF data, settings, paths, Aside, PathsType
  <2> QED
    BY <1>2, <2>1, CopyFacts DEF BackupCopies, BackupCopied, BackupWork
<1>3. CASE ~UNCHANGED <<day, data, settings, runs, lock, up, req, erasing>>
  <2>1. PICK c \in Copies : CopyBegins(c) /\ backup' = [backup EXCEPT !.copy = c]
    BY <1>3 DEF BackupCopies, BackupCopied
  <2> QED
    BY <1>3, <2>1, CopyFacts DEF BackupCopies, BackupCopied, BackupWork
<1> QED
  BY <1>2, <1>3

\* The steps of the system, as the lemmas below take them one by one.
LEMMA StepKinds ==
  ASSUME TypeOK, [Next]_vars
  PROVE  \/ NewDay
         \/ \E l0, l1 \in Lengths \cup {None} : UpdatePolicy(l0, l1)
         \/ \E target \in {"authorized", "revoked"} : Transition(target)
         \/ \E m \in L1 : Edit(m)
         \/ EraseBegin \/ EraseEnd \/ Crash \/ Start
         \/ \E r \in Requests : Begin(r) \/ Plan(r) \/ PlanFails(r)
                                \/ Deletes(r) \/ Fails(r) \/ Verify(r) \/ BackupAsks(r)
         \/ CopyWork \/ BackupWork
         \/ BackupBegin \/ BackupHears \/ BackupGivesUp \/ BackupStops
         \/ BackupInstalls \/ BackupDies
         \/ \E k \in DOMAIN runs : LeasePasses(k)
         \/ UNCHANGED vars
<1>1. ASSUME NEW r \in Requests, Maintenance(r)
      PROVE  \/ Begin(r) \/ Plan(r) \/ PlanFails(r)
             \/ Deletes(r) \/ Fails(r) \/ Verify(r)
  BY <1>1, StepFacts, BatchFailsFacts DEF Maintenance, Steps
<1>2. ASSUME NEW c \in Copies,
             \/ CopyBegins(c) /\ UNCHANGED backup
             \/ CopyRegisters(c) \/ CopyDies(c)
      PROVE  CopyWork
  <2>1. UNCHANGED backup
    BY <1>2 DEF CopyRegisters, CopyDies
  <2> QED
    BY <1>2, <2>1, CopyFacts DEF CopyWork
<1>3. BackupCopies \/ BackupCopied => BackupWork
  BY BackupWorkFacts
<1> QED
  BY <1>1, <1>2, <1>3 DEF Next, User, Backup

LEMMA RecordFacts ==
  ASSUME TypeOK, NEW r \in Requests, req[r].run \in DOMAIN runs,
         NEW status \in {"draining", "drained", "partial"}, Record(r, status)
  PROVE  /\ Answer(r, status) \/ Answer(r, "error")
         /\ runs' \in Seq(RunRecord) /\ DOMAIN runs' = DOMAIN runs
         /\ Len(runs') = Len(runs)
         /\ \A k \in DOMAIN runs :
              /\ runs'[k].cut0 = runs[k].cut0 /\ runs'[k].cut1 = runs[k].cut1
              /\ Live(k)' => Live(k)
              /\ \/ runs'[k].status = runs[k].status
                 \/ k = req[r].run /\ runs'[k].status = status
<1> DEFINE k0 == req[r].run
           row == [runs[k0] EXCEPT !.status = status, !.live = FALSE]
<1>1. runs[k0] \in RunRecord
  BY DEF TypeOK
<1>2. CASE Live(k0)
  <2>1. runs' = [runs EXCEPT ![k0] = row] /\ Answer(r, status)
    BY <1>2 DEF Record
  <2>2. row \in RunRecord
    BY <1>1 DEF RunRecord
  <2>3. row.cut0 = runs[k0].cut0 /\ row.cut1 = runs[k0].cut1 /\ row.status = status /\ row.live = FALSE
    BY <1>1 DEF RunRecord
  <2>7. k0 \in DOMAIN runs
    OBVIOUS
  <2> HIDE DEF row, k0
  <2>4. runs' \in Seq(RunRecord) /\ DOMAIN runs' = DOMAIN runs /\ Len(runs') = Len(runs)
    BY <2>1, <2>2, <2>7 DEF TypeOK
  <2>5. \A k \in DOMAIN runs : runs'[k] = IF k = k0 THEN row ELSE runs[k]
    BY <2>1 DEF TypeOK
  <2>6. k0 = req[r].run
    BY DEF k0
  <2> QED
    BY <2>1, <2>3, <2>4, <2>5, <2>6 DEF Live
<1>3. CASE ~Live(k0)
  BY <1>3 DEF Record, Live, TypeOK
<1> QED
  BY <1>2, <1>3

LEMMA PlanFacts ==
  ASSUME TypeOK, NEW r \in Requests, Plan(r)
  PROVE  \/ Answer(r, "partial") /\ UNCHANGED runs
         \/ /\ ReqsType' /\ Unchanged(r) /\ LeaseFree /\ UNCHANGED lock
            /\ \A o \in Requests \ {r} : req'[o] = req[o]
            /\ req'[r].pc \in Working /\ req'[r].run = Len(runs) + 1
            /\ req'[r].policy = req[r].policy /\ req'[r].token = req[r].token
            /\ req'[r].cut0 = req[r].cut0 /\ req'[r].cut1 = req[r].cut1
            /\ \E row \in RunRecord :
                 /\ runs' = Append(runs, row) /\ row.status = "draining"
                 /\ row.policy = policy.rev /\ row.auth = auth.rev
                 /\ row.cut0 = req[r].cut0 /\ row.cut1 = req[r].cut1
<1>1. req[r] \in ReqRecord
  BY DEF TypeOK
<1>2. CASE Unchanged(r) /\ LeaseFree
  <2>1. PICK b0 \in Batch(Eligible(L0, req[r].cut0), BatchL0),
             b1 \in Batch(Eligible(L1, req[r].cut1), BatchL1) :
          /\ runs' = Append(runs, [policy |-> policy.rev, auth |-> auth.rev,
                 cut0 |-> req[r].cut0, cut1 |-> req[r].cut1,
                 status |-> "draining", live |-> TRUE])
          /\ LET q == [req[r] EXCEPT !.l0 = b0, !.l1 = b1, !.run = Len(runs) + 1]
             IN req' = [req EXCEPT ![r] = [q EXCEPT !.pc = AfterL1(q)]]
          /\ UNCHANGED lock
    BY <1>2 DEF Plan
  <2> DEFINE q == [req[r] EXCEPT !.l0 = b0, !.l1 = b1, !.run = Len(runs) + 1]
             row == [policy |-> policy.rev, auth |-> auth.rev,
                     cut0 |-> req[r].cut0, cut1 |-> req[r].cut1,
                     status |-> "draining", live |-> TRUE]
  <2>2. b0 \subseteq L0 /\ b1 \subseteq L1
    BY DEF Batch, Eligible, kSubset
  <2>3. Len(runs) + 1 \in Nat
    BY DEF TypeOK
  <2>4. /\ q \in ReqRecord /\ q.run = Len(runs) + 1
        /\ q.policy = req[r].policy /\ q.token = req[r].token
        /\ q.cut0 = req[r].cut0 /\ q.cut1 = req[r].cut1
    BY <1>1, <2>2, <2>3 DEF ReqRecord
  <2>5. row \in RunRecord
    BY <1>1 DEF RunRecord, ReqRecord, TypeOK
  <2>6. req' = [req EXCEPT ![r] = [q EXCEPT !.pc = AfterL1(q)]] /\ runs' = Append(runs, row)
    BY <2>1
  <2>7. row.status = "draining" /\ row.policy = policy.rev /\ row.auth = auth.rev
        /\ row.cut0 = req[r].cut0 /\ row.cut1 = req[r].cut1
    OBVIOUS
  <2> HIDE DEF q, row
  <2>8. AfterL1(q) \in {"tombstone", "l0_files", "verify"}
    BY DEF AfterL1
  <2>9. [q EXCEPT !.pc = AfterL1(q)] \in ReqRecord
    BY <2>4, <2>8 DEF ReqRecord, Deleting
  <2>10. /\ ReqsType' /\ req'[r] = [q EXCEPT !.pc = AfterL1(q)]
         /\ \A o \in Requests \ {r} : req'[o] = req[o]
    BY <2>6, <2>9 DEF ReqsType, TypeOK
  <2>11. /\ req'[r].pc = AfterL1(q) /\ req'[r].run = q.run /\ req'[r].policy = q.policy
         /\ req'[r].token = q.token /\ req'[r].cut0 = q.cut0 /\ req'[r].cut1 = q.cut1
    BY <2>4, <2>10 DEF ReqRecord
  <2> QED
    BY <1>2, <2>1, <2>4, <2>5, <2>6, <2>7, <2>8, <2>10, <2>11 DEF Working,
       Deleting
<1>3. CASE ~(Unchanged(r) /\ LeaseFree)
  BY <1>3 DEF Plan
<1> QED
  BY <1>2, <1>3

LEMMA BeginFacts ==
  ASSUME TypeOK, NEW r \in Requests, Begin(r)
  PROVE  \/ /\ \E answer \in Answers \ {"drained"} : Reply(r, answer)
            /\ lock' = lock \/ (Takeable /\ lock' = Free)
         \/ /\ ReqsType' /\ \A o \in Requests \ {r} : req'[o] = req[o]
            /\ req'[r].pc = "plan" /\ req'[r].policy = policy.rev
            /\ req'[r].cut0 = Cutoff(policy.l0) /\ req'[r].cut1 = Cutoff(policy.l1)
            /\ \/ req'[r].token = "nested" /\ lock' = lock
               \/ Takeable /\ req'[r].token = "own" /\ lock' = Taken(r)
<1>1. req[r] \in ReqRecord
  BY DEF TypeOK
<1>2. Cutoff(policy.l0) \in Cut /\ Cutoff(policy.l1) \in Cut
  <2>1. day \in Nat /\ policy.l0 \in Nat \cup {None} /\ policy.l1 \in Nat \cup {None}
    BY RetentionAssumption DEF TypeOK
  <2> QED
    BY <2>1 DEF Cutoff, Cut
<1>3. CASE /\ Holds(r) \/ Takeable
           /\ lock' = IF Holds(r) THEN lock ELSE Taken(r)
           /\ req' = [req EXCEPT ![r] = [@ EXCEPT !.pc = "plan",
                        !.token = IF Holds(r) THEN "nested" ELSE "own",
                        !.policy = policy.rev, !.auth = auth.rev,
                        !.cut0 = Cutoff(policy.l0), !.cut1 = Cutoff(policy.l1)]]
  <2> DEFINE tok == IF Holds(r) THEN "nested" ELSE "own"
             q == [req[r] EXCEPT !.pc = "plan", !.token = tok,
                        !.policy = policy.rev, !.auth = auth.rev,
                        !.cut0 = Cutoff(policy.l0), !.cut1 = Cutoff(policy.l1)]
  <2>1. policy.rev \in Nat /\ auth.rev \in Nat
    BY DEF TypeOK
  <2>2. tok \in {"nested", "own"}
    OBVIOUS
  <2>3. req' = [req EXCEPT ![r] = q]
    BY <1>3 DEF TypeOK
  <2>4. \/ tok = "nested" /\ lock' = lock
        \/ Takeable /\ tok = "own" /\ lock' = Taken(r)
    BY <1>3
  <2> HIDE DEF tok
  <2>5. /\ q \in ReqRecord /\ q.pc = "plan" /\ q.policy = policy.rev /\ q.token = tok
        /\ q.cut0 = Cutoff(policy.l0) /\ q.cut1 = Cutoff(policy.l1)
    BY <1>1, <1>2, <2>1, <2>2 DEF ReqRecord
  <2> HIDE DEF q
  <2>6. ReqsType' /\ req'[r] = q /\ \A o \in Requests \ {r} : req'[o] = req[o]
    BY <2>3, <2>5 DEF ReqsType, TypeOK
  <2> QED
    BY <2>4, <2>5, <2>6
<1>4. {"partial", "not_applicable", "disabled"} \subseteq Answers \ {"drained"}
  BY DEF Answers
<1>5. CASE \/ Reply(r, "partial") /\ UNCHANGED lock
           \/ /\ Holds(r) \/ Takeable
              /\ Reply(r, IF {policy.l0, policy.l1} \ {None} = {} THEN "not_applicable" ELSE "disabled")
              /\ lock' = IF Holds(r) THEN lock ELSE Free
  <2>1. \E answer \in {"partial", "not_applicable", "disabled"} : Reply(r, answer)
    <3>1. CASE Reply(r, "partial")
      BY <3>1
    <3>2. CASE Reply(r, IF {policy.l0, policy.l1} \ {None} = {} THEN "not_applicable" ELSE "disabled")
      <4>1. CASE {policy.l0, policy.l1} \ {None} = {}
        BY <3>2, <4>1
      <4>2. CASE {policy.l0, policy.l1} \ {None} # {}
        BY <3>2, <4>2
      <4> QED
        BY <4>1, <4>2
    <3> QED
      BY <1>5, <3>1, <3>2
  <2>2. lock' = lock \/ (Takeable /\ lock' = Free)
    <3>1. CASE UNCHANGED lock
      BY <3>1
    <3>2. CASE (Holds(r) \/ Takeable) /\ lock' = IF Holds(r) THEN lock ELSE Free
      BY <3>2
    <3> QED
      BY <1>5, <3>1, <3>2
  <2> QED
    BY <1>4, <2>1, <2>2
<1> QED
  BY <1>3, <1>5 DEF Begin

LEMMA EndsFacts ==
  ASSUME TypeOK, GatewayEnds
  PROVE  /\ ReqsType' /\ \A o \in Requests : Fresh(req'[o])
         /\ up' = FALSE /\ erasing' = FALSE
<1>1. [Idle EXCEPT !.pc = "answered", !.answer = "error"] \in ReqRecord
      /\ Fresh([Idle EXCEPT !.pc = "answered", !.answer = "error"])
  BY DEF Idle, ReqRecord, Answers, Cut, Fresh
<1> QED
  BY <1>1, IdleType DEF GatewayEnds, ReqsType

LEMMA UnawaitedFacts ==
  ASSUME TypeOK, req' = Unawaited
  PROVE  ReqsType' /\ \A o \in Requests : (Fresh(req'[o]) /\ req'[o].pc = "idle") \/ req'[o] = req[o]
BY IdleType DEF Unawaited, ReqsType, TypeOK

LEMMA BackupBeginFacts ==
  ASSUME TypeOK, BackupBegin
  PROVE  /\ ReqsType'
         /\ \A o \in Requests : /\ Alike(req[o], req'[o])
                                /\ req'[o].pc = req[o].pc /\ req'[o].answer = req[o].answer
                                /\ req'[o].item = req[o].item /\ req'[o].l0 = req[o].l0
                                /\ req'[o].token = req[o].token \/ req'[o].token = "none"
<1> DEFINE tok(o) == IF req[o].token = "backup" THEN "none" ELSE req[o].token
<1>1. \A o \in Requests : req[o] \in ReqRecord /\ tok(o) \in {"none", req[o].token}
  BY DEF TypeOK
<1>2. req' = [o \in Requests |-> [req[o] EXCEPT !.token = tok(o)]]
  BY DEF BackupBegin
<1> HIDE DEF tok
<1>3. ASSUME NEW o \in Requests
      PROVE  /\ [req[o] EXCEPT !.token = tok(o)] \in ReqRecord
             /\ Alike(req[o], req'[o])
             /\ req'[o].pc = req[o].pc /\ req'[o].answer = req[o].answer
             /\ req'[o].item = req[o].item /\ req'[o].l0 = req[o].l0
             /\ req'[o].token = req[o].token \/ req'[o].token = "none"
  <2>1. req[o] \in ReqRecord /\ tok(o) \in {"none", req[o].token}
    BY <1>1
  <2>2. req'[o] = [req[o] EXCEPT !.token = tok(o)]
    BY <1>2
  <2> QED
    BY <2>1, <2>2 DEF ReqRecord, Alike
<1> QED
  BY <1>2, <1>3 DEF ReqsType

LEMMA AsksFacts ==
  ASSUME TypeOK, NEW r \in Requests, BackupAsks(r)
  PROVE  /\ ReqsType' /\ \A o \in Requests \ {r} : req'[o] = req[o]
         /\ Alike(req[r], req'[r]) /\ req'[r].pc = "sent" /\ req'[r].token = "backup"
<1>1. req[r] \in ReqRecord
  BY DEF TypeOK
<1>2. req' = [req EXCEPT ![r] = [req[r] EXCEPT !.pc = "sent", !.token = "backup"]]
  BY DEF BackupAsks, TypeOK
<1>3. [req[r] EXCEPT !.pc = "sent", !.token = "backup"] \in ReqRecord
  BY <1>1 DEF ReqRecord
<1>4. /\ ReqsType' /\ req'[r] = [req[r] EXCEPT !.pc = "sent", !.token = "backup"]
      /\ \A o \in Requests \ {r} : req'[o] = req[o]
  BY <1>2, <1>3 DEF ReqsType, TypeOK
<1> QED
  BY <1>1, <1>4 DEF ReqRecord, Alike

-----------------------------------------------------------------------------
(* The parts of TypeOK. *)

LeaseRecord == [owner : Requests \cup {"erasure", "backup", None}, stale : BOOLEAN]
CommandRecord ==
  [pc : {"idle", "drain", "wait", "stop", "copy", "install"}, req : Requests \cup {None},
   frozen : Bindings \cup {None}, proof : Bindings \cup {None},
   copy : Copies \cup {None}]

RestType ==
  /\ day \in Nat
  /\ date \in [Items -> Nat]
  /\ index \subseteq Items /\ readable \subseteq Items
  /\ tomb \subseteq L1
  /\ PathsType /\ up \in BOOLEAN /\ erasing \in BOOLEAN
  /\ policy \in [rev : Nat, l0 : Lengths \cup {None}, l1 : Lengths \cup {None}]
  /\ auth \in [rev : Nat, status : {"disabled", "authorized", "revoked"}, policy : Nat]

CommandType == /\ backup \in CommandRecord
               /\ backup.pc = "wait" => backup.req \in Requests

Moves ==
  \A o \in Requests :
    req'[o].pc \in Working => req[o].pc \in Working /\ Alike(req[o], req'[o])

Started(r) ==
  /\ req'[r].run = Len(runs) + 1
  /\ req'[r].cut0 = req[r].cut0 /\ req'[r].cut1 = req[r].cut1
  /\ \A o \in Requests \ {r} : req'[o] = req[o]
  /\ \E row \in RunRecord : /\ runs' = Append(runs, row)
                            /\ row.cut0 = req[r].cut0 /\ row.cut1 = req[r].cut1

RunsGrow ==
  /\ runs' \in Seq(RunRecord)
  /\ DOMAIN runs \subseteq DOMAIN runs'
  /\ \A k \in DOMAIN runs : runs'[k].cut0 = runs[k].cut0 /\ runs'[k].cut1 = runs[k].cut1
  /\ \A k \in DOMAIN runs' \ DOMAIN runs : \E r \in Requests :
       runs'[k].cut0 = req[r].cut0 /\ runs'[k].cut1 = req[r].cut1

LEMMA Leases ==
  ASSUME TypeOK
  PROVE  /\ Free \in LeaseRecord
         /\ \A op \in Requests \cup {"erasure", "backup"} :
              Taken(op) \in LeaseRecord /\ Released(op) \in LeaseRecord
         /\ \A ops : Abandoned(ops) \in LeaseRecord
BY DEF Free, Taken, Released, Abandoned, LeaseRecord, TypeOK

LEMMA Parts == TypeOK => RestType /\ lock \in LeaseRecord /\ CommandType
BY DEF TypeOK, RestType, PathsType, LeaseRecord, CommandType, CommandRecord

LEMMA AnswerFacts ==
  ASSUME TypeOK, NEW r \in Requests, NEW answer \in Answers, Answer(r, answer)
  PROVE  ReqsType' /\ Moves /\ lock' = Released(r)
BY ReplyFacts DEF Answer, Moves, Alike, Fresh, Working, Deleting

LEMMA NextReqs == TypeOK /\ [Next]_vars => ReqsType' /\ (Moves \/ \E s \in Requests : Started(s))
<1> SUFFICES ASSUME TypeOK, [Next]_vars PROVE ReqsType' /\ (Moves \/ \E s \in Requests : Started(s))
  OBVIOUS
<1>1. CASE NewDay
  BY <1>1 DEF NewDay, data, settings, ReqsType, Moves, Alike, TypeOK
<1>2. ASSUME NEW l0 \in Lengths \cup {None}, NEW l1 \in Lengths \cup {None}, UpdatePolicy(l0, l1) PROVE ReqsType' /\ (Moves \/ \E s \in Requests : Started(s))
  BY <1>2 DEF UpdatePolicy, data, ReqsType, Moves, Alike, TypeOK
<1>3. ASSUME NEW target \in {"authorized", "revoked"}, Transition(target) PROVE ReqsType' /\ (Moves \/ \E s \in Requests : Started(s))
  BY <1>3 DEF Transition, data, ReqsType, Moves, Alike, TypeOK
<1>4. ASSUME NEW m \in L1, Edit(m) PROVE ReqsType' /\ (Moves \/ \E s \in Requests : Started(s))
  BY <1>4 DEF Edit, settings, ReqsType, Moves, Alike, TypeOK
<1>5. CASE EraseBegin
  BY <1>5 DEF EraseBegin, data, settings, ReqsType, Moves, Alike, TypeOK
<1>6. CASE EraseEnd
  BY <1>6 DEF EraseEnd, data, settings, ReqsType, Moves, Alike, TypeOK
<1>7. CASE Crash
  BY <1>7, EndsFacts DEF Crash, Moves, Fresh, Working, Deleting
<1>8. CASE Start
  BY <1>8 DEF Start, data, settings, ReqsType, Moves, Alike, TypeOK
<1>9. ASSUME NEW r \in Requests, Begin(r) PROVE ReqsType' /\ (Moves \/ \E s \in Requests : Started(s))
  <2>1. CASE \E answer \in Answers \ {"drained"} : Reply(r, answer)
    BY <2>1, ReplyFacts DEF Moves, Alike, Fresh, Working, Deleting
  <2>2. CASE ~\E answer \in Answers \ {"drained"} : Reply(r, answer)
    BY <1>9, <2>2, BeginFacts DEF Moves, Alike, Working, Deleting
  <2> QED
    BY <2>1, <2>2
<1>10. ASSUME NEW r \in Requests, Plan(r) PROVE ReqsType' /\ (Moves \/ \E s \in Requests : Started(s))
  <2>1. CASE Answer(r, "partial")
    BY <2>1, AnswerFacts DEF Answers
  <2>2. CASE ~Answer(r, "partial")
    BY <1>10, <2>2, PlanFacts DEF Started
  <2> QED
    BY <2>1, <2>2
<1>11. ASSUME NEW r \in Requests, PlanFails(r) PROVE ReqsType' /\ (Moves \/ \E s \in Requests : Started(s))
  BY <1>11, AnswerFacts DEF PlanFails, Answers
<1>12. ASSUME NEW r \in Requests, Deletes(r) PROVE ReqsType' /\ (Moves \/ \E s \in Requests : Started(s))
  BY <1>12 DEF Deletes, Moves, Alike
<1>13. ASSUME NEW r \in Requests, Fails(r) PROVE ReqsType' /\ (Moves \/ \E s \in Requests : Started(s))
  <2>1. req[r].run \in DOMAIN runs /\ Record(r, "partial")
    BY <1>13 DEF Fails, TypeOK, Working
  <2> QED
    BY <2>1, RecordFacts, AnswerFacts DEF Answers
<1>14. CASE CopyWork
  BY <1>14 DEF CopyWork, Aside, ReqsType, Moves, Alike, TypeOK
<1>15. ASSUME NEW r \in Requests, Verify(r) PROVE ReqsType' /\ (Moves \/ \E s \in Requests : Started(s))
  <2>1. req[r].run \in DOMAIN runs
    BY <1>15 DEF Verify, TypeOK
  <2>2. \E status \in {"draining", "drained", "partial"} : Record(r, status)
    BY <1>15 DEF Verify
  <2> QED
    BY <2>1, <2>2, RecordFacts, AnswerFacts DEF Answers
<1>16. CASE BackupBegin
  BY <1>16, BackupBeginFacts DEF Moves
<1>17. CASE BackupHears
  BY <1>17, UnawaitedFacts DEF BackupHears, Moves, Alike, Working, Deleting
<1>18. CASE BackupGivesUp
  BY <1>18, UnawaitedFacts DEF BackupGivesUp, Moves, Alike, Working, Deleting
<1>19. CASE BackupStops
  BY <1>19, EndsFacts DEF BackupStops, Moves, Fresh, Working, Deleting
<1>20. CASE BackupWork
  BY <1>20 DEF BackupWork, Aside, ReqsType, Moves, Alike, TypeOK
<1>21. CASE BackupInstalls
  BY <1>21 DEF BackupInstalls, data, settings, ReqsType, Moves, Alike, TypeOK
<1>22. CASE BackupDies
  BY <1>22, UnawaitedFacts DEF BackupDies, Moves, Alike, Working, Deleting
<1>23. ASSUME NEW r \in Requests, BackupAsks(r) PROVE ReqsType' /\ (Moves \/ \E s \in Requests : Started(s))
  BY <1>23, AsksFacts DEF Moves, Alike, Working, Deleting
<1>24. ASSUME NEW k \in DOMAIN runs, LeasePasses(k) PROVE ReqsType' /\ (Moves \/ \E s \in Requests : Started(s))
  BY <1>24 DEF LeasePasses, data, settings, ReqsType, Moves, Alike, TypeOK
<1>25. CASE UNCHANGED vars
  BY <1>25 DEF vars, ReqsType, Moves, Alike, TypeOK
<1> QED
  BY <1>1, <1>2, <1>3, <1>4, <1>5, <1>6, <1>7, <1>8, <1>9, <1>10, <1>11, <1>12,
     <1>13, <1>14, <1>15, <1>16, <1>17, <1>18, <1>19, <1>20, <1>21, <1>22, <1>23,
     <1>24, <1>25, StepKinds

LEMMA NextRuns == TypeOK /\ [Next]_vars => RunsGrow
<1> SUFFICES ASSUME TypeOK, [Next]_vars PROVE RunsGrow
  OBVIOUS
<1>1. CASE NewDay
  BY <1>1 DEF NewDay, settings, RunsGrow, TypeOK
<1>2. ASSUME NEW l0 \in Lengths \cup {None}, NEW l1 \in Lengths \cup {None}, UpdatePolicy(l0, l1) PROVE RunsGrow
  BY <1>2 DEF UpdatePolicy, RunsGrow, TypeOK
<1>3. ASSUME NEW target \in {"authorized", "revoked"}, Transition(target) PROVE RunsGrow
  BY <1>3 DEF Transition, RunsGrow, TypeOK
<1>4. ASSUME NEW m \in L1, Edit(m) PROVE RunsGrow
  BY <1>4 DEF Edit, settings, RunsGrow, TypeOK
<1>5. CASE EraseBegin
  BY <1>5 DEF EraseBegin, settings, RunsGrow, TypeOK
<1>6. CASE EraseEnd
  BY <1>6 DEF EraseEnd, settings, RunsGrow, TypeOK
<1>7. CASE Crash
  BY <1>7 DEF Crash, settings, RunsGrow, TypeOK
<1>8. CASE Start
  BY <1>8 DEF Start, settings, RunsGrow, TypeOK
<1>9. ASSUME NEW r \in Requests, Begin(r) PROVE RunsGrow
  BY <1>9 DEF Begin, settings, RunsGrow, TypeOK
<1>10. ASSUME NEW r \in Requests, Plan(r) PROVE RunsGrow
  <2>1. CASE UNCHANGED runs
    BY <2>1 DEF RunsGrow, TypeOK
  <2>2. CASE \E row \in RunRecord : /\ runs' = Append(runs, row)
                                   /\ row.cut0 = req[r].cut0 /\ row.cut1 = req[r].cut1
    <3>1. PICK row \in RunRecord : /\ runs' = Append(runs, row)
                                  /\ row.cut0 = req[r].cut0 /\ row.cut1 = req[r].cut1
      BY <2>2
    <3>2. /\ runs' \in Seq(RunRecord) /\ DOMAIN runs' = DOMAIN runs \cup {Len(runs) + 1}
          /\ \A k \in DOMAIN runs : runs'[k] = runs[k]
          /\ runs'[Len(runs) + 1] = row
      BY <3>1 DEF TypeOK
    <3> QED
      BY <3>1, <3>2 DEF RunsGrow
  <2> QED
    BY <1>10, <2>1, <2>2, PlanFacts
<1>11. ASSUME NEW r \in Requests, PlanFails(r) PROVE RunsGrow
  BY <1>11 DEF PlanFails, settings, RunsGrow, TypeOK
<1>12. ASSUME NEW r \in Requests, Deletes(r) PROVE RunsGrow
  BY <1>12 DEF Deletes, RunsGrow, TypeOK
<1>13. ASSUME NEW r \in Requests, Fails(r) PROVE RunsGrow
  <2>1. req[r].run \in DOMAIN runs /\ Record(r, "partial")
    BY <1>13 DEF Fails, TypeOK, Working
  <2> QED
    BY <2>1, RecordFacts DEF RunsGrow
<1>14. CASE CopyWork
  BY <1>14 DEF CopyWork, Aside, RunsGrow, TypeOK
<1>15. ASSUME NEW r \in Requests, Verify(r) PROVE RunsGrow
  <2>1. req[r].run \in DOMAIN runs
    BY <1>15 DEF Verify, TypeOK
  <2>2. \E status \in {"draining", "drained", "partial"} : Record(r, status)
    BY <1>15 DEF Verify
  <2> QED
    BY <2>1, <2>2, RecordFacts DEF RunsGrow
<1>16. CASE BackupBegin
  BY <1>16 DEF BackupBegin, settings, RunsGrow, TypeOK
<1>17. CASE BackupHears
  BY <1>17 DEF BackupHears, settings, RunsGrow, TypeOK
<1>18. CASE BackupGivesUp
  BY <1>18 DEF BackupGivesUp, settings, RunsGrow, TypeOK
<1>19. CASE BackupStops
  BY <1>19 DEF BackupStops, settings, RunsGrow, TypeOK
<1>20. CASE BackupWork
  BY <1>20 DEF BackupWork, Aside, RunsGrow, TypeOK
<1>21. CASE BackupInstalls
  BY <1>21 DEF BackupInstalls, settings, RunsGrow, TypeOK
<1>22. CASE BackupDies
  BY <1>22 DEF BackupDies, settings, RunsGrow, TypeOK
<1>23. ASSUME NEW r \in Requests, BackupAsks(r) PROVE RunsGrow
  BY <1>23 DEF BackupAsks, settings, RunsGrow, TypeOK
<1>24. ASSUME NEW k \in DOMAIN runs, LeasePasses(k) PROVE RunsGrow
  <2> DEFINE row == [runs[k] EXCEPT !.live = FALSE]
  <2>1. runs[k] \in RunRecord
    BY DEF TypeOK
  <2>2. row \in RunRecord /\ row.cut0 = runs[k].cut0 /\ row.cut1 = runs[k].cut1
    BY <2>1 DEF RunRecord
  <2>3. runs' = [runs EXCEPT ![k] = row]
    BY <1>24 DEF LeasePasses
  <2> HIDE DEF row
  <2> QED
    BY <2>2, <2>3 DEF RunsGrow, TypeOK
<1>25. CASE UNCHANGED vars
  BY <1>25 DEF vars, RunsGrow, TypeOK
<1> QED
  BY <1>1, <1>2, <1>3, <1>4, <1>5, <1>6, <1>7, <1>8, <1>9, <1>10, <1>11, <1>12,
     <1>13, <1>14, <1>15, <1>16, <1>17, <1>18, <1>19, <1>20, <1>21, <1>22, <1>23,
     <1>24, <1>25, StepKinds

LEMMA NextRest == TypeOK /\ [Next]_vars => (RestType /\ lock \in LeaseRecord /\ CommandType)'
<1> SUFFICES ASSUME TypeOK, [Next]_vars PROVE (RestType /\ lock \in LeaseRecord /\ CommandType)'
  OBVIOUS
<1>1. CASE NewDay
  <2>1. lock' \in LeaseRecord
    BY <1>1, Parts DEF NewDay
  <2>2. CommandType'
    BY <1>1, Parts DEF NewDay, CommandType
  <2>3. RestType'
    BY <1>1, Parts DEF NewDay, data, paths, settings, RestType, PathsType
  <2> QED
    BY <2>1, <2>2, <2>3
<1>2. ASSUME NEW l0 \in Lengths \cup {None}, NEW l1 \in Lengths \cup {None}, UpdatePolicy(l0, l1) PROVE (RestType /\ lock \in LeaseRecord /\ CommandType)'
  <2>1. lock' \in LeaseRecord
    BY <1>2, Parts DEF UpdatePolicy
  <2>2. CommandType'
    BY <1>2, Parts DEF UpdatePolicy, CommandType
  <2>3. RestType'
    BY <1>2, Parts DEF UpdatePolicy, data, paths, RestType, PathsType
  <2> QED
    BY <2>1, <2>2, <2>3
<1>3. ASSUME NEW target \in {"authorized", "revoked"}, Transition(target) PROVE (RestType /\ lock \in LeaseRecord /\ CommandType)'
  <2>1. lock' \in LeaseRecord
    BY <1>3, Parts DEF Transition
  <2>2. CommandType'
    BY <1>3, Parts DEF Transition, CommandType
  <2>3. RestType'
    BY <1>3, Parts DEF Transition, data, paths, RestType, PathsType
  <2> QED
    BY <2>1, <2>2, <2>3
<1>4. ASSUME NEW m \in L1, Edit(m) PROVE (RestType /\ lock \in LeaseRecord /\ CommandType)'
  <2>1. lock' \in LeaseRecord
    BY <1>4, Parts DEF Edit
  <2>2. CommandType'
    BY <1>4, Parts DEF Edit, CommandType
  <2>3. RestType'
    BY <1>4, Parts DEF Edit, paths, settings, RestType, PathsType
  <2> QED
    BY <2>1, <2>2, <2>3
<1>5. CASE EraseBegin
  <2>1. lock' \in LeaseRecord
    BY <1>5, Leases DEF EraseBegin
  <2>2. CommandType'
    BY <1>5, Parts DEF EraseBegin, CommandType
  <2>3. RestType'
    BY <1>5, Parts DEF EraseBegin, data, paths, settings, RestType, PathsType
  <2> QED
    BY <2>1, <2>2, <2>3
<1>6. CASE EraseEnd
  <2>1. lock' \in LeaseRecord
    BY <1>6, Leases DEF EraseEnd
  <2>2. CommandType'
    BY <1>6, Parts DEF EraseEnd, CommandType
  <2>3. RestType'
    BY <1>6, Parts DEF EraseEnd, data, paths, settings, RestType, PathsType
  <2> QED
    BY <2>1, <2>2, <2>3
<1>7. CASE Crash
  <2>1. lock' \in LeaseRecord
    BY <1>7, Leases DEF Crash
  <2>2. CommandType'
    BY <1>7, Parts DEF Crash, CommandType
  <2>3. RestType'
    BY <1>7, Parts DEF Crash, GatewayEnds, data, paths, settings, RestType, PathsType
  <2> QED
    BY <2>1, <2>2, <2>3
<1>8. CASE Start
  <2>1. lock' \in LeaseRecord
    BY <1>8, Parts DEF Start
  <2>2. CommandType'
    BY <1>8, Parts DEF Start, CommandType
  <2>3. RestType'
    BY <1>8, Parts DEF Start, data, paths, settings, RestType, PathsType
  <2> QED
    BY <2>1, <2>2, <2>3
<1>9. ASSUME NEW r \in Requests, Begin(r) PROVE (RestType /\ lock \in LeaseRecord /\ CommandType)'
  <2>1. lock' \in LeaseRecord
    <3>1. lock' = lock \/ lock' = Free \/ lock' = Taken(r)
      BY <1>9, BeginFacts
    <3> QED
      BY <3>1, Leases, Parts
  <2>2. CommandType'
    BY <1>9, Parts DEF Begin, CommandType
  <2>3. RestType'
    BY <1>9, Parts DEF Begin, data, paths, settings, RestType, PathsType
  <2> QED
    BY <2>1, <2>2, <2>3
<1>10. ASSUME NEW r \in Requests, Plan(r) PROVE (RestType /\ lock \in LeaseRecord /\ CommandType)'
  <2>1. lock' \in LeaseRecord
    <3>1. Answer(r, "partial") \/ UNCHANGED lock
      BY <1>10, PlanFacts
    <3> QED
      BY <3>1, Leases, Parts DEF Answer
  <2>2. CommandType'
    BY <1>10, Parts DEF Plan, CommandType
  <2>3. RestType'
    BY <1>10, Parts DEF Plan, data, paths, settings, RestType, PathsType
  <2> QED
    BY <2>1, <2>2, <2>3
<1>11. ASSUME NEW r \in Requests, PlanFails(r) PROVE (RestType /\ lock \in LeaseRecord /\ CommandType)'
  <2>1. lock' \in LeaseRecord
    BY <1>11, Leases DEF PlanFails, Answer
  <2>2. CommandType'
    BY <1>11, Parts DEF PlanFails, CommandType
  <2>3. RestType'
    BY <1>11, Parts DEF PlanFails, data, paths, settings, RestType, PathsType
  <2> QED
    BY <2>1, <2>2, <2>3
<1>12. ASSUME NEW r \in Requests, Deletes(r) PROVE (RestType /\ lock \in LeaseRecord /\ CommandType)'
  <2>1. lock' \in LeaseRecord
    BY <1>12, Parts DEF Deletes
  <2>2. CommandType'
    BY <1>12, Parts DEF Deletes, CommandType
  <2>3. RestType'
    BY <1>12, Parts DEF Deletes, RestType
  <2> QED
    BY <2>1, <2>2, <2>3
<1>13. ASSUME NEW r \in Requests, Fails(r) PROVE (RestType /\ lock \in LeaseRecord /\ CommandType)'
  <2>1. lock' \in LeaseRecord
    <3>1. req[r].run \in DOMAIN runs /\ Record(r, "partial")
      BY <1>13 DEF Fails, TypeOK, Working
    <3> QED
      BY <3>1, RecordFacts, Leases DEF Answer
  <2>2. CommandType'
    BY <1>13, Parts DEF Fails, CommandType
  <2>3. RestType'
    BY <1>13, Parts DEF Fails, RestType
  <2> QED
    BY <2>1, <2>2, <2>3
<1>14. CASE CopyWork
  BY <1>14, Parts DEF CopyWork, Aside, RestType, CommandType
<1>15. ASSUME NEW r \in Requests, Verify(r) PROVE (RestType /\ lock \in LeaseRecord /\ CommandType)'
  <2>1. lock' \in LeaseRecord
    <3>1. req[r].run \in DOMAIN runs
      BY <1>15 DEF Verify, TypeOK
    <3>2. \E status \in {"draining", "drained", "partial"} : Record(r, status)
      BY <1>15 DEF Verify
    <3> QED
      BY <3>1, <3>2, RecordFacts, Leases DEF Answer
  <2>2. CommandType'
    BY <1>15, Parts DEF Verify, CommandType
  <2>3. RestType'
    BY <1>15, Parts DEF Verify, data, paths, settings, RestType, PathsType
  <2> QED
    BY <2>1, <2>2, <2>3
<1>16. CASE BackupBegin
  <2>1. lock' \in LeaseRecord
    BY <1>16, Leases DEF BackupBegin
  <2>2. CommandType'
    BY <1>16, Parts DEF BackupBegin, NoBackup, CommandType, CommandRecord
  <2>3. RestType'
    BY <1>16, Parts DEF BackupBegin, data, paths, settings, RestType, PathsType
  <2> QED
    BY <2>1, <2>2, <2>3
<1>17. CASE BackupHears
  <2>1. lock' \in LeaseRecord
    <3>1. UNCHANGED lock \/ lock' = Released("backup")
      BY <1>17 DEF BackupHears
    <3> QED
      BY <3>1, Leases, Parts
  <2>2. CommandType'
    <3>1. Binding(req[backup.req]) \in Bindings
      <4>1. req[backup.req] \in ReqRecord
        BY <1>17 DEF BackupHears, TypeOK
      <4> QED
        BY <4>1 DEF Binding, Bindings, ReqRecord
    <3>2. \/ backup' = [NoBackup EXCEPT !.pc = "stop"]
          \/ backup' = [NoBackup EXCEPT !.pc = "stop", !.proof = Binding(req[backup.req])]
          \/ backup' = [NoBackup EXCEPT !.pc = "drain", !.frozen = Binding(req[backup.req])]
          \/ backup' = NoBackup
      BY <1>17 DEF BackupHears
    <3>3. NoBackup \in CommandRecord /\ NoBackup.pc = "idle"
      BY DEF NoBackup, CommandRecord
    <3>4. backup' \in CommandRecord /\ backup'.pc # "wait"
      BY <3>1, <3>2, <3>3 DEF CommandRecord
    <3> QED
      BY <3>4 DEF CommandType
  <2>3. RestType'
    BY <1>17, Parts DEF BackupHears, data, paths, settings, RestType, PathsType
  <2> QED
    BY <2>1, <2>2, <2>3
<1>18. CASE BackupGivesUp
  <2>1. lock' \in LeaseRecord
    BY <1>18, Leases DEF BackupGivesUp
  <2>2. CommandType'
    BY <1>18, Parts DEF BackupGivesUp, NoBackup, CommandType, CommandRecord
  <2>3. RestType'
    BY <1>18, Parts DEF BackupGivesUp, data, paths, settings, RestType, PathsType
  <2> QED
    BY <2>1, <2>2, <2>3
<1>19. CASE BackupStops
  <2>1. lock' \in LeaseRecord
    BY <1>19, Parts DEF BackupStops
  <2>2. CommandType'
    BY <1>19, Parts DEF BackupStops, NoBackup, CommandType, CommandRecord
  <2>3. RestType'
    BY <1>19, Parts DEF BackupStops, GatewayEnds, data, paths, settings, RestType, PathsType
  <2> QED
    BY <2>1, <2>2, <2>3
<1>20. CASE BackupWork
  <2>1. lock' \in LeaseRecord
    BY <1>20, Parts DEF BackupWork, Aside
  <2>2. CommandType'
    BY <1>20, Parts DEF BackupWork, CommandType, CommandRecord
  <2>3. RestType'
    BY <1>20, Parts DEF BackupWork, Aside, RestType
  <2> QED
    BY <2>1, <2>2, <2>3
<1>21. CASE BackupInstalls
  <2>1. lock' \in LeaseRecord
    BY <1>21, Leases DEF BackupInstalls
  <2>2. CommandType'
    BY <1>21, Parts DEF BackupInstalls, NoBackup, CommandType, CommandRecord
  <2>3. RestType'
    BY <1>21, Parts DEF BackupInstalls, data, paths, settings, RestType, PathsType
  <2> QED
    BY <2>1, <2>2, <2>3
<1>22. CASE BackupDies
  <2>1. lock' \in LeaseRecord
    BY <1>22, Leases DEF BackupDies
  <2>2. CommandType'
    BY <1>22, Parts DEF BackupDies, NoBackup, CommandType, CommandRecord
  <2>3. RestType'
    BY <1>22, Parts DEF BackupDies, data, paths, settings, RestType, PathsType
  <2> QED
    BY <2>1, <2>2, <2>3
<1>23. ASSUME NEW r \in Requests, BackupAsks(r) PROVE (RestType /\ lock \in LeaseRecord /\ CommandType)'
  <2>1. lock' \in LeaseRecord
    BY <1>23, Parts DEF BackupAsks
  <2>2. CommandType'
    BY <1>23, Parts DEF BackupAsks, NoBackup, CommandType, CommandRecord
  <2>3. RestType'
    BY <1>23, Parts DEF BackupAsks, data, paths, settings, RestType, PathsType
  <2> QED
    BY <2>1, <2>2, <2>3
<1>24. ASSUME NEW k \in DOMAIN runs, LeasePasses(k) PROVE (RestType /\ lock \in LeaseRecord /\ CommandType)'
  <2>1. lock' \in LeaseRecord
    BY <1>24, Parts DEF LeasePasses
  <2>2. CommandType'
    BY <1>24, Parts DEF LeasePasses, CommandType
  <2>3. RestType'
    BY <1>24, Parts DEF LeasePasses, data, paths, settings, RestType, PathsType
  <2> QED
    BY <2>1, <2>2, <2>3
<1>25. CASE UNCHANGED vars
  BY <1>25, Parts DEF vars, data, paths, settings, RestType, PathsType, CommandType
<1> QED
  BY <1>1, <1>2, <1>3, <1>4, <1>5, <1>6, <1>7, <1>8, <1>9, <1>10, <1>11, <1>12,
     <1>13, <1>14, <1>15, <1>16, <1>17, <1>18, <1>19, <1>20, <1>21, <1>22, <1>23,
     <1>24, <1>25, StepKinds

LEMMA NextType == TypeOK /\ [Next]_vars => TypeOK'
<1> SUFFICES ASSUME TypeOK, [Next]_vars PROVE TypeOK'
  OBVIOUS
<1>1. /\ ReqsType'
      /\ Moves \/ \E r \in Requests : Started(r)
      /\ RunsGrow /\ RestType' /\ (lock \in LeaseRecord)' /\ CommandType'
  BY NextReqs, NextRuns, NextRest
<1>2. \A o \in Requests : req'[o].pc \in Working => req'[o].run \in DOMAIN runs'
  <2>1. CASE Moves
    BY <1>1, <2>1 DEF Moves, Alike, RunsGrow, Working, TypeOK
  <2>2. CASE \E r \in Requests : Started(r)
    <3>1. PICK r \in Requests : Started(r)
      BY <2>2
    <3>2. Len(runs) + 1 \in DOMAIN runs'
      BY <3>1 DEF Started, TypeOK
    <3> QED
      BY <1>1, <3>1, <3>2 DEF Started, RunsGrow, Working, TypeOK
  <2> QED
    BY <1>1, <2>1, <2>2
<1>3. /\ runs' \in Seq(RunRecord) /\ req' \in [Requests -> ReqRecord]
      /\ lock' \in LeaseRecord /\ backup' \in CommandRecord
      /\ backup'.pc = "wait" => backup'.req \in Requests
  BY <1>1 DEF ReqsType, RunsGrow, CommandType
<1>4. TypeOK' <=> /\ RestType' /\ runs' \in Seq(RunRecord) /\ req' \in [Requests -> ReqRecord]
                  /\ lock' \in LeaseRecord /\ backup' \in CommandRecord
                  /\ backup'.pc = "wait" => backup'.req \in Requests
                  /\ \A o \in Requests : req'[o].pc \in Working => req'[o].run \in DOMAIN runs'
  BY DEF TypeOK, RestType, PathsType, LeaseRecord, CommandRecord, Working
<1> QED
  BY <1>1, <1>2, <1>3, <1>4

-----------------------------------------------------------------------------
(* The lock. *)

Own(q) == q.token = "own" /\ q.pc # "answered"

LEMMA Holders ==
  ASSUME OwnersHoldLock
  PROVE  /\ Takeable => /\ ~erasing /\ backup.pc = "idle"
                        /\ \A r \in Requests : ~Own(req[r])
         /\ erasing => lock.owner = "erasure" /\ ~lock.stale
         /\ backup.pc # "idle" => lock.owner = "backup" /\ ~lock.stale
         /\ \A r \in Requests : Own(req[r]) => lock.owner = r /\ ~lock.stale
BY RetentionAssumption DEF OwnersHoldLock, Own, Takeable, Taken, Free

LEMMA Releases ==
  \A op : lock.owner # op => Released(op) = lock
BY DEF Released

LEMMA AnswerLeaves ==
  ASSUME TypeOK, OwnersHoldLock, NEW r \in Requests, NEW answer \in Answers, Answer(r, answer),
         UNCHANGED <<erasing, backup>>
  PROVE  OwnersHoldLock'
<1>1. ~Own(req'[r]) /\ \A o \in Requests \ {r} : req'[o] = req[o]
  BY ReplyFacts DEF Answer, Own, Fresh
<1>2. lock' = IF lock.owner = r THEN Free ELSE lock
  BY DEF Answer, Released
<1>3. erasing \/ backup.pc # "idle" => lock.owner # r
  BY Holders, RetentionAssumption
<1>4. \A o \in Requests \ {r} : Own(req[o]) => lock.owner # r
  BY Holders
<1> QED
  BY <1>1, <1>2, <1>3, <1>4 DEF OwnersHoldLock, Own, Free, Taken

LEMMA NextOwners == TypeOK /\ OwnersHoldLock /\ [Next]_vars => OwnersHoldLock'
<1> SUFFICES ASSUME TypeOK, OwnersHoldLock, [Next]_vars PROVE OwnersHoldLock'
  OBVIOUS
<1>1. CASE NewDay
  BY <1>1 DEF NewDay, data, settings, OwnersHoldLock, Taken
<1>2. ASSUME NEW l0 \in Lengths \cup {None}, NEW l1 \in Lengths \cup {None}, UpdatePolicy(l0, l1) PROVE OwnersHoldLock'
  BY <1>2 DEF UpdatePolicy, data, OwnersHoldLock, Taken
<1>3. ASSUME NEW target \in {"authorized", "revoked"}, Transition(target) PROVE OwnersHoldLock'
  BY <1>3 DEF Transition, data, OwnersHoldLock, Taken
<1>4. ASSUME NEW m \in L1, Edit(m) PROVE OwnersHoldLock'
  BY <1>4 DEF Edit, settings, OwnersHoldLock, Taken
<1>5. CASE EraseBegin
  BY <1>5, Holders, RetentionAssumption DEF EraseBegin, OwnersHoldLock,
     Own, Taken, Free
<1>6. CASE EraseEnd
  BY <1>6, Holders, RetentionAssumption DEF EraseEnd, Released,
     OwnersHoldLock, Own, Taken, Free
<1>7. CASE Crash
  <2>1. \A o \in Requests : ~Own(req'[o])
    BY <1>7, EndsFacts DEF Crash, Own, Fresh
  <2>2. ~erasing' /\ backup' = backup
    BY <1>7, EndsFacts DEF Crash
  <2>3. backup.pc # "idle" => lock' = lock
    BY <1>7, Holders, RetentionAssumption DEF Crash, Abandoned
  <2> QED
    BY <2>1, <2>2, <2>3 DEF OwnersHoldLock, Own, Taken, Free
<1>8. CASE Start
  BY <1>8 DEF Start, data, settings, OwnersHoldLock, Taken
<1>9. ASSUME NEW r \in Requests, Begin(r) PROVE OwnersHoldLock'
  <2>1. UNCHANGED <<erasing, backup>>
    BY <1>9 DEF Begin
  <2>2. CASE /\ \E answer \in Answers \ {"drained"} : Reply(r, answer)
             /\ lock' = lock \/ (Takeable /\ lock' = Free)
    <3>1. ~Own(req'[r]) /\ \A o \in Requests \ {r} : req'[o] = req[o]
      BY <2>2, ReplyFacts DEF Own, Fresh
    <3> QED
      BY <2>1, <2>2, <3>1, Holders DEF OwnersHoldLock, Own, Taken, Free
  <2>3. CASE /\ \A o \in Requests \ {r} : req'[o] = req[o]
             /\ \/ req'[r].token = "nested" /\ lock' = lock
                \/ Takeable /\ req'[r].token = "own" /\ lock' = Taken(r)
    BY <2>1, <2>3, Holders DEF OwnersHoldLock, Own, Taken, Free
  <2> QED
    BY <1>9, <2>2, <2>3, BeginFacts
<1>10. ASSUME NEW r \in Requests, Plan(r) PROVE OwnersHoldLock'
  <2>1. UNCHANGED <<erasing, backup>>
    BY <1>10 DEF Plan
  <2>2. CASE Answer(r, "partial")
    BY <2>1, <2>2, AnswerLeaves DEF Answers
  <2>3. CASE ~Answer(r, "partial")
    <3>1. /\ lock' = lock /\ \A o \in Requests \ {r} : req'[o] = req[o]
          /\ req'[r].token = req[r].token /\ req[r].pc = "plan"
      BY <1>10, <2>3, PlanFacts DEF Plan
    <3> QED
      BY <2>1, <3>1 DEF OwnersHoldLock, Own, Taken, Free
  <2> QED
    BY <2>2, <2>3
<1>11. ASSUME NEW r \in Requests, PlanFails(r) PROVE OwnersHoldLock'
  BY <1>11, AnswerLeaves DEF PlanFails, Answers
<1>12. ASSUME NEW r \in Requests, Deletes(r) PROVE OwnersHoldLock'
  <2>1. req[r].pc # "answered"
    BY <1>12 DEF Deletes, Working, Deleting
  <2> QED
    BY <1>12, <2>1 DEF Deletes, OwnersHoldLock, Own, Taken, Free
<1>13. ASSUME NEW r \in Requests, Fails(r) PROVE OwnersHoldLock'
  <2>1. req[r].run \in DOMAIN runs /\ Record(r, "partial")
    BY <1>13 DEF Fails, TypeOK, Working
  <2>2. \E answer \in Answers : Answer(r, answer)
    BY <2>1, RecordFacts DEF Answers
  <2> QED
    BY <1>13, <2>2, AnswerLeaves DEF Fails
<1>14. CASE CopyWork
  BY <1>14 DEF CopyWork, Aside, OwnersHoldLock, Taken
<1>15. ASSUME NEW r \in Requests, Verify(r) PROVE OwnersHoldLock'
  <2>1. req[r].run \in DOMAIN runs
    BY <1>15 DEF Verify, TypeOK
  <2>2. \E status \in {"draining", "drained", "partial"} : Record(r, status)
    BY <1>15 DEF Verify
  <2>3. \E answer \in Answers : Answer(r, answer)
    BY <2>1, <2>2, RecordFacts DEF Answers
  <2> QED
    BY <1>15, <2>3, AnswerLeaves DEF Verify
<1>16. CASE BackupBegin
  <2>1. \A o \in Requests : ~Own(req'[o])
    BY <1>16, BackupBeginFacts, Holders DEF BackupBegin, Own
  <2>2. ~erasing' /\ lock' = Taken("backup")
    BY <1>16, Holders DEF BackupBegin
  <2> QED
    BY <2>1, <2>2 DEF OwnersHoldLock, Own, Taken, Free
<1>17. CASE BackupHears
  <2>1. /\ erasing' = erasing /\ backup.pc # "idle"
        /\ lock' = lock \/ backup'.pc = "idle"
    BY <1>17 DEF BackupHears, NoBackup
  <2>2. ~erasing /\ \A o \in Requests : ~Own(req[o])
    BY <2>1, Holders, RetentionAssumption
  <2>3. \A o \in Requests : ~Own(req'[o])
    BY <1>17, <2>2, UnawaitedFacts DEF BackupHears, Own, Fresh
  <2> QED
    BY <2>1, <2>2, <2>3 DEF OwnersHoldLock, Own, Taken, Free
<1>18. CASE BackupGivesUp
  <2>1. /\ erasing' = erasing /\ backup.pc # "idle"
        /\ lock' = lock \/ backup'.pc = "idle"
    BY <1>18 DEF BackupGivesUp, NoBackup
  <2>2. ~erasing /\ \A o \in Requests : ~Own(req[o])
    BY <2>1, Holders, RetentionAssumption
  <2>3. \A o \in Requests : ~Own(req'[o])
    BY <1>18, <2>2, UnawaitedFacts DEF BackupGivesUp, Own, Fresh
  <2> QED
    BY <2>1, <2>2, <2>3 DEF OwnersHoldLock, Own, Taken, Free
<1>19. CASE BackupStops
  <2>1. \A o \in Requests : ~Own(req'[o])
    BY <1>19, EndsFacts DEF BackupStops, Own, Fresh
  <2>2. ~erasing' /\ lock' = lock /\ lock = Taken("backup")
    BY <1>19, EndsFacts DEF BackupStops, OwnersHoldLock
  <2> QED
    BY <2>1, <2>2 DEF OwnersHoldLock, Own, Taken, Free
<1>20. CASE BackupWork
  <2>1. backup.pc = "copy"
    BY <1>20 DEF BackupWork
  <2> QED
    BY <1>20, <2>1 DEF BackupWork, Aside, OwnersHoldLock, Taken
<1>21. CASE BackupInstalls
  <2>1. UNCHANGED <<erasing, req>> /\ backup.pc # "idle" /\ backup'.pc = "idle"
    BY <1>21 DEF BackupInstalls, NoBackup
  <2>2. ~erasing /\ \A o \in Requests : ~Own(req[o])
    BY <2>1, Holders, RetentionAssumption
  <2> QED
    BY <2>1, <2>2 DEF OwnersHoldLock, Own, Taken, Free
<1>22. CASE BackupDies
  <2>1. /\ erasing' = erasing /\ backup.pc # "idle"
        /\ lock' = lock \/ backup'.pc = "idle"
    BY <1>22 DEF BackupDies, NoBackup
  <2>2. ~erasing /\ \A o \in Requests : ~Own(req[o])
    BY <2>1, Holders, RetentionAssumption
  <2>3. \A o \in Requests : ~Own(req'[o])
    BY <1>22, <2>2, UnawaitedFacts DEF BackupDies, Own, Fresh
  <2> QED
    BY <2>1, <2>2, <2>3 DEF OwnersHoldLock, Own, Taken, Free
<1>23. ASSUME NEW r \in Requests, BackupAsks(r) PROVE OwnersHoldLock'
  <2>1. UNCHANGED <<erasing, lock>> /\ backup.pc # "idle"
    BY <1>23 DEF BackupAsks
  <2>2. ~Own(req'[r]) /\ \A o \in Requests \ {r} : req'[o] = req[o]
    BY <1>23, AsksFacts DEF Own
  <2> QED
    BY <2>1, <2>2 DEF OwnersHoldLock, Own, Taken, Free
<1>24. ASSUME NEW k \in DOMAIN runs, LeasePasses(k) PROVE OwnersHoldLock'
  BY <1>24 DEF LeasePasses, data, settings, OwnersHoldLock, Taken
<1>25. CASE UNCHANGED vars
  BY <1>25 DEF vars, OwnersHoldLock, Taken
<1> QED
  BY <1>1, <1>2, <1>3, <1>4, <1>5, <1>6, <1>7, <1>8, <1>9, <1>10, <1>11, <1>12,
     <1>13, <1>14, <1>15, <1>16, <1>17, <1>18, <1>19, <1>20, <1>21, <1>22, <1>23,
     <1>24, <1>25, StepKinds

LEMMA NextLeases == TypeOK /\ OneLiveLease /\ [Next]_vars => OneLiveLease'
<1> SUFFICES ASSUME TypeOK, OneLiveLease, [Next]_vars PROVE OneLiveLease'
  OBVIOUS
<1>1. CASE NewDay
  BY <1>1 DEF NewDay, settings, OneLiveLease, Live
<1>2. ASSUME NEW l0 \in Lengths \cup {None}, NEW l1 \in Lengths \cup {None}, UpdatePolicy(l0, l1) PROVE OneLiveLease'
  BY <1>2 DEF UpdatePolicy, OneLiveLease, Live
<1>3. ASSUME NEW target \in {"authorized", "revoked"}, Transition(target) PROVE OneLiveLease'
  BY <1>3 DEF Transition, OneLiveLease, Live
<1>4. ASSUME NEW m \in L1, Edit(m) PROVE OneLiveLease'
  BY <1>4 DEF Edit, settings, OneLiveLease, Live
<1>5. CASE EraseBegin
  BY <1>5 DEF EraseBegin, settings, OneLiveLease, Live
<1>6. CASE EraseEnd
  BY <1>6 DEF EraseEnd, settings, OneLiveLease, Live
<1>7. CASE Crash
  BY <1>7 DEF Crash, settings, OneLiveLease, Live
<1>8. CASE Start
  BY <1>8 DEF Start, settings, OneLiveLease, Live
<1>9. ASSUME NEW r \in Requests, Begin(r) PROVE OneLiveLease'
  BY <1>9 DEF Begin, settings, OneLiveLease, Live
<1>10. ASSUME NEW r \in Requests, Plan(r) PROVE OneLiveLease'
  <2>1. CASE UNCHANGED runs
    BY <2>1 DEF OneLiveLease, Live
  <2>2. CASE LeaseFree /\ \E row \in RunRecord : runs' = Append(runs, row)
    BY <2>2 DEF OneLiveLease, LeaseFree, Live, TypeOK
  <2> QED
    BY <1>10, <2>1, <2>2, PlanFacts
<1>11. ASSUME NEW r \in Requests, PlanFails(r) PROVE OneLiveLease'
  BY <1>11 DEF PlanFails, settings, OneLiveLease, Live
<1>12. ASSUME NEW r \in Requests, Deletes(r) PROVE OneLiveLease'
  BY <1>12 DEF Deletes, OneLiveLease, Live
<1>13. ASSUME NEW r \in Requests, Fails(r) PROVE OneLiveLease'
  <2>1. req[r].run \in DOMAIN runs /\ Record(r, "partial")
    BY <1>13 DEF Fails, TypeOK, Working
  <2> QED
    BY <2>1, RecordFacts DEF OneLiveLease
<1>14. CASE CopyWork
  BY <1>14 DEF CopyWork, Aside, OneLiveLease, Live
<1>15. ASSUME NEW r \in Requests, Verify(r) PROVE OneLiveLease'
  <2>1. req[r].run \in DOMAIN runs
    BY <1>15 DEF Verify, TypeOK
  <2>2. \E status \in {"draining", "drained", "partial"} : Record(r, status)
    BY <1>15 DEF Verify
  <2> QED
    BY <2>1, <2>2, RecordFacts DEF OneLiveLease
<1>16. CASE BackupBegin
  BY <1>16 DEF BackupBegin, settings, OneLiveLease, Live
<1>17. CASE BackupHears
  BY <1>17 DEF BackupHears, settings, OneLiveLease, Live
<1>18. CASE BackupGivesUp
  BY <1>18 DEF BackupGivesUp, settings, OneLiveLease, Live
<1>19. CASE BackupStops
  BY <1>19 DEF BackupStops, settings, OneLiveLease, Live
<1>20. CASE BackupWork
  BY <1>20 DEF BackupWork, Aside, OneLiveLease, Live
<1>21. CASE BackupInstalls
  BY <1>21 DEF BackupInstalls, settings, OneLiveLease, Live
<1>22. CASE BackupDies
  BY <1>22 DEF BackupDies, settings, OneLiveLease, Live
<1>23. ASSUME NEW r \in Requests, BackupAsks(r) PROVE OneLiveLease'
  BY <1>23 DEF BackupAsks, settings, OneLiveLease, Live
<1>24. ASSUME NEW k \in DOMAIN runs, LeasePasses(k) PROVE OneLiveLease'
  <2>1. runs' = [runs EXCEPT ![k].live = FALSE]
    BY <1>24 DEF LeasePasses
  <2>2. DOMAIN runs' = DOMAIN runs /\ \A j \in DOMAIN runs \ {k} : runs'[j] = runs[j]
    BY <2>1 DEF TypeOK
  <2>3. runs[k] \in RunRecord /\ runs'[k] = [runs[k] EXCEPT !.live = FALSE]
    BY <2>1 DEF TypeOK
  <2>4. runs'[k].live = FALSE
    BY <2>3 DEF RunRecord
  <2> QED
    BY <2>2, <2>4 DEF OneLiveLease, Live
<1>25. CASE UNCHANGED vars
  BY <1>25 DEF vars, OneLiveLease, Live
<1> QED
  BY <1>1, <1>2, <1>3, <1>4, <1>5, <1>6, <1>7, <1>8, <1>9, <1>10, <1>11, <1>12,
     <1>13, <1>14, <1>15, <1>16, <1>17, <1>18, <1>19, <1>20, <1>21, <1>22, <1>23,
     <1>24, <1>25, StepKinds

-----------------------------------------------------------------------------
(* Time and cutoffs. *)

Onward == /\ day \in Nat /\ day' \in Nat /\ day <= day'
          /\ index' \subseteq index
          /\ \A i \in Items : date'[i] = date[i] \/ date'[i] = day'

Kept(p, q) ==
  /\ q.policy = p.policy /\ q.cut0 = p.cut0 /\ q.cut1 = p.cut1
  /\ q.pc = "plan" => p.pc = "plan"
  /\ q.pc = "answered" /\ q.answer = "drained" =>
       \/ p.pc = "answered" /\ p.answer = "drained"
       \/ Clean(p.cut0, p.cut1)

Begun(q) == /\ q.pc = "plan" /\ q.policy = policy.rev
            /\ q.cut0 = Cutoff(policy.l0) /\ q.cut1 = Cutoff(policy.l1)

Turns == \A o \in Requests :
  Fresh(req'[o]) \/ Kept(req[o], req'[o]) \/ (Begun(req'[o]) /\ policy' = policy /\ day' = day)

Drains == \A k \in DOMAIN runs' : runs'[k].status = "drained" =>
  /\ k \in DOMAIN runs
  /\ \/ runs[k].status = "drained"
     \/ \E r \in Requests : /\ req[r].pc = "verify" /\ req[r].run = k
                            /\ Clean(req[r].cut0, req[r].cut1)

Proves ==
  backup'.pc \in {"stop", "copy"} /\ backup'.proof # None =>
    \/ backup.pc \in {"stop", "copy"} /\ backup'.proof = backup.proof
    \/ /\ backup.pc = "wait" /\ req[backup.req].pc = "answered"
       /\ req[backup.req].answer = "drained"
       /\ backup'.proof = Binding(req[backup.req])

LEMMA CleanStays ==
  ASSUME Onward, NEW c0 \in Cut, NEW c1 \in Cut, Past(c0), Past(c1), Clean(c0, c1),
         TypeOK
  PROVE  Clean(c0, c1)'
<1>1. ASSUME NEW c \in Cut, Past(c), NEW i \in Items, i \in index', Before(i, c)'
      PROVE  i \in index /\ Before(i, c)
  BY <1>1 DEF Onward, Past, Before, Cut, TypeOK
<1> QED
  BY <1>1 DEF Clean, Eligible, Items

LEMMA PastStays ==
  ASSUME Onward, NEW c \in Cut, Past(c)
  PROVE  Past(c)'
BY DEF Onward, Past, Cut

LEMMA CutoffFacts ==
  ASSUME TypeOK, NEW p \in Lengths \cup {None}
  PROVE  Cutoff(p) \in Cut /\ Past(Cutoff(p)) /\ Of(Cutoff(p), p)
<1>1. Lengths \subseteq Nat \ {0} /\ None \notin Int
  BY RetentionAssumption
<1>2. day \in Nat /\ (p = None \/ p \in Nat \ {0}) /\ (p # None => day - (p - 1) # None)
  BY <1>1 DEF TypeOK
<1> QED
  BY <1>2 DEF Cutoff, Cut, Past, Of

LEMMA NextTime == TypeOK /\ [Next]_vars => Onward
<1> SUFFICES ASSUME TypeOK, [Next]_vars PROVE Onward
  OBVIOUS
<1>1. CASE NewDay
  BY <1>1 DEF NewDay, data, settings, Onward, TypeOK
<1>2. ASSUME NEW l0 \in Lengths \cup {None}, NEW l1 \in Lengths \cup {None}, UpdatePolicy(l0, l1) PROVE Onward
  BY <1>2 DEF UpdatePolicy, data, Onward, TypeOK
<1>3. ASSUME NEW target \in {"authorized", "revoked"}, Transition(target) PROVE Onward
  BY <1>3 DEF Transition, data, Onward, TypeOK
<1>4. ASSUME NEW m \in L1, Edit(m) PROVE Onward
  BY <1>4 DEF Edit, Onward, TypeOK
<1>5. CASE EraseBegin
  BY <1>5 DEF EraseBegin, data, settings, Onward, TypeOK
<1>6. CASE EraseEnd
  BY <1>6 DEF EraseEnd, data, settings, Onward, TypeOK
<1>7. CASE Crash
  BY <1>7 DEF Crash, data, settings, Onward, TypeOK
<1>8. CASE Start
  BY <1>8 DEF Start, data, settings, Onward, TypeOK
<1>9. ASSUME NEW r \in Requests, Begin(r) PROVE Onward
  BY <1>9 DEF Begin, data, settings, Onward, TypeOK
<1>10. ASSUME NEW r \in Requests, Plan(r) PROVE Onward
  <2>1. UNCHANGED <<day, date, index>>
    BY <1>10 DEF Plan, data
  <2> QED
    BY <2>1 DEF Onward, TypeOK
<1>11. ASSUME NEW r \in Requests, PlanFails(r) PROVE Onward
  BY <1>11 DEF PlanFails, data, settings, Onward, TypeOK
<1>12. ASSUME NEW r \in Requests, Deletes(r) PROVE Onward
  BY <1>12 DEF Deletes, Onward, TypeOK
<1>13. ASSUME NEW r \in Requests, Fails(r) PROVE Onward
  BY <1>13 DEF Fails, Onward, TypeOK
<1>14. CASE CopyWork
  BY <1>14 DEF CopyWork, Aside, Onward, TypeOK
<1>15. ASSUME NEW r \in Requests, Verify(r) PROVE Onward
  BY <1>15 DEF Verify, data, settings, Onward, TypeOK
<1>16. CASE BackupBegin
  BY <1>16 DEF BackupBegin, data, settings, Onward, TypeOK
<1>17. CASE BackupHears
  BY <1>17 DEF BackupHears, data, settings, Onward, TypeOK
<1>18. CASE BackupGivesUp
  BY <1>18 DEF BackupGivesUp, data, settings, Onward, TypeOK
<1>19. CASE BackupStops
  BY <1>19 DEF BackupStops, data, settings, Onward, TypeOK
<1>20. CASE BackupWork
  BY <1>20 DEF BackupWork, Aside, Onward, TypeOK
<1>21. CASE BackupInstalls
  BY <1>21 DEF BackupInstalls, data, settings, Onward, TypeOK
<1>22. CASE BackupDies
  BY <1>22 DEF BackupDies, data, settings, Onward, TypeOK
<1>23. ASSUME NEW r \in Requests, BackupAsks(r) PROVE Onward
  BY <1>23 DEF BackupAsks, data, settings, Onward, TypeOK
<1>24. ASSUME NEW k \in DOMAIN runs, LeasePasses(k) PROVE Onward
  BY <1>24 DEF LeasePasses, data, settings, Onward, TypeOK
<1>25. CASE UNCHANGED vars
  BY <1>25 DEF vars, data, Onward, TypeOK
<1> QED
  BY <1>1, <1>2, <1>3, <1>4, <1>5, <1>6, <1>7, <1>8, <1>9, <1>10, <1>11, <1>12,
     <1>13, <1>14, <1>15, <1>16, <1>17, <1>18, <1>19, <1>20, <1>21, <1>22, <1>23,
     <1>24, <1>25, StepKinds

LEMMA NextTurns == TypeOK /\ [Next]_vars => Turns
<1> SUFFICES ASSUME TypeOK, [Next]_vars PROVE Turns
  OBVIOUS
<1>1. CASE NewDay
  BY <1>1 DEF NewDay, data, settings, Turns, Kept
<1>2. ASSUME NEW l0 \in Lengths \cup {None}, NEW l1 \in Lengths \cup {None}, UpdatePolicy(l0, l1) PROVE Turns
  BY <1>2 DEF UpdatePolicy, data, Turns, Kept
<1>3. ASSUME NEW target \in {"authorized", "revoked"}, Transition(target) PROVE Turns
  BY <1>3 DEF Transition, data, Turns, Kept
<1>4. ASSUME NEW m \in L1, Edit(m) PROVE Turns
  BY <1>4 DEF Edit, settings, Turns, Kept
<1>5. CASE EraseBegin
  BY <1>5 DEF EraseBegin, data, settings, Turns, Kept
<1>6. CASE EraseEnd
  BY <1>6 DEF EraseEnd, data, settings, Turns, Kept
<1>7. CASE Crash
  BY <1>7, EndsFacts DEF Crash, Turns
<1>8. CASE Start
  BY <1>8 DEF Start, data, settings, Turns, Kept
<1>9. ASSUME NEW r \in Requests, Begin(r) PROVE Turns
  <2>1. CASE \E answer \in Answers \ {"drained"} : Reply(r, answer)
    BY <2>1, ReplyFacts DEF Turns, Kept, Alike
  <2>2. CASE ~\E answer \in Answers \ {"drained"} : Reply(r, answer)
    <3>1. policy' = policy /\ day' = day
      BY <1>9 DEF Begin, settings
    <3> QED
      BY <1>9, <2>2, <3>1, BeginFacts DEF Turns, Kept, Begun
  <2> QED
    BY <2>1, <2>2
<1>10. ASSUME NEW r \in Requests, Plan(r) PROVE Turns
  <2>1. CASE Answer(r, "partial")
    BY <2>1, ReplyFacts DEF Answer, Answers, Turns, Kept, Alike
  <2>2. CASE ~Answer(r, "partial")
    BY <1>10, <2>2, PlanFacts DEF Turns, Kept, Working, Deleting
  <2> QED
    BY <2>1, <2>2
<1>11. ASSUME NEW r \in Requests, PlanFails(r) PROVE Turns
  BY <1>11, ReplyFacts DEF PlanFails, Answer, Answers, Turns, Kept, Alike
<1>12. ASSUME NEW r \in Requests, Deletes(r) PROVE Turns
  BY <1>12 DEF Deletes, Turns, Kept, Alike, Working, Deleting
<1>13. ASSUME NEW r \in Requests, Fails(r) PROVE Turns
  <2>1. req[r].run \in DOMAIN runs /\ Record(r, "partial")
    BY <1>13 DEF Fails, TypeOK, Working
  <2>2. \E answer \in Answers \ {"drained"} : Reply(r, answer)
    BY <2>1, RecordFacts DEF Answer, Answers
  <2> QED
    BY <2>2, ReplyFacts DEF Turns, Kept, Alike
<1>14. CASE CopyWork
  BY <1>14 DEF CopyWork, Aside, Turns, Kept
<1>15. ASSUME NEW r \in Requests, Verify(r) PROVE Turns
  <2>1. req[r].run \in DOMAIN runs
    BY <1>15 DEF Verify, TypeOK
  <2>2. PICK status \in {"draining", "drained"} :
          Record(r, status) /\ (status = "drained" => Clean(req[r].cut0, req[r].cut1))
    BY <1>15 DEF Verify, Clean
  <2>3. \E answer \in {status, "error"} : Reply(r, answer)
    BY <2>1, <2>2, RecordFacts DEF Answer
  <2> QED
    BY <2>2, <2>3, ReplyFacts DEF Answers, Turns, Kept, Alike
<1>16. CASE BackupBegin
  BY <1>16, BackupBeginFacts DEF Turns, Kept, Alike
<1>17. CASE BackupHears
  BY <1>17, UnawaitedFacts DEF BackupHears, Turns, Kept
<1>18. CASE BackupGivesUp
  BY <1>18, UnawaitedFacts DEF BackupGivesUp, Turns, Kept
<1>19. CASE BackupStops
  BY <1>19, EndsFacts DEF BackupStops, Turns
<1>20. CASE BackupWork
  BY <1>20 DEF BackupWork, Aside, Turns, Kept
<1>21. CASE BackupInstalls
  BY <1>21 DEF BackupInstalls, data, settings, Turns, Kept
<1>22. CASE BackupDies
  BY <1>22, UnawaitedFacts DEF BackupDies, Turns, Kept
<1>23. ASSUME NEW r \in Requests, BackupAsks(r) PROVE Turns
  BY <1>23, AsksFacts DEF Turns, Kept, Alike
<1>24. ASSUME NEW k \in DOMAIN runs, LeasePasses(k) PROVE Turns
  BY <1>24 DEF LeasePasses, data, settings, Turns, Kept
<1>25. CASE UNCHANGED vars
  BY <1>25 DEF vars, Turns, Kept
<1> QED
  BY <1>1, <1>2, <1>3, <1>4, <1>5, <1>6, <1>7, <1>8, <1>9, <1>10, <1>11, <1>12,
     <1>13, <1>14, <1>15, <1>16, <1>17, <1>18, <1>19, <1>20, <1>21, <1>22, <1>23,
     <1>24, <1>25, StepKinds

LEMMA NextDrained == TypeOK /\ [Next]_vars => Drains
<1> SUFFICES ASSUME TypeOK, [Next]_vars PROVE Drains
  OBVIOUS
<1>1. CASE NewDay
  BY <1>1 DEF NewDay, settings, Drains
<1>2. ASSUME NEW l0 \in Lengths \cup {None}, NEW l1 \in Lengths \cup {None}, UpdatePolicy(l0, l1) PROVE Drains
  BY <1>2 DEF UpdatePolicy, Drains
<1>3. ASSUME NEW target \in {"authorized", "revoked"}, Transition(target) PROVE Drains
  BY <1>3 DEF Transition, Drains
<1>4. ASSUME NEW m \in L1, Edit(m) PROVE Drains
  BY <1>4 DEF Edit, settings, Drains
<1>5. CASE EraseBegin
  BY <1>5 DEF EraseBegin, settings, Drains
<1>6. CASE EraseEnd
  BY <1>6 DEF EraseEnd, settings, Drains
<1>7. CASE Crash
  BY <1>7 DEF Crash, settings, Drains
<1>8. CASE Start
  BY <1>8 DEF Start, settings, Drains
<1>9. ASSUME NEW r \in Requests, Begin(r) PROVE Drains
  BY <1>9 DEF Begin, settings, Drains
<1>10. ASSUME NEW r \in Requests, Plan(r) PROVE Drains
  <2>1. CASE UNCHANGED runs
    BY <2>1 DEF Drains
  <2>2. CASE \E row \in RunRecord : runs' = Append(runs, row) /\ row.status = "draining"
    BY <2>2 DEF Drains, TypeOK
  <2> QED
    BY <1>10, <2>1, <2>2, PlanFacts
<1>11. ASSUME NEW r \in Requests, PlanFails(r) PROVE Drains
  BY <1>11 DEF PlanFails, settings, Drains
<1>12. ASSUME NEW r \in Requests, Deletes(r) PROVE Drains
  BY <1>12 DEF Deletes, Drains
<1>13. ASSUME NEW r \in Requests, Fails(r) PROVE Drains
  <2>1. req[r].run \in DOMAIN runs /\ Record(r, "partial")
    BY <1>13 DEF Fails, TypeOK, Working
  <2> QED
    BY <2>1, RecordFacts DEF Drains
<1>14. CASE CopyWork
  BY <1>14 DEF CopyWork, Aside, Drains
<1>15. ASSUME NEW r \in Requests, Verify(r) PROVE Drains
  <2>1. req[r].run \in DOMAIN runs /\ req[r].pc = "verify"
    BY <1>15 DEF Verify, TypeOK
  <2>2. PICK status \in {"draining", "drained"} :
          Record(r, status) /\ (status = "drained" => Clean(req[r].cut0, req[r].cut1))
    BY <1>15 DEF Verify, Clean
  <2> QED
    BY <2>1, <2>2, RecordFacts DEF Drains
<1>16. CASE BackupBegin
  BY <1>16 DEF BackupBegin, settings, Drains
<1>17. CASE BackupHears
  BY <1>17 DEF BackupHears, settings, Drains
<1>18. CASE BackupGivesUp
  BY <1>18 DEF BackupGivesUp, settings, Drains
<1>19. CASE BackupStops
  BY <1>19 DEF BackupStops, settings, Drains
<1>20. CASE BackupWork
  BY <1>20 DEF BackupWork, Aside, Drains
<1>21. CASE BackupInstalls
  BY <1>21 DEF BackupInstalls, settings, Drains
<1>22. CASE BackupDies
  BY <1>22 DEF BackupDies, settings, Drains
<1>23. ASSUME NEW r \in Requests, BackupAsks(r) PROVE Drains
  BY <1>23 DEF BackupAsks, settings, Drains
<1>24. ASSUME NEW k \in DOMAIN runs, LeasePasses(k) PROVE Drains
  <2>1. runs' = [runs EXCEPT ![k] = [runs[k] EXCEPT !.live = FALSE]]
    BY <1>24 DEF LeasePasses
  <2>2. runs[k] \in RunRecord
    BY DEF TypeOK
  <2>3. /\ DOMAIN runs' = DOMAIN runs
        /\ \A j \in DOMAIN runs : runs'[j].status = runs[j].status
    BY <2>1, <2>2 DEF RunRecord, TypeOK
  <2> QED
    BY <2>3 DEF Drains
<1>25. CASE UNCHANGED vars
  BY <1>25 DEF vars, Drains
<1> QED
  BY <1>1, <1>2, <1>3, <1>4, <1>5, <1>6, <1>7, <1>8, <1>9, <1>10, <1>11, <1>12,
     <1>13, <1>14, <1>15, <1>16, <1>17, <1>18, <1>19, <1>20, <1>21, <1>22, <1>23,
     <1>24, <1>25, StepKinds

LEMMA NextProves == TypeOK /\ [Next]_vars => Proves
<1> SUFFICES ASSUME TypeOK, [Next]_vars PROVE Proves
  OBVIOUS
<1>1. CASE NewDay
  BY <1>1 DEF NewDay, Proves
<1>2. ASSUME NEW l0 \in Lengths \cup {None}, NEW l1 \in Lengths \cup {None}, UpdatePolicy(l0, l1) PROVE Proves
  BY <1>2 DEF UpdatePolicy, Proves
<1>3. ASSUME NEW target \in {"authorized", "revoked"}, Transition(target) PROVE Proves
  BY <1>3 DEF Transition, Proves
<1>4. ASSUME NEW m \in L1, Edit(m) PROVE Proves
  BY <1>4 DEF Edit, Proves
<1>5. CASE EraseBegin
  BY <1>5 DEF EraseBegin, Proves
<1>6. CASE EraseEnd
  BY <1>6 DEF EraseEnd, Proves
<1>7. CASE Crash
  BY <1>7 DEF Crash, Proves
<1>8. CASE Start
  BY <1>8 DEF Start, Proves
<1>9. ASSUME NEW r \in Requests, Begin(r) PROVE Proves
  BY <1>9 DEF Begin, Proves
<1>10. ASSUME NEW r \in Requests, Plan(r) PROVE Proves
  BY <1>10 DEF Plan, Proves
<1>11. ASSUME NEW r \in Requests, PlanFails(r) PROVE Proves
  BY <1>11 DEF PlanFails, Proves
<1>12. ASSUME NEW r \in Requests, Deletes(r) PROVE Proves
  BY <1>12 DEF Deletes, Proves
<1>13. ASSUME NEW r \in Requests, Fails(r) PROVE Proves
  BY <1>13 DEF Fails, Proves
<1>14. CASE CopyWork
  BY <1>14 DEF CopyWork, Aside, Proves
<1>15. ASSUME NEW r \in Requests, Verify(r) PROVE Proves
  BY <1>15 DEF Verify, Proves
<1>16. CASE BackupBegin
  BY <1>16 DEF BackupBegin, NoBackup, Proves
<1>17. CASE BackupHears
  <2>1. \/ backup' = [NoBackup EXCEPT !.pc = "stop"]
        \/ /\ backup' = [NoBackup EXCEPT !.pc = "stop", !.proof = Binding(req[backup.req])]
           /\ req[backup.req].answer = "drained"
        \/ backup'.pc = "drain"
        \/ backup' = NoBackup
    BY <1>17 DEF BackupHears, Settled, NoBackup
  <2>3. /\ NoBackup.pc = "idle"
        /\ [NoBackup EXCEPT !.pc = "stop"].proof = None
        /\ \A b : [NoBackup EXCEPT !.pc = "stop", !.proof = b].proof = b
    BY DEF NoBackup
  <2>2. backup.pc = "wait" /\ req[backup.req].pc = "answered"
    BY <1>17 DEF BackupHears
  <2> QED
    BY <2>1, <2>2, <2>3 DEF Proves
<1>18. CASE BackupGivesUp
  BY <1>18 DEF BackupGivesUp, NoBackup, Proves
<1>19. CASE BackupStops
  BY <1>19 DEF BackupStops, Proves, TypeOK
<1>20. CASE BackupWork
  BY <1>20 DEF BackupWork, Aside, Proves, TypeOK
<1>21. CASE BackupInstalls
  BY <1>21 DEF BackupInstalls, NoBackup, Proves
<1>22. CASE BackupDies
  BY <1>22 DEF BackupDies, NoBackup, Proves
<1>23. ASSUME NEW r \in Requests, BackupAsks(r) PROVE Proves
  BY <1>23 DEF BackupAsks, Proves, TypeOK
<1>24. ASSUME NEW k \in DOMAIN runs, LeasePasses(k) PROVE Proves
  BY <1>24 DEF LeasePasses, Proves
<1>25. CASE UNCHANGED vars
  BY <1>25 DEF vars, Proves
<1> QED
  BY <1>1, <1>2, <1>3, <1>4, <1>5, <1>6, <1>7, <1>8, <1>9, <1>10, <1>11, <1>12,
     <1>13, <1>14, <1>15, <1>16, <1>17, <1>18, <1>19, <1>20, <1>21, <1>22, <1>23,
     <1>24, <1>25, StepKinds

-----------------------------------------------------------------------------
(* The rest of the invariant. *)

LEMMA CutTypes ==
  ASSUME TypeOK
  PROVE  /\ \A r \in Requests : req[r].cut0 \in Cut /\ req[r].cut1 \in Cut
         /\ \A k \in DOMAIN runs : runs[k].cut0 \in Cut /\ runs[k].cut1 \in Cut
         /\ backup.proof # None => backup.proof.cut0 \in Cut /\ backup.proof.cut1 \in Cut
<1>1. \A r \in Requests : req[r] \in ReqRecord
  BY DEF TypeOK
<1>2. \A k \in DOMAIN runs : runs[k] \in RunRecord
  BY DEF TypeOK
<1>3. backup.proof # None => backup.proof \in Bindings
  BY DEF TypeOK
<1> QED
  BY <1>1, <1>2, <1>3 DEF ReqRecord, RunRecord, Bindings

LEMMA NextCutoffs == TypeOK /\ Cutoffs /\ [Next]_vars => Cutoffs'
<1> SUFFICES ASSUME TypeOK, Cutoffs, [Next]_vars PROVE Cutoffs'
  OBVIOUS
<1>1. Onward /\ Turns /\ Proves /\ RunsGrow
  BY NextTime, NextTurns, NextProves, NextRuns
<1>2. ASSUME NEW r \in Requests PROVE (Past(req[r].cut0) /\ Past(req[r].cut1))'
  <2>1. CASE Fresh(req'[r])
    BY <2>1 DEF Fresh, Past
  <2>2. CASE Kept(req[r], req'[r])
    BY <1>1, <2>2, CutTypes, PastStays DEF Kept, Cutoffs
  <2>3. CASE Begun(req'[r]) /\ policy' = policy /\ day' = day
    <3>1. policy.l0 \in Lengths \cup {None} /\ policy.l1 \in Lengths \cup {None}
      BY DEF TypeOK
    <3> QED
      BY <1>1, <2>3, <3>1, CutoffFacts, PastStays DEF Begun
  <2> QED
    BY <1>1, <2>1, <2>2, <2>3 DEF Turns
<1>3. ASSUME NEW k \in DOMAIN runs' PROVE (Past(runs[k].cut0) /\ Past(runs[k].cut1))'
  <2>1. CASE k \in DOMAIN runs
    BY <1>1, <2>1, CutTypes, PastStays DEF RunsGrow, Cutoffs
  <2>2. CASE k \notin DOMAIN runs
    BY <1>1, <2>2, CutTypes, PastStays DEF RunsGrow, Cutoffs
  <2> QED
    BY <2>1, <2>2
<1>4. ASSUME backup'.pc \in {"stop", "copy"}, backup'.proof # None
      PROVE  (Past(backup.proof.cut0) /\ Past(backup.proof.cut1))'
  <2>1. CASE backup.pc \in {"stop", "copy"} /\ backup'.proof = backup.proof
    BY <1>1, <1>4, <2>1, CutTypes, PastStays DEF Cutoffs
  <2>2. CASE backup.pc = "wait" /\ backup'.proof = Binding(req[backup.req])
    <3>1. backup.req \in Requests
      BY <2>2 DEF TypeOK
    <3> QED
      BY <1>1, <2>2, <3>1, CutTypes, PastStays DEF Binding, Cutoffs
  <2> QED
    BY <1>1, <1>4, <2>1, <2>2 DEF Proves
<1> QED
  BY <1>2, <1>3, <1>4 DEF Cutoffs, Past

LEMMA NextRecorded == TypeOK /\ Recorded /\ [Next]_vars => Recorded'
<1> SUFFICES ASSUME TypeOK, Recorded, [Next]_vars, NEW o \in Requests, req'[o].pc \in Working
             PROVE  /\ runs'[req'[o].run].cut0 = req'[o].cut0
                    /\ runs'[req'[o].run].cut1 = req'[o].cut1
  BY DEF Recorded, Working
<1>1. RunsGrow /\ (Moves \/ \E r \in Requests : Started(r))
  BY NextRuns, NextReqs
<1>2. req[o].pc \in Working => req[o].run \in DOMAIN runs
  BY DEF TypeOK, Working
<1>3. CASE Moves
  BY <1>1, <1>2, <1>3 DEF Moves, Alike, RunsGrow, Recorded, Working
<1>4. CASE \E r \in Requests : Started(r)
  <2>1. PICK r \in Requests : Started(r)
    BY <1>4
  <2>2. CASE o = r
    <3>1. PICK row \in RunRecord : /\ runs' = Append(runs, row)
                                   /\ row.cut0 = req[r].cut0 /\ row.cut1 = req[r].cut1
      BY <2>1 DEF Started
    <3>2. runs'[Len(runs) + 1] = row
      BY <3>1 DEF TypeOK
    <3> QED
      BY <2>1, <2>2, <3>1, <3>2 DEF Started
  <2>3. CASE o # r
    BY <1>1, <1>2, <2>1, <2>3 DEF Started, RunsGrow, Recorded, Working
  <2> QED
    BY <2>2, <2>3
<1> QED
  BY <1>1, <1>3, <1>4

LEMMA NextDrainedClean ==
  TypeOK /\ Cutoffs /\ Recorded /\ DrainedIsClean /\ [Next]_vars => DrainedIsClean'
<1> SUFFICES ASSUME TypeOK, Cutoffs, Recorded, DrainedIsClean, [Next]_vars,
                    NEW k \in DOMAIN runs', runs'[k].status = "drained"
             PROVE  Clean(runs[k].cut0, runs[k].cut1)'
  BY DEF DrainedIsClean, Clean
<1>1. Onward /\ Drains /\ RunsGrow
  BY NextTime, NextDrained, NextRuns
<1>2. k \in DOMAIN runs /\ runs'[k].cut0 = runs[k].cut0 /\ runs'[k].cut1 = runs[k].cut1
  BY <1>1 DEF Drains, RunsGrow
<1>3. Clean(runs[k].cut0, runs[k].cut1)
  <2>1. CASE runs[k].status = "drained"
    BY <1>2, <2>1 DEF DrainedIsClean, Clean
  <2>2. CASE \E r \in Requests : /\ req[r].pc = "verify" /\ req[r].run = k
                                 /\ Clean(req[r].cut0, req[r].cut1)
    BY <2>2 DEF Recorded
  <2> QED
    BY <1>1, <2>1, <2>2 DEF Drains
<1>4. Past(runs[k].cut0) /\ Past(runs[k].cut1)
  BY <1>2 DEF Cutoffs
<1> QED
  BY <1>1, <1>2, <1>3, <1>4, CutTypes, CleanStays

LEMMA NextAnswers == TypeOK /\ Cutoffs /\ AnswersTrue /\ [Next]_vars => AnswersTrue'
<1> SUFFICES ASSUME TypeOK, Cutoffs, AnswersTrue, [Next]_vars, NEW r \in Requests,
                    req'[r].pc = "answered", req'[r].answer = "drained"
             PROVE  Clean(req[r].cut0, req[r].cut1)'
  BY DEF AnswersTrue
<1>1. Onward /\ Turns
  BY NextTime, NextTurns
<1>2. Kept(req[r], req'[r])
  BY <1>1 DEF Turns, Fresh, Begun
<1>3. Clean(req[r].cut0, req[r].cut1)
  BY <1>2 DEF Kept, AnswersTrue
<1>4. Past(req[r].cut0) /\ Past(req[r].cut1)
  BY DEF Cutoffs
<1>5. Clean(req[r].cut0, req[r].cut1) => req'[r].cut0 = req[r].cut0 /\ req'[r].cut1 = req[r].cut1
  BY <1>2 DEF Kept
<1> QED
  BY <1>1, <1>3, <1>4, <1>5, CutTypes, CleanStays

LEMMA NextBackup ==
  TypeOK /\ Cutoffs /\ AnswersTrue /\ BackupIsClean /\ [Next]_vars => BackupIsClean'
<1> SUFFICES ASSUME TypeOK, Cutoffs, AnswersTrue, BackupIsClean, [Next]_vars,
                    backup'.pc \in {"stop", "copy"}, backup'.proof # None
             PROVE  Clean(backup.proof.cut0, backup.proof.cut1)'
  BY DEF BackupIsClean, Clean
<1>1. Onward /\ Proves
  BY NextTime, NextProves
<1>2. CASE backup.pc \in {"stop", "copy"} /\ backup'.proof = backup.proof
  <2>1. Clean(backup.proof.cut0, backup.proof.cut1)
    BY <1>2 DEF BackupIsClean, Clean
  <2>2. Past(backup.proof.cut0) /\ Past(backup.proof.cut1)
    BY <1>2 DEF Cutoffs
  <2>3. backup.proof.cut0 \in Cut /\ backup.proof.cut1 \in Cut
    BY <1>2, CutTypes
  <2> QED
    BY <1>1, <1>2, <2>1, <2>2, <2>3, CleanStays
<1>3. CASE /\ backup.pc = "wait" /\ req[backup.req].pc = "answered"
           /\ req[backup.req].answer = "drained" /\ backup'.proof = Binding(req[backup.req])
  <2>1. backup.req \in Requests
    BY <1>3 DEF TypeOK
  <2> DEFINE q == req[backup.req]
  <2>2. Clean(q.cut0, q.cut1) /\ Past(q.cut0) /\ Past(q.cut1) /\ q.cut0 \in Cut /\ q.cut1 \in Cut
    BY <1>3, <2>1, CutTypes DEF AnswersTrue, Cutoffs
  <2>3. backup'.proof.cut0 = q.cut0 /\ backup'.proof.cut1 = q.cut1
    BY <1>3 DEF Binding
  <2> HIDE DEF q
  <2> QED
    BY <1>1, <2>2, <2>3, CleanStays
<1> QED
  BY <1>1, <1>2, <1>3 DEF Proves

LEMMA PolicySteps ==
  ASSUME TypeOK, [Next]_vars
  PROVE  policy' = policy \/ policy'.rev = policy.rev + 1
<1>1. ASSUME NEW l0, NEW l1, UpdatePolicy(l0, l1) PROVE policy'.rev = policy.rev + 1
  BY <1>1 DEF UpdatePolicy
<1>2. ASSUME NEW r \in Requests,
             \/ Begin(r) \/ Plan(r) \/ PlanFails(r)
             \/ Deletes(r) \/ Fails(r) \/ Verify(r) \/ BackupAsks(r)
      PROVE  policy' = policy
  BY <1>2 DEF Begin, Plan, PlanFails, Deletes, Fails, Verify, BackupAsks, settings
<1> QED
  BY <1>1, <1>2, StepKinds DEF vars, settings, NewDay, Transition, Edit, EraseBegin,
     EraseEnd, Crash, Start, CopyWork, BackupWork, Aside, BackupBegin, BackupHears,
     BackupGivesUp, BackupStops, BackupInstalls, BackupDies, LeasePasses

LEMMA NextInForce == TypeOK /\ InForce /\ [Next]_vars => InForce'
<1> SUFFICES ASSUME TypeOK, InForce, [Next]_vars, NEW r \in Requests
             PROVE  /\ req'[r].policy <= policy'.rev
                    /\ req'[r].pc = "plan" /\ req'[r].policy = policy'.rev =>
                         (Of(req[r].cut0, policy.l0) /\ Of(req[r].cut1, policy.l1))'
  BY DEF InForce
<1>1. Onward /\ Turns /\ (policy' = policy \/ policy'.rev = policy.rev + 1)
  BY NextTime, NextTurns, PolicySteps
<1>2. /\ req[r] \in ReqRecord /\ policy.rev \in Nat
      /\ policy.l0 \in Lengths \cup {None} /\ policy.l1 \in Lengths \cup {None}
      /\ policy'.rev \in Nat
  BY NextType DEF TypeOK
<1>3. CASE Fresh(req'[r])
  BY <1>2, <1>3 DEF Fresh
<1>4. CASE Kept(req[r], req'[r])
  <2>1. req[r].policy \in Nat /\ req[r].policy <= policy.rev
    BY <1>2 DEF ReqRecord, InForce
  <2>2. CASE policy'.rev = policy.rev + 1
    BY <1>2, <1>4, <2>1, <2>2 DEF Kept
  <2>3. CASE policy' = policy
    <3>1. ASSUME NEW c \in Cut, NEW p \in Lengths \cup {None}, Of(c, p) PROVE Of(c, p)'
      <4>1. p = None \/ p \in Nat
        BY RetentionAssumption
      <4> QED
        BY <1>1, <3>1, <4>1, RetentionAssumption DEF Of, Cutoff, Onward, Cut
    <3> QED
      BY <1>2, <1>4, <2>1, <2>3, <3>1, CutTypes DEF Kept, InForce
  <2> QED
    BY <1>1, <2>2, <2>3
<1>5. CASE Begun(req'[r]) /\ policy' = policy /\ day' = day
  <2>1. Of(Cutoff(policy.l0), policy.l0) /\ Of(Cutoff(policy.l1), policy.l1)
    BY <1>2, CutoffFacts
  <2> QED
    BY <1>2, <1>5, <2>1 DEF Begun, Of, Cutoff
<1> QED
  BY <1>1, <1>3, <1>4, <1>5 DEF Turns

-----------------------------------------------------------------------------
(* Rows and copies while a call is out. *)

Same(o) == /\ req'[o].pc = req[o].pc
           /\ req'[o].item = req[o].item /\ req'[o].l0 = req[o].l0

LEMMA NextCalls ==
  ASSUME TypeOK, [Next]_vars, NEW o \in Requests, req'[o].pc \in Out
  PROVE  Same(o) \/ Calls(o)
<1>1. CASE UNCHANGED req
  BY <1>1 DEF Same
<1>2. ASSUME NEW r \in Requests,
             \/ \E answer \in Answers : Reply(r, answer)
             \/ Plan(r) \/ Begin(r) \/ BackupAsks(r)
      PROVE  Same(o)
  <2>1. CASE \E answer \in Answers : Reply(r, answer)
    BY <2>1, ReplyFacts DEF Out, Same
  <2>2. CASE Begin(r)
    BY <2>1, <2>2, BeginFacts DEF Out, Same
  <2>3. CASE BackupAsks(r)
    BY <2>3, AsksFacts DEF Out, Same
  <2>4. CASE Plan(r) /\ ~Answer(r, "partial")
    <3>1. /\ req[r].pc = "plan" /\ Unchanged(r) /\ LeaseFree
          /\ \A p \in Requests \ {r} : req'[p] = req[p]
      BY <2>4, PlanFacts DEF Plan
    <3>2. PICK b0, b1 :
            LET q == [req[r] EXCEPT !.l0 = b0, !.l1 = b1, !.run = Len(runs) + 1]
            IN req' = [req EXCEPT ![r] = [q EXCEPT !.pc = AfterL1(q)]]
      BY <2>4, <3>1 DEF Plan
    <3> DEFINE q == [req[r] EXCEPT !.l0 = b0, !.l1 = b1, !.run = Len(runs) + 1]
    <3>3. req' = [req EXCEPT ![r] = [q EXCEPT !.pc = AfterL1(q)]] /\ "pc" \in DOMAIN q
      BY <3>2 DEF TypeOK, ReqRecord
    <3> HIDE DEF q
    <3>4. req'[r].pc = AfterL1(q)
      BY <3>3 DEF TypeOK
    <3> QED
      BY <3>1, <3>4 DEF AfterL1, Out, Same
  <2> QED
    BY <1>2, <2>1, <2>2, <2>3, <2>4 DEF Answer, Answers
<1>3. ASSUME NEW r \in Requests, Deletes(r) PROVE Same(o) \/ Calls(o)
  BY <1>3 DEF Deletes, Same
<1>4. ASSUME NEW r \in Requests, Fails(r) \/ Verify(r) \/ PlanFails(r)
      PROVE  \E answer \in Answers : Reply(r, answer)
  <2>1. CASE PlanFails(r)
    BY <2>1 DEF PlanFails, Answer, Answers
  <2>2. CASE Fails(r) \/ Verify(r)
    <3>1. req[r].run \in DOMAIN runs
      BY <2>2 DEF Fails, Verify, TypeOK, Working
    <3>2. \E status \in {"draining", "drained", "partial"} : Record(r, status)
      BY <2>2 DEF Fails, Verify
    <3> QED
      BY <3>1, <3>2, RecordFacts DEF Answer, Answers
  <2> QED
    BY <1>4, <2>1, <2>2
<1>5. CASE Crash \/ BackupStops
  BY <1>5, EndsFacts DEF Crash, BackupStops, Fresh, Out
<1>6. CASE BackupHears \/ BackupGivesUp \/ BackupDies
  BY <1>6, UnawaitedFacts DEF BackupHears, BackupGivesUp, BackupDies, Out, Same
<1>7. CASE BackupBegin
  BY <1>7, BackupBeginFacts DEF Same
<1>8. \/ UNCHANGED req
      \/ \E r \in Requests : Begin(r) \/ Plan(r) \/ PlanFails(r)
                             \/ Deletes(r) \/ Fails(r) \/ Verify(r) \/ BackupAsks(r)
      \/ Crash \/ BackupStops \/ BackupHears \/ BackupGivesUp \/ BackupDies \/ BackupBegin
  BY StepKinds DEF NewDay, UpdatePolicy, Transition, Edit, EraseBegin, EraseEnd, Start,
     CopyWork, BackupWork, Aside, BackupInstalls, LeasePasses, vars
<1> QED
  BY <1>1, <1>2, <1>3, <1>4, <1>5, <1>6, <1>7, <1>8

Removes == /\ CopiesGo \/ CopiesHalfGo
           /\ UNCHANGED <<making, stray, tomb>> /\ readable' \subseteq readable

LEMMA NextPaths ==
  ASSUME TypeOK, [Next]_vars
  PROVE  \/ UNCHANGED <<paths, readable>> /\ tomb \subseteq tomb'
         \/ Removes
         \/ /\ \E c \in Copies : CopyBegins(c) \/ CopyRegisters(c) \/ CopyDies(c)
            /\ UNCHANGED <<readable, tomb>>
<1>1. ASSUME NEW r \in Requests, Steps(r) \/ Begin(r) \/ Plan(r) \/ PlanFails(r)
                                 \/ BatchFails(r) \/ Verify(r) \/ BackupAsks(r)
      PROVE  (UNCHANGED <<paths, readable>> /\ tomb \subseteq tomb') \/ Removes
  <2>1. CASE Tombstone(r)
    BY <2>1 DEF Tombstone
  <2>2. CASE Files(r) \/ L0Files(r)
    BY <2>2 DEF Files, L0Files, RemoveFiles, Removes
  <2>3. CASE Check(r) \/ L0Check(r)
    BY <2>3 DEF Check, L0Check, NothingLeft, data
  <2>4. CASE Index(r) \/ L0Index(r)
    BY <2>4 DEF Index, L0Index
  <2>5. CASE Begin(r) \/ Plan(r) \/ PlanFails(r) \/ BatchFails(r) \/ Verify(r) \/ BackupAsks(r)
    BY <2>5 DEF Begin, Plan, PlanFails, BatchFails, Verify, BackupAsks, data
  <2> QED
    BY <1>1, <2>1, <2>2, <2>3, <2>4, <2>5 DEF Steps
<1>2. ASSUME NEW c \in Copies, CopyBegins(c) \/ CopyRegisters(c) \/ CopyDies(c)
      PROVE  UNCHANGED <<readable, tomb>>
  BY <1>2 DEF CopyBegins, CopyRegisters, CopyDies
<1>3. \/ UNCHANGED <<paths, readable, tomb>>
      \/ \E r \in Requests : Maintenance(r) \/ BackupAsks(r)
      \/ \E c \in Copies : CopyBegins(c) \/ CopyRegisters(c) \/ CopyDies(c)
  BY DEF Next, User, Backup, vars, data, NewDay, UpdatePolicy, Transition, Edit, EraseBegin,
     EraseEnd, Crash, Start, BackupBegin, BackupHears, BackupGivesUp, BackupStops,
     BackupCopies, BackupCopied, BackupInstalls, BackupDies, LeasePasses
<1> QED
  BY <1>1, <1>2, <1>3 DEF Maintenance, Steps

LEMMA NextTraces == TypeOK /\ Traces /\ [Next]_vars => Traces'
<1> SUFFICES ASSUME TypeOK, Traces, [Next]_vars PROVE Traces'
  OBVIOUS
<1>1. CASE UNCHANGED paths
  BY <1>1 DEF paths, Traces
<1>2. CASE Removes
  BY <1>2 DEF Removes, CopiesGo, CopiesHalfGo, Traces
<1>3. ASSUME NEW c \in Copies, CopyBegins(c) PROVE Traces'
  BY <1>3 DEF CopyBegins, Traces
<1>4. ASSUME NEW c \in Copies, CopyRegisters(c) PROVE Traces'
  BY <1>4 DEF CopyRegisters, Traces
<1>5. ASSUME NEW c \in Copies, CopyDies(c) PROVE Traces'
  BY <1>5 DEF CopyDies, Traces
<1> QED
  BY <1>1, <1>2, <1>3, <1>4, <1>5, NextPaths

LEMMA NextCounted == TypeOK /\ Counted /\ [Next]_vars => Counted'
<1> SUFFICES ASSUME TypeOK, Counted, [Next]_vars, NEW o \in Requests, req'[o].pc \in Out
             PROVE  /\ copies' \subseteq late'
                    /\ req'[o].pc = "index" => req'[o].item \in tomb' /\ req'[o].item \notin readable'
                    /\ req'[o].pc = "l0_index" => req'[o].l0 \cap readable' = {}
  BY DEF Counted, Out
<1>1. CASE Calls(o)
  <2>1. UNCHANGED <<copies, late, tomb, readable>> /\ copies = {}
    BY <1>1 DEF Calls, Check, L0Check, NothingLeft, data, paths
  <2>2. \/ Check(o) /\ req'[o].pc = "index"
        \/ L0Check(o) /\ req'[o].pc = "l0_index"
    BY <1>1 DEF Calls
  <2>3. Check(o) => req[o].item \in tomb /\ req[o].item \notin readable
    BY DEF Check, NothingLeft
  <2>4. L0Check(o) => req[o].l0 \cap readable = {}
    BY DEF L0Check, NothingLeft
  <2> QED
    BY <1>1, <2>1, <2>2, <2>3, <2>4 DEF Calls
<1>2. CASE Same(o)
  <2>1. /\ copies \subseteq late
        /\ req[o].pc = "index" => req[o].item \in tomb /\ req[o].item \notin readable
        /\ req[o].pc = "l0_index" => req[o].l0 \cap readable = {}
    BY <1>2 DEF Same, Counted
  <2>2. tomb \subseteq tomb' /\ readable' \subseteq readable
    BY NextPaths DEF Removes
  <2>3. copies' \subseteq late'
    <3>1. CASE UNCHANGED paths
      BY <2>1, <3>1 DEF paths
    <3>2. CASE Removes
      BY <2>1, <3>2 DEF Removes, CopiesGo, CopiesHalfGo
    <3>3. ASSUME NEW c \in Copies, CopyBegins(c) \/ CopyRegisters(c) \/ CopyDies(c)
          PROVE  copies' \subseteq late'
      <4>1. CallIsOut
        BY <1>2 DEF Same, CallIsOut, Out
      <4> QED
        BY <2>1, <3>3, <4>1 DEF CopyBegins, CopyRegisters, CopyDies
    <3> QED
      BY <3>1, <3>2, <3>3, NextPaths
  <2> QED
    BY <1>2, <2>1, <2>2, <2>3 DEF Same
<1> QED
  BY <1>1, <1>2, NextCalls

-----------------------------------------------------------------------------
(* The theorems. *)

LEMMA InitInv == Init => Inv
<1> SUFFICES ASSUME Init PROVE Inv
  OBVIOUS
<1>1. NoBackup \in CommandRecord /\ NoBackup.pc = "idle" /\ NoBackup.proof = None
  BY DEF NoBackup, CommandRecord
<1>2. req \in [Requests -> ReqRecord] /\ \A r \in Requests : Fresh(req[r]) /\ req[r].pc = "idle"
  BY IdleType DEF Init
<1>3. runs = <<>> /\ lock = Free /\ ~erasing /\ backup = NoBackup
  BY DEF Init
<1>4. runs \in Seq(RunRecord) /\ DOMAIN runs = {}
  BY <1>3
<1>5. RestType /\ lock \in LeaseRecord
  BY RetentionAssumption DEF Init, RestType, PathsType, LeaseRecord, Free, Items
<1>6. TypeOK
  BY <1>1, <1>2, <1>3, <1>4, <1>5
     DEF TypeOK, RestType, PathsType, LeaseRecord, CommandRecord, Deleting
<1>7. OwnersHoldLock
  BY <1>1, <1>2, <1>3 DEF OwnersHoldLock, Fresh
<1>8. OneLiveLease /\ Cutoffs /\ Recorded /\ DrainedIsClean /\ AnswersTrue /\ BackupIsClean
  BY <1>1, <1>2, <1>3, <1>4 DEF OneLiveLease, Cutoffs, Past, Recorded,
     DrainedIsClean,
     AnswersTrue, BackupIsClean, Deleting, Fresh
<1>9. InForce
  BY <1>2, <1>5 DEF InForce, Fresh, RestType
<1>10. Traces /\ Counted
  BY <1>2 DEF Init, Traces, Counted, Out
<1> QED
  BY <1>6, <1>7, <1>8, <1>9, <1>10 DEF Inv

LEMMA NextInv == Inv /\ [Next]_vars => Inv'
BY NextType, NextOwners, NextLeases, NextCutoffs, NextRecorded,
   NextDrainedClean,
   NextAnswers, NextBackup, NextInForce, NextTraces, NextCounted DEF Inv

THEOREM Invariance == Spec => []Inv
BY InitInv, NextInv, PTL DEF Spec

\* Type correctness.
THEOREM TypeCorrect == Spec => []TypeOK
<1>1. Inv => TypeOK
  BY DEF Inv
<1> QED
  BY <1>1, Invariance, PTL

\* At most one draining run has a lease that has not passed.
THEOREM AtMostOneLiveLease == Spec => []OneLiveLease
<1>1. Inv => OneLiveLease
  BY DEF Inv
<1> QED
  BY <1>1, Invariance, PTL

\* Whoever works under a lease of its own holds the lifecycle lock: the erasure,
\* the backup command and the requests exclude one another.
THEOREM LockIsHeld == Spec => []OwnersHoldLock
<1>1. Inv => OwnersHoldLock
  BY DEF Inv
<1> QED
  BY <1>1, Invariance, PTL

\* A run in status drained left nothing before its cutoffs, for ever: edits give
\* a memory the date of a later day.
THEOREM DrainedStaysClean == Spec => []DrainedIsClean
<1>1. Inv => DrainedIsClean
  BY DEF Inv
<1> QED
  BY <1>1, Invariance, PTL

\* A backup made under a drained answer copies nothing that had expired.
THEOREM CopiedClean == Spec => []BackupIsClean
<1>1. Inv => BackupIsClean
  BY DEF Inv
<1> QED
  BY <1>1, Invariance, PTL

LastOfItem ==
  index' # index =>
    /\ (index \ index') \cap readable = {}
    /\ (index \ index') \cap L1 \subseteq tomb
    /\ disk \subseteq headless \cup stray \cup making \cup late

LEMMA LastOfItemStep == Inv /\ [Next]_vars => LastOfItem
<1> SUFFICES ASSUME Inv, [Next]_vars PROVE LastOfItem
  OBVIOUS
<1>1. TypeOK /\ Traces /\ Counted
  BY DEF Inv
<1>2. ASSUME NEW r \in Requests, Index(r) PROVE LastOfItem
  <2>1. /\ copies \subseteq late
        /\ req[r].item \in tomb /\ req[r].item \notin readable
    BY <1>1, <1>2 DEF Index, Counted, Out
  <2>2. index' = index \ {req[r].item}
    BY <1>2 DEF Index
  <2> QED
    BY <1>1, <2>1, <2>2 DEF Traces, LastOfItem
<1>3. ASSUME NEW r \in Requests, L0Index(r) PROVE LastOfItem
  <2>1. req[r].l0 \subseteq L0
    BY <1>1 DEF TypeOK, ReqRecord
  <2>2. copies \subseteq late /\ req[r].l0 \cap readable = {}
    BY <1>1, <1>3 DEF L0Index, Counted, Out
  <2>3. index' = index \ req[r].l0
    BY <1>3 DEF L0Index
  <2> QED
    BY <1>1, <2>1, <2>2, <2>3, RetentionAssumption DEF Traces, LastOfItem
<1>4. CASE UNCHANGED index
  BY <1>4 DEF LastOfItem
<1>5. ASSUME NEW r \in Requests, Maintenance(r) \/ BackupAsks(r)
      PROVE  UNCHANGED index \/ Index(r) \/ L0Index(r)
  BY <1>5 DEF Maintenance, Begin, Plan, PlanFails, Tombstone, Files, L0Files, RemoveFiles,
     Check, L0Check, NothingLeft, BatchFails, Verify, BackupAsks, data
<1>6. ASSUME NEW c \in Copies, CopyBegins(c) \/ CopyRegisters(c) \/ CopyDies(c)
      PROVE  UNCHANGED index
  BY <1>6 DEF CopyBegins, CopyRegisters, CopyDies
<1>7. \/ UNCHANGED index
      \/ \E r \in Requests : Maintenance(r) \/ BackupAsks(r)
      \/ \E c \in Copies : CopyBegins(c) \/ CopyRegisters(c) \/ CopyDies(c)
  BY DEF Next, User, Backup, vars, data, NewDay, UpdatePolicy, Transition, Edit, EraseBegin,
     EraseEnd, Crash, Start, BackupBegin, BackupHears, BackupGivesUp, BackupStops,
     BackupCopies, BackupCopied, BackupInstalls, BackupDies, LeasePasses
<1> QED
  BY <1>2, <1>3, <1>4, <1>5, <1>6, <1>7

\* The upstream row of an item goes after its readable row, for a memory after its
\* tombstone, and when of the copies nothing is left but remains of half-removed
\* backups, what killed data commands left, copies still being made, and those
\* registered while the call was out.
THEOREM IndexIsLast == Spec => IndexGoesLast
<1>1. Inv /\ [Next]_vars => [index' # index =>
        /\ (index \ index') \cap readable = {}
        /\ (index \ index') \cap L1 \subseteq tomb
        /\ disk \subseteq headless \cup stray \cup making \cup late]_vars
  BY LastOfItemStep DEF LastOfItem
<1> QED
  BY <1>1, Invariance, PTL DEF Spec, IndexGoesLast

Authorized ==
  Len(runs') > Len(runs) =>
    LET run == runs'[Len(runs')] IN
    /\ Status = "authorized"
    /\ run.policy = policy.rev /\ run.auth = auth.rev
    /\ (run.cut0 = None) = (policy.l0 = None)
    /\ run.cut0 # None => run.cut0 <= Cutoff(policy.l0)
    /\ (run.cut1 = None) = (policy.l1 = None)
    /\ run.cut1 # None => run.cut1 <= Cutoff(policy.l1)

LEMMA AuthorizedStep == Inv /\ [Next]_vars => Authorized
<1> SUFFICES ASSUME Inv, [Next]_vars PROVE Authorized
  OBVIOUS
<1>1. TypeOK /\ InForce
  BY DEF Inv
<1>2. CASE Len(runs') = Len(runs)
  BY <1>1, <1>2 DEF Authorized, TypeOK
<1>3. ASSUME NEW r \in Requests, Plan(r), ~UNCHANGED runs PROVE Authorized
  <2>1. /\ Unchanged(r) /\ req[r].pc = "plan"
        /\ \E row \in RunRecord :
             /\ runs' = Append(runs, row)
             /\ row.policy = policy.rev /\ row.auth = auth.rev
             /\ row.cut0 = req[r].cut0 /\ row.cut1 = req[r].cut1
    BY <1>1, <1>3, PlanFacts DEF Plan
  <2>2. PICK row \in RunRecord :
             /\ runs' = Append(runs, row)
             /\ row.policy = policy.rev /\ row.auth = auth.rev
             /\ row.cut0 = req[r].cut0 /\ row.cut1 = req[r].cut1
    BY <2>1
  <2>3. runs'[Len(runs')] = row
    BY <1>1, <2>2 DEF TypeOK
  <2>4. Of(req[r].cut0, policy.l0) /\ Of(req[r].cut1, policy.l1) /\ Status = "authorized"
    BY <1>1, <2>1 DEF InForce, Unchanged
  <2> QED
    BY <2>2, <2>3, <2>4 DEF Authorized, Of
<1>4. Len(runs') = Len(runs) \/ \E r \in Requests : Plan(r) /\ ~UNCHANGED runs
  <2>1. ASSUME NEW r \in Requests, Fails(r) \/ Verify(r) PROVE Len(runs') = Len(runs)
    <3>1. req[r].run \in DOMAIN runs
      BY <1>1, <2>1 DEF Fails, Verify, TypeOK, Working
    <3>2. \E status \in {"draining", "drained", "partial"} : Record(r, status)
      BY <2>1 DEF Fails, Verify
    <3> QED
      BY <1>1, <3>1, <3>2, RecordFacts
  <2>2. ASSUME NEW k \in DOMAIN runs, LeasePasses(k) PROVE Len(runs') = Len(runs)
    BY <1>1, <2>2 DEF LeasePasses, TypeOK
  <2>3. \/ UNCHANGED runs
        \/ \E r \in Requests : Plan(r) \/ Fails(r) \/ Verify(r)
        \/ \E k \in DOMAIN runs : LeasePasses(k)
    BY <1>1, StepKinds DEF vars, NewDay, UpdatePolicy, Transition, Edit, EraseBegin,
       EraseEnd, Crash, Start, Begin, PlanFails, Deletes, CopyWork, BackupWork, Aside,
       BackupBegin, BackupHears, BackupGivesUp, BackupStops, BackupInstalls, BackupDies,
       BackupAsks, settings
  <2> QED
    BY <2>1, <2>2, <2>3
<1> QED
  BY <1>2, <1>3, <1>4

\* A run is started only under the policy and authorization in force.
THEOREM StartIsAuthorized == Spec => StartsAuthorized
<1>1. Inv /\ [Next]_vars => [Len(runs') > Len(runs) =>
        LET run == runs'[Len(runs')] IN
        /\ Status = "authorized"
        /\ run.policy = policy.rev /\ run.auth = auth.rev
        /\ (run.cut0 = None) = (policy.l0 = None)
        /\ run.cut0 # None => run.cut0 <= Cutoff(policy.l0)
        /\ (run.cut1 = None) = (policy.l1 = None)
        /\ run.cut1 # None => run.cut1 <= Cutoff(policy.l1)]_vars
  BY AuthorizedStep DEF Authorized
<1> QED
  BY <1>1, Invariance, PTL DEF Spec, StartsAuthorized
=============================================================================
