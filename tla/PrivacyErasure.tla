---------------------------- MODULE PrivacyErasure ----------------------------
(***************************************************************************)
(* Verifiable cascading erasure of an L1 memory: the preview, cancel and   *)
(* execute operations of PrivacyDeletionService                            *)
(* (apps/gateway/src/privacy-deletions.ts) and the route that runs execute *)
(* under the data lifecycle mutex (apps/gateway/src/app.ts).               *)
(*                                                                         *)
(* A memory has rows in four stores, may occur verbatim in derived L2/L3   *)
(* files and in registered exports and backups, and has product metadata.  *)
(* Plans and executions live in the Gateway's memory; everything else      *)
(* survives a restart.  Exports and backups are made by a process of its   *)
(* own, which looks for the Gateway's runtime marker when it begins.       *)
(***************************************************************************)
EXTENDS Integers, FiniteSets

CONSTANTS
  Memories,     \* L1 memory ids
  Versions,     \* contents a memory can have, 1 .. the last one
  Scenes,       \* L2 scenario files
  Core,         \* the L3 persona file
  Artifacts,    \* paths of exports and backups
  Backups,      \* the paths of backups, which are directories; exports are files
  Tokens,       \* identities of deletion plans
  MaxPlans,     \* MAX_DELETION_PLANS
  None

Files == Scenes \cup {Core}
Stores == {"readable_l0", "readable_l1", "source_l0", "index_l1"}
Text == Memories \X Versions

Plan == [memory: Memories, version: Versions, derived: SUBSET Files,
         snapshot: [Files -> SUBSET Text], artifacts: SUBSET Artifacts,
         state: {"pending", "running", "partial"}, expired: BOOLEAN]

Steps == {"check", "derived_l2", "derived_l3", "readable_l0", "readable_l1",
          "source_l0", "managed_copies", "product_metadata", "index_l1", "verify"}

ASSUME ErasureAssumption ==
  /\ Versions \subseteq Nat /\ 1 \in Versions
  /\ Core \notin Scenes
  /\ Backups \subseteq Artifacts
  /\ None \notin Tokens \cup Plan
  /\ MaxPlans \in Nat

VARIABLES
  rows,      \* per memory: the stores that still hold rows of it
  content,   \* per memory: its current content in the L1 index
  file,      \* per derived file: the <<memory, version>> texts occurring in it
  tomb,      \* memories with status deleted in the state table
  meta,      \* memories with reviews, validity windows or relations
  ledger,    \* artifacts registered as active
  disk,      \* per artifact: the memories it holds, {} when its path is gone
  headless,  \* backups of which manifest.json is gone and data is left
  receipt,   \* per memory: the erasure receipt
  copying,   \* per artifact: what an unfinished export or backup has read
  stray,     \* history: copies registered after a Gateway start, or never
  up,        \* the Gateway runs
  plan,      \* Gateway memory: the plan objects, listed or being executed
  plans,     \* Gateway memory: the tokens in the `plans` map
  prev,      \* Gateway memory: the previews under way, by the token to come
  exec       \* Gateway memory: the execution under way, holder of the mutex

store == <<rows, content, file, tomb, meta, ledger, disk, headless, receipt>>
copies == <<copying, stray>>
gateway == <<up, plan, plans, prev, exec>>
vars == <<store, copies, gateway>>

NoPreview == [pc |-> "idle", memory |-> None, version |-> 0]
NoExec == [pc |-> "idle", token |-> None, failed |-> FALSE, deleted |-> {}]

-----------------------------------------------------------------------------
Init ==
  /\ rows = [m \in Memories |-> Stores]
  /\ content = [m \in Memories |-> 1]
  /\ file = [f \in Files |-> {}]
  /\ tomb = {}
  /\ meta = Memories
  /\ ledger = {}
  /\ disk = [a \in Artifacts |-> {}]
  /\ headless = {}
  /\ receipt = [m \in Memories |-> "none"]
  /\ copying = [a \in Artifacts |-> None]
  /\ stray = {}
  /\ up = TRUE
  /\ plan = [t \in Tokens |-> None]
  /\ plans = {}
  /\ prev = [t \in Tokens |-> NoPreview]
  /\ exec = NoExec

Indexed(m) == "index_l1" \in rows[m]
Occurs(m, v, f) == <<m, v>> \in file[f]

-----------------------------------------------------------------------------
(* The rest of the system: the upstream writes what it still has into      *)
(* derived files, a memory is corrected, an export or backup is made.      *)

Derive(m, f) ==
  /\ up
  /\ Indexed(m)
  /\ file' = [file EXCEPT ![f] = @ \cup {<<m, content[m]>>}]
  /\ UNCHANGED <<rows, content, tomb, meta, ledger, disk, headless, receipt>>
  /\ UNCHANGED <<copies, gateway>>

\* update(), an approved review or a merging relation: only the first looks at
\* the tombstone, and it does so before its upstream call.
Correct(m) ==
  /\ up
  /\ Indexed(m)
  /\ content[m] + 1 \in Versions
  /\ content' = [content EXCEPT ![m] = @ + 1]
  /\ UNCHANGED <<rows, file, tomb, meta, ledger, disk, headless, receipt>>
  /\ UNCHANGED <<copies, gateway>>

\* deleteL1(): a tombstone, then the index row; everything else stays.
Delete(m) ==
  /\ up
  /\ tomb' = tomb \cup {m}
  /\ rows' \in {rows, [rows EXCEPT ![m] = @ \ {"index_l1"}]}
  /\ UNCHANGED <<content, file, meta, ledger, disk, headless, receipt>>
  /\ UNCHANGED <<copies, gateway>>

\* A review, a validity window or a relation: none looks at the tombstone.
Annotate(m) ==
  /\ up
  /\ m \notin meta
  /\ meta' = meta \cup {m}
  /\ UNCHANGED <<rows, content, file, tomb, ledger, disk, headless, receipt>>
  /\ UNCHANGED <<copies, gateway>>

\* createPortableBackup and createReadableExport: the marker is looked at once,
\* then the data is read and the copy written; last it is registered.
CopyBegin(a) ==
  /\ ~up
  /\ a \notin ledger /\ disk[a] = {} /\ copying[a] = None
  /\ copying' = [copying EXCEPT ![a] = {m \in Memories : rows[m] # {}}]
  /\ UNCHANGED <<store, stray, gateway>>

\* The second disjunct: the process is killed before it could register.
CopyEnd(a) ==
  /\ copying[a] # None
  /\ disk' = [disk EXCEPT ![a] = copying[a]]
  /\ copying' = [copying EXCEPT ![a] = None]
  /\ \/ ledger' = ledger \cup {a} /\ UNCHANGED stray
     \/ stray' = stray \cup {a} /\ UNCHANGED ledger
  /\ UNCHANGED <<rows, content, file, tomb, meta, headless, receipt, gateway>>

Stop ==
  /\ up
  /\ up' = FALSE
  /\ plan' = [t \in Tokens |-> None]
  /\ plans' = {}
  /\ prev' = [t \in Tokens |-> NoPreview]
  /\ exec' = NoExec
  /\ UNCHANGED <<store, copies>>

Start ==
  /\ ~up
  /\ up' = TRUE
  /\ stray' = stray \cup {a \in Artifacts : copying[a] # None}
  /\ UNCHANGED <<store, copying, plan, plans, prev, exec>>

\* Ten minutes (an hour for a partial plan) pass.
Expire(t) ==
  /\ t \in plans
  /\ ~plan[t].expired
  /\ plan' = [plan EXCEPT ![t].expired = TRUE]
  /\ UNCHANGED <<store, copies, up, plans, prev, exec>>

-----------------------------------------------------------------------------
(* preview(): prune, replace an older plan and check the limit; read the   *)
(* memory; then read the derived files and the ledger and store the plan.  *)

Unpruned == {t \in plans : plan[t].expired => plan[t].state = "running"}

\* Tokens leave the map; the object lives on while it is being executed.
Forget(T) ==
  /\ plans' = plans \ T
  /\ plan' = [t \in Tokens |-> IF t \in T /\ exec.token # t THEN None ELSE plan[t]]

PreviewBegin(m, t) ==
  LET older == {o \in Unpruned : plan[o].memory = m} IN
  /\ up
  /\ t \notin plans /\ exec.token # t /\ prev[t] = NoPreview
  /\ \/ /\ \E o \in older : plan[o].state = "running"        \* PLAN_RUNNING
        /\ Forget(plans \ Unpruned) /\ UNCHANGED prev
     \/ /\ \A o \in older : plan[o].state # "running"
        /\ Forget(plans \ (Unpruned \ older))
        /\ prev' = [prev EXCEPT ![t] =
             IF Cardinality(plans') >= MaxPlans THEN NoPreview
             ELSE [pc |-> "findL1", memory |-> m, version |-> 0]]
  /\ UNCHANGED <<store, copies, up, exec>>

\* The second disjunct: NOT_FOUND, or the upstream fails.
PreviewFindL1(t) ==
  /\ prev[t].pc = "findL1"
  /\ \/ /\ Indexed(prev[t].memory)
        /\ prev' = [prev EXCEPT ![t].pc = "findDerived",
                                ![t].version = content[prev[t].memory]]
     \/ prev' = [prev EXCEPT ![t] = NoPreview]
  /\ UNCHANGED <<store, copies, up, plan, plans, exec>>

\* Mutant: the plan does not name the registered copies.
PreviewStoreNoCopies(t) ==
  LET m == prev[t].memory  v == prev[t].version
      D == {f \in Files : Occurs(m, v, f)} IN
  /\ prev[t].pc = "findDerived"
  /\ plan' = [plan EXCEPT ![t] =
       [memory |-> m, version |-> v, derived |-> D,
        snapshot |-> [f \in Files |-> IF f \in D THEN file[f] ELSE {}],
        artifacts |-> {}, state |-> "pending", expired |-> FALSE]]
  /\ plans' = plans \cup {t}
  /\ prev' = [prev EXCEPT ![t] = NoPreview]
  /\ UNCHANGED <<store, copies, up, exec>>

PreviewStore(t) ==
  LET m == prev[t].memory  v == prev[t].version
      D == {f \in Files : Occurs(m, v, f)} IN
  /\ prev[t].pc = "findDerived"
  /\ plan' = [plan EXCEPT ![t] =
       [memory |-> m, version |-> v, derived |-> D,
        snapshot |-> [f \in Files |-> IF f \in D THEN file[f] ELSE {}],
        artifacts |-> ledger, state |-> "pending", expired |-> FALSE]]
  /\ plans' = plans \cup {t}
  /\ prev' = [prev EXCEPT ![t] = NoPreview]
  /\ UNCHANGED <<store, copies, up, exec>>

\* requirePlan() drops an expired plan, whatever its state.
Cancel(t) ==
  /\ t \in plans
  /\ plan[t].expired \/ plan[t].state # "running"
  /\ Forget({t})
  /\ UNCHANGED <<store, copies, up, prev, exec>>

-----------------------------------------------------------------------------
(* execute()                                                               *)

ThePlan == plan[exec.token]

\* Mutant: the plan of an incomplete execution keeps its state.
EndRunning(t) ==
  /\ exec' = NoExec
  /\ plan' = [plan EXCEPT ![t] =
       IF t \in plans THEN [@ EXCEPT !.state = "running", !.expired = FALSE] ELSE None]

\* The execution of t ends incomplete: the plan can be retried for an hour.
EndPartial(t) ==
  /\ exec' = NoExec
  /\ plan' = [plan EXCEPT ![t] =
       IF t \in plans THEN [@ EXCEPT !.state = "partial", !.expired = FALSE] ELSE None]

\* Mutant: a failed tombstone does not stop the execution.
RunUntombstoned(t) ==
  /\ exec' = [exec EXCEPT !.pc = "derived_l2", !.token = t]
  /\ plan' = [plan EXCEPT ![t].state = "running"]
  /\ tomb' \in {tomb, tomb \cup {plan[t].memory}}

\* The state becomes running and the tombstone is written, in one go; when
\* the write fails nothing else is attempted.
Run(t) ==
  \/ /\ tomb' = tomb \cup {plan[t].memory}
     /\ plan' = [plan EXCEPT ![t].state = "running"]
     /\ exec' = [exec EXCEPT !.pc = "derived_l2", !.token = t]
  \/ EndPartial(t) /\ UNCHANGED tomb

AfterRun ==
  <<rows, content, file, meta, ledger, disk, headless, receipt, copies, up, prev>>

\* The route takes the mutex and execute() looks the plan up.  The target of a
\* pending plan is read again first, a partial plan is resumed at once.
ExecuteBegin(t) ==
  /\ up /\ exec = NoExec /\ t \in plans
  /\ \/ /\ plan[t].expired
        /\ Forget({t})
        /\ UNCHANGED <<exec, tomb>>
     \/ /\ ~plan[t].expired /\ plan[t].state = "pending"
        /\ exec' = [NoExec EXCEPT !.pc = "check", !.token = t]
        /\ UNCHANGED <<plan, plans, tomb>>
     \/ /\ ~plan[t].expired /\ plan[t].state = "partial"
        /\ Run(t)
        /\ UNCHANGED plans
  /\ UNCHANGED AfterRun

\* findL1 answers: UPSTREAM_REJECTED and PLAN_STALE leave the plan pending.
Check ==
  /\ exec.pc = "check"
  /\ \/ /\ exec' = NoExec
        /\ plan' = [plan EXCEPT ![exec.token] = IF exec.token \in plans THEN @ ELSE None]
        /\ UNCHANGED tomb
     \/ /\ Indexed(ThePlan.memory)
        /\ content[ThePlan.memory] = ThePlan.version
        /\ Run(exec.token)
  /\ UNCHANGED <<plans, AfterRun>>

\* One attempt(): the step succeeds, or its error is recorded and the next
\* step is tried.  A call that failed may have had its effect.
Attempt(step, next, old, new) ==
  /\ exec.pc = step
  /\ \/ new /\ exec' = [exec EXCEPT !.pc = next]
     \/ (old \/ new) /\ exec' = [exec EXCEPT !.pc = next, !.failed = TRUE]

\* Whole-file writes of the preview's snapshot with the text redacted.
Redact(F) ==
  file' = [f \in Files |->
             IF f \in F \cap ThePlan.derived
             THEN ThePlan.snapshot[f] \ {<<ThePlan.memory, ThePlan.version>>}
             ELSE file[f]]

DerivedStep ==
  /\ \/ Attempt("derived_l2", "derived_l3",
                \E F \in SUBSET Scenes : Redact(F), Redact(Scenes))
     \/ Attempt("derived_l3", "readable_l0", Redact({}), Redact({Core}))
  /\ UNCHANGED <<rows, content, tomb, meta, ledger, disk, headless, receipt>>
  /\ UNCHANGED <<copies, up, plan, plans, prev>>

DropRows(store1) == rows' = [rows EXCEPT ![ThePlan.memory] = @ \ {store1}]

RowStep ==
  /\ \/ Attempt("readable_l0", "readable_l1", UNCHANGED rows, DropRows("readable_l0"))
     \/ Attempt("readable_l1", "source_l0", UNCHANGED rows, DropRows("readable_l1"))
     \/ Attempt("source_l0", "managed_copies", UNCHANGED rows, DropRows("source_l0"))
  /\ UNCHANGED <<content, file, tomb, meta, ledger, disk, headless, receipt>>
  /\ UNCHANGED <<copies, up, plan, plans, prev>>

\* Copies are removed one by one until one cannot be; the ones removed in this
\* execution are the ones marked deleted with the metadata.  A backup without
\* its manifest is taken for a removed one, and stays where it is.
RemoveCopies(A) ==
  disk' = [a \in Artifacts |-> IF a \in A \ headless THEN {} ELSE disk[a]]

\* The recursive removal of backup b stops half way: its manifest is gone, and
\* what is left may hold any of its data.
Behead(b) ==
  /\ b \in Backups \ headless /\ disk[b] # {}
  /\ headless' = headless \cup {b}

\* Mutant: the copies are marked deleted whether they could be removed or not.
CopyStepAll ==
  /\ exec.pc = "managed_copies"
  /\ \E A \in SUBSET ThePlan.artifacts :
       /\ RemoveCopies(A)
       /\ UNCHANGED headless
       /\ exec' = [exec EXCEPT !.pc = "product_metadata", !.deleted = ThePlan.artifacts,
                               !.failed = @ \/ A # ThePlan.artifacts]
  /\ UNCHANGED <<rows, content, file, tomb, meta, ledger, receipt>>
  /\ UNCHANGED <<copies, up, plan, plans, prev>>

CopyStep ==
  /\ exec.pc = "managed_copies"
  /\ \E A \in SUBSET ThePlan.artifacts :
       /\ RemoveCopies(A)
       /\ UNCHANGED headless \/ \E b \in ThePlan.artifacts \ A : Behead(b)
       /\ exec' = [exec EXCEPT !.pc = "product_metadata", !.deleted = A,
                               !.failed = @ \/ A # ThePlan.artifacts]
  /\ UNCHANGED <<rows, content, file, tomb, meta, ledger, receipt>>
  /\ UNCHANGED <<copies, up, plan, plans, prev>>

\* Mutant: the index is deleted whatever failed before.
MetadataThenIndex ==
  /\ exec.pc = "product_metadata"
  /\ \/ /\ meta' = meta \ {ThePlan.memory}
        /\ ledger' = ledger \ exec.deleted
        /\ tomb' = tomb \cup {ThePlan.memory}
        /\ exec' = [exec EXCEPT !.pc = "index_l1"]
     \/ /\ exec' = [exec EXCEPT !.pc = "index_l1", !.failed = TRUE]
        /\ UNCHANGED <<meta, ledger, tomb>>
  /\ UNCHANGED <<rows, content, file, disk, headless, receipt>>
  /\ UNCHANGED <<copies, up, plan, plans, prev>>

\* One transaction; the index is only deleted when nothing failed so far.
MetadataStep ==
  /\ exec.pc = "product_metadata"
  /\ \/ /\ meta' = meta \ {ThePlan.memory}
        /\ ledger' = ledger \ exec.deleted
        /\ tomb' = tomb \cup {ThePlan.memory}
        /\ exec' = [exec EXCEPT !.pc = IF exec.failed THEN "verify" ELSE "index_l1"]
     \/ /\ exec' = [exec EXCEPT !.pc = "verify", !.failed = TRUE]
        /\ UNCHANGED <<meta, ledger, tomb>>
  /\ UNCHANGED <<rows, content, file, disk, headless, receipt>>
  /\ UNCHANGED <<copies, up, plan, plans, prev>>

IndexStep ==
  /\ Attempt("index_l1", "verify", UNCHANGED rows, DropRows("index_l1"))
  /\ UNCHANGED <<content, file, tomb, meta, ledger, disk, headless, receipt>>
  /\ UNCHANGED <<copies, up, plan, plans, prev>>

\* What verify() counts; a path of the plan, whatever is left at it.
Residue ==
  \/ rows[ThePlan.memory] # {}
  \/ \E f \in Files : Occurs(ThePlan.memory, ThePlan.version, f)
  \/ \E a \in ThePlan.artifacts : disk[a] # {}
  \/ ThePlan.memory \notin tomb

\* residual_verification, the receipt and the answer.
Finish ==
  /\ exec.pc = "verify"
  /\ \/ /\ ~exec.failed /\ ~Residue
        /\ receipt' = [receipt EXCEPT ![ThePlan.memory] = "complete"]
        /\ plans' = plans \ {exec.token}
        /\ plan' = [plan EXCEPT ![exec.token] = None]
        /\ exec' = NoExec
     \/ /\ receipt' \in {receipt, [receipt EXCEPT ![ThePlan.memory] = "partial"]}
        /\ EndPartial(exec.token)
        /\ UNCHANGED plans
  /\ UNCHANGED <<rows, content, file, tomb, meta, ledger, disk, headless, copies, up, prev>>

Execute == Check \/ DerivedStep \/ RowStep \/ CopyStep \/ MetadataStep \/ IndexStep \/ Finish

Next ==
  \/ \E m \in Memories : Correct(m) \/ Delete(m) \/ Annotate(m)
  \/ \E m \in Memories, t \in Tokens : PreviewBegin(m, t)
  \/ \E m \in Memories, f \in Files : Derive(m, f)
  \/ \E t \in Tokens : \/ PreviewFindL1(t) \/ PreviewStore(t)
                       \/ Cancel(t) \/ Expire(t) \/ ExecuteBegin(t)
  \/ Execute
  \/ \E a \in Artifacts : CopyBegin(a) \/ CopyEnd(a)
  \/ Stop \/ Start

Spec == Init /\ [][Next]_vars

-----------------------------------------------------------------------------
(* Properties.                                                             *)

\* Stores, plans and the execution have their types (DeletionPlan and the
\* ledgers of privacy-ledger.ts).
TypeOK ==
  /\ rows \in [Memories -> SUBSET Stores]
  /\ content \in [Memories -> Versions]
  /\ file \in [Files -> SUBSET Text]
  /\ tomb \in SUBSET Memories
  /\ meta \in SUBSET Memories
  /\ ledger \in SUBSET Artifacts
  /\ disk \in [Artifacts -> SUBSET Memories]
  /\ headless \in SUBSET Backups
  /\ receipt \in [Memories -> {"none", "partial", "complete"}]
  /\ up \in BOOLEAN
  /\ plan \in [Tokens -> Plan \cup {None}]
  /\ plans \in SUBSET {t \in Tokens : plan[t] # None}
  /\ prev \in [Tokens -> {NoPreview} \cup
       [pc : {"findL1", "findDerived"}, memory : Memories, version : Versions \cup {0}]]
  /\ copying \in [Artifacts -> (SUBSET Memories) \cup {None}]
  /\ stray \in SUBSET Artifacts
  /\ exec \in [pc : Steps \cup {"idle"}, token : Tokens \cup {None},
               failed : BOOLEAN, deleted : SUBSET Artifacts]
  /\ exec.pc # "idle" => exec.token \in Tokens /\ plan[exec.token] # None

\* Data of a memory is only ever destroyed behind its tombstone, so recall and
\* browsing suppress it from before the first row, copy or index is touched,
\* whatever fails and whenever the process dies.
TombstoneFirst ==
  \A m \in Memories :
    rows[m] # Stores \/ m \notin meta \/ receipt[m] # "none" => m \in tomb

\* The execution deletes the index row, the fact source that a new preview
\* needs, only when no other row and no copy named by the plan is left, however
\* often it was interrupted, failed and was resumed or planned again; but for
\* the backups whose removal stopped half way, which a retry takes for removed.
IndexGoesLast ==
  [][\A m \in Memories :
       exec' # exec /\ Indexed(m) /\ ~Indexed(m)' =>
         /\ rows[m] = {"index_l1"}
         /\ \A a \in ThePlan.artifacts : disk[a] = {} \/ a \in headless]_vars

\* A complete receipt is and stays the truth about every store, and about every
\* copy but two kinds: those whose making overlapped a run of the Gateway or was
\* killed, and the remains of a backup whose removal stopped half way, once an
\* execution has struck it off the ledger.  No registered path is left, though.
CompleteMeansGone ==
  \A m \in Memories :
    receipt[m] = "complete" =>
      /\ rows[m] = {} /\ m \in tomb
      /\ \A a \in Artifacts : m \in disk[a] => a \in stray \/ a \in headless \ ledger

\* A listed plan in state running has its execution: no plan refuses cancel,
\* preview and execute as PLAN_RUNNING with nothing running.
RunningHasExecution ==
  \A t \in plans : plan[t].state = "running" => exec.token = t

\* No copy is forgotten: one that was registered stays so until its path is gone,
\* also when its removal, the cleanup after it or the whole execution is cut
\* short; of a backup, only until its manifest is.
CopiesStayRegistered ==
  \A a \in Artifacts : disk[a] # {} => a \in ledger \/ a \in stray \/ a \in headless

\* PRIVACY_ERASURE.md:13 and :36: after a complete erasure the exact text
\* occurs in no derived file, and erased data cannot come back.
ErasedTextStaysErased ==
  \A m \in Memories :
    receipt[m] = "complete" => \A f \in Files : ~Occurs(m, content[m], f)
=============================================================================
