------------------------------- MODULE Retention -------------------------------
(***************************************************************************)
(* Retention maintenance: the route POST /api/v1/retention/maintenance     *)
(* (apps/gateway/src/app.ts), the batch it runs (executeRetentionBatch in  *)
(* privacy-deletions.ts), the authorization and run ledgers                *)
(* (retention-execution-ledger.ts), and the backup command that drains     *)
(* before it stops the Gateway and copies (personalmemory-lifecycle-       *)
(* runtime.mjs).                                                           *)
(*                                                                         *)
(* They meet at the data lifecycle lock, which is LifecycleLock here: the  *)
(* lock of an owner whose process ended can be taken.  Exports and backups *)
(* are made by data commands (portable-data.ts), processes of their own    *)
(* that only look once whether the Gateway runs.  Time is the natural day, *)
(* and whether the lease of a run has passed.                              *)
(***************************************************************************)
EXTENDS Integers, Sequences, FiniteSets, FiniteSetsExt

CONSTANTS
  L0, L1,         \* conversation messages and atomic memories
  Requests,       \* maintenance requests the Gateway can be serving
  Lengths,        \* retention periods in days the policy can name
  FirstPeriod,    \* the period of both levels in the policy it starts with
  BatchL0,        \* messages planned in one batch
  BatchL1,        \* memories planned in one batch
  Copies,         \* exports and backups
  Backups,        \* those that are backups, which are directories; exports are files
  MaxDays,        \* bound of the model: the last day
  MaxChanges,     \* bound of the model: revisions and runs together
  None

ASSUME RetentionAssumption ==
  /\ L0 \cap L1 = {}
  /\ Lengths \subseteq Nat \ {0}
  /\ FirstPeriod \in Lengths \cup {None}
  /\ {BatchL0, BatchL1, MaxDays, MaxChanges} \subseteq Nat \ {0}
  /\ Backups \subseteq Copies /\ None \notin Copies
  /\ None \notin L0 \cup L1 \cup Requests \cup Int
  /\ {"erasure", "backup", None} \cap Requests = {} /\ None \notin {"erasure", "backup"}

VARIABLES
  day,        \* today
  date,       \* per item: the day of its timestamp; one without a valid
              \* timestamp is never planned and not modelled
  index,      \* items in the upstream store
  readable,   \* items with a row in the JSONL files
  tomb,       \* memories with status deleted
  copies,     \* copies registered as active
  disk,       \* copies with data
  headless,   \* backups of which manifest.json is gone and data is left
  making,     \* copies a data command is making, having found no Gateway
  stray,      \* copies of which the command was killed before it registered them
  late,       \* copies registered while a call that deletes rows was out
  policy,     \* the current capture policy: revision and retention periods
  auth,       \* the last row of the authorization ledger
  runs,       \* the run ledger
  lock,       \* the lifecycle lock: its owner, and whether that process ended
  up,         \* the Gateway runs
  req,        \* Gateway memory: the maintenance requests
  erasing,    \* Gateway memory: a complete erasure is being executed
  backup      \* the backup command

paths == <<copies, disk, headless, making, stray, late>>
data == <<date, index, readable, tomb, paths>>
settings == <<policy, auth>>
vars == <<day, data, settings, runs, lock, up, req, erasing, backup>>

Items == L0 \cup L1
Idle == [pc |-> "idle", token |-> "none", policy |-> 0, auth |-> 0,
         cut0 |-> None, cut1 |-> None, l0 |-> {}, l1 |-> {}, item |-> None,
         run |-> 0, answer |-> "none"]
NoBackup == [pc |-> "idle", req |-> None, frozen |-> None, proof |-> None, copy |-> None]
Free == [owner |-> None, stale |-> FALSE]

Init ==
  /\ day = 1
  /\ date = [i \in Items |-> 0]
  /\ index = Items
  /\ readable = Items
  /\ tomb = {}
  /\ copies = {} /\ disk = {} /\ headless = {}
  /\ making = {} /\ stray = {} /\ late = {}
  /\ policy = [rev |-> 1, l0 |-> FirstPeriod, l1 |-> FirstPeriod]
  /\ auth = [rev |-> 0, status |-> "disabled", policy |-> 0]
  /\ runs = <<>>
  /\ lock = Free
  /\ up = TRUE
  /\ req = [r \in Requests |-> Idle]
  /\ erasing = FALSE
  /\ backup = NoBackup

-----------------------------------------------------------------------------
(* Time, the user and the rest of the Gateway. *)

Bounded == (policy.rev - 1) + auth.rev + Len(runs) < MaxChanges

NewDay ==
  /\ day < MaxDays
  /\ day' = day + 1
  /\ UNCHANGED <<data, settings, runs, lock, up, req, erasing, backup>>

Live(k) == runs[k].status = "draining" /\ runs[k].live

\* A minute without a heartbeat: the machine slept, or the Gateway is gone.
LeasePasses(k) ==
  /\ Live(k)
  /\ runs' = [runs EXCEPT ![k].live = FALSE]
  /\ UNCHANGED <<day, data, settings, lock, up, req, erasing, backup>>

UpdatePolicy(l0, l1) ==
  /\ up
  /\ Bounded
  /\ policy' = [rev |-> policy.rev + 1, l0 |-> l0, l1 |-> l1]
  /\ UNCHANGED <<day, data, auth, runs, lock, up, req, erasing, backup>>

Status == IF auth.rev # 0 /\ auth.policy # policy.rev THEN "stale" ELSE auth.status

\* authorize() and revoke(): a new row, unless nothing would change.
Transition(target) ==
  /\ up
  /\ Status # target
  /\ Bounded
  /\ auth' = [rev |-> auth.rev + 1, status |-> target, policy |-> policy.rev]
  /\ UNCHANGED <<day, data, policy, runs, lock, up, req, erasing, backup>>

\* The memory gets new content, and with it a new timestamp: update(), which
\* refuses a tombstoned memory, or an approved review, which does not.
Edit(m) ==
  /\ up
  /\ m \in index
  /\ date' = [date EXCEPT ![m] = day]
  /\ UNCHANGED <<day, index, readable, tomb, paths, settings, runs>>
  /\ UNCHANGED <<lock, up, req, erasing, backup>>

\* A data command finds the marker of the Gateway absent, copies, and registers
\* the copy, by when a Gateway may run again.
CopyBegins(c) ==
  /\ ~up
  /\ c \notin disk \cup copies
  /\ making' = making \cup {c} /\ disk' = disk \cup {c}
  /\ UNCHANGED <<date, index, readable, tomb, copies, headless, stray, late>>
  /\ UNCHANGED <<day, settings, runs, lock, up, req, erasing>>

CallIsOut == \E r \in Requests : req[r].pc \in {"index", "l0_index"}

CopyRegisters(c) ==
  /\ c \in making
  /\ making' = making \ {c}
  /\ copies' = copies \cup {c}
  /\ late' = IF CallIsOut THEN late \cup {c} ELSE late
  /\ UNCHANGED <<day, date, index, readable, tomb, disk, headless, stray, settings, runs>>
  /\ UNCHANGED <<lock, up, req, erasing, backup>>

\* It fails and leaves nothing, or is killed before it registers what it leaves.
CopyDies(c) ==
  /\ c \in making
  /\ making' = making \ {c}
  /\ \/ disk' = disk \ {c} /\ UNCHANGED stray
     \/ stray' = stray \cup {c} /\ UNCHANGED disk
  /\ UNCHANGED <<day, date, index, readable, tomb, copies, headless, late, settings, runs>>
  /\ UNCHANGED <<lock, up, req, erasing, backup>>

-----------------------------------------------------------------------------
(* The lock. *)

Takeable == lock = Free \/ lock.stale
Taken(op) == [owner |-> op, stale |-> FALSE]
Released(op) == IF lock.owner = op THEN Free ELSE lock
Abandoned(ops) == IF lock.owner \in ops THEN [lock EXCEPT !.stale = TRUE] ELSE lock

\* The execute route of a complete erasure (module PrivacyErasure).
EraseBegin ==
  /\ up /\ ~erasing
  /\ Takeable
  /\ lock' = Taken("erasure")
  /\ erasing' = TRUE
  /\ UNCHANGED <<day, data, settings, runs, up, req, backup>>

EraseEnd ==
  /\ erasing
  /\ erasing' = FALSE
  /\ lock' = Released("erasure")
  /\ UNCHANGED <<day, data, settings, runs, up, req, backup>>

-----------------------------------------------------------------------------
(* The maintenance route. *)

\* Strictly before the first of the last `days` natural days, today included.
Cutoff(days) == IF days = None THEN None ELSE day - (days - 1)
Before(i, cut) == cut # None /\ date[i] < cut
Eligible(items, cut) == {i \in items \cap index : Before(i, cut)}

\* The handler ends with an answer; a lease of its own is released, a nested
\* one is not.
Reply(r, answer) ==
  req' = [req EXCEPT ![r] =
    IF backup.req = r THEN [@ EXCEPT !.pc = "answered", !.answer = answer] ELSE Idle]

Answer(r, answer) == Reply(r, answer) /\ lock' = Released(r)

Goto(r, step) == req' = [req EXCEPT ![r].pc = step]

Holds(r) == req[r].token = "backup" /\ lock.owner = "backup"

\* Up to the first await: lock, policy, authorization, cutoffs.  The Hook
\* worker asks once a minute and comes without a token.
Begin(r) ==
  LET periods == {policy.l0, policy.l1} \ {None} IN
  /\ up
  /\ req[r].pc \in {"idle", "sent"}
  /\ \/ /\ ~Holds(r) /\ ~Takeable
        /\ Reply(r, "partial")
        /\ UNCHANGED lock
     \/ /\ Holds(r) \/ Takeable
        /\ periods = {} \/ Status # "authorized"
        /\ Reply(r, IF periods = {} THEN "not_applicable" ELSE "disabled")
        /\ lock' = IF Holds(r) THEN lock ELSE Free
     \/ /\ Holds(r) \/ Takeable
        /\ periods # {} /\ Status = "authorized"
        /\ lock' = IF Holds(r) THEN lock ELSE Taken(r)
        /\ req' = [req EXCEPT ![r] = [@ EXCEPT !.pc = "plan",
                     !.token = IF Holds(r) THEN "nested" ELSE "own",
                     !.policy = policy.rev, !.auth = auth.rev,
                     !.cut0 = Cutoff(policy.l0), !.cut1 = Cutoff(policy.l1)]]
  /\ UNCHANGED <<day, data, settings, runs, up, erasing, backup>>

Batch(items, size) ==
  IF Cardinality(items) <= size THEN {items} ELSE kSubset(size, items)

AfterL1(q) == IF q.l1 # {} THEN "tombstone" ELSE IF q.l0 # {} THEN "l0_files" ELSE "verify"

Unchanged(r) ==
  policy.rev = req[r].policy /\ Status = "authorized" /\ auth.rev = req[r].auth

\* Mutant: the runs under way are not looked at.
AnyLease == TRUE

\* acquire() finds no draining run whose lease has not passed.
LeaseFree == ~\E k \in DOMAIN runs : Live(k)

\* planRetention() and, with no await in between, beforeExecute().
Plan(r) ==
  /\ req[r].pc = "plan"
  /\ IF Unchanged(r) /\ LeaseFree
     THEN \E b0 \in Batch(Eligible(L0, req[r].cut0), BatchL0),
             b1 \in Batch(Eligible(L1, req[r].cut1), BatchL1) :
            /\ Bounded
            /\ runs' = Append(runs, [policy |-> policy.rev, auth |-> auth.rev,
                 cut0 |-> req[r].cut0, cut1 |-> req[r].cut1,
                 status |-> "draining", live |-> TRUE])
            /\ LET q == [req[r] EXCEPT !.l0 = b0, !.l1 = b1, !.run = Len(runs) + 1]
               IN req' = [req EXCEPT ![r] = [q EXCEPT !.pc = AfterL1(q)]]
            /\ UNCHANGED lock
     ELSE Answer(r, "partial") /\ UNCHANGED runs
  /\ UNCHANGED <<day, data, settings, up, erasing, backup>>

\* The first scan fails: the route releases the lock and throws.
PlanFails(r) ==
  /\ req[r].pc = "plan"
  /\ Answer(r, "error")
  /\ UNCHANGED <<day, data, settings, runs, up, erasing, backup>>

\* checkpoint() or complete(), which refuse a run whose lease has passed.
Record(r, status) ==
  LET k == req[r].run IN
  IF Live(k)
  THEN /\ runs' = [runs EXCEPT ![k].status = status,
                               ![k].live = FALSE]
       /\ Answer(r, status)
  ELSE Answer(r, "error") /\ UNCHANGED runs

\* deleteRetentionL1() for the next planned memory.  The rewriting of derived
\* files that follows changes nothing of this model: it succeeds or fails.
Tombstone(r) ==
  /\ req[r].pc = "tombstone"
  /\ \E m \in req[r].l1 :
       /\ tomb' = tomb \cup {m}
       /\ req' = [req EXCEPT ![r].item = m, ![r].pc = "files"]
  /\ UNCHANGED <<day, date, index, readable, paths, settings, runs>>
  /\ UNCHANGED <<lock, up, erasing, backup>>

\* Every registered copy is removed, and they are struck off the ledger together.
\* A backup without its manifest is taken for a removed one, and stays.
CopiesGo ==
  /\ disk' = disk \ (copies \ headless)
  /\ copies' = {} /\ late' = {}
  /\ UNCHANGED headless

\* Some are removed, and a backup perhaps by half, its manifest first; none is
\* struck off.
CopiesHalfGo ==
  \E gone \in SUBSET copies :
    /\ disk' = disk \ (gone \ headless)
    /\ \/ UNCHANGED headless
       \/ \E b \in (copies \cap disk \cap Backups) \ gone : headless' = headless \cup {b}
    /\ UNCHANGED <<copies, late>>

\* Readable rows, then every registered copy and the product metadata.
RemoveFiles(r, items, next) ==
  /\ readable' = readable \ items
  /\ \/ CopiesGo /\ Goto(r, next) /\ UNCHANGED <<runs, lock>>
     \/ CopiesHalfGo /\ Record(r, "partial")
  /\ UNCHANGED <<day, date, index, tomb, making, stray, settings>>
  /\ UNCHANGED <<up, erasing, backup>>

\* The files are counted again; what is left of them makes the batch fail.
NothingLeft(r, items, next) ==
  /\ items \cap readable = {} /\ copies = {}
  /\ Goto(r, next)
  /\ UNCHANGED <<day, data, settings, runs, lock, up, erasing, backup>>

Files(r) == req[r].pc = "files" /\ RemoveFiles(r, {req[r].item}, "check")

\* Mutant: the copies are not counted again.
CheckRows(r) ==
  /\ req[r].pc = "check"
  /\ req[r].item \notin readable /\ req[r].item \in tomb
  /\ Goto(r, "index")
  /\ UNCHANGED <<day, data, settings, runs, lock, up, erasing, backup>>

Check(r) ==
  /\ req[r].pc = "check"
  /\ req[r].item \in tomb
  /\ NothingLeft(r, {req[r].item}, "index")

\* The call that deletes the upstream row is out, and answered.
Index(r) ==
  LET m == req[r].item  q == [req[r] EXCEPT !.l1 = @ \ {m}, !.item = None] IN
  /\ req[r].pc = "index"
  /\ index' = index \ {m}
  /\ req' = [req EXCEPT ![r] = [q EXCEPT !.pc = AfterL1(q)]]
  /\ UNCHANGED <<day, date, readable, tomb, paths, settings, runs>>
  /\ UNCHANGED <<lock, up, erasing, backup>>

\* deleteRetentionL0() for all planned messages.
L0Files(r) == req[r].pc = "l0_files" /\ RemoveFiles(r, req[r].l0, "l0_check")

L0Check(r) == req[r].pc = "l0_check" /\ NothingLeft(r, req[r].l0, "l0_index")

\* Messages, unlike memories, are followed by one more count of the copies.
L0Index(r) ==
  /\ req[r].pc = "l0_index"
  /\ index' = index \ req[r].l0
  /\ IF copies = {} THEN Goto(r, "verify") /\ UNCHANGED <<runs, lock>>
                    ELSE Record(r, "partial")
  /\ UNCHANGED <<day, date, readable, tomb, paths, settings, up, erasing, backup>>

Deleting == {"tombstone", "files", "check", "index", "l0_files", "l0_check", "l0_index"}

\* A call fails, or something is left: nothing after it is attempted.
BatchFails(r) ==
  /\ req[r].pc \in Deleting \cup {"verify"}
  /\ Record(r, "partial")
  /\ UNCHANGED <<day, data, settings, up, erasing, backup>>

\* Mutant: everything planned is deleted, so the run is drained.
VerifyByCount(r) ==
  /\ req[r].pc = "verify"
  /\ Record(r, "drained")
  /\ UNCHANGED <<day, data, settings, up, erasing, backup>>

\* The same scan again, under the same cutoffs, decides.
Verify(r) ==
  /\ req[r].pc = "verify"
  /\ Record(r, IF Eligible(L0, req[r].cut0) \cup Eligible(L1, req[r].cut1) = {}
               THEN "drained" ELSE "draining")
  /\ UNCHANGED <<day, data, settings, up, erasing, backup>>

-----------------------------------------------------------------------------
(* The Gateway process ends and starts, the backup command. *)

GatewayEnds ==
  /\ up' = FALSE
  /\ req' = [r \in Requests |-> IF backup.req = r /\ backup.pc = "wait"
                                THEN [Idle EXCEPT !.pc = "answered", !.answer = "error"]
                                ELSE Idle]
  /\ erasing' = FALSE

Crash ==
  /\ up
  /\ GatewayEnds
  /\ lock' = Abandoned(Requests \cup {"erasure"})
  /\ UNCHANGED <<day, data, settings, runs, backup>>

Start ==
  /\ ~up
  /\ up' = TRUE
  /\ UNCHANGED <<day, data, settings, runs, lock, req, erasing, backup>>

\* A token handed out before is not the one drawn now.
BackupBegin ==
  /\ backup.pc = "idle"
  /\ Takeable
  /\ lock' = Taken("backup")
  /\ backup' = [NoBackup EXCEPT !.pc = "drain"]
  /\ req' = [r \in Requests |-> [req[r] EXCEPT
                               !.token = IF @ = "backup" THEN "none" ELSE @]]
  /\ UNCHANGED <<day, data, settings, runs, up, erasing>>

\* drainRetentionBeforeBackup(): one batch after the other.
BackupAsks(r) ==
  /\ up
  /\ backup.pc = "drain"
  /\ req[r].pc = "idle"
  /\ req' = [req EXCEPT ![r].pc = "sent", ![r].token = "backup"]
  /\ backup' = [backup EXCEPT !.pc = "wait", !.req = r]
  /\ UNCHANGED <<day, data, settings, runs, lock, up, erasing>>

Unawaited == [r \in Requests |-> IF req[r].pc = "answered" THEN Idle ELSE req[r]]

Binding(q) == [policy |-> q.policy, auth |-> q.auth, cut0 |-> q.cut0, cut1 |-> q.cut1]

\* Mutant: a batch that went well is enough.
SettledLoosely == {"drained", "draining"}
Settled == {"drained"}

BackupHears ==
  LET q == req[backup.req]  same == backup.frozen \in {None, Binding(q)} IN
  /\ backup.pc = "wait"
  /\ q.pc = "answered"
  /\ req' = Unawaited
  /\ \/ /\ q.answer \in {"disabled", "not_applicable"}
        /\ backup' = [NoBackup EXCEPT !.pc = "stop"]
        /\ UNCHANGED lock
     \/ /\ q.answer \in Settled /\ same
        /\ backup' = [NoBackup EXCEPT !.pc = "stop", !.proof = Binding(q)]
        /\ UNCHANGED lock
     \/ /\ q.answer \in {"drained", "draining"} \ Settled /\ same
        /\ backup' = [NoBackup EXCEPT !.pc = "drain", !.frozen = Binding(q)]
        /\ UNCHANGED lock
     \/ /\ \/ q.answer \in {"partial", "error"}
           \/ q.answer \in {"drained", "draining"} /\ ~same
        /\ backup' = NoBackup
        /\ lock' = Released("backup")
  /\ UNCHANGED <<day, data, settings, runs, up, erasing>>

\* 55 seconds without an answer, or no connection: the command fails and
\* releases its lease; the Gateway goes on with the request.
BackupGivesUp ==
  /\ backup.pc \in {"drain", "wait"}
  /\ backup' = NoBackup
  /\ lock' = Released("backup")
  /\ req' = Unawaited
  /\ UNCHANGED <<day, data, settings, runs, up, erasing>>

BackupStops ==
  /\ backup.pc = "stop"
  /\ GatewayEnds
  /\ backup' = [backup EXCEPT !.pc = "copy"]
  /\ UNCHANGED <<day, data, settings, runs, lock>>

\* The data command of the backup, which may fail at once, and its end.
BackupCopies ==
  /\ backup.pc = "copy" /\ backup.copy = None
  /\ \/ \E c \in Copies : CopyBegins(c) /\ backup' = [backup EXCEPT !.copy = c]
     \/ /\ backup' = [backup EXCEPT !.pc = "install"]
        /\ UNCHANGED <<day, data, settings, runs, lock, up, req, erasing>>

BackupCopied ==
  /\ backup.pc = "copy" /\ backup.copy # None
  /\ backup.copy \notin making
  /\ backup' = [backup EXCEPT !.pc = "install"]
  /\ UNCHANGED <<day, data, settings, runs, lock, up, req, erasing>>

\* The installation may fail, also because a Gateway runs already.
BackupInstalls ==
  /\ backup.pc = "install"
  /\ up' \in {up, TRUE}
  /\ lock' = Released("backup")
  /\ backup' = NoBackup
  /\ UNCHANGED <<day, data, settings, runs, req, erasing>>

BackupDies ==
  /\ backup.pc # "idle"
  /\ backup' = NoBackup
  /\ lock' = Abandoned({"backup"})
  /\ req' = Unawaited
  /\ UNCHANGED <<day, data, settings, runs, up, erasing>>

-----------------------------------------------------------------------------
User ==
  \/ NewDay
  \/ \E l0, l1 \in Lengths \cup {None} : UpdatePolicy(l0, l1)
  \/ \E target \in {"authorized", "revoked"} : Transition(target)
  \/ \E m \in L1 : Edit(m)
  \/ \E c \in Copies : \/ CopyBegins(c) /\ UNCHANGED backup
                       \/ CopyRegisters(c) \/ CopyDies(c)
  \/ EraseBegin \/ EraseEnd
  \/ Crash \/ Start

Maintenance(r) ==
  \/ Begin(r) \/ Plan(r) \/ PlanFails(r)
  \/ Tombstone(r) \/ Files(r) \/ Check(r) \/ Index(r)
  \/ L0Files(r) \/ L0Check(r) \/ L0Index(r)
  \/ BatchFails(r) \/ Verify(r)

Backup ==
  \/ BackupBegin \/ BackupHears \/ BackupGivesUp \/ BackupStops
  \/ BackupCopies \/ BackupCopied \/ BackupInstalls \/ BackupDies
  \/ \E r \in Requests : BackupAsks(r)

Next ==
  \/ User
  \/ \E r \in Requests : Maintenance(r)
  \/ Backup
  \/ \E k \in DOMAIN runs : LeasePasses(k)

Spec == Init /\ [][Next]_vars

-----------------------------------------------------------------------------
(* What retention promises. *)

Cut == Int \cup {None}
Bindings == [policy : Nat, auth : Nat, cut0 : Cut, cut1 : Cut]
RunRecord == [policy : Nat, auth : Nat, cut0 : Cut, cut1 : Cut,
              status : {"draining", "drained", "partial"}, live : BOOLEAN]
Answers == {"none", "not_applicable", "disabled", "partial", "error", "draining", "drained"}
ReqRecord ==
  [pc : {"idle", "sent", "plan", "verify", "answered"} \cup Deleting,
   token : {"none", "own", "nested", "backup"}, policy : Nat, auth : Nat,
   cut0 : Cut, cut1 : Cut, l0 : SUBSET L0, l1 : SUBSET L1,
   item : L1 \cup {None}, run : Nat, answer : Answers]

\* Ledger rows, leases, requests and the command have their types, and a
\* request that deletes has its row in the run ledger.
TypeOK ==
  /\ day \in Nat
  /\ date \in [Items -> Nat]
  /\ index \subseteq Items /\ readable \subseteq Items
  /\ tomb \subseteq L1
  /\ copies \subseteq Copies /\ disk \subseteq Copies /\ headless \subseteq Backups
  /\ making \subseteq Copies /\ stray \subseteq Copies /\ late \subseteq Copies
  /\ up \in BOOLEAN /\ erasing \in BOOLEAN
  /\ policy \in [rev : Nat, l0 : Lengths \cup {None}, l1 : Lengths \cup {None}]
  /\ auth \in [rev : Nat, status : {"disabled", "authorized", "revoked"}, policy : Nat]
  /\ runs \in Seq(RunRecord)
  /\ lock \in [owner : Requests \cup {"erasure", "backup", None}, stale : BOOLEAN]
  /\ req \in [Requests -> ReqRecord]
  /\ backup \in [pc : {"idle", "drain", "wait", "stop", "copy", "install"},
                 req : Requests \cup {None},
                 frozen : Bindings \cup {None}, proof : Bindings \cup {None},
                 copy : Copies \cup {None}]
  /\ backup.pc = "wait" => backup.req \in Requests
  /\ \A r \in Requests :
       req[r].pc \in Deleting \cup {"verify"} => req[r].run \in DOMAIN runs

\* At most one run is draining under a lease that has not passed, also when a
\* lease passes under a run that goes on deleting.
OneLiveLease == \A j, k \in DOMAIN runs : Live(j) /\ Live(k) => j = k

\* Whoever works under a lease of its own is the one the lock names: nobody
\* else took it, and no end of another operation gave it away.
OwnersHoldLock ==
  /\ erasing => lock = Taken("erasure")
  /\ backup.pc # "idle" => lock = Taken("backup")
  /\ \A r \in Requests :
       req[r].token = "own" /\ req[r].pc # "answered" => lock = Taken(r)

\* A run recorded as drained left nothing older than its cutoffs, and nothing
\* has come back since.
DrainedIsClean ==
  \A k \in DOMAIN runs : runs[k].status = "drained" =>
    Eligible(L0, runs[k].cut0) \cup Eligible(L1, runs[k].cut1) = {}

\* What a backup copies under a drained answer holds nothing expired.
BackupIsClean ==
  backup.pc \in {"stop", "copy"} /\ backup.proof # None =>
    Eligible(L0, backup.proof.cut0) \cup Eligible(L1, backup.proof.cut1) = {}

\* The upstream row, from which a failed or interrupted deletion is found
\* again, goes after the readable row, behind the tombstone of a memory, and when
\* of the copies nothing is left but four kinds: the remains of a backup whose
\* removal stopped half way, which a retry takes for removed; a copy whose
\* command was killed before it registered it; and, of commands that found no
\* Gateway before this one started, a copy still being made or one registered
\* while the call that deletes the row was out.
IndexGoesLast ==
  [][index' # index =>
       /\ (index \ index') \cap readable = {}
       /\ (index \ index') \cap L1 \subseteq tomb
       /\ disk \subseteq headless \cup stray \cup making \cup late]_vars

\* Deletion starts only under the policy and the authorization in force at
\* that moment, with cutoffs no later than today's.
StartsAuthorized ==
  [][Len(runs') > Len(runs) =>
       LET run == runs'[Len(runs')] IN
       /\ Status = "authorized"
       /\ run.policy = policy.rev /\ run.auth = auth.rev
       /\ (run.cut0 = None) = (policy.l0 = None)
       /\ run.cut0 # None => run.cut0 <= Cutoff(policy.l0)
       /\ (run.cut1 = None) = (policy.l1 = None)
       /\ run.cut1 # None => run.cut1 <= Cutoff(policy.l1)]_vars
=============================================================================
