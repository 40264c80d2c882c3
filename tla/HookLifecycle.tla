---------------------------- MODULE HookLifecycle ----------------------------
(***************************************************************************)
(* Consent to automatic capture, from the switch in the Web page to the    *)
(* rows of a turn: the two ledgers of the Gateway (Hook authorization and  *)
(* capture policy), the private copy of their revisions the Hook processes *)
(* work with, the requests that carry that copy, the capture transaction   *)
(* (apps/gateway/src/hook-lifecycle.ts) and the notice to the kernel after *)
(* it; with restarts, backups and restores of the data between any two     *)
(* steps.                                                                  *)
(*                                                                         *)
(* How a request waits in the private outbox is the matter of module       *)
(* HookOutbox.  Here a request that was built may reach the Gateway any    *)
(* number of times, late, or never.  Reads and writes of the Gateway are   *)
(* synchronous: one step each.  A failing capture transaction is rolled    *)
(* back and answered 503: no step.                                         *)
(***************************************************************************)
EXTENDS Integers, FiniteSets

CONSTANTS
  Turns,        \* turns of conversation, each with its idempotency key
  MaxChanges,   \* bound of the model: changes by the user
  MaxRestores,  \* bound of the model: restores of the data
  MaxRequests,  \* bound of the model: requests under way at a time
  None

ASSUME LifecycleAssumption ==
  /\ MaxChanges \in Nat
  /\ MaxRestores \in Nat
  /\ MaxRequests \in Nat
  /\ None \notin [rev : Nat, pol : Nat]

VARIABLES
  auth,     \* the latest row of the Hook authorization ledger
  policy,   \* the latest row of the capture policy ledger
  ledger,   \* vectors.db: per turn the revisions in its payload hash, or None
  rows,     \* vectors.db: turns whose L0 rows are there
  told,     \* how often the kernel was told of a turn
  runtime,  \* hooks/runtime.json: the revisions the Hook processes use
  reading,  \* the answer the maintenance worker is about to write there
  staged,   \* turns in the private turn store
  requests, \* capture requests that were built and may reach the Gateway
  notices,  \* committed turns whose notice is still in the Gateway's memory
  saved,    \* the data in the registered backup, or None; one at a time
  grants,   \* history: changes by the user so far
  life,     \* history: restores so far
  untold,   \* history: stored turns whose notice was lost
  erased    \* history: turns whose text was erased

data == <<auth, policy, ledger, rows, told>>
hooks == <<runtime, reading, staged, requests>>
history == <<grants, life, erased>>
vars == <<data, hooks, notices, saved, untold, history>>

\* What a process has read of an authorization: its revisions and, for the
\* properties, which change by the user it is and after how many restores it
\* was read.
Snapshot(a) == [rev |-> a.rev, pol |-> a.pol, grant |-> a.grant, life |-> life]

\* What the installer writes, at every start of the services.
Installed(n) == [rev |-> 1, pol |-> 1, grant |-> 0, life |-> n]

Init ==
  /\ auth = [rev |-> 1, pol |-> 1, capture |-> FALSE, grant |-> 0]
  /\ policy = [rev |-> 1, refuses |-> {}]
  /\ ledger = [t \in Turns |-> None]
  /\ rows = {}
  /\ told = [t \in Turns |-> 0]
  /\ runtime = Installed(0)
  /\ reading = None
  /\ staged = Turns
  /\ requests = {}
  /\ notices = {}
  /\ saved = None
  /\ grants = 0
  /\ life = 0
  /\ untold = {}
  /\ erased = {}

-----------------------------------------------------------------------------
(* The user.  An update that expects another revision is answered 409.     *)

\* POST and DELETE /hooks/authorization.  An update that changes neither switch
\* adds no revision; one that leaves capture as it is changes recall.
Authorize(capture) ==
  /\ grants < MaxChanges
  /\ auth' = [auth EXCEPT !.rev = @ + 1, !.capture = capture, !.grant = grants + 1]
  /\ grants' = grants + 1
  /\ UNCHANGED <<policy, ledger, rows, told, hooks, notices, saved, untold,
                 life, erased>>

\* PUT /capture-policy with the revision the policy page shows: it has to be
\* the revision of both ledgers, and one transaction moves both.
Updatable(expected) == expected = auth.pol /\ expected = policy.rev

ChangePolicy(refuses) ==
  /\ grants < MaxChanges
  /\ Updatable(policy.rev)
  /\ policy' = [rev |-> policy.rev + 1, refuses |-> refuses]
  /\ auth' = [auth EXCEPT !.rev = @ + 1, !.pol = @ + 1, !.grant = grants + 1]
  /\ grants' = grants + 1
  /\ UNCHANGED <<ledger, rows, told, hooks, notices, saved, untold,
                 life, erased>>

\* A finished erasure of a stored turn: its rows are gone, and with them
\* every registered copy of the data (module PrivacyErasure).
Erase(t) ==
  /\ t \in rows
  /\ rows' = rows \ {t}
  /\ saved' = None
  /\ erased' = erased \cup {t}
  /\ UNCHANGED <<auth, policy, ledger, told, hooks, notices, untold,
                 grants, life>>

-----------------------------------------------------------------------------
(* The maintenance worker copies the revisions once a minute.              *)

\* Mutant: nothing is copied while capture is off.
ReadEnabled ==
  /\ reading = None
  /\ auth.capture
  /\ reading' = Snapshot(auth)
  /\ UNCHANGED <<data, runtime, staged, requests, notices, saved, untold, history>>

ReadAuthorization ==
  /\ reading = None
  /\ reading' = Snapshot(auth)
  /\ UNCHANGED <<data, runtime, staged, requests, notices, saved, untold, history>>

WriteRuntime ==
  /\ reading # None
  /\ runtime' = reading
  /\ reading' = None
  /\ UNCHANGED <<data, staged, requests, notices, saved, untold, history>>

-----------------------------------------------------------------------------
(* The Hook processes.  A turn whose process was killed, or whose lease is *)
(* over, is taken up again by a later one: with newer revisions.           *)

Build(t) ==
  /\ t \in staged
  /\ Cardinality(requests) < MaxRequests
  /\ requests' = requests \cup {[turn |-> t, from |-> runtime]}
  /\ UNCHANGED <<data, runtime, reading, staged, notices, saved, untold, history>>

\* The outbox has the request: the turn store is done with the turn.
Queue(r) ==
  /\ r.turn \in staged
  /\ staged' = staged \ {r.turn}
  /\ UNCHANGED <<data, runtime, reading, requests, notices, saved, untold, history>>

\* The process was killed, or the entry has outlived its attempts or its TTL.
GiveUp(r) ==
  /\ requests' = requests \ {r}
  /\ UNCHANGED <<data, runtime, reading, staged, notices, saved, untold, history>>

\* An answer, or none: it is lost and the request will come again.
Settle(r) ==
  \/ /\ requests' = requests \ {r}
     /\ staged' = staged \ {r.turn}
  \/ UNCHANGED <<requests, staged>>

-----------------------------------------------------------------------------
(* POST /hooks/capture.                                                    *)

Revisions(x) == [rev |-> x.rev, pol |-> x.pol]

\* Mutant: the revision of the authorization is not compared.
StalePolicy(r) == r.from.pol # auth.pol

\* denialReason() and the rule for sensitive content.
Stale(r) == Revisions(r.from) # Revisions(auth)

Denied(r) ==
  \/ Stale(r)
  \/ ~ auth.capture
  \/ r.turn \in policy.refuses

\* Mutant: the idempotency key is looked up among the rows.
KnownRow(t) == t \in rows

Known(t) == ledger[t] # None

\* Mutant: a duplicate is announced once more.
CaptureRefusedTold(r) ==
  /\ Denied(r) \/ Known(r.turn)
  /\ notices' = IF Denied(r) THEN notices ELSE notices \cup {r.turn}
  /\ requests' = requests \ {r}
  /\ staged' = staged \ {r.turn}
  /\ UNCHANGED <<data, runtime, reading, saved, untold, history>>

\* Skipped for a reason, a duplicate or a conflict: nothing is written.
CaptureRefused(r) ==
  /\ Denied(r) \/ Known(r.turn)
  /\ requests' = requests \ {r}
  /\ staged' = staged \ {r.turn}
  /\ UNCHANGED <<data, runtime, reading, notices, saved, untold, history>>

\* Mutant: the ledger entry has a transaction of its own, which may fail.
CaptureStoredApart(r) ==
  /\ ~ Denied(r)
  /\ ~ Known(r.turn)
  /\ \/ ledger' = [ledger EXCEPT ![r.turn] = Revisions(r.from)]
     \/ UNCHANGED ledger
  /\ rows' = rows \cup {r.turn}
  /\ notices' = notices \cup {r.turn}
  /\ Settle(r)
  /\ UNCHANGED <<auth, policy, told, runtime, reading, saved, untold, history>>

\* Rows and ledger entry in one transaction, then a microtask.
CaptureStored(r) ==
  /\ ~ Denied(r)
  /\ ~ Known(r.turn)
  /\ ledger' = [ledger EXCEPT ![r.turn] = Revisions(r.from)]
  /\ rows' = rows \cup {r.turn}
  /\ notices' = notices \cup {r.turn}
  /\ Settle(r)
  /\ UNCHANGED <<auth, policy, told, runtime, reading, saved, untold, history>>

\* The notice of a committed capture.  Its errors are swallowed, also when
\* only the answer of the kernel was lost.
Notify(t) ==
  /\ t \in notices
  /\ notices' = notices \ {t}
  /\ told' = [told EXCEPT ![t] = @ + 1]
  /\ UNCHANGED <<auth, policy, ledger, rows, hooks, saved, untold, history>>

NotifyFails(t) ==
  /\ t \in notices
  /\ notices' = notices \ {t}
  /\ untold' = untold \cup {t}
  /\ UNCHANGED <<data, hooks, saved, history>>

-----------------------------------------------------------------------------
(* The lifecycle commands stop the services and install them anew, which   *)
(* forgets the notices and writes runtime.json as for a new installation.  *)
(* Requests and turns are files of the state directory: they stay.         *)

Reinstall(n) ==
  /\ notices' = {}
  /\ runtime' = Installed(n)
  /\ reading' = None
  /\ UNCHANGED <<staged, requests>>

Restart ==
  /\ Reinstall(life)
  /\ untold' = untold \cup notices
  /\ UNCHANGED <<data, saved, history>>

Data == [auth |-> auth, ledger |-> ledger, rows |-> rows, told |-> told,
         untold |-> untold \cup notices]

Backup ==
  /\ saved = None
  /\ Reinstall(life)
  /\ untold' = untold \cup notices
  /\ saved' = Data
  /\ UNCHANGED <<data, history>>

\* The data of the backup, under the capture policy of today: the restore
\* envelope carries the policy over, and the retention authorization, but not
\* the Hook authorization.
Restore ==
  /\ saved # None
  /\ life < MaxRestores
  /\ auth' = saved.auth
  /\ ledger' = saved.ledger
  /\ rows' = saved.rows
  /\ told' = saved.told
  /\ untold' = saved.untold
  /\ life' = life + 1
  /\ Reinstall(life + 1)
  /\ UNCHANGED <<policy, saved, grants, erased>>

-----------------------------------------------------------------------------
Next ==
  \/ \E capture \in BOOLEAN : Authorize(capture)
  \/ \E refuses \in SUBSET Turns : ChangePolicy(refuses)
  \/ \E t \in Turns : Erase(t) \/ Build(t) \/ Notify(t) \/ NotifyFails(t)
  \/ \E r \in requests : Queue(r) \/ GiveUp(r) \/ CaptureRefused(r) \/ CaptureStored(r)
  \/ ReadAuthorization
  \/ WriteRuntime
  \/ Restart
  \/ Backup
  \/ Restore

\* The worker comes round every minute.  A start of the services is over only
\* when its worker has been round once (waitForHookWorker()): a round is not
\* cut off again and again.
Fairness == WF_vars(ReadAuthorization) /\ SF_vars(WriteRuntime)

Spec == Init /\ [][Next]_vars /\ Fairness

-----------------------------------------------------------------------------
Grants == 0 .. MaxChanges
Snapshots == [rev : Nat, pol : Nat, grant : Grants, life : 0 .. MaxRestores]
Authorizations == [rev : Nat, pol : Nat, capture : BOOLEAN, grant : Grants]

TypeOK ==
  /\ auth \in Authorizations
  /\ policy \in [rev : Nat, refuses : SUBSET Turns]
  /\ ledger \in [Turns -> [rev : Nat, pol : Nat] \cup {None}]
  /\ rows \subseteq Turns
  /\ told \in [Turns -> Nat]
  /\ runtime \in Snapshots
  /\ reading \in Snapshots \cup {None}
  /\ staged \subseteq Turns
  /\ requests \subseteq [turn : Turns, from : Snapshots]
  /\ notices \subseteq Turns
  /\ saved = None \/ saved \in
       [auth : Authorizations, ledger : [Turns -> [rev : Nat, pol : Nat] \cup {None}],
        rows : SUBSET Turns, told : [Turns -> Nat], untold : SUBSET Turns]
  /\ grants \in Grants
  /\ life \in 0 .. MaxRestores
  /\ untold \subseteq Turns
  /\ erased \subseteq Turns

StoresFor(r) ==
  /\ ledger[r.turn] = None
  /\ ledger'[r.turn] = Revisions(r.from)
  /\ life' = life

\* A turn is stored under the very consent its process went by: whatever the
\* user changed in between, there and back, and however late a request
\* arrives, it is refused.  (Not of requests from before a restore of the
\* data, which uses revisions again.)
StoredUnderConsent ==
  [][\A r \in requests :
       StoresFor(r) /\ r.from.life = life => r.from.grant = auth.grant]_vars

\* A retry, a second process or a restore never brings back the text of a
\* turn the user has erased, although the outbox may still hold it: the
\* idempotency ledger outlives the rows, in the copies of the data too.
ErasedStaysErased == rows \cap erased = {}

\* Rows and idempotency entry are there together or not at all, except for
\* what was erased; through failures, restarts, backups and restores.
StoredWhole == {t \in Turns : Known(t)} = rows \cup erased

Announced(t) ==
  told[t] + (IF t \in notices THEN 1 ELSE 0) + (IF t \in untold THEN 1 ELSE 0)

\* The kernel counts every stored turn once: it was told once, is about to be
\* told, or the notice was lost with a restart or a failing call.
CountedOnce == \A t \in Turns : Announced(t) = IF Known(t) THEN 1 ELSE 0

\* The Hook processes catch up with whatever the user has decided, also when
\* restarts and restores move the revisions back.
HooksCatchUp == []<>(Revisions(runtime) = Revisions(auth))

\* "Capture policy changed; reload it before updating": after a reload the
\* policy can be changed.
ReloadHelps == Updatable(policy.rev)
=============================================================================
