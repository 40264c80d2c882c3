--------------------------- MODULE ManagedLifecycle ---------------------------
(***************************************************************************)
(* The managed commands of the product: install, stop, restart, backup,    *)
(* restore, uninstall (scripts/personalmemory-{install,lifecycle}-         *)
(* runtime.mjs) and upgrade (scripts/personalmemory-upgrade-runtime.mjs)   *)
(* with its automatic rollback, over the portable backup and restore of    *)
(* packages/personal-memory/src/portable-data.ts and the migrations.       *)
(*                                                                         *)
(* A command is a sequence of steps, each of which may fail, and the       *)
(* command may be killed between any two of them; the services it started  *)
(* live on, for they are detached.  One command runs at a time: a person   *)
(* at a terminal.  The services are the two that have the data open.       *)
(***************************************************************************)
EXTENDS Integers

CONSTANTS
  Memories,   \* what the user may add to the data
  Target,     \* the schema version of the sources at hand
  MaxFaults,  \* bound of the model: failing steps, kills and dying services
  None

Services == {"upstream", "gateway"}
Directories == [memories : SUBSET Memories, schema : 0 .. Target]
Receipts == [live : BOOLEAN, current : BOOLEAN]
Closing == [service : Services, recorded : BOOLEAN]

ASSUME ManagedAssumption ==
  /\ Target \in Nat
  /\ MaxFaults \in Nat
  /\ None \notin Directories \cup Receipts

VARIABLES
  op,        \* the command under way, or "idle"
  pc,        \* its next step
  kept,      \* it reinstalls from the receipt of stopped services
  input,     \* the backup it made or restores, or None
  old,       \* the directory it has set aside, or None
  verdict,   \* what the last upgrade said of the data
  receipt,   \* install.json: are its processes the running ones, and is its
             \* version current; or None
  alive,     \* services that run and answer their port
  signalled, \* those among them that were told to stop
  closing,   \* services that have closed their port and still have the data
             \* open, with whether a receipt names them
  data,      \* the data directory, or None
  aside,     \* the .pre-restore directories next to it
  backups,   \* complete portable backups
  before,    \* history: the data as the last command found them
  added,     \* history: what the user has added so far
  faults     \* history: faults so far

command == <<op, pc, kept, input, old, verdict>>
services == <<alive, signalled, closing>>
directories == <<data, aside, backups>>
history == <<before, added, faults>>
vars == <<command, receipt, services, directories, history>>

Directory(memories, schema) == [memories |-> memories, schema |-> schema]

\* An older version is installed and running, new sources have been unpacked.
Init ==
  /\ op = "idle" /\ pc = "none" /\ kept = FALSE /\ input = None /\ old = None
  /\ verdict = "over"
  /\ receipt = [live |-> TRUE, current |-> FALSE]
  /\ alive = Services /\ signalled = {} /\ closing = {}
  /\ data = Directory({}, 0) /\ aside = {} /\ backups = {}
  /\ before = None /\ added = {} /\ faults = 0

Fault == faults < MaxFaults /\ faults' = faults + 1

Go(step) == pc' = step /\ UNCHANGED <<op, kept, input, old, verdict>>

End(result) ==
  /\ op' = "idle" /\ pc' = "none" /\ kept' = FALSE /\ input' = None /\ old' = None
  /\ verdict' = result

-----------------------------------------------------------------------------
(* The services. *)

\* The user adds to the memory.
Add(m) ==
  /\ alive = Services
  /\ m \notin added
  /\ data' = [data EXCEPT !.memories = @ \cup {m}]
  /\ added' = added \cup {m}
  /\ UNCHANGED <<command, receipt, services, aside, backups, before, faults>>

\* Services the receipt names, by their processes; only these can be stopped.
Live == receipt # None /\ receipt.live
Named == IF Live THEN alive \cup {c.service : c \in {d \in closing : d.recorded}}
         ELSE {}

\* A service that was told to stop closes its port first ...
Shut(s) ==
  /\ s \in signalled
  /\ alive' = alive \ {s}
  /\ signalled' = signalled \ {s}
  /\ closing' = closing \cup {[service |-> s, recorded |-> Live]}
  /\ UNCHANGED <<command, receipt, directories, history>>

\* ... and ends when its work is done and its stores are closed.
Exit(c) ==
  /\ c \in closing
  /\ closing' = closing \ {c}
  /\ UNCHANGED <<command, receipt, alive, signalled, directories, history>>

\* Any service may die.
Die(s) ==
  /\ s \in alive
  /\ Fault
  /\ alive' = alive \ {s}
  /\ signalled' = signalled \ {s}
  /\ UNCHANGED <<command, receipt, closing, directories, before, added>>

\* The Gateway keeps its marker until its databases are closed.
Marked == "gateway" \in alive \/ \E c \in closing : c.service = "gateway"

\* assertUpstreamOffline() asks for the port, assertDataDirectoryOffline() for
\* the marker of the Gateway.
Offline == "upstream" \notin alive /\ ~ Marked

-----------------------------------------------------------------------------
(* How a command begins: with a receipt, except for a first installation.  *)

\* The lifecycle commands and the upgrade want a receipt and a data directory,
\* and tell the services on record to stop.
Begin(o) ==
  /\ op = "idle" /\ receipt # None /\ data # None
  /\ o = "upgrade" => ~ receipt.current
  /\ op' = o /\ pc' = "stop"
  /\ signalled' = signalled \cup (Named \cap alive)
  /\ UNCHANGED <<kept, input, old, verdict, receipt, alive, closing, directories, history>>

\* Mutant: a receipt always means that the product is installed.
InstallFirst ==
  /\ op = "idle" /\ receipt = None
  /\ op' = "install" /\ pc' = "ports" /\ kept' = FALSE
  /\ UNCHANGED <<input, old, verdict, receipt, services, directories, history>>

\* Installing over running services changes nothing, and over some that run
\* and some that do not is refused.
Install ==
  /\ op = "idle" /\ Named = {}
  /\ op' = "install" /\ pc' = "ports" /\ kept' = (receipt # None)
  /\ UNCHANGED <<input, old, verdict, receipt, services, directories, history>>

\* The backups of upgrades are in the state directory and go with it.
AfterStop ==
  \/ op = "stop"      /\ End("over") /\ UNCHANGED <<receipt, backups>>
  \/ op = "uninstall" /\ End("over") /\ receipt' = None /\ backups' \in SUBSET backups
  \/ op = "restart"   /\ Go("ports") /\ receipt' = None /\ UNCHANGED backups
  \/ op = "backup"    /\ Go("backup") /\ receipt' = None /\ UNCHANGED backups
  \/ op = "restore"   /\ Go("verify") /\ receipt' = None /\ UNCHANGED backups
  \/ op = "upgrade"   /\ Go("backup") /\ UNCHANGED <<receipt, backups>>

Stopped ==
  /\ pc = "stop" /\ Named = {}
  /\ AfterStop
  /\ before' = data
  /\ UNCHANGED <<services, data, aside, added, faults>>

\* A service takes more than five seconds.
StopFails ==
  /\ pc = "stop" /\ Named # {}
  /\ Fault
  /\ End("over")
  /\ UNCHANGED <<receipt, services, directories, before, added>>

\* Ctrl-C, or the machine takes the terminal away.
Killed ==
  /\ op # "idle"
  /\ Fault
  /\ End("over")
  /\ UNCHANGED <<receipt, services, directories, before, added>>

-----------------------------------------------------------------------------
(* data:backup and data:verify. *)

\* A backup is complete when its staging directory is renamed.
BackUp ==
  /\ pc = "backup" /\ Offline /\ data # None
  /\ backups' = backups \cup {data}
  /\ input' = data
  /\ pc' = "verify"
  /\ UNCHANGED <<op, kept, old, verdict, receipt, services, data, aside, history>>

\* Whatever happened, backup and restore install the services again.  An
\* upgrade without a backup has nothing to restore, and says it has.
GiveUp == IF op = "upgrade" THEN End("restored") ELSE Go("ports")

BackUpFails ==
  /\ pc = "backup"
  /\ IF Offline /\ data # None THEN Fault ELSE UNCHANGED faults
  /\ GiveUp
  /\ UNCHANGED <<receipt, services, directories, before, added>>

ChooseInput(b) ==
  /\ op = "restore" /\ pc = "verify" /\ input = None
  /\ input' = b
  /\ UNCHANGED <<op, pc, kept, old, verdict, receipt, services, directories, history>>

Verified ==
  /\ pc = "verify" /\ input # None /\ data # None
  /\ \/ op = "backup"  /\ Go("ports")
     \/ op = "restore" /\ Go("check")
     \/ op = "upgrade" /\ Go("migrate")
  /\ UNCHANGED <<receipt, services, directories, history>>

NotVerified ==
  /\ pc = "verify"
  /\ IF input = None \/ data = None THEN UNCHANGED faults ELSE Fault
  /\ Go(IF op = "upgrade" THEN "check" ELSE "ports")
  /\ UNCHANGED <<receipt, services, directories, before, added>>

-----------------------------------------------------------------------------
(* Migrations: one transaction each, what was committed stays. *)

Migrate ==
  /\ pc = "migrate" /\ data.schema < Target
  /\ data' = [data EXCEPT !.schema = @ + 1]
  /\ UNCHANGED <<command, receipt, services, aside, backups, history>>

\* The receipt of the old version is removed before the new one starts.
Migrated ==
  /\ pc = "migrate" /\ data.schema = Target
  /\ receipt' = None
  /\ Go("ports")
  /\ UNCHANGED <<services, directories, history>>

\* Mutant: a failing migration is left to the next one.
MigrateFailsHere ==
  /\ pc = "migrate"
  /\ Fault
  /\ End("restored")
  /\ UNCHANGED <<receipt, services, directories, before, added>>

MigrateFails ==
  /\ pc = "migrate"
  /\ Fault
  /\ Go("check")
  /\ UNCHANGED <<receipt, services, directories, before, added>>

-----------------------------------------------------------------------------
(* installPersonalMemory(). *)

\* The ports are free, also those of services that are closing.  A data directory that is not there is created.
StartUpstream ==
  /\ pc = "ports" /\ alive = {}
  /\ data' = IF data = None THEN Directory({}, 0) ELSE data
  /\ alive' = {"upstream"}
  /\ receipt' = IF receipt = None THEN None ELSE [receipt EXCEPT !.live = FALSE]
  /\ Go("gateway")
  /\ UNCHANGED <<signalled, closing, aside, backups, history>>

\* The Gateway migrates as it starts.
StartGateway ==
  /\ pc = "gateway" /\ alive = {"upstream"} /\ ~ Marked
  /\ alive' = Services
  /\ data' = [data EXCEPT !.schema = Target]
  /\ Go("record")
  /\ UNCHANGED <<receipt, signalled, closing, aside, backups, history>>

Record ==
  /\ pc = "record" /\ alive = Services
  /\ receipt' = [live |-> TRUE, current |-> TRUE]
  /\ IF op = "upgrade" THEN Go("stamp") ELSE End("over")
  /\ UNCHANGED <<services, directories, history>>

\* What a failing installation means to its command.
NotInstalled == IF op = "upgrade" THEN Go("check") ELSE End("over")

PortsTaken ==
  /\ pc = "ports"
  /\ IF alive = {} THEN Fault ELSE UNCHANGED faults
  /\ NotInstalled
  /\ UNCHANGED <<receipt, services, directories, before, added>>

\* What was started is told to stop, and not waited for.
StartFails ==
  /\ pc \in {"gateway", "record"}
  /\ IF \/ pc = "gateway" /\ alive = {"upstream"} /\ ~ Marked
        \/ pc = "record" /\ alive = Services
     THEN Fault ELSE UNCHANGED faults
  /\ signalled' = alive
  /\ receipt' = IF kept THEN receipt ELSE None
  /\ NotInstalled
  /\ UNCHANGED <<alive, closing, directories, before, added>>

\* The upgrade writes the receipt once more, with its own date.
Stamp ==
  /\ pc = "stamp"
  /\ \/ End("over") /\ UNCHANGED faults
     \/ Go("check") /\ Fault
  /\ UNCHANGED <<receipt, services, directories, before, added>>

-----------------------------------------------------------------------------
(* data:restore, for the command of that name and for the rollback.        *)

RestoreFailed == IF op = "upgrade" THEN End("incomplete") ELSE Go("ports")

\* Mutant: a restore does not ask whether services are running.
CheckNothing ==
  /\ pc = "check"
  /\ Go("aside")
  /\ UNCHANGED <<receipt, services, directories, history>>

\* The backup is verified once more and copied to a staging directory.
Check ==
  /\ pc = "check" /\ Offline
  /\ Go("aside")
  /\ UNCHANGED <<receipt, services, directories, history>>

CheckFails ==
  /\ pc = "check"
  /\ IF Offline THEN Fault ELSE UNCHANGED faults
  /\ RestoreFailed
  /\ UNCHANGED <<receipt, services, directories, before, added>>

\* Mutant: the directory is emptied instead.
ClearAway ==
  /\ pc = "aside"
  /\ data' = None /\ old' = data
  /\ pc' = "switch"
  /\ UNCHANGED <<op, kept, input, verdict, receipt, services, aside, backups, history>>

SetAside ==
  /\ pc = "aside"
  /\ data' = None /\ old' = data
  /\ aside' = aside \cup ({data} \ {None})
  /\ pc' = "switch"
  /\ UNCHANGED <<op, kept, input, verdict, receipt, services, backups, history>>

Switch ==
  /\ pc = "switch"
  /\ data' = input
  /\ Go("finish")
  /\ UNCHANGED <<receipt, services, aside, backups, history>>

\* Under an authorized retention the restored backup is deleted: the data that
\* went through the staging drain are the only copy.  Not in a rollback.
Finish ==
  /\ pc = "finish"
  /\ \/ UNCHANGED backups
     \/ op = "restore" /\ backups' = backups \ {input}
  /\ IF op = "upgrade" THEN End("restored") ELSE Go("ports")
  /\ UNCHANGED <<receipt, services, data, aside, history>>

\* A step of the switch fails: the data set aside come back, if that does not
\* fail as well.  The deletion of the backup may have failed halfway.
SwitchFails ==
  /\ pc \in {"switch", "finish"}
  /\ Fault
  /\ \/ old # None /\ data' = old /\ aside' = aside \ {old}
     \/ old # None /\ data' \in {data, None} /\ UNCHANGED aside
     \/ old = None /\ UNCHANGED <<data, aside>>
  /\ \/ UNCHANGED backups
     \/ pc = "finish" /\ op = "restore" /\ backups' = backups \ {input}
  /\ RestoreFailed
  /\ UNCHANGED <<receipt, services, before, added>>

-----------------------------------------------------------------------------
Commands == {"stop", "uninstall", "restart", "backup", "restore", "upgrade"}

Next ==
  \/ \E m \in Memories : Add(m)
  \/ \E s \in Services : Shut(s) \/ Die(s)
  \/ \E c \in closing : Exit(c)
  \/ \E o \in Commands : Begin(o)
  \/ Install
  \/ Stopped \/ StopFails \/ Killed
  \/ BackUp \/ BackUpFails
  \/ \E b \in backups : ChooseInput(b)
  \/ Verified \/ NotVerified
  \/ Migrate \/ Migrated \/ MigrateFails
  \/ StartUpstream \/ StartGateway \/ Record \/ PortsTaken \/ StartFails \/ Stamp
  \/ Check \/ CheckFails \/ SetAside \/ Switch \/ Finish \/ SwitchFails

Steps ==
  \/ Stopped \/ BackUp \/ BackUpFails \/ \E b \in backups : ChooseInput(b)
  \/ Verified \/ NotVerified \/ Migrate \/ Migrated
  \/ StartUpstream \/ StartGateway \/ Record \/ PortsTaken \/ StartFails \/ Stamp
  \/ Check \/ CheckFails \/ SetAside \/ Switch \/ Finish

\* A command that was not killed goes on, a service that was told to stop
\* stops at last, and the user does not give up: of stop and install, each is
\* tried again and again for as long as it is accepted.
Fairness ==
  /\ WF_vars(Steps)
  /\ \A s \in Services : WF_vars(Shut(s))
  /\ \A c \in Closing : WF_vars(Exit(c))
  /\ SF_vars(Begin("stop"))
  /\ SF_vars(Install)

Spec == Init /\ [][Next]_vars /\ Fairness

-----------------------------------------------------------------------------
TypeOK ==
  /\ op \in Commands \cup {"idle", "install"}
  /\ pc \in {"none", "stop", "backup", "verify", "migrate", "ports", "gateway",
            "record", "stamp", "check", "aside", "switch", "finish"}
  /\ kept \in BOOLEAN
  /\ input \in Directories \cup {None}
  /\ old \in Directories \cup {None}
  /\ verdict \in {"over", "restored", "incomplete"}
  /\ receipt \in Receipts \cup {None}
  /\ alive \subseteq Services
  /\ signalled \subseteq alive
  /\ closing \subseteq Closing
  /\ data \in Directories \cup {None}
  /\ aside \subseteq Directories
  /\ backups \subseteq Directories
  /\ before \in Directories \cup {None}
  /\ added \subseteq Memories
  /\ faults \in 0 .. MaxFaults

Contents(d) == IF d = None THEN {} ELSE d.memories

\* Whatever the user has added is in the data directory or in a directory set
\* aside next to it: no sequence of commands, failing in any step or killed
\* between any two, leaves it in backups alone or nowhere.
DataSurvives == added \subseteq Contents(data) \cup UNION {d.memories : d \in aside}

\* During migrations and the switch of a restore no service answers, no
\* Gateway runs, and every service a receipt names has ended, not only closed
\* its port.  Only an upstream that a failing installation told to stop, and
\* did not wait for, may still be closing its stores.
OnlyStraysHaveDataOpen ==
  pc \in {"migrate", "aside", "switch", "finish"} =>
    /\ alive = {}
    /\ \A c \in closing : c.service = "upstream" /\ ~ c.recorded

\* An upgrade that says "the verified backup was restored" leaves the data and
\* their schema as it found them, whichever step failed, and with or without
\* a backup.
FailedUpgradeKeepsData ==
  [][op = "upgrade" /\ op' = "idle" /\ verdict' = "restored" =>
       /\ data'.schema = before.schema
       /\ before.memories \subseteq data'.memories]_vars

Served == op = "idle" /\ Named = Services

\* Running services that no receipt names and nobody told to stop: left by an
\* installation that was killed, and out of reach of every managed command.
Orphans == alive \ (Named \cup signalled) # {}

\* No failure locks the user out: with stop and install the services come back
\* on record, unless a killed installation has left orphans.
ServedAgain == []<>(Served \/ Orphans)
=============================================================================
