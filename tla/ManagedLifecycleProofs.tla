------------------------ MODULE ManagedLifecycleProofs ------------------------
(***************************************************************************)
(* Proofs about module ManagedLifecycle, for any memories, any number of   *)
(* migrations and any number of faults; and about the data lifecycle mutex *)
(* that its commands, the erasure and retention take, for any operations,  *)
(* processes and tokens handed on.                                         *)
(***************************************************************************)
EXTENDS ManagedLifecycle, DataLifecycleMutex, TLAPS

(***************************************************************************)
(* The strengthening.  From the moment the directory is found offline to   *)
(* the end of the critical steps no service starts; while a directory is   *)
(* replaced its memories are in the one set aside; and an upgrade holds a  *)
(* backup of what it found from its first step on the data.                *)
(***************************************************************************)
Critical ==
  \/ pc \in {"migrate", "aside", "switch", "finish"}
  \/ pc = "verify" /\ op = "upgrade"

Quiet == Critical => alive = {}

\* A service on record that is closing is waited for before the first step,
\* and none is told to stop later: what closes from then on is not on record.
OnRecord ==
  /\ \A c \in closing : c.recorded => Live /\ pc \in {"none", "stop"}
  /\ pc \notin {"none", "stop"} => ~ Live \/ signalled = {}
  /\ pc \in {"gateway", "record", "stamp"} => signalled = {}
  /\ pc \in {"gateway", "record"} => ~ Live
  /\ Critical => \A c \in closing : c.service = "upstream"

There ==
  \/ alive # {}
  \/ pc \in {"stop", "migrate"}
  \/ pc = "verify" /\ op = "upgrade"
  => data # None

Aside == UNION {d.memories : d \in aside}

Safe ==
  /\ added \subseteq Contents(data) \cup Aside
  /\ pc \in {"switch", "finish"} => added \subseteq Aside

SameAsBefore(d) ==
  /\ d # None
  /\ d.schema = before.schema
  /\ before.memories \subseteq d.memories

Backed ==
  op = "upgrade" =>
    /\ pc = "backup" => SameAsBefore(data)
    /\ pc \notin {"none", "stop", "backup"} => SameAsBefore(input)
    /\ pc = "finish" => data = input

Inv == TypeOK /\ Quiet /\ OnRecord /\ There /\ Safe /\ Backed

-----------------------------------------------------------------------------
(* Types. *)

LEMMA EmptyDirectory == Directory({}, 0) \in Directories
BY ManagedAssumption, SMT DEF Directory, Directories

LEMMA FaultType ==
  ASSUME TypeOK, Fault \/ UNCHANGED faults
  PROVE  faults' \in 0 .. MaxFaults
BY ManagedAssumption, SMT DEF Fault, TypeOK

LEMMA NextType == TypeOK /\ There /\ [Next]_vars => TypeOK'
<1> SUFFICES ASSUME TypeOK, There, [Next]_vars PROVE TypeOK'
  OBVIOUS
<1>1. ASSUME NEW m \in Memories, Add(m) PROVE TypeOK'
  <2>1. data \in Directories
    BY <1>1 DEF Add, There, TypeOK, Services
  <2>2. data' \in Directories \cup {None}
    BY <1>1, <2>1, ManagedAssumption, SMT DEF Add, Directories
  <2> QED
    BY <1>1, <2>1, <2>2 DEF Add, command, services, TypeOK
<1>2. ASSUME NEW s \in Services, Shut(s) PROVE TypeOK'
  <2>1. [service |-> s, recorded |-> Live] \in Closing
    BY DEF Closing, Live
  <2> QED
    BY <1>2, <2>1 DEF Shut, command, directories, history, TypeOK
<1>3. ASSUME NEW s \in Services, Die(s) PROVE TypeOK'
  <2>1. faults' \in 0 .. MaxFaults
    BY <1>3, FaultType DEF Die
  <2> QED
    BY <1>3, <2>1 DEF Die, command, directories, TypeOK
<1>4. ASSUME NEW o \in Commands, Begin(o) PROVE TypeOK'
  BY <1>4 DEF Begin, Named, Live, directories, history, TypeOK
<1>5. ASSUME NEW b \in backups, ChooseInput(b) PROVE TypeOK'
  BY <1>5 DEF ChooseInput, services, directories, history, TypeOK
<1>6. CASE Stopped
  BY <1>6 DEF Stopped, AfterStop, Go, End, services, directories, TypeOK
<1>7. CASE StopFails
  <2>1. faults' \in 0 .. MaxFaults
    BY <1>7, FaultType DEF StopFails
  <2> QED
    BY <1>7, <2>1 DEF StopFails, End, services, directories, TypeOK
<1>8. CASE Killed
  <2>1. faults' \in 0 .. MaxFaults
    BY <1>8, FaultType DEF Killed
  <2> QED
    BY <1>8, <2>1 DEF Killed, End, services, directories, TypeOK
<1>9. CASE BackUp
  BY <1>9 DEF BackUp, Offline, Marked, services, history, TypeOK
<1>10. CASE BackUpFails
  <2>1. faults' \in 0 .. MaxFaults
    BY <1>10, FaultType DEF BackUpFails
  <2> QED
    BY <1>10, <2>1 DEF BackUpFails, GiveUp, Go, End, services, directories,
       TypeOK
<1>11. CASE Verified
  BY <1>11 DEF Verified, Go, services, directories, history, TypeOK
<1>12. CASE NotVerified
  <2>1. faults' \in 0 .. MaxFaults
    BY <1>12, FaultType DEF NotVerified
  <2> QED
    BY <1>12, <2>1 DEF NotVerified, Go, services, directories, TypeOK
<1>13. CASE Migrate
  <2>1. data \in Directories
    BY <1>13 DEF Migrate, There, TypeOK, Services
  <2>2. data' \in Directories \cup {None}
    BY <1>13, <2>1, ManagedAssumption, SMT DEF Migrate, Directories
  <2> QED
    BY <1>13, <2>1, <2>2 DEF Migrate, command, services, history, TypeOK
<1>14. CASE Migrated
  BY <1>14 DEF Migrated, Go, services, directories, history, TypeOK
<1>15. CASE MigrateFails
  <2>1. faults' \in 0 .. MaxFaults
    BY <1>15, FaultType DEF MigrateFails
  <2> QED
    BY <1>15, <2>1 DEF MigrateFails, Go, services, directories, TypeOK
<1>16. CASE StartUpstream
  <2>1. data' \in Directories \cup {None}
    BY <1>16, EmptyDirectory DEF StartUpstream, TypeOK
  <2>2. receipt' \in Receipts \cup {None}
    BY <1>16 DEF StartUpstream, TypeOK, Receipts
  <2> QED
    BY <1>16, <2>1, <2>2 DEF StartUpstream, Go, history, Services, TypeOK
<1>17. CASE StartGateway
  <2>1. data \in Directories
    BY <1>17 DEF StartGateway, There, TypeOK, Services
  <2>2. data' \in Directories \cup {None}
    BY <1>17, <2>1, ManagedAssumption, SMT DEF StartGateway, Directories
  <2> QED
    BY <1>17, <2>1, <2>2 DEF StartGateway, Go, history, TypeOK
<1>18. CASE Record
  <2>1. receipt' \in Receipts \cup {None}
    BY <1>18 DEF Record, Receipts
  <2> QED
    BY <1>18, <2>1 DEF Record, Go, End, services, directories, history, TypeOK
<1>19. CASE PortsTaken
  <2>1. faults' \in 0 .. MaxFaults
    BY <1>19, FaultType DEF PortsTaken
  <2> QED
    BY <1>19, <2>1 DEF PortsTaken, NotInstalled, Go, End, services,
       directories, TypeOK
<1>20. CASE StartFails
  <2>1. faults' \in 0 .. MaxFaults
    BY <1>20, FaultType DEF StartFails
  <2> QED
    BY <1>20, <2>1 DEF StartFails, NotInstalled, Go, End, directories, TypeOK
<1>21. CASE Stamp
  <2>1. faults' \in 0 .. MaxFaults
    BY <1>21, FaultType DEF Stamp
  <2> QED
    BY <1>21, <2>1 DEF Stamp, Go, End, services, directories, TypeOK
<1>22. CASE Check
  BY <1>22 DEF Check, Go, Offline, Marked, services, directories, history,
     TypeOK
<1>23. CASE CheckFails
  <2>1. faults' \in 0 .. MaxFaults
    BY <1>23, FaultType DEF CheckFails
  <2> QED
    BY <1>23, <2>1 DEF CheckFails, RestoreFailed, Go, End, services,
       directories, TypeOK
<1>24. CASE SetAside
  BY <1>24 DEF SetAside, services, history, TypeOK
<1>25. CASE Switch
  BY <1>25 DEF Switch, Go, services, history, TypeOK
<1>26. CASE Finish
  BY <1>26 DEF Finish, Go, End, services, history, TypeOK
<1>27. CASE SwitchFails
  <2>1. faults' \in 0 .. MaxFaults
    BY <1>27, FaultType DEF SwitchFails
  <2> QED
    BY <1>27, <2>1 DEF SwitchFails, RestoreFailed, Go, End, services, TypeOK
<1>28. CASE Install
  BY <1>28 DEF Install, Named, Live, services, directories, history, TypeOK
<1>29. CASE UNCHANGED vars
  BY <1>29 DEF vars, command, services, directories, history, TypeOK
<1>30. ASSUME NEW c \in closing, Exit(c) PROVE TypeOK'
  BY <1>30 DEF Exit, command, directories, history, TypeOK
<1> QED
  BY <1>1, <1>2, <1>3, <1>4, <1>5, <1>6, <1>7, <1>8, <1>9, <1>10, <1>11,
     <1>12, <1>13, <1>14, <1>15, <1>16, <1>17, <1>18, <1>19, <1>20, <1>21,
     <1>22, <1>23, <1>24, <1>25, <1>26, <1>27, <1>28, <1>29, <1>30 DEF Next

-----------------------------------------------------------------------------
(* No service starts between the check and the last critical step. *)

LEMMA NextQuiet == TypeOK /\ Quiet /\ [Next]_vars => Quiet'
<1> SUFFICES ASSUME TypeOK, Quiet, [Next]_vars PROVE Quiet'
  OBVIOUS
<1>1. ASSUME NEW m \in Memories, Add(m) PROVE Quiet'
  BY <1>1 DEF Add, command, services, Quiet, Critical, TypeOK
<1>2. ASSUME NEW s \in Services, Shut(s) PROVE Quiet'
  BY <1>2 DEF Shut, command, directories, history, Quiet, Critical, TypeOK
<1>3. ASSUME NEW s \in Services, Die(s) PROVE Quiet'
  BY <1>3 DEF Die, Fault, command, directories, Quiet, Critical, TypeOK
<1>4. ASSUME NEW o \in Commands, Begin(o) PROVE Quiet'
  BY <1>4 DEF Begin, Named, Live, directories, history, Quiet, Critical, TypeOK
<1>5. ASSUME NEW b \in backups, ChooseInput(b) PROVE Quiet'
  BY <1>5 DEF ChooseInput, services, directories, history, Quiet, Critical,
     TypeOK
<1>6. CASE Stopped
  BY <1>6 DEF Stopped, AfterStop, Go, End, services, directories, Quiet,
     Critical,
     TypeOK
<1>7. CASE StopFails
  BY <1>7 DEF StopFails, End, Fault, services, directories, Quiet, Critical,
     TypeOK
<1>8. CASE Killed
  BY <1>8 DEF Killed, End, Fault, services, directories, Quiet, Critical, TypeOK
<1>9. CASE BackUp
  BY <1>9 DEF BackUp, Offline, Marked, Services, services, history, Quiet,
     Critical, TypeOK
<1>10. CASE BackUpFails
  BY <1>10 DEF BackUpFails, GiveUp, Go, End, Fault, services, directories,
     Quiet, Critical, TypeOK
<1>11. CASE Verified
  BY <1>11 DEF Verified, Go, services, directories, history, Quiet, Critical,
     TypeOK
<1>12. CASE NotVerified
  BY <1>12 DEF NotVerified, Go, Fault, services, directories, Quiet,
     Critical, TypeOK
<1>13. CASE Migrate
  BY <1>13 DEF Migrate, command, services, history, Quiet, Critical, TypeOK
<1>14. CASE Migrated
  BY <1>14 DEF Migrated, Go, services, directories, history, Quiet, Critical,
     TypeOK
<1>15. CASE MigrateFails
  BY <1>15 DEF MigrateFails, Go, Fault, services, directories, Quiet,
     Critical, TypeOK
<1>16. CASE StartUpstream
  BY <1>16 DEF StartUpstream, Go, history, Quiet, Critical, TypeOK
<1>17. CASE StartGateway
  BY <1>17 DEF StartGateway, Go, history, Quiet, Critical, TypeOK
<1>18. CASE Record
  BY <1>18 DEF Record, Go, End, services, directories, history, Quiet,
     Critical, TypeOK
<1>19. CASE PortsTaken
  BY <1>19 DEF PortsTaken, NotInstalled, Go, End, Fault, services,
     directories, Quiet, Critical, TypeOK
<1>20. CASE StartFails
  BY <1>20 DEF StartFails, NotInstalled, Go, End, Fault, directories,
     Quiet, Critical, TypeOK
<1>21. CASE Stamp
  BY <1>21 DEF Stamp, Go, End, Fault, services, directories, Quiet, Critical,
     TypeOK
<1>22. CASE Check
  BY <1>22 DEF Check, Go, Offline, Marked, Services, services, directories,
     history, Quiet, Critical,
     TypeOK
<1>23. CASE CheckFails
  BY <1>23 DEF CheckFails, RestoreFailed, Go, End, Fault, services,
     directories, Quiet, Critical, TypeOK
<1>24. CASE SetAside
  BY <1>24 DEF SetAside, services, history, Quiet, Critical, TypeOK
<1>25. CASE Switch
  BY <1>25 DEF Switch, Go, services, history, Quiet, Critical, TypeOK
<1>26. CASE Finish
  BY <1>26 DEF Finish, Go, End, services, history, Quiet, Critical, TypeOK
<1>27. CASE SwitchFails
  BY <1>27 DEF SwitchFails, RestoreFailed, Go, End, Fault, services, Quiet,
     Critical,
     TypeOK
<1>28. CASE Install
  BY <1>28 DEF Install, Named, Live, services, directories, history, Quiet,
     Critical, TypeOK
<1>29. CASE UNCHANGED vars
  BY <1>29 DEF vars, command, services, directories, history, Quiet,
     Critical, TypeOK
<1>30. ASSUME NEW c \in closing, Exit(c) PROVE Quiet'
  BY <1>30 DEF Exit, command, directories, history, Quiet, Critical, TypeOK
<1> QED
  BY <1>1, <1>2, <1>3, <1>4, <1>5, <1>6, <1>7, <1>8, <1>9, <1>10, <1>11,
     <1>12, <1>13, <1>14, <1>15, <1>16, <1>17, <1>18, <1>19, <1>20, <1>21,
     <1>22, <1>23, <1>24, <1>25, <1>26, <1>27, <1>28, <1>29, <1>30 DEF Next

-----------------------------------------------------------------------------
(* Services that are closing. *)

LEMMA NextOnRecord == TypeOK /\ Quiet /\ OnRecord /\ [Next]_vars => OnRecord'
<1> SUFFICES ASSUME TypeOK, Quiet, OnRecord, [Next]_vars PROVE OnRecord'
  OBVIOUS
<1>1. ASSUME NEW m \in Memories, Add(m) PROVE OnRecord'
  BY <1>1 DEF Add, command, services, Quiet, OnRecord, Critical, Live, TypeOK
<1>2. ASSUME NEW s \in Services, Shut(s) PROVE OnRecord'
  <2>1. s \in alive /\ alive # {} /\ ~ Critical
    BY <1>2 DEF Shut, Quiet, TypeOK
  <2>2. UNCHANGED <<pc, receipt>> /\ (Live' <=> Live)
    BY <1>2 DEF Shut, command, Live
  <2>3. ~ Live \/ pc \in {"none", "stop"}
    BY <1>2 DEF Shut, OnRecord
  <2>4. ~ Critical'
    BY <1>2, <2>1 DEF Shut, Critical, command
  <2>5. /\ signalled' \subseteq signalled
        /\ \A c \in closing' : c \in closing \/ (c.recorded <=> Live)
    <3>1. signalled' \subseteq signalled
      BY <1>2 DEF Shut
    <3>2. ASSUME NEW c \in closing', c \notin closing
          PROVE  c.recorded <=> Live
      <4>1. c = [service |-> s, recorded |-> Live]
        BY <1>2, <3>2 DEF Shut
      <4> HIDE DEF Live
      <4> QED
        BY <4>1, Zenon
    <3> QED
      BY <3>1, <3>2
  <2> QED
    BY <2>2, <2>3, <2>4, <2>5 DEF OnRecord
<1>3. ASSUME NEW s \in Services, Die(s) PROVE OnRecord'
  BY <1>3 DEF Die, Fault, command, directories, Quiet, OnRecord, Critical,
     Live, TypeOK
<1>4. ASSUME NEW o \in Commands, Begin(o) PROVE OnRecord'
  BY <1>4 DEF Begin, Named, Live, directories, history, Quiet, OnRecord,
     Critical, Live, TypeOK
<1>5. ASSUME NEW b \in backups, ChooseInput(b) PROVE OnRecord'
  BY <1>5 DEF ChooseInput, services, directories, history, Quiet, OnRecord,
     Critical, Live, TypeOK
<1>6. CASE Stopped
  <2>1. Live => alive = {} /\ \A c \in closing : ~ c.recorded
    BY <1>6 DEF Stopped, Named
  <2>2. \A c \in closing : ~ c.recorded
    BY <2>1 DEF OnRecord
  <2>3. Live => signalled = {}
    BY <2>1 DEF TypeOK
  <2>4. /\ UNCHANGED <<signalled, closing>> /\ (Live' => Live)
        /\ Critical' => op = "restore" /\ op' = op /\ pc' = "verify"
        /\ pc' \notin {"gateway", "record", "stamp"}
    <3>1. /\ UNCHANGED <<signalled, closing>> /\ (Live' => Live)
          /\ pc' \in {"none", "ports", "backup", "verify"}
      BY <1>6 DEF Stopped, AfterStop, Go, End, services, Live
    <3>2. pc' = "verify" => op = "restore" /\ op' = op
      BY <1>6 DEF Stopped, AfterStop, Go, End
    <3> QED
      BY <3>1, <3>2 DEF Critical
  <2>5. ~ Critical'
    BY <2>4 DEF Critical
  <2> QED
    BY <2>2, <2>3, <2>4, <2>5 DEF OnRecord
<1>7. CASE StopFails
  BY <1>7 DEF StopFails, End, Fault, services, directories, Quiet, OnRecord,
     Critical, Live, TypeOK
<1>8. CASE Killed
  BY <1>8 DEF Killed, End, Fault, services, directories, Quiet, OnRecord,
     Critical, Live, TypeOK
<1>9. CASE BackUp
  BY <1>9 DEF BackUp, Offline, Marked, Services, Closing, services, history,
     Quiet, OnRecord, Critical, Live, TypeOK
<1>10. CASE BackUpFails
  BY <1>10 DEF BackUpFails, GiveUp, Go, End, Fault, services, directories,
     Quiet, OnRecord, Critical, Live, TypeOK
<1>11. CASE Verified
  BY <1>11 DEF Verified, Go, services, directories, history, Quiet, OnRecord,
     Critical, Live, TypeOK
<1>12. CASE NotVerified
  BY <1>12 DEF NotVerified, Go, Fault, services, directories, Quiet,
     OnRecord, Critical, Live, TypeOK
<1>13. CASE Migrate
  BY <1>13 DEF Migrate, command, services, history, Quiet, OnRecord,
     Critical, Live, TypeOK
<1>14. CASE Migrated
  BY <1>14 DEF Migrated, Go, services, directories, history, Quiet, OnRecord,
     Critical, Live, TypeOK
<1>15. CASE MigrateFails
  BY <1>15 DEF MigrateFails, Go, Fault, services, directories, Quiet,
     OnRecord, Critical, Live, TypeOK
<1>16. CASE StartUpstream
  BY <1>16 DEF StartUpstream, Go, history, Quiet, OnRecord, Critical, Live,
     TypeOK
<1>17. CASE StartGateway
  BY <1>17 DEF StartGateway, Go, history, Quiet, OnRecord, Critical, Live,
     TypeOK
<1>18. CASE Record
  BY <1>18 DEF Record, Go, End, services, directories, history, Quiet,
     OnRecord, Critical, Live, TypeOK
<1>19. CASE PortsTaken
  BY <1>19 DEF PortsTaken, NotInstalled, Go, End, Fault, services,
     directories, Quiet, OnRecord, Critical, Live, TypeOK
<1>20. CASE StartFails
  BY <1>20 DEF StartFails, NotInstalled, Go, End, Fault, directories,
     Quiet, OnRecord, Critical, Live, TypeOK
<1>21. CASE Stamp
  BY <1>21 DEF Stamp, Go, End, Fault, services, directories, Quiet, OnRecord,
     Critical, Live, TypeOK
<1>22. CASE Check
  BY <1>22 DEF Check, Go, Offline, Marked, Services, Closing, services,
     directories, history, Quiet, OnRecord, Critical, Live,
     TypeOK
<1>23. CASE CheckFails
  BY <1>23 DEF CheckFails, RestoreFailed, Go, End, Fault, services,
     directories, Quiet, OnRecord, Critical, Live, TypeOK
<1>24. CASE SetAside
  BY <1>24 DEF SetAside, services, history, Quiet, OnRecord, Critical, Live,
     TypeOK
<1>25. CASE Switch
  BY <1>25 DEF Switch, Go, services, history, Quiet, OnRecord, Critical,
     Live, TypeOK
<1>26. CASE Finish
  BY <1>26 DEF Finish, Go, End, services, history, Quiet, OnRecord, Critical,
     Live, TypeOK
<1>27. CASE SwitchFails
  BY <1>27 DEF SwitchFails, RestoreFailed, Go, End, Fault, services, Quiet,
     OnRecord, Critical, Live,
     TypeOK
<1>28. CASE Install
  BY <1>28 DEF Install, Named, Live, services, directories, history, Quiet,
     OnRecord, Critical, Live, TypeOK
<1>29. CASE UNCHANGED vars
  BY <1>29 DEF vars, command, services, directories, history, Quiet,
     OnRecord, Critical, Live, TypeOK
<1>30. ASSUME NEW c \in closing, Exit(c) PROVE OnRecord'
  BY <1>30 DEF Exit, command, directories, history, Quiet, OnRecord,
     Critical, Live, TypeOK
<1> QED
  BY <1>1, <1>2, <1>3, <1>4, <1>5, <1>6, <1>7, <1>8, <1>9, <1>10, <1>11,
     <1>12, <1>13, <1>14, <1>15, <1>16, <1>17, <1>18, <1>19, <1>20, <1>21,
     <1>22, <1>23, <1>24, <1>25, <1>26, <1>27, <1>28, <1>29, <1>30 DEF Next

LEMMA NextThere == TypeOK /\ Quiet /\ There /\ [Next]_vars => There'
<1> SUFFICES ASSUME TypeOK, Quiet, There, [Next]_vars PROVE There'
  OBVIOUS
<1>1. ASSUME NEW m \in Memories, Add(m) PROVE There'
  <2>1. data \in Directories
    BY <1>1 DEF Add, There, TypeOK, Services
  <2>2. data' \in Directories
    BY <1>1, <2>1, ManagedAssumption, SMT DEF Add, Directories
  <2>3. data' # None
    BY <1>1, <2>2, ManagedAssumption
  <2> QED
    BY <1>1, <2>1, <2>2, <2>3 DEF There
<1>2. ASSUME NEW s \in Services, Shut(s) PROVE There'
  BY <1>2 DEF Shut, command, directories, history, There, Quiet, Critical,
     TypeOK
<1>3. ASSUME NEW s \in Services, Die(s) PROVE There'
  BY <1>3 DEF Die, Fault, command, directories, There, Quiet, Critical, TypeOK
<1>4. ASSUME NEW o \in Commands, Begin(o) PROVE There'
  BY <1>4 DEF Begin, Named, Live, directories, history, There, Quiet,
     Critical, TypeOK
<1>5. ASSUME NEW b \in backups, ChooseInput(b) PROVE There'
  BY <1>5 DEF ChooseInput, services, directories, history, There, Quiet,
     Critical,
     TypeOK
<1>6. CASE Stopped
  BY <1>6 DEF Stopped, AfterStop, Go, End, services, directories, There,
     Quiet, Critical, TypeOK
<1>7. CASE StopFails
  BY <1>7 DEF StopFails, End, Fault, services, directories, There, Quiet,
     Critical,
     TypeOK
<1>8. CASE Killed
  BY <1>8 DEF Killed, End, Fault, services, directories, There, Quiet,
     Critical, TypeOK
<1>9. CASE BackUp
  BY <1>9 DEF BackUp, Offline, Marked, services, history, There, Quiet,
     Critical, TypeOK
<1>10. CASE BackUpFails
  BY <1>10 DEF BackUpFails, GiveUp, Go, End, Fault, services, directories,
     There, Quiet, Critical, TypeOK
<1>11. CASE Verified
  BY <1>11 DEF Verified, Go, services, directories, history, There, Quiet,
     Critical,
     TypeOK
<1>12. CASE NotVerified
  BY <1>12 DEF NotVerified, Go, Fault, services, directories, There, Quiet,
     Critical,
     TypeOK
<1>13. CASE Migrate
  <2>1. data \in Directories
    BY <1>13 DEF Migrate, There, TypeOK, Services
  <2>2. data' \in Directories
    BY <1>13, <2>1, ManagedAssumption, SMT DEF Migrate, Directories
  <2>3. data' # None
    BY <1>13, <2>2, ManagedAssumption
  <2> QED
    BY <1>13, <2>1, <2>2, <2>3 DEF There
<1>14. CASE Migrated
  BY <1>14 DEF Migrated, Go, services, directories, history, There, Quiet,
     Critical,
     TypeOK
<1>15. CASE MigrateFails
  BY <1>15 DEF MigrateFails, Go, Fault, services, directories, There,
     Quiet, Critical, TypeOK
<1>16. CASE StartUpstream
  <2>1. data' # None
    BY <1>16, EmptyDirectory, ManagedAssumption DEF StartUpstream
  <2> QED
    BY <1>16, <2>1 DEF There
<1>17. CASE StartGateway
  <2>1. data \in Directories
    BY <1>17 DEF StartGateway, There, TypeOK, Services
  <2>2. data' \in Directories
    BY <1>17, <2>1, ManagedAssumption, SMT DEF StartGateway, Directories
  <2>3. data' # None
    BY <1>17, <2>2, ManagedAssumption
  <2> QED
    BY <1>17, <2>1, <2>2, <2>3 DEF There
<1>18. CASE Record
  BY <1>18 DEF Record, Go, End, services, directories, history, There,
     Quiet, Critical, TypeOK
<1>19. CASE PortsTaken
  BY <1>19 DEF PortsTaken, NotInstalled, Go, End, Fault, services,
     directories, There, Quiet, Critical, TypeOK
<1>20. CASE StartFails
  BY <1>20 DEF StartFails, NotInstalled, Go, End, Fault, directories,
     There, Quiet, Critical, TypeOK
<1>21. CASE Stamp
  BY <1>21 DEF Stamp, Go, End, Fault, services, directories, There, Quiet,
     Critical,
     TypeOK
<1>22. CASE Check
  BY <1>22 DEF Check, Go, Offline, Marked, services, directories, history,
     There,
     Quiet, Critical, TypeOK
<1>23. CASE CheckFails
  BY <1>23 DEF CheckFails, RestoreFailed, Go, End, Fault, services,
     directories, There, Quiet, Critical, TypeOK
<1>24. CASE SetAside
  BY <1>24 DEF SetAside, services, history, There, Quiet, Critical, TypeOK
<1>25. CASE Switch
  BY <1>25 DEF Switch, Go, services, history, There, Quiet, Critical, TypeOK
<1>26. CASE Finish
  BY <1>26 DEF Finish, Go, End, services, history, There, Quiet, Critical,
     TypeOK
<1>27. CASE SwitchFails
  BY <1>27 DEF SwitchFails, RestoreFailed, Go, End, Fault, services, There,
     Quiet, Critical, TypeOK
<1>28. CASE Install
  BY <1>28 DEF Install, Named, Live, services, directories, history, There,
     Quiet, Critical, TypeOK
<1>29. CASE UNCHANGED vars
  BY <1>29 DEF vars, command, services, directories, history, There, Quiet,
     Critical,
     TypeOK
<1>30. ASSUME NEW c \in closing, Exit(c) PROVE There'
  BY <1>30 DEF Exit, command, directories, history, There, Quiet, Critical,
     TypeOK
<1> QED
  BY <1>1, <1>2, <1>3, <1>4, <1>5, <1>6, <1>7, <1>8, <1>9, <1>10, <1>11,
     <1>12, <1>13, <1>14, <1>15, <1>16, <1>17, <1>18, <1>19, <1>20, <1>21,
     <1>22, <1>23, <1>24, <1>25, <1>26, <1>27, <1>28, <1>29, <1>30 DEF Next

-----------------------------------------------------------------------------
(* What the user has added. *)

LEMMA NextSafe == TypeOK /\ Quiet /\ There /\ Safe /\ [Next]_vars => Safe'
<1> SUFFICES ASSUME TypeOK, Quiet, There, Safe, [Next]_vars PROVE Safe'
  OBVIOUS
<1>1. ASSUME NEW m \in Memories, Add(m) PROVE Safe'
  <2>1. data \in Directories
    BY <1>1 DEF Add, There, TypeOK, Services
  <2>2. data'.memories = data.memories \cup {m}
    BY <1>1, <2>1 DEF Add, Directories
  <2>3. data' # None /\ data # None
    BY <1>1, <2>1, NextThere, NextType, ManagedAssumption DEF There, Add,
       Services, services
  <2>4. Contents(data') = Contents(data) \cup {m}
    BY <1>1, <2>2, <2>3 DEF Contents
  <2>5. pc \notin {"switch", "finish"}
    BY <1>1 DEF Add, Quiet, Critical, Services
  <2> QED
    BY <1>1, <2>1, <2>2, <2>3, <2>4, <2>5 DEF Add, Safe, Aside, Contents,
       command, services
<1>2. ASSUME NEW s \in Services, Shut(s) PROVE Safe'
  BY <1>2 DEF Shut, command, directories, history, Safe, Aside, Contents
<1>3. ASSUME NEW s \in Services, Die(s) PROVE Safe'
  BY <1>3 DEF Die, Fault, command, directories, Safe, Aside, Contents
<1>4. ASSUME NEW o \in Commands, Begin(o) PROVE Safe'
  BY <1>4 DEF Begin, Named, Live, directories, history, Safe, Aside, Contents
<1>5. ASSUME NEW b \in backups, ChooseInput(b) PROVE Safe'
  BY <1>5 DEF ChooseInput, services, directories, history, Safe, Aside,
     Contents
<1>6. CASE Stopped
  BY <1>6 DEF Stopped, AfterStop, Go, End, services, directories, Safe,
     Aside, Contents
<1>7. CASE StopFails
  BY <1>7 DEF StopFails, End, Fault, services, directories, Safe, Aside,
     Contents
<1>8. CASE Killed
  BY <1>8 DEF Killed, End, Fault, services, directories, Safe, Aside, Contents
<1>9. CASE BackUp
  BY <1>9 DEF BackUp, Offline, Marked, services, history, Safe, Aside, Contents
<1>10. CASE BackUpFails
  BY <1>10 DEF BackUpFails, GiveUp, Go, End, Fault, services, directories,
     Safe, Aside, Contents
<1>11. CASE Verified
  BY <1>11 DEF Verified, Go, services, directories, history, Safe, Aside,
     Contents
<1>12. CASE NotVerified
  BY <1>12 DEF NotVerified, Go, Fault, services, directories, Safe, Aside,
     Contents
<1>13. CASE Migrate
  <2>1. data \in Directories
    BY <1>13 DEF Migrate, There, TypeOK
  <2>2. data' \in Directories /\ data'.memories = data.memories
    BY <1>13, <2>1, ManagedAssumption, SMT DEF Migrate, Directories
  <2>3. Contents(data') = Contents(data)
    BY <1>13, <2>1, <2>2, ManagedAssumption DEF Contents
  <2> QED
    BY <1>13, <2>1, <2>2, <2>3 DEF Migrate, Safe, Aside, command, history
<1>14. CASE Migrated
  BY <1>14 DEF Migrated, Go, services, directories, history, Safe, Aside,
     Contents
<1>15. CASE MigrateFails
  BY <1>15 DEF MigrateFails, Go, Fault, services, directories, Safe, Aside,
     Contents
<1>16. CASE StartUpstream
  <2>1. Contents(data) \subseteq Contents(data')
    BY <1>16 DEF StartUpstream, Contents
  <2>2. added' = added /\ aside' = aside
    BY <1>16 DEF StartUpstream, history
  <2> QED
    BY <1>16, <2>1, <2>2 DEF StartUpstream, Safe, Aside, Go
<1>17. CASE StartGateway
  <2>1. data \in Directories
    BY <1>17 DEF StartGateway, There, TypeOK
  <2>2. data' \in Directories /\ data'.memories = data.memories
    BY <1>17, <2>1, ManagedAssumption, SMT DEF StartGateway, Directories
  <2>3. Contents(data') = Contents(data)
    BY <1>17, <2>1, <2>2, ManagedAssumption DEF Contents
  <2>4. added' = added /\ aside' = aside
    BY <1>17 DEF StartGateway, history
  <2> QED
    BY <1>17, <2>1, <2>2, <2>3, <2>4 DEF StartGateway, Safe, Aside, Go
<1>18. CASE Record
  BY <1>18 DEF Record, Go, End, services, directories, history, Safe,
     Aside, Contents
<1>19. CASE PortsTaken
  BY <1>19 DEF PortsTaken, NotInstalled, Go, End, Fault, services,
     directories, Safe, Aside, Contents
<1>20. CASE StartFails
  BY <1>20 DEF StartFails, NotInstalled, Go, End, Fault, directories, Safe,
     Aside, Contents
<1>21. CASE Stamp
  BY <1>21 DEF Stamp, Go, End, Fault, services, directories, Safe, Aside,
     Contents
<1>22. CASE Check
  BY <1>22 DEF Check, Go, Offline, Marked, services, directories, history, Safe,
     Aside, Contents
<1>23. CASE CheckFails
  BY <1>23 DEF CheckFails, RestoreFailed, Go, End, Fault, services,
     directories, Safe, Aside, Contents
<1>24. CASE SetAside
  <2>1. Contents(data) \cup Aside \subseteq Aside'
    BY <1>24 DEF SetAside, Contents, Aside
  <2>2. added' = added
    BY <1>24 DEF SetAside, history
  <2> QED
    BY <1>24, <2>1, <2>2 DEF Safe
<1>25. CASE Switch
  <2>1. added' = added /\ aside' = aside
    BY <1>25 DEF Switch, history
  <2> QED
    BY <1>25, <2>1 DEF Switch, Safe, Aside
<1>26. CASE Finish
  BY <1>26 DEF Finish, Go, End, services, history, Safe, Aside, Contents
<1>27. CASE SwitchFails
  <2>1. added' = added /\ pc' \in {"none", "ports"}
    BY <1>27 DEF SwitchFails, RestoreFailed, Go, End
  <2>2. Aside \subseteq Contents(data') \cup Aside' \/ (UNCHANGED <<data, aside>>)
    BY <1>27 DEF SwitchFails, Contents, Aside
  <2> QED
    BY <1>27, <2>1, <2>2 DEF Safe, SwitchFails, Aside
<1>28. CASE Install
  BY <1>28 DEF Install, Named, Live, services, directories, history, Safe,
     Aside,
     Contents
<1>29. CASE UNCHANGED vars
  BY <1>29 DEF vars, command, services, directories, history, Safe, Aside,
     Contents
<1>30. ASSUME NEW c \in closing, Exit(c) PROVE Safe'
  BY <1>30 DEF Exit, command, directories, history, Safe, Aside, Contents
<1> QED
  BY <1>1, <1>2, <1>3, <1>4, <1>5, <1>6, <1>7, <1>8, <1>9, <1>10, <1>11,
     <1>12, <1>13, <1>14, <1>15, <1>16, <1>17, <1>18, <1>19, <1>20, <1>21,
     <1>22, <1>23, <1>24, <1>25, <1>26, <1>27, <1>28, <1>29, <1>30 DEF Next

-----------------------------------------------------------------------------
(* What an upgrade holds. *)

LEMMA NextBacked == TypeOK /\ Quiet /\ There /\ Backed /\ [Next]_vars => Backed'
<1> SUFFICES ASSUME TypeOK, Quiet, There, Backed, [Next]_vars PROVE Backed'
  OBVIOUS
<1>1. ASSUME NEW m \in Memories, Add(m) PROVE Backed'
  <2>1. data \in Directories
    BY <1>1 DEF Add, There, TypeOK, Services
  <2>2. data' \in Directories /\ data'.schema = data.schema /\ data.memories \subseteq data'.memories
    BY <1>1, <2>1, NextType DEF Add, Directories, There, Services
  <2>3. pc # "finish"
    BY <1>1 DEF Add, Quiet, Critical, Services
  <2>4. SameAsBefore(data) => SameAsBefore(data)'
    BY <1>1, <2>2, ManagedAssumption DEF Add, SameAsBefore
  <2>5. SameAsBefore(input)' <=> SameAsBefore(input)
    BY <1>1 DEF Add, SameAsBefore, command
  <2> QED
    BY <1>1, <2>1, <2>2, <2>3, <2>4, <2>5 DEF Add, Backed, command
<1>2. ASSUME NEW s \in Services, Shut(s) PROVE Backed'
  BY <1>2 DEF Shut, command, directories, history, Backed, SameAsBefore
<1>3. ASSUME NEW s \in Services, Die(s) PROVE Backed'
  BY <1>3 DEF Die, Fault, command, directories, Backed, SameAsBefore
<1>4. ASSUME NEW o \in Commands, Begin(o) PROVE Backed'
  BY <1>4 DEF Begin, Named, Live, directories, history, Backed, SameAsBefore
<1>5. ASSUME NEW b \in backups, ChooseInput(b) PROVE Backed'
  BY <1>5 DEF ChooseInput, services, directories, history, Backed,
     SameAsBefore
<1>6. CASE Stopped
  <2>1. data # None
    BY <1>6 DEF Stopped, There
  <2>2. before' = data /\ data' = data
    BY <1>6 DEF Stopped, directories
  <2>3. SameAsBefore(data)'
    BY <1>6, <2>1, <2>2 DEF SameAsBefore
  <2> QED
    BY <1>6, <2>1, <2>2, <2>3 DEF Stopped, AfterStop, Go, End, Backed
<1>7. CASE StopFails
  BY <1>7 DEF StopFails, End, Fault, services, directories, Backed,
     SameAsBefore
<1>8. CASE Killed
  BY <1>8 DEF Killed, End, Fault, services, directories, Backed, SameAsBefore
<1>9. CASE BackUp
  BY <1>9 DEF BackUp, Offline, Marked, services, history, Backed, SameAsBefore
<1>10. CASE BackUpFails
  BY <1>10 DEF BackUpFails, GiveUp, Go, End, Fault, services, directories,
     Backed, SameAsBefore
<1>11. CASE Verified
  BY <1>11 DEF Verified, Go, services, directories, history, Backed,
     SameAsBefore
<1>12. CASE NotVerified
  BY <1>12 DEF NotVerified, Go, Fault, services, directories, Backed,
     SameAsBefore
<1>13. CASE Migrate
  BY <1>13 DEF Migrate, Backed, SameAsBefore, command, history
<1>14. CASE Migrated
  BY <1>14 DEF Migrated, Go, services, directories, history, Backed,
     SameAsBefore
<1>15. CASE MigrateFails
  BY <1>15 DEF MigrateFails, Go, Fault, services, directories, Backed,
     SameAsBefore
<1>16. CASE StartUpstream
  BY <1>16 DEF StartUpstream, Go, history, Backed, SameAsBefore
<1>17. CASE StartGateway
  BY <1>17 DEF StartGateway, Go, history, Backed, SameAsBefore
<1>18. CASE Record
  BY <1>18 DEF Record, Go, End, services, directories, history, Backed,
     SameAsBefore
<1>19. CASE PortsTaken
  BY <1>19 DEF PortsTaken, NotInstalled, Go, End, Fault, services,
     directories, Backed, SameAsBefore
<1>20. CASE StartFails
  BY <1>20 DEF StartFails, NotInstalled, Go, End, Fault, directories,
     Backed, SameAsBefore
<1>21. CASE Stamp
  BY <1>21 DEF Stamp, Go, End, Fault, services, directories, Backed,
     SameAsBefore
<1>22. CASE Check
  BY <1>22 DEF Check, Go, Offline, Marked, services, directories, history,
     Backed,
     SameAsBefore
<1>23. CASE CheckFails
  BY <1>23 DEF CheckFails, RestoreFailed, Go, End, Fault, services,
     directories, Backed, SameAsBefore
<1>24. CASE SetAside
  BY <1>24 DEF SetAside, services, history, Backed, SameAsBefore
<1>25. CASE Switch
  BY <1>25 DEF Switch, Go, services, history, Backed, SameAsBefore
<1>26. CASE Finish
  BY <1>26 DEF Finish, Go, End, services, history, Backed, SameAsBefore
<1>27. CASE SwitchFails
  BY <1>27 DEF SwitchFails, RestoreFailed, Go, End, Fault, services,
     Backed, SameAsBefore
<1>28. CASE Install
  BY <1>28 DEF Install, Named, Live, services, directories, history, Backed,
     SameAsBefore
<1>29. CASE UNCHANGED vars
  BY <1>29 DEF vars, command, services, directories, history, Backed,
     SameAsBefore
<1>30. ASSUME NEW c \in closing, Exit(c) PROVE Backed'
  BY <1>30 DEF Exit, command, directories, history, Backed, SameAsBefore
<1> QED
  BY <1>1, <1>2, <1>3, <1>4, <1>5, <1>6, <1>7, <1>8, <1>9, <1>10, <1>11,
     <1>12, <1>13, <1>14, <1>15, <1>16, <1>17, <1>18, <1>19, <1>20, <1>21,
     <1>22, <1>23, <1>24, <1>25, <1>26, <1>27, <1>28, <1>29, <1>30 DEF Next

-----------------------------------------------------------------------------
(* The theorems. *)

LEMMA InitInv == Init => Inv
<1> SUFFICES ASSUME Init PROVE Inv
  OBVIOUS
<1>1. TypeOK
  <2>1. faults \in 0 .. MaxFaults
    BY ManagedAssumption, SMT DEF Init
  <2>2. receipt \in Receipts /\ data \in Directories
    BY EmptyDirectory DEF Init, Receipts
  <2> QED
    BY <2>1, <2>2 DEF Init, TypeOK
<1>2. Quiet /\ OnRecord /\ Backed
  BY DEF Init, Quiet, OnRecord, Critical, Backed
<1>3. There
  BY EmptyDirectory, ManagedAssumption DEF Init, There
<1>4. Safe
  BY DEF Init, Safe
<1> QED
  BY <1>1, <1>2, <1>3, <1>4 DEF Inv

LEMMA Invariance == Spec => []Inv
<1>1. Inv /\ [Next]_vars => Inv'
  BY NextType, NextQuiet, NextOnRecord, NextThere, NextSafe, NextBacked DEF Inv
<1> QED
  BY <1>1, InitInv, PTL DEF Spec

\* Every variable of the managed commands keeps its type.
THEOREM TypeCorrect == Spec => []TypeOK
<1>1. Inv => TypeOK
  BY DEF Inv
<1> QED
  BY <1>1, Invariance, PTL

\* What the user has added is in the data directory or in one set aside next to
\* it, after any commands, failing or killed anywhere.
THEOREM NothingIsLost == Spec => []DataSurvives
<1>1. Inv => DataSurvives
  BY DEF Inv, Safe, Aside, DataSurvives
<1> QED
  BY <1>1, Invariance, PTL

\* While an upgrade migrates or a restore renames, no service answers, no
\* Gateway runs and every service on record has ended: only an upstream that a
\* failing installation told to stop may still be closing.
THEOREM CriticalStepsUnderStrays == Spec => []OnlyStraysHaveDataOpen
<1>1. Inv => OnlyStraysHaveDataOpen
  BY DEF Inv, Quiet, OnRecord, Critical, OnlyStraysHaveDataOpen
<1> QED
  BY <1>1, Invariance, PTL

\* An upgrade that ends with "the verified backup was restored" leaves memories
\* and schema as it found them.
THEOREM RollbackIsComplete == Spec => FailedUpgradeKeepsData
<1>1. Inv /\ [Next]_vars =>
        [op = "upgrade" /\ op' = "idle" /\ verdict' = "restored" =>
           /\ data'.schema = before.schema
           /\ before.memories \subseteq data'.memories]_vars
  <2> SUFFICES ASSUME Inv, Next, op = "upgrade", op' = "idle",
                      verdict' = "restored"
               PROVE  SameAsBefore(data) /\ data' = data
    BY DEF SameAsBefore
  <2>1. BackUpFails \/ Finish
    <3>1. CASE Stopped \/ Record \/ StartFails \/ PortsTaken \/ Stamp
      BY <3>1 DEF Stopped, AfterStop, Record, StartFails, PortsTaken, Stamp,
         NotInstalled, Go, End
    <3>2. CASE StopFails \/ Killed \/ CheckFails \/ SwitchFails
      BY <3>2 DEF StopFails, Killed, CheckFails, SwitchFails, RestoreFailed,
         Go, End
    <3>3. CASE \/ Install \/ BackUp \/ Verified \/ NotVerified \/ Migrate
               \/ Migrated \/ MigrateFails \/ StartUpstream \/ StartGateway
               \/ Check \/ SetAside \/ Switch
      BY <3>3 DEF Install, BackUp, Verified, NotVerified, Migrate, Migrated,
         MigrateFails, StartUpstream, StartGateway, Check, SetAside, Switch, Go,
         command
    <3>4. CASE \/ \E m \in Memories : Add(m)
               \/ \E s \in Services : Shut(s) \/ Die(s)
               \/ \E c \in closing : Exit(c)
               \/ \E o \in Commands : Begin(o)
               \/ \E b \in backups : ChooseInput(b)
      BY <3>4 DEF Add, Shut, Exit, Die, Begin, ChooseInput, command
    <3> QED
      BY <3>1, <3>2, <3>3, <3>4 DEF Next
  <2>2. CASE BackUpFails
    BY <2>2 DEF BackUpFails, directories, Inv, Backed
  <2>3. CASE Finish
    BY <2>3 DEF Finish, Inv, Backed
  <2> QED
    BY <2>1, <2>2, <2>3
<1> QED
  BY <1>1, Invariance, PTL DEF Spec, FailedUpgradeKeepsData

-----------------------------------------------------------------------------
(***************************************************************************)
(* The mutex.  MutexInv adds to the checked invariants what an operation   *)
(* in the middle of acquire() or release() may rely on: it is the one that *)
(* made the guard, a file it is about to write is torn, a record it is     *)
(* about to unlink is of a dead process.                                   *)
(***************************************************************************)
InAcquire(o) == at[o] \in {"create", "write", "read", "unlink", "retry", "unguard"}

GuardMadeByCaller == \A o \in Ops : InAcquire(o) => guard = o

GuardHasCaller == guard # NoOp => InAcquire(guard)

WritesTorn == \A o \in Ops : Running(o, "write") => lock = Torn

UnlinksDead ==
  \A o \in Ops : Running(o, "unlink") => Readable /\ lock.pid \in dead

ReleasesOwn == \A o \in Ops : at[o] = "release" => lease[o] = "owned"

RecordPid == Readable => lock = LockRecord(lock.operation, lock.owner)

MutexInv ==
  /\ MutexTypeOK
  /\ GuardMadeByCaller
  /\ GuardHasCaller
  /\ WritesTorn
  /\ UnlinksDead
  /\ ReleasesOwn
  /\ RecordPid
  /\ OwnerOnRecord

-----------------------------------------------------------------------------
\* One owner follows from the records alone.
LEMMA RecordsMakeOneOwner == OwnerOnRecord => OneOwner
  BY DEF OwnerOnRecord, OneOwner, LockRecord

\* Every guard is accounted for by a call under way.
LEMMA CallersAccount == GuardHasCaller => GuardAccounted
  BY DEF GuardHasCaller, GuardAccounted, InAcquire

LEMMA MutexInvInit == MutexInit => MutexInv
  BY MutexAssumption
  DEF MutexInit, MutexInv, MutexTypeOK, GuardMadeByCaller, GuardHasCaller,
  WritesTorn,
      UnlinksDead, ReleasesOwn, RecordPid, OwnerOnRecord, InAcquire, Running,
      Readable, Absent, NoRecord, Owns, MutexSteps

\* Every step of the protocol keeps the inductive invariant.
LEMMA MutexStep == MutexInv /\ [MutexNext]_mutexVars => MutexInv'
<1> SUFFICES ASSUME MutexInv, [MutexNext]_mutexVars PROVE MutexInv'
  OBVIOUS
<1> USE MutexAssumption
    DEF MutexInv, MutexTypeOK, GuardMadeByCaller, GuardHasCaller, WritesTorn,
        UnlinksDead, ReleasesOwn, RecordPid, OwnerOnRecord, InAcquire, Running,
        Readable, LockRecord, Absent, Torn, NoRecord, Owns, MutexSteps, Goto, Calls
<1>1. CASE UNCHANGED mutexVars
  BY <1>1 DEF mutexVars
<1>2. ASSUME NEW o \in Ops, NEW t \in Ops, OpenGuard(o, t) PROVE MutexInv'
  BY <1>2 DEF OpenGuard
<1>3. ASSUME NEW o \in Ops, CreateLock(o) PROVE MutexInv'
  BY <1>3 DEF CreateLock
<1>4. ASSUME NEW o \in Ops, WriteLock(o) PROVE MutexInv'
  BY <1>4 DEF WriteLock
<1>5. ASSUME NEW o \in Ops, WriteFails(o) PROVE MutexInv'
  BY <1>5 DEF WriteFails
<1>6. ASSUME NEW o \in Ops, ReadNothing(o) PROVE MutexInv'
  BY <1>6 DEF ReadNothing
<1>7. ASSUME NEW o \in Ops, ReadOwn(o) PROVE MutexInv'
  BY <1>7 DEF ReadOwn
<1>8. ASSUME NEW o \in Ops, ReadOther(o) PROVE MutexInv'
  BY <1>8 DEF ReadOther
<1>9. ASSUME NEW o \in Ops, UnlinkStale(o) PROVE MutexInv'
  BY <1>9 DEF UnlinkStale
<1>10. ASSUME NEW o \in Ops, CloseGuard(o) PROVE MutexInv'
  BY <1>10 DEF CloseGuard
<1>11. ASSUME NEW o \in Ops, ReleaseRead(o) PROVE MutexInv'
  BY <1>11 DEF ReleaseRead
<1>12. ASSUME NEW o \in Ops, ReleaseUnlink(o) PROVE MutexInv'
  BY <1>12 DEF ReleaseUnlink
<1>13. ASSUME NEW o \in Ops, ReleaseNested(o) PROVE MutexInv'
  BY <1>13 DEF ReleaseNested
<1>14. ASSUME NEW p \in Pids, ProcessEnds(p) PROVE MutexInv'
  BY <1>14 DEF ProcessEnds
<1> QED
  BY <1>1, <1>2, <1>3, <1>4, <1>5, <1>6, <1>7, <1>8, <1>9, <1>10, <1>11,
     <1>12, <1>13, <1>14 DEF MutexNext

LEMMA MutexInvAlways == MutexSpec => []MutexInv
  BY MutexInvInit, MutexStep, PTL DEF MutexSpec

-----------------------------------------------------------------------------
\* The state stays well formed: what the type invariant of the run says.
THEOREM MutexTypeCorrect == MutexSpec => []MutexTypeOK
<1>1. MutexInv => MutexTypeOK
  BY DEF MutexInv
<1> QED
  BY <1>1, MutexInvAlways, PTL

\* Two operations of running processes never own the data together, for any
\* number of operations and processes and any crash.
THEOREM MutualExclusion == MutexSpec => []OneOwner
<1>1. MutexInv => OneOwner
  BY RecordsMakeOneOwner DEF MutexInv
<1> QED
  BY <1>1, MutexInvAlways, PTL

\* Nobody but the owner removes the record of an owner that runs.
THEOREM OwnersKeepRecord == MutexSpec => []OwnerOnRecord
<1>1. MutexInv => OwnerOnRecord
  BY DEF MutexInv
<1> QED
  BY <1>1, MutexInvAlways, PTL

\* A guard file that belongs to no call under way was left by a dead process.
THEOREM GuardIsAccounted == MutexSpec => []GuardAccounted
<1>1. MutexInv => GuardAccounted
  BY CallersAccount DEF MutexInv
<1> QED
  BY <1>1, MutexInvAlways, PTL

-----------------------------------------------------------------------------
\* The initial files are a free lock.
LEMMA MutexInitFree == MutexInit => L!LockInit
  BY DEF MutexInit, L!LockInit, Absent, NoRecord

\* Every file system call is a step of the lock or changes nothing of it.
LEMMA MutexStepLocks ==
  MutexInv /\ [MutexNext]_mutexVars => [L!LockNext]_<<lock.operation, dead>>
<1> SUFFICES ASSUME MutexInv, [MutexNext]_mutexVars
             PROVE L!LockNext \/ UNCHANGED <<lock.operation, dead>>
  OBVIOUS
<1>1. CASE UNCHANGED mutexVars
  BY <1>1 DEF mutexVars
<1>2. ASSUME NEW o \in Ops, WriteLock(o) PROVE L!LockNext
  <2>1. L!Take(o)
    BY <1>2, MutexAssumption
    DEF MutexInv, WritesTorn, WriteLock, Running, Torn, NoRecord, LockRecord,
    L!Take
  <2> QED
    BY <2>1 DEF L!LockNext
<1>3. ASSUME NEW o \in Ops, UnlinkStale(o) PROVE L!LockNext
  <2>1. /\ Readable
        /\ lock.pid \in dead
    BY <1>3 DEF MutexInv, UnlinksDead, UnlinkStale
  <2>2. lock.operation \in Ops /\ lock.pid = Pid[lock.operation]
    BY <2>1 DEF MutexInv, MutexTypeOK, RecordPid, LockRecord, Readable,
       Absent, Torn, NoRecord
  <2>3. L!Reclaim(lock.operation)
    BY <1>3, <2>1, <2>2 DEF UnlinkStale, L!Reclaim, Absent, NoRecord
  <2> QED
    BY <2>2, <2>3 DEF L!LockNext
<1>4. ASSUME NEW o \in Ops, ReleaseUnlink(o) PROVE L!LockNext
  <2>1. lock = LockRecord(o, token[o])
    BY <1>4 DEF MutexInv, ReleasesOwn, OwnerOnRecord, Owns, ReleaseUnlink,
       Running
  <2>2. L!Drop(o)
    BY <1>4, <2>1 DEF ReleaseUnlink, Running, L!Drop, LockRecord, Absent,
       NoRecord
  <2> QED
    BY <2>2 DEF L!LockNext
<1>5. ASSUME NEW p \in Pids, ProcessEnds(p) PROVE L!LockNext
  <2>1. L!End(p)
    BY <1>5 DEF ProcessEnds, L!End
  <2> QED
    BY <2>1 DEF L!LockNext
<1>6. ASSUME NEW o \in Ops, CreateLock(o) PROVE UNCHANGED <<lock.operation, dead>>
  BY <1>6 DEF CreateLock, Absent, Torn, NoRecord
<1>7. ASSUME NEW o \in Ops,
             \/ \E t \in Ops : OpenGuard(o, t)
             \/ WriteFails(o) \/ ReadNothing(o) \/ ReadOwn(o) \/ ReadOther(o)
             \/ CloseGuard(o) \/ ReleaseRead(o) \/ ReleaseNested(o)
      PROVE UNCHANGED <<lock.operation, dead>>
  BY <1>7 DEF OpenGuard, WriteFails, ReadNothing, ReadOwn, ReadOther,
     CloseGuard,
              ReleaseRead, ReleaseNested
<1> QED
  BY <1>1, <1>2, <1>3, <1>4, <1>5, <1>6, <1>7 DEF MutexNext

\* The file protocol implements the lock: whoever composes with LifecycleLock
\* instead of the files loses nothing.
THEOREM MutexImplementsLock == MutexSpec => KeepsLockPromise
  BY MutexInitFree, MutexStepLocks, MutexInvAlways, PTL
  DEF MutexSpec, KeepsLockPromise, L!LockSpec
=============================================================================
