-------------------------- MODULE DataLifecycleMutex --------------------------
(***************************************************************************)
(* The data lifecycle mutex of packages/personal-memory/src/               *)
(* data-lifecycle-mutex.ts: a lock file created with O_EXCL under a guard  *)
(* file created with O_EXCL, both in the private state directory.          *)
(*                                                                         *)
(* acquire() and release() are synchronous in their process; the steps     *)
(* here are the file system calls that other processes can fall between.   *)
(* A process that ends leaves the files as they are.  A token is named     *)
(* after the operation that drew it.                                       *)
(***************************************************************************)
EXTENDS Naturals

CONSTANTS
  Ops,          \* operations, each with one lease at a time
  Pids,         \* process instances: one that ends never comes back
  Pid,          \* the process an operation runs in
  Handed,       \* pairs of an operation and one whose token it may be given
  NoOp

ASSUME MutexAssumption ==
  /\ Pid \in [Ops -> Pids]
  /\ Handed \subseteq Ops \X Ops
  /\ NoOp \notin Ops

VARIABLES
  guard,    \* the operation that made data-lifecycle.guard, NoOp when no file
  lock,     \* data-lifecycle.lock, and its record once it is written
  dead,     \* ended processes
  at,       \* per operation: where it is in acquire() or release()
  token,    \* per operation: the token it drew or was given
  lease     \* per operation: the lease it has

mutexVars == <<guard, lock, dead, at, token, lease>>

LockRecord(o, t) == [file |-> "written", operation |-> o, pid |-> Pid[o], owner |-> t]
NoRecord(f) == [file |-> f, operation |-> NoOp, pid |-> NoOp, owner |-> NoOp]
Absent == NoRecord("absent")
Torn == NoRecord("torn")        \* created, not written: readRecord() throws
Readable == lock.file = "written"

MutexSteps == {"idle", "create", "write", "read", "unlink", "retry", "unguard",
               "release"}

MutexInit ==
  /\ guard = NoOp
  /\ lock = Absent
  /\ dead = {}
  /\ at = [o \in Ops |-> "idle"]
  /\ token = [o \in Ops |-> o]
  /\ lease = [o \in Ops |-> "none"]

Goto(o, step) == at' = [at EXCEPT ![o] = step]
Running(o, step) == Pid[o] \notin dead /\ at[o] = step

\* A call begins only when its process is in no other.
Calls(o) == \A q \in Ops : Pid[q] = Pid[o] => Running(q, "idle")

-----------------------------------------------------------------------------
(* acquire() *)

\* Mutant: opened with "w", which does not care for an existing file.
OpenGuardAlways(o, t) ==
  /\ Calls(o)
  /\ lease[o] = "none"
  /\ t = o \/ <<o, t>> \in Handed
  /\ guard' = o
  /\ token' = [token EXCEPT ![o] = t]
  /\ Goto(o, "create")
  /\ UNCHANGED <<lock, dead, lease>>

\* openSync(guardPath, "wx"); when it exists acquire() returns undefined and
\* nothing changes.
OpenGuard(o, t) ==
  /\ Calls(o)
  /\ lease[o] = "none"
  /\ t = o \/ <<o, t>> \in Handed
  /\ guard = NoOp
  /\ guard' = o
  /\ token' = [token EXCEPT ![o] = t]
  /\ Goto(o, "create")
  /\ UNCHANGED <<lock, dead, lease>>

\* openSync(lockPath, "wx"), on the first and on the second attempt.
CreateLock(o) ==
  /\ Running(o, "create") \/ Running(o, "retry")
  /\ \/ lock = Absent /\ lock' = Torn /\ Goto(o, "write")
     \/ lock # Absent /\ UNCHANGED lock /\ Goto(o, "read")
  /\ UNCHANGED <<guard, dead, token, lease>>

WriteLock(o) ==
  /\ Running(o, "write")
  /\ lock' = LockRecord(o, token[o])
  /\ lease' = [lease EXCEPT ![o] = "owned"]
  /\ Goto(o, "unguard")
  /\ UNCHANGED <<guard, dead, token>>

\* The write fails (no space left): acquire() throws and the file stays torn.
WriteFails(o) ==
  /\ Running(o, "write")
  /\ Goto(o, "unguard")
  /\ UNCHANGED <<guard, lock, dead, token, lease>>

\* A file that is gone by now or was never written makes acquire() throw.
ReadNothing(o) ==
  /\ Running(o, "read")
  /\ ~Readable
  /\ Goto(o, "unguard")
  /\ UNCHANGED <<guard, lock, dead, token, lease>>

ReadOwn(o) ==
  /\ Running(o, "read")
  /\ Readable /\ lock.owner = token[o]
  /\ lease' = [lease EXCEPT ![o] = "nested"]
  /\ Goto(o, "unguard")
  /\ UNCHANGED <<guard, lock, dead, token>>

\* Mutant: a signal that may not be sent counts as a process that is not there.
ReadOtherStale(o) ==
  /\ Running(o, "read")
  /\ Readable /\ lock.owner # token[o]
  /\ Goto(o, "unlink")
  /\ UNCHANGED <<guard, lock, dead, token, lease>>

ReadOther(o) ==
  /\ Running(o, "read")
  /\ Readable /\ lock.owner # token[o]
  /\ Goto(o, IF lock.pid \in dead THEN "unlink" ELSE "unguard")
  /\ UNCHANGED <<guard, lock, dead, token, lease>>

UnlinkStale(o) ==
  /\ Running(o, "unlink")
  /\ lock' = Absent
  /\ Goto(o, "retry")
  /\ UNCHANGED <<guard, dead, token, lease>>

CloseGuard(o) ==
  /\ Running(o, "unguard")
  /\ guard' = NoOp
  /\ Goto(o, "idle")
  /\ UNCHANGED <<lock, dead, token, lease>>

-----------------------------------------------------------------------------
(* release(), which does not take the guard. *)

ReleaseRead(o) ==
  /\ Calls(o)
  /\ lease[o] = "owned"
  /\ \/ /\ Readable /\ lock.owner = token[o]
        /\ Goto(o, "release")
        /\ UNCHANGED lease
     \/ /\ ~(Readable /\ lock.owner = token[o])
        /\ lease' = [lease EXCEPT ![o] = "none"]
        /\ UNCHANGED at
  /\ UNCHANGED <<guard, lock, dead, token>>

ReleaseUnlink(o) ==
  /\ Running(o, "release")
  /\ lock' = Absent
  /\ lease' = [lease EXCEPT ![o] = "none"]
  /\ Goto(o, "idle")
  /\ UNCHANGED <<guard, dead, token>>

\* A nested lease leaves the file to its owner.
ReleaseNested(o) ==
  /\ Calls(o)
  /\ lease[o] = "nested"
  /\ lease' = [lease EXCEPT ![o] = "none"]
  /\ UNCHANGED <<guard, lock, dead, at, token>>

\* A process ends at any point, without its finally blocks when it is killed.
ProcessEnds(p) ==
  /\ p \notin dead
  /\ dead' = dead \cup {p}
  /\ UNCHANGED <<guard, lock, at, token, lease>>

MutexNext ==
  \/ \E o, t \in Ops : OpenGuard(o, t)
  \/ \E o \in Ops :
       \/ CreateLock(o) \/ WriteLock(o) \/ WriteFails(o)
       \/ ReadNothing(o) \/ ReadOwn(o) \/ ReadOther(o)
       \/ UnlinkStale(o) \/ CloseGuard(o)
       \/ ReleaseRead(o) \/ ReleaseUnlink(o) \/ ReleaseNested(o)
  \/ \E p \in Pids : ProcessEnds(p)

MutexSpec == MutexInit /\ [][MutexNext]_mutexVars

-----------------------------------------------------------------------------
(* What a mutex owes.                                                      *)

Owns(o) == Pid[o] \notin dead /\ lease[o] = "owned"

MutexTypeOK ==
  /\ guard \in Ops \cup {NoOp}
  /\ lock \in {Absent, Torn}
       \cup [file : {"written"}, operation : Ops, pid : Pids, owner : Ops]
  /\ dead \subseteq Pids
  /\ at \in [Ops -> MutexSteps]
  /\ token \in [Ops -> Ops]
  /\ lease \in [Ops -> {"none", "owned", "nested"}]

\* Two operations of running processes never own the data together, whatever
\* was killed in the middle of which call.
OneOwner == \A o, q \in Ops : Owns(o) /\ Owns(q) => o = q

\* The record of an owner stays in the file: nobody takes it for stale, and no
\* release removes it but the owner's.
OwnerOnRecord == \A o \in Ops : Owns(o) => lock = LockRecord(o, token[o])

\* The guard is made good by everyone who lives: when no call is under way, it
\* exists only because a process died inside acquire().
GuardAccounted ==
  guard # NoOp /\ Pid[guard] \notin dead => at[guard] \notin {"idle", "release"}

\* The file protocol keeps the promise of LifecycleLock: the record is the
\* owner, and a file without a record owns nothing.
L == INSTANCE LifecycleLock WITH owner <- lock.operation, None <- NoOp
KeepsLockPromise == L!LockSpec
=============================================================================
