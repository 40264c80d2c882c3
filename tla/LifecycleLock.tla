----------------------------- MODULE LifecycleLock -----------------------------
(***************************************************************************)
(* What the data lifecycle mutex promises to the operations that take it   *)
(* (retention maintenance, complete erasure, backup, restore, upgrade): at *)
(* most one of them owns the data, only the owner gives it back, and it is *)
(* taken from an owner only when the owner's process has ended.            *)
(***************************************************************************)

CONSTANTS
  Ops,          \* operations
  Pids,         \* process instances: one that ends never comes back
  Pid,          \* the process an operation runs in
  None

VARIABLES
  owner,        \* the operation that owns the data, or None
  dead          \* ended processes

LockInit ==
  /\ owner = None
  /\ dead = {}

Take(o) ==
  /\ Pid[o] \notin dead
  /\ owner = None
  /\ owner' = o
  /\ UNCHANGED dead

Drop(o) ==
  /\ Pid[o] \notin dead
  /\ owner = o
  /\ owner' = None
  /\ UNCHANGED dead

Reclaim(o) ==
  /\ Pid[o] \in dead
  /\ owner = o
  /\ owner' = None
  /\ UNCHANGED dead

End(p) ==
  /\ p \notin dead
  /\ dead' = dead \cup {p}
  /\ UNCHANGED owner

LockNext ==
  \/ \E o \in Ops : Take(o) \/ Drop(o) \/ Reclaim(o)
  \/ \E p \in Pids : End(p)

LockSpec == LockInit /\ [][LockNext]_<<owner, dead>>
=============================================================================
