-------------------------- MODULE MCManagedLifecycle --------------------------
(***************************************************************************)
(* One memory, two migrations between the old schema and the new one, and  *)
(* three faults, in any sequence of managed commands.                      *)
(***************************************************************************)
EXTENDS ManagedLifecycle
=============================================================================
