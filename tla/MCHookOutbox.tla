------------------------------ MODULE MCHookOutbox ------------------------------
(* HookOutbox on small instances for TLC: two Stop events of one turn, one of  *)
(* another turn that prefers the same slot, and a worker that is followed by   *)
(* another one.  All of them at once are too many for a liveness property: the *)
(* scenarios say which of them come up.                                        *)
EXTENDS HookOutbox, TLC

CONSTANTS h1, h2, h3, t1, t2, w1, w2

MCTurn == [h \in Hooks |-> IF h = h3 THEN t2 ELSE t1]
MCPreferred == (t1 :> 0) @@ (t2 :> 0)

\* A full outbox; two Stop events of one turn and a flush; two workers.
Scenarios == {{h1, h2, h3}, {h1, h2, w1}, {h1, w1, w2}}

MCInit == \E present \in Scenarios : Starts(present)

MCSpec == MCInit /\ [][Next]_vars /\ Fairness
=============================================================================
