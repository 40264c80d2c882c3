--------------------------- MODULE MCHookLifecycle ---------------------------
(* One installation with one turn: turns share nothing but the consent.    *)
EXTENDS HookLifecycle
=============================================================================
