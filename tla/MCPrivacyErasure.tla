--------------------------- MODULE MCPrivacyErasure ---------------------------
(* Instances of PrivacyErasure for TLC.  Plan tokens are random identities,   *)
(* so they are interchangeable; nothing orders them.                          *)
EXTENDS PrivacyErasure, TLC

TokenSymmetry == Permutations(Tokens)
=============================================================================
