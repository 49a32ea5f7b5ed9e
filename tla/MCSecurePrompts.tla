-------------------------- MODULE MCSecurePrompts --------------------------
(* Instances of SecurePrompts for TLC. *)
EXTENDS SecurePrompts, TLC

CONSTANTS t1, t2

TabSymmetry == Permutations({t1, t2})
=============================================================================
