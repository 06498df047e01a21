------------------------------ MODULE MCBridge ------------------------------
(* Bridge set-up on small instances.                                       *)
EXTENDS Bridge, TLC

Symmetry == Permutations(Callers)

=============================================================================
