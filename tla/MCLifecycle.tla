----------------------------- MODULE MCLifecycle -----------------------------
(* Instances of Lifecycle for TLC.                                         *)
EXTENDS Lifecycle, TLC

CONSTANTS a, b, c

Symmetry == Permutations(Conns)
=============================================================================
