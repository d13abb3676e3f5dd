---------------------------- MODULE MCOperations ----------------------------
(* Instances of Operations for TLC. *)
EXTENDS Operations, TLC

CONSTANTS k1, k2, k3

ThreeCalls == {k1, k2, k3}
CallSymmetry == Permutations(Calls)
=============================================================================
