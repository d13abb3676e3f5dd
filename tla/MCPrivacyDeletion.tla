-------------------------- MODULE MCPrivacyDeletion --------------------------
(* Instances of PrivacyDeletion for TLC. *)
EXTENDS PrivacyDeletion, TLC

CONSTANTS c1, c2, f1, f2, f3, o1, o2

OneEach   == f1 :> c1 @@ f3 :> c2
TwoOfOne  == f1 :> c1 @@ f2 :> c1

OperationSymmetry == Permutations(Operations)

AnyFault     == FaultKinds
AtomicFaults == FaultKinds \ {"restore", "begin"}
=============================================================================
