--------------------------- MODULE MCControlPlane ---------------------------
(* Instances of ControlPlane for TLC. *)
EXTENDS ControlPlane

CONSTANTS a, b, q1, q2, q3, q4

TwoBodies == {a, b}
FourRequests == {q1, q2, q3, q4}
Symmetric == Permutations(TwoBodies) \cup Permutations(FourRequests)
=============================================================================
