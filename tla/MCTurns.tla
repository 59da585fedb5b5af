------------------------------ MODULE MCTurns ------------------------------
(* Two messages of one conversation, for one or two processes of a body. *)
EXTENDS Turns
CONSTANTS p1, p2, c1
OneConv == [m \in Msg |-> c1]
=============================================================================
