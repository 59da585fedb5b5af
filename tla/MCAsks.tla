------------------------------- MODULE MCAsks -------------------------------
(* A consult and a session of the bridge that asks one question, under two    *)
(* names or one.                                                              *)
EXTENDS Asks
CONSTANTS k1, q1, t1, l1, l2
SharedOrNot == {f \in [Asker -> Label] : f[Bridge] = l1}
OneThread == [q \in Asked |-> t1]
=============================================================================
