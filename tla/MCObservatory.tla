--------------------------- MODULE MCObservatory ---------------------------
(* Instances of Observatory for TLC. *)
EXTENDS Observatory, TLC

CONSTANTS a, b, d, g, u, r1, r2, c1

MCBody == {a, b}
ThreeBodies == {a, b, d}
MCGuest == {g, u}   \* g is registered, u is an invented id

Msg(root, sender, recipient, asks, ceiling) ==
    [mid |-> <<root, 0>>, conv |-> c1, from |-> sender, to |-> recipient,
     solicit |-> asks, hop |-> 0, max |-> ceiling]

Say(whom, ack) == [to |-> whom, reply |-> TRUE, gated |-> ack, session |-> TRUE]
Spent == [f \in Fault |-> 0]

\* A guest asks body a; the bodies answer each other up to the ceiling.
Question == {Msg(r1, g, a, FALSE, 2)}
TwoQuestions == {Msg(r1, g, a, FALSE, 2), Msg(r2, b, a, FALSE, 1)}
\* A Wave from a guest, soliciting or not.
Waves == {Msg(r1, g, Broadcast, TRUE, 2), Msg(r2, a, Broadcast, FALSE, 2)}
SolicitingWave == {Msg(r1, a, Broadcast, TRUE, 2)}

AnyControl == {Silent, Say(NoOne, FALSE), Say(b, FALSE), Say(a, FALSE),
               Say(u, FALSE), Say(Broadcast, FALSE), Say(b, TRUE)}
Chatty == {Silent, Say(a, FALSE), Say(b, FALSE)}
Answer == {Say(NoOne, FALSE)}
FewControls == {Say(NoOne, FALSE), Say(b, FALSE), Say(u, FALSE)}

OneCrash == {[Spent EXCEPT !["crash"] = 1]}
\* The process dies, or the bus goes away and the first reconnection fails.
CrashOrDrops == OneCrash \cup {[Spent EXCEPT !["drop"] = 2]}
\* Heartbeats lapse, the operator acts, a rate window passes; nothing fails.
Quiet == {[Spent EXCEPT !["lapse"] = 1, !["operator"] = 2, !["window"] = 1]}
\* One fault of one kind, whichever.
OneFault == {[Spent EXCEPT ![f] = 1] : f \in {"crash", "drop", "lapse", "window"}}
NoFault == {Spent}
=============================================================================
