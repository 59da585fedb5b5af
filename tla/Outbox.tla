------------------------------- MODULE Outbox -------------------------------
(***************************************************************************)
(* What the processing log promises (the docstrings of processing_log.py   *)
(* and observatory/main.py), per body and message: the stages are passed   *)
(* in order and never back, Claude's result is fixed when CLAUDE_DONE is   *)
(* reached, and a reply leaves only from that stage, only if the result    *)
(* asks for one, and whatever is retried to one and the same project id.   *)
(* Crashes, redeliveries, holds and pauses do not show here.               *)
(***************************************************************************)
EXTENDS Envelope

CONSTANTS ControlBlock, NoResult
VARIABLES stage, result,
          out   \* whom a reply to the message was sent to

vars == <<stage, result, out>>

Init ==
    /\ stage = [b \in Body |-> [m \in Mid |-> "none"]]
    /\ result = [b \in Body |-> [m \in Mid |-> NoResult]]
    /\ out = [b \in Body |-> [m \in Mid |-> {}]]

Advance(b, m, s, t) ==
    /\ stage[b][m] = s
    /\ stage' = [stage EXCEPT ![b][m] = t]

Receive(b, m) ==
    /\ Advance(b, m, "none", "RECEIVED")
    /\ UNCHANGED <<result, out>>

Complete(b, m) ==
    /\ Advance(b, m, "RECEIVED", "CLAUDE_DONE")
    /\ \E r \in ControlBlock : result' = [result EXCEPT ![b][m] = r]
    /\ UNCHANGED out

Send(b, m) ==
    /\ stage[b][m] = "CLAUDE_DONE"
    /\ result[b][m].reply /\ ~result[b][m].gated
    /\ out[b][m] = {}
    /\ \E to \in Id : out' = [out EXCEPT ![b][m] = {to}]
    /\ UNCHANGED <<stage, result>>

Emitted(b, m) ==
    /\ Advance(b, m, "CLAUDE_DONE", "REPLY_EMITTED")
    /\ UNCHANGED <<result, out>>

\* Completed, or cut short at any stage by a guard or by the operator.
Close(b, m) ==
    /\ stage' = [stage EXCEPT ![b][m] = "ACKED"]
    /\ UNCHANGED <<result, out>>

Next == \E b \in Body, m \in Mid :
            Receive(b, m) \/ Complete(b, m) \/ Send(b, m) \/ Emitted(b, m)
            \/ Close(b, m)

Spec == Init /\ [][Next]_vars
=============================================================================
