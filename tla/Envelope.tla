------------------------------ MODULE Envelope ------------------------------
(***************************************************************************)
(* The envelope of core/envelope.py: the one data contract of the bus.     *)
(* Everything that routes, bounds or deduplicates a message is a field or  *)
(* a function of it, so this module is shared by every component.          *)
(*                                                                         *)
(* A message_id is <<root, n>>: the uuid4 `root` of a freshly minted       *)
(* message followed by n applications of uuid5 (derive_reply_id).  The     *)
(* pair loses nothing, because the n-th derived id depends on nothing else.*)
(***************************************************************************)
EXTENDS Naturals

CONSTANTS
    Root,       \* the uuid4 message ids that senders mint
    Conv,       \* conversation ids
    Body,       \* project ids that run an Observatory
    Guest,      \* every other id: operator, consult, MCP bridge, invented
    Broadcast,  \* the reserved recipient of a Wave
    NoOne,      \* a null recipient in Claude's control block
    Ceiling,    \* the largest max_hops any sender asks for
    Origin      \* the envelopes that senders may mint

Id == Body \cup Guest
Mid == Root \X (0 .. Ceiling)

Envelope ==
    [mid : Root \X Nat, conv : Conv, from : Id, to : Id \cup {Broadcast},
     solicit : BOOLEAN, hop : Nat, max : Nat]

\* Envelope.validate: a Wave is exactly an envelope addressed to "broadcast".
IsWave(e) == e.to = Broadcast

\* derive_reply_id: a function of the inbound message_id alone.
DeriveReplyId(mid) == <<mid[1], mid[2] + 1>>

\* make_reply: the hop count a reply carries.
NextHop(e) == e.hop + 1

\* make_reply over new_envelope: conversation and ceiling are inherited and a
\* reply solicits nothing.
MakeReply(parent, sender, recipient) ==
    [mid |-> DeriveReplyId(parent.mid), conv |-> parent.conv, from |-> sender,
     to |-> recipient, solicit |-> FALSE, hop |-> NextHop(parent),
     max |-> parent.max]

\* Seeded fault: the ceiling itself still passes.
HorizonOffByOne(e) == e.hop > e.max

\* guards.horizon_reached
HorizonReached(e) == e.hop >= e.max

\* new_envelope as senders call it: zero hops travelled, a fresh uuid4, and a
\* ceiling of at least one that the validator insists on.
ASSUME EnvelopeAssumption ==
    /\ Ceiling \in Nat
    /\ Body \cap Guest = {}
    /\ Broadcast \notin Id
    /\ NoOne \notin Id \cup {Broadcast}
    /\ Origin \subseteq Envelope
    /\ \A o \in Origin : /\ o.mid[2] = 0
                         /\ o.hop = 0
                         /\ o.max \in 1 .. Ceiling
    /\ \A o, p \in Origin : o.mid = p.mid => o = p
=============================================================================
