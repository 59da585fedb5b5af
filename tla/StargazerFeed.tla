--------------------------- MODULE StargazerFeed ---------------------------
(***************************************************************************)
(* One page of Stargazer following aether:events: the server's generator   *)
(* sse_source over EventReader, the connection it writes to, and the       *)
(* browser, which reconnects by itself with the id of the last event it    *)
(* received.  Pages share nothing but the stream; a page that is reloaded  *)
(* is another page.                                                        *)
(*                                                                         *)
(* The entries of the stream are numbered in its order, and 0 stands for   *)
(* the id before the first, which is what XREAD takes "0" for.             *)
(***************************************************************************)
EXTENDS Naturals, Sequences

CONSTANTS
    Window,      \* recent_window
    BatchSize,   \* the count of EventReader.tail
    Keep,        \* events_maxlen of the writers
    Wire,        \* bound: events that fit between generator and browser
    MaxEvents,   \* bound: events ever written
    MaxDrops     \* bound: connections lost

VARIABLES
    tip, low,    \* newest entry, and the last one trimmed away
    open,        \* the generator runs and the browser is connected to it
    batch,       \* what recent() or tail() returned and is not yet yielded
    cursor,      \* the generator's cursor
    wire,        \* yielded and not yet received
    last,        \* the browser's last event id, 0 while it has none
    shown,       \* the page's events
    start,       \* history: where the window of the last fresh connection began
    drops

vars == <<tip, low, open, batch, cursor, wire, last, shown, start, drops>>
streamVars == <<tip, low>>
serverVars == <<open, batch, cursor>>
pageVars == <<last, shown>>

ASSUME FeedAssumption ==
    /\ Window \in Nat \ {0} /\ BatchSize \in Nat \ {0}
    /\ Keep \in Nat \ {0} /\ Wire \in Nat \ {0}
    /\ MaxEvents \in Nat /\ MaxDrops \in Nat

TypeOK ==
    /\ tip \in Nat /\ low \in 0 .. tip
    /\ open \in BOOLEAN
    /\ batch \in Seq(1 .. tip) /\ wire \in Seq(1 .. tip)
    /\ Len(wire) <= Wire
    /\ cursor \in 0 .. tip /\ last \in 0 .. tip /\ start \in 0 .. tip
    /\ shown \subseteq 1 .. tip
    /\ drops \in Nat

Init ==
    /\ tip = 0 /\ low = 0
    /\ open = FALSE /\ batch = <<>> /\ cursor = 0 /\ wire = <<>>
    /\ last = 0 /\ shown = {} /\ start = 0
    /\ drops = 0

Smaller(a, b) == IF a <= b THEN a ELSE b
Larger(a, b) == IF a >= b THEN a ELSE b

-----------------------------------------------------------------------------
(* The stream, and EventReader over it *)

\* XADD with MAXLEN ~: at least Keep entries stay, how many more is up to
\* Redis.
Write ==
    /\ tip < MaxEvents
    /\ tip' = tip + 1
    /\ low' \in low .. Larger(low, tip' - Keep)
    /\ UNCHANGED <<serverVars, pageVars, wire, start, drops>>

\* Seeded fault: a cursor whose own entry is read again.
AfterInclusive(c, n) ==
    LET from == Larger(c, low + 1) IN
    [i \in 1 .. IF from > tip THEN 0 ELSE Smaller(n, tip + 1 - from)
        |-> from + i - 1]

\* XREVRANGE with a count, turned to oldest first.
Recent(n) ==
    LET size == Smaller(n, tip - low) IN
    [i \in 1 .. size |-> tip - size + i]

\* XREAD with a count: what lies beyond the cursor and is still there.
After(c, n) ==
    LET from == Larger(c, low) IN
    [i \in 1 .. Smaller(n, tip - from) |-> from + i]

-----------------------------------------------------------------------------
(* sse_source and the browser's EventSource *)

\* Seeded faults: a reconnection that tails from the present end, a cursor
\* that stays where it is.
ResumeAtTip == tip
CursorStays(e) == cursor

ResumeFrom == last
CursorAfter(e) == e

\* A connection without Last-Event-ID: the backlog, and "0" for a cursor
\* until an event of it, or of a later batch, is yielded.
ConnectFresh ==
    /\ ~open /\ last = 0
    /\ open' = TRUE
    /\ batch' = Recent(Window)
    /\ cursor' = 0
    /\ start' = Larger(low, tip - Window)
    /\ UNCHANGED <<streamVars, pageVars, wire, drops>>

ConnectResumed ==
    /\ ~open /\ last # 0
    /\ open' = TRUE
    /\ batch' = <<>>
    /\ cursor' = ResumeFrom
    /\ UNCHANGED <<streamVars, pageVars, wire, start, drops>>

\* A poll that returns something; one that does not is a step that changes
\* nothing (max_idle_polls is for tests).
Poll ==
    /\ open /\ batch = <<>>
    /\ After(cursor, BatchSize) # <<>>
    /\ batch' = After(cursor, BatchSize)
    /\ UNCHANGED <<streamVars, open, cursor, wire, pageVars, start, drops>>

Yield ==
    /\ open /\ batch # <<>>
    /\ Len(wire) < Wire
    /\ wire' = Append(wire, Head(batch))
    /\ cursor' = CursorAfter(Head(batch))
    /\ batch' = Tail(batch)
    /\ UNCHANGED <<streamVars, open, pageVars, start, drops>>

\* The browser notes the event's id and the page shows the event.
Receive ==
    /\ wire # <<>>
    /\ last' = Head(wire)
    /\ shown' = shown \cup {Head(wire)}
    /\ wire' = Tail(wire)
    /\ UNCHANGED <<streamVars, serverVars, start, drops>>

\* The connection, or the server, goes away with all that is on its way.
Disconnect ==
    /\ open /\ drops < MaxDrops
    /\ open' = FALSE
    /\ batch' = <<>> /\ wire' = <<>> /\ cursor' = 0
    /\ drops' = drops + 1
    /\ UNCHANGED <<streamVars, pageVars, start>>

Next ==
    \/ Write \/ ConnectFresh \/ ConnectResumed \/ Poll \/ Yield \/ Receive
    \/ Disconnect

Spec == Init /\ [][Next]_vars

\* The generator polls and yields, the network delivers and the browser
\* reconnects as long as they are there; nobody has to write events.
FairSpec ==
    /\ Spec
    /\ WF_vars(ConnectFresh \/ ConnectResumed)
    /\ WF_vars(Poll \/ Yield) /\ WF_vars(Receive)

-----------------------------------------------------------------------------
(* Properties *)

\* The page has what it is owed up to here.
Reached == IF last = 0 THEN start ELSE last

\* The last of s, or a where s is empty.
EndOf(s, a) == IF Len(s) = 0 THEN a ELSE s[Len(s)]

\* From a on, s leaves out nothing that is still in the stream, and repeats
\* nothing.
Continues(s, a) ==
    \A k \in 1 .. Len(s) :
        LET b == IF k = 1 THEN a ELSE s[k - 1]
        IN  b < s[k] /\ s[k] - 1 <= Larger(b, low)

\* What is on the wire goes on where the page stands, what the generator has
\* in hand goes on behind the wire, and where it will read next nothing lies
\* between, whatever was trimmed and wherever the connection began
\* (sse_source 50-61, 72-75).
InStep ==
    /\ Continues(wire, Reached)
    /\ Continues(batch, EndOf(wire, Reached))
    /\ open /\ batch = <<>> =>
           /\ cursor <= EndOf(wire, Reached)
           /\ EndOf(wire, Reached) <= Larger(cursor, low)

Promise == INSTANCE Feed WITH after <- Reached

\* However connections are lost, batches cut and the stream trimmed
\* meanwhile, what the page shows is what Feed promises: from the window of
\* its first event on, every event of the stream once, in order, none left
\* out that was not trimmed (sse_source 50-61, 72-75).
FollowsFeed == Promise!Spec

\* Every event the page is owed gets to it, or is trimmed before it does, or
\* falls out of the window of a connection that begins anew because nothing
\* had arrived on the last one (64-75: the poll never gives up).
EventuallyShown ==
    \A e \in 1 .. MaxEvents :
        (tip >= e /\ start < e) ~> (e \in shown \/ e <= low \/ start >= e)
=============================================================================
