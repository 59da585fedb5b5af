------------------------ MODULE StargazerFeedProofs ------------------------
(***************************************************************************)
(* Proofs about StargazerFeed: a page is shown the stream in order, once   *)
(* and with no gap but what was trimmed, for any window, batch size,       *)
(* retention, connection buffer and number of lost connections.            *)
(***************************************************************************)
EXTENDS StargazerFeed, TLAPS, SequenceTheorems

\* What InStep needs beside itself to be inductive.
FeedInv ==
    /\ TypeOK
    /\ InStep
    /\ ~open => wire = <<>> /\ batch = <<>>
    /\ last = 0 => shown = {}

-----------------------------------------------------------------------------
(* The two reads of EventReader *)

\* The backlog is a run of the newest entries, up to the tip.
LEMMA RecentIs ==
    ASSUME tip \in Nat, low \in 0 .. tip, NEW n \in Nat \ {0}
    PROVE  /\ Recent(n) \in Seq(1 .. tip)
           /\ Continues(Recent(n), Larger(low, tip - n))
           /\ Recent(n) = <<>> => tip = low
BY DEF Recent, Continues, Larger, Smaller

\* A tail continues any position that the cursor has nothing to read before.
LEMMA AfterIs ==
    ASSUME tip \in Nat, low \in 0 .. tip, NEW c \in 0 .. tip,
           NEW n \in Nat \ {0}, NEW a \in 0 .. tip,
           c <= a, a <= Larger(c, low)
    PROVE  /\ After(c, n) \in Seq(1 .. tip)
           /\ Continues(After(c, n), a)
BY DEF After, Continues, Larger, Smaller

-----------------------------------------------------------------------------
(* Runs of events in sequences *)

\* Trimming never opens a gap.
LEMMA ContinuesLater ==
    ASSUME low \in Nat, low' \in Nat, low <= low', NEW s \in Seq(Nat),
           NEW a \in Nat, Continues(s, a)
    PROVE  \A k \in 1 .. Len(s) :
               LET b == IF k = 1 THEN a ELSE s[k - 1]
               IN  b < s[k] /\ s[k] - 1 <= IF b >= low' THEN b ELSE low'
<1> TAKE k \in 1 .. Len(s)
<1>1. s[k] \in Nat
  OBVIOUS
<1>2. CASE k = 1
  <2>1. a < s[k] /\ s[k] - 1 <= Larger(a, low)
    BY <1>2 DEF Continues
  <2>2. s[k] - 1 <= IF a >= low' THEN a ELSE low'
    BY <1>1, <2>1 DEF Larger
  <2> QED BY <1>2, <2>1, <2>2
<1>3. CASE k # 1
  <2>1. s[k - 1] \in Nat
    BY <1>3
  <2> QED BY <1>1, <1>3, <2>1 DEF Continues, Larger
<1> QED BY <1>2, <1>3

\* The first event of a run may be taken off its front ...
LEMMA ContinuesTail ==
    ASSUME low \in Nat, NEW s \in Seq(Nat), s # <<>>, NEW a \in Nat,
           Continues(s, a)
    PROVE  /\ Head(s) \in Nat /\ Tail(s) \in Seq(Nat)
           /\ a < Head(s) /\ Head(s) - 1 <= Larger(a, low)
           /\ Continues(Tail(s), Head(s))
           /\ EndOf(Tail(s), Head(s)) = EndOf(s, a)
<1>1. /\ Head(s) = s[1] /\ Head(s) \in Nat /\ Tail(s) \in Seq(Nat)
      /\ Len(Tail(s)) = Len(s) - 1 /\ 1 \in 1 .. Len(s)
  OBVIOUS
<1>2. \A k \in 1 .. Len(Tail(s)) : Tail(s)[k] = s[k + 1]
  OBVIOUS
<1>3. a < Head(s) /\ Head(s) - 1 <= Larger(a, low)
  BY <1>1 DEF Continues
<1>4. Continues(Tail(s), Head(s))
  <2> SUFFICES ASSUME NEW k \in 1 .. Len(Tail(s))
               PROVE  LET b == IF k = 1 THEN Head(s) ELSE Tail(s)[k - 1]
                      IN  b < Tail(s)[k] /\ Tail(s)[k] - 1 <= Larger(b, low)
    BY DEF Continues
  <2>1. k + 1 \in 1 .. Len(s) /\ k + 1 # 1 /\ (k + 1) - 1 = k
    BY <1>1
  <2>2. s[k] < s[k + 1] /\ s[k + 1] - 1 <= Larger(s[k], low)
    BY <2>1 DEF Continues
  <2>3. s[k] = IF k = 1 THEN Head(s) ELSE Tail(s)[k - 1]
    BY <1>1, <1>2
  <2> QED BY <1>2, <2>2, <2>3
<1>5. EndOf(Tail(s), Head(s)) = EndOf(s, a)
  <2>1. CASE Len(s) = 1
    <3>1. Len(Tail(s)) = 0 /\ Len(s) # 0 /\ s[Len(s)] = Head(s)
      BY <1>1, <2>1
    <3> QED BY <3>1 DEF EndOf
  <2>2. CASE Len(s) # 1
    <3>1. Len(Tail(s)) \in 1 .. Len(Tail(s)) /\ Len(Tail(s)) # 0
          /\ Len(s) # 0 /\ Len(Tail(s)) + 1 = Len(s)
      BY <1>1, <2>2
    <3>2. Tail(s)[Len(Tail(s))] = s[Len(Tail(s)) + 1]
      BY <1>2, <3>1
    <3> QED BY <3>1, <3>2 DEF EndOf
  <2> QED BY <2>1, <2>2
<1> QED BY <1>1, <1>3, <1>4, <1>5

\* ... and put on the end of the one before it.
LEMMA ContinuesAppend ==
    ASSUME low \in Nat, NEW s \in Seq(Nat), NEW a \in Nat, NEW e \in Nat,
           Continues(s, a), EndOf(s, a) < e, e - 1 <= Larger(EndOf(s, a), low)
    PROVE  /\ Append(s, e) \in Seq(Nat)
           /\ Continues(Append(s, e), a)
           /\ EndOf(Append(s, e), a) = e
<1> DEFINE t == Append(s, e)
<1>1. /\ t \in Seq(Nat) /\ Len(t) = Len(s) + 1 /\ t[Len(s) + 1] = e
      /\ \A k \in 1 .. Len(s) : t[k] = s[k]
  OBVIOUS
<1>2. Continues(t, a)
  <2> SUFFICES ASSUME NEW k \in 1 .. Len(t)
               PROVE  LET b == IF k = 1 THEN a ELSE t[k - 1]
                      IN  b < t[k] /\ t[k] - 1 <= Larger(b, low)
    BY DEF Continues
  <2>1. CASE k \in 1 .. Len(s)
    BY <1>1, <2>1 DEF Continues
  <2>2. CASE k = Len(s) + 1
    BY <1>1, <2>2 DEF EndOf
  <2> QED BY <1>1, <2>1, <2>2
<1>3. t # <<>> /\ EndOf(t, a) = e
  BY <1>1 DEF EndOf
<1> QED BY <1>1, <1>2, <1>3

LEMMA NoEvents == Len(<<>>) = 0 /\ \A S : <<>> \in Seq(S)
OBVIOUS

\* The end of a run of entries is an entry.
LEMMA EndOfType ==
    ASSUME tip \in Nat, NEW s \in Seq(1 .. tip), NEW a \in 0 .. tip
    PROVE  EndOf(s, a) \in 0 .. tip
<1>1. CASE Len(s) = 0
  BY <1>1 DEF EndOf
<1>2. CASE Len(s) # 0
  <2>1. Len(s) \in 1 .. Len(s)
    BY <1>2
  <2> QED BY <1>2, <2>1 DEF EndOf
<1> QED BY <1>1, <1>2

-----------------------------------------------------------------------------
(* The invariant *)

LEMMA FeedInit == Init => FeedInv
<1> SUFFICES ASSUME Init PROVE FeedInv
  OBVIOUS
<1>1. TypeOK
  <2>1. batch \in Seq(1 .. tip) /\ wire \in Seq(1 .. tip) /\ Len(wire) = 0
    BY NoEvents DEF Init
  <2>2. /\ tip = 0 /\ low = 0 /\ open = FALSE /\ cursor = 0 /\ last = 0
        /\ shown = {} /\ start = 0 /\ drops = 0
    BY DEF Init
  <2>3. open \in BOOLEAN
    BY DEF Init
  <2> QED BY <2>1, <2>2, <2>3, FeedAssumption DEF TypeOK
<1>2. InStep
  BY DEF Init, InStep, Continues
<1> QED BY <1>1, <1>2 DEF Init, FeedInv

LEMMA FeedTypeStep == FeedInv /\ [Next]_vars => TypeOK'
<1> SUFFICES ASSUME FeedInv, [Next]_vars PROVE TypeOK'
  OBVIOUS
<1> USE FeedAssumption DEF FeedInv, TypeOK
<1>1. CASE Write
  BY <1>1 DEF Write, serverVars, pageVars, Larger
<1>2. CASE ConnectFresh
  <2>1. Recent(Window) \in Seq(1 .. tip)
    BY RecentIs
  <2> QED BY <1>2, <2>1 DEF ConnectFresh, streamVars, pageVars, Larger
<1>3. CASE ConnectResumed
  BY <1>3 DEF ConnectResumed, ResumeFrom, streamVars, pageVars
<1>4. CASE Poll
  <2>1. /\ cursor <= EndOf(wire, Reached)
        /\ EndOf(wire, Reached) <= Larger(cursor, low)
    BY <1>4 DEF Poll, InStep
  <2>2. EndOf(wire, Reached) \in 0 .. tip
    BY EndOfType DEF Reached
  <2>3. After(cursor, BatchSize) \in Seq(1 .. tip)
    BY <2>1, <2>2, AfterIs
  <2> QED BY <1>4, <2>3 DEF Poll, streamVars, pageVars
<1>5. CASE Yield
  BY <1>5 DEF Yield, CursorAfter, streamVars, pageVars
<1>6. CASE Receive
  <2>1. /\ Head(wire) \in 1 .. tip /\ Tail(wire) \in Seq(1 .. tip)
        /\ Len(Tail(wire)) <= Wire
    BY <1>6 DEF Receive
  <2>2. /\ wire' = Tail(wire) /\ last' = Head(wire)
        /\ shown' = shown \cup {Head(wire)}
        /\ UNCHANGED <<tip, low, open, batch, cursor, start, drops>>
    BY <1>6 DEF Receive, streamVars, serverVars
  <2>3. wire' \in Seq(1 .. tip) /\ shown' \subseteq 1 .. tip
    BY <2>1, <2>2
  <2>4. last' \in 0 .. tip
    BY <2>1, <2>2
  <2> QED BY <2>1, <2>2, <2>3, <2>4
<1>7. CASE Disconnect
  <2>1. /\ batch' = <<>> /\ wire' = <<>> /\ cursor' = 0 /\ open' = FALSE
        /\ drops' = drops + 1
        /\ UNCHANGED <<tip, low, last, shown, start>>
    BY <1>7 DEF Disconnect, streamVars, pageVars
  <2>2. batch' \in Seq(1 .. tip) /\ wire' \in Seq(1 .. tip)
        /\ Len(wire') = 0
    BY <2>1, NoEvents
  <2>3. open' \in BOOLEAN
    BY <2>1
  <2> QED BY <2>1, <2>2, <2>3
<1>8. CASE UNCHANGED vars
  BY <1>8 DEF vars
<1> QED BY <1>1, <1>2, <1>3, <1>4, <1>5, <1>6, <1>7, <1>8 DEF Next

LEMMA FeedStep == FeedInv /\ [Next]_vars => FeedInv'
<1> SUFFICES ASSUME FeedInv, [Next]_vars PROVE FeedInv'
  OBVIOUS
<1> USE FeedAssumption
<1> DEFINE end == EndOf(wire, Reached)
<1>0. TypeOK'
  BY FeedTypeStep
<1>1. /\ tip \in Nat /\ low \in 0 .. tip /\ low \in Nat /\ tip' \in Nat
      /\ low' \in Nat /\ wire \in Seq(Nat) /\ batch \in Seq(Nat)
      /\ wire \in Seq(1 .. tip)
      /\ Reached \in 0 .. tip /\ Reached \in Nat
      /\ cursor \in 0 .. tip /\ start \in 0 .. tip /\ last \in 0 .. tip
  <2>1. tip \in Nat /\ low \in 0 .. tip /\ tip' \in Nat /\ low' \in Nat
    BY <1>0 DEF FeedInv, TypeOK
  <2>2. /\ wire \in Seq(1 .. tip) /\ batch \in Seq(1 .. tip)
        /\ cursor \in 0 .. tip /\ start \in 0 .. tip /\ last \in 0 .. tip
    BY DEF FeedInv, TypeOK
  <2>3. wire \in Seq(Nat) /\ batch \in Seq(Nat)
    BY <2>1, <2>2
  <2> QED BY <2>1, <2>2, <2>3 DEF Reached
<1>2. end \in 0 .. tip /\ end \in Nat
  BY <1>1, EndOfType
<1>3. CASE Write
  <2>1. low <= low'
    BY <1>1, <1>3 DEF Write, Larger
  <2>2. UNCHANGED <<wire, batch, cursor, open, last, start, shown>>
    BY <1>3 DEF Write, serverVars, pageVars
  <2>3. Reached' = Reached /\ end' = end
    BY <2>2 DEF Reached, EndOf
  <2>4. Continues(wire, Reached)' /\ Continues(batch, end)'
    <3>1. Continues(wire, Reached) /\ Continues(batch, end)
      BY DEF FeedInv, InStep
    <3>2. Continues(wire, Reached)'
      BY <1>1, <2>1, <2>2, <2>3, <3>1, ContinuesLater DEF Continues, Larger
    <3>3. Continues(batch, end)'
      BY <1>1, <1>2, <2>1, <2>2, <2>3, <3>1, ContinuesLater DEF Continues, Larger
    <3> QED BY <3>2, <3>3
  <2>5. (open /\ batch = <<>> => cursor <= end /\ end <= Larger(cursor, low))'
    <3>1. open /\ batch = <<>> => cursor <= end /\ end <= Larger(cursor, low)
      BY DEF FeedInv, InStep
    <3> QED BY <1>1, <1>2, <2>1, <2>2, <2>3, <3>1 DEF Larger
  <2> QED BY <1>0, <2>2, <2>3, <2>4, <2>5 DEF FeedInv, InStep
<1>4. CASE ConnectFresh
  <2>1. /\ wire = <<>> /\ wire' = <<>> /\ last' = 0 /\ shown' = {}
        /\ low' = low /\ tip' = tip /\ open' /\ cursor' = 0
        /\ batch' = Recent(Window) /\ start' = Larger(low, tip - Window)
    BY <1>4 DEF ConnectFresh, FeedInv, streamVars, pageVars
  <2>2. Reached' = Larger(low, tip - Window) /\ end' = Reached'
    BY <2>1 DEF Reached, EndOf
  <2>3. Continues(batch', Larger(low, tip - Window))
        /\ (batch' = <<>> => tip = low)
    BY <1>1, <2>1, RecentIs
  <2>4. Continues(batch, end)'
    BY <2>1, <2>2, <2>3 DEF Continues
  <2>5. Continues(wire, Reached)'
    BY <2>1 DEF Continues
  <2>6. (open /\ batch = <<>> => cursor <= end /\ end <= Larger(cursor, low))'
    BY <1>1, <2>1, <2>2, <2>3 DEF Larger
  <2> QED BY <1>0, <2>1, <2>4, <2>5, <2>6 DEF FeedInv, InStep
<1>5. CASE ConnectResumed
  <2>1. /\ wire = <<>> /\ wire' = <<>> /\ batch' = <<>> /\ last # 0
        /\ UNCHANGED <<last, shown, start, low, tip>> /\ open'
        /\ cursor' = last
    BY <1>5 DEF ConnectResumed, ResumeFrom, FeedInv, streamVars, pageVars
  <2>2. Reached' = last /\ end' = last
    BY <2>1 DEF Reached, EndOf
  <2>3. Continues(wire, Reached)' /\ Continues(batch, end)'
    BY <2>1 DEF Continues
  <2> QED BY <1>0, <1>1, <2>1, <2>2, <2>3 DEF FeedInv, InStep, Larger
<1>6. CASE Poll
  <2>1. /\ open /\ batch = <<>> /\ batch' = After(cursor, BatchSize)
        /\ batch' # <<>>
        /\ UNCHANGED <<wire, last, shown, start, low, tip, cursor, open>>
    BY <1>6 DEF Poll, streamVars, pageVars
  <2>2. Reached' = Reached /\ end' = end
    BY <2>1 DEF Reached, EndOf
  <2>3. Continues(batch', end)
    BY <1>1, <1>2, <2>1, AfterIs DEF FeedInv, InStep
  <2>4. Continues(batch, end)' /\ Continues(wire, Reached)'
    BY <2>1, <2>2, <2>3 DEF FeedInv, InStep, Continues
  <2> QED BY <1>0, <2>1, <2>4 DEF FeedInv, InStep
<1>7. CASE Yield
  <2>1. /\ open /\ batch # <<>> /\ batch' = Tail(batch)
        /\ wire' = Append(wire, Head(batch)) /\ cursor' = Head(batch)
        /\ UNCHANGED <<last, shown, start, low, tip, open>>
    BY <1>7 DEF Yield, CursorAfter, streamVars, pageVars
  <2>2. Reached' = Reached
    BY <2>1 DEF Reached
  <2>3. /\ Head(batch) \in Nat
        /\ end < Head(batch) /\ Head(batch) - 1 <= Larger(end, low)
        /\ Continues(Tail(batch), Head(batch))
    BY <1>1, <1>2, <2>1, ContinuesTail DEF FeedInv, InStep
  <2>4. Continues(wire', Reached) /\ EndOf(wire', Reached) = Head(batch)
    BY <1>1, <2>1, <2>3, ContinuesAppend DEF FeedInv, InStep
  <2>5. Continues(wire, Reached)' /\ Continues(batch, end)'
    BY <2>1, <2>2, <2>3, <2>4 DEF Continues, EndOf
  <2>6. (cursor = end)'
    BY <2>1, <2>2, <2>4 DEF EndOf
  <2>7. (cursor <= end /\ end <= Larger(cursor, low))'
    BY <1>1, <2>1, <2>3, <2>6 DEF Larger
  <2> QED BY <1>0, <2>1, <2>5, <2>7 DEF FeedInv, InStep
<1>8. CASE Receive
  <2>1. /\ wire # <<>> /\ wire' = Tail(wire) /\ last' = Head(wire)
        /\ UNCHANGED <<batch, cursor, start, low, tip, open>>
    BY <1>8 DEF Receive, streamVars, serverVars
  <2>2. /\ Head(wire) \in Nat /\ Reached < Head(wire)
        /\ Continues(Tail(wire), Head(wire))
        /\ EndOf(Tail(wire), Head(wire)) = end
    BY <1>1, <2>1, ContinuesTail DEF FeedInv, InStep
  <2>3. Reached' = Head(wire) /\ last' # 0
    BY <1>1, <2>1, <2>2 DEF Reached
  <2>4. end' = end
    BY <2>1, <2>2, <2>3 DEF EndOf
  <2>5. Continues(wire, Reached)' /\ Continues(batch, end)'
    BY <2>1, <2>2, <2>3, <2>4 DEF FeedInv, InStep, Continues
  <2>6. open
    BY <2>1 DEF FeedInv
  <2> QED BY <1>0, <2>1, <2>3, <2>4, <2>5, <2>6 DEF FeedInv, InStep, Larger
<1>9. CASE Disconnect
  <2>1. /\ wire' = <<>> /\ batch' = <<>> /\ ~open'
        /\ UNCHANGED <<last, shown>>
    BY <1>9 DEF Disconnect, pageVars
  <2>2. Continues(wire, Reached)' /\ Continues(batch, end)'
    BY <2>1 DEF Continues
  <2> QED BY <1>0, <2>1, <2>2 DEF FeedInv, InStep
<1>10. CASE UNCHANGED vars
  BY <1>0, <1>10 DEF vars, FeedInv, InStep, Continues, EndOf, Reached, Larger
<1> QED BY <1>3, <1>4, <1>5, <1>6, <1>7, <1>8, <1>9, <1>10 DEF Next

\* The inductive invariant: what is on the wire and in hand continues what
\* the page shows (sse_source 50-75).
THEOREM FeedInvariant == Spec => []FeedInv
<1>1. Init => FeedInv
  BY FeedInit
<1>2. FeedInv /\ [Next]_vars => FeedInv'
  BY FeedStep
<1> QED BY <1>1, <1>2, PTL DEF Spec

\* Wherever connections are cut and the stream is trimmed, nothing that is
\* still in the stream is left out of, or repeated in, what is on its way to
\* the page (sse_source 50-75).
THEOREM NoGapInFlight == Spec => []InStep
<1>1. FeedInv => InStep
  BY DEF FeedInv
<1> QED BY <1>1, FeedInvariant, PTL

-----------------------------------------------------------------------------
(* The refinement *)

LEMMA FeedSimulates ==
    FeedInv /\ FeedInv' /\ [Next]_vars => [Promise!Next]_(Promise!vars)
<1> SUFFICES ASSUME FeedInv, FeedInv', [Next]_vars
             PROVE  [Promise!Next]_(Promise!vars)
  OBVIOUS
<1> USE FeedAssumption
<1>1. /\ tip \in Nat /\ low \in 0 .. tip /\ low \in Nat /\ tip' \in Nat
      /\ wire \in Seq(Nat) /\ wire \in Seq(1 .. tip)
      /\ Reached \in Nat /\ last \in 0 .. tip
  BY DEF FeedInv, TypeOK, Reached
<1>2. CASE Write
  <2>1. UNCHANGED <<Reached, shown>>
    BY <1>2 DEF Write, pageVars, Reached
  <2>2. tip' = tip + 1 /\ low' \in low .. tip'
    BY <1>1, <1>2 DEF Write, Larger
  <2> QED BY <2>1, <2>2 DEF Promise!Next, Promise!Write
<1>3. CASE ConnectFresh
  <2>1. /\ UNCHANGED <<tip, low, shown>> /\ shown = {}
        /\ Reached' = Larger(low, tip - Window)
    BY <1>3 DEF ConnectFresh, streamVars, pageVars, FeedInv, Reached
  <2>2. Reached' = IF tip - low >= Window THEN tip - Window ELSE low
    BY <1>1, <2>1 DEF Larger
  <2> QED BY <2>1, <2>2 DEF Promise!Next, Promise!Open
<1>4. CASE Receive
  <2>1. /\ wire # <<>> /\ last' = Head(wire)
        /\ shown' = shown \cup {Head(wire)} /\ UNCHANGED <<tip, low>>
    BY <1>4 DEF Receive, streamVars
  <2>2. /\ Head(wire) \in Nat /\ Reached < Head(wire)
        /\ Head(wire) - 1 <= Larger(Reached, low)
    BY <1>1, <2>1, ContinuesTail DEF FeedInv, InStep
  <2>3. Head(wire) \in 1 .. tip
    BY <1>1, <2>1
  <2>4. Reached' = Head(wire)
    BY <1>1, <2>1, <2>2 DEF Reached
  <2>5. \A i \in Reached + 1 .. Head(wire) - 1 : i <= low
    BY <1>1, <2>2 DEF Larger
  <2>6. Promise!Show(Head(wire))
    BY <2>1, <2>4, <2>5 DEF Promise!Show
  <2>7. Head(wire) \in Reached + 1 .. tip
    BY <1>1, <2>2, <2>3
  <2> QED BY <2>6, <2>7 DEF Promise!Next
<1>5. CASE ConnectResumed \/ Poll \/ Yield \/ Disconnect \/ UNCHANGED vars
  BY <1>5 DEF ConnectResumed, Poll, Yield, Disconnect, vars, streamVars,
              pageVars, Promise!vars, Reached
<1> QED BY <1>2, <1>3, <1>4, <1>5 DEF Next

\* The server, the connection and the browser together implement Feed: from
\* the window on, the page shows the stream once, in order, and without a
\* gap that trimming did not make (server.py 5-7).
THEOREM PageFollowsFeed == Spec => FollowsFeed
<1>1. Init => Promise!Init
  BY DEF Init, Promise!Init, Reached
<1>2. FeedInv /\ FeedInv' /\ [Next]_vars => [Promise!Next]_(Promise!vars)
  BY FeedSimulates
<1> QED BY <1>1, <1>2, FeedInvariant, PTL
        DEF Spec, FollowsFeed, Promise!Spec
=============================================================================
