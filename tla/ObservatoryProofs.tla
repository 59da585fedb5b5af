-------------------------- MODULE ObservatoryProofs --------------------------
(***************************************************************************)
(* Proofs about Observatory for any bodies, messages, control blocks and   *)
(* budgets: type correctness and the Horizon bound.                        *)
(***************************************************************************)
EXTENDS Observatory, SequenceTheorems, TLAPS

-----------------------------------------------------------------------------
(* Sequences and the entry in hand *)

\* The queue operations of the pipeline keep a sequence over its set.
LEMMA SeqOps ==
    ASSUME NEW S, NEW s \in Seq(S)
    PROVE  /\ s # <<>> => Head(s) \in S /\ Tail(s) \in Seq(S)
           /\ \A e \in S : Append(s, e) \in Seq(S)
           /\ \A t \in Seq(S) : s \o t \in Seq(S)
<1>1. s # <<>> => Head(s) \in S /\ Tail(s) \in Seq(S)
  BY HeadTailProperties
<1>2. \A e \in S : Append(s, e) \in Seq(S)
  BY AppendProperties
<1>3. \A t \in Seq(S) : s \o t \in Seq(S)
  BY ConcatProperties
<1> QED
  BY <1>1, <1>2, <1>3

\* XREADGROUP splits a stream into what it returns and what it leaves.
LEMMA SplitQueue ==
    ASSUME NEW S, NEW q \in Seq(S)
    PROVE  /\ SubSeq(q, 1, Took(q)) \in Seq(S)
           /\ SubSeq(q, Took(q) + 1, Len(q)) \in Seq(S)
           /\ q # <<>> => SubSeq(q, 1, Took(q)) # <<>>
<1>1. Len(q) \in Nat /\ Took(q) \in 0 .. Len(q)
  BY ObservatoryAssumption, LenProperties DEF Took
<1>2. SubSeq(q, 1, Took(q)) \in Seq(S)
  BY <1>1, SubSeqProperties
<1>3. SubSeq(q, Took(q) + 1, Len(q)) \in Seq(S)
  BY <1>1, SubSeqProperties
<1>4. ASSUME q # <<>>
      PROVE  SubSeq(q, 1, Took(q)) # <<>>
  <2>1. Len(q) > 0
    BY <1>1, <1>4, EmptySeq
  <2>2. Took(q) \in 1 .. Len(q)
    BY <1>1, <2>1, ObservatoryAssumption DEF Took
  <2>3. Len(SubSeq(q, 1, Took(q))) = Took(q)
    BY <1>1, <2>2, SubSeqProperties
  <2> QED
    BY <2>2, <2>3
<1> QED
  BY <1>2, <1>3, <1>4

\* The entry in hand comes from a stream of the batch.
LEMMA InHandFacts ==
    ASSUME NEW S, NEW b \in Body, batch[b] \in [Stream -> Seq(S)],
           InHand(batch[b])
    PROVE  /\ Via(b) \in Stream
           /\ batch[b][Via(b)] # <<>>
           /\ Cur(b) \in S
           /\ Tail(batch[b][Via(b)]) \in Seq(S)
<1>1. Via(b) \in Stream
  BY DEF Via, Stream
<1>2. batch[b][Via(b)] # <<>>
  BY DEF Via, InHand, Stream
<1> QED
  BY <1>1, <1>2, SeqOps DEF Cur

\* With nothing pending there is nothing in hand.
LEMMA EmptyFacts ==
    ASSUME NEW S
    PROVE  Empty \in [Stream -> Seq(S)]
  BY DEF Empty

-----------------------------------------------------------------------------
(* Where envelopes are stored *)

\* XADD appends to an inbox or changes nothing.
LEMMA XAddKeeps ==
    ASSUME NEW S, NEW e \in S, queue \in [Body -> [Stream -> Seq(S)]], XAdd(e)
    PROVE  queue' \in [Body -> [Stream -> Seq(S)]]
<1>1. CASE e.to \in Body
  <2>1. "inbox" \in Stream
    BY DEF Stream
  <2>2. queue[e.to]["inbox"] \in Seq(S)
    BY <1>1, <2>1
  <2>3. Append(queue[e.to]["inbox"], e) \in Seq(S)
    BY <2>2, SeqOps
  <2> QED
    BY <1>1, <2>1, <2>3 DEF XAdd
<1>2. CASE e.to \notin Body
  BY <1>2 DEF XAdd
<1> QED
  BY <1>1, <1>2

\* A process that stops hands its batch back to the pending list.
LEMMA ForgetKeeps ==
    ASSUME NEW S, Stored(S), NEW b \in Body, Forget(b)
    PROVE  /\ batch' \in [Body -> [Stream -> Seq(S)]]
           /\ lost' \in [Body -> [Stream -> Seq(S)]]
           /\ moving' \in [Body -> Seq(S)]
<1>1. [s \in Stream |-> lost[b][s] \o batch[b][s]] \in [Stream -> Seq(S)]
  BY SeqOps DEF Stored
<1>2. <<>> \in Seq(S)
  OBVIOUS
<1>3. Empty \in [Stream -> Seq(S)]
  BY EmptyFacts
<1> QED
  BY <1>1, <1>2, <1>3 DEF Stored, Forget

\* The steps that read and write no stored envelope.
Still(b) ==
    \/ Beat(b) \/ CheckKill(b) \/ Count(b) \/ Limit(b) \/ EndNote(b)
    \/ Receive(b) \/ Turn(b) \/ Save(b) \/ StoreSession(b)
    \/ Withhold(b) \/ MirrorReply(b) \/ MarkEmitted(b) \/ Finish(b)

\* Whatever set the origins and the replies are drawn from, the queues, lists
\* and batches never hold anything else.
LEMMA StoredStep ==
    ASSUME NEW S, Stored(S), HandInv, pc \in [Body -> Pc], Origin \subseteq S,
           \A b \in Body : HoldReply(b) \/ EmitReply(b) => ReplyOf(b) \in S,
           \A b \in Body : HoldReply(b) => ReplyOf(b).to \in Id,
           [Next]_vars
    PROVE  Stored(S)'
<1> USE DEF Stored
<1>1. ASSUME NEW b \in Body, Still(b)
      PROVE  Stored(S)'
  BY <1>1 DEF Still, Beat, CheckKill, Count, Limit, EndNote, Receive, Turn,
     Save, StoreSession, Withhold, MirrorReply, MarkEmitted, Finish, wireVars
<1>2. ASSUME NEW b \in Body, Start(b) \/ Reconnect(b)
      PROVE  Stored(S)'
  <2>1. Empty \in [Stream -> Seq(S)] /\ lost[b] \in [Stream -> Seq(S)]
    BY EmptyFacts
  <2>2. /\ batch' = [batch EXCEPT ![b] = lost[b]]
        /\ lost' = [lost EXCEPT ![b] = Empty]
        /\ UNCHANGED <<sent, queue, hold, parked, moving>>
    BY <1>2 DEF Start, Reconnect, wireVars
  <2> QED
    BY <2>1, <2>2
<1>3. ASSUME NEW b \in Body, Drain(b)
      PROVE  Stored(S)'
  <2>1. CASE hold[b] = <<>>
    BY <1>3, <2>1 DEF Drain
  <2>2. CASE hold[b] # <<>>
    <3>1. b \in Id /\ hold[b] \in Seq(S) /\ moving[b] \in Seq(S)
      BY DEF Id
    <3>2. Head(hold[b]) \in S /\ Tail(hold[b]) \in Seq(S)
      BY <2>2, <3>1, SeqOps
    <3>3. Append(moving[b], Head(hold[b])) \in Seq(S)
      BY <3>1, <3>2, SeqOps
    <3> QED
      BY <1>3, <2>2, <3>1, <3>2, <3>3 DEF Drain
  <2> QED
    BY <2>1, <2>2
<1>4. ASSUME NEW b \in Body, Flush(b)
      PROVE  Stored(S)'
  <2>1. CASE moving[b] # <<>> /\ XAdd(Head(moving[b]))
    <3>1. Head(moving[b]) \in S
      BY <2>1, SeqOps
    <3>2. queue' \in [Body -> [Stream -> Seq(S)]]
      BY <2>1, <3>1, XAddKeeps
    <3> QED
      BY <1>4, <3>2 DEF Flush
  <2>2. CASE UNCHANGED queue
    BY <1>4, <2>2 DEF Flush
  <2> QED
    BY <1>4, <2>1, <2>2 DEF Flush
<1>5. ASSUME NEW b \in Body, FlushMirror(b)
      PROVE  Stored(S)'
  <2>1. Tail(moving[b]) \in Seq(S)
    BY <1>5, SeqOps DEF FlushMirror, HandInv
  <2> QED
    BY <1>5, <2>1 DEF FlushMirror
<1>6. ASSUME NEW b \in Body, Unpark(b)
      PROVE  Stored(S)'
  <2>1. CASE parked[b] = <<>>
    BY <1>6, <2>1 DEF Unpark
  <2>2. CASE parked[b] # <<>>
    <3>1. Head(parked[b]) \in S /\ Tail(parked[b]) \in Seq(S)
      BY <2>2, SeqOps
    <3>2. <<Head(parked[b])>> \in Seq(S)
      BY <3>1
    <3> QED
      BY <1>6, <2>2, <3>1, <3>2 DEF Unpark
  <2> QED
    BY <2>1, <2>2
<1>7. ASSUME NEW b \in Body, Repost(b)
      PROVE  Stored(S)'
  <2>1. Head(moving[b]) \in S
    BY <1>7, SeqOps DEF Repost, HandInv
  <2>2. "inbox" \in Stream /\ <<>> \in Seq(S)
    BY DEF Stream
  <2>3. Append(queue[b]["inbox"], Head(moving[b])) \in Seq(S)
    BY <2>1, <2>2, SeqOps
  <2> QED
    BY <1>7, <2>2, <2>3 DEF Repost
<1>8. ASSUME NEW b \in Body, Poll(b)
      PROVE  Stored(S)'
  <2>1. \A s \in Stream :
           /\ SubSeq(queue[b][s], 1, Took(queue[b][s])) \in Seq(S)
           /\ SubSeq(queue[b][s], Took(queue[b][s]) + 1, Len(queue[b][s]))
                 \in Seq(S)
    BY SplitQueue
  <2> QED
    BY <1>8, <2>1 DEF Poll
<1>9. ASSUME NEW b \in Body, CheckPause(b)
      PROVE  Stored(S)'
  <2>1. Cur(b) \in S
    BY <1>9, InHandFacts DEF CheckPause, HandInv, Busy
  <2>2. Append(parked[b], Cur(b)) \in Seq(S)
    BY <2>1, SeqOps
  <2>3. parked' \in [Body -> Seq(S)]
    BY <1>9, <2>2 DEF CheckPause
  <2> QED
    BY <1>9, <2>3 DEF CheckPause
<1>10. ASSUME NEW b \in Body, HoldReply(b)
       PROVE  Stored(S)'
  <2>1. ReplyOf(b) \in S /\ ReplyOf(b).to \in Id
    BY <1>10
  <2>2. Append(hold[ReplyOf(b).to], ReplyOf(b)) \in Seq(S)
    BY <2>1, SeqOps
  <2> QED
    BY <1>10, <2>1, <2>2 DEF HoldReply
<1>11. ASSUME NEW b \in Body, EmitReply(b)
       PROVE  Stored(S)'
  <2>1. ReplyOf(b) \in S
    BY <1>11
  <2>2. queue' \in [Body -> [Stream -> Seq(S)]]
    BY <1>11, <2>1, XAddKeeps DEF EmitReply
  <2> QED
    BY <1>11, <2>1, <2>2 DEF EmitReply
<1>12. ASSUME NEW b \in Body, Ack(b)
       PROVE  Stored(S)'
  <2>1. Via(b) \in Stream /\ Tail(batch[b][Via(b)]) \in Seq(S)
    BY <1>12, InHandFacts DEF Ack, HandInv, Busy
  <2>2. batch' \in [Body -> [Stream -> Seq(S)]]
    BY <1>12, <2>1 DEF Ack
  <2> QED
    BY <1>12, <2>2 DEF Ack, wireVars
<1>13. ASSUME NEW b \in Body, Crash(b) \/ Drop(b)
       PROVE  Stored(S)'
  BY <1>13, ForgetKeeps DEF Crash, Drop, wireVars
<1>14. ASSUME NEW b \in Body, ReconnectFails(b)
       PROVE  Stored(S)'
  BY <1>14 DEF ReconnectFails, wireVars
<1>15. ASSUME NEW o \in Origin, Post(o)
       PROVE  Stored(S)'
  <2>1. o \in S
    OBVIOUS
  <2>2. queue' \in [Body -> [Stream -> Seq(S)]]
    <3>1. CASE IsWave(o)
      <4>1. "broadcast" \in Stream
        BY DEF Stream
      <4>2. \A b \in Body : Append(queue[b]["broadcast"], o) \in Seq(S)
        BY <2>1, <4>1, SeqOps
      <4>3. \A b \in Body : [queue[b] EXCEPT !["broadcast"] = Append(@, o)]
               \in [Stream -> Seq(S)]
        BY <4>1, <4>2
      <4>4. queue' = [b \in Body |->
               [queue[b] EXCEPT !["broadcast"] = Append(@, o)]]
        BY <1>15, <3>1 DEF Post
      <4> QED
        BY <4>3, <4>4
    <3>2. CASE ~IsWave(o)
      BY <1>15, <2>1, <3>2, XAddKeeps DEF Post
    <3> QED
      BY <3>1, <3>2
  <2> QED
    BY <1>15, <2>1, <2>2 DEF Post, pipeVars
<1>16. CASE \/ \E i \in Id : Lapse(i)
            \/ \E c \in Conv : SetControl(c)
            \/ \E b \in Body : KillProject(b)
            \/ NextWindow
            \/ UNCHANGED vars
  BY <1>16 DEF Lapse, SetControl, KillProject, NextWindow, vars, pipeVars,
     wireVars
<1> QED
  BY <1>1, <1>2, <1>3, <1>4, <1>5, <1>6, <1>7, <1>8, <1>9, <1>10, <1>11,
     <1>12, <1>13, <1>14, <1>15, <1>16 DEF Next, Step, Still

-----------------------------------------------------------------------------
(* Type correctness *)

\* A reply that leaves is an envelope to a project id.
LEMMA ReplyTyped ==
    ASSUME TypeOK, HandInv, NEW b \in Body, HoldReply(b) \/ EmitReply(b)
    PROVE  /\ Cur(b) \in Envelope
           /\ Recipient(Cur(b), ctrl[b]) \in Id
           /\ ReplyOf(b) \in Envelope
           /\ ReplyOf(b).to \in Id
<1>1. Cur(b) \in Envelope
  BY InHandFacts DEF TypeOK, HandInv, Busy, Guarded, HoldReply, EmitReply
<1>2. Recipient(Cur(b), ctrl[b]) \in Id
  <2>1. ctrl[b].to \in Id \cup {Broadcast, NoOne}
    BY DEF TypeOK, ControlBlock
  <2>2. Recipient(Cur(b), ctrl[b]) # Broadcast
    BY DEF HoldReply, EmitReply, Deliverable
  <2>3. Cur(b).from \in Id
    BY <1>1 DEF Envelope
  <2> QED
    BY <2>1, <2>2, <2>3 DEF Recipient
<1>3. b \in Id
  BY DEF Id
<1>4. DeriveReplyId(Cur(b).mid) \in Root \X Nat
  BY <1>1 DEF DeriveReplyId, Envelope
<1>5. /\ Cur(b).conv \in Conv /\ NextHop(Cur(b)) \in Nat /\ Cur(b).max \in Nat
  BY <1>1 DEF NextHop, Envelope
<1> QED
  BY <1>1, <1>2, <1>3, <1>4, <1>5 DEF ReplyOf, MakeReply, Envelope

\* What Resume leads to works on the entry in hand.
LEMMA ResumeFacts ==
    ASSUME NEW state
    PROVE  Resume(state) \in {"turn", "reply", "finish", "endnote"}
  BY DEF Resume

\* The steps of process() that keep the entry in hand and go on with it.
Works(b) ==
    \/ CheckKill(b) \/ CheckPause(b) \/ Count(b) \/ Limit(b) \/ EndNote(b)
    \/ Receive(b) \/ Turn(b) \/ Save(b) \/ StoreSession(b) \/ Withhold(b)
    \/ HoldReply(b) \/ EmitReply(b) \/ MirrorReply(b) \/ MarkEmitted(b)
    \/ Finish(b)

\* Where they go.
LEMMA WorksFacts ==
    ASSUME NEW b \in Body, Works(b)
    PROVE  /\ pc[b] \in Busy
           /\ \E l \in Busy : pc' = [pc EXCEPT ![b] = l]
           /\ UNCHANGED <<batch, lost, phase, moving>>
<1> USE DEF Goto, Busy, Guarded
<1>1. CASE CheckKill(b) \/ Count(b) \/ Limit(b) \/ EndNote(b)
  BY <1>1 DEF CheckKill, Count, Limit, EndNote
<1>2. CASE CheckPause(b)
  <2>1. PICK l : pc' = [pc EXCEPT ![b] = l] /\ l \in Busy
    BY <1>2, ResumeFacts DEF CheckPause
  <2> QED
    BY <1>2, <2>1 DEF CheckPause
<1>3. CASE Receive(b) \/ Turn(b) \/ Save(b) \/ StoreSession(b)
  BY <1>3 DEF Receive, Turn, Save, StoreSession
<1>4. CASE Withhold(b) \/ HoldReply(b) \/ EmitReply(b)
  BY <1>4 DEF Withhold, HoldReply, EmitReply
<1>5. CASE MirrorReply(b) \/ MarkEmitted(b) \/ Finish(b)
  BY <1>5 DEF MirrorReply, MarkEmitted, Finish
<1> QED
  BY <1>1, <1>2, <1>3, <1>4, <1>5 DEF Works

\* A step that works on an entry has one.
LEMMA HandStep ==
    ASSUME TypeOK, HandInv, [Next]_vars
    PROVE  HandInv'
<1> USE DEF TypeOK, Goto
<1> DEFINE Same(x) == /\ pc'[x] = pc[x]
                      /\ batch'[x] = batch[x]
                      /\ moving'[x] = moving[x]
           Fine(x) == /\ pc'[x] \in Busy => InHand(batch'[x])
                      /\ pc'[x] \in {"mirrorheld", "repost"} => moving'[x] # <<>>
<1>1. ASSUME NEW b \in Body, \A x \in Body \ {b} : Same(x), Fine(b)
      PROVE  HandInv'
  BY <1>1 DEF HandInv, InHand
<1>2. ASSUME NEW b \in Body, Works(b)
      PROVE  HandInv'
  <2>1. \A x \in Body \ {b} : Same(x)
    BY <1>2, WorksFacts
  <2>2. pc[b] \in Busy /\ pc'[b] \in Busy /\ batch'[b] = batch[b]
    BY <1>2, WorksFacts
  <2>3. Fine(b)
    BY <2>2 DEF HandInv, Busy, Guarded
  <2> QED
    BY <1>1, <2>1, <2>3
<1>3. ASSUME NEW b \in Body, Start(b) \/ Reconnect(b)
      PROVE  HandInv'
  <2>1. (\A x \in Body \ {b} : Same(x)) /\ batch'[b] = lost[b]
    <3>1. /\ batch' = [batch EXCEPT ![b] = lost[b]]
          /\ UNCHANGED moving
      BY <1>3 DEF Start, Reconnect
    <3>2. \A x \in Body \ {b} : pc'[x] = pc[x]
      BY <1>3 DEF Start, Reconnect
    <3> QED
      BY <3>1, <3>2
  <2>2. \/ pc'[b] = "check" /\ InHand(lost[b])
        \/ pc'[b] \in {"drain", "beat"}
    BY <1>3 DEF Start, Reconnect
  <2>3. Fine(b)
    BY <2>1, <2>2 DEF Busy, Guarded
  <2> QED
    BY <1>1, <2>1, <2>3
<1>4. ASSUME NEW b \in Body, Beat(b) \/ Drain(b)
      PROVE  HandInv'
  <2>1. \A x \in Body \ {b} : Same(x)
    BY <1>4 DEF Beat, Drain, wireVars
  <2>2. pc'[b] \in {"drain", "flush"}
    BY <1>4 DEF Beat, Drain
  <2> QED
    BY <1>1, <2>1, <2>2 DEF Busy, Guarded
<1>5. ASSUME NEW b \in Body, Flush(b)
      PROVE  HandInv'
  <2>1. \A x \in Body \ {b} : Same(x)
    BY <1>5 DEF Flush
  <2>2. \/ pc'[b] = "mirrorheld" /\ moving'[b] # <<>>
        \/ pc'[b] \in {"beat", "unpark"}
    BY <1>5 DEF Flush
  <2> QED
    BY <1>1, <2>1, <2>2 DEF Busy, Guarded
<1>6. ASSUME NEW b \in Body, FlushMirror(b) \/ Repost(b)
      PROVE  HandInv'
  <2>1. \A x \in Body \ {b} : Same(x)
    BY <1>6 DEF FlushMirror, Repost
  <2>2. pc'[b] \in {"flush", "unpark"}
    BY <1>6 DEF FlushMirror, Repost
  <2> QED
    BY <1>1, <2>1, <2>2 DEF Busy, Guarded
<1>7. ASSUME NEW b \in Body, Unpark(b)
      PROVE  HandInv'
  <2>1. \A x \in Body \ {b} : Same(x)
    BY <1>7 DEF Unpark
  <2>2. \/ pc'[b] = "repost" /\ moving'[b] = <<Head(parked[b])>>
        \/ pc'[b] = "poll"
    BY <1>7 DEF Unpark
  <2>3. <<Head(parked[b])>> # <<>>
    OBVIOUS
  <2> QED
    BY <1>1, <2>1, <2>2, <2>3 DEF Busy, Guarded
<1>8. ASSUME NEW b \in Body, Poll(b)
      PROVE  HandInv'
  <2>1. \A x \in Body \ {b} : pc'[x] = pc[x] /\ moving'[x] = moving[x]
    BY <1>8 DEF Poll
  <2>2. \A x \in Body \ {b} : batch'[x] = batch[x]
    BY <1>8 DEF Poll
  <2>3. \A s \in Stream : batch'[b][s] =
           SubSeq(queue[b][s], 1, Took(queue[b][s]))
    BY <1>8 DEF Poll
  <2>4. ASSUME InHand(queue[b])
        PROVE  InHand(batch'[b])
    <3>1. PICK s \in Stream : queue[b][s] # <<>>
      BY <2>4 DEF InHand
    <3>2. queue[b][s] \in Seq(Envelope)
      OBVIOUS
    <3>3. SubSeq(queue[b][s], 1, Took(queue[b][s])) # <<>>
      BY <3>1, <3>2, SplitQueue
    <3> QED
      BY <2>3, <3>3 DEF InHand
  <2>5. \/ pc'[b] = "check" /\ InHand(queue[b])
        \/ pc'[b] = "beat"
    BY <1>8 DEF Poll
  <2> QED
    BY <1>1, <2>1, <2>2, <2>4, <2>5 DEF Busy, Guarded
<1>9. ASSUME NEW b \in Body, Ack(b)
      PROVE  HandInv'
  <2>1. \A x \in Body \ {b} : Same(x)
    BY <1>9 DEF Ack, Proceed, wireVars
  <2>2. \/ pc'[b] = "check" /\ InHand(batch'[b])
        \/ pc'[b] \in {"drain", "beat"}
    BY <1>9 DEF Ack, Proceed
  <2> QED
    BY <1>1, <2>1, <2>2 DEF Busy, Guarded
<1>10. ASSUME NEW b \in Body, Crash(b) \/ Drop(b) \/ ReconnectFails(b)
       PROVE  HandInv'
  <2>1. \A x \in Body \ {b} : Same(x)
    BY <1>10 DEF Crash, Drop, ReconnectFails, Forget
  <2>2. pc'[b] \in {"down", "beat", "reconnect"}
    BY <1>10 DEF Crash, Drop, ReconnectFails
  <2> QED
    BY <1>1, <2>1, <2>2 DEF Busy, Guarded
<1>11. CASE \/ \E o \in Origin : Post(o)
            \/ \E i \in Id : Lapse(i)
            \/ \E c \in Conv : SetControl(c)
            \/ \E b \in Body : KillProject(b)
            \/ NextWindow
            \/ UNCHANGED vars
  <2>1. UNCHANGED <<pc, batch, moving>>
    BY <1>11 DEF Post, Lapse, SetControl, KillProject, NextWindow, vars,
       pipeVars
  <2> QED
    BY <2>1 DEF HandInv, InHand
<1> QED
  BY <1>2, <1>3, <1>4, <1>5, <1>6, <1>7, <1>8, <1>9, <1>10, <1>11
  DEF Next, Step, Works

\* Everything but the stored envelopes.
Keys ==
    /\ posted \subseteq Origin
    /\ log \in [Body -> [Mid -> LogState]]
    /\ saved \in [Body -> [Mid -> ControlBlock]]
    /\ sessions \in [Body -> SUBSET Conv]
    /\ pc \in [Body -> Pc]
    /\ phase \in [Body -> Phase]
    /\ ctrl \in [Body -> ControlBlock]
    /\ conv \in [Conv -> {"active", "paused", "killed"}]
    /\ slain \subseteq Body
    /\ online \subseteq Id /\ registry \subseteq Id
    /\ rate \in [Conv -> Nat]
    /\ mirrors \in [Id \X Mid -> Nat]
    /\ ended \subseteq Body \X Id \X (Root \X Nat)
    /\ heard \subseteq Body \X Id \X (Root \X Nat)
    /\ budget \in [Fault -> Nat]

LEMMA TypeSplit == TypeOK <=> Stored(Envelope) /\ Keys
  BY DEF TypeOK, Stored, Keys

\* Each write leaves a value of the key's type.
LEMMA MarkTyped ==
    ASSUME Keys, NEW b \in Body, NEW e, NEW state \in LogState, Mark(b, e, state)
    PROVE  log' \in [Body -> [Mid -> LogState]]
  BY DEF Keys, Mark

LEMMA RecordTyped ==
    ASSUME Keys, NEW e, Record(e)
    PROVE  mirrors' \in [Id \X Mid -> Nat]
<1> DEFINE k == <<e.from, e.mid>>
<1>1. mirrors' = [mirrors EXCEPT ![k] = mirrors[k] + 1]
  BY DEF Record
<1>2. k \in Id \X Mid => mirrors[k] + 1 \in Nat
  BY DEF Keys
<1> HIDE DEF k
<1> QED
  BY <1>1, <1>2 DEF Keys

LEMMA SpendTyped ==
    ASSUME Keys, NEW f \in Fault, Spend(f)
    PROVE  budget' \in [Fault -> Nat]
  BY DEF Keys, Spend

\* A bounded envelope's id is a key of the log.
LEMMA BoundedFacts ==
    ASSUME NEW e \in Bounded
    PROVE  e \in Envelope /\ e.mid \in Mid /\ e.mid = <<e.mid[1], e.mid[2]>>
<1>1. PICK o \in Origin : o.mid[1] = e.mid[1] /\ o.max = e.max
  BY DEF Bounded
<1>2. /\ e \in Envelope /\ e.hop = e.mid[2] /\ e.hop <= e.max
  BY DEF Bounded
<1>3. o.max \in 1 .. Ceiling /\ Ceiling \in Nat
  BY EnvelopeAssumption
<1>4. e.mid \in Root \X Nat /\ e.hop \in Nat /\ e.max \in Nat
  BY <1>2 DEF Envelope
<1>5. e.mid[1] \in Root /\ e.mid[2] \in 0 .. Ceiling
  BY <1>1, <1>2, <1>3, <1>4
<1> QED
  BY <1>2, <1>4, <1>5 DEF Mid

\* The log, the control block in hand and the counters keep their types.  It
\* takes the Horizon: beyond the ceiling a message id is no key of the log.
LEMMA KeysStep ==
    ASSUME HorizonInv, [Next]_vars
    PROVE  Keys'
<1>0. Keys /\ Stored(Bounded) /\ HandInv
  BY TypeSplit DEF HorizonInv
<1> USE DEF Keys, Goto, pipeVars, logVars, wireVars, envVars
<1>c. \A b \in Body : pc[b] \in Busy =>
         /\ Cur(b) \in Envelope
         /\ Cur(b).mid \in Mid
         /\ <<b, Cur(b).from, Cur(b).mid>> \in Body \X Id \X (Root \X Nat)
         /\ Cur(b).conv \in Conv
  <2> SUFFICES ASSUME NEW b \in Body, pc[b] \in Busy
               PROVE  /\ Cur(b) \in Envelope
                      /\ Cur(b).mid \in Mid
                      /\ <<b, Cur(b).from, Cur(b).mid>>
                            \in Body \X Id \X (Root \X Nat)
                      /\ Cur(b).conv \in Conv
    OBVIOUS
  <2>1. Cur(b) \in Bounded
    BY <1>0, InHandFacts DEF HandInv, Stored
  <2>2. Cur(b) \in Envelope /\ Cur(b).mid \in Mid
    BY <2>1, BoundedFacts
  <2> QED
    BY <2>2 DEF Envelope
<1>1. ASSUME NEW b \in Body, Start(b) \/ Beat(b)
      PROVE  Keys'
  BY <1>0, <1>1 DEF Start, Beat, Pc, Phase, Id
<1>2. ASSUME NEW b \in Body, Drain(b) \/ Unpark(b) \/ Repost(b) \/ Poll(b)
      PROVE  Keys'
  BY <1>0, <1>2 DEF Drain, Unpark, Repost, Poll, Pc
<1>3. ASSUME NEW b \in Body, Flush(b)
      PROVE  Keys'
  BY <1>0, <1>3 DEF Flush, Pc, Phase
<1>4. ASSUME NEW b \in Body, FlushMirror(b)
      PROVE  Keys'
  BY <1>0, <1>4, RecordTyped DEF FlushMirror, Pc
<1>5. ASSUME NEW b \in Body, CheckKill(b)
      PROVE  Keys'
  <2>1. log' \in [Body -> [Mid -> LogState]]
    BY <1>0, <1>5, MarkTyped DEF CheckKill, LogState
  <2> QED
    BY <1>0, <1>5, <2>1 DEF CheckKill, Pc
<1>6. ASSUME NEW b \in Body, CheckPause(b)
      PROVE  Keys'
  <2>1. log' \in [Body -> [Mid -> LogState]]
    BY <1>0, <1>6, MarkTyped DEF CheckPause, LogState
  <2>2. saved[b][Cur(b).mid] \in ControlBlock
    BY <1>0, <1>6, <1>c DEF CheckPause, Busy, Guarded
  <2>3. Silent \in ControlBlock
    BY DEF Silent, ControlBlock
  <2>4. \E c \in ControlBlock : ctrl' = [ctrl EXCEPT ![b] = c]
    BY <1>6, <2>2, <2>3 DEF CheckPause
  <2>5. pc' \in [Body -> Pc]
    BY <1>0, <1>6, ResumeFacts DEF CheckPause, Pc
  <2> QED
    BY <1>0, <1>6, <2>1, <2>4, <2>5 DEF CheckPause
<1>7. ASSUME NEW b \in Body, Count(b)
      PROVE  Keys'
  <2>1. Cur(b).conv \in Conv
    BY <1>c, <1>7 DEF Count, Busy, Guarded
  <2> QED
    BY <1>0, <1>7, <2>1 DEF Count, Pc
<1>8. ASSUME NEW b \in Body, Limit(b) \/ Receive(b) \/ MarkEmitted(b) \/ Finish(b)
      PROVE  Keys'
  <2>1. log' \in [Body -> [Mid -> LogState]]
    BY <1>0, <1>8, MarkTyped DEF Limit, Receive, MarkEmitted, Finish, LogState
  <2> QED
    BY <1>0, <1>8, <2>1 DEF Limit, Receive, MarkEmitted, Finish, Pc
<1>9. ASSUME NEW b \in Body, EndNote(b)
      PROVE  Keys'
  <2>1. <<b, Cur(b).from, Cur(b).mid>> \in Body \X Id \X (Root \X Nat)
    BY <1>c, <1>9 DEF EndNote, Busy
  <2> QED
    BY <1>0, <1>9, <2>1 DEF EndNote, Pc
<1>10. ASSUME NEW b \in Body, Turn(b)
       PROVE  Keys'
  <2>1. <<b, Cur(b).from, Cur(b).mid>> \in Body \X Id \X (Root \X Nat)
    BY <1>c, <1>10 DEF Turn, Busy, Guarded
  <2>2. \A c \in Control : WavePolicy(Cur(b), c) \in ControlBlock
    BY ObservatoryAssumption DEF WavePolicy, ControlBlock
  <2>3. PICK c \in Control :
           ctrl' = [ctrl EXCEPT ![b] = WavePolicy(Cur(b), c)]
    BY <1>10 DEF Turn
  <2> QED
    BY <1>0, <1>10, <2>1, <2>2, <2>3 DEF Turn, Pc
<1>11. ASSUME NEW b \in Body, Save(b)
       PROVE  Keys'
  <2>1. log' \in [Body -> [Mid -> LogState]]
    BY <1>0, <1>11, MarkTyped DEF Save, LogState
  <2>2. saved' \in [Body -> [Mid -> ControlBlock]]
    BY <1>0, <1>11 DEF Save
  <2> QED
    BY <1>0, <1>11, <2>1, <2>2 DEF Save, Pc
<1>12. ASSUME NEW b \in Body, StoreSession(b)
       PROVE  Keys'
  <2>1. Cur(b).conv \in Conv
    BY <1>c, <1>12 DEF StoreSession, Busy, Guarded
  <2>2. sessions' \in [Body -> SUBSET Conv]
    BY <1>0, <1>12, <2>1 DEF StoreSession
  <2> QED
    BY <1>0, <1>12, <2>2 DEF StoreSession, Pc
<1>13. ASSUME NEW b \in Body, Withhold(b) \/ HoldReply(b) \/ EmitReply(b)
       PROVE  Keys'
  BY <1>0, <1>13 DEF Withhold, HoldReply, EmitReply, Pc
<1>14. ASSUME NEW b \in Body, MirrorReply(b)
       PROVE  Keys'
  BY <1>0, <1>14, RecordTyped DEF MirrorReply, Pc
<1>15. ASSUME NEW b \in Body, Ack(b)
       PROVE  Keys'
  <2>1. Silent \in ControlBlock
    BY DEF Silent, ControlBlock
  <2>2. pc' \in [Body -> Pc] /\ phase' \in [Body -> Phase]
    BY <1>0, <1>15 DEF Ack, Proceed, Pc, Phase
  <2> QED
    BY <1>0, <1>15, <2>1, <2>2 DEF Ack
<1>16. ASSUME NEW b \in Body, Crash(b) \/ Drop(b)
       PROVE  Keys'
  <2>1. Silent \in ControlBlock
    BY DEF Silent, ControlBlock
  <2>2. budget' \in [Fault -> Nat]
    BY <1>0, <1>16, SpendTyped DEF Crash, Drop, Fault
  <2>3. ctrl' \in [Body -> ControlBlock]
    BY <1>0, <1>16, <2>1 DEF Crash, Drop, Forget
  <2>4. pc' \in [Body -> Pc] /\ phase' \in [Body -> Phase]
    BY <1>0, <1>16 DEF Crash, Drop, Pc, Phase
  <2> QED
    BY <1>0, <1>16, <2>2, <2>3, <2>4 DEF Crash, Drop
<1>17. ASSUME NEW b \in Body, Reconnect(b)
       PROVE  Keys'
  BY <1>0, <1>17 DEF Reconnect, Pc, Phase
<1>18. ASSUME NEW b \in Body, ReconnectFails(b)
       PROVE  Keys'
  <2>1. budget' \in [Fault -> Nat]
    BY <1>0, <1>18, SpendTyped DEF ReconnectFails, Fault
  <2> QED
    BY <1>0, <1>18, <2>1 DEF ReconnectFails, Pc
<1>19. ASSUME NEW o \in Origin, Post(o)
       PROVE  Keys'
  BY <1>0, <1>19, RecordTyped DEF Post
<1>20. CASE \/ \E i \in Id : Lapse(i)
            \/ \E c \in Conv : SetControl(c)
            \/ \E b \in Body : KillProject(b)
            \/ NextWindow
  <2>1. budget' \in [Fault -> Nat]
    BY <1>0, <1>20, SpendTyped DEF Lapse, SetControl, KillProject, NextWindow,
       Fault
  <2>2. /\ conv' \in [Conv -> {"active", "paused", "killed"}]
        /\ slain' \subseteq Body /\ online' \subseteq Id
        /\ rate' \in [Conv -> Nat]
    BY <1>0, <1>20 DEF Lapse, SetControl, KillProject, NextWindow
  <2> QED
    BY <1>0, <1>20, <2>1, <2>2 DEF Lapse, SetControl, KillProject, NextWindow
<1>21. CASE UNCHANGED vars
  BY <1>0, <1>21 DEF vars
<1> QED
  BY <1>1, <1>2, <1>3, <1>4, <1>5, <1>6, <1>7, <1>8, <1>9, <1>10, <1>11,
     <1>12, <1>13, <1>14, <1>15, <1>16, <1>17, <1>18, <1>19, <1>20, <1>21
  DEF Next, Step

-----------------------------------------------------------------------------
(* The Horizon *)

\* Senders post bounded envelopes.
LEMMA OriginBounded == Origin \subseteq Bounded
<1> SUFFICES ASSUME NEW o \in Origin PROVE o \in Bounded
  OBVIOUS
<1>1. o \in Envelope /\ o.mid[2] = 0 /\ o.hop = 0 /\ o.max \in 1 .. Ceiling
  BY EnvelopeAssumption
<1>2. o.hop <= o.max
  BY <1>1
<1> QED
  BY <1>1, <1>2 DEF Bounded

\* Two origins of the same uuid4 are one.
LEMMA OneOrigin ==
    ASSUME NEW o \in Origin, NEW p \in Origin, o.mid[1] = p.mid[1]
    PROVE  o = p
<1>1. o.mid = <<o.mid[1], o.mid[2]>> /\ p.mid = <<p.mid[1], p.mid[2]>>
  BY EnvelopeAssumption DEF Envelope
<1>2. o.mid[2] = 0 /\ p.mid[2] = 0
  BY EnvelopeAssumption
<1> QED
  BY <1>1, <1>2, EnvelopeAssumption

\* A bounded envelope is below its ceiling exactly when the guard lets it pass.
LEMMA BelowFacts ==
    ASSUME NEW e \in Bounded
    PROVE  Below(e.mid) <=> ~HorizonReached(e)
<1>1. PICK o \in Origin : o.mid[1] = e.mid[1] /\ o.max = e.max
  BY DEF Bounded
<1>2. e.hop = e.mid[2] /\ e.hop \in Nat /\ e.max \in Nat
  BY DEF Bounded, Envelope
<1>3. ASSUME ~HorizonReached(e)
      PROVE  Below(e.mid)
  BY <1>1, <1>2, <1>3 DEF HorizonReached, Below
<1>4. ASSUME Below(e.mid)
      PROVE  ~HorizonReached(e)
  <2>1. PICK p \in Origin : p.mid[1] = e.mid[1] /\ e.mid[2] < p.max
    BY <1>4 DEF Below
  <2>2. p = o
    BY <1>1, <2>1, OneOrigin
  <2> QED
    BY <1>1, <1>2, <2>1, <2>2 DEF HorizonReached
<1> QED
  BY <1>3, <1>4

\* The entry in hand is bounded.
LEMMA CurBounded ==
    ASSUME HorizonInv, NEW b \in Body, pc[b] \in Busy
    PROVE  Cur(b) \in Bounded
  BY InHandFacts DEF HorizonInv, HandInv, Stored

\* A reply is one hop further and still within the ceiling.
LEMMA ReplyBounded ==
    ASSUME HorizonInv, NEW b \in Body, HoldReply(b) \/ EmitReply(b)
    PROVE  ReplyOf(b) \in Bounded
<1> DEFINE e == Cur(b)
           r == ReplyOf(b)
<1>1. pc[b] = "reply"
  BY DEF HoldReply, EmitReply
<1>2. e \in Bounded /\ Below(e.mid)
  BY <1>1, CurBounded DEF Busy, Guarded, HorizonInv, GuardInv
<1>3. e \in Envelope /\ e.hop = e.mid[2] /\ e.hop < e.max
  BY <1>2, BelowFacts DEF Bounded, HorizonReached, Envelope
<1>4. PICK o \in Origin : o.mid[1] = e.mid[1] /\ o.max = e.max
  BY <1>2 DEF Bounded
<1>5. r \in Envelope
  BY ReplyTyped DEF HorizonInv
<1>6. r.mid = <<e.mid[1], e.mid[2] + 1>> /\ r.hop = e.hop + 1 /\ r.max = e.max
  BY DEF ReplyOf, MakeReply, DeriveReplyId, NextHop
<1>7. r.hop <= r.max
  BY <1>3, <1>6 DEF Envelope
<1> HIDE DEF e, r
<1>8. r \in Bounded
  BY <1>3, <1>4, <1>5, <1>6, <1>7 DEF Bounded
<1> QED
  BY <1>8 DEF r

\* What the Horizon guard established outlives it.
LEMMA GuardStep ==
    ASSUME HorizonInv, [Next]_vars
    PROVE  GuardInv'
<1>0. Keys /\ GuardInv
  BY TypeSplit DEF HorizonInv
<1>f. batch \in [Body -> [Stream -> Seq(Bounded)]] /\ pc \in [Body -> Pc]
  BY <1>0 DEF HorizonInv, Stored, Keys
<1> USE DEF Goto
<1> DEFINE Passed == {"RECEIVED", "CLAUDE_DONE", "REPLY_EMITTED"}
           LogFine == \A b \in Body : \A m \in Mid :
                         log'[b][m] \in Passed => Below(m)
           PcFine == \A b \in Body : pc'[b] \in Guarded => Below(Cur(b)'.mid)
           HeardFine == \A h \in heard' : Below(h[3])
<1>1. ASSUME NEW b \in Body, NEW e \in Bounded,
             \/ UNCHANGED log
             \/ Mark(b, e, "ACKED")
             \/ Below(e.mid) /\ \E state \in Passed : Mark(b, e, state)
      PROVE  LogFine
  <2>1. log \in [Body -> [Mid -> LogState]]
    BY <1>0 DEF Keys
  <2> QED
    BY <1>0, <1>1, <2>1 DEF Mark, GuardInv
<1>2. ASSUME NEW b \in Body, pc'[b] \in Guarded => Below(Cur(b)'.mid),
             \A x \in Body \ {b} : pc'[x] = pc[x] /\ batch'[x] = batch[x]
      PROVE  PcFine
  BY <1>0, <1>2 DEF GuardInv, Cur, Via
<1>3. ASSUME NEW b \in Body, Works(b)
      PROVE  GuardInv'
  <2>1. Cur(b) \in Bounded /\ Cur(b)' = Cur(b) /\ Cur(b).mid \in Mid
    BY <1>3, WorksFacts, CurBounded, BoundedFacts DEF Cur, Via
  <2>2. pc[b] \in Guarded => Below(Cur(b).mid)
    BY <1>0 DEF GuardInv
  <2>3. LogFine
    <3>1. CASE CheckKill(b) \/ CheckPause(b) \/ Limit(b) \/ Finish(b)
      <4>1. UNCHANGED log \/ Mark(b, Cur(b), "ACKED")
        BY <3>1 DEF CheckKill, CheckPause, Limit, Finish
      <4> QED
        BY <4>1, <1>1, <2>1
    <3>2. CASE Receive(b) \/ Save(b) \/ MarkEmitted(b)
      <4>1. Below(Cur(b).mid)
        BY <3>2, <2>2 DEF Receive, Save, MarkEmitted, Guarded
      <4>2. \E state \in Passed : Mark(b, Cur(b), state)
        BY <3>2 DEF Receive, Save, MarkEmitted
      <4> QED
        BY <4>1, <4>2, <1>1, <2>1
    <3>3. CASE UNCHANGED log
      BY <3>3, <1>1, <2>1
    <3> QED
      BY <1>3, <3>1, <3>2, <3>3 DEF Works, Count, EndNote, Turn, StoreSession,
         Withhold, HoldReply, EmitReply, MirrorReply, logVars
  <2>4. PcFine
    <3>1. CASE CheckPause(b)
      <4> DEFINE state == log[b][Cur(b).mid]
      <4>1. state \in LogState
        BY <1>0, <2>1 DEF Keys
      <4>2. state \in Passed => Below(Cur(b).mid)
        BY <1>0, <2>1 DEF GuardInv
      <4>3. state = "none" => \/ pc'[b] \in {"ack", "endnote"}
                              \/ ~HorizonReached(Cur(b))
        BY <1>0, <3>1 DEF CheckPause, Keys
      <4>4. state = "ACKED" => pc'[b] \in {"ack", "endnote"}
        BY <1>0, <3>1 DEF CheckPause, Keys, Resume
      <4>5. pc'[b] \in Guarded => Below(Cur(b).mid)
        BY <4>1, <4>2, <4>3, <4>4, <2>1, BelowFacts DEF LogState, Guarded
      <4>6. \A x \in Body \ {b} : pc'[x] = pc[x] /\ batch'[x] = batch[x]
        BY <1>3, <1>f, WorksFacts
      <4> QED
        BY <4>5, <4>6, <2>1, <1>2
    <3>2. CASE ~CheckPause(b)
      <4>1. pc'[b] \in Guarded => pc[b] \in Guarded
        BY <1>0, <1>3, <3>2 DEF Works, CheckKill, Count, Limit, EndNote,
           Receive, Turn, Save, StoreSession, Withhold, HoldReply, EmitReply,
           MirrorReply, MarkEmitted, Finish, Guarded, Keys
      <4>2. \A x \in Body \ {b} : pc'[x] = pc[x] /\ batch'[x] = batch[x]
        BY <1>3, <1>f, WorksFacts
      <4> QED
        BY <4>1, <4>2, <2>1, <2>2, <1>2
    <3> QED
      BY <3>1, <3>2
  <2>5. HeardFine
    <3>1. CASE Turn(b)
      <4>1. heard' = heard \cup {<<b, Cur(b).from, Cur(b).mid>>}
        BY <3>1 DEF Turn
      <4>2. Below(Cur(b).mid)
        BY <3>1, <2>2 DEF Turn, Guarded
      <4> QED
        BY <4>1, <4>2, <1>0 DEF GuardInv
    <3>2. CASE UNCHANGED heard
      BY <3>2, <1>0 DEF GuardInv
    <3> QED
      BY <1>3, <3>1, <3>2 DEF Works, CheckKill, CheckPause, Count, Limit,
         EndNote, Receive, Save, StoreSession, Withhold, HoldReply, EmitReply,
         MirrorReply, MarkEmitted, Finish, logVars
  <2> QED
    BY <2>3, <2>4, <2>5 DEF GuardInv
<1>4. ASSUME NEW b \in Body, UNCHANGED <<log, heard>>, pc'[b] \notin Guarded,
             \A x \in Body \ {b} : pc'[x] = pc[x] /\ batch'[x] = batch[x]
      PROVE  GuardInv'
  BY <1>0, <1>2, <1>4 DEF GuardInv
<1>5. ASSUME NEW b \in Body, \/ Start(b) \/ Beat(b) \/ Drain(b) \/ Flush(b)
                             \/ FlushMirror(b) \/ Unpark(b) \/ Repost(b)
                             \/ Ack(b) \/ Reconnect(b) \/ ReconnectFails(b)
      PROVE  GuardInv'
  <2>1. UNCHANGED <<log, heard>>
    BY <1>5 DEF Start, Beat, Drain, Flush, FlushMirror, Unpark, Repost, Ack,
       Reconnect, ReconnectFails, logVars
  <2>2. \A x \in Body \ {b} : pc'[x] = pc[x] /\ batch'[x] = batch[x]
    <3>1. CASE Start(b) \/ Reconnect(b)
      <4>1. batch' = [batch EXCEPT ![b] = lost[b]]
        BY <3>1 DEF Start, Reconnect
      <4>2. \A x \in Body \ {b} : pc'[x] = pc[x]
        BY <1>f, <3>1 DEF Start, Reconnect
      <4> QED
        BY <1>f, <4>1, <4>2
    <3>2. CASE Ack(b)
      BY <1>0, <3>2 DEF Ack, Proceed, Keys
    <3> QED
      BY <1>0, <1>5, <3>1, <3>2 DEF Beat, Drain, Flush, FlushMirror, Unpark,
         Repost, ReconnectFails, Keys
  <2>3. pc'[b] \notin Guarded
    BY <1>0, <1>5 DEF Start, Beat, Drain, Flush, FlushMirror, Unpark, Repost,
       Ack, Proceed, Reconnect, ReconnectFails, Guarded, Keys
  <2> QED
    BY <1>4, <2>1, <2>2, <2>3
<1>6. ASSUME NEW b \in Body, Poll(b) \/ Crash(b) \/ Drop(b)
      PROVE  GuardInv'
  <2>1. UNCHANGED <<log, heard>>
    BY <1>6 DEF Poll, Crash, Drop, logVars
  <2>2. \A x \in Body \ {b} : pc'[x] = pc[x] /\ batch'[x] = batch[x]
    BY <1>6, <1>f DEF Poll, Crash, Drop, Forget
  <2>3. pc'[b] \notin Guarded
    BY <1>0, <1>6 DEF Poll, Crash, Drop, Guarded, Keys
  <2> QED
    BY <1>4, <2>1, <2>2, <2>3
<1>7. CASE \/ \E o \in Origin : Post(o)
           \/ \E i \in Id : Lapse(i)
           \/ \E c \in Conv : SetControl(c)
           \/ \E b \in Body : KillProject(b)
           \/ NextWindow
           \/ UNCHANGED vars
  <2>1. UNCHANGED <<log, heard, pc, batch>>
    BY <1>7 DEF Post, Lapse, SetControl, KillProject, NextWindow, vars,
       pipeVars, logVars
  <2> QED
    BY <1>0, <2>1 DEF GuardInv, Cur, Via
<1> QED
  BY <1>3, <1>5, <1>6, <1>7 DEF Next, Step, Works

-----------------------------------------------------------------------------
(* The theorems *)

LEMMA InitHorizon == Init => HorizonInv
<1> SUFFICES ASSUME Init PROVE HorizonInv
  OBVIOUS
<1> USE DEF Init
<1>1. \A S : Stored(S)
  <2> TAKE S
  <2>1. Empty \in [Stream -> Seq(S)]
    BY EmptyFacts
  <2>2. <<>> \in Seq(S)
    OBVIOUS
  <2> QED
    BY <2>1, <2>2 DEF Stored
<1>2. Silent \in ControlBlock
  BY DEF Silent, ControlBlock
<1>3. Keys
  BY <1>2, ObservatoryAssumption DEF Keys, LogState, Pc, Phase, Id
<1>4. HandInv
  BY DEF HandInv, Busy, Guarded
<1>5. GuardInv
  BY DEF GuardInv, Guarded
<1> QED
  BY <1>1, <1>3, <1>4, <1>5, TypeSplit DEF HorizonInv

\* The inductive invariant: every stored envelope descends from an origin within
\* its ceiling, and what the guard let pass once is below it for good.
THEOREM HorizonInvariant == Spec => []HorizonInv
<1>1. ASSUME HorizonInv, [Next]_vars
      PROVE  HorizonInv'
  <2>1. HandInv'
    BY <1>1, HandStep DEF HorizonInv
  <2>2. Stored(Envelope)'
    BY <1>1, StoredStep, ReplyTyped, TypeSplit, EnvelopeAssumption
    DEF HorizonInv, TypeOK
  <2>3. Stored(Bounded)'
    BY <1>1, StoredStep, ReplyBounded, ReplyTyped, OriginBounded
    DEF HorizonInv, TypeOK
  <2>4. TypeOK'
    BY <1>1, <2>2, KeysStep DEF TypeOK, Stored, Keys
  <2>5. GuardInv'
    BY <1>1, GuardStep
  <2> QED
    BY <2>1, <2>3, <2>4, <2>5 DEF HorizonInv
<1> QED
  BY <1>1, InitHorizon, PTL DEF Spec

\* TypeOK, for any bodies, guests, conversations and control blocks: no key of
\* the bus ever holds a value that the code cannot read back.
THEOREM TypeCorrect == Spec => []TypeOK
<1>1. HorizonInv => TypeOK
  BY DEF HorizonInv
<1> QED
  BY <1>1, HorizonInvariant, PTL

\* HorizonHolds, for any ceilings: guards.horizon_reached bounds every
\* conversation although redeliveries skip it.
THEOREM Horizon == Spec => []HorizonHolds
<1>1. HorizonInv => HorizonHolds
  <2> SUFFICES ASSUME HorizonInv PROVE HorizonHolds
    OBVIOUS
  <2>1. \A e \in sent : e.hop <= e.max
    BY DEF HorizonInv, Stored, Bounded
  <2>2. \A h \in heard : \E o \in Origin :
           o.mid[1] = h[3][1] /\ h[3][2] < o.max
    BY DEF HorizonInv, GuardInv, Below
  <2> QED
    BY <2>1, <2>2 DEF HorizonHolds
<1> QED
  BY <1>1, HorizonInvariant, PTL
=============================================================================
