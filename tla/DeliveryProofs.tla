---------------------------- MODULE DeliveryProofs ----------------------------
(***************************************************************************)
(* Proofs about Observatory for any bodies, messages, control blocks and   *)
(* budgets: that the processing log moves forward, where a message is from *)
(* its sending to its XACK and where it can be lost, how replies are       *)
(* routed, that a message has one reply, one record and a trace, and that  *)
(* the pipeline implements the Outbox.  A theorem names what it assumes of *)
(* faults and of who answers, beyond the assumptions on the constants.     *)
(***************************************************************************)
EXTENDS ObservatoryProofs

-----------------------------------------------------------------------------
(* Who writes what *)

\* The steps of b that are not process()'s: the resident loop, and its faults.
Loops(b) ==
    \/ Start(b) \/ Beat(b) \/ Drain(b) \/ Flush(b) \/ FlushMirror(b)
    \/ Unpark(b) \/ Repost(b) \/ Poll(b) \/ Ack(b) \/ Reconnect(b)
    \/ Crash(b) \/ Drop(b) \/ ReconnectFails(b)

\* The operator, the senders and the clocks.
Outside ==
    \/ \E o \in Origin : Post(o)
    \/ \E i \in Id : Lapse(i)
    \/ \E c \in Conv : SetControl(c)
    \/ \E b \in Body : KillProject(b)
    \/ NextWindow
    \/ UNCHANGED vars

LEMMA NextCases ==
    ASSUME [Next]_vars
    PROVE  (\E b \in Body : Works(b) \/ Loops(b)) \/ Outside
  BY DEF Next, Step, Works, Loops, Outside

\* A body's process, its log and its lists are its own.
LEMMA OwnWrites ==
    ASSUME TypeOK, NEW b \in Body, Works(b) \/ Loops(b), NEW x \in Body \ {b}
    PROVE  /\ pc'[x] = pc[x] /\ batch'[x] = batch[x] /\ lost'[x] = lost[x]
           /\ moving'[x] = moving[x] /\ parked'[x] = parked[x]
           /\ log'[x] = log[x] /\ saved'[x] = saved[x] /\ ctrl'[x] = ctrl[x]
<1> USE DEF TypeOK, Goto
<1>1. CASE CheckKill(b) \/ CheckPause(b) \/ Count(b) \/ Limit(b) \/ EndNote(b)
  BY <1>1 DEF CheckKill, CheckPause, Count, Limit, EndNote, Mark, logVars,
     wireVars
<1>2. CASE Receive(b) \/ Turn(b) \/ Save(b) \/ StoreSession(b)
  BY <1>2 DEF Receive, Turn, Save, StoreSession, Mark, logVars, wireVars
<1>3. CASE Withhold(b) \/ HoldReply(b) \/ EmitReply(b) \/ MirrorReply(b)
  BY <1>3 DEF Withhold, HoldReply, EmitReply, MirrorReply, logVars, wireVars
<1>4. CASE MarkEmitted(b) \/ Finish(b)
  BY <1>4 DEF MarkEmitted, Finish, Mark, wireVars
<1>5. CASE Start(b) \/ Reconnect(b)
  BY <1>5 DEF Start, Reconnect, logVars, wireVars
<1>6. CASE Beat(b) \/ Drain(b) \/ Flush(b) \/ FlushMirror(b)
  BY <1>6 DEF Beat, Drain, Flush, FlushMirror, logVars, wireVars
<1>7. CASE Unpark(b) \/ Repost(b)
  BY <1>7 DEF Unpark, Repost, logVars
<1>8. CASE Poll(b)
  BY <1>8 DEF Poll, logVars
<1>9. CASE Ack(b)
  BY <1>9 DEF Ack, Proceed, logVars, wireVars
<1>10. CASE Crash(b) \/ Drop(b) \/ ReconnectFails(b)
  BY <1>10 DEF Crash, Drop, ReconnectFails, Forget, logVars, wireVars
<1> QED
  BY <1>1, <1>2, <1>3, <1>4, <1>5, <1>6, <1>7, <1>8, <1>9, <1>10
  DEF Works, Loops

\* The loop writes no log and goes nowhere within process().
LEMMA LoopFacts ==
    ASSUME TypeOK, NEW b \in Body, Loops(b)
    PROVE  /\ UNCHANGED logVars
           /\ pc'[b] \in Pc /\ pc'[b] \notin Busy \ {"check"}
<1> USE DEF TypeOK, Goto, Busy, Guarded, Pc
<1>1. CASE Start(b) \/ Reconnect(b)
  BY <1>1 DEF Start, Reconnect
<1>2. CASE Beat(b) \/ Drain(b) \/ Flush(b) \/ FlushMirror(b)
  BY <1>2 DEF Beat, Drain, Flush, FlushMirror
<1>3. CASE Unpark(b) \/ Repost(b) \/ Poll(b)
  BY <1>3 DEF Unpark, Repost, Poll
<1>4. CASE Ack(b)
  BY <1>4 DEF Ack, Proceed
<1>5. CASE Crash(b) \/ Drop(b) \/ ReconnectFails(b)
  BY <1>5 DEF Crash, Drop, ReconnectFails
<1> QED
  BY <1>1, <1>2, <1>3, <1>4, <1>5 DEF Loops

\* Nobody outside touches a body's process, log or lists.
LEMMA OutsideFacts ==
    ASSUME Outside
    PROVE  UNCHANGED <<pipeVars, logVars, parked, hold>>
<1>1. CASE \E o \in Origin : Post(o)
  BY <1>1 DEF Post
<1>2. CASE ~\E o \in Origin : Post(o)
  BY <1>2 DEF Outside, Lapse, SetControl, KillProject, NextWindow, vars,
     wireVars
<1> QED
  BY <1>1, <1>2

LEMMA CurStays ==
    ASSUME NEW b, batch'[b] = batch[b]
    PROVE  Cur(b)' = Cur(b)
  BY DEF Cur, Via

-----------------------------------------------------------------------------
(* The log says how far the entry in hand has come *)

\* What the next step of process() knows of the log and of Claude's result.
WrittenAt(b) ==
    LET m == Cur(b).mid
    IN  /\ pc[b] \in {"count", "receive", "limit"} => log[b][m] = "none"
        /\ pc[b] = "endnote" => log[b][m] = "ACKED"
        /\ pc[b] \in {"turn", "save"} => log[b][m] = "RECEIVED"
        /\ pc[b] \in {"session", "reply", "mirror", "emitted"} =>
              log[b][m] = "CLAUDE_DONE" /\ saved[b][m] = ctrl[b]
        /\ pc[b] = "finish" => log[b][m] = "REPLY_EMITTED"
Written == \A b \in Body : WrittenAt(b)

\* The entry in hand is a message whose id is a key of the log.
LEMMA CurTyped ==
    ASSUME HorizonInv, NEW b \in Body, pc[b] \in Busy
    PROVE  /\ Cur(b) \in Envelope /\ Cur(b).mid \in Mid
           /\ log[b][Cur(b).mid] \in LogState
           /\ log \in [Body -> [Mid -> LogState]]
           /\ saved \in [Body -> [Mid -> ControlBlock]]
           /\ ctrl \in [Body -> ControlBlock]
           /\ pc \in [Body -> Pc]
<1>1. Cur(b) \in Envelope /\ Cur(b).mid \in Mid
  BY CurBounded, BoundedFacts
<1>2. /\ log \in [Body -> [Mid -> LogState]]
      /\ saved \in [Body -> [Mid -> ControlBlock]]
      /\ ctrl \in [Body -> ControlBlock]
      /\ pc \in [Body -> Pc]
  BY DEF HorizonInv, TypeOK
<1> QED
  BY <1>1, <1>2

\* What each step of process() writes to the log and to the saved results.
LEMMA LogMove ==
    ASSUME HorizonInv, NEW b \in Body, Works(b)
    PROVE  LET m == Cur(b).mid
           IN  /\ \A k \in Mid : k # m => log'[b][k] = log[b][k]
               /\ \/ log'[b][m] = log[b][m]
                  \/ log'[b][m] = "ACKED"
                  \/ Receive(b) /\ log'[b][m] = "RECEIVED"
                  \/ Save(b) /\ log'[b][m] = "CLAUDE_DONE"
                  \/ MarkEmitted(b) /\ log'[b][m] = "REPLY_EMITTED"
               /\ \A k \in Mid : ~(Save(b) /\ k = m) => saved'[b][k] = saved[b][k]
               /\ Save(b) => saved'[b][m] = ctrl[b]
<1> DEFINE m == Cur(b).mid
<1>1. /\ m \in Mid
      /\ log \in [Body -> [Mid -> LogState]]
      /\ saved \in [Body -> [Mid -> ControlBlock]]
  BY WorksFacts, CurTyped
<1>2. \A s : Mark(b, Cur(b), s) =>
         /\ \A k \in Mid : k # m => log'[b][k] = log[b][k]
         /\ log'[b][m] = s
  BY <1>1 DEF Mark
<1> HIDE DEF m
<1>3. CASE CheckKill(b) \/ CheckPause(b) \/ Limit(b) \/ Finish(b)
  <2>1. UNCHANGED log \/ Mark(b, Cur(b), "ACKED")
    BY <1>3 DEF CheckKill, CheckPause, Limit, Finish
  <2>2. UNCHANGED saved /\ ~Save(b)
    BY <1>3 DEF CheckKill, CheckPause, Limit, Finish, Save
  <2> QED
    BY <1>2, <2>1, <2>2 DEF m
<1>4. CASE Receive(b) \/ MarkEmitted(b)
  <2>1. UNCHANGED saved /\ ~Save(b)
    BY <1>4 DEF Receive, MarkEmitted, Save
  <2> QED
    BY <1>2, <1>4, <2>1 DEF Receive, MarkEmitted, m
<1>5. CASE Save(b)
  <2>1. saved' = [saved EXCEPT ![b][m] = ctrl[b]] /\ Mark(b, Cur(b), "CLAUDE_DONE")
    BY <1>5 DEF Save, m
  <2> QED
    BY <1>1, <1>2, <1>5, <2>1 DEF m
<1>6. CASE UNCHANGED <<log, saved>> /\ ~Save(b)
  BY <1>6
<1> QED
  BY <1>3, <1>4, <1>5, <1>6 DEF Works, Count, EndNote, Turn, StoreSession, Withhold,
     HoldReply, EmitReply, MirrorReply, logVars, Save

\* How process() comes to each of its later steps, and with what control block.
LEMMA Whence ==
    ASSUME HorizonInv, NEW b \in Body, Works(b)
    PROVE  /\ pc'[b] = "save" => Turn(b)
           /\ pc'[b] \in {"session", "mirror", "emitted"} =>
                 /\ pc[b] \in {"save", "reply", "mirror"}
                 /\ ctrl'[b] = ctrl[b]
           /\ pc'[b] = "reply" =>
                 \/ pc[b] = "session" /\ ctrl'[b] = ctrl[b]
                 \/ /\ CheckPause(b) /\ log[b][Cur(b).mid] = "CLAUDE_DONE"
                    /\ ctrl'[b] = saved[b][Cur(b).mid]
           /\ pc'[b] \in Guarded /\ ~CheckPause(b) => pc[b] \in Guarded
<1>1. /\ pc \in [Body -> Pc] /\ ctrl \in [Body -> ControlBlock]
      /\ log[b][Cur(b).mid] \in LogState
  BY WorksFacts, CurTyped
<1> USE DEF Goto, Guarded
<1>2. CASE CheckKill(b)
  <2>1. pc'[b] \in {"ack", "endnote", "pause"}
    BY <1>1, <1>2 DEF CheckKill
  <2> QED
    BY <2>1
<1>3. CASE CheckPause(b)
  <2> DEFINE state == log[b][Cur(b).mid]
             paused == conv[Cur(b).conv] = "paused"
             dies == ~paused /\ state = "none" /\ HorizonReached(Cur(b))
  <2>1. CASE paused
    BY <1>1, <1>3, <2>1 DEF CheckPause
  <2>2. CASE dies
    BY <1>1, <1>3, <2>2 DEF CheckPause
  <2>3. CASE ~paused /\ ~dies
    <3>1. pc'[b] = IF state = "none" THEN "count" ELSE Resume(state)
      BY <1>1, <1>3, <2>3 DEF CheckPause
    <3>2. state = "CLAUDE_DONE" => ctrl'[b] = saved[b][Cur(b).mid]
      BY <1>1, <1>3, <2>3 DEF CheckPause
    <3>3. Resume(state) = "reply" => state = "CLAUDE_DONE"
      BY <1>1 DEF Resume, LogState
    <3>4. pc'[b] \in {"count", "turn", "reply", "finish", "endnote"}
      BY <3>1, ResumeFacts
    <3> QED
      BY <1>3, <3>1, <3>2, <3>3, <3>4
  <2> QED
    BY <2>1, <2>2, <2>3
<1>4. CASE Count(b) \/ Limit(b) \/ EndNote(b) \/ Receive(b)
  <2>1. pc'[b] \in {"limit", "receive", "endnote", "ack", "turn"}
    BY <1>1, <1>4 DEF Count, Limit, EndNote, Receive
  <2>2. pc[b] \in Guarded \/ pc'[b] \notin Guarded
    BY <1>1, <1>4, <2>1 DEF Count, Limit, EndNote, Receive
  <2> QED
    BY <2>1, <2>2
<1>5. CASE Turn(b) \/ Save(b) \/ StoreSession(b)
  BY <1>1, <1>5 DEF Turn, Save, StoreSession
<1>6. CASE Withhold(b) \/ HoldReply(b) \/ EmitReply(b) \/ MirrorReply(b)
  BY <1>1, <1>6 DEF Withhold, HoldReply, EmitReply, MirrorReply
<1>7. CASE MarkEmitted(b) \/ Finish(b)
  BY <1>1, <1>7 DEF MarkEmitted, Finish
<1> QED
  BY <1>2, <1>3, <1>4, <1>5, <1>6, <1>7 DEF Works

\* Each step of process() finds and leaves the log as the next one expects it.
LEMMA WrittenWorks ==
    ASSUME HorizonInv, NEW b \in Body, WrittenAt(b), Works(b)
    PROVE  WrittenAt(b)'
<1> DEFINE m == Cur(b).mid
<1>1. Cur(b)' = Cur(b)
  BY WorksFacts, CurStays
<1>2. /\ m \in Mid /\ log[b][m] \in LogState
      /\ log \in [Body -> [Mid -> LogState]]
      /\ saved \in [Body -> [Mid -> ControlBlock]]
      /\ ctrl \in [Body -> ControlBlock]
      /\ pc \in [Body -> Pc]
  BY WorksFacts, CurTyped
<1> USE DEF WrittenAt, Goto, Mark
<1>3. CASE CheckKill(b)
  <2>1. pc'[b] \in {"ack", "endnote", "pause"}
    BY <1>2, <1>3 DEF CheckKill
  <2>2. pc'[b] = "endnote" => log'[b][m] = "ACKED"
    BY <1>2, <1>3 DEF CheckKill
  <2> QED
    BY <1>1, <2>1, <2>2
<1>4. CASE CheckPause(b)
  <2> DEFINE state == log[b][m]
             paused == conv[Cur(b).conv] = "paused"
             dies == ~paused /\ state = "none" /\ HorizonReached(Cur(b))
  <2>1. CASE paused
    BY <1>1, <1>2, <1>4, <2>1 DEF CheckPause
  <2>2. CASE dies
    BY <1>1, <1>2, <1>4, <2>2 DEF CheckPause
  <2>3. CASE ~paused /\ ~dies
    <3>1. UNCHANGED <<log, saved>>
      BY <1>4, <2>3 DEF CheckPause
    <3>2. pc'[b] = IF state = "none" THEN "count" ELSE Resume(state)
      BY <1>2, <1>4, <2>3 DEF CheckPause
    <3>3. state = "CLAUDE_DONE" => ctrl'[b] = saved[b][m]
      BY <1>2, <1>4, <2>3 DEF CheckPause
    <3> QED
      BY <1>1, <1>2, <3>1, <3>2, <3>3 DEF Resume, LogState
  <2> QED
    BY <2>1, <2>2, <2>3
<1>5. CASE Count(b) \/ Limit(b) \/ EndNote(b) \/ Receive(b)
  BY <1>1, <1>2, <1>5 DEF Count, Limit, EndNote, Receive, logVars
<1>6. CASE Turn(b)
  BY <1>1, <1>2, <1>6 DEF Turn
<1>7. CASE Save(b)
  BY <1>1, <1>2, <1>7 DEF Save
<1>8. CASE StoreSession(b)
  BY <1>1, <1>2, <1>8 DEF StoreSession
<1>9. CASE Withhold(b) \/ HoldReply(b) \/ EmitReply(b) \/ MirrorReply(b)
  BY <1>1, <1>2, <1>9 DEF Withhold, HoldReply, EmitReply, MirrorReply, logVars
<1>10. CASE MarkEmitted(b) \/ Finish(b)
  BY <1>1, <1>2, <1>10 DEF MarkEmitted, Finish
<1> QED
  BY <1>3, <1>4, <1>5, <1>6, <1>7, <1>8, <1>9, <1>10 DEF Works

LEMMA WrittenStep ==
    ASSUME HorizonInv, Written, [Next]_vars
    PROVE  Written'
<1>0. TypeOK
  BY DEF HorizonInv
<1>1. ASSUME NEW b \in Body, Works(b) \/ Loops(b), NEW x \in Body \ {b}
      PROVE  WrittenAt(x)'
  <2>1. Cur(x)' = Cur(x)
    BY <1>0, <1>1, OwnWrites, CurStays
  <2> QED
    BY <1>0, <1>1, <2>1, OwnWrites DEF Written, WrittenAt
<1>2. ASSUME NEW b \in Body, Loops(b)
      PROVE  WrittenAt(b)'
  BY <1>0, <1>2, LoopFacts DEF WrittenAt, Busy, Guarded
<1>3. ASSUME NEW b \in Body, Works(b)
      PROVE  WrittenAt(b)'
  BY <1>3, WrittenWorks DEF Written
<1>4. CASE Outside
  <2>1. UNCHANGED <<pc, batch, log, saved, ctrl>>
    BY <1>4, OutsideFacts DEF pipeVars, logVars
  <2> QED
    BY <2>1 DEF Written, WrittenAt, Cur, Via
<1> QED
  BY <1>1, <1>2, <1>3, <1>4, NextCases DEF Written

LEMMA WrittenInvariant == Spec => []Written
<1>1. Init => Written
  BY DEF Init, Written, WrittenAt
<1> QED
  BY <1>1, WrittenStep, HorizonInvariant, PTL DEF Spec

\* LogMonotone, whatever crashes, drops, pauses and redeliveries: mark() writes
\* whatever was there, and yet no message's state goes back.
THEOREM LogIsMonotone == Spec => LogMonotone
<1> DEFINE Forward == \A b \in Body : \A m \in Mid :
                         Order[log[b][m]] <= Order[log'[b][m]]
<1>1. ASSUME HorizonInv, Written, [Next]_vars
      PROVE  [Forward]_log
  <2>0. TypeOK
    BY <1>1 DEF HorizonInv
  <2>t. log \in [Body -> [Mid -> LogState]]
    BY <2>0 DEF TypeOK
  <2>1. \A s \in LogState : /\ Order[s] <= Order[s]
                            /\ Order["none"] <= Order[s]
                            /\ Order[s] <= Order["ACKED"]
    BY DEF LogState, Order
  <2>2. Order["RECEIVED"] <= Order["CLAUDE_DONE"]
        /\ Order["CLAUDE_DONE"] <= Order["REPLY_EMITTED"]
    BY DEF Order
  <2>3. ASSUME NEW b \in Body, Works(b)
        PROVE  [Forward]_log
    <3>1. Cur(b).mid \in Mid /\ pc[b] \in Busy /\ WrittenAt(b)
      BY <1>1, <2>3, WorksFacts, CurTyped DEF Written
    <3>2. ASSUME NEW s \in LogState, Mark(b, Cur(b), s),
                 Order[log[b][Cur(b).mid]] <= Order[s]
          PROVE  Forward
      BY <2>1, <2>t, <3>1, <3>2 DEF Mark
    <3>3. CASE CheckKill(b) \/ CheckPause(b) \/ Limit(b) \/ Finish(b)
      <4>1. UNCHANGED log \/ Mark(b, Cur(b), "ACKED")
        BY <3>3 DEF CheckKill, CheckPause, Limit, Finish
      <4> QED
        BY <4>1, <2>1, <2>t, <3>1, <3>2 DEF LogState
    <3>4. CASE Receive(b)
      BY <3>4, <2>1, <3>1, <3>2 DEF Receive, WrittenAt, LogState
    <3>5. CASE Save(b)
      BY <3>5, <2>2, <3>1, <3>2 DEF Save, WrittenAt, LogState
    <3>6. CASE MarkEmitted(b)
      BY <3>6, <2>2, <3>1, <3>2 DEF MarkEmitted, WrittenAt, LogState
    <3>7. CASE UNCHANGED log
      BY <3>7
    <3> QED
      BY <2>3, <3>3, <3>4, <3>5, <3>6, <3>7 DEF Works, Count, EndNote, Turn,
         StoreSession, Withhold, HoldReply, EmitReply, MirrorReply, logVars
  <2>4. ASSUME NEW b \in Body, Loops(b)
        PROVE  [Forward]_log
    BY <2>0, <2>4, LoopFacts DEF logVars
  <2>5. CASE Outside
    BY <2>5, OutsideFacts DEF logVars
  <2> QED
    BY <1>1, <2>3, <2>4, <2>5, NextCases
<1> QED
  BY <1>1, HorizonInvariant, WrittenInvariant, PTL DEF Spec, LogMonotone

-----------------------------------------------------------------------------
(* Where a message is *)

\* What the operations of Redis lists and streams do to the set of entries.
LEMMA RangeFacts ==
    ASSUME NEW S, NEW s \in Seq(S)
    PROVE  /\ Range(s) \subseteq S
           /\ s # <<>> => Range(s) = {Head(s)} \cup Range(Tail(s))
           /\ \A e \in S : Range(Append(s, e)) = Range(s) \cup {e}
           /\ \A t \in Seq(S) : Range(s \o t) = Range(s) \cup Range(t)
<1>1. Range(s) \subseteq S
  BY RangeOfSeq
<1>2. \A t \in Seq(S) : Range(s \o t) = Range(s) \cup Range(t)
  BY RangeConcatenation
<1> USE DEF Range
<1>3. ASSUME s # <<>>
      PROVE  Range(s) = {Head(s)} \cup Range(Tail(s))
  <2>1. /\ Len(s) \in Nat /\ DOMAIN s = 1 .. Len(s) /\ Len(s) > 0
    BY <1>3, LenProperties, EmptySeq
  <2>2. /\ Tail(s) \in Seq(S) /\ Len(Tail(s)) = Len(s) - 1 /\ Head(s) = s[1]
        /\ \A i \in 1 .. Len(Tail(s)) : Tail(s)[i] = s[i + 1]
    BY <1>3, HeadTailProperties
  <2>3. DOMAIN Tail(s) = 1 .. (Len(s) - 1)
    BY <2>2, LenProperties
  <2>4. ASSUME NEW i \in DOMAIN s
        PROVE  s[i] \in {Head(s)} \cup Range(Tail(s))
    <3>1. CASE i = 1
      BY <3>1, <2>2
    <3>2. CASE i # 1
      <4>1. i - 1 \in DOMAIN Tail(s) /\ s[i] = Tail(s)[i - 1]
        BY <3>2, <2>1, <2>2, <2>3
      <4> QED
        BY <4>1
    <3> QED
      BY <3>1, <3>2
  <2>5. ASSUME NEW i \in DOMAIN Tail(s)
        PROVE  Tail(s)[i] \in Range(s)
    <3>1. i + 1 \in DOMAIN s /\ Tail(s)[i] = s[i + 1]
      BY <2>1, <2>2, <2>3
    <3> QED
      BY <3>1
  <2>6. Head(s) \in Range(s)
    BY <2>1, <2>2
  <2> QED
    BY <2>4, <2>5, <2>6
<1>4. ASSUME NEW e \in S
      PROVE  Range(Append(s, e)) = Range(s) \cup {e}
  <2>1. /\ Append(s, e) \in Seq(S) /\ Len(Append(s, e)) = Len(s) + 1
        /\ \A i \in 1 .. Len(s) : Append(s, e)[i] = s[i]
        /\ Append(s, e)[Len(s) + 1] = e
    BY AppendProperties
  <2>2. Len(s) \in Nat /\ DOMAIN s = 1 .. Len(s)
    BY LenProperties
  <2>3. DOMAIN Append(s, e) = 1 .. (Len(s) + 1)
    BY <2>1, LenProperties
  <2> QED
    BY <2>1, <2>2, <2>3
<1> QED
  BY <1>1, <1>2, <1>3, <1>4

\* XREADGROUP loses and invents nothing.
LEMMA SplitRange ==
    ASSUME NEW S, NEW q \in Seq(S)
    PROVE  Range(q) = Range(SubSeq(q, 1, Took(q)))
                      \cup Range(SubSeq(q, Took(q) + 1, Len(q)))
<1> DEFINE u == SubSeq(q, 1, Took(q))
           v == SubSeq(q, Took(q) + 1, Len(q))
<1>1. Len(q) \in Nat /\ Took(q) \in 0 .. Len(q)
  BY ObservatoryAssumption, LenProperties DEF Took
<1>2. u \in Seq(S) /\ v \in Seq(S)
  BY SplitQueue
<1>3. u \o v = SubSeq(q, 1, Len(q))
  <2>1. /\ 1 \in 1 .. Len(q) + 1
        /\ Took(q) \in 1 - 1 .. Len(q)
        /\ Len(q) \in Took(q) .. Len(q)
    BY <1>1
  <2> QED
    BY <2>1, ConcatAdjacentSubSeq
<1>4. u \o v = q
  BY <1>3, SubSeqFull
<1> QED
  BY <1>2, <1>4, RangeConcatenation

LEMMA RangeOne ==
    ASSUME NEW e
    PROVE  Range(<<>>) = {} /\ Range(<<e>>) = {e}
  BY DEF Range

\* The places of InTransit, before and after a step.
LEMMA InTransitIff ==
    ASSUME NEW b, NEW e
    PROVE  /\ e \in InTransit(b) <=>
                 \/ e \in Range(hold[b]) \/ e \in Range(parked[b])
                 \/ e \in Range(moving[b])
                 \/ \E s \in Stream : \/ e \in Range(queue[b][s])
                                      \/ e \in Range(batch[b][s])
                                      \/ e \in Range(lost[b][s])
           /\ e \in InTransit(b)' <=>
                 \/ e \in Range(hold'[b]) \/ e \in Range(parked'[b])
                 \/ e \in Range(moving'[b])
                 \/ \E s \in Stream : \/ e \in Range(queue'[b][s])
                                      \/ e \in Range(batch'[b][s])
                                      \/ e \in Range(lost'[b][s])
  BY DEF InTransit

\* An entry in b's lists was sent, and to b or to everybody; between a pop and
\* the XADD that makes up for it there is no other step of b; and entries are in
\* hand only while process() works on them.
Addressed(b) == {e \in sent : e.to = b \/ IsWave(e)}
FlightAt(b) ==
    /\ InTransit(b) \subseteq Addressed(b)
    /\ pc[b] # "repost" => \A e \in Range(moving[b]) : e.to = b
    /\ pc[b] = "repost" => \E e \in Envelope : moving[b] = <<e>>
    /\ pc[b] = "mirrorheld" => Head(moving[b]) \in Range(queue[b]["inbox"])
    /\ pc[b] \notin {"drain", "flush", "mirrorheld", "repost"} =>
          moving[b] = <<>>
    /\ pc[b] \notin Busy => \A s \in Stream : batch[b][s] = <<>>
Held == \A i \in Id : \A e \in Range(hold[i]) : e.to = i
Flight == Held /\ \A b \in Body : FlightAt(b)

\* What a step does to a body's messages: what comes was sent to it; what goes
\* was acknowledged, or was in the hands of a process that stopped.
Arrivals(b) == \A e : e \in InTransit(b)' =>
                  e \in InTransit(b) \/ (e \in sent' /\ (e.to = b \/ IsWave(e)))
Departures(b) == \A e : e \in InTransit(b) =>
                  \/ e \in InTransit(b)'
                  \/ Ack(b) /\ e = Cur(b)
                  \/ (Crash(b) \/ Drop(b)) /\ e \in Range(moving[b])
Flows(b) == Arrivals(b) /\ Departures(b)

\* Most steps only append to a body's lists.
LEMMA FlowGain ==
    ASSUME TypeOK, NEW x \in Body,
           parked'[x] = parked[x], moving'[x] = moving[x],
           batch'[x] = batch[x], lost'[x] = lost[x],
           \/ hold'[x] = hold[x]
           \/ \E e \in Envelope : /\ e \in sent' /\ e.to = x
                                  /\ hold'[x] = Append(hold[x], e),
           \/ queue'[x] = queue[x]
           \/ \E e \in Envelope, s \in Stream :
                 /\ e \in sent' /\ (e.to = x \/ IsWave(e))
                 /\ queue'[x] = [queue[x] EXCEPT ![s] = Append(queue[x][s], e)]
    PROVE  Flows(x)
<1>1. /\ hold[x] \in Seq(Envelope)
      /\ queue[x] \in [Stream -> Seq(Envelope)]
  BY DEF TypeOK, Id
<1>2. \/ Range(hold'[x]) = Range(hold[x])
      \/ \E e : /\ e \in sent' /\ e.to = x
                /\ Range(hold'[x]) = Range(hold[x]) \cup {e}
  <2>1. \A e \in Envelope : Range(Append(hold[x], e)) = Range(hold[x]) \cup {e}
    BY <1>1, RangeFacts
  <2> QED
    BY <2>1
<1>3. /\ \A e : e \in Range(hold[x]) => e \in Range(hold'[x])
      /\ \A e : e \in Range(hold'[x]) =>
            e \in Range(hold[x]) \/ (e \in sent' /\ e.to = x)
  BY <1>2
<1>4. \A s \in Stream : \A e : e \in Range(queue[x][s]) => e \in Range(queue'[x][s])
  <2>1. CASE queue'[x] = queue[x]
    BY <2>1
  <2>2. ASSUME NEW f \in Envelope, NEW t \in Stream,
               queue'[x] = [queue[x] EXCEPT ![t] = Append(queue[x][t], f)]
        PROVE  \A s \in Stream : \A e :
                  e \in Range(queue[x][s]) => e \in Range(queue'[x][s])
    <3>1. Range(Append(queue[x][t], f)) = Range(queue[x][t]) \cup {f}
      BY <1>1, RangeFacts
    <3> QED
      BY <1>1, <2>2, <3>1
  <2> QED
    BY <2>1, <2>2
<1>5. \A s \in Stream : \A e : e \in Range(queue'[x][s]) =>
         e \in Range(queue[x][s]) \/ (e \in sent' /\ (e.to = x \/ IsWave(e)))
  <2>1. CASE queue'[x] = queue[x]
    BY <2>1
  <2>2. ASSUME NEW f \in Envelope, NEW t \in Stream,
               f \in sent' /\ (f.to = x \/ IsWave(f)),
               queue'[x] = [queue[x] EXCEPT ![t] = Append(queue[x][t], f)]
        PROVE  \A s \in Stream : \A e : e \in Range(queue'[x][s]) =>
                  \/ e \in Range(queue[x][s])
                  \/ e \in sent' /\ (e.to = x \/ IsWave(e))
    <3>1. Range(Append(queue[x][t], f)) = Range(queue[x][t]) \cup {f}
      BY <1>1, RangeFacts
    <3> QED
      BY <1>1, <2>2, <3>1
  <2> QED
    BY <2>1, <2>2
<1>6. Arrivals(x)
  BY <1>3, <1>5, InTransitIff DEF Arrivals
<1>7. Departures(x)
  BY <1>3, <1>4, InTransitIff DEF Departures
<1> QED
  BY <1>6, <1>7 DEF Flows

LEMMA XAddGain ==
    ASSUME TypeOK, NEW e \in Envelope, XAdd(e), e \in sent', NEW x \in Body
    PROVE  \/ queue'[x] = queue[x]
           \/ \E f \in Envelope, s \in Stream :
                 /\ f \in sent' /\ (f.to = x \/ IsWave(f))
                 /\ queue'[x] = [queue[x] EXCEPT ![s] = Append(queue[x][s], f)]
<1>1. queue \in [Body -> [Stream -> Seq(Envelope)]] /\ "inbox" \in Stream
  BY DEF TypeOK, Stream
<1>2. CASE e.to = x
  <2>1. queue'[x] = [queue[x] EXCEPT !["inbox"] = Append(queue[x]["inbox"], e)]
    BY <1>1, <1>2 DEF XAdd
  <2> QED
    BY <1>1, <1>2, <2>1
<1>3. CASE e.to # x
  BY <1>1, <1>3 DEF XAdd
<1> QED
  BY <1>2, <1>3

\* The steps that only append.
LEMMA FlowAppends ==
    ASSUME HorizonInv, Flight, NEW b \in Body,
           \/ Works(b) /\ ~CheckPause(b)
           \/ Beat(b) \/ Flush(b) \/ ReconnectFails(b),
           NEW x \in Body
    PROVE  Flows(x)
<1>0. TypeOK /\ HandInv
  BY DEF HorizonInv
<1>1. /\ parked'[x] = parked[x] /\ moving'[x] = moving[x]
      /\ batch'[x] = batch[x] /\ lost'[x] = lost[x]
  <2>1. CASE x # b
    BY <1>0, <2>1, OwnWrites DEF Works, Loops
  <2>2. CASE x = b /\ Works(b) /\ ~CheckPause(b)
    BY <2>2, WorksFacts DEF Works, CheckKill, Count, Limit, EndNote, Receive,
       Turn, Save, StoreSession, Withhold, HoldReply, EmitReply, MirrorReply,
       MarkEmitted, Finish, wireVars
  <2>3. CASE x = b /\ (Beat(b) \/ Flush(b) \/ ReconnectFails(b))
    BY <2>3 DEF Beat, Flush, ReconnectFails, wireVars
  <2> QED
    BY <2>1, <2>2, <2>3
<1>2. CASE HoldReply(b)
  <2>1. ReplyOf(b) \in Envelope /\ ReplyOf(b).to \in Id
    BY <1>0, <1>2, ReplyTyped
  <2>2. /\ hold' = [hold EXCEPT ![ReplyOf(b).to]
                               = Append(hold[ReplyOf(b).to], ReplyOf(b))]
        /\ ReplyOf(b) \in sent' /\ UNCHANGED queue
    BY <1>2 DEF HoldReply
  <2>3. hold \in [Id -> Seq(Envelope)] /\ x \in Id
    BY <1>0 DEF TypeOK, Id
  <2>4. \/ hold'[x] = hold[x]
        \/ ReplyOf(b).to = x /\ hold'[x] = Append(hold[x], ReplyOf(b))
    BY <2>1, <2>2, <2>3
  <2> QED
    BY <1>0, <1>1, <2>1, <2>2, <2>4, FlowGain
<1>3. CASE EmitReply(b)
  <2>1. ReplyOf(b) \in Envelope
    BY <1>0, <1>3, ReplyTyped
  <2>2. XAdd(ReplyOf(b)) /\ ReplyOf(b) \in sent' /\ UNCHANGED hold
    BY <1>3 DEF EmitReply
  <2> QED
    BY <1>0, <1>1, <2>1, <2>2, XAddGain, FlowGain
<1>4. CASE Flush(b)
  <2>1. CASE moving[b] # <<>> /\ XAdd(Head(moving[b]))
    <3>1. moving[b] \in Seq(Envelope)
      BY <1>0 DEF TypeOK
    <3>2. Head(moving[b]) \in Envelope /\ Head(moving[b]) \in Range(moving[b])
      BY <2>1, <3>1, SeqOps, RangeFacts
    <3>3. Head(moving[b]) \in sent
      BY <3>2, InTransitIff DEF Flight, FlightAt, Addressed
    <3>4. UNCHANGED <<sent, hold>>
      BY <1>4 DEF Flush
    <3> QED
      BY <1>0, <1>1, <2>1, <3>2, <3>3, <3>4, XAddGain, FlowGain
  <2>2. CASE UNCHANGED queue
    BY <1>0, <1>1, <1>4, <2>2, FlowGain DEF Flush
  <2> QED
    BY <1>4, <2>1, <2>2 DEF Flush
<1>5. CASE ~HoldReply(b) /\ ~EmitReply(b) /\ ~Flush(b)
  <2>1. UNCHANGED <<hold, queue>>
    BY <1>5 DEF Works, CheckKill, Count, Limit, EndNote, Receive,
       Turn, Save, StoreSession, Withhold, MirrorReply,
       MarkEmitted, Finish, Beat, ReconnectFails, wireVars
  <2> QED
    BY <1>0, <1>1, <2>1, FlowGain
<1> QED
  BY <1>2, <1>3, <1>4, <1>5

\* ... and what the other steps do elsewhere: nothing.
LEMMA FlowElsewhere ==
    ASSUME HorizonInv, NEW b \in Body,
           \/ CheckPause(b) \/ Start(b) \/ Drain(b) \/ FlushMirror(b)
           \/ Unpark(b) \/ Repost(b) \/ Poll(b) \/ Ack(b) \/ Reconnect(b)
           \/ Crash(b) \/ Drop(b),
           NEW x \in Body \ {b}
    PROVE  Flows(x)
<1>0. TypeOK
  BY DEF HorizonInv
<1>1. /\ parked'[x] = parked[x] /\ moving'[x] = moving[x]
      /\ batch'[x] = batch[x] /\ lost'[x] = lost[x]
  BY <1>0, OwnWrites DEF Works, Loops
<1>2. hold'[x] = hold[x]
  BY <1>0 DEF TypeOK, Id, CheckPause, Start, Drain, FlushMirror, Unpark, Repost,
     Poll, Ack, Reconnect, Crash, Drop, wireVars
<1>3. queue'[x] = queue[x]
  BY <1>0 DEF TypeOK, CheckPause, Start, Drain, FlushMirror, Unpark, Repost,
     Poll, Ack, Reconnect, Crash, Drop, wireVars
<1> QED
  BY <1>0, <1>1, <1>2, <1>3, FlowGain

LEMMA FlowOutside ==
    ASSUME HorizonInv, Outside, NEW x \in Body
    PROVE  Flows(x)
<1>0. TypeOK
  BY DEF HorizonInv
<1>1. UNCHANGED <<parked, moving, batch, lost, hold>>
  BY OutsideFacts DEF pipeVars
<1>2. CASE UNCHANGED queue
  BY <1>0, <1>1, <1>2, FlowGain
<1>3. ASSUME NEW o \in Origin, Post(o)
      PROVE  Flows(x)
  <2>1. o \in Envelope /\ o \in sent'
    BY <1>3, EnvelopeAssumption DEF Post
  <2>2. CASE IsWave(o)
    <3>1. queue'[x] = [queue[x] EXCEPT !["broadcast"]
                                      = Append(queue[x]["broadcast"], o)]
      BY <1>3, <2>2 DEF Post
    <3>2. "broadcast" \in Stream
      BY DEF Stream
    <3> QED
      BY <1>0, <1>1, <2>1, <2>2, <3>1, <3>2, FlowGain
  <2>3. CASE ~IsWave(o)
    <3>1. XAdd(o)
      BY <1>3, <2>3 DEF Post
    <3> QED
      BY <1>0, <1>1, <2>1, <3>1, XAddGain, FlowGain
  <2> QED
    BY <2>2, <2>3
<1> QED
  BY <1>2, <1>3 DEF Outside, Lapse, SetControl, KillProject, NextWindow, vars,
     wireVars

\* The steps that move b's own entries, each with what it does to the places.
LEMMA FlowOwn ==
    ASSUME HorizonInv, Flight, NEW b \in Body,
           \/ CheckPause(b) \/ Start(b) \/ Drain(b) \/ FlushMirror(b)
           \/ Unpark(b) \/ Repost(b) \/ Poll(b) \/ Ack(b) \/ Reconnect(b)
           \/ Crash(b) \/ Drop(b)
    PROVE  Flows(b)
<1>0. TypeOK /\ HandInv /\ FlightAt(b)
  BY DEF HorizonInv, Flight
<1>t. /\ hold \in [Id -> Seq(Envelope)] /\ b \in Id
      /\ parked \in [Body -> Seq(Envelope)] /\ moving \in [Body -> Seq(Envelope)]
      /\ queue \in [Body -> [Stream -> Seq(Envelope)]]
      /\ batch \in [Body -> [Stream -> Seq(Envelope)]]
      /\ lost \in [Body -> [Stream -> Seq(Envelope)]]
  BY <1>0 DEF TypeOK, Id
<1>e. \A s \in Stream : Range(Empty[s]) = {}
  BY RangeOne DEF Empty
<1> USE DEF Flows, Arrivals, Departures
<1>1. CASE Start(b) \/ Reconnect(b)
  <2>1. pc[b] \notin Busy
    BY <1>1 DEF Start, Reconnect, Busy, Guarded
  <2>2. \A s \in Stream : Range(batch[b][s]) = {}
    BY <1>0, <2>1, RangeOne DEF FlightAt
  <2>3. /\ batch' = [batch EXCEPT ![b] = lost[b]]
        /\ lost' = [lost EXCEPT ![b] = Empty]
        /\ UNCHANGED <<queue, hold, parked, moving>>
    BY <1>1 DEF Start, Reconnect, wireVars
  <2>4. batch'[b] = lost[b] /\ lost'[b] = Empty
    BY <1>t, <2>3
  <2> QED
    BY <1>e, <2>2, <2>3, <2>4, InTransitIff
<1>2. CASE Drain(b)
  <2>1. CASE hold[b] = <<>>
    BY <1>2, <2>1, InTransitIff DEF Drain
  <2>2. CASE hold[b] # <<>>
    <3>1. /\ hold[b] \in Seq(Envelope) /\ moving[b] \in Seq(Envelope)
          /\ Head(hold[b]) \in Envelope
      BY <1>t, <2>2, SeqOps
    <3>2. hold'[b] = Tail(hold[b]) /\ moving'[b] = Append(moving[b], Head(hold[b]))
      BY <1>2, <1>t, <2>2 DEF Drain
    <3>3. /\ Range(hold[b]) = {Head(hold[b])} \cup Range(hold'[b])
          /\ Range(moving'[b]) = Range(moving[b]) \cup {Head(hold[b])}
      BY <2>2, <3>1, <3>2, RangeFacts
    <3>4. \A e : \/ e \in Range(hold'[b]) \/ e \in Range(moving'[b])
                 <=> e \in Range(hold[b]) \/ e \in Range(moving[b])
      BY <3>3
    <3>5. UNCHANGED <<queue, parked, batch, lost>>
      BY <1>2 DEF Drain
    <3> QED
      BY <3>4, <3>5, InTransitIff
  <2> QED
    BY <2>1, <2>2
<1>3. CASE FlushMirror(b)
  <2>1. moving[b] # <<>> /\ moving[b] \in Seq(Envelope)
    BY <1>0, <1>3, <1>t DEF FlushMirror, HandInv
  <2>2. Range(moving[b]) = {Head(moving[b])} \cup Range(moving'[b])
    BY <1>3, <1>t, <2>1, RangeFacts DEF FlushMirror
  <2>3. Head(moving[b]) \in Range(queue[b]["inbox"]) /\ "inbox" \in Stream
    BY <1>0, <1>3 DEF FlushMirror, FlightAt, Stream
  <2>4. UNCHANGED <<queue, hold, parked, batch, lost>>
    BY <1>3 DEF FlushMirror
  <2> QED
    BY <2>2, <2>3, <2>4, InTransitIff
<1>4. CASE Unpark(b)
  <2>1. CASE parked[b] = <<>>
    BY <1>4, <2>1, InTransitIff DEF Unpark
  <2>2. CASE parked[b] # <<>>
    <3>1. parked[b] \in Seq(Envelope)
      BY <1>t
    <3>2. parked'[b] = Tail(parked[b]) /\ moving'[b] = <<Head(parked[b])>>
      BY <1>4, <1>t, <2>2 DEF Unpark
    <3>3. /\ Range(parked[b]) = {Head(parked[b])} \cup Range(parked'[b])
          /\ Range(moving'[b]) = {Head(parked[b])}
      BY <2>2, <3>1, <3>2, RangeFacts, RangeOne
    <3>4. Range(moving[b]) = {}
      BY <1>0, <1>4, RangeOne DEF Unpark, FlightAt
    <3>5. UNCHANGED <<queue, hold, batch, lost>>
      BY <1>4 DEF Unpark
    <3> QED
      BY <3>3, <3>4, <3>5, InTransitIff
  <2> QED
    BY <2>1, <2>2
<1>5. CASE Repost(b)
  <2>1. PICK e \in Envelope : moving[b] = <<e>>
    BY <1>0, <1>5 DEF Repost, FlightAt
  <2>2. Range(moving[b]) = {e} /\ Head(moving[b]) = e
    BY <2>1, RangeOne
  <2>3. moving'[b] = <<>>
    BY <1>5, <1>t DEF Repost
  <2>4. Range(moving'[b]) = {}
    BY <2>3, RangeOne
  <2>5. queue[b] \in [Stream -> Seq(Envelope)] /\ "inbox" \in Stream
    BY <1>t DEF Stream
  <2>6. queue'[b] = [queue[b] EXCEPT !["inbox"] = Append(queue[b]["inbox"], e)]
    BY <1>5, <1>t, <2>2 DEF Repost
  <2>7. Range(Append(queue[b]["inbox"], e)) = Range(queue[b]["inbox"]) \cup {e}
    BY <2>5, RangeFacts
  <2>8. \A s \in Stream : Range(queue'[b][s]) =
           IF s = "inbox" THEN Range(queue[b][s]) \cup {e} ELSE Range(queue[b][s])
    BY <2>5, <2>6, <2>7
  <2>9. UNCHANGED <<hold, parked, batch, lost>>
    BY <1>5 DEF Repost
  <2> QED
    BY <2>2, <2>4, <2>5, <2>8, <2>9, InTransitIff
<1>6. CASE Poll(b)
  <2>1. \A s \in Stream : Range(batch[b][s]) = {}
    BY <1>0, <1>6, RangeOne DEF Poll, FlightAt, Busy, Guarded
  <2>2. \A s \in Stream :
           /\ batch'[b][s] = SubSeq(queue[b][s], 1, Took(queue[b][s]))
           /\ queue'[b][s] = SubSeq(queue[b][s], Took(queue[b][s]) + 1,
                                    Len(queue[b][s]))
    BY <1>6, <1>t DEF Poll
  <2>3. \A s \in Stream : queue[b][s] \in Seq(Envelope)
    BY <1>t
  <2>4. \A s \in Stream :
           Range(queue[b][s]) = Range(batch'[b][s]) \cup Range(queue'[b][s])
    <3> TAKE s \in Stream
    <3> DEFINE q == queue[b][s]
    <3>1. q \in Seq(Envelope)
      BY <2>3
    <3>2. Range(q) = Range(SubSeq(q, 1, Took(q)))
                     \cup Range(SubSeq(q, Took(q) + 1, Len(q)))
      BY <3>1, SplitRange
    <3> QED
      BY <2>2, <3>2
  <2>5. UNCHANGED <<hold, parked, moving, lost>>
    BY <1>6 DEF Poll
  <2>6. ASSUME NEW e
        PROVE  (\E s \in Stream : \/ e \in Range(queue'[b][s])
                                  \/ e \in Range(batch'[b][s])
                                  \/ e \in Range(lost'[b][s]))
                  <=> (\E s \in Stream : \/ e \in Range(queue[b][s])
                                         \/ e \in Range(batch[b][s])
                                         \/ e \in Range(lost[b][s]))
    BY <2>1, <2>4, <2>5
  <2>7. ASSUME NEW e
        PROVE  e \in InTransit(b)' <=> e \in InTransit(b)
    BY <2>5, <2>6, InTransitIff
  <2> QED
    BY <2>7
<1>7. CASE CheckPause(b)
  <2>1. Cur(b) \in Envelope /\ Via(b) \in Stream
        /\ batch[b][Via(b)] \in Seq(Envelope) /\ batch[b][Via(b)] # <<>>
    BY <1>0, <1>7, <1>t, InHandFacts DEF CheckPause, HandInv, Busy
  <2>2. Cur(b) \in Range(batch[b][Via(b)])
    BY <2>1, RangeFacts DEF Cur
  <2>3. parked'[b] = parked[b] \/ parked'[b] = Append(parked[b], Cur(b))
    BY <1>7, <1>t DEF CheckPause
  <2>4. Range(Append(parked[b], Cur(b))) = Range(parked[b]) \cup {Cur(b)}
    BY <1>t, <2>1, RangeFacts
  <2>5. \/ Range(parked'[b]) = Range(parked[b])
        \/ Range(parked'[b]) = Range(parked[b]) \cup {Cur(b)}
    BY <2>3, <2>4
  <2>6. UNCHANGED <<queue, hold, moving, batch, lost>>
    BY <1>7 DEF CheckPause
  <2>7. \A e : e \in InTransit(b)' <=> e \in InTransit(b)
    BY <2>1, <2>2, <2>5, <2>6, InTransitIff
  <2> QED
    BY <2>7
<1>8. CASE Ack(b)
  <2>1. /\ Via(b) \in Stream /\ batch[b][Via(b)] # <<>>
        /\ batch[b][Via(b)] \in Seq(Envelope)
    BY <1>0, <1>8, <1>t, InHandFacts DEF Ack, HandInv, Busy
  <2>2. Range(batch[b][Via(b)]) = {Cur(b)} \cup Range(Tail(batch[b][Via(b)]))
    BY <2>1, RangeFacts DEF Cur
  <2>3. batch'[b] = [batch[b] EXCEPT ![Via(b)] = Tail(batch[b][Via(b)])]
    BY <1>8, <1>t DEF Ack
  <2>4. \A s \in Stream : /\ Range(batch'[b][s]) \subseteq Range(batch[b][s])
                          /\ \A e \in Range(batch[b][s]) :
                                e \in Range(batch'[b][s]) \/ e = Cur(b)
    BY <1>t, <2>1, <2>2, <2>3
  <2>5. UNCHANGED <<queue, hold, parked, moving, lost>>
    BY <1>8 DEF Ack, wireVars
  <2>6. ASSUME NEW e, NEW s \in Stream
        PROVE  /\ e \in Range(batch'[b][s]) => e \in Range(batch[b][s])
               /\ e \in Range(batch[b][s]) =>
                     e \in Range(batch'[b][s]) \/ e = Cur(b)
    BY <2>4
  <2>7. ASSUME NEW e
        PROVE  /\ e \in InTransit(b)' => e \in InTransit(b)
               /\ e \in InTransit(b) => e \in InTransit(b)' \/ e = Cur(b)
    BY <2>5, <2>6, InTransitIff
  <2> QED
    BY <1>8, <2>7
<1>9. CASE Crash(b) \/ Drop(b)
  <2>1. Forget(b) /\ UNCHANGED <<queue, hold, parked>>
    BY <1>9 DEF Crash, Drop, wireVars
  <2>2. /\ batch'[b] = Empty
        /\ moving'[b] = <<>>
        /\ \A s \in Stream : lost'[b][s] = lost[b][s] \o batch[b][s]
    BY <1>t, <2>1 DEF Forget
  <2>3. \A s \in Stream : /\ lost[b][s] \in Seq(Envelope)
                          /\ batch[b][s] \in Seq(Envelope)
    BY <1>t
  <2>4. \A s \in Stream :
           Range(lost'[b][s]) = Range(lost[b][s]) \cup Range(batch[b][s])
    <3> TAKE s \in Stream
    <3> DEFINE l == lost[b][s]
               t == batch[b][s]
    <3>1. l \in Seq(Envelope) /\ t \in Seq(Envelope)
      BY <2>3
    <3>2. Range(l \o t) = Range(l) \cup Range(t)
      BY <3>1, RangeConcatenation
    <3> QED
      BY <2>2, <3>2
  <2>5. Range(moving'[b]) = {} /\ \A s \in Stream : Range(batch'[b][s]) = {}
    BY <1>e, <2>2, RangeOne
  <2>6. ASSUME NEW e
        PROVE  (\E s \in Stream : \/ e \in Range(queue'[b][s])
                                  \/ e \in Range(batch'[b][s])
                                  \/ e \in Range(lost'[b][s]))
                  <=> (\E s \in Stream : \/ e \in Range(queue[b][s])
                                         \/ e \in Range(batch[b][s])
                                         \/ e \in Range(lost[b][s]))
    BY <2>1, <2>4, <2>5
  <2>7. ASSUME NEW e
        PROVE  /\ e \in InTransit(b)' => e \in InTransit(b)
               /\ e \in InTransit(b) => \/ e \in InTransit(b)'
                                       \/ e \in Range(moving[b])
    BY <2>1, <2>5, <2>6, InTransitIff
  <2> QED
    BY <1>9, <2>7
<1> QED
  BY <1>1, <1>2, <1>3, <1>4, <1>5, <1>6, <1>7, <1>8, <1>9

LEMMA FlowStep ==
    ASSUME HorizonInv, Flight, [Next]_vars, NEW x \in Body
    PROVE  Flows(x)
  BY NextCases, FlowAppends, FlowElsewhere, FlowOwn, FlowOutside
  DEF Loops, Works

\* Nothing that was sent is unsent.
LEMMA SentGrows ==
    ASSUME [Next]_vars
    PROVE  sent \subseteq sent'
<1>1. ASSUME NEW b \in Body, Works(b)
      PROVE  sent \subseteq sent'
  BY <1>1 DEF Works, CheckKill, CheckPause, Count, Limit, EndNote, Receive, Turn,
     Save, StoreSession, Withhold, HoldReply, EmitReply, MirrorReply,
     MarkEmitted, Finish, wireVars
<1>2. ASSUME NEW b \in Body, Loops(b)
      PROVE  sent \subseteq sent'
  BY <1>2 DEF Loops, Start, Beat, Drain, Flush, FlushMirror, Unpark, Repost, Poll,
     Ack, Reconnect, Crash, Drop, ReconnectFails, wireVars
<1>3. CASE Outside
  BY <1>3 DEF Outside, Post, Lapse, SetControl, KillProject, NextWindow, vars,
     wireVars
<1> QED
  BY <1>1, <1>2, <1>3, NextCases

\* A hold list holds messages for its recipient.
LEMMA HeldStep ==
    ASSUME HorizonInv, Held, [Next]_vars
    PROVE  Held'
<1>0. TypeOK /\ HandInv
  BY DEF HorizonInv
<1>t. hold \in [Id -> Seq(Envelope)]
  BY <1>0 DEF TypeOK
<1>1. ASSUME NEW b \in Body, Drain(b)
      PROVE  Held'
  <2>1. CASE hold[b] = <<>>
    BY <1>1, <2>1 DEF Drain, Held
  <2>2. CASE hold[b] # <<>>
    <3>1. b \in Id /\ hold[b] \in Seq(Envelope)
      BY <1>t DEF Id
    <3>2. Range(Tail(hold[b])) \subseteq Range(hold[b])
      BY <2>2, <3>1, RangeFacts
    <3>3. hold' = [hold EXCEPT ![b] = Tail(hold[b])]
      BY <1>1, <2>2 DEF Drain
    <3> QED
      BY <1>t, <3>1, <3>2, <3>3 DEF Held
  <2> QED
    BY <2>1, <2>2
<1>2. ASSUME NEW b \in Body, HoldReply(b)
      PROVE  Held'
  <2> DEFINE r == ReplyOf(b)
  <2>1. r \in Envelope /\ r.to \in Id
    BY <1>0, <1>2, ReplyTyped
  <2>2. hold' = [hold EXCEPT ![r.to] = Append(hold[r.to], r)]
    BY <1>2 DEF HoldReply
  <2> HIDE DEF r
  <2>3. hold[r.to] \in Seq(Envelope)
    BY <1>t, <2>1
  <2>4. Range(Append(hold[r.to], r)) = Range(hold[r.to]) \cup {r}
    BY <2>1, <2>3, RangeFacts
  <2> QED
    BY <1>t, <2>1, <2>2, <2>4 DEF Held
<1>3. ASSUME NEW b \in Body, Works(b), ~HoldReply(b)
      PROVE  Held'
  <2>1. UNCHANGED hold
    BY <1>3 DEF Works, CheckKill, CheckPause, Count, Limit, EndNote, Receive,
       Turn, Save, StoreSession, Withhold, EmitReply, MirrorReply, MarkEmitted,
       Finish, wireVars
  <2> QED
    BY <2>1 DEF Held
<1>4. ASSUME NEW b \in Body, Loops(b), ~Drain(b)
      PROVE  Held'
  <2>1. UNCHANGED hold
    BY <1>4 DEF Loops, Start, Beat, Flush, FlushMirror, Unpark, Repost, Poll, Ack,
       Reconnect, Crash, Drop, ReconnectFails, wireVars
  <2> QED
    BY <2>1 DEF Held
<1>5. CASE Outside
  BY <1>5, OutsideFacts DEF Held
<1> QED
  BY <1>1, <1>2, <1>3, <1>4, <1>5, NextCases

\* A stream is read by its own body alone.
LEMMA QueueGrows ==
    ASSUME HorizonInv, Flight, [Next]_vars, NEW x \in Body, ~Poll(x)
    PROVE  \A s \in Stream : Range(queue[x][s]) \subseteq Range(queue'[x][s])
<1>0. TypeOK /\ HandInv
  BY DEF HorizonInv
<1>t. queue \in [Body -> [Stream -> Seq(Envelope)]]
  BY <1>0 DEF TypeOK
<1> DEFINE Grows == \A s \in Stream :
                       Range(queue[x][s]) \subseteq Range(queue'[x][s])
<1>1. ASSUME NEW f \in Envelope, NEW t \in Stream,
             queue'[x] = [queue[x] EXCEPT ![t] = Append(queue[x][t], f)]
      PROVE  Grows
  <2>1. Range(Append(queue[x][t], f)) = Range(queue[x][t]) \cup {f}
    BY <1>t, RangeFacts
  <2> QED
    BY <1>t, <1>1, <2>1
<1>2. ASSUME NEW e \in Envelope, XAdd(e)
      PROVE  Grows
  <2>1. CASE e.to = x
    <3>1. "inbox" \in Stream
      BY DEF Stream
    <3>2. queue'[x] = [queue[x] EXCEPT !["inbox"] = Append(queue[x]["inbox"], e)]
      BY <1>t, <1>2, <2>1, <3>1 DEF XAdd
    <3> QED
      BY <1>1, <3>1, <3>2
  <2>2. CASE e.to # x
    BY <1>t, <1>2, <2>2 DEF XAdd
  <2> QED
    BY <2>1, <2>2
<1>3. ASSUME NEW b \in Body, EmitReply(b)
      PROVE  Grows
  BY <1>0, <1>2, <1>3, ReplyTyped DEF EmitReply
<1>4. ASSUME NEW b \in Body, Flush(b)
      PROVE  Grows
  <2>1. CASE moving[b] # <<>> /\ XAdd(Head(moving[b]))
    <3>1. Head(moving[b]) \in Envelope
      BY <1>0, <2>1, SeqOps DEF TypeOK
    <3> QED
      BY <1>2, <2>1, <3>1
  <2>2. CASE UNCHANGED queue
    BY <2>2
  <2> QED
    BY <1>4, <2>1, <2>2 DEF Flush
<1>5. ASSUME NEW b \in Body, Repost(b)
      PROVE  Grows
  <2>1. CASE b = x
    <3>1. PICK e \in Envelope : moving[b] = <<e>>
      BY <1>5 DEF Repost, Flight, FlightAt
    <3>2. Head(moving[b]) = e /\ "inbox" \in Stream
      BY <3>1 DEF Stream
    <3>3. queue'[x] = [queue[x] EXCEPT !["inbox"] = Append(queue[x]["inbox"], e)]
      BY <1>t, <1>5, <2>1, <3>2 DEF Repost
    <3> QED
      BY <1>1, <3>2, <3>3
  <2>2. CASE b # x
    BY <1>t, <1>5, <2>2 DEF Repost
  <2> QED
    BY <2>1, <2>2
<1>6. ASSUME NEW b \in Body, Poll(b)
      PROVE  Grows
  BY <1>t, <1>6 DEF Poll
<1>7. ASSUME NEW o \in Origin, Post(o)
      PROVE  Grows
  <2>1. o \in Envelope
    BY EnvelopeAssumption
  <2>2. CASE IsWave(o)
    <3>1. "broadcast" \in Stream
      BY DEF Stream
    <3>2. queue'[x] = [queue[x] EXCEPT !["broadcast"]
                                      = Append(queue[x]["broadcast"], o)]
      BY <1>7, <2>2 DEF Post
    <3> QED
      BY <1>1, <2>1, <3>1, <3>2
  <2>3. CASE ~IsWave(o)
    BY <1>2, <1>7, <2>1, <2>3 DEF Post
  <2> QED
    BY <2>2, <2>3
<1>8. ASSUME NEW b \in Body, Works(b), ~EmitReply(b)
      PROVE  Grows
  BY <1>8 DEF Works, CheckKill, CheckPause, Count, Limit, EndNote, Receive, Turn,
     Save, StoreSession, Withhold, HoldReply, MirrorReply, MarkEmitted, Finish,
     wireVars
<1>9. ASSUME NEW b \in Body, Loops(b), ~Flush(b), ~Repost(b), ~Poll(b)
      PROVE  Grows
  BY <1>9 DEF Loops, Start, Beat, Drain, FlushMirror, Unpark, Ack, Reconnect,
     Crash, Drop, ReconnectFails, wireVars
<1>10. CASE Outside
  BY <1>7, <1>10 DEF Outside, Lapse, SetControl, KillProject, NextWindow, vars,
     wireVars
<1> QED
  BY <1>3, <1>4, <1>5, <1>6, <1>8, <1>9, <1>10, NextCases

\* Poll takes nothing from empty streams.
LEMMA SplitEmpty == SubSeq(<<>>, 1, Took(<<>>)) = <<>>
<1>1. Took(<<>>) = 0
  BY ObservatoryAssumption DEF Took
<1> QED
  BY <1>1, SubSeqEmpty

\* The conjuncts of FlightAt about b's own memory.
Popped(b) ==
    /\ pc[b] # "repost" => \A e \in Range(moving[b]) : e.to = b
    /\ pc[b] = "repost" => \E e \in Envelope : moving[b] = <<e>>
    /\ pc[b] = "mirrorheld" => Head(moving[b]) \in Range(queue[b]["inbox"])
    /\ pc[b] \notin {"drain", "flush", "mirrorheld", "repost"} =>
          moving[b] = <<>>
    /\ pc[b] \notin Busy => \A s \in Stream : batch[b][s] = <<>>

LEMMA PoppedElsewhere ==
    ASSUME HorizonInv, Flight, [Next]_vars, NEW x \in Body,
           pc'[x] = pc[x], moving'[x] = moving[x], batch'[x] = batch[x],
           ~Poll(x)
    PROVE  Popped(x)'
<1>1. Range(queue[x]["inbox"]) \subseteq Range(queue'[x]["inbox"])
  BY QueueGrows DEF Stream
<1> QED
  BY <1>1 DEF Flight, FlightAt, Popped

LEMMA PoppedOwn ==
    ASSUME HorizonInv, Flight, [Next]_vars, NEW b \in Body, Works(b) \/ Loops(b)
    PROVE  Popped(b)'
<1>0. TypeOK /\ HandInv /\ Popped(b)
  BY DEF HorizonInv, Flight, FlightAt, Popped
<1>t. /\ hold \in [Id -> Seq(Envelope)] /\ b \in Id
      /\ parked \in [Body -> Seq(Envelope)] /\ moving \in [Body -> Seq(Envelope)]
      /\ queue \in [Body -> [Stream -> Seq(Envelope)]]
      /\ batch \in [Body -> [Stream -> Seq(Envelope)]]
      /\ lost \in [Body -> [Stream -> Seq(Envelope)]]
      /\ pc \in [Body -> Pc]
  BY <1>0 DEF TypeOK, Id
<1>r. Range(<<>>) = {}
  BY RangeOne
<1> USE DEF Goto
\* Outside the two transfers the list of popped entries is empty.
<1>1. ASSUME moving'[b] = <<>>, pc'[b] \notin {"mirrorheld", "repost"},
             pc'[b] \notin Busy => \A s \in Stream : batch'[b][s] = <<>>
      PROVE  Popped(b)'
  BY <1>1, <1>r DEF Popped
<1>2. CASE Works(b)
  <2>1. pc[b] \in Busy /\ pc'[b] \in Busy /\ moving'[b] = moving[b]
    BY <1>2, <1>t, WorksFacts
  <2>2. moving'[b] = <<>>
    BY <1>0, <2>1 DEF Popped, Busy, Guarded
  <2> QED
    BY <1>1, <2>1, <2>2 DEF Busy, Guarded
<1>3. CASE Start(b) \/ Reconnect(b)
  <2>1. pc[b] \in {"down", "reconnect"}
    BY <1>3 DEF Start, Reconnect
  <2>2. batch' = [batch EXCEPT ![b] = lost[b]] /\ UNCHANGED moving
    BY <1>3 DEF Start, Reconnect
  <2>3. \/ pc'[b] = "check"
        \/ pc'[b] \in {"drain", "beat"} /\ ~InHand(lost[b])
    BY <1>3, <1>t DEF Start, Reconnect
  <2>4. moving'[b] = <<>>
    BY <1>0, <2>1, <2>2 DEF Popped
  <2>5. pc'[b] \notin Busy => \A s \in Stream : batch'[b][s] = <<>>
    BY <1>t, <2>2, <2>3 DEF InHand, Busy, Guarded
  <2> QED
    BY <1>1, <2>3, <2>4, <2>5
<1>4. CASE Beat(b) \/ ReconnectFails(b)
  <2>1. pc[b] \in {"beat", "reconnect"} /\ pc'[b] \in {"drain", "beat"}
        /\ UNCHANGED <<moving, batch>>
    BY <1>4, <1>t DEF Beat, ReconnectFails
  <2> QED
    BY <1>0, <1>1, <2>1 DEF Popped, Busy, Guarded
<1>5. CASE Drain(b)
  <2>1. pc[b] = "drain" /\ pc'[b] \in {"drain", "flush"} /\ UNCHANGED batch
    BY <1>5, <1>t DEF Drain
  <2>2. \A s \in Stream : batch'[b][s] = <<>>
    BY <1>0, <2>1 DEF Popped, Busy, Guarded
  <2>3. \A e \in Range(moving'[b]) : e.to = b
    <3>1. CASE hold[b] = <<>>
      BY <1>0, <1>5, <2>1, <3>1 DEF Drain, Popped
    <3>2. CASE hold[b] # <<>>
      <4>1. hold[b] \in Seq(Envelope) /\ Head(hold[b]) \in Envelope
        BY <1>t, <3>2, SeqOps
      <4>2. Head(hold[b]) \in Range(hold[b])
        BY <3>2, <4>1, RangeFacts
      <4>3. Head(hold[b]).to = b
        BY <1>t, <4>2 DEF Flight, Held
      <4>4. moving'[b] = Append(moving[b], Head(hold[b]))
        BY <1>5, <1>t, <3>2 DEF Drain
      <4>5. Range(moving'[b]) = Range(moving[b]) \cup {Head(hold[b])}
        BY <1>t, <4>1, <4>4, RangeFacts
      <4> QED
        BY <1>0, <2>1, <4>3, <4>5 DEF Popped
    <3> QED
      BY <3>1, <3>2
  <2> QED
    BY <2>1, <2>2, <2>3 DEF Popped
<1>6. CASE Flush(b)
  <2>1. pc[b] = "flush" /\ UNCHANGED <<moving, batch>>
    BY <1>6 DEF Flush
  <2>2. (\A s \in Stream : batch'[b][s] = <<>>)
        /\ \A e \in Range(moving'[b]) : e.to = b
    BY <1>0, <2>1 DEF Popped, Busy, Guarded
  <2>3. CASE moving[b] # <<>> /\ XAdd(Head(moving[b])) /\ pc'[b] = "mirrorheld"
    <3>1. moving[b] \in Seq(Envelope) /\ Head(moving[b]) \in Envelope
      BY <1>t, <2>3, SeqOps
    <3>2. Head(moving[b]).to = b
      BY <2>1, <2>2, <2>3, <3>1, RangeFacts
    <3>3. "inbox" \in Stream /\ queue[b]["inbox"] \in Seq(Envelope)
      BY <1>t DEF Stream
    <3>4. queue'[b]["inbox"] = Append(queue[b]["inbox"], Head(moving[b]))
      BY <1>t, <2>3, <3>2, <3>3 DEF XAdd
    <3>5. Head(moving[b]) \in Range(queue'[b]["inbox"])
      BY <3>1, <3>3, <3>4, RangeFacts
    <3> QED
      BY <2>1, <2>2, <2>3, <3>5 DEF Popped
  <2>4. CASE moving[b] = <<>> /\ pc'[b] \in {"beat", "unpark"}
    BY <1>1, <2>1, <2>2, <2>4
  <2> QED
    BY <1>6, <1>t, <2>3, <2>4 DEF Flush
<1>7. CASE FlushMirror(b)
  <2>1. /\ pc[b] = "mirrorheld" /\ pc'[b] = "flush" /\ UNCHANGED batch
        /\ moving'[b] = Tail(moving[b])
    BY <1>7, <1>t DEF FlushMirror
  <2>2. moving[b] # <<>> /\ moving[b] \in Seq(Envelope)
    BY <1>0, <1>t, <2>1 DEF HandInv
  <2>3. Range(moving'[b]) \subseteq Range(moving[b])
    BY <2>1, <2>2, RangeFacts
  <2> QED
    BY <1>0, <2>1, <2>3 DEF Popped, Busy, Guarded
<1>8. CASE Unpark(b)
  <2>1. pc[b] = "unpark" /\ UNCHANGED batch
    BY <1>8 DEF Unpark
  <2>2. \A s \in Stream : batch'[b][s] = <<>>
    BY <1>0, <2>1 DEF Popped, Busy, Guarded
  <2>3. CASE parked[b] = <<>>
    BY <1>0, <1>1, <1>8, <1>t, <2>1, <2>2, <2>3 DEF Unpark, Popped
  <2>4. CASE parked[b] # <<>>
    <3>1. Head(parked[b]) \in Envelope
      BY <1>t, <2>4, SeqOps
    <3>2. moving'[b] = <<Head(parked[b])>> /\ pc'[b] = "repost"
      BY <1>8, <1>t, <2>4 DEF Unpark
    <3> QED
      BY <2>2, <3>1, <3>2 DEF Popped
  <2> QED
    BY <2>3, <2>4
<1>9. CASE Repost(b)
  <2>1. pc[b] = "repost" /\ pc'[b] = "unpark" /\ moving'[b] = <<>>
        /\ UNCHANGED batch
    BY <1>9, <1>t DEF Repost
  <2> QED
    BY <1>0, <1>1, <2>1 DEF Popped, Busy, Guarded
<1>10. CASE Poll(b)
  <2>1. /\ pc[b] = "poll" /\ UNCHANGED moving
        /\ \A s \in Stream : batch'[b][s] =
              SubSeq(queue[b][s], 1, Took(queue[b][s]))
    BY <1>10, <1>t DEF Poll
  <2>2. \/ pc'[b] = "check"
        \/ pc'[b] = "beat" /\ ~InHand(queue[b])
    BY <1>10, <1>t DEF Poll
  <2>3. ~InHand(queue[b]) => \A s \in Stream : batch'[b][s] = <<>>
    <3> SUFFICES ASSUME ~InHand(queue[b]), NEW s \in Stream
                 PROVE  batch'[b][s] = <<>>
      OBVIOUS
    <3>1. queue[b][s] = <<>>
      BY DEF InHand
    <3> QED
      BY <2>1, <3>1, SplitEmpty
  <2>4. moving'[b] = <<>>
    BY <1>0, <2>1 DEF Popped
  <2>5. pc'[b] \notin Busy => \A s \in Stream : batch'[b][s] = <<>>
    BY <2>2, <2>3 DEF Busy
  <2> QED
    BY <1>1, <2>2, <2>4, <2>5
<1>11. CASE Ack(b)
  <2>1. pc[b] = "ack" /\ UNCHANGED moving
    BY <1>11 DEF Ack
  <2>2. \/ pc'[b] = "check"
        \/ pc'[b] \in {"drain", "beat"} /\ ~InHand(batch'[b])
    BY <1>11, <1>t DEF Ack, Proceed
  <2>3. moving'[b] = <<>>
    BY <1>0, <2>1 DEF Popped
  <2>4. pc'[b] \notin Busy => \A s \in Stream : batch'[b][s] = <<>>
    BY <2>2 DEF InHand, Busy, Guarded
  <2> QED
    BY <1>1, <2>2, <2>3, <2>4
<1>12. CASE Crash(b) \/ Drop(b)
  <2>1. /\ moving'[b] = <<>> /\ batch'[b] = Empty
        /\ pc'[b] \in {"down", "beat", "reconnect"}
    BY <1>12, <1>t DEF Crash, Drop, Forget
  <2> QED
    BY <1>1, <2>1 DEF Empty
<1> QED
  BY <1>2, <1>3, <1>4, <1>5, <1>6, <1>7, <1>8, <1>9, <1>10, <1>11, <1>12
  DEF Loops

LEMMA FlightStep ==
    ASSUME HorizonInv, Flight, [Next]_vars
    PROVE  Flight'
<1>0. TypeOK
  BY DEF HorizonInv
<1>1. \A x \in Body : InTransit(x)' \subseteq Addressed(x)'
  <2> SUFFICES ASSUME NEW x \in Body, NEW e, e \in InTransit(x)'
               PROVE  e \in Addressed(x)'
    OBVIOUS
  <2>1. e \in InTransit(x) \/ (e \in sent' /\ (e.to = x \/ IsWave(e)))
    BY FlowStep DEF Flows, Arrivals
  <2>2. e \in InTransit(x) => e \in sent' /\ (e.to = x \/ IsWave(e))
    BY SentGrows DEF Flight, FlightAt, Addressed
  <2> QED
    BY <2>1, <2>2 DEF Addressed
<1>2. \A x \in Body : Popped(x)'
  <2>1. ASSUME NEW b \in Body, Works(b) \/ Loops(b), NEW x \in Body
        PROVE  Popped(x)'
    <3>1. CASE x = b
      BY <2>1, <3>1, PoppedOwn
    <3>2. CASE x # b
      <4>1. /\ pc'[x] = pc[x] /\ moving'[x] = moving[x]
            /\ batch'[x] = batch[x]
        BY <1>0, <2>1, <3>2, OwnWrites
      <4>2. CASE ~Poll(x)
        BY <4>1, <4>2, PoppedElsewhere
      <4>3. CASE Poll(x)
        BY <4>3, PoppedOwn DEF Loops
      <4> QED
        BY <4>2, <4>3
    <3> QED
      BY <3>1, <3>2
  <2>2. ASSUME Outside, NEW x \in Body
        PROVE  Popped(x)'
    BY <2>2, OutsideFacts, PoppedElsewhere, PoppedOwn DEF pipeVars, Loops
  <2> QED
    BY <2>1, <2>2, NextCases
<1>3. Held'
  BY HeldStep DEF Flight
<1> QED
  BY <1>1, <1>2, <1>3 DEF Flight, FlightAt, Popped

LEMMA FlightInvariant == Spec => []Flight
<1>1. Init => Flight
  <2> SUFFICES ASSUME Init PROVE Flight
    OBVIOUS
  <2>1. Held
    BY RangeOne DEF Init, Held
  <2>2. ASSUME NEW b \in Body
        PROVE  FlightAt(b)
    <3>1. \A e : e \notin InTransit(b)
      BY RangeOne, InTransitIff DEF Init, Empty, Id
    <3>2. Popped(b)
      BY RangeOne DEF Init, Popped, Empty
    <3> QED
      BY <3>1, <3>2 DEF FlightAt, Popped
  <2> QED
    BY <2>1, <2>2 DEF Flight
<1> QED
  BY <1>1, FlightStep, HorizonInvariant, PTL DEF Spec

\* The entry in hand was sent, and to b or to everybody.
LEMMA CurSent ==
    ASSUME HorizonInv, Flight, NEW b \in Body, pc[b] \in Busy
    PROVE  Cur(b) \in Addressed(b) /\ Cur(b) \in InTransit(b)
<1>0. InHand(batch[b]) /\ batch[b] \in [Stream -> Seq(Envelope)]
  BY DEF HorizonInv, HandInv, TypeOK
<1>1. /\ Via(b) \in Stream /\ batch[b][Via(b)] # <<>>
      /\ batch[b][Via(b)] \in Seq(Envelope)
  BY <1>0, InHandFacts
<1>2. Cur(b) \in Range(batch[b][Via(b)])
  BY <1>1, RangeFacts DEF Cur
<1>3. Cur(b) \in InTransit(b)
  BY <1>1, <1>2, InTransitIff
<1> QED
  BY <1>3 DEF Flight, FlightAt

-----------------------------------------------------------------------------
(* Where replies go *)

\* A reply has a derived id, and a turn on an unsolicited Wave wants no reply,
\* in memory and, for the redeliveries that skip the turn, in the saved result.
Unasked(b) ==
    /\ pc[b] \in {"save", "session", "reply", "mirror", "emitted"} =>
          (IsWave(Cur(b)) /\ ~Cur(b).solicit => ~ctrl[b].reply)
    /\ \A o \in Origin :
          IsWave(o) /\ ~o.solicit /\ log[b][o.mid] = "CLAUDE_DONE" =>
             ~saved[b][o.mid].reply
Derived == \A e \in sent \ Origin : e.mid[2] > 0
RouteInv == ReplyRouting /\ Derived /\ \A b \in Body : Unasked(b)

\* A Wave in hand is one that a sender minted.
LEMMA WavesAreOrigins ==
    ASSUME HorizonInv, Flight, RouteInv, NEW e \in sent
    PROVE  /\ IsWave(e) => e \in Origin
           /\ \A o \in Origin : o.mid = e.mid => e = o
<1>1. IsWave(e) => e \in Origin
  BY DEF RouteInv, ReplyRouting
<1>2. \A o \in Origin : o.mid = e.mid => e = o
  BY EnvelopeAssumption DEF RouteInv, Derived
<1> QED
  BY <1>1, <1>2

LEMMA UnaskedWorks ==
    ASSUME HorizonInv, Flight, RouteInv, NEW b \in Body, Works(b)
    PROVE  Unasked(b)'
<1> DEFINE e == Cur(b)
           unsolicited == IsWave(e) /\ ~e.solicit
<1>1. e' = e
  BY WorksFacts, CurStays
<1>2. e \in sent
  BY WorksFacts, CurSent DEF Addressed
<1>3. /\ IsWave(e) => e \in Origin
      /\ \A o \in Origin : o.mid = e.mid => e = o
  BY <1>2, WavesAreOrigins
<1>4. /\ pc[b] \in {"save", "session", "reply", "mirror", "emitted"} =>
            (unsolicited => ~ctrl[b].reply)
      /\ \A o \in Origin :
            IsWave(o) /\ ~o.solicit /\ log[b][o.mid] = "CLAUDE_DONE" =>
               ~saved[b][o.mid].reply
  BY DEF RouteInv, Unasked
<1>5. \A o \in Origin : o.mid \in Mid
  BY EnvelopeAssumption DEF Envelope, Mid
<1>6. ctrl \in [Body -> ControlBlock]
  BY WorksFacts, CurTyped
<1> HIDE DEF e
<1>7. ASSUME pc'[b] \in {"save", "session", "reply", "mirror", "emitted"},
             unsolicited
      PROVE  ~ctrl'[b].reply
  <2>1. CASE pc'[b] = "save"
    <3>1. PICK c \in Control : ctrl' = [ctrl EXCEPT ![b] = WavePolicy(Cur(b), c)]
      BY <2>1, Whence DEF Turn
    <3>2. c \in ControlBlock
      BY ObservatoryAssumption
    <3>3. ~WavePolicy(e, c).reply
      BY <1>7, <3>2 DEF WavePolicy, ControlBlock
    <3> QED
      BY <1>6, <3>1, <3>3 DEF e
  <2>2. CASE pc'[b] \in {"session", "mirror", "emitted"}
    BY <1>4, <1>7, <2>2, Whence
  <2>3. CASE pc'[b] = "reply"
    BY <1>3, <1>4, <1>7, <2>3, Whence DEF e
  <2> QED
    BY <1>7, <2>1, <2>2, <2>3
<1>8. ASSUME NEW o \in Origin, IsWave(o), ~o.solicit,
             log'[b][o.mid] = "CLAUDE_DONE"
      PROVE  ~saved'[b][o.mid].reply
  <2>1. CASE Save(b) /\ o.mid = e.mid
    <3>1. saved'[b][o.mid] = ctrl[b] /\ pc[b] = "save" /\ o = e
      BY <1>3, <2>1, LogMove DEF Save, e
    <3> QED
      BY <1>4, <1>8, <3>1
  <2>2. CASE ~(Save(b) /\ o.mid = e.mid)
    <3>1. log'[b][o.mid] = log[b][o.mid]
      BY <1>5, <1>8, <2>2, LogMove DEF e
    <3>2. saved'[b][o.mid] = saved[b][o.mid]
      BY <1>5, <2>2, LogMove DEF e
    <3> QED
      BY <1>4, <1>8, <3>1, <3>2
  <2> QED
    BY <2>1, <2>2
<1> QED
  BY <1>1, <1>7, <1>8 DEF Unasked, e

\* Nobody leaves the registry here.
LEMMA RegistryGrows ==
    ASSUME [Next]_vars
    PROVE  registry \subseteq registry'
<1>1. ASSUME NEW b \in Body, Works(b)
      PROVE  registry \subseteq registry'
  BY <1>1 DEF Works, CheckKill, CheckPause, Count, Limit, EndNote, Receive, Turn,
     Save, StoreSession, Withhold, HoldReply, EmitReply, MirrorReply,
     MarkEmitted, Finish, envVars
<1>2. ASSUME NEW b \in Body, Loops(b)
      PROVE  registry \subseteq registry'
  BY <1>2 DEF Loops, Start, Beat, Drain, Flush, FlushMirror, Unpark, Repost, Poll,
     Ack, Reconnect, Crash, Drop, ReconnectFails, envVars
<1>3. CASE Outside
  BY <1>3 DEF Outside, Post, Lapse, SetControl, KillProject, NextWindow, vars,
     envVars
<1> QED
  BY <1>1, <1>2, <1>3, NextCases

\* What is new among the envelopes sent.
LEMMA SentNew ==
    ASSUME [Next]_vars, NEW e, e \in sent' \ sent
    PROVE  \/ e \in Origin
           \/ \E b \in Body : (HoldReply(b) \/ EmitReply(b)) /\ e = ReplyOf(b)
<1>1. ASSUME NEW b \in Body, Works(b)
      PROVE  (HoldReply(b) \/ EmitReply(b)) /\ e = ReplyOf(b)
  BY <1>1 DEF Works, CheckKill, CheckPause, Count, Limit, EndNote, Receive, Turn,
     Save, StoreSession, Withhold, HoldReply, EmitReply, MirrorReply,
     MarkEmitted, Finish, wireVars
<1>2. ASSUME NEW b \in Body, Loops(b)
      PROVE  FALSE
  BY <1>2 DEF Loops, Start, Beat, Drain, Flush, FlushMirror, Unpark, Repost, Poll,
     Ack, Reconnect, Crash, Drop, ReconnectFails, wireVars
<1>3. CASE Outside
  BY <1>3 DEF Outside, Post, Lapse, SetControl, KillProject, NextWindow, vars,
     wireVars
<1> QED
  BY <1>1, <1>2, <1>3, NextCases

\* A new reply is routed by _deliver_reply.
LEMMA ReplyRouted ==
    ASSUME HorizonInv, Flight, RouteInv, NEW b \in Body,
           HoldReply(b) \/ EmitReply(b)
    PROVE  LET r == ReplyOf(b)
           IN  /\ ~IsWave(r) /\ r.mid[2] > 0
               /\ \E o \in Origin :
                     /\ o.mid[1] = r.mid[1]
                     /\ IsWave(o) => o.solicit
                     /\ IF IsWave(o) /\ r.mid[2] = 1 THEN r.to = o.from
                                                     ELSE r.to \in registry
<1> DEFINE p == Cur(b)
           c == ctrl[b]
           r == ReplyOf(b)
<1>1. /\ pc[b] = "reply" /\ Deliverable(p, c)
  BY DEF HoldReply, EmitReply
<1>2. p \in sent /\ p \in Envelope
  BY <1>1, CurSent, CurTyped DEF Addressed, Busy, Guarded
<1>3. r.to \in Id
  BY ReplyTyped DEF HorizonInv
<1>4. /\ r.to = Recipient(p, c)
      /\ r.mid = <<p.mid[1], p.mid[2] + 1>>
  BY DEF ReplyOf, MakeReply, DeriveReplyId
<1>5. IsWave(p) => p \in Origin /\ p.solicit
  BY <1>1, <1>2, WavesAreOrigins DEF RouteInv, Unasked, Deliverable
<1>6. p.mid[2] \in Nat
  BY <1>2 DEF Envelope
<1>7. ~IsWave(p) => r.to \in registry
  BY <1>1, <1>4 DEF Deliverable, Routable
<1>8. IsWave(p) => r.to = p.from
  BY <1>4, <1>5 DEF Recipient
<1> HIDE DEF r, p, c
<1>9. ~IsWave(r)
  BY <1>3, EnvelopeAssumption DEF IsWave
<1>10. r.mid[2] > 0 /\ r.mid[1] = p.mid[1] /\ (r.mid[2] = 1 <=> p.mid[2] = 0)
  BY <1>4, <1>6
<1>11. CASE p \in Origin
  <2>1. p.mid[2] = 0
    BY <1>11, EnvelopeAssumption
  <2> QED
    BY <1>5, <1>7, <1>8, <1>9, <1>10, <1>11, <2>1 DEF r
<1>12. CASE p \notin Origin
  <2>1. p.mid[2] > 0
    BY <1>2, <1>12 DEF RouteInv, Derived
  <2>2. PICK o \in Origin : o.mid[1] = p.mid[1] /\ (IsWave(o) => o.solicit)
    BY <1>2, <1>12 DEF RouteInv, ReplyRouting
  <2>3. r.mid[2] # 1 /\ r.to \in registry
    BY <1>5, <1>6, <1>7, <1>10, <1>12, <2>1
  <2> QED
    BY <1>9, <1>10, <2>2, <2>3 DEF r
<1> QED
  BY <1>11, <1>12

LEMMA RouteStep ==
    ASSUME HorizonInv, Flight, RouteInv, [Next]_vars
    PROVE  RouteInv'
<1>0. TypeOK
  BY DEF HorizonInv
<1>1. ReplyRouting' /\ Derived'
  <2> DEFINE Routed(e) == \E o \in Origin :
                /\ o.mid[1] = e.mid[1]
                /\ IsWave(o) => o.solicit
                /\ IF IsWave(o) /\ e.mid[2] = 1 THEN e.to = o.from
                                                ELSE e.to \in registry
  <2> SUFFICES ASSUME NEW e, e \in sent' \ Origin
               PROVE  ~IsWave(e) /\ e.mid[2] > 0 /\ Routed(e)'
    BY DEF ReplyRouting, Derived
  <2>1. ~IsWave(e) /\ e.mid[2] > 0 /\ Routed(e)
    <3>1. CASE e \in sent
      BY <3>1 DEF RouteInv, ReplyRouting, Derived
    <3>2. CASE e \notin sent
      BY <3>2, SentNew, ReplyRouted
    <3> QED
      BY <3>1, <3>2
  <2> QED
    BY <2>1, RegistryGrows
<1>2. \A x \in Body : Unasked(x)'
  <2>1. ASSUME NEW b \in Body, Works(b) \/ Loops(b), NEW x \in Body \ {b}
        PROVE  Unasked(x)'
    <3>1. Cur(x)' = Cur(x)
      BY <1>0, <2>1, OwnWrites, CurStays
    <3> QED
      BY <1>0, <2>1, <3>1, OwnWrites DEF RouteInv, Unasked
  <2>2. ASSUME NEW b \in Body, Loops(b)
        PROVE  Unasked(b)'
    BY <1>0, <2>2, LoopFacts DEF RouteInv, Unasked, Busy, Guarded, logVars
  <2>3. ASSUME NEW b \in Body, Works(b)
        PROVE  Unasked(b)'
    BY <2>3, UnaskedWorks
  <2>4. CASE Outside
    <3>1. UNCHANGED <<pc, batch, log, saved, ctrl>>
      BY <2>4, OutsideFacts DEF pipeVars, logVars
    <3> QED
      BY <3>1 DEF RouteInv, Unasked, Cur, Via
  <2> QED
    BY <2>1, <2>2, <2>3, <2>4, NextCases
<1> QED
  BY <1>1, <1>2 DEF RouteInv

LEMMA RouteInvariant == Spec => []RouteInv
<1>1. Init => RouteInv
  <2> SUFFICES ASSUME Init PROVE RouteInv
    OBVIOUS
  <2>1. sent = {}
    BY DEF Init
  <2>2. ReplyRouting /\ Derived
    BY <2>1 DEF ReplyRouting, Derived
  <2>3. ASSUME NEW b \in Body
        PROVE  Unasked(b)
    <3>1. pc[b] \in {"beat", "down"}
      BY DEF Init
    <3>2. \A o \in Origin : log[b][o.mid] = "none"
      <4>1. \A o \in Origin : o.mid \in Mid
        BY EnvelopeAssumption DEF Envelope, Mid
      <4> QED
        BY <4>1 DEF Init
    <3> QED
      BY <3>1, <3>2 DEF Unasked
  <2> QED
    BY <2>2, <2>3 DEF RouteInv
<1> QED
  BY <1>1, RouteStep, HorizonInvariant, FlightInvariant, PTL DEF Spec

\* ReplyRouting, whatever Claude answers and however often a message is
\* redelivered: no reply is a Wave, an unsolicited Wave breeds no message, a
\* solicited one is answered to its originator alone and every other reply goes
\* to a registered id.
THEOREM RepliesAreRouted == Spec => []ReplyRouting
<1>1. RouteInv => ReplyRouting
  BY DEF RouteInv
<1> QED
  BY <1>1, RouteInvariant, PTL

-----------------------------------------------------------------------------
(* One message, one reply *)

\* A reply's id is a function of the id it answers, not of who answers.  The
\* replies of two bodies to a body's soliciting Wave therefore share an id, and
\* its originator's log, keyed by id, takes the one for the other when both
\* come: it may then answer both with one saved result.  In the conversations
\* that `r` starts this cannot happen.
OneAnswerer(r) ==
    \A o \in Origin :
        o.mid[1] = r /\ IsWave(o) /\ o.solicit /\ o.from \in Body =>
            \A x, y \in Body \ {o.from} : x = y

Settled == {"CLAUDE_DONE", "REPLY_EMITTED", "ACKED"}

\* The reply t is what its sender saved as Claude's answer to some message.
Answer(t, e) ==
    /\ For(t.from, e)
    /\ t.mid = DeriveReplyId(e.mid)
    /\ log[t.from][e.mid] \in Settled
    /\ saved[t.from][e.mid].reply /\ ~saved[t.from][e.mid].gated
    /\ t = MakeReply(e, t.from, Recipient(e, saved[t.from][e.mid]))
Answers == \A t \in sent \ Origin :
              t.from \in Body /\ \E e \in sent : Answer(t, e)

\* Two different envelopes for Observatories never share an id.
OneLetter ==
    \A s, t \in sent :
        s.mid = t.mid /\ OneAnswerer(s.mid[1]) /\ s.to \notin Guest
        /\ t.to \notin Guest => s = t

\* Past the check at the head of process() nobody works on a Wave of his own.
Foreign == \A b \in Body :
              pc[b] \in Busy \ {"check", "ack"} => ~OwnWave(b, Cur(b))
AnswerInv == Foreign /\ Answers /\ OneLetter

LEMMA ForeignStep ==
    ASSUME HorizonInv, Foreign, [Next]_vars
    PROVE  Foreign'
<1>0. TypeOK
  BY DEF HorizonInv
<1> DEFINE Fine(x) == pc[x] \in Busy \ {"check", "ack"} => ~OwnWave(x, Cur(x))
<1>1. ASSUME NEW b \in Body, Works(b) \/ Loops(b), NEW x \in Body \ {b}
      PROVE  Fine(x)'
  <2>1. Cur(x)' = Cur(x) /\ pc'[x] = pc[x]
    BY <1>0, <1>1, OwnWrites, CurStays
  <2> QED
    BY <2>1 DEF Foreign, OwnWave
<1>2. ASSUME NEW b \in Body, Loops(b)
      PROVE  Fine(b)'
  BY <1>0, <1>2, LoopFacts
<1>3. ASSUME NEW b \in Body, Works(b)
      PROVE  Fine(b)'
  <2>1. Cur(b)' = Cur(b) /\ pc[b] \in Busy /\ pc \in [Body -> Pc]
    BY <1>0, <1>3, WorksFacts, CurStays DEF TypeOK
  <2>2. CASE CheckKill(b)
    <3>1. OwnWave(b, Cur(b)) => pc'[b] = "ack"
      BY <2>1, <2>2 DEF CheckKill, Goto
    <3> QED
      BY <2>1, <3>1 DEF OwnWave
  <2>3. CASE ~CheckKill(b)
    <3>1. pc[b] \notin {"check", "ack"}
      BY <1>3, <2>3 DEF Works, CheckPause, Count, Limit, EndNote, Receive, Turn,
         Save, StoreSession, Withhold, HoldReply, EmitReply, MirrorReply,
         MarkEmitted, Finish
    <3> QED
      BY <2>1, <3>1 DEF Foreign, OwnWave
  <2> QED
    BY <2>2, <2>3
<1>4. CASE Outside
  <2>1. UNCHANGED <<pc, batch>>
    BY <1>4, OutsideFacts DEF pipeVars
  <2> QED
    BY <2>1 DEF Foreign, OwnWave, Cur, Via
<1> QED
  BY <1>1, <1>2, <1>3, <1>4, NextCases DEF Foreign

\* What has been answered stays answered, and so does the answer.
LEMMA SettledStays ==
    ASSUME HorizonInv, Written, [Next]_vars, NEW b \in Body, NEW m \in Mid,
           log[b][m] \in Settled
    PROVE  log'[b][m] \in Settled /\ saved'[b][m] = saved[b][m]
<1>0. TypeOK
  BY DEF HorizonInv
<1>1. CASE Works(b)
  <2>1. Receive(b) => log[b][Cur(b).mid] = "none"
    BY DEF Written, WrittenAt, Receive
  <2>2. Save(b) => log[b][Cur(b).mid] = "RECEIVED"
    BY DEF Written, WrittenAt, Save
  <2> QED
    BY <1>1, <2>1, <2>2, LogMove DEF Settled
<1>2. ASSUME NEW x \in Body, Works(x) \/ Loops(x), x # b
      PROVE  log'[b] = log[b] /\ saved'[b] = saved[b]
  BY <1>0, <1>2, OwnWrites
<1>3. Loops(b) => UNCHANGED <<log, saved>>
  BY <1>0, LoopFacts DEF logVars
<1>4. Outside => UNCHANGED <<log, saved>>
  BY OutsideFacts DEF logVars
<1> QED
  BY <1>1, <1>2, <1>3, <1>4, NextCases

\* A new reply is the saved answer to the entry in hand.
LEMMA NewAnswer ==
    ASSUME HorizonInv, Flight, Written, Foreign, NEW b \in Body,
           HoldReply(b) \/ EmitReply(b)
    PROVE  /\ Cur(b) \in sent /\ Cur(b).mid \in Mid
           /\ ReplyOf(b).from = b
           /\ Answer(ReplyOf(b), Cur(b))
           /\ log[b][Cur(b).mid] = "CLAUDE_DONE"
<1> DEFINE p == Cur(b)
<1>1. pc[b] = "reply" /\ Deliverable(p, ctrl[b])
  BY DEF HoldReply, EmitReply
<1>2. p \in sent /\ p.mid \in Mid /\ (p.to = b \/ IsWave(p))
  BY <1>1, CurSent, CurTyped DEF Addressed, Busy, Guarded
<1>3. log[b][p.mid] = "CLAUDE_DONE" /\ saved[b][p.mid] = ctrl[b]
  BY <1>1 DEF Written, WrittenAt
<1>4. ~OwnWave(b, p)
  BY <1>1 DEF Foreign, Busy, Guarded
<1>5. For(b, p)
  BY <1>2, <1>4 DEF For, OwnWave
<1>6. ctrl[b].reply /\ ~ctrl[b].gated
  BY <1>1 DEF Deliverable
<1>7. /\ ReplyOf(b) = MakeReply(p, b, Recipient(p, ctrl[b]))
      /\ ReplyOf(b).from = b
      /\ ReplyOf(b).mid = DeriveReplyId(p.mid)
  BY DEF ReplyOf, MakeReply
<1> HIDE DEF p
<1> QED
  BY <1>2, <1>3, <1>5, <1>6, <1>7 DEF Answer, Settled, p

LEMMA AnswersStep ==
    ASSUME HorizonInv, Flight, Written, AnswerInv, [Next]_vars
    PROVE  Answers'
<1> SUFFICES ASSUME NEW t \in sent' \ Origin
             PROVE  t.from \in Body /\ \E e \in sent' : Answer(t, e)'
  BY DEF Answers
<1>1. t.from \in Body /\ \E e \in sent : Answer(t, e)
  <2>1. CASE t \in sent
    BY <2>1 DEF AnswerInv, Answers
  <2>2. CASE t \notin sent
    BY <2>2, SentNew, NewAnswer DEF AnswerInv
  <2> QED
    BY <2>1, <2>2
<1>2. PICK e \in sent : Answer(t, e)
  BY <1>1
<1>3. e.mid \in Mid
  BY BoundedFacts DEF HorizonInv, Stored
<1>4. /\ log'[t.from][e.mid] \in Settled
      /\ saved'[t.from][e.mid] = saved[t.from][e.mid]
  BY <1>1, <1>2, <1>3, SettledStays DEF Answer
<1> QED
  BY <1>1, <1>2, <1>4, SentGrows DEF Answer

\* Who answers a message that Observatories read, and how.
LEMMA ParentFacts ==
    ASSUME HorizonInv, NEW e \in sent, NEW b \in Body, For(b, e)
    PROVE  /\ e.to \notin Guest
           /\ e.mid \in Mid /\ e.mid = <<e.mid[1], e.mid[2]>> /\ e.mid[2] \in Nat
           /\ e.from \in Id
<1>1. e \in Envelope /\ e.mid \in Mid
  BY BoundedFacts DEF HorizonInv, Stored, TypeOK
<1>2. e.to \notin Guest
  BY EnvelopeAssumption DEF For, IsWave, Id
<1> QED
  BY <1>1, <1>2 DEF Envelope

\* Two messages with the same derived id have the same parent id.
LEMMA SameParent ==
    ASSUME NEW m \in Mid, NEW k \in Mid, DeriveReplyId(m) = DeriveReplyId(k)
    PROVE  m = k
  BY DEF DeriveReplyId, Mid

\* A reply to a Wave answers a solicitation and goes to its originator.
ToOriginator(s) ==
    \A o \in Origin : IsWave(o) /\ s.mid = DeriveReplyId(o.mid) =>
                         o.solicit /\ s.to = o.from

LEMMA WaveAnswer ==
    ASSUME NEW s, NEW o \in Origin, o.mid[1] = s.mid[1], IsWave(o) => o.solicit,
           IsWave(o) /\ s.mid[2] = 1 => s.to = o.from
    PROVE  ToOriginator(s)
<1> SUFFICES ASSUME NEW p \in Origin, IsWave(p), s.mid = DeriveReplyId(p.mid)
             PROVE  p.solicit /\ s.to = p.from
  BY DEF ToOriginator
<1>1. p.mid[2] = 0
  BY EnvelopeAssumption
<1>2. s.mid[1] = p.mid[1] /\ s.mid[2] = 1
  BY <1>1 DEF DeriveReplyId
<1>3. o = p
  BY <1>2, OneOrigin
<1> QED
  BY <1>2, <1>3

LEMMA RepliesToOriginator ==
    ASSUME HorizonInv, Flight, RouteInv
    PROVE  /\ \A s \in sent \ Origin : ToOriginator(s)
           /\ \A b \in Body : HoldReply(b) \/ EmitReply(b) =>
                 ToOriginator(ReplyOf(b))
<1>1. ASSUME NEW s \in sent \ Origin
      PROVE  ToOriginator(s)
  BY WaveAnswer DEF RouteInv, ReplyRouting
<1>2. ASSUME NEW b \in Body, HoldReply(b) \/ EmitReply(b)
      PROVE  ToOriginator(ReplyOf(b))
  <2> DEFINE r == ReplyOf(b)
  <2>1. \E o \in Origin : /\ o.mid[1] = r.mid[1] /\ (IsWave(o) => o.solicit)
                          /\ (IsWave(o) /\ r.mid[2] = 1 => r.to = o.from)
    BY <1>2, ReplyRouted
  <2> HIDE DEF r
  <2>2. ToOriginator(r)
    BY <2>1, WaveAnswer
  <2> QED
    BY <2>2 DEF r
<1> QED
  BY <1>1, <1>2

\* Two answers of the same id to messages for Observatories are one, if the
\* messages are one and only one body can have answered.
LEMMA SameAnswer ==
    ASSUME HorizonInv, Flight, RouteInv, OneLetter,
           NEW s, NEW t, NEW p \in sent, NEW q \in sent,
           s.from \in Body, t.from \in Body, Answer(s, p), Answer(t, q),
           s.mid = t.mid, OneAnswerer(s.mid[1]),
           s.from = t.from \/ (ToOriginator(s) /\ s.to \notin Guest)
    PROVE  s = t
<1>1. For(s.from, p) /\ For(t.from, q)
  BY DEF Answer
<1>2. /\ p.to \notin Guest /\ q.to \notin Guest
      /\ p.mid \in Mid /\ q.mid \in Mid /\ p.from \in Id
      /\ p.mid = <<p.mid[1], p.mid[2]>>
  BY <1>1, ParentFacts
<1>3. p.mid = q.mid
  BY <1>2, SameParent DEF Answer
<1>4. s.mid[1] = p.mid[1]
  BY <1>2 DEF Answer, DeriveReplyId
<1>5. p = q
  BY <1>2, <1>3, <1>4 DEF OneLetter
<1>6. s.from = t.from
  <2>1. CASE ~IsWave(p)
    BY <1>1, <1>5, <2>1 DEF For
  <2>2. CASE IsWave(p) /\ ToOriginator(s) /\ s.to \notin Guest
    <3>1. p \in Origin
      BY <2>2, WavesAreOrigins
    <3>2. p.solicit /\ s.to = p.from
      BY <2>2, <3>1 DEF ToOriginator, Answer
    <3>3. p.from \in Body
      BY <1>2, <2>2, <3>2 DEF Id
    <3>4. s.from # p.from /\ t.from # p.from
      BY <1>1, <1>5, <2>2, EnvelopeAssumption DEF For, IsWave, Id
    <3> QED
      BY <1>4, <2>2, <3>1, <3>2, <3>3, <3>4 DEF OneAnswerer
  <2> QED
    BY <2>1, <2>2
<1> QED
  BY <1>5, <1>6 DEF Answer

\* A new reply is no different envelope under a known id.
LEMMA OneLetterStep ==
    ASSUME HorizonInv, Flight, RouteInv, Written, AnswerInv, [Next]_vars
    PROVE  OneLetter'
<1>1. ASSUME NEW b \in Body, HoldReply(b) \/ EmitReply(b), NEW t \in sent,
             t.mid = ReplyOf(b).mid, OneAnswerer(t.mid[1]),
             t.to \notin Guest, ReplyOf(b).to \notin Guest
      PROVE  t = ReplyOf(b)
  <2> DEFINE r == ReplyOf(b)
  <2>1. /\ Cur(b) \in sent /\ r.from = b /\ Answer(r, Cur(b)) /\ r.mid[2] > 0
        /\ ToOriginator(r)
    BY <1>1, NewAnswer, ReplyRouted, RepliesToOriginator DEF AnswerInv
  <2>2. t \notin Origin
    BY <1>1, <2>1, EnvelopeAssumption
  <2>3. PICK e \in sent : t.from \in Body /\ Answer(t, e)
    BY <2>2 DEF AnswerInv, Answers
  <2> HIDE DEF r
  <2>4. r = t
    BY <1>1, <2>1, <2>3, SameAnswer DEF AnswerInv, r
  <2> QED
    BY <2>4 DEF r
<1>2. ASSUME NEW o \in Origin, NEW t \in sent, t.mid = o.mid
      PROVE  t = o
  BY <1>2, WavesAreOrigins
<1>3. \A o, p \in Origin : o.mid = p.mid => o = p
  BY EnvelopeAssumption
<1>4. \A o \in Origin : \A b \in Body :
         (HoldReply(b) \/ EmitReply(b)) => o.mid # ReplyOf(b).mid
  BY ReplyRouted, EnvelopeAssumption
<1> SUFFICES ASSUME NEW s \in sent', NEW t \in sent', s.mid = t.mid,
                    OneAnswerer(s.mid[1]), s.to \notin Guest, t.to \notin Guest
             PROVE  s = t
  BY DEF OneLetter, OneAnswerer, IsWave
<1>5. CASE s \in sent /\ t \in sent
  BY <1>5 DEF AnswerInv, OneLetter
<1>6. CASE s \notin sent /\ t \in sent
  BY <1>1, <1>2, <1>6, SentNew
<1>7. CASE s \in sent /\ t \notin sent
  BY <1>1, <1>2, <1>7, SentNew
<1>8. CASE s \notin sent /\ t \notin sent
  <2>1. ASSUME NEW b \in Body, NEW x \in Body, b # x,
               HoldReply(b) \/ EmitReply(b), HoldReply(x) \/ EmitReply(x)
        PROVE  FALSE
    <3>1. pc \in [Body -> Pc] /\ pc[b] = "reply" /\ pc[x] = "reply"
      BY <2>1 DEF HorizonInv, TypeOK, HoldReply, EmitReply
    <3>2. pc'[b] # "reply" /\ pc'[x] = "reply"
      BY <2>1, <3>1 DEF HoldReply, EmitReply, Goto
    <3>3. pc'[x] # "reply"
      BY <2>1, <3>1 DEF HoldReply, EmitReply, Goto
    <3> QED
      BY <3>2, <3>3
  <2> QED
    BY <1>3, <1>4, <1>8, <2>1, SentNew
<1> QED
  BY <1>5, <1>6, <1>7, <1>8

LEMMA AnswerInvariant == Spec => []AnswerInv
<1>1. Init => AnswerInv
  BY DEF Init, AnswerInv, Foreign, Answers, OneLetter, Busy, Guarded
<1>2. ASSUME HorizonInv, Flight, RouteInv, Written, AnswerInv, [Next]_vars
      PROVE  AnswerInv'
  BY <1>2, ForeignStep, AnswersStep, OneLetterStep DEF AnswerInv
<1> QED
  BY <1>1, <1>2, HorizonInvariant, FlightInvariant, RouteInvariant,
     WrittenInvariant, PTL DEF Spec

\* One reply per message in every conversation that nobody but one body can
\* answer, whatever crashes and is re-emitted: ReplyDetermined for them.
OneReply ==
    \A s, t \in sent :
        s.from = t.from /\ s.mid = t.mid /\ OneAnswerer(s.mid[1]) => s = t

\* However often process() runs on a message again, it sends the reply that its
\* first result gave, for any crashes, drops, lapses and operator actions.
THEOREM RepliedOnce == Spec => []OneReply
<1>1. ASSUME HorizonInv, Flight, RouteInv, AnswerInv
      PROVE  OneReply
  <2> SUFFICES ASSUME NEW s \in sent, NEW t \in sent, s.from = t.from,
                      s.mid = t.mid, OneAnswerer(s.mid[1])
               PROVE  s = t
    BY DEF OneReply
  <2>1. CASE s \in Origin \/ t \in Origin
    BY <1>1, <2>1, WavesAreOrigins
  <2>2. CASE s \notin Origin /\ t \notin Origin
    <3>1. PICK p \in sent : s.from \in Body /\ Answer(s, p)
      BY <1>1, <2>2 DEF AnswerInv, Answers
    <3>2. PICK q \in sent : t.from \in Body /\ Answer(t, q)
      BY <1>1, <2>2 DEF AnswerInv, Answers
    <3> QED
      BY <1>1, <3>1, <3>2, SameAnswer DEF AnswerInv
  <2> QED
    BY <2>1, <2>2
<1> QED
  BY <1>1, HorizonInvariant, FlightInvariant, RouteInvariant, AnswerInvariant,
     PTL

-----------------------------------------------------------------------------
(* Each step of the pipeline is a step of the Outbox *)

\* The Outbox is about the same bodies, ids and messages.
LEMMA PromiseSame == Promise!Mid = Mid /\ Promise!Id = Id
  BY DEF Promise!Mid, Mid, Promise!Id, Id

\* What one step does to the outbox of one message.
LEMMA PromiseMark ==
    ASSUME HorizonInv, Written, NEW b \in Body, Works(b), UNCHANGED sent
    PROVE  [Promise!Next]_(Promise!vars)
<1> DEFINE m == Cur(b).mid
<1>1. /\ m \in Mid
      /\ log \in [Body -> [Mid -> LogState]]
      /\ saved \in [Body -> [Mid -> ControlBlock]]
      /\ ctrl[b] \in ControlBlock
  BY WorksFacts, CurTyped
<1>2. UNCHANGED Replies
  BY DEF Replies
<1>3. WrittenAt(b)
  BY DEF Written
<1> HIDE DEF m
<1>4. CASE CheckKill(b) \/ CheckPause(b) \/ Limit(b) \/ Finish(b)
  <2>1. UNCHANGED saved /\ (UNCHANGED log \/ Mark(b, Cur(b), "ACKED"))
    BY <1>4 DEF CheckKill, CheckPause, Limit, Finish
  <2>2. CASE UNCHANGED log
    BY <1>2, <2>1, <2>2 DEF Promise!vars
  <2>3. CASE Mark(b, Cur(b), "ACKED")
    <3>1. Promise!Close(b, m)
      BY <1>2, <2>1, <2>3 DEF Promise!Close, Mark, m
    <3> QED
      BY <1>1, <3>1, PromiseSame DEF Promise!Next
  <2> QED
    BY <2>1, <2>2, <2>3
<1>5. CASE Receive(b)
  <2>1. Promise!Receive(b, m)
    BY <1>2, <1>3, <1>5
    DEF Receive, WrittenAt, Mark, Promise!Receive, Promise!Advance, m
  <2> QED
    BY <1>1, <2>1, PromiseSame DEF Promise!Next
<1>6. CASE Save(b)
  <2>1. Promise!Complete(b, m)
    BY <1>1, <1>2, <1>3, <1>6
    DEF Save, WrittenAt, Mark, Promise!Complete, Promise!Advance, m
  <2> QED
    BY <1>1, <2>1, PromiseSame DEF Promise!Next
<1>7. CASE MarkEmitted(b)
  <2>1. Promise!Emitted(b, m)
    BY <1>2, <1>3, <1>7
    DEF MarkEmitted, WrittenAt, Mark, Promise!Emitted, Promise!Advance, m
  <2> QED
    BY <1>1, <2>1, PromiseSame DEF Promise!Next
<1>8. CASE UNCHANGED <<log, saved>>
  BY <1>2, <1>8 DEF Promise!vars
<1> QED
  BY <1>4, <1>5, <1>6, <1>7, <1>8 DEF Works, Count, EndNote, Turn, StoreSession,
     Withhold, HoldReply, EmitReply, MirrorReply, logVars

\* A reply that leaves for the first time is the promised one, and a re-emitted
\* one is no step of the Outbox at all.
LEMMA PromiseSend ==
    ASSUME HorizonInv, Flight, Written, AnswerInv, ReplyDetermined',
           NEW b \in Body, HoldReply(b) \/ EmitReply(b)
    PROVE  [Promise!Next]_(Promise!vars)
<1> DEFINE m == Cur(b).mid
           r == ReplyOf(b)
<1>1. /\ m \in Mid /\ r.from = b /\ Answer(r, Cur(b)) /\ r.to \in Id
      /\ log[b][m] = "CLAUDE_DONE"
  BY NewAnswer, ReplyTyped DEF AnswerInv, HorizonInv
<1>2. r.mid = DeriveReplyId(m) /\ saved[b][m].reply /\ ~saved[b][m].gated
  BY <1>1 DEF Answer
<1>3. sent' = sent \cup {r} /\ UNCHANGED <<log, saved>>
  BY DEF HoldReply, EmitReply, logVars
<1> HIDE DEF m, r
<1>4. CASE r \in sent
  BY <1>3, <1>4 DEF Replies, Promise!vars
<1>5. CASE r \notin sent
  <2>1. \A e \in sent : ~(e.from = b /\ e.mid = DeriveReplyId(m))
    BY <1>1, <1>2, <1>3, <1>5 DEF ReplyDetermined
  <2>2. Replies[b][m] = {}
    BY <1>1, <2>1 DEF Replies
  <2>3. Replies' = [Replies EXCEPT ![b][m] = {r.to}]
    <3> DEFINE New(x, k) == {e.to : e \in {i \in sent' :
                                  i.from = x /\ i.mid = DeriveReplyId(k)}}
               Old(x, k) == {e.to : e \in {i \in sent :
                                  i.from = x /\ i.mid = DeriveReplyId(k)}}
    <3>1. Replies' = [x \in Body |-> [k \in Mid |-> New(x, k)]]
      BY DEF Replies
    <3>2. Replies = [x \in Body |-> [k \in Mid |-> Old(x, k)]]
      BY DEF Replies
    <3>3. New(b, m) = {r.to}
      BY <1>1, <1>2, <1>3, <2>1
    <3>4. ASSUME NEW x \in Body, NEW k \in Mid, ~(x = b /\ k = m)
          PROVE  New(x, k) = Old(x, k)
      <4>1. ~(r.from = x /\ r.mid = DeriveReplyId(k))
        BY <1>1, <1>2, <3>4, SameParent
      <4> QED
        BY <1>3, <4>1
    <3> HIDE DEF New, Old
    <3> QED
      BY <1>1, <3>1, <3>2, <3>3, <3>4
  <2>4. Promise!Send(b, m)
    BY <1>1, <1>2, <1>3, <2>2, <2>3, PromiseSame DEF Promise!Send
  <2> QED
    BY <1>1, <2>4, PromiseSame DEF Promise!Next
<1> QED
  BY <1>4, <1>5

\* Whatever else happens, crashes, holds and redeliveries included, the Outbox
\* does not see it.
LEMMA PromiseStutters ==
    ASSUME HorizonInv, NEW b \in Body, Loops(b)
    PROVE  UNCHANGED Promise!vars
<1>1. UNCHANGED <<log, saved>>
  BY LoopFacts DEF HorizonInv, logVars
<1>2. UNCHANGED sent
  BY DEF Loops, Start, Beat, Drain, Flush, FlushMirror, Unpark, Repost, Poll, Ack,
     Reconnect, Crash, Drop, ReconnectFails, wireVars
<1> QED
  BY <1>1, <1>2 DEF Replies, Promise!vars

LEMMA PromiseOutside ==
    ASSUME Outside
    PROVE  UNCHANGED Promise!vars
<1>1. UNCHANGED <<log, saved>>
  BY OutsideFacts DEF logVars
<1>2. CASE UNCHANGED sent
  BY <1>1, <1>2 DEF Replies, Promise!vars
<1>3. ASSUME NEW o \in Origin, Post(o)
      PROVE  UNCHANGED Promise!vars
  <2>1. sent' = sent \cup {o}
    BY <1>3 DEF Post
  <2>2. \A k \in Mid : o.mid # DeriveReplyId(k)
    BY EnvelopeAssumption DEF DeriveReplyId, Mid
  <2>3. ASSUME NEW x \in Body, NEW k \in Mid
        PROVE  {i \in sent' : i.from = x /\ i.mid = DeriveReplyId(k)}
               = {i \in sent : i.from = x /\ i.mid = DeriveReplyId(k)}
    BY <2>1, <2>2
  <2>4. UNCHANGED Replies
    BY <2>3 DEF Replies
  <2> QED
    BY <1>1, <2>4 DEF Promise!vars
<1> QED
  BY <1>2, <1>3 DEF Outside, Lapse, SetControl, KillProject, NextWindow, vars,
     wireVars

\* The pipeline's initial states and steps are the Outbox's.
LEMMA PromiseInit == Init => Promise!Init
<1> SUFFICES ASSUME Init PROVE Promise!Init
  OBVIOUS
<1>1. Replies = [b \in Body |-> [m \in Mid |-> {}]]
  BY DEF Init, Replies
<1> QED
  BY <1>1, PromiseSame DEF Init, Promise!Init

LEMMA PromiseStep ==
    ASSUME HorizonInv, Flight, Written, AnswerInv, ReplyDetermined', [Next]_vars
    PROVE  [Promise!Next]_(Promise!vars)
<1>1. ASSUME NEW b \in Body, Works(b)
      PROVE  [Promise!Next]_(Promise!vars)
  <2>1. CASE HoldReply(b) \/ EmitReply(b)
    BY <2>1, PromiseSend
  <2>2. CASE UNCHANGED sent
    BY <1>1, <2>2, PromiseMark
  <2> QED
    BY <1>1, <2>1, <2>2 DEF Works, CheckKill, CheckPause, Count, Limit, EndNote,
       Receive, Turn, Save, StoreSession, Withhold, MirrorReply, MarkEmitted,
       Finish, wireVars
<1> QED
  BY <1>1, PromiseStutters, PromiseOutside, NextCases

-----------------------------------------------------------------------------
(* Where messages can be lost *)

\* What process() is through with is parked, logged as ACKED or his own Wave.
Done == \A b \in Body : pc[b] = "ack" =>
           \/ Cur(b) \in Range(parked[b])
           \/ log[b][Cur(b).mid] = "ACKED"
           \/ OwnWave(b, Cur(b))

LEMMA DoneWorks ==
    ASSUME HorizonInv, Written, NEW b \in Body, Works(b), pc'[b] = "ack"
    PROVE  \/ Cur(b) \in Range(parked'[b])
           \/ log'[b][Cur(b).mid] = "ACKED"
           \/ OwnWave(b, Cur(b))
<1> DEFINE m == Cur(b).mid
<1>1. /\ m \in Mid /\ log[b][m] \in LogState /\ Cur(b) \in Envelope
      /\ log \in [Body -> [Mid -> LogState]]
      /\ pc \in [Body -> Pc] /\ parked \in [Body -> Seq(Envelope)]
  BY WorksFacts, CurTyped DEF HorizonInv, TypeOK
<1> USE DEF Goto
<1>2. CASE CheckKill(b)
  <2>1. ~OwnWave(b, Cur(b)) => pc'[b] \in {"endnote", "pause"}
    BY <1>1, <1>2 DEF CheckKill
  <2> QED
    BY <2>1
<1>3. CASE CheckPause(b)
  <2> DEFINE state == log[b][m]
             paused == conv[Cur(b).conv] = "paused"
             dies == ~paused /\ state = "none" /\ HorizonReached(Cur(b))
  <2>1. CASE paused
    <3>1. parked'[b] = Append(parked[b], Cur(b))
      BY <1>1, <1>3, <2>1 DEF CheckPause
    <3>2. Range(Append(parked[b], Cur(b))) = Range(parked[b]) \cup {Cur(b)}
      BY <1>1, RangeFacts
    <3> QED
      BY <3>1, <3>2
  <2>2. CASE dies
    BY <1>1, <1>3, <2>2 DEF CheckPause
  <2>3. CASE ~paused /\ ~dies
    <3>1. pc'[b] = (IF state = "none" THEN "count" ELSE Resume(state))
          /\ log' = log
      BY <1>1, <1>3, <2>3 DEF CheckPause
    <3>2. Resume(state) # "ack"
      BY <1>1 DEF Resume, LogState
    <3> QED
      BY <3>1, <3>2
  <2> QED
    BY <2>1, <2>2, <2>3
<1>4. CASE EndNote(b)
  BY <1>1, <1>4 DEF EndNote, Written, WrittenAt
<1>5. CASE Finish(b)
  BY <1>1, <1>5 DEF Finish, Mark
<1>6. CASE Count(b) \/ Limit(b) \/ Receive(b) \/ Turn(b) \/ Save(b)
  BY <1>1, <1>6 DEF Count, Limit, Receive, Turn, Save
<1>7. CASE StoreSession(b) \/ Withhold(b) \/ HoldReply(b) \/ EmitReply(b)
           \/ MirrorReply(b) \/ MarkEmitted(b)
  BY <1>1, <1>7 DEF StoreSession, Withhold, HoldReply, EmitReply, MirrorReply,
     MarkEmitted
<1> QED
  BY <1>2, <1>3, <1>4, <1>5, <1>6, <1>7 DEF Works

LEMMA DoneStep ==
    ASSUME HorizonInv, Written, Done, [Next]_vars
    PROVE  Done'
<1>0. TypeOK
  BY DEF HorizonInv
<1> DEFINE Through(x) == pc[x] = "ack" =>
                            \/ Cur(x) \in Range(parked[x])
                            \/ log[x][Cur(x).mid] = "ACKED"
                            \/ OwnWave(x, Cur(x))
<1>1. ASSUME NEW b \in Body, Works(b) \/ Loops(b), NEW x \in Body \ {b}
      PROVE  Through(x)'
  <2>1. /\ Cur(x)' = Cur(x) /\ pc'[x] = pc[x] /\ parked'[x] = parked[x]
        /\ log'[x] = log[x]
    BY <1>0, <1>1, OwnWrites, CurStays
  <2> QED
    BY <2>1 DEF Done, OwnWave
<1>2. ASSUME NEW b \in Body, Loops(b)
      PROVE  Through(b)'
  BY <1>0, <1>2, LoopFacts DEF Busy
<1>3. ASSUME NEW b \in Body, Works(b)
      PROVE  Through(b)'
  <2>1. Cur(b)' = Cur(b)
    BY <1>3, WorksFacts, CurStays
  <2> QED
    BY <1>3, <2>1, DoneWorks DEF OwnWave
<1>4. CASE Outside
  <2>1. UNCHANGED <<pc, batch, log, parked>>
    BY <1>4, OutsideFacts DEF pipeVars, logVars
  <2> QED
    BY <2>1 DEF Done, OwnWave, Cur, Via
<1> QED
  BY <1>1, <1>2, <1>3, <1>4, NextCases DEF Done

LEMMA DoneInvariant == Spec => []Done
<1>1. Init => Done
  BY DEF Init, Done
<1> QED
  BY <1>1, DoneStep, HorizonInvariant, WrittenInvariant, PTL DEF Spec

\* A message of b is in some list of b until b's log says it is done with.
Safe(b, e) == e \in InTransit(b) \/ log[b][e.mid] = "ACKED"

\* An ACKED message stays so.
LEMMA AckedStays ==
    ASSUME HorizonInv, Written, [Next]_vars, NEW b \in Body, NEW m \in Mid,
           log[b][m] = "ACKED"
    PROVE  log'[b][m] = "ACKED"
<1>0. TypeOK
  BY DEF HorizonInv
<1>1. CASE Works(b)
  <2>1. Receive(b) => log[b][Cur(b).mid] = "none"
    BY DEF Written, WrittenAt, Receive
  <2>2. Save(b) => log[b][Cur(b).mid] = "RECEIVED"
    BY DEF Written, WrittenAt, Save
  <2>3. MarkEmitted(b) => log[b][Cur(b).mid] = "CLAUDE_DONE"
    BY DEF Written, WrittenAt, MarkEmitted
  <2> QED
    BY <1>1, <2>1, <2>2, <2>3, LogMove
<1>2. ASSUME NEW x \in Body, Works(x) \/ Loops(x), x # b
      PROVE  log'[b] = log[b]
  BY <1>0, <1>2, OwnWrites
<1>3. Loops(b) => UNCHANGED log
  BY <1>0, LoopFacts DEF logVars
<1>4. Outside => UNCHANGED log
  BY OutsideFacts DEF logVars
<1> QED
  BY <1>1, <1>2, <1>3, <1>4, NextCases

\* Whatever is sent is in some list of every body it is for.
LEMMA SentArrives ==
    ASSUME HorizonInv, Flight, RouteInv, [Next]_vars, NEW e, e \in sent' \ sent,
           NEW b \in Body, For(b, e)
    PROVE  e \in InTransit(b)'
<1>t. /\ queue \in [Body -> [Stream -> Seq(Envelope)]]
      /\ hold \in [Id -> Seq(Envelope)] /\ b \in Id
      /\ "inbox" \in Stream /\ "broadcast" \in Stream
  BY DEF HorizonInv, TypeOK, Id, Stream
<1>1. ASSUME e \in Envelope, XAdd(e), e.to = b
      PROVE  e \in InTransit(b)'
  <2>1. queue'[b]["inbox"] = Append(queue[b]["inbox"], e)
    BY <1>t, <1>1 DEF XAdd
  <2>2. Range(Append(queue[b]["inbox"], e)) = Range(queue[b]["inbox"]) \cup {e}
    BY <1>t, <1>1, RangeFacts
  <2> QED
    BY <1>t, <2>1, <2>2, InTransitIff
<1>2. ASSUME NEW x \in Body, HoldReply(x) \/ EmitReply(x), e = ReplyOf(x)
      PROVE  e \in InTransit(b)'
  <2>1. e \in Envelope /\ ~IsWave(e)
    BY <1>2, ReplyTyped, ReplyRouted DEF HorizonInv
  <2>2. e.to = b
    BY <2>1 DEF For
  <2>3. CASE HoldReply(x)
    <3>1. hold' = [hold EXCEPT ![e.to] = Append(hold[e.to], e)]
      BY <1>2, <2>3 DEF HoldReply
    <3>2. hold'[b] = Append(hold[b], e)
      BY <1>t, <2>2, <3>1
    <3>3. Range(Append(hold[b], e)) = Range(hold[b]) \cup {e}
      BY <1>t, <2>1, RangeFacts
    <3> QED
      BY <3>2, <3>3, InTransitIff
  <2>4. CASE EmitReply(x)
    BY <1>1, <1>2, <2>1, <2>2, <2>4 DEF EmitReply
  <2> QED
    BY <1>2, <2>3, <2>4
<1>3. ASSUME NEW o \in Origin, Post(o), e = o
      PROVE  e \in InTransit(b)'
  <2>1. e \in Envelope
    BY <1>3, EnvelopeAssumption
  <2>2. CASE IsWave(e)
    <3>1. queue'[b]["broadcast"] = Append(queue[b]["broadcast"], e)
      BY <1>t, <1>3, <2>2 DEF Post
    <3>2. Range(Append(queue[b]["broadcast"], e))
          = Range(queue[b]["broadcast"]) \cup {e}
      BY <1>t, <2>1, RangeFacts
    <3> QED
      BY <1>t, <3>1, <3>2, InTransitIff
  <2>3. CASE ~IsWave(e)
    BY <1>1, <1>3, <2>1, <2>3 DEF Post, For
  <2> QED
    BY <2>2, <2>3
<1>4. \/ \E x \in Body : (HoldReply(x) \/ EmitReply(x)) /\ e = ReplyOf(x)
      \/ \E o \in Origin : Post(o) /\ e = o
  <2>1. CASE Outside
    BY <2>1 DEF Outside, Post, Lapse, SetControl, KillProject, NextWindow, vars,
       wireVars
  <2>2. CASE ~Outside
    <3>1. PICK x \in Body : Works(x) \/ Loops(x)
      BY <2>2, NextCases
    <3>2. CASE Works(x)
      BY <3>2 DEF Works, CheckKill, CheckPause, Count, Limit, EndNote, Receive,
         Turn, Save, StoreSession, Withhold, HoldReply, EmitReply, MirrorReply,
         MarkEmitted, Finish, wireVars
    <3>3. CASE Loops(x)
      BY <3>3 DEF Loops, Start, Beat, Drain, Flush, FlushMirror, Unpark, Repost,
         Poll, Ack, Reconnect, Crash, Drop, ReconnectFails, wireVars
    <3> QED
      BY <3>1, <3>2, <3>3
  <2> QED
    BY <2>1, <2>2
<1> QED
  BY <1>2, <1>3, <1>4

\* The only way to lose a message, whatever crashes, drops, lapses, pauses and
\* kills there are: it had been popped from a hold or pause list, and was not
\* yet in the inbox again when the process died or lost the bus.
LostOnlyPopped ==
    [][\A b \in Body : \A e \in sent' :
          For(b, e) /\ ~Safe(b, e)' =>
             /\ e \in sent
             /\ \/ ~Safe(b, e)
                \/ (Crash(b) \/ Drop(b)) /\ e \in Range(moving[b])]_vars

LEMMA SafeStep ==
    ASSUME HorizonInv, Flight, RouteInv, Written, Done, [Next]_vars,
           NEW b \in Body, NEW e \in sent', For(b, e)
    PROVE  \/ Safe(b, e)'
           \/ e \in sent /\ ~Safe(b, e)
           \/ e \in sent /\ (Crash(b) \/ Drop(b)) /\ e \in Range(moving[b])
<1>1. CASE e \notin sent
  BY <1>1, SentArrives DEF Safe
<1>2. CASE e \in sent /\ log[b][e.mid] = "ACKED"
  <2>1. e.mid \in Mid
    BY <1>2, BoundedFacts DEF HorizonInv, Stored
  <2> QED
    BY <1>2, <2>1, AckedStays DEF Safe
<1>3. CASE e \in sent /\ e \in InTransit(b) /\ Ack(b) /\ e = Cur(b)
  <2>1. pc[b] = "ack" /\ UNCHANGED <<parked, log>>
    BY <1>3 DEF Ack, wireVars, logVars
  <2>2. ~OwnWave(b, e)
    BY EnvelopeAssumption DEF For, OwnWave, IsWave, Id
  <2>3. e \in Range(parked'[b]) \/ log'[b][e.mid] = "ACKED"
    BY <1>3, <2>1, <2>2 DEF Done
  <2> QED
    BY <2>3, InTransitIff DEF Safe
<1>4. CASE e \in sent /\ e \in InTransit(b) /\ ~(Ack(b) /\ e = Cur(b))
  BY <1>4, FlowStep DEF Flows, Departures, Safe
<1> QED
  BY <1>1, <1>2, <1>3, <1>4 DEF Safe

\* Neither the inbox, the backlog nor a hold or pause list ever loses a message
\* that is not logged as done: a crash or drop loses what it had popped, only.
THEOREM OnlyPoppedIsLost == Spec => LostOnlyPopped
<1>1. ASSUME HorizonInv, Flight, RouteInv, Written, Done, [Next]_vars
      PROVE  [\A b \in Body : \A e \in sent' :
                For(b, e) /\ ~Safe(b, e)' =>
                   /\ e \in sent
                   /\ \/ ~Safe(b, e)
                      \/ (Crash(b) \/ Drop(b)) /\ e \in Range(moving[b])]_vars
  BY <1>1, SafeStep
<1> QED
  BY <1>1, HorizonInvariant, FlightInvariant, RouteInvariant, WrittenInvariant,
     DoneInvariant, PTL DEF Spec, LostOnlyPopped

\* No process ever dies and no bus goes away ...
NoFailure == budget["crash"] = 0 /\ budget["drop"] = 0
\* ... or nobody is ever offline, paused or killed, and the lists stay empty.
Unstranded ==
    /\ budget["lapse"] = 0 /\ budget["operator"] = 0
    /\ Body \subseteq online
    /\ \A c \in Conv : conv[c] # "paused"
    /\ \A b \in Body : hold[b] = <<>> /\ parked[b] = <<>> /\ moving[b] = <<>>

\* Budgets are spent, never refilled.
LEMMA BudgetShrinks ==
    ASSUME HorizonInv, [Next]_vars, NEW f \in Fault, budget[f] = 0
    PROVE  budget'[f] = 0
<1>0. budget \in [Fault -> Nat]
  BY DEF HorizonInv, TypeOK
<1>1. \/ UNCHANGED budget
      \/ \E g \in Fault : Spend(g)
  <2>1. ASSUME NEW b \in Body, Works(b)
        PROVE  UNCHANGED budget
    BY <2>1 DEF Works, CheckKill, CheckPause, Count, Limit, EndNote, Receive, Turn,
       Save, StoreSession, Withhold, HoldReply, EmitReply, MirrorReply,
       MarkEmitted, Finish, envVars
  <2>2. ASSUME NEW b \in Body, Loops(b)
        PROVE  UNCHANGED budget \/ \E g \in Fault : Spend(g)
    BY <2>2 DEF Loops, Start, Beat, Drain, Flush, FlushMirror, Unpark, Repost,
       Poll, Ack, Reconnect, Crash, Drop, ReconnectFails, envVars, Fault
  <2>3. CASE Outside
    BY <2>3 DEF Outside, Post, Lapse, SetControl, KillProject, NextWindow, vars,
       envVars, Fault
  <2> QED
    BY <2>1, <2>2, <2>3, NextCases
<1> QED
  BY <1>0, <1>1 DEF Spend

LEMMA NoFailureStep ==
    ASSUME HorizonInv, NoFailure, [Next]_vars
    PROVE  NoFailure' /\ \A b \in Body : ~Crash(b) /\ ~Drop(b)
<1>1. NoFailure'
  BY BudgetShrinks DEF NoFailure, Fault
<1>2. \A b \in Body : ~Crash(b) /\ ~Drop(b)
  BY DEF NoFailure, Crash, Drop, Spend
<1> QED
  BY <1>1, <1>2

LEMMA UnstrandedStep ==
    ASSUME HorizonInv, Unstranded, [Next]_vars
    PROVE  Unstranded'
<1>t. /\ hold \in [Id -> Seq(Envelope)]
      /\ parked \in [Body -> Seq(Envelope)] /\ moving \in [Body -> Seq(Envelope)]
      /\ Body \subseteq Id
  BY DEF HorizonInv, TypeOK, Id
<1>1. budget'["lapse"] = 0 /\ budget'["operator"] = 0
  BY BudgetShrinks DEF Unstranded, Fault
<1>2. ~(\E i \in Id : Lapse(i)) /\ ~(\E c \in Conv : SetControl(c))
  BY DEF Unstranded, Lapse, SetControl, Spend
<1> DEFINE Bare(b) == hold[b] = <<>> /\ parked[b] = <<>> /\ moving[b] = <<>>
<1>b. \A b \in Body : Bare(b)
  BY DEF Unstranded
<1>3. ASSUME NEW b \in Body, Works(b)
      PROVE  /\ UNCHANGED <<online, conv, parked, moving>>
             /\ \A x \in Body : hold'[x] = hold[x]
  <2>1. CASE CheckPause(b)
    <3>1. Cur(b).conv \in Conv
      BY <1>3, WorksFacts, CurTyped DEF Envelope
    <3>2. UNCHANGED parked
      BY <2>1, <3>1 DEF Unstranded, CheckPause
    <3> QED
      BY <2>1, <3>2 DEF CheckPause, envVars
  <2>2. CASE HoldReply(b)
    <3>1. ReplyOf(b).to \notin Body
      BY <2>2 DEF Unstranded, HoldReply
    <3>2. \A x \in Body : hold'[x] = hold[x]
      BY <1>t, <2>2, <3>1 DEF HoldReply
    <3> QED
      BY <2>2, <3>2 DEF HoldReply, envVars
  <2>3. CASE UNCHANGED <<online, conv, parked, moving, hold>>
    BY <2>3
  <2> QED
    BY <1>3, <2>1, <2>2, <2>3 DEF Works, CheckKill, Count, Limit, EndNote, Receive,
       Turn, Save, StoreSession, Withhold, EmitReply, MirrorReply, MarkEmitted,
       Finish, wireVars, envVars
<1>4. ASSUME NEW b \in Body, Loops(b)
      PROVE  /\ online \subseteq online' /\ UNCHANGED <<conv, hold, parked>>
             /\ \A x \in Body : moving'[x] = <<>>
  <2>1. CASE Drain(b)
    BY <1>b, <2>1 DEF Drain, envVars, wireVars
  <2>2. CASE Unpark(b)
    BY <1>b, <2>2 DEF Unpark, envVars, wireVars
  <2>3. CASE FlushMirror(b) \/ Repost(b)
    BY <1>b, <2>3 DEF FlushMirror, Repost, HorizonInv, HandInv
  <2>4. CASE Start(b) \/ Beat(b) \/ Flush(b) \/ Poll(b) \/ Ack(b) \/ Reconnect(b)
             \/ ReconnectFails(b)
    BY <1>b, <2>4 DEF Start, Beat, Flush, Poll, Ack, Reconnect, ReconnectFails,
       envVars, wireVars
  <2>5. CASE Crash(b) \/ Drop(b)
    <3>1. moving' = [moving EXCEPT ![b] = <<>>]
      BY <2>5 DEF Crash, Drop, Forget
    <3>2. \A x \in Body : moving'[x] = <<>>
      BY <1>b, <1>t, <3>1
    <3> QED
      BY <2>5, <3>2 DEF Crash, Drop, wireVars
  <2> QED
    BY <1>4, <2>1, <2>2, <2>3, <2>4, <2>5 DEF Loops
<1>5. CASE Outside
  <2>1. UNCHANGED <<parked, moving, hold>>
    BY <1>5, OutsideFacts DEF pipeVars
  <2>2. UNCHANGED <<online, conv>>
    BY <1>2, <1>5 DEF Outside, Post, KillProject, NextWindow, vars, envVars
  <2> QED
    BY <1>1, <2>1, <2>2 DEF Unstranded
<1> QED
  BY <1>1, <1>b, <1>3, <1>4, <1>5, NextCases DEF Unstranded

\* Nothing that a body stands to receive is lost, the case of SafeStep where a
\* popped entry goes down with its process being excluded.
Sheltered == NoFailure \/ Unstranded
LEMMA NotLostStep ==
    ASSUME HorizonInv, Flight, RouteInv, Written, Done, Sheltered, NoMessageLost,
           [Next]_vars
    PROVE  NoMessageLost'
<1> SUFFICES ASSUME NEW b \in Body, NEW e \in sent', For(b, e)
             PROVE  Safe(b, e)'
  BY DEF NoMessageLost, Safe, For, IsWave
<1>1. e \in sent => Safe(b, e)
  BY DEF NoMessageLost, Safe
<1>2. ~((Crash(b) \/ Drop(b)) /\ e \in Range(moving[b]))
  <2>1. CASE NoFailure
    BY <2>1, NoFailureStep
  <2>2. CASE Unstranded
    <3>1. moving[b] = <<>>
      BY <2>2 DEF Unstranded
    <3> QED
      BY <3>1, RangeOne
  <2> QED
    BY <2>1, <2>2 DEF Sheltered
<1> QED
  BY <1>1, <1>2, SafeStep

\* NoMessageLost, on the two kinds of days on which it is true: nothing fails
\* (heartbeats may lapse, and the operator pause and kill, as they please), or
\* processes crash and connections drop at will but all bodies are up, beat in
\* time and nobody pauses a conversation.
THEOREM NothingIsLost ==
    ASSUME \A w \in Budgets :
              \/ w["crash"] = 0 /\ w["drop"] = 0
              \/ Running = Body /\ w["lapse"] = 0 /\ w["operator"] = 0
    PROVE  Spec => []NoMessageLost
<1>1. Init => Sheltered /\ NoMessageLost
  <2> SUFFICES ASSUME Init PROVE Sheltered /\ NoMessageLost
    OBVIOUS
  <2>1. NoMessageLost
    BY DEF Init, NoMessageLost
  <2>2. CASE budget["crash"] = 0 /\ budget["drop"] = 0
    BY <2>1, <2>2 DEF Sheltered, NoFailure
  <2>3. CASE Running = Body /\ budget["lapse"] = 0 /\ budget["operator"] = 0
    BY <2>1, <2>3 DEF Sheltered, Unstranded, Init, Id
  <2> QED
    BY <2>2, <2>3 DEF Init
<1>2. ASSUME HorizonInv, Flight, RouteInv, Written, Done, Sheltered,
             NoMessageLost, [Next]_vars
      PROVE  (Sheltered /\ NoMessageLost)'
  <2>1. Sheltered'
    BY <1>2, NoFailureStep, UnstrandedStep DEF Sheltered
  <2> QED
    BY <1>2, <2>1, NotLostStep
<1> QED
  BY <1>1, <1>2, HorizonInvariant, FlightInvariant, RouteInvariant,
     WrittenInvariant, DoneInvariant, PTL DEF Spec

-----------------------------------------------------------------------------
(* Nothing disappears without a trace *)

\* Where process() may be once Claude was run on the entry in hand.
Told == {"save", "session", "reply", "mirror", "emitted", "finish"}

Heard(b, e) == <<b, e.from, e.mid>> \in heard
Noted(b, e) == <<b, e.from, e.mid>> \in ended

\* The messages whose log entry is theirs alone: only one body answers in their
\* conversation, or no process ever stops with another's entry half done.
Clean == \A w \in Budgets : w["crash"] = 0 /\ w["drop"] = 0
Sole(m) == OneAnswerer(m[1]) \/ Clean

\* Claude was run on what the later steps of process() work on, and what
\* process() is through with is parked, his own Wave, was put to Claude or noted.
Heeded(b) ==
    Sole(Cur(b).mid) =>
        /\ pc[b] \in Told => Heard(b, Cur(b))
        /\ pc[b] = "ack" => \/ Cur(b) \in Range(parked[b]) \/ OwnWave(b, Cur(b))
                            \/ Heard(b, Cur(b)) \/ Noted(b, Cur(b))

\* A result in the log is of a turn on the one message of b with that id ...
Recalled(b) ==
    \A m \in Mid : OneAnswerer(m[1]) =>
        /\ log[b][m] # "none" => \E e \in sent : e.mid = m /\ For(b, e)
        /\ \A e \in sent :
              /\ e.mid = m /\ For(b, e)
              /\ log[b][m] \in {"CLAUDE_DONE", "REPLY_EMITTED"}
              => Heard(b, e)
\* ... or of the turn that b is in the middle of.
InProgress(b) == \A m \in Mid : log[b][m] \in {"CLAUDE_DONE", "REPLY_EMITTED"} =>
                                   pc[b] \in Told /\ Cur(b).mid = m

TraceInv ==
    /\ \A b \in Body : Heeded(b) /\ Recalled(b)
    /\ Clean => NoFailure /\ \A b \in Body : InProgress(b)

\* How process() comes to the steps after Claude's turn, how it is through with
\* a message and what becomes of an endnote.
LEMMA Closings ==
    ASSUME HorizonInv, NEW b \in Body, Works(b)
    PROVE  /\ pc'[b] \in Told =>
                 \/ Turn(b) \/ pc[b] \in Told
                 \/ /\ pc[b] = "pause"
                    /\ log[b][Cur(b).mid] \in {"CLAUDE_DONE", "REPLY_EMITTED"}
           /\ pc'[b] = "ack" =>
                 \/ Cur(b) \in Range(parked'[b]) \/ OwnWave(b, Cur(b))
                 \/ pc[b] = "endnote" \/ pc[b] = "finish"
           /\ log'[b][Cur(b).mid] # "none" =>
                 \/ log[b][Cur(b).mid] # "none"
                 \/ ~OwnWave(b, Cur(b))
                 \/ pc[b] \in Busy \ {"check", "ack"}
           /\ pc[b] \in Told =>
                 \/ pc'[b] \in Told
                 \/ pc[b] = "finish" /\ log'[b][Cur(b).mid] = "ACKED"
           /\ pc[b] = "endnote" =>
                 ended' = ended \cup {<<b, Cur(b).from, Cur(b).mid>>}
           /\ Turn(b) => heard' = heard \cup {<<b, Cur(b).from, Cur(b).mid>>}
           /\ heard \subseteq heard' /\ ended \subseteq ended'
<1> DEFINE m == Cur(b).mid
<1>1. /\ m \in Mid /\ log[b][m] \in LogState /\ pc \in [Body -> Pc]
      /\ log \in [Body -> [Mid -> LogState]]
      /\ parked \in [Body -> Seq(Envelope)] /\ Cur(b) \in Envelope
  BY WorksFacts, CurTyped DEF HorizonInv, TypeOK
<1> USE DEF Goto
<1>2. CASE CheckKill(b)
  <2>1. pc'[b] \in {"ack", "endnote", "pause"}
        /\ (pc'[b] = "ack" => OwnWave(b, Cur(b)))
    BY <1>1, <1>2 DEF CheckKill
  <2>2. log' = log \/ ~OwnWave(b, Cur(b))
    BY <1>1, <1>2 DEF CheckKill
  <2>3. UNCHANGED <<heard, ended>> /\ pc[b] = "check" /\ ~Turn(b)
    BY <1>2 DEF CheckKill, Turn
  <2> QED
    BY <2>1, <2>2, <2>3 DEF Told
<1>3. CASE CheckPause(b)
  <2> DEFINE state == log[b][m]
             paused == conv[Cur(b).conv] = "paused"
             dies == ~paused /\ state = "none" /\ HorizonReached(Cur(b))
  <2>0. UNCHANGED <<heard, ended>> /\ pc[b] = "pause" /\ ~Turn(b)
    BY <1>3 DEF CheckPause, Turn
  <2>1. CASE paused
    <3>1. parked'[b] = Append(parked[b], Cur(b)) /\ log' = log /\ pc'[b] = "ack"
      BY <1>1, <1>3, <2>1 DEF CheckPause
    <3>2. Range(Append(parked[b], Cur(b))) = Range(parked[b]) \cup {Cur(b)}
      BY <1>1, RangeFacts
    <3> QED
      BY <2>0, <3>1, <3>2 DEF Told
  <2>2. CASE dies
    BY <1>1, <1>3, <2>0, <2>2 DEF CheckPause, Told, Busy, Guarded
  <2>3. CASE ~paused /\ ~dies
    <3>1. pc'[b] = (IF state = "none" THEN "count" ELSE Resume(state))
          /\ log' = log
      BY <1>1, <1>3, <2>3 DEF CheckPause
    <3>2. /\ Resume(state) \in Told => state \in {"CLAUDE_DONE", "REPLY_EMITTED"}
          /\ Resume(state) # "ack"
      BY <1>1 DEF Resume, LogState, Told
    <3> QED
      BY <2>0, <3>1, <3>2 DEF Told
  <2> QED
    BY <2>1, <2>2, <2>3
<1>4. CASE EndNote(b)
  BY <1>1, <1>4 DEF EndNote, Turn, Told
<1>5. CASE Count(b) \/ Limit(b) \/ Receive(b)
  <2>1. pc'[b] \in {"limit", "receive", "endnote", "turn"}
        /\ pc[b] \in {"count", "limit", "receive"} /\ UNCHANGED <<heard, ended>>
    BY <1>1, <1>5 DEF Count, Limit, Receive, logVars
  <2> QED
    BY <2>1 DEF Told, Turn, Busy, Guarded
<1>6. CASE Turn(b)
  BY <1>1, <1>6 DEF Turn, Told, Busy, Guarded
<1>7. CASE Save(b) \/ StoreSession(b) \/ Withhold(b) \/ HoldReply(b)
           \/ EmitReply(b) \/ MirrorReply(b) \/ MarkEmitted(b)
  <2>1. pc[b] \in Told \ {"finish"} /\ UNCHANGED <<heard, ended>>
    BY <1>7 DEF Save, StoreSession, Withhold, HoldReply, EmitReply, MirrorReply,
       MarkEmitted, Told, logVars
  <2>2. pc'[b] \in {"session", "reply", "mirror", "emitted", "finish"}
    BY <1>1, <1>7 DEF Save, StoreSession, Withhold, HoldReply, EmitReply,
       MirrorReply, MarkEmitted
  <2> QED
    BY <2>1, <2>2 DEF Turn, Told, Busy, Guarded
<1>8. CASE Finish(b)
  BY <1>1, <1>8 DEF Finish, Mark, Told, Turn, Busy, Guarded
<1> QED
  BY <1>2, <1>3, <1>4, <1>5, <1>6, <1>7, <1>8 DEF Works

\* The entry of process() is a message of b's, but at the check for own Waves.
LEMMA CurIsFor ==
    ASSUME HorizonInv, Flight, Foreign, NEW b \in Body,
           pc[b] \in Busy \ {"check", "ack"} \/ (pc[b] \in Busy /\ ~OwnWave(b, Cur(b)))
    PROVE  For(b, Cur(b))
<1>1. pc[b] \in Busy /\ ~OwnWave(b, Cur(b))
  BY DEF Foreign
<1>2. Cur(b).to = b \/ IsWave(Cur(b))
  BY <1>1, CurSent DEF Addressed
<1> QED
  BY <1>1, <1>2 DEF For, OwnWave

\* Nobody forgets what was heard or noted.
LEMMA HistoryGrows ==
    ASSUME HorizonInv, [Next]_vars
    PROVE  heard \subseteq heard' /\ ended \subseteq ended'
<1>1. ASSUME NEW b \in Body, Loops(b)
      PROVE  UNCHANGED <<heard, ended>>
  BY <1>1, LoopFacts DEF logVars, HorizonInv
<1>2. Outside => UNCHANGED <<heard, ended>>
  BY OutsideFacts DEF logVars
<1> QED
  BY <1>1, <1>2, Closings, NextCases

\* A body heeds the message in hand, whatever it resumes from.
LEMMA HeededWorks ==
    ASSUME HorizonInv, Flight, AnswerInv, TraceInv, NEW b \in Body, Works(b)
    PROVE  Heeded(b)'
<1> DEFINE p == Cur(b)
           m == Cur(b).mid
<1>1. p' = p /\ p \in sent /\ m \in Mid
  BY WorksFacts, CurStays, CurSent, CurTyped DEF Addressed
<1>2. ASSUME Sole(m), pc[b] = "pause",
             log[b][m] \in {"CLAUDE_DONE", "REPLY_EMITTED"}
      PROVE  Heard(b, p)
  <2>1. For(b, p)
    BY <1>2, CurIsFor DEF AnswerInv, Busy
  <2>2. CASE OneAnswerer(m[1])
    BY <1>1, <1>2, <2>1, <2>2 DEF TraceInv, Recalled
  <2>3. CASE Clean
    BY <1>1, <1>2, <2>3 DEF TraceInv, InProgress, Told
  <2> QED
    BY <1>2, <2>2, <2>3 DEF Sole
<1> SUFFICES ASSUME Sole(m)
             PROVE  /\ pc'[b] \in Told => Heard(b, p)'
                    /\ pc'[b] = "ack" =>
                          \/ p \in Range(parked'[b]) \/ OwnWave(b, p)
                          \/ Heard(b, p)' \/ Noted(b, p)'
  BY <1>1 DEF Heeded, OwnWave, Sole, OneAnswerer, IsWave, Clean
<1>3. pc[b] \in Told => Heard(b, p)
  BY DEF TraceInv, Heeded
<1>4. Heard(b, p) => Heard(b, p)'
  BY <1>1, Closings DEF Heard
<1>5. pc'[b] \in Told => Heard(b, p)'
  BY <1>1, <1>2, <1>3, <1>4, Closings DEF Heard
<1>6. pc'[b] = "ack" => \/ p \in Range(parked'[b]) \/ OwnWave(b, p)
                        \/ Heard(b, p)' \/ Noted(b, p)'
  <2>1. pc[b] = "endnote" => Noted(b, p)'
    BY <1>1, Closings DEF Noted
  <2>2. pc[b] = "finish" => Heard(b, p)'
    BY <1>3, <1>4 DEF Told
  <2> QED
    BY <2>1, <2>2, Closings
<1> QED
  BY <1>5, <1>6

LEMMA HeededStep ==
    ASSUME HorizonInv, Flight, AnswerInv, TraceInv, [Next]_vars
    PROVE  \A x \in Body : Heeded(x)'
<1>0. TypeOK /\ heard \subseteq heard' /\ ended \subseteq ended'
  BY HistoryGrows DEF HorizonInv
<1>1. ASSUME NEW x \in Body, pc'[x] = pc[x], Cur(x)' = Cur(x),
             parked'[x] = parked[x]
      PROVE  Heeded(x)'
  BY <1>0, <1>1 DEF TraceInv, Heeded, Heard, Noted, OwnWave, IsWave, Sole,
     OneAnswerer, Clean
<1>2. ASSUME NEW b \in Body, Works(b) \/ Loops(b), NEW x \in Body \ {b}
      PROVE  Heeded(x)'
  BY <1>0, <1>1, <1>2, OwnWrites, CurStays
<1>3. ASSUME NEW b \in Body, Loops(b)
      PROVE  Heeded(b)'
  BY <1>0, <1>3, LoopFacts DEF Heeded, Told, Busy, Guarded
<1>4. ASSUME Outside, NEW x \in Body
      PROVE  Heeded(x)'
  <2>1. UNCHANGED <<pc, batch, parked>>
    BY <1>4, OutsideFacts DEF pipeVars
  <2> QED
    BY <1>1, <2>1, CurStays
<1> QED
  BY <1>2, <1>3, <1>4, HeededWorks, NextCases

\* What a message of a conversation with one answerer leaves in the log of b is
\* its own: no other message of b has its id.
LEMMA OneOfB ==
    ASSUME HorizonInv, AnswerInv, NEW b \in Body, NEW e \in sent, NEW f \in sent,
           For(b, e), For(b, f), e.mid = f.mid, OneAnswerer(e.mid[1])
    PROVE  e = f
<1>1. e.to \notin Guest /\ f.to \notin Guest
  BY EnvelopeAssumption DEF For, IsWave, Id
<1> QED
  BY <1>1 DEF AnswerInv, OneLetter

LEMMA RecalledStep ==
    ASSUME HorizonInv, Flight, RouteInv, Written, AnswerInv, TraceInv,
           HorizonInv', AnswerInv', [Next]_vars, NEW x \in Body
    PROVE  Recalled(x)'
<1>0. /\ TypeOK /\ heard \subseteq heard' /\ sent \subseteq sent'
      /\ \A e \in sent' : e.mid \in Mid
  BY HistoryGrows, SentGrows, BoundedFacts DEF HorizonInv, Stored
<1>i. Recalled(x)
  BY DEF TraceInv
<1> SUFFICES ASSUME NEW m \in Mid, OneAnswerer(m[1]), log'[x][m] # "none"
             PROVE  /\ \E e \in sent' : e.mid = m /\ For(x, e)
                    /\ \A e \in sent' :
                          /\ e.mid = m /\ For(x, e)
                          /\ log'[x][m] \in {"CLAUDE_DONE", "REPLY_EMITTED"}
                          => Heard(x, e)'
  BY DEF Recalled, For, IsWave, Heard, OneAnswerer
<1>1. CASE log'[x][m] = log[x][m]
  <2>1. PICK f \in sent : f.mid = m /\ For(x, f)
    BY <1>i, <1>1 DEF Recalled
  <2>2. ASSUME NEW e \in sent', e.mid = m, For(x, e),
               log'[x][m] \in {"CLAUDE_DONE", "REPLY_EMITTED"}
        PROVE  Heard(x, e)'
    <3>1. e = f
      <4>1. e.to \notin Guest /\ f.to \notin Guest
        BY <2>1, <2>2, EnvelopeAssumption DEF For, IsWave, Id
      <4> QED
        BY <1>0, <2>1, <2>2, <4>1 DEF AnswerInv, OneLetter, OneAnswerer, IsWave
    <3> QED
      BY <1>i, <1>0, <1>1, <2>1, <2>2, <3>1 DEF Recalled, Heard
  <2> QED
    BY <1>0, <2>1, <2>2
<1>2. CASE log'[x][m] # log[x][m]
  <2>1. Works(x)
    <3>1. ASSUME NEW b \in Body, Works(b) \/ Loops(b), b # x
          PROVE  log'[x] = log[x]
      BY <1>0, <3>1, OwnWrites
    <3>2. ASSUME NEW b \in Body, Loops(b)
          PROVE  log' = log
      BY <1>0, <3>2, LoopFacts DEF logVars
    <3>3. Outside => log' = log
      BY OutsideFacts DEF logVars
    <3> QED
      BY <1>2, <3>1, <3>2, <3>3, NextCases
  <2>2. m = Cur(x).mid
    BY <1>2, <2>1, LogMove
  <2>3. Cur(x) \in sent /\ pc[x] \in Busy
    BY <2>1, WorksFacts, CurSent DEF Addressed
  <2>4. For(x, Cur(x))
    <3>1. CASE log[x][m] # "none"
      <4>1. Receive(x) \/ Save(x) \/ MarkEmitted(x) \/ log'[x][m] = "ACKED"
        BY <1>2, <2>1, <2>2, LogMove
      <4>2. pc[x] \in Busy \ {"check", "ack"} \/ ~OwnWave(x, Cur(x))
        <5>1. CASE CheckKill(x)
          BY <1>2, <5>1 DEF CheckKill
        <5>2. CASE ~CheckKill(x)
          BY <2>1, <5>2 DEF Works, CheckPause, Count, Limit, EndNote, Receive,
             Turn, Save, StoreSession, Withhold, HoldReply, EmitReply,
             MirrorReply, MarkEmitted, Finish, Busy, Guarded
        <5> QED
          BY <5>1, <5>2
      <4> QED
        BY <2>3, <4>2, CurIsFor DEF AnswerInv
    <3>2. CASE log[x][m] = "none"
      BY <2>1, <2>2, <2>3, <3>2, Closings, CurIsFor DEF AnswerInv
    <3> QED
      BY <3>1, <3>2
  <2>5. ASSUME NEW e \in sent', e.mid = m, For(x, e),
               log'[x][m] \in {"CLAUDE_DONE", "REPLY_EMITTED"}
        PROVE  Heard(x, e)'
    <3>1. e = Cur(x)
      <4>1. e.to \notin Guest /\ Cur(x).to \notin Guest
        BY <2>4, <2>5, EnvelopeAssumption DEF For, IsWave, Id
      <4> QED
        BY <1>0, <2>2, <2>3, <2>5, <4>1 DEF AnswerInv, OneLetter, OneAnswerer,
           IsWave
    <3>2. pc[x] \in Told
      <4>1. Save(x) \/ MarkEmitted(x)
        BY <1>2, <2>1, <2>2, <2>5, LogMove
      <4> QED
        BY <4>1 DEF Save, MarkEmitted, Told
    <3>3. Heard(x, e)
      BY <2>2, <3>1, <3>2 DEF TraceInv, Heeded, Sole
    <3> QED
      BY <1>0, <3>3 DEF Heard
  <2> QED
    BY <1>0, <2>2, <2>3, <2>4, <2>5
<1> QED
  BY <1>1, <1>2

\* The loop does not begin in the middle of process().
LEMMA LoopStarts ==
    ASSUME NEW b \in Body, Loops(b), ~Crash(b), ~Drop(b)
    PROVE  pc[b] \notin Busy \ {"ack"}
  BY DEF Loops, Start, Beat, Drain, Flush, FlushMirror, Unpark, Repost, Poll, Ack,
     Reconnect, ReconnectFails, Busy, Guarded

\* While nothing fails, a result in the log belongs to the turn in progress.
LEMMA InProgressStep ==
    ASSUME HorizonInv, NoFailure, [Next]_vars, NEW x \in Body, InProgress(x)
    PROVE  InProgress(x)'
<1>0. TypeOK
  BY DEF HorizonInv
<1>1. ASSUME NEW b \in Body, Works(b) \/ Loops(b), b # x
      PROVE  InProgress(x)'
  <2>1. pc'[x] = pc[x] /\ Cur(x)' = Cur(x) /\ log'[x] = log[x]
    BY <1>0, <1>1, OwnWrites, CurStays
  <2> QED
    BY <2>1 DEF InProgress
<1>2. CASE Works(x)
  <2> DEFINE m == Cur(x).mid
  <2>1. Cur(x)' = Cur(x)
    BY <1>2, WorksFacts, CurStays
  <2>2. /\ \A k \in Mid : k # m => log'[x][k] = log[x][k]
        /\ \/ log'[x][m] = log[x][m]
           \/ log'[x][m] = "ACKED"
           \/ Receive(x) /\ log'[x][m] = "RECEIVED"
           \/ Save(x) /\ log'[x][m] = "CLAUDE_DONE"
           \/ MarkEmitted(x) /\ log'[x][m] = "REPLY_EMITTED"
    BY <1>2, LogMove
  <2>3. /\ Save(x) => pc[x] \in Told
        /\ MarkEmitted(x) => pc[x] \in Told
    BY DEF Save, MarkEmitted, Told
  <2>4. pc[x] \in Told => pc'[x] \in Told \/ log'[x][m] = "ACKED"
    BY <1>2, Closings
  <2> HIDE DEF m
  <2>5. ASSUME NEW k \in Mid, log'[x][k] \in {"CLAUDE_DONE", "REPLY_EMITTED"}
        PROVE  pc'[x] \in Told /\ m = k
    BY <2>2, <2>3, <2>4, <2>5 DEF InProgress, m
  <2> QED
    BY <2>1, <2>5 DEF InProgress, m
<1>3. CASE Loops(x)
  <2>1. pc[x] \notin Told /\ log' = log
    BY <1>0, <1>3, LoopFacts, LoopStarts, NoFailureStep
    DEF Busy, Guarded, Told, logVars
  <2> QED
    BY <2>1 DEF InProgress
<1>4. CASE Outside
  <2>1. UNCHANGED <<pc, batch, log>>
    BY <1>4, OutsideFacts DEF pipeVars, logVars
  <2> QED
    BY <2>1, CurStays DEF InProgress
<1> QED
  BY <1>1, <1>2, <1>3, <1>4, NextCases

LEMMA TraceInvariant == Spec => []TraceInv
<1>1. Init => TraceInv
  <2> SUFFICES ASSUME Init PROVE TraceInv
    OBVIOUS
  <2>1. Clean => NoFailure
    BY DEF Init, NoFailure, Clean
  <2>2. ASSUME NEW x \in Body
        PROVE  Heeded(x) /\ Recalled(x) /\ InProgress(x)
    <3>1. sent = {} /\ pc[x] \in {"beat", "down"}
          /\ log[x] = [m \in Mid |-> "none"]
      BY DEF Init
    <3> QED
      BY <3>1 DEF Heeded, Recalled, InProgress, Told
  <2> QED
    BY <2>1, <2>2 DEF TraceInv
<1>2. ASSUME HorizonInv, Flight, RouteInv, Written, AnswerInv, TraceInv,
             HorizonInv', AnswerInv', [Next]_vars
      PROVE  TraceInv'
  <2>1. \A x \in Body : Heeded(x)' /\ Recalled(x)'
    BY <1>2, HeededStep, RecalledStep
  <2>2. Clean => NoFailure' /\ \A x \in Body : InProgress(x)'
    BY <1>2, NoFailureStep, InProgressStep DEF TraceInv
  <2> QED
    BY <2>1, <2>2 DEF TraceInv, Clean
<1> QED
  BY <1>1, <1>2, HorizonInvariant, FlightInvariant, RouteInvariant,
     WrittenInvariant, AnswerInvariant, PTL DEF Spec

\* A message that has left no trace, and how that can come about: it had been
\* popped from a hold or pause list when the process died or lost the bus.
Vanished(b, e) == ~(e \in InTransit(b) \/ Heard(b, e) \/ Noted(b, e))
VanishedOnlyPopped ==
    [][\A b \in Body : \A e \in sent' :
          Sole(e.mid) /\ For(b, e) /\ Vanished(b, e)' =>
             /\ e \in sent
             /\ \/ Vanished(b, e)
                \/ (Crash(b) \/ Drop(b)) /\ e \in Range(moving[b])]_vars

LEMMA VanishStep ==
    ASSUME HorizonInv, Flight, RouteInv, TraceInv, [Next]_vars,
           NEW b \in Body, NEW e \in sent', Sole(e.mid), For(b, e), Vanished(b, e)'
    PROVE  /\ e \in sent
           /\ \/ Vanished(b, e)
              \/ (Crash(b) \/ Drop(b)) /\ e \in Range(moving[b])
<1>1. e \in sent
  BY SentArrives DEF Vanished
<1>2. CASE Heard(b, e) \/ Noted(b, e)
  BY <1>2, HistoryGrows DEF Vanished, Heard, Noted
<1>3. CASE ~Heard(b, e) /\ ~Noted(b, e) /\ e \in InTransit(b)
  <2>1. ~(Ack(b) /\ e = Cur(b))
    <3> SUFFICES ASSUME Ack(b), e = Cur(b)
                 PROVE  FALSE
      OBVIOUS
    <3>1. pc[b] = "ack" /\ UNCHANGED parked
      BY DEF Ack, wireVars
    <3>2. ~OwnWave(b, e)
      BY EnvelopeAssumption DEF For, OwnWave, IsWave, Id
    <3>3. e \in Range(parked'[b])
      BY <1>3, <3>1, <3>2 DEF TraceInv, Heeded
    <3> QED
      BY <3>3, InTransitIff DEF Vanished
  <2> QED
    BY <1>1, <1>3, <2>1, FlowStep DEF Flows, Departures, Vanished
<1> QED
  BY <1>1, <1>2, <1>3 DEF Vanished

\* Whatever crashes, drops, lapses, pauses and kills there are, in a conversation
\* with one answerer (in any, if nothing fails) the only way for a message to
\* leave no trace is the one by which it is lost.
THEOREM OnlyPoppedVanishes == Spec => VanishedOnlyPopped
<1>1. ASSUME HorizonInv, Flight, RouteInv, TraceInv, [Next]_vars
      PROVE  [\A b \in Body : \A e \in sent' :
                Sole(e.mid) /\ For(b, e) /\ Vanished(b, e)' =>
                   /\ e \in sent
                   /\ \/ Vanished(b, e)
                      \/ (Crash(b) \/ Drop(b)) /\ e \in Range(moving[b])]_vars
  BY <1>1, VanishStep
<1> QED
  BY <1>1, HorizonInvariant, FlightInvariant, RouteInvariant, TraceInvariant,
     PTL DEF Spec, VanishedOnlyPopped

\* NothingVanishes, on the days on which nothing is lost (NothingIsLost): if no
\* Wave of a body solicits answers from several, also across any number of
\* crashes and drops; if nothing fails, whoever answers.
THEOREM EverythingIsTraced ==
    ASSUME Clean \/ \A r \in Root : OneAnswerer(r),
           \A w \in Budgets :
              \/ w["crash"] = 0 /\ w["drop"] = 0
              \/ Running = Body /\ w["lapse"] = 0 /\ w["operator"] = 0
    PROVE  Spec => []NothingVanishes
<1> DEFINE Sound == Sheltered /\ NothingVanishes
<1>1. Init => Sound
  <2> SUFFICES ASSUME Init PROVE Sound
    OBVIOUS
  <2>1. NothingVanishes
    BY DEF Init, NothingVanishes
  <2>2. CASE budget["crash"] = 0 /\ budget["drop"] = 0
    BY <2>1, <2>2 DEF Sheltered, NoFailure
  <2>3. CASE Running = Body /\ budget["lapse"] = 0 /\ budget["operator"] = 0
    BY <2>1, <2>3 DEF Sheltered, Unstranded, Init, Id
  <2> QED
    BY <2>2, <2>3 DEF Init
<1>2. ASSUME HorizonInv, Flight, RouteInv, TraceInv, Sound, HorizonInv',
             [Next]_vars
      PROVE  Sound'
  <2>1. Sheltered'
    BY <1>2, NoFailureStep, UnstrandedStep DEF Sheltered
  <2>2. ASSUME NEW b \in Body, NEW e \in sent', For(b, e), Vanished(b, e)'
        PROVE  FALSE
    <3>1. Sole(e.mid)
      <4>1. e.mid \in Mid
        BY <1>2, BoundedFacts DEF HorizonInv, Stored
      <4> QED
        BY <4>1 DEF Sole, Mid
    <3>2. ~((Crash(b) \/ Drop(b)) /\ e \in Range(moving[b]))
      <4>1. CASE NoFailure
        BY <1>2, <4>1, NoFailureStep
      <4>2. CASE Unstranded
        <5>1. moving[b] = <<>>
          BY <4>2 DEF Unstranded
        <5> QED
          BY <5>1, RangeOne
      <4> QED
        BY <1>2, <4>1, <4>2 DEF Sheltered
    <3>3. e \in sent /\ Vanished(b, e)
      BY <1>2, <2>2, <3>1, <3>2, VanishStep
    <3> QED
      BY <1>2, <2>2, <3>3 DEF NothingVanishes, Vanished, Heard, Noted
  <2>3. NothingVanishes'
    BY <2>2 DEF NothingVanishes, Vanished, For, IsWave, Heard, Noted
  <2> QED
    BY <2>1, <2>3
<1> QED
  BY <1>1, <1>2, HorizonInvariant, FlightInvariant, RouteInvariant,
     TraceInvariant, PTL DEF Spec

-----------------------------------------------------------------------------
(* One record per message *)

\* While nothing fails a reply leaves once: it has left only when its sender is
\* past the step that sends it, on the message it answers.
Left(t) ==
    \E m \in Mid :
        /\ t.mid = DeriveReplyId(m)
        /\ \/ log[t.from][m] \in {"REPLY_EMITTED", "ACKED"}
           \/ /\ pc[t.from] \in {"mirror", "emitted"}
              /\ Cur(t.from).mid = m
LeftOnce == \A t \in sent \ Origin : t.from \in Body /\ Left(t)

LEMMA Fresh ==
    ASSUME HorizonInv, Flight, Written, AnswerInv, RouteInv, LeftOnce,
           NEW b \in Body, HoldReply(b) \/ EmitReply(b)
    PROVE  \A t \in sent : t.from = b => t.mid # ReplyOf(b).mid
<1> DEFINE r == ReplyOf(b)
           m == Cur(b).mid
<1>1. /\ r.mid = DeriveReplyId(m) /\ m \in Mid
      /\ log[b][m] = "CLAUDE_DONE" /\ r.mid[2] > 0 /\ pc[b] = "reply"
  BY NewAnswer, ReplyRouted DEF AnswerInv, Answer, HoldReply, EmitReply
<1> HIDE DEF r, m
<1>2. ASSUME NEW t \in sent, t.from = b, t.mid = r.mid
      PROVE  FALSE
  <2>1. t \notin Origin
    BY <1>1, <1>2, EnvelopeAssumption
  <2>2. PICK k \in Mid : /\ t.mid = DeriveReplyId(k)
                         /\ \/ log[b][k] \in {"REPLY_EMITTED", "ACKED"}
                            \/ pc[b] \in {"mirror", "emitted"}
    BY <1>2, <2>1 DEF LeftOnce, Left
  <2>3. k = m
    BY <1>1, <1>2, <2>2, SameParent
  <2> QED
    BY <1>1, <2>2, <2>3
<1> QED
  BY <1>2 DEF r

LEMMA LeftOnceStep ==
    ASSUME HorizonInv, Flight, RouteInv, Written, AnswerInv, NoFailure, LeftOnce,
           [Next]_vars
    PROVE  LeftOnce'
<1>0. TypeOK
  BY DEF HorizonInv
<1> SUFFICES ASSUME NEW t \in sent' \ Origin
             PROVE  t.from \in Body /\ Left(t)'
  BY DEF LeftOnce
<1>1. CASE t \notin sent
  <2>1. PICK b \in Body : (HoldReply(b) \/ EmitReply(b)) /\ t = ReplyOf(b)
    BY <1>1, SentNew
  <2>2. Cur(b).mid \in Mid /\ t.from = b /\ t.mid = DeriveReplyId(Cur(b).mid)
    BY <2>1, NewAnswer DEF AnswerInv, Answer
  <2>3. pc'[b] \in {"mirror", "emitted"} /\ Cur(b)' = Cur(b)
    BY <1>0, <2>1, CurStays DEF TypeOK, HoldReply, EmitReply, Goto
  <2> QED
    BY <2>2, <2>3 DEF Left
<1>2. CASE t \in sent
  <2> DEFINE b == t.from
  <2>1. b \in Body
    BY <1>2 DEF LeftOnce
  <2>2. PICK m \in Mid :
           /\ t.mid = DeriveReplyId(m)
           /\ \/ log[b][m] \in {"REPLY_EMITTED", "ACKED"}
              \/ pc[b] \in {"mirror", "emitted"} /\ Cur(b).mid = m
    BY <1>2 DEF LeftOnce, Left
  <2> HIDE DEF b
  <2>3. \/ log'[b][m] \in {"REPLY_EMITTED", "ACKED"}
        \/ pc'[b] \in {"mirror", "emitted"} /\ Cur(b)'.mid = m
    <3>1. CASE Works(b)
      <4>1. Cur(b)' = Cur(b)
        BY <2>1, <3>1, WorksFacts, CurStays
      <4>2. /\ Receive(b) => log[b][Cur(b).mid] = "none"
            /\ Save(b) => log[b][Cur(b).mid] = "RECEIVED"
        BY <2>1 DEF Written, WrittenAt, Receive, Save
      <4>3. CASE log[b][m] \in {"REPLY_EMITTED", "ACKED"}
        BY <2>1, <3>1, <4>2, <4>3, LogMove
      <4>4. CASE pc[b] \in {"mirror", "emitted"} /\ Cur(b).mid = m
        <5>1. \/ pc[b] = "mirror" /\ MirrorReply(b)
              \/ pc[b] = "emitted" /\ MarkEmitted(b)
          BY <3>1, <4>4 DEF Works, CheckKill, CheckPause, Count, Limit, EndNote,
             Receive, Turn, Save, StoreSession, Withhold, HoldReply, EmitReply,
             MirrorReply, MarkEmitted, Finish
        <5>2. CASE MirrorReply(b)
          BY <1>0, <2>1, <4>1, <4>4, <5>2 DEF MirrorReply, Goto, TypeOK
        <5>3. CASE MarkEmitted(b)
          BY <1>0, <2>1, <4>4, <5>3 DEF MarkEmitted, Mark, TypeOK
        <5> QED
          BY <5>1, <5>2, <5>3
      <4> QED
        BY <2>2, <4>3, <4>4
    <3>2. CASE Loops(b)
      BY <1>0, <2>1, <2>2, <3>2, LoopFacts, LoopStarts, NoFailureStep
      DEF logVars, Busy, Guarded
    <3>3. ASSUME NEW x \in Body, Works(x) \/ Loops(x), x # b
          PROVE  log'[b] = log[b] /\ pc'[b] = pc[b] /\ Cur(b)' = Cur(b)
      BY <1>0, <2>1, <3>3, OwnWrites, CurStays
    <3>4. CASE Outside
      <4>1. UNCHANGED <<pc, batch, log>>
        BY <3>4, OutsideFacts DEF pipeVars, logVars
      <4> QED
        BY <2>2, <4>1 DEF Cur, Via
    <3> QED
      BY <2>2, <3>1, <3>2, <3>3, <3>4, NextCases
  <2> QED
    BY <2>1, <2>2, <2>3 DEF Left, b
<1> QED
  BY <1>1, <1>2

\* An envelope waits for its record while it is held or drained, and between the
\* XADD of a reply and its mirror.  What is being re-posted is recorded already.
Waiting(b) == IF pc[b] = "repost" THEN {} ELSE Range(moving[b])
Waits(e) == \/ \E i \in Id : e \in Range(hold[i])
            \/ \E b \in Body : e \in Waiting(b)
Pending(e) == Waits(e) \/ \E b \in Body : pc[b] = "mirror" /\ e = ReplyOf(b)
Key(e) == <<e.from, e.mid>>

\* A list never holds the same envelope twice.
Distinct(s) == \A i, j \in DOMAIN s : s[i] = s[j] => i = j
Apart(b) ==
    /\ Distinct(hold[b]) /\ Distinct(moving[b])
    /\ Waiting(b) \cap Range(hold[b]) = {}

Counted ==
    /\ \A e \in sent : mirrors[Key(e)] = IF Pending(e) THEN 0 ELSE 1
    /\ \A k \in Id \X Mid : mirrors[k] # 0 => \E e \in sent : Key(e) = k
RecordInv ==
    /\ Counted
    /\ sent \cap Origin \subseteq posted
    /\ \A e : Waits(e) => e \in sent
    /\ \A b \in Body : pc[b] = "mirror" =>
                          ReplyOf(b) \in sent /\ ~Waits(ReplyOf(b))
    /\ \A b \in Body : Apart(b)

LEMMA DistinctFacts ==
    ASSUME NEW S, NEW s \in Seq(S), Distinct(s)
    PROVE  /\ \A e \in S : e \notin Range(s) => Distinct(Append(s, e))
           /\ s # <<>> => Distinct(Tail(s)) /\ Head(s) \notin Range(Tail(s))
<1>0. Len(s) \in Nat /\ DOMAIN s = 1 .. Len(s)
  BY LenProperties
<1>1. ASSUME NEW e \in S, e \notin Range(s)
      PROVE  Distinct(Append(s, e))
  <2>1. /\ Append(s, e) \in Seq(S) /\ Len(Append(s, e)) = Len(s) + 1
        /\ \A i \in 1 .. Len(s) : Append(s, e)[i] = s[i]
        /\ Append(s, e)[Len(s) + 1] = e
    BY AppendProperties
  <2>2. DOMAIN Append(s, e) = 1 .. (Len(s) + 1)
    BY <2>1, LenProperties
  <2>3. \A i \in 1 .. Len(s) : s[i] # e
    BY <1>0, <1>1 DEF Range
  <2> SUFFICES ASSUME NEW i \in 1 .. (Len(s) + 1), NEW j \in 1 .. (Len(s) + 1),
                      Append(s, e)[i] = Append(s, e)[j]
               PROVE  i = j
    BY <2>2 DEF Distinct
  <2>4. CASE i \in 1 .. Len(s) /\ j \in 1 .. Len(s)
    BY <1>0, <2>1, <2>4 DEF Distinct
  <2>5. CASE i = Len(s) + 1 /\ j \in 1 .. Len(s)
    BY <2>1, <2>3, <2>5
  <2>6. CASE i \in 1 .. Len(s) /\ j = Len(s) + 1
    BY <2>1, <2>3, <2>6
  <2>7. CASE i = Len(s) + 1 /\ j = Len(s) + 1
    BY <2>7
  <2> QED
    BY <1>0, <2>4, <2>5, <2>6, <2>7
<1>2. ASSUME s # <<>>
      PROVE  Distinct(Tail(s)) /\ Head(s) \notin Range(Tail(s))
  <2>1. Len(s) > 0
    BY <1>0, <1>2, EmptySeq
  <2>2. /\ Tail(s) \in Seq(S) /\ Len(Tail(s)) = Len(s) - 1 /\ Head(s) = s[1]
        /\ \A i \in 1 .. Len(Tail(s)) : Tail(s)[i] = s[i + 1]
    BY <1>2, HeadTailProperties
  <2>3. DOMAIN Tail(s) = 1 .. (Len(s) - 1)
    BY <2>2, LenProperties
  <2>4. Distinct(Tail(s))
    <3> SUFFICES ASSUME NEW i \in 1 .. (Len(s) - 1), NEW j \in 1 .. (Len(s) - 1),
                        Tail(s)[i] = Tail(s)[j]
                 PROVE  i = j
      BY <2>3 DEF Distinct
    <3>1. s[i + 1] = s[j + 1] /\ i + 1 \in DOMAIN s /\ j + 1 \in DOMAIN s
      BY <1>0, <2>2
    <3>2. i + 1 = j + 1
      BY <3>1 DEF Distinct
    <3> QED
      BY <3>2
  <2>5. ASSUME NEW i \in 1 .. (Len(s) - 1)
        PROVE  Tail(s)[i] # Head(s)
    <3>1. Tail(s)[i] = s[i + 1] /\ i + 1 \in DOMAIN s /\ 1 \in DOMAIN s
      BY <1>0, <2>1, <2>2
    <3>2. s[i + 1] # s[1]
      BY <3>1 DEF Distinct
    <3> QED
      BY <2>2, <3>1, <3>2
  <2> QED
    BY <2>3, <2>4, <2>5 DEF Range
<1> QED
  BY <1>1, <1>2

\* Every sent envelope has a key of its own.
Keyed(S) == /\ \A e \in S : Key(e) \in Id \X Mid
            /\ \A e, f \in S : Key(e) = Key(f) => e = f

\* The four ways in which the records and what waits for one change together:
\* not at all, a new envelope that waits, a new one that is recorded at once, and
\* one that waited and is recorded.
LEMMA CountedStep ==
    ASSUME Counted, mirrors \in [Id \X Mid -> Nat], Keyed(sent'),
           \/ /\ UNCHANGED <<sent, mirrors>>
              /\ \A e : Pending(e)' <=> Pending(e)
           \/ \E n : /\ n \notin sent /\ sent' = sent \cup {n}
                     /\ UNCHANGED mirrors
                     /\ \A e : Pending(e)' <=> Pending(e) \/ e = n
           \/ \E n : /\ n \notin sent /\ sent' = sent \cup {n} /\ Record(n)
                     /\ \A e : Pending(e)' <=> Pending(e)
                     /\ ~Pending(n)
           \/ \E n \in sent : /\ Pending(n) /\ UNCHANGED sent /\ Record(n)
                              /\ \A e : Pending(e)' <=> Pending(e) /\ e # n
    PROVE  Counted'
<1> USE DEF Counted
<1>1. CASE UNCHANGED <<sent, mirrors>> /\ \A e : Pending(e)' <=> Pending(e)
  BY <1>1 DEF Key
<1>2. ASSUME NEW n, n \notin sent, sent' = sent \cup {n}, UNCHANGED mirrors,
             \A e : Pending(e)' <=> Pending(e) \/ e = n
      PROVE  Counted'
  <2>1. mirrors[Key(n)] = 0
    BY <1>2 DEF Keyed
  <2> QED
    BY <1>2, <2>1 DEF Key
<1>3. ASSUME NEW n, n \notin sent, sent' = sent \cup {n}, Record(n),
             \A e : Pending(e)' <=> Pending(e), ~Pending(n)
      PROVE  Counted'
  <2>1. mirrors[Key(n)] = 0 /\ Key(n) \in Id \X Mid
    BY <1>3 DEF Keyed
  <2>2. \A k \in Id \X Mid : mirrors'[k] = IF k = Key(n) THEN mirrors[k] + 1
                                                       ELSE mirrors[k]
    BY <1>3, <2>1 DEF Record, Key
  <2>3. \A e \in sent : Key(e) # Key(n) /\ Key(e) \in Id \X Mid
    BY <1>3 DEF Keyed
  <2>4. \A e \in sent' : mirrors'[Key(e)] = IF Pending(e) THEN 0 ELSE 1
    BY <1>3, <2>1, <2>2, <2>3
  <2>5. \A k \in Id \X Mid : mirrors'[k] # 0 => \E e \in sent' : Key(e) = k
    BY <1>3, <2>2
  <2> QED
    BY <1>3, <2>4, <2>5 DEF Key
<1>4. ASSUME NEW n \in sent, Pending(n), UNCHANGED sent, Record(n),
             \A e : Pending(e)' <=> Pending(e) /\ e # n
      PROVE  Counted'
  <2>1. mirrors[Key(n)] = 0 /\ Key(n) \in Id \X Mid
    BY <1>4 DEF Keyed
  <2>2. \A k \in Id \X Mid : mirrors'[k] = IF k = Key(n) THEN mirrors[k] + 1
                                                       ELSE mirrors[k]
    BY <1>4, <2>1 DEF Record, Key
  <2>3. \A e \in sent : Key(e) \in Id \X Mid /\ (Key(e) = Key(n) => e = n)
    BY <1>4 DEF Keyed
  <2>4. \A e \in sent :
           mirrors'[Key(e)] = IF Pending(e) /\ e # n THEN 0 ELSE 1
    BY <2>1, <2>2, <2>3
  <2>5. \A k \in Id \X Mid : mirrors'[k] # 0 => \E e \in sent : Key(e) = k
    BY <2>2
  <2> QED
    BY <1>4, <2>4, <2>5 DEF Key
<1> QED
  BY <1>1, <1>2, <1>3, <1>4

\* Most steps change nothing of what waits and what is recorded.
Quiet(b) == /\ pc'[b] = "mirror" <=> pc[b] = "mirror"
            /\ pc[b] = "mirror" => ReplyOf(b)' = ReplyOf(b)
            /\ Waiting(b)' = Waiting(b)
            /\ Distinct(moving'[b])

LEMMA RecordStill ==
    ASSUME RecordInv, mirrors \in [Id \X Mid -> Nat], Keyed(sent'),
           UNCHANGED <<hold, mirrors, sent, posted>>, \A x \in Body : Quiet(x)
    PROVE  RecordInv'
<1>1. \A e : Waits(e)' <=> Waits(e)
  BY DEF Waits, Quiet
<1>2. \A e : Pending(e)' <=> Pending(e)
  BY <1>1 DEF Pending, Quiet
<1>3. Counted'
  BY <1>2, CountedStep DEF RecordInv
<1>4. \A b \in Body : pc'[b] = "mirror" =>
                         ReplyOf(b)' \in sent' /\ ~Waits(ReplyOf(b))'
  <2> SUFFICES ASSUME NEW b \in Body, pc'[b] = "mirror"
               PROVE  ReplyOf(b)' \in sent' /\ ~Waits(ReplyOf(b))'
    OBVIOUS
  <2> DEFINE r == ReplyOf(b)
  <2>1. r' = r /\ r \in sent /\ ~Waits(r)
    BY DEF Quiet, RecordInv
  <2> HIDE DEF r
  <2>2. ~(Waits(r)')
    BY <2>1, <1>1 DEF Waits, Waiting
  <2> QED
    BY <2>1, <2>2 DEF r
<1>5. \A b \in Body : Apart(b)'
  BY DEF RecordInv, Apart, Quiet
<1>6. \A e : Waits(e)' => e \in sent'
  BY <1>1 DEF RecordInv
<1> QED
  BY <1>1, <1>3, <1>4, <1>5, <1>6 DEF RecordInv, Waits

\* Elsewhere nothing changes, whatever b does.
LEMMA QuietElsewhere ==
    ASSUME TypeOK, RecordInv, NEW b \in Body, Works(b) \/ Loops(b),
           NEW x \in Body \ {b}
    PROVE  Quiet(x)
<1>1. /\ pc'[x] = pc[x] /\ moving'[x] = moving[x] /\ ctrl'[x] = ctrl[x]
      /\ Cur(x)' = Cur(x)
  BY OwnWrites, CurStays
<1>2. ReplyOf(x)' = ReplyOf(x)
  BY <1>1 DEF ReplyOf, MakeReply, Recipient, IsWave, DeriveReplyId, NextHop
<1> QED
  BY <1>1, <1>2 DEF Quiet, Waiting, RecordInv, Apart

\* The steps of process() that neither send a reply nor record it.
LEMMA QuietWorks ==
    ASSUME HorizonInv, Flight, RecordInv, NEW b \in Body, Works(b),
           ~HoldReply(b), ~EmitReply(b), ~MirrorReply(b)
    PROVE  /\ \A x \in Body : Quiet(x)
           /\ UNCHANGED <<hold, mirrors, sent, posted>>
<1>1. UNCHANGED <<hold, mirrors, sent, posted>>
  BY DEF Works, CheckKill, CheckPause, Count, Limit, EndNote, Receive, Turn, Save,
     StoreSession, Withhold, MarkEmitted, Finish, wireVars
<1>2. pc[b] # "mirror"
  BY DEF Works, CheckKill, CheckPause, Count, Limit, EndNote, Receive, Turn, Save,
     StoreSession, Withhold, MarkEmitted, Finish
<1>3. pc'[b] # "mirror"
  <2>1. CASE Save(b) \/ Withhold(b)
    <3>1. pc \in [Body -> Pc]
      BY DEF HorizonInv, TypeOK
    <3> QED
      BY <2>1, <3>1 DEF Save, Withhold, Goto
  <2>2. CASE ~(Save(b) \/ Withhold(b))
    <3>1. pc[b] \notin {"save", "reply", "mirror"}
      BY <2>2 DEF Works, CheckKill, CheckPause, Count, Limit, EndNote, Receive,
         Turn, StoreSession, MarkEmitted, Finish
    <3> QED
      BY <3>1, Whence
  <2> QED
    BY <2>1, <2>2
<1>4. pc[b] \in Busy /\ pc'[b] \in Busy /\ moving'[b] = moving[b]
  BY WorksFacts DEF HorizonInv, TypeOK
<1>5. Quiet(b)
  BY <1>2, <1>3, <1>4 DEF Quiet, Waiting, RecordInv, Apart, Busy, Guarded
<1> QED
  BY <1>1, <1>5, QuietElsewhere DEF HorizonInv

LEMMA DistinctShort ==
    ASSUME NEW e
    PROVE  Distinct(<<>>) /\ Distinct(<<e>>)
  BY DEF Distinct

\* The steps of the loop that pop no held reply and record none.
LEMMA QuietLoops ==
    ASSUME HorizonInv, Flight, RecordInv, NoFailure, NEW b \in Body, Loops(b),
           [Next]_vars, ~Drain(b), ~FlushMirror(b)
    PROVE  /\ \A x \in Body : Quiet(x)
           /\ UNCHANGED <<hold, mirrors, sent, posted>>
<1>0. /\ pc \in [Body -> Pc] /\ moving \in [Body -> Seq(Envelope)]
      /\ ~Crash(b) /\ ~Drop(b)
  BY NoFailureStep DEF HorizonInv, TypeOK
<1>1. UNCHANGED <<hold, mirrors, sent, posted>>
  BY <1>0 DEF Loops, Start, Beat, Flush, Unpark, Repost, Poll, Ack, Reconnect,
     ReconnectFails, wireVars
<1>2. pc[b] # "mirror" /\ pc'[b] # "mirror"
  BY <1>0, LoopStarts, LoopFacts DEF HorizonInv, Busy, Guarded
<1>3. Waiting(b)' = Waiting(b) /\ Distinct(moving'[b])
  <2>1. CASE Unpark(b)
    <3>1. pc[b] = "unpark" /\ moving[b] = <<>>
      BY <2>1 DEF Unpark, Flight, FlightAt
    <3>2. \/ pc'[b] = "poll" /\ moving'[b] = <<>>
          \/ pc'[b] = "repost" /\ moving'[b] = <<Head(parked[b])>>
      BY <1>0, <2>1, <3>1 DEF Unpark, Goto
    <3> QED
      BY <3>1, <3>2, RangeOne, DistinctShort DEF Waiting
  <2>2. CASE Repost(b)
    <3>1. pc[b] = "repost" /\ pc'[b] = "unpark" /\ moving'[b] = <<>>
      BY <1>0, <2>2 DEF Repost, Goto
    <3> QED
      BY <3>1, RangeOne, DistinctShort DEF Waiting
  <2>3. CASE \/ Start(b) \/ Beat(b) \/ Flush(b) \/ Poll(b) \/ Ack(b)
             \/ Reconnect(b) \/ ReconnectFails(b)
    <3>1. moving'[b] = moving[b] /\ pc[b] # "repost"
      BY <2>3 DEF Start, Beat, Flush, Poll, Ack, Reconnect, ReconnectFails
    <3>2. pc'[b] # "repost"
      BY <1>0, <2>3 DEF Start, Beat, Flush, Poll, Ack, Proceed, Reconnect,
         ReconnectFails, Goto
    <3> QED
      BY <3>1, <3>2 DEF Waiting, RecordInv, Apart
  <2> QED
    BY <1>0, <2>1, <2>2, <2>3 DEF Loops
<1>4. Quiet(b)
  BY <1>2, <1>3 DEF Quiet
<1> QED
  BY <1>1, <1>4, QuietElsewhere DEF HorizonInv

\* A hold list pops into memory: what waited still waits.
LEMMA RecordDrain ==
    ASSUME HorizonInv, Flight, RecordInv, Keyed(sent'), NEW b \in Body, Drain(b)
    PROVE  RecordInv'
<1>0. /\ pc \in [Body -> Pc] /\ moving \in [Body -> Seq(Envelope)]
      /\ hold \in [Id -> Seq(Envelope)] /\ b \in Id
      /\ mirrors \in [Id \X Mid -> Nat] /\ TypeOK
  BY DEF HorizonInv, TypeOK, Id
<1>1. /\ UNCHANGED <<mirrors, sent, posted>> /\ pc[b] = "drain"
      /\ pc'[b] \in {"drain", "flush"}
      /\ \A x \in Body \ {b} : Quiet(x)
  BY <1>0, QuietElsewhere DEF Drain, Goto, Loops
<1>2. CASE hold[b] = <<>>
  <2>1. UNCHANGED <<hold, moving>>
    BY <1>2 DEF Drain
  <2>2. Quiet(b)
    BY <1>1, <2>1 DEF Quiet, Waiting, RecordInv, Apart
  <2> QED
    BY <1>0, <1>1, <2>1, <2>2, RecordStill
<1>3. CASE hold[b] # <<>>
  <2> DEFINE h == Head(hold[b])
  <2>1. /\ hold[b] \in Seq(Envelope) /\ moving[b] \in Seq(Envelope)
        /\ h \in Envelope
    BY <1>0, <1>3, SeqOps
  <2>2. /\ hold' = [hold EXCEPT ![b] = Tail(hold[b])]
        /\ moving' = [moving EXCEPT ![b] = Append(moving[b], h)]
        /\ pc'[b] = "drain"
    BY <1>1, <1>3 DEF Drain
  <2>3. /\ Range(hold[b]) = {h} \cup Range(Tail(hold[b]))
        /\ Range(Append(moving[b], h)) = Range(moving[b]) \cup {h}
    BY <1>3, <2>1, RangeFacts
  <2>4. /\ Distinct(Tail(hold[b])) /\ h \notin Range(Tail(hold[b]))
        /\ Distinct(moving[b])
        /\ Range(moving[b]) \cap Range(hold[b]) = {}
    BY <1>1, <1>3, <2>1, DistinctFacts DEF RecordInv, Apart, Waiting
  <2>5. Distinct(Append(moving[b], h))
    BY <2>1, <2>3, <2>4, DistinctFacts
  <2> HIDE DEF h
  <2>6. /\ hold'[b] = Tail(hold[b]) /\ moving'[b] = Append(moving[b], h)
        /\ \A i \in Id \ {b} : hold'[i] = hold[i]
    BY <1>0, <2>2
  <2>7. Waiting(b) = Range(moving[b]) /\ Waiting(b)' = Range(moving[b]) \cup {h}
    BY <1>1, <2>2, <2>3, <2>6 DEF Waiting
  <2>8. \A e : Waits(e)' <=> Waits(e)
    <3>1. ASSUME NEW e, Waits(e)
          PROVE  Waits(e)'
      BY <1>0, <1>1, <2>3, <2>6, <2>7, <3>1 DEF Waits, Quiet
    <3>2. ASSUME NEW e, Waits(e)'
          PROVE  Waits(e)
      BY <1>0, <1>1, <2>3, <2>6, <2>7, <3>2 DEF Waits, Quiet
    <3> QED
      BY <3>1, <3>2
  <2>9. Apart(b)' /\ \A x \in Body \ {b} : Apart(x)'
    <3>1. Apart(b)'
      BY <2>3, <2>4, <2>5, <2>6, <2>7 DEF Apart
    <3>2. ASSUME NEW x \in Body \ {b}
          PROVE  Apart(x)'
      BY <1>1, <2>6 DEF RecordInv, Apart, Quiet, Id
    <3> QED
      BY <3>1, <3>2
  <2>10. \A x \in Body : /\ pc'[x] = "mirror" <=> pc[x] = "mirror"
                         /\ pc[x] = "mirror" => ReplyOf(x)' = ReplyOf(x)
    BY <1>1 DEF Quiet
  <2>11. \A e : Pending(e)' <=> Pending(e)
    BY <2>8, <2>10 DEF Pending
  <2>12. Counted'
    BY <1>0, <1>1, <2>11, CountedStep DEF RecordInv
  <2>13. ASSUME NEW x \in Body, pc'[x] = "mirror"
         PROVE  ReplyOf(x)' \in sent' /\ ~Waits(ReplyOf(x))'
    <3> DEFINE r == ReplyOf(x)
    <3>1. r' = r /\ r \in sent /\ ~Waits(r)
      BY <2>10, <2>13 DEF RecordInv
    <3> HIDE DEF r
    <3>2. ~(Waits(r)')
      BY <2>8, <3>1 DEF Waits, Waiting
    <3> QED
      BY <1>1, <3>1, <3>2 DEF r
  <2> QED
    BY <1>1, <2>8, <2>9, <2>12, <2>13 DEF RecordInv, Waits
<1> QED
  BY <1>2, <1>3

\* The mirror of a flushed reply: it was waiting in one place only.
LEMMA RecordFlushed ==
    ASSUME HorizonInv, Flight, RecordInv, Keyed(sent'), NEW b \in Body,
           FlushMirror(b)
    PROVE  RecordInv'
<1> DEFINE h == Head(moving[b])
<1>0. /\ pc \in [Body -> Pc] /\ moving \in [Body -> Seq(Envelope)]
      /\ moving[b] # <<>> /\ b \in Id
      /\ mirrors \in [Id \X Mid -> Nat] /\ TypeOK
  BY DEF HorizonInv, TypeOK, Id, HandInv, FlushMirror
<1>1. /\ UNCHANGED <<hold, sent, posted>> /\ pc[b] = "mirrorheld"
      /\ pc'[b] = "flush" /\ moving'[b] = Tail(moving[b]) /\ Record(h)
      /\ \A x \in Body \ {b} : Quiet(x)
  BY <1>0, QuietElsewhere DEF FlushMirror, Goto, Loops
<1>2. /\ Range(moving[b]) = {h} \cup Range(Tail(moving[b]))
      /\ Distinct(Tail(moving[b])) /\ h \notin Range(Tail(moving[b]))
  <2>1. moving[b] \in Seq(Envelope) /\ Distinct(moving[b])
    BY <1>0 DEF RecordInv, Apart
  <2> QED
    BY <1>0, <2>1, RangeFacts, DistinctFacts
<1>3. /\ Waiting(b) = {h} \cup Waiting(b)' /\ h \notin Waiting(b)'
  BY <1>1, <1>2 DEF Waiting
<1>4. h.to = b
  BY <1>1, <1>2 DEF Flight, FlightAt
<1>5. \A i \in Id : h \notin Range(hold[i])
  BY <1>3, <1>4 DEF Flight, Held, RecordInv, Apart
<1>6. \A x \in Body \ {b} : h \notin Waiting(x)
  BY <1>4 DEF Flight, FlightAt, Waiting
<1>7. Waits(h) /\ h \in sent
  BY <1>3 DEF Waits, RecordInv
<1> HIDE DEF h
<1>8. \A e : Waits(e)' <=> Waits(e) /\ e # h
  <2>1. ASSUME NEW e, Waits(e)'
        PROVE  Waits(e) /\ e # h
    BY <1>1, <1>3, <1>5, <1>6, <2>1 DEF Waits, Quiet
  <2>2. ASSUME NEW e, Waits(e), e # h
        PROVE  Waits(e)'
    BY <1>1, <1>3, <2>2 DEF Waits, Quiet
  <2> QED
    BY <2>1, <2>2
<1>9. \A x \in Body : /\ pc'[x] = "mirror" <=> pc[x] = "mirror"
                      /\ pc[x] = "mirror" => /\ ReplyOf(x)' = ReplyOf(x)
                                             /\ ReplyOf(x) # h
  BY <1>1, <1>7 DEF Quiet, RecordInv
<1>10. \A e : Pending(e)' <=> Pending(e) /\ e # h
  BY <1>8, <1>9 DEF Pending
<1>11. Counted'
  BY <1>0, <1>1, <1>7, <1>10, CountedStep DEF RecordInv, Pending
<1>12. ASSUME NEW x \in Body, pc'[x] = "mirror"
       PROVE  ReplyOf(x)' \in sent' /\ ~Waits(ReplyOf(x))'
  <2> DEFINE r == ReplyOf(x)
  <2>1. r' = r /\ r \in sent /\ ~Waits(r)
    BY <1>9, <1>12 DEF RecordInv
  <2> HIDE DEF r
  <2>2. ~(Waits(r)')
    BY <1>8, <2>1 DEF Waits, Waiting
  <2> QED
    BY <1>1, <2>1, <2>2 DEF r
<1>13. ASSUME NEW x \in Body
       PROVE  Apart(x)'
  <2>1. CASE x = b
    BY <1>1, <1>2, <1>3, <2>1 DEF RecordInv, Apart
  <2>2. CASE x # b
    BY <1>1, <2>2 DEF RecordInv, Apart, Quiet
  <2> QED
    BY <2>1, <2>2
<1> QED
  BY <1>1, <1>8, <1>11, <1>12, <1>13 DEF RecordInv, Waits

\* A reply that is held waits for its record.
LEMMA RecordHeld ==
    ASSUME HorizonInv, Flight, RecordInv, Keyed(sent'), NEW b \in Body,
           HoldReply(b), ReplyOf(b) \notin sent, ReplyOf(b) \notin Origin
    PROVE  RecordInv'
<1> DEFINE n == ReplyOf(b)
<1>0. /\ pc \in [Body -> Pc] /\ hold \in [Id -> Seq(Envelope)] /\ Body \subseteq Id
      /\ mirrors \in [Id \X Mid -> Nat] /\ TypeOK
      /\ n \in Envelope /\ n.to \in Id
  BY ReplyTyped DEF HorizonInv, TypeOK, Id
<1>1. /\ UNCHANGED <<moving, mirrors, posted>> /\ pc[b] = "reply"
      /\ pc'[b] = "emitted" /\ sent' = sent \cup {n}
      /\ hold' = [hold EXCEPT ![n.to] = Append(hold[n.to], n)]
      /\ \A x \in Body \ {b} : Quiet(x)
  BY <1>0, QuietElsewhere DEF HoldReply, Goto, Works
<1>2. n \notin sent /\ n \notin Origin /\ ~Waits(n)
  BY DEF RecordInv
<1> HIDE DEF n
<1>3. /\ hold'[n.to] = Append(hold[n.to], n)
      /\ \A i \in Id \ {n.to} : hold'[i] = hold[i]
      /\ Range(Append(hold[n.to], n)) = Range(hold[n.to]) \cup {n}
  BY <1>0, <1>1, RangeFacts
<1>4. \A x \in Body : Waiting(x)' = Waiting(x) /\ Distinct(moving'[x])
  BY <1>1 DEF Waiting, Quiet, RecordInv, Apart
<1>5. \A e : Waits(e)' <=> Waits(e) \/ e = n
  <2> DEFINE j == n.to
             g == hold'
  <2>0. /\ j \in Id
        /\ \A i \in Id \ {j} : Range(g[i]) = Range(hold[i])
        /\ Range(g[j]) = Range(hold[j]) \cup {n}
    BY <1>0, <1>3
  <2> HIDE DEF j, g
  <2>1. ASSUME NEW e
        PROVE  (\E i \in Id : e \in Range(g[i]))
                  <=> (\E i \in Id : e \in Range(hold[i])) \/ e = n
    BY <2>0
  <2>2. ASSUME NEW e
        PROVE  (\E x \in Body : e \in Waiting(x)') <=> (\E x \in Body : e \in Waiting(x))
    BY <1>4
  <2> QED
    BY <2>1, <2>2 DEF Waits, g
<1>6. \A x \in Body : /\ pc'[x] = "mirror" <=> pc[x] = "mirror"
                      /\ pc[x] = "mirror" => ReplyOf(x)' = ReplyOf(x)
  BY <1>1 DEF Quiet
<1>7. \A e : Pending(e)' <=> Pending(e) \/ e = n
  BY <1>5, <1>6 DEF Pending
<1>8. Counted'
  BY <1>0, <1>1, <1>2, <1>7, CountedStep DEF RecordInv
<1>9. ASSUME NEW x \in Body, pc'[x] = "mirror"
      PROVE  ReplyOf(x)' \in sent' /\ ~Waits(ReplyOf(x))'
  <2> DEFINE r == ReplyOf(x)
  <2>1. r' = r /\ r \in sent /\ ~Waits(r)
    BY <1>6, <1>9 DEF RecordInv
  <2> HIDE DEF r
  <2>2. ~(Waits(r)')
    BY <1>2, <1>5, <2>1 DEF Waits, Waiting
  <2> QED
    BY <1>1, <2>1, <2>2 DEF r
<1>10. ASSUME NEW x \in Body
       PROVE  Apart(x)'
  <2>1. Waiting(x)' = Waiting(x) /\ Distinct(moving'[x])
    BY <1>4
  <2>2. CASE x = n.to
    <3>1. hold[x] \in Seq(Envelope) /\ n \notin Range(hold[x])
          /\ n \notin Waiting(x) /\ Distinct(hold[x])
          /\ Waiting(x) \cap Range(hold[x]) = {}
      BY <1>0, <1>2 DEF Waits, RecordInv, Apart
    <3>2. Distinct(Append(hold[x], n))
      BY <1>0, <3>1, DistinctFacts
    <3>3. Distinct(hold'[x]) /\ Range(hold'[x]) = Range(hold[x]) \cup {n}
      BY <1>3, <2>2, <3>2
    <3>4. Waiting(x)' \cap Range(hold'[x]) = {}
      BY <2>1, <3>1, <3>3
    <3> QED
      BY <2>1, <3>3, <3>4 DEF Apart
  <2>3. CASE x # n.to
    BY <1>0, <1>3, <2>1, <2>3 DEF RecordInv, Apart
  <2> QED
    BY <2>2, <2>3
<1> QED
  BY <1>1, <1>2, <1>5, <1>8, <1>9, <1>10 DEF RecordInv, Waits

\* A reply that is emitted waits for its mirror, and there is one at a time.
LEMMA RecordReply ==
    ASSUME HorizonInv, Flight, RecordInv, Keyed(sent'), NEW b \in Body,
           \/ MirrorReply(b)
           \/ /\ EmitReply(b) /\ ReplyOf(b) \notin sent
              /\ ReplyOf(b) \notin Origin
    PROVE  RecordInv'
<1> DEFINE n == ReplyOf(b)
<1>0. /\ pc \in [Body -> Pc] /\ mirrors \in [Id \X Mid -> Nat] /\ TypeOK
  BY DEF HorizonInv, TypeOK
<1>1. /\ UNCHANGED <<moving, hold, posted>> /\ n' = n
      /\ \A x \in Body \ {b} : Quiet(x)
  <2>1. UNCHANGED <<moving, hold, posted, batch, ctrl>>
    BY DEF MirrorReply, EmitReply
  <2>2. Cur(b)' = Cur(b)
    BY <2>1, CurStays
  <2>3. \A x \in Body \ {b} : Quiet(x)
    BY <1>0, QuietElsewhere DEF Works
  <2> QED
    BY <2>1, <2>2, <2>3 DEF ReplyOf, MakeReply, Recipient, IsWave,
       DeriveReplyId, NextHop
<1>2. pc[b] \in {"reply", "mirror"} /\ pc'[b] \in {"mirror", "emitted"}
  BY <1>0 DEF MirrorReply, EmitReply, Goto
<1>3. Waiting(b)' = Waiting(b)
  BY <1>1, <1>2 DEF Waiting
<1>4. \A e : Waits(e)' <=> Waits(e)
  BY <1>1, <1>3 DEF Waits, Quiet
<1>5. \A x \in Body : Apart(x)'
  BY <1>1, <1>3 DEF Apart, RecordInv, Quiet
<1>6. \A x \in Body : ReplyOf(x)' = ReplyOf(x) \/ (x # b /\ pc[x] # "mirror")
  BY <1>1 DEF Quiet
<1>7. \A x \in Body \ {b} : /\ pc'[x] = "mirror" <=> pc[x] = "mirror"
                            /\ ReplyOf(x) # n
  BY <1>1 DEF Quiet, ReplyOf, MakeReply
<1>8. CASE MirrorReply(b)
  <2>1. pc[b] = "mirror" /\ pc'[b] = "emitted" /\ UNCHANGED sent /\ Record(n)
    BY <1>0, <1>8 DEF MirrorReply, Goto
  <2>2. n \in sent /\ ~Waits(n) /\ Pending(n)
    BY <2>1 DEF RecordInv, Pending
  <2> HIDE DEF n
  <2>3. \A e : Pending(e)' <=> Pending(e) /\ e # n
    <3>1. ASSUME NEW e, Pending(e)'
          PROVE  Pending(e) /\ e # n
      BY <1>4, <1>6, <1>7, <2>1, <2>2, <3>1 DEF Pending
    <3>2. ASSUME NEW e, Pending(e), e # n
          PROVE  Pending(e)'
      BY <1>4, <1>6, <1>7, <2>1, <3>2 DEF Pending, n
    <3> QED
      BY <3>1, <3>2
  <2>4. Counted'
    BY <1>0, <2>1, <2>2, <2>3, CountedStep DEF RecordInv
  <2>5. ASSUME NEW x \in Body, pc'[x] = "mirror"
        PROVE  ReplyOf(x)' \in sent' /\ ~Waits(ReplyOf(x))'
    <3> DEFINE r == ReplyOf(x)
    <3>1. r' = r /\ r \in sent /\ ~Waits(r)
      BY <1>6, <1>7, <2>1, <2>5 DEF RecordInv
    <3> HIDE DEF r
    <3>2. ~(Waits(r)')
      BY <1>4, <3>1 DEF Waits, Waiting
    <3> QED
      BY <2>1, <3>1, <3>2 DEF r
  <2> QED
    BY <1>1, <1>4, <1>5, <2>1, <2>4, <2>5 DEF RecordInv, Waits
<1>9. CASE EmitReply(b) /\ n \notin sent /\ n \notin Origin
  <2>1. /\ pc[b] = "reply" /\ pc'[b] = "mirror" /\ sent' = sent \cup {n}
        /\ UNCHANGED mirrors
    BY <1>0, <1>9 DEF EmitReply, Goto
  <2>2. ~Waits(n) /\ n \notin sent /\ n \notin Origin
    BY <1>9 DEF RecordInv
  <2> HIDE DEF n
  <2>3. \A e : Pending(e)' <=> Pending(e) \/ e = n
    <3>1. ASSUME NEW e, Pending(e)'
          PROVE  Pending(e) \/ e = n
      BY <1>4, <1>6, <1>7, <2>1, <3>1 DEF Pending, n
    <3>2. ASSUME NEW e, Pending(e) \/ e = n
          PROVE  Pending(e)'
      BY <1>1, <1>4, <1>6, <1>7, <2>1, <3>2 DEF Pending, n
    <3> QED
      BY <3>1, <3>2
  <2>4. Counted'
    BY <1>0, <2>1, <2>2, <2>3, CountedStep DEF RecordInv
  <2>5. ASSUME NEW x \in Body, pc'[x] = "mirror"
        PROVE  ReplyOf(x)' \in sent' /\ ~Waits(ReplyOf(x))'
    <3> DEFINE r == ReplyOf(x)
    <3>1. r' = r /\ r \in sent' /\ ~Waits(r)
      BY <1>1, <1>6, <1>7, <2>1, <2>2, <2>5 DEF RecordInv, n
    <3> HIDE DEF r
    <3>2. ~(Waits(r)')
      BY <1>4, <3>1 DEF Waits, Waiting
    <3> QED
      BY <3>1, <3>2 DEF r
  <2> QED
    BY <1>1, <1>4, <1>5, <2>1, <2>2, <2>4, <2>5 DEF RecordInv, Waits
<1> QED
  BY <1>8, <1>9

\* What a sender posts is recorded at once.
LEMMA RecordPost ==
    ASSUME HorizonInv, RecordInv, Keyed(sent'), NEW o \in Origin, Post(o)
    PROVE  RecordInv'
<1>0. mirrors \in [Id \X Mid -> Nat]
  BY DEF HorizonInv, TypeOK
<1>1. /\ UNCHANGED <<hold, pc, moving, batch, ctrl>> /\ Record(o)
      /\ sent' = sent \cup {o} /\ posted' = posted \cup {o} /\ o \notin sent
  BY DEF Post, pipeVars, RecordInv
<1>2. \A e : Waits(e)' <=> Waits(e)
  BY <1>1 DEF Waits, Waiting
<1>3. \A x \in Body : ReplyOf(x)' = ReplyOf(x)
  BY <1>1 DEF ReplyOf, MakeReply, Recipient, IsWave, DeriveReplyId, NextHop, Cur,
     Via
<1>4. \A e : Pending(e)' <=> Pending(e)
  BY <1>1, <1>2, <1>3 DEF Pending
<1>5. ~Pending(o)
  BY <1>1 DEF RecordInv, Pending
<1>6. Counted'
  BY <1>0, <1>1, <1>4, <1>5, CountedStep DEF RecordInv
<1>7. ASSUME NEW x \in Body, pc'[x] = "mirror"
      PROVE  ReplyOf(x)' \in sent' /\ ~Waits(ReplyOf(x))'
  <2> DEFINE r == ReplyOf(x)
  <2>1. r' = r /\ r \in sent /\ ~Waits(r)
    BY <1>1, <1>3, <1>7 DEF RecordInv
  <2> HIDE DEF r
  <2>2. ~(Waits(r)')
    BY <1>2, <2>1 DEF Waits, Waiting
  <2> QED
    BY <1>1, <2>1, <2>2 DEF r
<1>8. \A x \in Body : Apart(x)'
  BY <1>1 DEF RecordInv, Apart, Waiting
<1> QED
  BY <1>1, <1>2, <1>6, <1>7, <1>8 DEF RecordInv, Waits

\* Whatever is sent is a reply its sender has not sent yet, or a sender's own.
LEMMA KeyedStep ==
    ASSUME HorizonInv, Flight, RouteInv, Written, AnswerInv, LeftOnce, Keyed(sent),
           HorizonInv', [Next]_vars
    PROVE  Keyed(sent')
<1>1. ASSUME NEW e \in sent'
      PROVE  Key(e) \in Id \X Mid
  <2>1. e \in Envelope /\ e.mid \in Mid
    BY BoundedFacts DEF HorizonInv, Stored
  <2> QED
    BY <2>1 DEF Key, Envelope
<1>2. ASSUME NEW e \in sent' \ sent, e \notin Origin
      PROVE  /\ e.mid[2] > 0
             /\ \E b \in Body : e = ReplyOf(b) /\ e.from = b
             /\ \A t \in sent : t.from = e.from => t.mid # e.mid
  <2>1. PICK b \in Body : (HoldReply(b) \/ EmitReply(b)) /\ e = ReplyOf(b)
    BY <1>2, SentNew
  <2>2. e.from = b /\ e.mid[2] > 0
    BY <2>1, NewAnswer, ReplyRouted DEF AnswerInv
  <2> QED
    BY <2>1, <2>2, Fresh
<1>3. ASSUME NEW e \in sent \ Origin
      PROVE  e.mid[2] > 0
  <2>1. PICK m \in Mid : e.mid = DeriveReplyId(m)
    BY <1>3 DEF LeftOnce, Left
  <2>2. m[2] \in Nat
    BY DEF Mid
  <2> QED
    BY <2>1, <2>2 DEF DeriveReplyId
<1>4. \A o \in Origin : o.mid[2] = 0
  BY EnvelopeAssumption
<1>5. ASSUME NEW e \in sent', NEW f \in sent', e.from = f.from, e.mid = f.mid
      PROVE  e = f
  <2>1. CASE e \in Origin \/ f \in Origin
    <3>1. e \in Origin /\ f \in Origin
      BY <1>2, <1>3, <1>4, <1>5, <2>1
    <3> QED
      BY <1>5, <3>1, EnvelopeAssumption
  <2>2. CASE e \in sent /\ f \in sent
    BY <1>5, <2>2 DEF Keyed, Key
  <2>3. CASE e \notin Origin /\ f \notin Origin /\ ~(e \in sent /\ f \in sent)
    BY <1>2, <1>5, <2>3
  <2> QED
    BY <2>1, <2>2, <2>3
<1> QED
  BY <1>1, <1>5 DEF Keyed, Key

LEMMA RecordStep ==
    ASSUME HorizonInv, Flight, RouteInv, Written, AnswerInv, NoFailure, LeftOnce,
           RecordInv, Keyed(sent'), [Next]_vars
    PROVE  RecordInv'
<1>0. mirrors \in [Id \X Mid -> Nat]
  BY DEF HorizonInv, TypeOK
<1>1. ASSUME NEW b \in Body, Works(b)
      PROVE  RecordInv'
  <2>1. CASE HoldReply(b) \/ EmitReply(b)
    <3>1. ReplyOf(b) \notin sent
      BY <2>1, Fresh, NewAnswer DEF AnswerInv
    <3>2. ReplyOf(b).mid[2] > 0
      BY <2>1, ReplyRouted
    <3>3. ReplyOf(b) \notin Origin
      BY <3>2, EnvelopeAssumption
    <3> QED
      BY <2>1, <3>1, <3>3, RecordHeld, RecordReply
  <2>2. CASE MirrorReply(b)
    BY <2>2, RecordReply
  <2>3. CASE ~HoldReply(b) /\ ~EmitReply(b) /\ ~MirrorReply(b)
    BY <1>0, <1>1, <2>3, QuietWorks, RecordStill
  <2> QED
    BY <2>1, <2>2, <2>3
<1>2. ASSUME NEW b \in Body, Loops(b)
      PROVE  RecordInv'
  <2>1. CASE Drain(b)
    BY <2>1, RecordDrain
  <2>2. CASE FlushMirror(b)
    BY <2>2, RecordFlushed
  <2>3. CASE ~Drain(b) /\ ~FlushMirror(b)
    BY <1>0, <1>2, <2>3, QuietLoops, RecordStill
  <2> QED
    BY <2>1, <2>2, <2>3
<1>3. CASE Outside
  <2>1. CASE \E o \in Origin : Post(o)
    BY <2>1, RecordPost
  <2>2. CASE ~\E o \in Origin : Post(o)
    <3>1. UNCHANGED <<mirrors, sent, posted>>
      BY <1>3, <2>2 DEF Outside, Lapse, SetControl, KillProject, NextWindow, vars,
         wireVars
    <3>2. UNCHANGED <<hold, pc, moving, batch, ctrl>>
      BY <1>3, OutsideFacts DEF pipeVars
    <3>3. ASSUME NEW x \in Body
          PROVE  Quiet(x)
      <4>1. ReplyOf(x)' = ReplyOf(x)
        BY <3>2 DEF ReplyOf, MakeReply, Recipient, IsWave, DeriveReplyId,
           NextHop, Cur, Via
      <4> QED
        BY <3>2, <4>1 DEF Quiet, Waiting, RecordInv, Apart
    <3> QED
      BY <1>0, <3>1, <3>2, <3>3, RecordStill
  <2> QED
    BY <2>1, <2>2
<1> QED
  BY <1>1, <1>2, <1>3, NextCases

LEMMA RecordInvariant ==
    ASSUME \A w \in Budgets : w["crash"] = 0 /\ w["drop"] = 0
    PROVE  Spec => [](NoFailure /\ LeftOnce /\ Keyed(sent) /\ RecordInv)
<1>1. Init => NoFailure /\ LeftOnce /\ Keyed(sent) /\ RecordInv
  <2> SUFFICES ASSUME Init PROVE NoFailure /\ LeftOnce /\ Keyed(sent) /\ RecordInv
    OBVIOUS
  <2>1. NoFailure
    BY DEF Init, NoFailure
  <2>2. sent = {} /\ LeftOnce /\ Keyed(sent)
    BY DEF Init, LeftOnce, Keyed
  <2>3. \A i \in Id : Range(hold[i]) = {} /\ Distinct(hold[i])
    BY DistinctShort, RangeOne DEF Init
  <2>4. \A b \in Body : /\ Range(moving[b]) = {} /\ Distinct(moving[b])
                        /\ pc[b] # "mirror" /\ Waiting(b) = {}
    BY DistinctShort, RangeOne DEF Init, Waiting
  <2>5. \A e : ~Waits(e)
    BY <2>3, <2>4 DEF Waits
  <2>6. Counted
    BY <2>2 DEF Counted, Init
  <2>7. \A b \in Body : Apart(b)
    BY <2>3, <2>4 DEF Apart, Id
  <2> QED
    BY <2>1, <2>2, <2>4, <2>5, <2>6, <2>7 DEF RecordInv
<1>2. ASSUME HorizonInv, Flight, RouteInv, Written, AnswerInv,
             NoFailure /\ LeftOnce /\ Keyed(sent) /\ RecordInv,
             HorizonInv', [Next]_vars
      PROVE  (NoFailure /\ LeftOnce /\ Keyed(sent) /\ RecordInv)'
  <2>1. Keyed(sent')
    BY <1>2, KeyedStep
  <2>2. Keyed(sent)'
    BY <2>1 DEF Keyed, Key
  <2> QED
    BY <1>2, <2>1, <2>2, NoFailureStep, LeftOnceStep, RecordStep
<1> QED
  BY <1>1, <1>2, HorizonInvariant, FlightInvariant, RouteInvariant,
     WrittenInvariant, AnswerInvariant, PTL DEF Spec

\* MirroredOnce, when nothing fails: emit, the flush of a hold list and the
\* re-delivery of what was parked record a message in aether:events once between
\* them, however often it is parked, held and moved.
THEOREM MirroredOnceQuietly ==
    ASSUME \A w \in Budgets : w["crash"] = 0 /\ w["drop"] = 0
    PROVE  Spec => []MirroredOnce
<1>1. ASSUME RecordInv
      PROVE  MirroredOnce
  <2> SUFFICES ASSUME NEW e \in sent
               PROVE  /\ mirrors[Key(e)] <= 1
                      /\ e \notin Unmirrored => mirrors[Key(e)] = 1
    BY DEF MirroredOnce, Key
  <2>1. mirrors[Key(e)] = IF Pending(e) THEN 0 ELSE 1
    BY <1>1 DEF RecordInv, Counted
  <2>2. ASSUME Pending(e)
        PROVE  e \in Unmirrored
    <3> DEFINE H == UNION {Range(hold[i]) : i \in Id}
               M == UNION {Range(moving[b]) : b \in Body}
               R == {ReplyOf(b) : b \in {x \in Body : pc[x] = "mirror"}}
    <3>1. ASSUME NEW i \in Id, e \in Range(hold[i])
          PROVE  e \in H
      BY <3>1
    <3>2. ASSUME NEW b \in Body, e \in Waiting(b)
          PROVE  e \in M
      <4>1. e \in Range(moving[b])
        BY <3>2 DEF Waiting
      <4> QED
        BY <4>1
    <3>3. ASSUME NEW b \in Body, pc[b] = "mirror", e = ReplyOf(b)
          PROVE  e \in R
      BY <3>3
    <3>4. Unmirrored = (H \cup M) \cup R
      BY DEF Unmirrored
    <3> HIDE DEF H, M, R
    <3>5. \/ \E i \in Id : e \in Range(hold[i])
          \/ \E b \in Body : e \in Waiting(b)
          \/ \E b \in Body : pc[b] = "mirror" /\ e = ReplyOf(b)
      BY <2>2 DEF Pending, Waits
    <3> QED
      BY <3>1, <3>2, <3>3, <3>4, <3>5
  <2> QED
    BY <2>1, <2>2
<1> QED
  BY <1>1, RecordInvariant, PTL

-----------------------------------------------------------------------------
(* Replies are determined, and the Outbox is implemented *)

\* ReplyDetermined.  A message has one answer, and it is sent again as it was
\* saved: as long as no Wave of a body solicits answers from several, whatever
\* fails; or as long as nothing fails, whoever answers.
THEOREM RepliesDetermined ==
    ASSUME \/ \A r \in Root : OneAnswerer(r)
           \/ \A w \in Budgets : w["crash"] = 0 /\ w["drop"] = 0
    PROVE  Spec => []ReplyDetermined
<1>1. CASE \A r \in Root : OneAnswerer(r)
  <2>1. ASSUME HorizonInv, OneReply
        PROVE  ReplyDetermined
    <3>1. \A e \in sent : e.mid[1] \in Root
      BY <2>1 DEF HorizonInv, TypeOK, Envelope
    <3> QED
      BY <1>1, <2>1, <3>1 DEF OneReply, ReplyDetermined
  <2> QED
    BY <2>1, HorizonInvariant, RepliedOnce, PTL
<1>2. CASE \A w \in Budgets : w["crash"] = 0 /\ w["drop"] = 0
  <2>1. Keyed(sent) => ReplyDetermined
    BY DEF Keyed, Key, ReplyDetermined
  <2>2. Spec => []Keyed(sent)
    BY <1>2, RecordInvariant, PTL
  <2> QED
    BY <2>1, <2>2, PTL
<1> QED
  BY <1>1, <1>2

\* KeepsPromise, under the same conditions: whatever crashes between two writes
\* of process(), the log passes its stages in order, Claude's result is fixed at
\* CLAUDE_DONE and one reply leaves, from there.
THEOREM PipelineKeepsPromise ==
    ASSUME \/ \A r \in Root : OneAnswerer(r)
           \/ \A w \in Budgets : w["crash"] = 0 /\ w["drop"] = 0
    PROVE  Spec => KeepsPromise
  BY PromiseInit, PromiseStep, HorizonInvariant, FlightInvariant,
     WrittenInvariant, AnswerInvariant, RepliesDetermined, PTL
     DEF Spec, KeepsPromise, Promise!Spec
=============================================================================
