----------------------------- MODULE TurnsProofs -----------------------------
(***************************************************************************)
(* Proofs about Turns: for any number of processes, messages, conversa-    *)
(* tions, retries and faults, turns of one conversation are serial, new    *)
(* and on its last session wherever its lock was respected.                *)
(***************************************************************************)
EXTENDS Turns, TLAPS, FiniteSetTheorems

\* Whoever is past the log has a message in hand.
HasMsg == \A p \in Proc : me[p].at \notin {"down", "next"} => me[p].msg \in Msg

\* A process in the pipeline has its conversation's lock, or it is torn.
HasLock ==
    \A p \in Proc :
        Inside(p) => \/ ConvAt(p) \in torn
                     \/ lock[ConvAt(p)] = p /\ me[p].locked

Base == TypeOK /\ HasMsg /\ HasLock

\* Past the first encounter a message is in the log.
Marked ==
    \A p \in Proc :
        Inside(p) \/ me[p].at = "lock" => log[me[p].msg] # "none"

\* The exceptions of the properties: torn, or set back.
Spoilt(m) == ConvOf[m] \in torn \/ m \in setback

\* After the turn a process holds what the log holds.
HoldsSaved ==
    \A p \in Proc :
        me[p].at \in {"store", "reply", "mark", "finish"} =>
            \/ Spoilt(me[p].msg)
            \/ /\ log[me[p].msg] \notin {"none", "RECEIVED"}
               /\ me[p].result = saved[me[p].msg]

\* What was sent is what is saved, and nothing was sent before it was saved.
SentIsSaved ==
    \A m \in Msg :
        \/ Spoilt(m)
        \/ /\ sent[m] \subseteq {saved[m]}
           /\ log[m] \in {"none", "RECEIVED"} => sent[m] = {}

\* The store has the last session, or a process is about to store it.
StoresLatest ==
    /\ \A c \in Conv :
           \/ c \in torn \cup cut \/ session[c] = latest[c]
           \/ \E p \in Proc : me[p].at = "store" /\ ConvAt(p) = c
    /\ \A p \in Proc :
           me[p].at = "store" => \/ ConvAt(p) \in torn \cup cut
                                \/ me[p].sid = latest[ConvAt(p)]

TurnsInv ==
    /\ Base /\ Marked /\ TurnIsNew /\ HoldsSaved /\ SentIsSaved
    /\ StoresLatest /\ ResumesLatest

-----------------------------------------------------------------------------
(* Types, and the lock *)

LEMMA GoesOn ==
    ASSUME me \in [Proc -> Locals], NEW p \in Proc, NEW at, Goto(p, at),
           at \in Working \cup {"down", "next", "receive", "lock", "ack"}
    PROVE  me' \in [Proc -> Locals]
<1>1. me' = [me EXCEPT ![p] = [me[p] EXCEPT !.at = at]]
  BY DEF Goto
<1>2. [me[p] EXCEPT !.at = at] \in Locals
  BY DEF Locals
<1> QED BY <1>1, <1>2

\* A step that takes its message along.
LEMMA KeepsMsg ==
    ASSUME TypeOK, HasMsg, NEW p \in Proc, NEW at, Goto(p, at),
           me[p].at \notin {"down", "next"},
           at \in Working \cup {"receive", "lock", "ack"}
    PROVE  me' \in [Proc -> Locals] /\ HasMsg'
<1>1. me \in [Proc -> Locals] /\ me[p].msg \in Msg
  BY DEF TypeOK, HasMsg
<1>2. me' \in [Proc -> Locals]
  BY <1>1, GoesOn
<1>3. me' = [me EXCEPT ![p].at = at]
  BY DEF Goto
<1>4. /\ me'[p].msg = me[p].msg /\ \A q \in Proc : q # p => me'[q] = me[q]
  BY <1>1, <1>3 DEF Locals
<1> QED BY <1>1, <1>2, <1>4 DEF HasMsg

LEMMA BaseInit == Init => Base
BY TurnsAssumption DEF Init, Base, TypeOK, HasMsg, HasLock, Locals, Local,
   Session, Stage, Inside, Working

\* What a step of p alone does to the locals, read one by one.
LEMMA CheckIs ==
    ASSUME TypeOK, HasMsg, NEW p \in Proc, Check(p)
    PROVE  /\ me[p].at = "check" /\ me[p].msg \in Msg
           /\ me' \in [Proc -> Locals]
           /\ \A q \in Proc : q # p => me'[q] = me[q]
           /\ me'[p].msg = me[p].msg /\ me'[p].locked = me[p].locked
           /\ \/ /\ Past(me[p].msg, "CLAUDE_DONE") /\ me'[p].at = "reply"
                 /\ me'[p].result = saved[me[p].msg]
              \/ /\ ~Past(me[p].msg, "CLAUDE_DONE") /\ me'[p].at = "run"
                 /\ me'[p].resume = session[ConvAt(p)]
           /\ UNCHANGED <<streamVars, hand, logVars, sessionVars, lockVars,
                          runs, setback, faults>>
<1>1. /\ me[p] \in Locals /\ me[p].msg \in Msg /\ ConvAt(p) \in Conv
      /\ saved[me[p].msg] \in Session /\ session[ConvAt(p)] \in Session
      /\ me \in [Proc -> Locals]
  BY TurnsAssumption DEF Check, At, TypeOK, HasMsg, ConvAt
<1>2. CASE Past(me[p].msg, "CLAUDE_DONE")
  <2> DEFINE l == [me[p] EXCEPT !.at = "reply", !.result = saved[me[p].msg]]
  <2>1. /\ l \in Locals /\ l.msg = me[p].msg /\ l.locked = me[p].locked
        /\ l.at = "reply" /\ l.result = saved[me[p].msg]
    BY <1>1 DEF Locals, Working
  <2>2. me' = [me EXCEPT ![p] = l]
    BY <1>2 DEF Check
  <2> HIDE DEF l
  <2>3. /\ me'[p] = l /\ me' \in [Proc -> Locals]
        /\ \A q \in Proc : q # p => me'[q] = me[q]
    BY <1>1, <2>1, <2>2
  <2> QED BY <1>1, <1>2, <2>1, <2>3 DEF Check, At
<1>3. CASE ~Past(me[p].msg, "CLAUDE_DONE")
  <2> DEFINE l == [me[p] EXCEPT !.at = "run", !.resume = session[ConvAt(p)]]
  <2>1. /\ l \in Locals /\ l.msg = me[p].msg /\ l.locked = me[p].locked
        /\ l.at = "run" /\ l.resume = session[ConvAt(p)]
    BY <1>1 DEF Locals, Working
  <2>2. me' = [me EXCEPT ![p] = l]
    BY <1>3 DEF Check, Resumed
  <2> HIDE DEF l
  <2>3. /\ me'[p] = l /\ me' \in [Proc -> Locals]
        /\ \A q \in Proc : q # p => me'[q] = me[q]
    BY <1>1, <2>1, <2>2
  <2> QED BY <1>1, <1>3, <2>1, <2>3 DEF Check, At
<1> QED BY <1>2, <1>3

LEMMA AnswerIs ==
    ASSUME TypeOK, HasMsg, NEW p \in Proc, Answer(p)
    PROVE  /\ me[p].at = "answer" /\ me[p].msg \in Msg
           /\ me' \in [Proc -> Locals]
           /\ \A q \in Proc : q # p => me'[q] = me[q]
           /\ me'[p].msg = me[p].msg /\ me'[p].locked = me[p].locked
           /\ \/ me'[p].at = "save"
              \/ me'[p].at = "run" /\ me'[p].tries > 0
           /\ ConvAt(p) \in Conv
           /\ UNCHANGED <<streamVars, hand, logVars, sessionVars, lockVars,
                          runs,
                          setback, faults>>
<1>1. /\ me[p] \in Locals /\ me[p].msg \in Msg /\ ConvAt(p) \in Conv
      /\ me \in [Proc -> Locals] /\ me[p].sid \in Session /\ 0 \in Session
      /\ me[p].tries \in Nat /\ Retries \in Nat
  BY TurnsAssumption DEF Answer, At, TypeOK, HasMsg, ConvAt, Locals, Session
<1>2. PICK l \in Locals :
          /\ me' = [me EXCEPT ![p] = l]
          /\ l.msg = me[p].msg /\ l.locked = me[p].locked
          /\ l.at = "save" \/ (l.at = "run" /\ l.tries > 0)
  <2>1. ASSUME NEW r \in Session,
               me' = [me EXCEPT ![p].at = "save", ![p].result = r]
        PROVE  \E l \in Locals :
                   /\ me' = [me EXCEPT ![p] = l]
                   /\ l.msg = me[p].msg /\ l.locked = me[p].locked
                   /\ l.at = "save" \/ (l.at = "run" /\ l.tries > 0)
    <3> DEFINE l == [me[p] EXCEPT !.at = "save", !.result = r]
    <3>1. /\ l \in Locals /\ l.msg = me[p].msg /\ l.locked = me[p].locked
          /\ l.at = "save"
      BY <1>1 DEF Locals, Working
    <3>2. me' = [me EXCEPT ![p] = l]
      BY <2>1
    <3> QED BY <3>1, <3>2
  <2>2. ASSUME me[p].tries < Retries,
               me' = [me EXCEPT ![p].at = "run", ![p].tries = @ + 1,
                                ![p].resume = me[p].sid]
        PROVE  \E l \in Locals :
                   /\ me' = [me EXCEPT ![p] = l]
                   /\ l.msg = me[p].msg /\ l.locked = me[p].locked
                   /\ l.at = "save" \/ (l.at = "run" /\ l.tries > 0)
    <3> DEFINE l == [me[p] EXCEPT !.at = "run", !.tries = @ + 1,
                                  !.resume = me[p].sid]
    <3>1. me[p].tries + 1 \in 0 .. Retries /\ me[p].tries + 1 > 0
      BY <1>1, <2>2
    <3>2. /\ l \in Locals /\ l.msg = me[p].msg /\ l.locked = me[p].locked
          /\ l.at = "run" /\ l.tries = me[p].tries + 1
      BY <1>1, <3>1 DEF Locals, Working
    <3>3. me' = [me EXCEPT ![p] = l]
      BY <2>2
    <3> QED BY <3>1, <3>2, <3>3
  <2> QED BY <1>1, <2>1, <2>2 DEF Answer
<1>3. /\ me'[p] = l /\ me' \in [Proc -> Locals]
      /\ \A q \in Proc : q # p => me'[q] = me[q]
  BY <1>1, <1>2
<1> QED BY <1>1, <1>2, <1>3 DEF Answer, At

LEMMA TypeStep ==
    ASSUME TypeOK, HasMsg, [Next]_vars
    PROVE  TypeOK' /\ HasMsg'
<1> USE TurnsAssumption DEF TypeOK, HasMsg, Locals, Working, Session, Stage, ConvAt, Inside, streamVars, logVars, sessionVars, lockVars
<1>1. ASSUME NEW p \in Proc, Start(p) PROVE TypeOK' /\ HasMsg'
  BY <1>1 DEF At, Start, Goto, Claimed
<1>2. ASSUME NEW p \in Proc, Poll(p) PROVE TypeOK' /\ HasMsg'
  <2>1. PICK m \in unread :
            LET batch == {k \in unread : k <= m} IN
            /\ hand' = [hand EXCEPT ![p] = batch]
            /\ pending' = pending \cup batch
            /\ unread' = unread \ batch
    BY <1>2 DEF Poll
  <2>2. {k \in unread : k <= m} \subseteq Msg
    OBVIOUS
  <2>3. unread' \subseteq Msg /\ pending' \subseteq Msg
        /\ hand' \in [Proc -> SUBSET Msg]
    BY <2>1, <2>2
  <2> QED BY <1>2, <2>3 DEF Poll
<1>3. ASSUME NEW p \in Proc, Take(p) PROVE TypeOK' /\ HasMsg'
  BY <1>3 DEF At, Take, Local
<1>4. ASSUME NEW p \in Proc, Ack(p) PROVE TypeOK' /\ HasMsg'
  <2>1. me' \in [Proc -> Locals]
    BY <1>4 DEF At, Ack, Local
  <2>2. HasMsg'
    BY <1>4 DEF At, Ack, Local
  <2>3. TypeOK'
    BY <1>4, <2>1 DEF At, Ack, Local
  <2> QED BY <2>2, <2>3
<1>5. ASSUME NEW p \in Proc, Receive(p) PROVE TypeOK' /\ HasMsg'
  <2>1. me[p].at = "receive" /\ Goto(p, "lock")
    BY <1>5 DEF At, Receive
  <2>2. me' \in [Proc -> Locals] /\ HasMsg'
    BY <2>1, KeepsMsg
  <2>3. log' \in [Msg -> Stage] /\ setback' \subseteq Msg
    BY <1>5 DEF At, Receive
  <2> QED BY <1>5, <2>2, <2>3 DEF Receive
<1>6. ASSUME NEW p \in Proc, Lock(p) PROVE TypeOK' /\ HasMsg'
  <2> DEFINE l == [me[p] EXCEPT !.at = "check", !.locked = TRUE]
  <2>a. me' = [me EXCEPT ![p] = l]
    BY <1>6 DEF Lock
  <2>b. me[p] \in Locals /\ TRUE \in BOOLEAN /\ "check" \in Working
    BY DEF TypeOK
  <2>c. l \in Locals
    BY <2>b DEF Locals
  <2>0. me' = [me EXCEPT ![p] = l] /\ l \in Locals
    BY <2>a, <2>c
  <2>1. me' \in [Proc -> Locals]
    BY <2>0
  <2>2. HasMsg'
    BY <1>6 DEF At, Lock, Available
  <2>3. TypeOK'
    BY <1>6, <2>1 DEF At, Lock, Available
  <2> QED BY <2>2, <2>3
<1>7. ASSUME NEW p \in Proc, Check(p) PROVE TypeOK' /\ HasMsg'
  BY <1>7, CheckIs
<1>8. ASSUME NEW p \in Proc, Talk(p) PROVE TypeOK' /\ HasMsg'
  <2> DEFINE l == [me[p] EXCEPT !.at = "answer", !.sid = runs + 1]
  <2>0. runs + 1 \in Session
    BY <1>8 DEF Talk
  <2>b. me' = [me EXCEPT ![p] = l]
    BY <1>8 DEF Talk
  <2>c. me[p] \in Locals /\ "answer" \in Working
    BY DEF TypeOK
  <2>d. l \in Locals
    BY <2>0, <2>c DEF Locals
  <2>a. me' = [me EXCEPT ![p] = l] /\ l \in Locals
    BY <2>b, <2>d
  <2>1. me' \in [Proc -> Locals]
    BY <2>a
  <2>2. HasMsg'
    BY <1>8 DEF At, Talk
  <2>3. TypeOK'
    BY <1>8, <2>1 DEF At, Talk
  <2> QED BY <2>2, <2>3
<1>9. ASSUME NEW p \in Proc, Answer(p) PROVE TypeOK' /\ HasMsg'
  BY <1>9, AnswerIs
<1>10. ASSUME NEW p \in Proc, Save(p) PROVE TypeOK' /\ HasMsg'
  BY <1>10 DEF At, Save, Goto
<1>11. ASSUME NEW p \in Proc, Store(p) PROVE TypeOK' /\ HasMsg'
  BY <1>11 DEF At, Store, Goto
<1>12. ASSUME NEW p \in Proc, Reply(p) PROVE TypeOK' /\ HasMsg'
  <2>1. me[p].at = "reply" /\ (Goto(p, "finish") \/ Goto(p, "mark"))
    BY <1>12 DEF At, Reply
  <2>2. me' \in [Proc -> Locals] /\ HasMsg'
    BY <2>1, KeepsMsg
  <2>3. sent' \in [Msg -> SUBSET Session]
    BY <1>12 DEF At, Reply
  <2> QED BY <1>12, <2>2, <2>3 DEF Reply
<1>13. ASSUME NEW p \in Proc, Mark(p) PROVE TypeOK' /\ HasMsg'
  <2>1. me[p].at = "mark" /\ Goto(p, "finish")
    BY <1>13 DEF At, Mark
  <2>2. me' \in [Proc -> Locals] /\ HasMsg'
    BY <2>1, KeepsMsg
  <2>3. log' \in [Msg -> Stage]
    BY <1>13 DEF At, Mark
  <2> QED BY <1>13, <2>2, <2>3 DEF Mark
<1>14. ASSUME NEW p \in Proc, Finish(p) PROVE TypeOK' /\ HasMsg'
  <2>1. me[p].at = "finish" /\ Goto(p, "ack")
    BY <1>14 DEF At, Finish
  <2>2. me' \in [Proc -> Locals] /\ HasMsg'
    BY <2>1, KeepsMsg
  <2>3. /\ log' \in [Msg -> Stage] /\ lock' \in [Conv -> Proc \cup {Free, Ghost}]
    BY <1>14 DEF At, Finish, Released, Owns
  <2> QED BY <1>14, <2>2, <2>3 DEF Finish
<1>15. ASSUME NEW p \in Proc, GiveUp(p) PROVE TypeOK' /\ HasMsg'
  BY <1>15 DEF At, GiveUp, Goto
<1>16. ASSUME NEW p \in Proc, Raise(p) PROVE TypeOK' /\ HasMsg'
  <2>1. me' \in [Proc -> Locals]
    BY <1>16 DEF At, Raise, Local, Released, Owns
  <2>2. HasMsg'
    BY <1>16 DEF At, Raise, Local, Released, Owns
  <2>a. me[p].msg \in Msg /\ ConvAt(p) \in Conv
    BY <1>16 DEF Raise, At
  <2>b. lock' \in [Conv -> Proc \cup {Free, Ghost}]
    BY <1>16, <2>a DEF Raise, Released
  <2>c. faults' \in Nat
    BY <1>16 DEF Raise
  <2>d. hand' \in [Proc -> SUBSET Msg]
    BY <1>16 DEF Raise
  <2>3. TypeOK'
    BY <1>16, <2>1, <2>b, <2>c, <2>d DEF Raise
  <2> QED BY <2>2, <2>3
<1>17. ASSUME NEW p \in Proc, Kill(p) PROVE TypeOK' /\ HasMsg'
  <2>1. me' \in [Proc -> Locals]
    BY <1>17 DEF At, Kill, Local
  <2>2. HasMsg'
    BY <1>17 DEF At, Kill, Local
  <2>a. lock' \in [Conv -> Proc \cup {Free, Ghost}]
    BY <1>17 DEF Kill
  <2>b. hand' \in [Proc -> SUBSET Msg]
    BY <1>17 DEF Kill
  <2>d. At(p, "store") => ConvAt(p) \in Conv
    BY DEF At
  <2>c. cut' \subseteq Conv /\ faults' \in Nat
    BY <1>17, <2>d DEF Kill
  <2>3. TypeOK'
    BY <1>17, <2>1, <2>a, <2>b, <2>c DEF Kill
  <2> QED BY <2>2, <2>3
<1>18. ASSUME NEW c \in Conv, Lapse(c) PROVE TypeOK' /\ HasMsg'
  BY <1>18 DEF Lapse
<1>19. ASSUME NEW c \in Conv, Expire(c) PROVE TypeOK' /\ HasMsg'
  <2>1. expired' \subseteq Session
    <3>1. session[c] \in Session
      OBVIOUS
    <3>2. expired' = expired \cup {session[c]}
      BY <1>19 DEF Expire
    <3> QED BY <3>1, <3>2
  <2>2. UNCHANGED <<streamVars, hand, me, logVars, lockVars, session, latest,
                    cut, runs, setback, faults>>
    BY <1>19 DEF Expire
  <2> QED BY <2>1, <2>2
<1>20. CASE UNCHANGED vars
  BY <1>20 DEF vars
<1> QED
  BY <1>1, <1>2, <1>3, <1>4, <1>5, <1>6, <1>7, <1>8, <1>9, <1>10, <1>11, <1>12, <1>13, <1>14, <1>15, <1>16, <1>17, <1>18, <1>19, <1>20 DEF Next, Step

LEMMA LockStep ==
    ASSUME Base, TypeOK', HasMsg', [Next]_vars
    PROVE  HasLock'
<1> USE TurnsAssumption DEF Base, TypeOK, HasMsg, HasLock, Locals, Working, ConvAt, Inside, streamVars, logVars, sessionVars, lockVars
<1>1. ASSUME NEW p \in Proc, Start(p) PROVE HasLock'
  BY <1>1 DEF At, Start, Goto, Claimed
<1>2. ASSUME NEW p \in Proc, Poll(p) PROVE HasLock'
  BY <1>2 DEF At, Poll
<1>3. ASSUME NEW p \in Proc, Take(p) PROVE HasLock'
  BY <1>3 DEF At, Take, Local
<1>4. ASSUME NEW p \in Proc, Ack(p) PROVE HasLock'
  BY <1>4 DEF At, Ack, Local
<1>5. ASSUME NEW p \in Proc, Receive(p) PROVE HasLock'
  BY <1>5 DEF At, Receive, Goto
<1>6. ASSUME NEW p \in Proc, Lock(p) PROVE HasLock'
  BY <1>6 DEF At, Lock, Available
<1>7. ASSUME NEW p \in Proc, Check(p) PROVE HasLock'
  BY <1>7, CheckIs DEF Past
<1>8. ASSUME NEW p \in Proc, Talk(p) PROVE HasLock'
  BY <1>8 DEF At, Talk
<1>9. ASSUME NEW p \in Proc, Answer(p) PROVE HasLock'
  BY <1>9, AnswerIs DEF At
<1>10. ASSUME NEW p \in Proc, Save(p) PROVE HasLock'
  BY <1>10 DEF At, Save, Goto
<1>11. ASSUME NEW p \in Proc, Store(p) PROVE HasLock'
  BY <1>11 DEF At, Store, Goto
<1>12. ASSUME NEW p \in Proc, Reply(p) PROVE HasLock'
  BY <1>12 DEF At, Reply, Past, Goto
<1>13. ASSUME NEW p \in Proc, Mark(p) PROVE HasLock'
  BY <1>13 DEF At, Mark, Goto
<1>14. ASSUME NEW p \in Proc, Finish(p) PROVE HasLock'
  BY <1>14 DEF At, Finish, Goto, Released, Owns
<1>15. ASSUME NEW p \in Proc, GiveUp(p) PROVE HasLock'
  BY <1>15 DEF At, GiveUp, Goto
<1>16. ASSUME NEW p \in Proc, Raise(p) PROVE HasLock'
  BY <1>16 DEF At, Raise, Local, Released, Owns
<1>17. ASSUME NEW p \in Proc, Kill(p) PROVE HasLock'
  <2>1. me'[p].at = "down" /\ \A q \in Proc : q # p => me'[q] = me[q]
    BY <1>17 DEF Kill, Local
  <2>2. /\ UNCHANGED torn
        /\ \A c \in Conv : lock[c] # p => lock'[c] = lock[c]
    BY <1>17 DEF Kill
  <2> SUFFICES ASSUME NEW q \in Proc, Inside(q)', ConvAt(q)' \notin torn
               PROVE  lock'[ConvAt(q)'] = q /\ me'[q].locked
    BY <2>2
  <2>3. q # p /\ Inside(q) /\ ConvAt(q)' = ConvAt(q)
    BY <2>1
  <2>4. lock[ConvAt(q)] = q /\ me[q].locked /\ ConvAt(q) \in Conv
    BY <2>2, <2>3
  <2> QED BY <2>1, <2>2, <2>3, <2>4
<1>18. ASSUME NEW c \in Conv, Lapse(c) PROVE HasLock'
  BY <1>18 DEF Lapse
<1>19. ASSUME NEW c \in Conv, Expire(c) PROVE HasLock'
  BY <1>19 DEF Expire
<1>20. CASE UNCHANGED vars
  BY <1>20 DEF vars
<1> QED
  BY <1>1, <1>2, <1>3, <1>4, <1>5, <1>6, <1>7, <1>8, <1>9, <1>10, <1>11, <1>12, <1>13, <1>14, <1>15, <1>16, <1>17, <1>18, <1>19, <1>20 DEF Next, Step

LEMMA LockIsSerial == Base => SerialTurns
BY TurnsAssumption DEF Base, HasLock, SerialTurns

-----------------------------------------------------------------------------
(* The log, the results and the sessions under the lock *)

LEMMA TurnsInit == Init => TurnsInv
BY BaseInit DEF Init, TurnsInv, Marked, TurnIsNew, HoldsSaved, SentIsSaved,
   StoresLatest, ResumesLatest, Inside, Local, Working, At

LEMMA MarkedStep ==
    ASSUME Base, Base', Marked, [Next]_vars
    PROVE  Marked'
<1> USE TurnsAssumption DEF Base, TypeOK, HasMsg, HasLock, Locals, Working,
      ConvAt, Inside, streamVars, logVars, sessionVars, lockVars, Marked
<1>1. ASSUME NEW p \in Proc, Start(p) PROVE Marked'
  BY <1>1 DEF At, Start, Goto, Claimed
<1>2. ASSUME NEW p \in Proc, Poll(p) PROVE Marked'
  BY <1>2 DEF At, Poll
<1>3. ASSUME NEW p \in Proc, Take(p) PROVE Marked'
  BY <1>3 DEF At, Take, Local
<1>4. ASSUME NEW p \in Proc, Ack(p) PROVE Marked'
  BY <1>4 DEF At, Ack, Local
<1>5. ASSUME NEW p \in Proc, Receive(p) PROVE Marked'
  BY <1>5 DEF At, Receive, Goto
<1>6. ASSUME NEW p \in Proc, Lock(p) PROVE Marked'
  BY <1>6 DEF At, Lock, Available
<1>7. ASSUME NEW p \in Proc, Check(p) PROVE Marked'
  BY <1>7, CheckIs DEF Past
<1>8. ASSUME NEW p \in Proc, Talk(p) PROVE Marked'
  BY <1>8 DEF At, Talk
<1>9. ASSUME NEW p \in Proc, Answer(p) PROVE Marked'
  BY <1>9, AnswerIs DEF At
<1>10. ASSUME NEW p \in Proc, Save(p) PROVE Marked'
  BY <1>10 DEF At, Save, Goto
<1>11. ASSUME NEW p \in Proc, Store(p) PROVE Marked'
  BY <1>11 DEF At, Store, Goto
<1>12. ASSUME NEW p \in Proc, Reply(p) PROVE Marked'
  <2>1. CASE Past(me[p].msg, "REPLY_EMITTED")
    <3>1. Goto(p, "finish") /\ UNCHANGED sent
      BY <1>12, <2>1 DEF Reply
    <3> QED BY <1>12, <2>1, <3>1 DEF At, Reply, Past, Goto
  <2>2. CASE ~Past(me[p].msg, "REPLY_EMITTED")
    <3>1. Goto(p, "mark")
      BY <1>12, <2>2 DEF Reply
    <3> QED BY <1>12, <2>2, <3>1 DEF At, Reply, Goto
  <2> QED BY <2>1, <2>2
<1>13. ASSUME NEW p \in Proc, Mark(p) PROVE Marked'
  BY <1>13 DEF At, Mark, Goto
<1>14. ASSUME NEW p \in Proc, Finish(p) PROVE Marked'
  BY <1>14 DEF At, Finish, Goto, Released, Owns
<1>15. ASSUME NEW p \in Proc, GiveUp(p) PROVE Marked'
  BY <1>15 DEF At, GiveUp, Goto
<1>16. ASSUME NEW p \in Proc, Raise(p) PROVE Marked'
  BY <1>16 DEF At, Raise, Local, Released, Owns
<1>17. ASSUME NEW p \in Proc, Kill(p) PROVE Marked'
  BY <1>17 DEF At, Kill, Local
<1>18. ASSUME NEW c \in Conv, Lapse(c) PROVE Marked'
  BY <1>18 DEF Lapse
<1>19. ASSUME NEW c \in Conv, Expire(c) PROVE Marked'
  BY <1>19 DEF Expire
<1>20. CASE UNCHANGED vars
  BY <1>20 DEF vars
<1> QED BY <1>1, <1>2, <1>3, <1>4, <1>5, <1>6, <1>7, <1>8, <1>9, <1>10, <1>11,
      <1>12, <1>13, <1>14, <1>15, <1>16, <1>17, <1>18, <1>19, <1>20 DEF Next,
      Step

\* The log is read again under the lock, and the turn is what it lacks.
LEMMA NewAtCheck ==
    ASSUME TypeOK, HasMsg, Marked, TurnIsNew, NEW p \in Proc, Check(p)
    PROVE  TurnIsNew'
<1>1. /\ me[p].at = "check" /\ me[p].msg \in Msg
      /\ me'[p].msg = me[p].msg /\ \A q \in Proc : q # p => me'[q] = me[q]
      /\ UNCHANGED <<log, torn, setback>>
  BY CheckIs DEF logVars, lockVars
<1>2. me'[p].at = "reply" \/ (me'[p].at = "run" /\ log[me[p].msg] = "RECEIVED")
  <2>1. CASE Past(me[p].msg, "CLAUDE_DONE")
    BY <2>1, CheckIs
  <2>2. CASE ~Past(me[p].msg, "CLAUDE_DONE")
    <3>1. log[me[p].msg] \in Stage /\ log[me[p].msg] # "none"
      BY <1>1 DEF TypeOK, Marked, Inside, Working
    <3> QED BY <2>2, <3>1, CheckIs DEF Past, Stage
  <2> QED BY <2>1, <2>2
<1> QED BY <1>1, <1>2 DEF TurnIsNew, ConvAt

LEMMA NewStep ==
    ASSUME Base, Base', Marked, TurnIsNew, SerialTurns, [Next]_vars
    PROVE  TurnIsNew'
<1> USE TurnsAssumption DEF Base, TypeOK, HasMsg, HasLock, Locals, Working,
      ConvAt, Inside, streamVars, logVars, sessionVars, lockVars, Marked,
      TurnIsNew, SerialTurns
<1>1. ASSUME NEW p \in Proc, Start(p) PROVE TurnIsNew'
  BY <1>1 DEF At, Start, Goto, Claimed
<1>2. ASSUME NEW p \in Proc, Poll(p) PROVE TurnIsNew'
  BY <1>2 DEF At, Poll
<1>3. ASSUME NEW p \in Proc, Take(p) PROVE TurnIsNew'
  BY <1>3 DEF At, Take, Local
<1>4. ASSUME NEW p \in Proc, Ack(p) PROVE TurnIsNew'
  BY <1>4 DEF At, Ack, Local
<1>5. ASSUME NEW p \in Proc, Receive(p) PROVE TurnIsNew'
  BY <1>5 DEF At, Receive, Goto
<1>6. ASSUME NEW p \in Proc, Lock(p) PROVE TurnIsNew'
  BY <1>6 DEF At, Lock, Available
<1>7. ASSUME NEW p \in Proc, Check(p) PROVE TurnIsNew'
  BY <1>7, NewAtCheck
<1>8. ASSUME NEW p \in Proc, Talk(p) PROVE TurnIsNew'
  BY <1>8 DEF At, Talk
<1>9. ASSUME NEW p \in Proc, Answer(p) PROVE TurnIsNew'
  <2>1. /\ me[p].at = "answer" /\ me'[p].msg = me[p].msg
        /\ \A q \in Proc : q # p => me'[q] = me[q]
        /\ UNCHANGED <<log, torn, setback>>
    BY <1>9, AnswerIs
  <2> QED BY <2>1
<1>10. ASSUME NEW p \in Proc, Save(p) PROVE TurnIsNew'
  BY <1>10 DEF At, Save, Goto
<1>11. ASSUME NEW p \in Proc, Store(p) PROVE TurnIsNew'
  BY <1>11 DEF At, Store, Goto
<1>12. ASSUME NEW p \in Proc, Reply(p) PROVE TurnIsNew'
  BY <1>12 DEF At, Reply, Past, Goto
<1>13. ASSUME NEW p \in Proc, Mark(p) PROVE TurnIsNew'
  BY <1>13 DEF At, Mark, Goto
<1>14. ASSUME NEW p \in Proc, Finish(p) PROVE TurnIsNew'
  BY <1>14 DEF At, Finish, Goto, Released, Owns
<1>15. ASSUME NEW p \in Proc, GiveUp(p) PROVE TurnIsNew'
  BY <1>15 DEF At, GiveUp, Goto
<1>16. ASSUME NEW p \in Proc, Raise(p) PROVE TurnIsNew'
  BY <1>16 DEF At, Raise, Local, Released, Owns
<1>17. ASSUME NEW p \in Proc, Kill(p) PROVE TurnIsNew'
  BY <1>17 DEF At, Kill, Local
<1>18. ASSUME NEW c \in Conv, Lapse(c) PROVE TurnIsNew'
  BY <1>18 DEF Lapse
<1>19. ASSUME NEW c \in Conv, Expire(c) PROVE TurnIsNew'
  BY <1>19 DEF Expire
<1>20. CASE UNCHANGED vars
  BY <1>20 DEF vars
<1> QED BY <1>1, <1>2, <1>3, <1>4, <1>5, <1>6, <1>7, <1>8, <1>9, <1>10, <1>11,
      <1>12, <1>13, <1>14, <1>15, <1>16, <1>17, <1>18, <1>19, <1>20 DEF Next,
      Step

LEMMA HoldsStep ==
    ASSUME Base, Base', TurnIsNew, HoldsSaved, SerialTurns, [Next]_vars
    PROVE  HoldsSaved'
<1> USE TurnsAssumption DEF Base, TypeOK, HasMsg, HasLock, Locals, Working,
      ConvAt, Inside, streamVars, logVars, sessionVars, lockVars, TurnIsNew,
      HoldsSaved, SerialTurns, Spoilt
<1>1. ASSUME NEW p \in Proc, Start(p) PROVE HoldsSaved'
  BY <1>1 DEF At, Start, Goto, Claimed
<1>2. ASSUME NEW p \in Proc, Poll(p) PROVE HoldsSaved'
  BY <1>2 DEF At, Poll
<1>3. ASSUME NEW p \in Proc, Take(p) PROVE HoldsSaved'
  BY <1>3 DEF At, Take, Local
<1>4. ASSUME NEW p \in Proc, Ack(p) PROVE HoldsSaved'
  BY <1>4 DEF At, Ack, Local
<1>5. ASSUME NEW p \in Proc, Receive(p) PROVE HoldsSaved'
  BY <1>5 DEF At, Receive, Goto
<1>6. ASSUME NEW p \in Proc, Lock(p) PROVE HoldsSaved'
  BY <1>6 DEF At, Lock, Available
<1>7. ASSUME NEW p \in Proc, Check(p) PROVE HoldsSaved'
  <2>1. CASE Past(me[p].msg, "CLAUDE_DONE")
    <3>1. me' = [me EXCEPT ![p].at = "reply", ![p].result = saved[me[p].msg]]
      BY <1>7, <2>1 DEF Check
    <3>a. me[p] \in Locals /\ me \in [Proc -> Locals]
      OBVIOUS
    <3>2. me'[p].msg = me[p].msg /\ me'[p].result = saved[me[p].msg]
      BY <3>1, <3>a
    <3>3. log[me[p].msg] \notin {"none", "RECEIVED"}
      BY <2>1 DEF Past
    <3>4. UNCHANGED <<logVars, torn, setback>>
      BY <1>7 DEF Check
    <3>5. \A q \in Proc : q # p => me'[q] = me[q]
      BY <3>1
    <3> QED BY <3>2, <3>3, <3>4, <3>5
  <2>2. CASE ~Past(me[p].msg, "CLAUDE_DONE")
    BY <1>7, <2>2 DEF Check
  <2> QED BY <2>1, <2>2
<1>8. ASSUME NEW p \in Proc, Talk(p) PROVE HoldsSaved'
  BY <1>8 DEF At, Talk
<1>9. ASSUME NEW p \in Proc, Answer(p) PROVE HoldsSaved'
  BY <1>9, AnswerIs DEF At
<1>10. ASSUME NEW p \in Proc, Save(p) PROVE HoldsSaved'
  BY <1>10 DEF At, Save, Goto
<1>11. ASSUME NEW p \in Proc, Store(p) PROVE HoldsSaved'
  BY <1>11 DEF At, Store, Goto
<1>12. ASSUME NEW p \in Proc, Reply(p) PROVE HoldsSaved'
  <2>1. CASE Past(me[p].msg, "REPLY_EMITTED")
    <3>1. Goto(p, "finish") /\ UNCHANGED sent
      BY <1>12, <2>1 DEF Reply
    <3> QED BY <1>12, <2>1, <3>1 DEF At, Reply, Past, Goto
  <2>2. CASE ~Past(me[p].msg, "REPLY_EMITTED")
    <3>1. Goto(p, "mark")
      BY <1>12, <2>2 DEF Reply
    <3> QED BY <1>12, <2>2, <3>1 DEF At, Reply, Goto
  <2> QED BY <2>1, <2>2
<1>13. ASSUME NEW p \in Proc, Mark(p) PROVE HoldsSaved'
  BY <1>13 DEF At, Mark, Goto
<1>14. ASSUME NEW p \in Proc, Finish(p) PROVE HoldsSaved'
  BY <1>14 DEF At, Finish, Goto, Released, Owns
<1>15. ASSUME NEW p \in Proc, GiveUp(p) PROVE HoldsSaved'
  BY <1>15 DEF At, GiveUp, Goto
<1>16. ASSUME NEW p \in Proc, Raise(p) PROVE HoldsSaved'
  BY <1>16 DEF At, Raise, Local, Released, Owns
<1>17. ASSUME NEW p \in Proc, Kill(p) PROVE HoldsSaved'
  BY <1>17 DEF At, Kill, Local
<1>18. ASSUME NEW c \in Conv, Lapse(c) PROVE HoldsSaved'
  BY <1>18 DEF Lapse
<1>19. ASSUME NEW c \in Conv, Expire(c) PROVE HoldsSaved'
  BY <1>19 DEF Expire
<1>20. CASE UNCHANGED vars
  BY <1>20 DEF vars
<1> QED BY <1>1, <1>2, <1>3, <1>4, <1>5, <1>6, <1>7, <1>8, <1>9, <1>10, <1>11,
      <1>12, <1>13, <1>14, <1>15, <1>16, <1>17, <1>18, <1>19, <1>20 DEF Next,
      Step

LEMMA SentStep ==
    ASSUME Base, Base', TurnIsNew, HoldsSaved, SentIsSaved, SerialTurns, [Next]_vars
    PROVE  SentIsSaved'
<1> USE TurnsAssumption DEF Base, TypeOK, HasMsg, HasLock, Locals, Working,
      ConvAt, Inside, streamVars, logVars, sessionVars, lockVars, TurnIsNew,
      HoldsSaved, SentIsSaved, Spoilt
<1>1. ASSUME NEW p \in Proc, Start(p) PROVE SentIsSaved'
  BY <1>1 DEF At, Start, Goto, Claimed
<1>2. ASSUME NEW p \in Proc, Poll(p) PROVE SentIsSaved'
  BY <1>2 DEF At, Poll
<1>3. ASSUME NEW p \in Proc, Take(p) PROVE SentIsSaved'
  BY <1>3 DEF At, Take, Local
<1>4. ASSUME NEW p \in Proc, Ack(p) PROVE SentIsSaved'
  BY <1>4 DEF At, Ack, Local
<1>5. ASSUME NEW p \in Proc, Receive(p) PROVE SentIsSaved'
  BY <1>5 DEF At, Receive, Goto
<1>6. ASSUME NEW p \in Proc, Lock(p) PROVE SentIsSaved'
  BY <1>6 DEF At, Lock, Available
<1>7. ASSUME NEW p \in Proc, Check(p) PROVE SentIsSaved'
  BY <1>7, CheckIs DEF Past
<1>8. ASSUME NEW p \in Proc, Talk(p) PROVE SentIsSaved'
  BY <1>8 DEF At, Talk
<1>9. ASSUME NEW p \in Proc, Answer(p) PROVE SentIsSaved'
  BY <1>9, AnswerIs DEF At
<1>10. ASSUME NEW p \in Proc, Save(p) PROVE SentIsSaved'
  BY <1>10 DEF At, Save, Goto
<1>11. ASSUME NEW p \in Proc, Store(p) PROVE SentIsSaved'
  BY <1>11 DEF At, Store, Goto
<1>12. ASSUME NEW p \in Proc, Reply(p) PROVE SentIsSaved'
  BY <1>12 DEF At, Reply, Past, Goto
<1>13. ASSUME NEW p \in Proc, Mark(p) PROVE SentIsSaved'
  BY <1>13 DEF At, Mark, Goto
<1>14. ASSUME NEW p \in Proc, Finish(p) PROVE SentIsSaved'
  BY <1>14 DEF At, Finish, Goto, Released, Owns
<1>15. ASSUME NEW p \in Proc, GiveUp(p) PROVE SentIsSaved'
  BY <1>15 DEF At, GiveUp, Goto
<1>16. ASSUME NEW p \in Proc, Raise(p) PROVE SentIsSaved'
  BY <1>16 DEF At, Raise, Local, Released, Owns
<1>17. ASSUME NEW p \in Proc, Kill(p) PROVE SentIsSaved'
  BY <1>17 DEF At, Kill, Local
<1>18. ASSUME NEW c \in Conv, Lapse(c) PROVE SentIsSaved'
  BY <1>18 DEF Lapse
<1>19. ASSUME NEW c \in Conv, Expire(c) PROVE SentIsSaved'
  BY <1>19 DEF Expire
<1>20. CASE UNCHANGED vars
  BY <1>20 DEF vars
<1> QED BY <1>1, <1>2, <1>3, <1>4, <1>5, <1>6, <1>7, <1>8, <1>9, <1>10, <1>11,
      <1>12, <1>13, <1>14, <1>15, <1>16, <1>17, <1>18, <1>19, <1>20 DEF Next,
      Step

LEMMA StoresKept ==
    ASSUME Base, StoresLatest, NEW p \in Proc, UNCHANGED <<session, latest, cut>>,
           torn \subseteq torn', \A q \in Proc : q # p => me'[q] = me[q],
           me[p].at # "store", me'[p].at # "store"
    PROVE  StoresLatest'
<1>1. \A q \in Proc :
          me[q].at = "store" => me'[q].at = "store" /\ ConvAt(q)' = ConvAt(q)
  BY DEF ConvAt
<1>2. \A q \in Proc :
          me'[q].at = "store" => me[q].at = "store" /\ me'[q] = me[q]
  OBVIOUS
<1> QED BY <1>1, <1>2 DEF StoresLatest, ConvAt

\* Nobody else is about to store a session of this conversation.
LEMMA StoresAtSave ==
    ASSUME Base, StoresLatest, SerialTurns, NEW p \in Proc, Save(p)
    PROVE  StoresLatest'
<1>1. /\ me[p].at = "save" /\ me \in [Proc -> Locals]
      /\ me' = [me EXCEPT ![p].at = "store"]
      /\ latest' = [latest EXCEPT ![ConvAt(p)] = me[p].sid]
      /\ UNCHANGED <<session, cut, torn>>
      /\ latest \in [Conv -> Session] /\ ConvAt(p) \in Conv
  BY TurnsAssumption
     DEF Save, At, Goto, Base, TypeOK, HasMsg, ConvAt, lockVars
<1>2. /\ me'[p].at = "store" /\ me'[p].msg = me[p].msg /\ me'[p].sid = me[p].sid
      /\ \A q \in Proc : q # p => me'[q] = me[q]
  <2>1. me[p] \in Locals /\ me'[p] = [me[p] EXCEPT !.at = "store"]
    BY <1>1
  <2> QED BY <1>1, <2>1 DEF Locals
<1>3. \A q \in Proc : ConvAt(q)' = ConvAt(q)
  BY <1>2 DEF ConvAt
<1>4. \A q \in Proc : q # p /\ me[q].at = "store" =>
          ConvAt(q) # ConvAt(p) \/ ConvAt(p) \in torn
  BY <1>1 DEF SerialTurns, Inside, Working
<1>5. ASSUME NEW c \in Conv
      PROVE  \/ c \in torn \cup cut \/ session[c] = latest'[c]
             \/ \E q \in Proc : me'[q].at = "store" /\ ConvAt(q)' = c
  <2>1. CASE c = ConvAt(p)
    BY <1>2, <1>3, <2>1
  <2>2. CASE c # ConvAt(p)
    <3>1. latest'[c] = latest[c]
      BY <1>1, <2>2
    <3>2. \/ c \in torn \cup cut \/ session[c] = latest[c]
          \/ \E q \in Proc : me[q].at = "store" /\ ConvAt(q) = c
      BY DEF StoresLatest
    <3> QED BY <1>2, <1>3, <3>1, <3>2
  <2> QED BY <2>1, <2>2
<1>6. ASSUME NEW q \in Proc, me'[q].at = "store"
      PROVE  \/ ConvAt(q) \in torn \cup cut
             \/ me'[q].sid = latest'[ConvAt(q)]
  <2>1. CASE q = p
    BY <1>1, <1>2, <2>1
  <2>2. CASE q # p
    <3>1. me'[q] = me[q]
      BY <1>2, <2>2
    <3>2. \/ ConvAt(q) \in torn \cup cut
          \/ ConvAt(q) # ConvAt(p) /\ me[q].sid = latest[ConvAt(q)]
      BY <1>4, <1>6, <2>2, <3>1 DEF StoresLatest
    <3> QED BY <1>1, <3>1, <3>2
  <2> QED BY <2>1, <2>2
<1> QED BY <1>1, <1>3, <1>5, <1>6 DEF StoresLatest

LEMMA StoresStep ==
    ASSUME Base, Base', StoresLatest, SerialTurns, [Next]_vars
    PROVE  StoresLatest'
<1> USE TurnsAssumption DEF Base, TypeOK, HasMsg, HasLock, Locals, Working,
      ConvAt, Inside, streamVars, logVars, sessionVars, lockVars,
      StoresLatest, SerialTurns
<1>1. ASSUME NEW p \in Proc, Start(p) PROVE StoresLatest'
  BY <1>1 DEF At, Start, Goto, Claimed
<1>2. ASSUME NEW p \in Proc, Poll(p) PROVE StoresLatest'
  BY <1>2 DEF At, Poll
<1>3. ASSUME NEW p \in Proc, Take(p) PROVE StoresLatest'
  <2>1. me[p].at # "store" /\ me'[p].at # "store"
    BY <1>3 DEF At, Take, Local
  <2>2. \A q \in Proc : q # p => me'[q] = me[q]
    BY <1>3 DEF Take, Local
  <2>3. UNCHANGED <<session, latest, cut, torn>>
    BY <1>3 DEF Take
  <2> QED BY <2>1, <2>2, <2>3, StoresKept
<1>4. ASSUME NEW p \in Proc, Ack(p) PROVE StoresLatest'
  <2>1. me[p].at # "store" /\ me'[p].at # "store"
    BY <1>4 DEF At, Ack, Local
  <2>2. \A q \in Proc : q # p => me'[q] = me[q]
    BY <1>4 DEF Ack, Local
  <2>3. UNCHANGED <<session, latest, cut, torn>>
    BY <1>4 DEF Ack
  <2> QED BY <2>1, <2>2, <2>3, StoresKept
<1>5. ASSUME NEW p \in Proc, Receive(p) PROVE StoresLatest'
  <2>1. me[p].at # "store" /\ me'[p].at # "store"
    BY <1>5 DEF At, Receive, Goto
  <2>2. \A q \in Proc : q # p => me'[q] = me[q]
    BY <1>5 DEF Receive, Goto
  <2>3. UNCHANGED <<session, latest, cut, torn>>
    BY <1>5 DEF Receive
  <2> QED BY <2>1, <2>2, <2>3, StoresKept
<1>6. ASSUME NEW p \in Proc, Lock(p) PROVE StoresLatest'
  <2>1. me[p].at # "store" /\ me'[p].at # "store"
    BY <1>6 DEF At, Lock
  <2>2. \A q \in Proc : q # p => me'[q] = me[q]
    BY <1>6 DEF Lock
  <2>3. UNCHANGED <<session, latest, cut, torn>>
    BY <1>6 DEF Lock
  <2> QED BY <2>1, <2>2, <2>3, StoresKept
<1>7. ASSUME NEW p \in Proc, Check(p) PROVE StoresLatest'
  <2>1. me[p].at # "store" /\ me'[p].at # "store"
    BY <1>7 DEF At, Check
  <2>2. \A q \in Proc : q # p => me'[q] = me[q]
    BY <1>7 DEF Check
  <2>3. UNCHANGED <<session, latest, cut, torn>>
    BY <1>7 DEF Check
  <2> QED BY <2>1, <2>2, <2>3, StoresKept
<1>8. ASSUME NEW p \in Proc, Talk(p) PROVE StoresLatest'
  <2>1. me[p].at # "store" /\ me'[p].at # "store"
    BY <1>8 DEF At, Talk
  <2>2. \A q \in Proc : q # p => me'[q] = me[q]
    BY <1>8 DEF Talk
  <2>3. UNCHANGED <<session, latest, cut, torn>>
    BY <1>8 DEF Talk
  <2> QED BY <2>1, <2>2, <2>3, StoresKept
<1>9. ASSUME NEW p \in Proc, Answer(p) PROVE StoresLatest'
  <2>1. me[p].at # "store" /\ me'[p].at # "store"
    BY <1>9 DEF At, Answer
  <2>2. \A q \in Proc : q # p => me'[q] = me[q]
    BY <1>9 DEF Answer
  <2>3. UNCHANGED <<session, latest, cut, torn>>
    BY <1>9 DEF Answer
  <2> QED BY <2>1, <2>2, <2>3, StoresKept
<1>10. ASSUME NEW p \in Proc, Save(p) PROVE StoresLatest'
  BY <1>10, StoresAtSave
<1>11. ASSUME NEW p \in Proc, Store(p) PROVE StoresLatest'
  <2>1. me[p].at = "store" /\ me'[p].at = "reply"
    BY <1>11 DEF At, Store, Goto
  <2>2. \A q \in Proc : q # p => me'[q] = me[q]
    BY <1>11 DEF Store, Goto
  <2>3. session' = [session EXCEPT ![ConvAt(p)] = me[p].sid]
        /\ UNCHANGED <<latest, torn, cut>>
    BY <1>11 DEF Store
  <2>4. \A c \in Conv : \/ c \in torn \cup cut \/ session'[c] = latest[c]
                        \/ \E q \in Proc : me'[q].at = "store" /\ ConvAt(q)' = c
    <3> SUFFICES ASSUME NEW c \in Conv, c \notin torn \cup cut,
                        session'[c] # latest[c]
                 PROVE  \E q \in Proc : me'[q].at = "store" /\ ConvAt(q)' = c
      OBVIOUS
    <3>1. c # ConvAt(p)
      BY <2>1, <2>3
    <3>2. session'[c] = session[c]
      BY <2>3, <3>1
    <3>3. PICK q \in Proc : me[q].at = "store" /\ ConvAt(q) = c
      BY <3>2
    <3> QED BY <2>2, <3>1, <3>3
  <2>5. \A q \in Proc :
            me'[q].at = "store" => \/ ConvAt(q)' \in torn \cup cut
                                   \/ me'[q].sid = latest[ConvAt(q)']
    BY <2>1, <2>2
  <2> QED BY <2>3, <2>4, <2>5
<1>12. ASSUME NEW p \in Proc, Reply(p) PROVE StoresLatest'
  <2>1. me[p].at # "store" /\ me'[p].at # "store"
    BY <1>12 DEF At, Reply, Goto
  <2>2. \A q \in Proc : q # p => me'[q] = me[q]
    BY <1>12 DEF Reply, Goto
  <2>3. UNCHANGED <<session, latest, cut, torn>>
    BY <1>12 DEF Reply
  <2> QED BY <2>1, <2>2, <2>3, StoresKept
<1>13. ASSUME NEW p \in Proc, Mark(p) PROVE StoresLatest'
  <2>1. me[p].at # "store" /\ me'[p].at # "store"
    BY <1>13 DEF At, Mark, Goto
  <2>2. \A q \in Proc : q # p => me'[q] = me[q]
    BY <1>13 DEF Mark, Goto
  <2>3. UNCHANGED <<session, latest, cut, torn>>
    BY <1>13 DEF Mark
  <2> QED BY <2>1, <2>2, <2>3, StoresKept
<1>14. ASSUME NEW p \in Proc, Finish(p) PROVE StoresLatest'
  <2>1. me[p].at # "store" /\ me'[p].at # "store"
    BY <1>14 DEF At, Finish, Goto
  <2>2. \A q \in Proc : q # p => me'[q] = me[q]
    BY <1>14 DEF Finish, Goto
  <2>3. UNCHANGED <<session, latest, cut, torn>>
    BY <1>14 DEF Finish
  <2> QED BY <2>1, <2>2, <2>3, StoresKept
<1>15. ASSUME NEW p \in Proc, GiveUp(p) PROVE StoresLatest'
  BY <1>15 DEF At, GiveUp, Goto
<1>16. ASSUME NEW p \in Proc, Raise(p) PROVE StoresLatest'
  BY <1>16 DEF At, Raise, Local, Released, Owns
<1>17. ASSUME NEW p \in Proc, Kill(p) PROVE StoresLatest'
  BY <1>17 DEF At, Kill, Local
<1>18. ASSUME NEW c \in Conv, Lapse(c) PROVE StoresLatest'
  BY <1>18 DEF Lapse
<1>19. ASSUME NEW c \in Conv, Expire(c) PROVE StoresLatest'
  BY <1>19 DEF Expire
<1>20. CASE UNCHANGED vars
  BY <1>20 DEF vars
<1> QED BY <1>1, <1>2, <1>3, <1>4, <1>5, <1>6, <1>7, <1>8, <1>9, <1>10, <1>11,
      <1>12, <1>13, <1>14, <1>15, <1>16, <1>17, <1>18, <1>19, <1>20 DEF Next,
      Step

LEMMA LatestAtCheck ==
    ASSUME Base, StoresLatest, SerialTurns
    PROVE  \A p \in Proc :
               me[p].at = "check" => \/ ConvAt(p) \in torn \cup cut
                                     \/ session[ConvAt(p)] = latest[ConvAt(p)]
<1> SUFFICES ASSUME NEW p \in Proc, me[p].at = "check",
                    ConvAt(p) \notin torn \cup cut,
                    session[ConvAt(p)] # latest[ConvAt(p)]
             PROVE  FALSE
  OBVIOUS
<1>1. ConvAt(p) \in Conv
  BY TurnsAssumption DEF Base, HasMsg, ConvAt
<1>2. PICK q \in Proc : me[q].at = "store" /\ ConvAt(q) = ConvAt(p)
  BY <1>1 DEF StoresLatest
<1>3. p # q /\ Inside(p) /\ Inside(q)
  BY <1>2 DEF Inside, Working
<1> QED BY <1>2, <1>3 DEF SerialTurns

LEMMA ResumesKept ==
    ASSUME ResumesLatest, NEW p \in Proc, UNCHANGED <<sessionVars, torn>>,
           me'[p].at # "run", \A q \in Proc : q # p => me'[q] = me[q]
    PROVE  ResumesLatest'
<1> SUFFICES ASSUME NEW q \in Proc, At(q, "run")', me'[q].tries = 0
             PROVE  \/ me'[q].resume = latest'[ConvAt(q)']
                    \/ ConvAt(q)' \in torn' \cup cut'
  BY DEF ResumesLatest
<1>1. me'[q] = me[q]
  BY DEF At
<1> QED BY <1>1 DEF ResumesLatest, At, ConvAt, sessionVars

LEMMA ResumesAtCheck ==
    ASSUME TypeOK, HasMsg, ResumesLatest, NEW p \in Proc, Check(p),
           \/ ConvAt(p) \in torn \cup cut
           \/ session[ConvAt(p)] = latest[ConvAt(p)]
    PROVE  ResumesLatest'
<1>1. /\ me'[p].msg = me[p].msg /\ \A q \in Proc : q # p => me'[q] = me[q]
      /\ UNCHANGED <<latest, cut, torn>>
      /\ me'[p].at = "reply" \/ me'[p].resume = session[ConvAt(p)]
  BY CheckIs DEF sessionVars, lockVars
<1> QED BY <1>1 DEF ResumesLatest, At, ConvAt

LEMMA ResumesStep ==
    ASSUME Base, Base', StoresLatest, ResumesLatest, SerialTurns, [Next]_vars
    PROVE  ResumesLatest'
<1>0. \A p \in Proc :
          me[p].at = "check" => \/ ConvAt(p) \in torn \cup cut
                                \/ session[ConvAt(p)] = latest[ConvAt(p)]
  BY LatestAtCheck
<1> USE TurnsAssumption DEF Base, TypeOK, HasMsg, HasLock, Locals, Working,
      ConvAt, Inside, streamVars, logVars, sessionVars, lockVars,
      StoresLatest, ResumesLatest, SerialTurns
<1>1. ASSUME NEW p \in Proc, Start(p) PROVE ResumesLatest'
  BY <1>1 DEF At, Start, Goto, Claimed
<1>2. ASSUME NEW p \in Proc, Poll(p) PROVE ResumesLatest'
  BY <1>2 DEF At, Poll
<1>3. ASSUME NEW p \in Proc, Take(p) PROVE ResumesLatest'
  BY <1>3 DEF At, Take, Local
<1>4. ASSUME NEW p \in Proc, Ack(p) PROVE ResumesLatest'
  BY <1>4 DEF At, Ack, Local
<1>5. ASSUME NEW p \in Proc, Receive(p) PROVE ResumesLatest'
  BY <1>5 DEF At, Receive, Goto
<1>6. ASSUME NEW p \in Proc, Lock(p) PROVE ResumesLatest'
  BY <1>6 DEF At, Lock, Available
<1>7. ASSUME NEW p \in Proc, Check(p) PROVE ResumesLatest'
  <2>1. me[p].at = "check"
    BY <1>7 DEF Check, At
  <2>2. \/ ConvAt(p) \in torn \cup cut
        \/ session[ConvAt(p)] = latest[ConvAt(p)]
    BY <1>0, <2>1
  <2> HIDE DEF ConvAt, ResumesLatest
  <2> QED BY <1>7, <2>2, ResumesAtCheck
<1>8. ASSUME NEW p \in Proc, Talk(p) PROVE ResumesLatest'
  BY <1>8 DEF At, Talk
<1>9. ASSUME NEW p \in Proc, Answer(p) PROVE ResumesLatest'
  <2>1. /\ me'[p].at = "save" \/ me'[p].tries > 0
        /\ \A q \in Proc : q # p => me'[q] = me[q]
        /\ UNCHANGED <<latest, cut, torn>>
    BY <1>9, AnswerIs
  <2> QED BY <1>9, <2>1 DEF At
<1>10. ASSUME NEW p \in Proc, Save(p) PROVE ResumesLatest'
  BY <1>10 DEF At, Save, Goto
<1>11. ASSUME NEW p \in Proc, Store(p) PROVE ResumesLatest'
  BY <1>11 DEF At, Store, Goto
<1>12. ASSUME NEW p \in Proc, Reply(p) PROVE ResumesLatest'
  <2> HIDE DEF ResumesLatest, sessionVars, StoresLatest, SerialTurns
  <2>1. me'[p].at # "run" /\ \A q \in Proc : q # p => me'[q] = me[q]
    BY <1>12 DEF Reply, Goto
  <2>2. UNCHANGED <<sessionVars, torn>>
    BY <1>12 DEF Reply
  <2> QED BY <2>1, <2>2, ResumesKept
<1>13. ASSUME NEW p \in Proc, Mark(p) PROVE ResumesLatest'
  BY <1>13 DEF At, Mark, Goto
<1>14. ASSUME NEW p \in Proc, Finish(p) PROVE ResumesLatest'
  BY <1>14 DEF At, Finish, Goto, Released, Owns
<1>15. ASSUME NEW p \in Proc, GiveUp(p) PROVE ResumesLatest'
  BY <1>15 DEF At, GiveUp, Goto
<1>16. ASSUME NEW p \in Proc, Raise(p) PROVE ResumesLatest'
  BY <1>16 DEF At, Raise, Local, Released, Owns
<1>17. ASSUME NEW p \in Proc, Kill(p) PROVE ResumesLatest'
  BY <1>17 DEF At, Kill, Local
<1>18. ASSUME NEW c \in Conv, Lapse(c) PROVE ResumesLatest'
  BY <1>18 DEF At, Lapse
<1>19. ASSUME NEW c \in Conv, Expire(c) PROVE ResumesLatest'
  BY <1>19 DEF At, Expire
<1>20. CASE UNCHANGED vars
  BY <1>20 DEF At, vars
<1> QED BY <1>1, <1>2, <1>3, <1>4, <1>5, <1>6, <1>7, <1>8, <1>9, <1>10, <1>11,
      <1>12, <1>13, <1>14, <1>15, <1>16, <1>17, <1>18, <1>19, <1>20 DEF Next,
      Step

-----------------------------------------------------------------------------
(* Theorems *)

LEMMA TurnsStep == TurnsInv /\ [Next]_vars => TurnsInv'
<1> SUFFICES ASSUME TurnsInv, [Next]_vars PROVE TurnsInv'
  OBVIOUS
<1>1. Base /\ SerialTurns
  BY LockIsSerial DEF TurnsInv
<1>2. TypeOK' /\ HasMsg'
  BY <1>1, TypeStep DEF Base
<1>3. Base'
  BY <1>1, <1>2, LockStep DEF Base
<1> QED
  BY <1>1, <1>3, MarkedStep, NewStep, HoldsStep, SentStep, StoresStep,
     ResumesStep DEF TurnsInv

\* The inductive invariant of Turns, types included.
THEOREM TurnsInvariant == Spec => []TurnsInv
BY TurnsInit, TurnsStep, PTL DEF Spec

\* Two processes of a body are never in the pipeline with one conversation
\* whose lock was neither gone past nor lapsed (main.py 147).
THEOREM TurnsAreSerial == Spec => []SerialTurns
<1>1. TurnsInv => SerialTurns
  BY LockIsSerial DEF TurnsInv
<1> QED BY <1>1, TurnsInvariant, PTL

\* No turn is run for a message whose result is in the log (main.py 7-9).
THEOREM TurnsAreNew == Spec => []TurnIsNew
<1>1. TurnsInv => TurnIsNew
  BY DEF TurnsInv
<1> QED BY <1>1, TurnsInvariant, PTL

\* Every reply to one message is sent from one result, whoever sends it.
THEOREM RepliesAgree == Spec => []ReplyAgrees
<1>1. TurnsInv => ReplyAgrees
  <2> SUFFICES ASSUME TurnsInv, NEW m \in Msg, ~Spoilt(m)
               PROVE  ~(Cardinality(sent[m]) > 1)
    BY DEF ReplyAgrees, Spoilt
  <2>1. sent[m] \subseteq {saved[m]}
    BY DEF TurnsInv, SentIsSaved
  <2>2. Cardinality({saved[m]}) = 1 /\ IsFiniteSet({saved[m]})
    BY FS_Singleton
  <2>3. Cardinality(sent[m]) <= Cardinality({saved[m]})
        /\ Cardinality(sent[m]) \in Nat
    BY <2>1, <2>2, FS_Subset, FS_CardinalityType
  <2> QED BY <2>2, <2>3
<1> QED BY <1>1, TurnsInvariant, PTL

\* A turn resumes the last session of its conversation (13.3).
THEOREM TurnsResumeLatest == Spec => []ResumesLatest
<1>1. TurnsInv => ResumesLatest
  BY DEF TurnsInv
<1> QED BY <1>1, TurnsInvariant, PTL

\* No process takes the lock of another away (main.py 316-322).
THEOREM LockIsReleasedByOwner == Spec => ReleaseOwn
<1>1. TurnsInv /\ [Next]_vars =>
        [\A c \in Conv, q \in Proc :
             lock[c] = q /\ lock'[c] # q => me' = me \/ me'[q] # me[q]]_vars
  <2> SUFFICES ASSUME TurnsInv, Next, NEW c \in Conv, NEW q \in Proc,
                      lock[c] = q, lock'[c] # q, me' # me
               PROVE  me'[q] # me[q]
    OBVIOUS
  <2> USE DEF TurnsInv, Base, TypeOK, Locals
  <2>1. PICK p \in Proc : Step(p) \/ GiveUp(p) \/ Raise(p) \/ Kill(p)
    BY DEF Next, Lapse, Expire
  <2>2. Finish(p) \/ Raise(p) \/ Kill(p) \/ Lock(p)
    BY <2>1 DEF Step, Start, Poll, Take, Ack, Receive, Check, Talk, Answer,
       Save, Store, Reply, Mark, GiveUp, lockVars
  <2>3. p = q
    BY <2>2, TurnsAssumption
    DEF Finish, Raise, Kill, Lock, Released, Owns, Available
  <2>4. me'[p].at # me[p].at
    BY <2>2 DEF Finish, Raise, Kill, Lock, At, Goto, Local, Working
  <2> QED BY <2>3, <2>4
<1> QED BY <1>1, TurnsInvariant, PTL DEF Spec, ReleaseOwn
=============================================================================
