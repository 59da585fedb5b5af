------------------------------ MODULE AsksProofs ------------------------------
(***************************************************************************)
(* Proofs about Asks, for any consults, questions, threads, labels shared  *)
(* in any way, length of the tail and number of processes that die.        *)
(***************************************************************************)
EXTENDS Asks, TLAPS, SequenceTheorems

\* A body that works has a question.
HasQuestion == body.at # "idle" => body.q \in Question

Base == TypeOK /\ HasQuestion

-----------------------------------------------------------------------------
(* Steps that several actions share *)

LEMMA MirrorIs ==
    ASSUME events \in Seq(Event), NEW S, NEW kinds \in Seq(S),
           NEW q \in Question \cup {NoQuestion}, Mirror(kinds, q)
    PROVE  /\ events' \in Seq(Event)
           /\ Len(events') = Len(events) + Len(kinds)
           /\ \A i \in 1 .. Len(events) : events'[i] = events[i]
           /\ \A j \in 1 .. Len(kinds) :
                  events'[Len(events) + j] = [type |-> EventType(kinds[j]), q |-> q]
<1> DEFINE new == [i \in 1 .. Len(kinds) |-> [type |-> EventType(kinds[i]), q |-> q]]
<1>1. \A k : EventType(k) \in {"message", "terminated", "other"}
  BY DEF EventType
<1>2. new \in Seq(Event) /\ Len(new) = Len(kinds)
  <2>1. \A i \in 1 .. Len(kinds) : [type |-> EventType(kinds[i]), q |-> q] \in Event
    BY <1>1 DEF Event
  <2>2. Len(kinds) \in Nat
    OBVIOUS
  <2> QED BY <2>1, <2>2, IsASeq
<1>3. events' = events \o new
  BY DEF Mirror
<1> HIDE DEF new
<1>4. /\ events' \in Seq(Event)
      /\ Len(events') = Len(events) + Len(new)
      /\ \A i \in 1 .. Len(events) : events'[i] = events[i]
      /\ \A j \in 1 .. Len(new) : events'[Len(events) + j] = new[j]
  <2>1. /\ events' \in Seq(Event) /\ Len(events') = Len(events) + Len(new)
        /\ \A i \in 1 .. Len(events) + Len(new) :
               events'[i] = IF i <= Len(events) THEN events[i]
                            ELSE new[i - Len(events)]
    <3>1. new \in Seq(Event) /\ events \in Seq(Event)
      BY <1>2
    <3> QED BY <1>3, <3>1, ConcatProperties, Zenon
  <2>2. Len(events) \in Nat /\ Len(new) \in Nat
    BY <1>2
  <2>3. ASSUME NEW j \in 1 .. Len(new)
        PROVE  events'[Len(events) + j] = new[j]
    BY <2>1, <2>2
  <2> QED BY <2>1, <2>2, <2>3
<1> QED BY <1>2, <1>4 DEF new

LEMMA MirrorOne ==
    ASSUME events \in Seq(Event), NEW a,
           NEW q \in Question \cup {NoQuestion}, Mirror(<<a>>, q)
    PROVE  /\ events' \in Seq(Event) /\ Len(events') = Len(events) + 1
           /\ \A i \in 1 .. Len(events) : events'[i] = events[i]
           /\ events'[Len(events) + 1] = [type |-> EventType(a), q |-> q]
<1>1. <<a>> \in Seq({a}) /\ Len(<<a>>) = 1 /\ <<a>>[1] = a
  OBVIOUS
<1>2. PICK s \in Seq({a}) : Len(s) = 1 /\ s[1] = a /\ Mirror(s, q)
  BY <1>1
<1>3. 1 \in 1 .. Len(s)
  BY <1>2
<1> QED BY <1>2, <1>3, MirrorIs

LEMMA MirrorTwo ==
    ASSUME events \in Seq(Event), NEW a, NEW b,
           NEW q \in Question \cup {NoQuestion}, Mirror(<<a, b>>, q)
    PROVE  /\ events' \in Seq(Event) /\ Len(events') = Len(events) + 2
           /\ \A i \in 1 .. Len(events) : events'[i] = events[i]
           /\ events'[Len(events) + 2] = [type |-> EventType(b), q |-> q]
<1>1. <<a, b>> \in Seq({a, b}) /\ Len(<<a, b>>) = 2 /\ <<a, b>>[2] = b
  OBVIOUS
<1>2. PICK s \in Seq({a, b}) : Len(s) = 2 /\ s[2] = b /\ Mirror(s, q)
  BY <1>1
<1>3. 2 \in 1 .. Len(s)
  BY <1>2
<1> QED BY <1>2, <1>3, MirrorIs

LEMMA LookSteps ==
    ASSUME NEW k \in Consult, Look(k)
    PROVE  Step(k, "look", "leave") \/ Step(k, "look", "wait")
BY DEF Look

\* An answer goes to a label.
LEMMA ReplyToLabel ==
    ASSUME label \in [Asker -> Label], NEW q \in Question
    PROVE  ReplyTo(q) \in Label
BY DEF ReplyTo, Question, Asker

LEMMA BaseInit == Init => Base
<1> SUFFICES ASSUME Init PROVE Base
  OBVIOUS
<1>1. /\ label \in [Asker -> Label] /\ inbox \in [Label -> Seq(Question)]
      /\ events \in Seq(Event) /\ queue \in Seq(Question)
  BY AsksAssumption DEF Init
<1>2. session \in [up : BOOLEAN, at : {"free", "mirror", "tail"},
                   q : Asked \cup {NoQuestion}, new : SUBSET Asked]
  BY DEF Init, Closed
<1>3. body \in [at : {"idle", "known", "online", "post", "mirror", "hold", "mark"},
                q : Question \cup {NoQuestion}] /\ body.at = "idle"
  BY DEF Init, Idle
<1> QED BY <1>1, <1>2, <1>3 DEF Init, Base, TypeOK, HasQuestion

LEMMA ConsultTypes ==
    ASSUME Base, NEW k \in Consult,
           Register(k) \/ ConsultStep(k) \/ Die(k) \/ TimePasses(k)
    PROVE  Base'
<1> USE AsksAssumption DEF Base, TypeOK, HasQuestion, Asker, Question,
        bodyVars, consultVars, bridgeVars, chartVars, Step
<1>1. CASE Register(k)
  BY <1>1 DEF Register, Announced
<1>2. CASE Ask(k)
  BY <1>2 DEF Ask
<1>3. CASE MirrorAsk(k)
  <2>1. Mirror(<<"message", "operator_action">>, k)
    BY <1>3 DEF MirrorAsk
  <2>2. events \in Seq(Event)
    OBVIOUS
  <2>3. events' \in Seq(Event)
    BY <2>1, <2>2, MirrorTwo
  <2> QED BY <1>3, <2>3 DEF MirrorAsk
<1>4. CASE Wait(k)
  BY <1>4 DEF Wait
<1>5. CASE TimeOut(k)
  BY <1>5 DEF TimeOut
<1>6. CASE Look(k)
  <2>1. cursor' \in [Consult -> Nat] /\ got' \subseteq Consult
    <3>1. inbox[label[k]] \in Seq(Question)
      OBVIOUS
    <3>2. CASE Matches(k) # {}
      <4>1. PICK i \in Matches(k) : cursor' = [cursor EXCEPT ![k] = i]
        BY <1>6, <3>2 DEF Look
      <4>2. i \in Nat
        BY <3>1 DEF Matches
      <4> QED BY <1>6, <3>2, <4>1, <4>2 DEF Look
    <3>3. CASE Matches(k) = {}
      BY <1>6, <3>1, <3>3 DEF Look
    <3> QED BY <3>2, <3>3
  <2>2. at' \in [Consult -> {"off", "ask", "mirror", "wait", "look",
                             "leave", "offline", "done", "dead"}]
    <3>1. PICK s \in {"leave", "wait"} : at' = [at EXCEPT ![k] = s]
      BY <1>6, LookSteps
    <3> QED BY <3>1
  <2> QED BY <1>6, <2>1, <2>2 DEF Look
<1>7. CASE Leave(k)
  BY <1>7 DEF Leave
<1>8. CASE GoOffline(k)
  BY <1>8 DEF GoOffline
<1>9. CASE Die(k)
  BY <1>9 DEF Die
<1>10. CASE TimePasses(k)
  BY <1>10 DEF TimePasses
<1> QED BY <1>1, <1>2, <1>3, <1>4, <1>5, <1>6, <1>7, <1>8, <1>9, <1>10
        DEF ConsultStep

SessionState == [up : BOOLEAN, at : {"free", "mirror", "tail"},
                 q : Asked \cup {NoQuestion}, new : SUBSET Asked]

LEMMA SessionStates ==
    /\ Closed \in SessionState
    /\ [Closed EXCEPT !.up = TRUE] \in SessionState
    /\ \A s \in SessionState :
           /\ \A to \in {"free", "mirror", "tail"},
                q \in Asked \cup {NoQuestion}, new \in SUBSET Asked :
                  /\ [s EXCEPT !.at = to] \in SessionState
                  /\ [s EXCEPT !.at = to, !.q = q] \in SessionState
                  /\ [s EXCEPT !.at = to, !.new = new, !.q = q] \in SessionState
BY DEF Closed, SessionState

LEMMA BridgeTypes ==
    ASSUME Base,
           \/ Open \/ Tick \/ BridgeMirror \/ PollTail \/ Close \/ BridgeDies
           \/ \E q \in Asked : BridgeAsk(q)
           \/ \E t \in Thread : PollInbox(t)
           \/ \E l \in Label : Lapse(l)
    PROVE  Base'
<1> USE AsksAssumption DEF Base, TypeOK, HasQuestion, Asker, Question,
        bodyVars, consultVars, bridgeVars, chartVars
<1>0. session \in SessionState
  BY DEF SessionState
<1>1. CASE Open
  <2>1. session' \in SessionState
    BY <1>1, SessionStates DEF Open
  <2>2. /\ known' \subseteq Label /\ online' \subseteq Label /\ returned' \subseteq Asked
        /\ UNCHANGED <<label, inbox, events, bodyVars, consultVars, faults>>
    BY <1>1 DEF Open
  <2> QED BY <2>1, <2>2 DEF SessionState
<1>2. CASE Tick
  BY <1>2 DEF Tick
<1>3. CASE BridgeMirror
  <2>1. events \in Seq(Event) /\ session.q \in Question \cup {NoQuestion}
    OBVIOUS
  <2>2. events' \in Seq(Event)
    BY <1>3, <2>1, MirrorTwo DEF BridgeMirror
  <2> QED BY <1>3, <2>2 DEF BridgeMirror
<1>4. CASE PollTail
  BY <1>4 DEF PollTail
<1>5. CASE Close \/ BridgeDies
  <2>1. session' = Closed /\ returned' = {}
    BY <1>5 DEF Close, BridgeDies
  <2>2. session' \in SessionState /\ returned' \subseteq Asked
    BY <2>1, SessionStates
  <2>3. /\ known' \subseteq Label /\ online' \subseteq Label /\ faults' \in Nat
        /\ UNCHANGED <<label, inbox, events, bodyVars, consultVars>>
    BY <1>5 DEF Close, BridgeDies
  <2> QED BY <2>2, <2>3 DEF SessionState
<1>6. ASSUME NEW q \in Asked, BridgeAsk(q) PROVE Base'
  <2>1. session' \in SessionState
    BY <1>0, <1>6, SessionStates DEF BridgeAsk
  <2>2. queue' \in Seq(Question)
    <3>1. queue' = Append(queue, q)
      BY <1>6 DEF BridgeAsk
    <3>2. q \in Question /\ queue \in Seq(Question)
      OBVIOUS
    <3> QED BY <3>1, <3>2, AppendProperties
  <2>3. UNCHANGED <<label, chartVars, inbox, events, body, acked, outcome,
                    consultVars, returned, faults>>
    BY <1>6 DEF BridgeAsk
  <2> QED BY <2>1, <2>2, <2>3 DEF SessionState
<1>7. ASSUME NEW t \in Thread, PollInbox(t) PROVE Base'
  <2>1. PICK q \in Asked : q = CHOOSE r \in Asked : ThreadOf[r] = t
    OBVIOUS
  <2>2. PICK new \in SUBSET Asked :
            /\ returned' = returned \cup new
            /\ session' = [session EXCEPT !.at = "tail", !.new = new, !.q = q]
    BY <1>7, <2>1 DEF PollInbox
  <2>3. session' \in SessionState
    BY <1>0, <2>2, SessionStates
  <2>4. returned' \subseteq Asked
    BY <2>2
  <2>5. UNCHANGED <<label, chartVars, inbox, events, bodyVars, consultVars, faults>>
    BY <1>7 DEF PollInbox
  <2> QED BY <2>3, <2>4, <2>5 DEF SessionState
<1>8. CASE \E l \in Label : Lapse(l)
  BY <1>8 DEF Lapse
<1> QED BY <1>1, <1>2, <1>3, <1>4, <1>5, <1>6, <1>7, <1>8

BodyState == [at : {"idle", "known", "online", "post", "mirror", "hold", "mark"},
              q : Question \cup {NoQuestion}]

LEMMA BodyStates ==
    /\ Idle \in BodyState
    /\ \A s \in BodyState,
          to \in {"idle", "known", "online", "post", "mirror", "hold", "mark"} :
              /\ [s EXCEPT !.at = to] \in BodyState
              /\ [s EXCEPT !.at = to].q = s.q
BY DEF Idle, BodyState

LEMMA BodyTypes ==
    ASSUME Base, BodyStep \/ Crash \/ Duplicate
    PROVE  Base'
<1> USE AsksAssumption DEF Base, TypeOK, HasQuestion, Question,
        bodyVars, consultVars, bridgeVars, chartVars, Goto
<1>0. body \in BodyState
  BY DEF BodyState
<1>1. CASE Turn
  <2>1. Head(queue) \in Question /\ Tail(queue) \in Seq(Question)
    BY <1>1 DEF Turn
  <2>2. events' \in Seq(Event)
    <3>1. events \in Seq(Event)
      OBVIOUS
    <3> QED BY <1>1, <2>1, <3>1, MirrorOne, MirrorTwo DEF Turn
  <2>3. /\ body' \in [at : {"idle", "known", "online", "post", "mirror", "hold",
                            "mark"}, q : Question \cup {NoQuestion}]
        /\ body'.q \in Question
    BY <1>1, <2>1 DEF Turn
  <2>4. outcome' \in [Question -> {"none", "silent", "gated", "sent", "held",
                                   "refused"}]
    BY <1>1, <2>1 DEF Turn
  <2> QED BY <1>1, <2>1, <2>2, <2>3, <2>4 DEF Turn
<1>2. CASE CheckKnown
  <2>1. events \in Seq(Event) /\ body.q \in Question
    BY <1>2 DEF CheckKnown
  <2>2. events' \in Seq(Event)
    BY <1>2, <2>1, MirrorOne DEF CheckKnown
  <2>3. body' \in BodyState /\ body'.q \in Question
    <3>1. PICK to \in {"online", "mark"} : body' = [body EXCEPT !.at = to]
      BY <1>2 DEF CheckKnown
    <3> QED BY <1>0, <2>1, <3>1, BodyStates
  <2>4. outcome' \in [Question -> {"none", "silent", "gated", "sent", "held",
                                   "refused"}]
    <3>1. CASE outcome' = outcome
      BY <3>1
    <3>2. CASE outcome' = [outcome EXCEPT ![body.q] = "refused"]
      BY <2>1, <3>2
    <3> QED BY <1>2, <3>1, <3>2 DEF CheckKnown
  <2>5. UNCHANGED <<label, chartVars, inbox, queue, acked, consultVars, bridgeVars,
                    faults>>
    BY <1>2 DEF CheckKnown
  <2> QED BY <2>2, <2>3, <2>4, <2>5 DEF BodyState
<1>3. CASE CheckOnline
  BY <1>3 DEF CheckOnline
<1>4. CASE Hold
  <2>1. events \in Seq(Event) /\ body.q \in Question
    BY <1>4 DEF Hold
  <2>2. events' \in Seq(Event)
    BY <1>4, <2>1, MirrorOne DEF Hold
  <2> QED BY <1>4, <2>1, <2>2 DEF Hold
<1>5. CASE Post
  <2>1. body.q \in Question /\ ReplyTo(body.q) \in Label
    BY <1>5, ReplyToLabel DEF Post
  <2>2. body' \in BodyState /\ body'.q \in Question
    BY <1>0, <1>5, <2>1, BodyStates DEF Post
  <2>3. /\ inbox' \in [Label -> Seq(Question)]
        /\ outcome' \in [Question -> {"none", "silent", "gated", "sent", "held",
                                      "refused"}]
        /\ UNCHANGED <<label, chartVars, events, queue, acked, consultVars,
                       bridgeVars, faults>>
    BY <1>5, <2>1 DEF Post
  <2> QED BY <2>2, <2>3 DEF BodyState
<1>6. CASE MirrorReply
  <2>1. events \in Seq(Event) /\ body.q \in Question
    BY <1>6 DEF MirrorReply
  <2>2. events' \in Seq(Event)
    BY <1>6, <2>1, MirrorOne DEF MirrorReply
  <2> QED BY <1>6, <2>1, <2>2 DEF MirrorReply
<1>7. CASE Mark
  <2>1. body' = [body EXCEPT !.at = "idle"] /\ body.q \in Question
    BY <1>7 DEF Mark, Goto
  <2>2. body' \in BodyState /\ body'.q \in Question
    BY <1>0, <2>1 DEF BodyState
  <2>3. /\ acked' \subseteq Question
        /\ UNCHANGED <<label, chartVars, inbox, events, queue, outcome,
                       consultVars, bridgeVars, faults>>
    BY <1>7, <2>1 DEF Mark
  <2> QED BY <2>2, <2>3 DEF BodyState
<1>8. CASE Crash
  <2>1. body' \in BodyState /\ body'.q \in Question
    <3>1. body' = [body EXCEPT !.at = "known"] \/ body' = body
      BY <1>8 DEF Crash, AfterCrash
    <3>2. body.q \in Question
      BY <1>8 DEF Crash
    <3>3. CASE body' = [body EXCEPT !.at = "known"]
      BY <1>0, <3>2, <3>3 DEF BodyState
    <3>4. CASE body' = body
      BY <1>0, <3>2, <3>4
    <3> QED BY <3>1, <3>3, <3>4
  <2>2. events' \in Seq(Event)
    <3>1. events \in Seq(Event) /\ body.q \in Question
      BY <1>8 DEF Crash
    <3> QED BY <1>8, <3>1, MirrorOne DEF Crash
  <2>3. /\ faults' \in Nat
        /\ UNCHANGED <<label, chartVars, inbox, queue, acked, outcome,
                       consultVars, bridgeVars>>
    BY <1>8 DEF Crash
  <2> QED BY <2>1, <2>2, <2>3 DEF BodyState
<1>9. CASE Duplicate
  <2>1. Mirror(<<"duplicate_skipped">>, body.q)
    BY <1>9 DEF Duplicate
  <2>2. events \in Seq(Event) /\ body.q \in Question
    BY <1>9 DEF Duplicate
  <2>3. events' \in Seq(Event)
    BY <2>1, <2>2, MirrorOne
  <2> QED BY <1>9, <2>3 DEF Duplicate
<1> QED BY <1>1, <1>2, <1>3, <1>4, <1>5, <1>6, <1>7, <1>8, <1>9 DEF BodyStep

LEMMA BaseStep == ASSUME Base, [Next]_vars PROVE Base'
<1>1. CASE Next
  BY <1>1, ConsultTypes, BridgeTypes, BodyTypes DEF Next
<1>2. CASE UNCHANGED vars
  BY <1>2 DEF vars, Base, TypeOK, HasQuestion
<1> QED BY <1>1, <1>2

-----------------------------------------------------------------------------
(* What is written stays *)

LEMMA EventsStay ==
    ASSUME Base, [Next]_vars
    PROVE  /\ events' \in Seq(Event) /\ Len(events) <= Len(events')
           /\ \A i \in 1 .. Len(events) : events'[i] = events[i]
<1> USE DEF Base, TypeOK, HasQuestion, Question
<1>1. events \in Seq(Event) /\ events' \in Seq(Event)
  BY BaseStep
<1>2. CASE UNCHANGED events
  BY <1>1, <1>2
<1>3. ASSUME NEW a, NEW q \in Question \cup {NoQuestion}, Mirror(<<a>>, q)
      PROVE  /\ Len(events) <= Len(events')
             /\ \A i \in 1 .. Len(events) : events'[i] = events[i]
  <2>1. Len(events') = Len(events) + 1
        /\ \A i \in 1 .. Len(events) : events'[i] = events[i]
    BY <1>1, <1>3, MirrorOne
  <2> QED BY <1>1, <2>1
<1>4. ASSUME NEW a, NEW b, NEW q \in Question \cup {NoQuestion},
             Mirror(<<a, b>>, q)
      PROVE  /\ Len(events) <= Len(events')
             /\ \A i \in 1 .. Len(events) : events'[i] = events[i]
  <2>1. Len(events') = Len(events) + 2
        /\ \A i \in 1 .. Len(events) : events'[i] = events[i]
    BY <1>1, <1>4, MirrorTwo
  <2> QED BY <1>1, <2>1
<1>5. \/ UNCHANGED events
      \/ \E k \in Consult : Mirror(<<"message", "operator_action">>, k)
      \/ BridgeMirror \/ Turn \/ CheckKnown \/ Hold \/ MirrorReply \/ Crash
      \/ Duplicate
  BY DEF Next, vars, ConsultStep, BodyStep,
     Register, Ask, MirrorAsk, Wait, TimeOut, Look, Leave, GoOffline, Die,
     TimePasses, Open, Tick, BridgeAsk, PollInbox, PollTail, Close, BridgeDies,
     CheckOnline, Post, Mark, Lapse
<1>6. CASE \E k \in Consult : Mirror(<<"message", "operator_action">>, k)
  BY <1>1, <1>4, <1>6
<1>7. CASE BridgeMirror
  <2>1. session.q \in Question \cup {NoQuestion}
    OBVIOUS
  <2> QED BY <1>1, <1>4, <1>7, <2>1 DEF BridgeMirror
<1>8. CASE Turn
  <2>1. Head(queue) \in Question
    BY <1>8 DEF Turn
  <2> QED BY <1>1, <1>3, <1>4, <1>8, <2>1 DEF Turn
<1>9. CASE CheckKnown
  BY <1>1, <1>2, <1>3, <1>9 DEF CheckKnown
<1>10. CASE Hold
  BY <1>1, <1>3, <1>10 DEF Hold
<1>11. CASE MirrorReply
  BY <1>1, <1>3, <1>11 DEF MirrorReply
<1>12. CASE Duplicate
  BY <1>1, <1>3, <1>12 DEF Duplicate
<1>13. CASE Crash
  BY <1>1, <1>2, <1>3, <1>13 DEF Crash
<1> QED BY <1>1, <1>2, <1>5, <1>6, <1>7, <1>8, <1>9, <1>10, <1>11, <1>12, <1>13

LEMMA InboxStays ==
    ASSUME Base, [Next]_vars
    PROVE  /\ label' = label
           /\ \A l \in Label :
                  /\ inbox'[l] \in Seq(Question) /\ Len(inbox[l]) <= Len(inbox'[l])
                  /\ \A i \in 1 .. Len(inbox[l]) : inbox'[l][i] = inbox[l][i]
<1>1. label' = label /\ (UNCHANGED inbox \/ Post)
  BY DEF Next, vars, ConsultStep, BodyStep,
     Register, Ask, MirrorAsk, Wait, TimeOut, Look, Leave, GoOffline, Die,
     TimePasses, Open, Tick, BridgeAsk, BridgeMirror, PollInbox, PollTail, Close,
     BridgeDies, Turn, CheckKnown, CheckOnline, Hold, Post, MirrorReply, Mark,
     Crash, Duplicate, Lapse
<1>2. CASE UNCHANGED inbox
  BY <1>1, <1>2 DEF Base, TypeOK
<1>3. CASE Post
  <2>1. body.q \in Question /\ ReplyTo(body.q) \in Label
    BY <1>3, ReplyToLabel DEF Post, Base, TypeOK, HasQuestion
  <2>2. inbox' = [inbox EXCEPT ![ReplyTo(body.q)] = Append(@, body.q)]
    BY <1>3 DEF Post
  <2>3. inbox \in [Label -> Seq(Question)]
    BY DEF Base, TypeOK
  <2>4. ASSUME NEW l \in Label
        PROVE  /\ inbox'[l] \in Seq(Question) /\ Len(inbox[l]) <= Len(inbox'[l])
               /\ \A i \in 1 .. Len(inbox[l]) : inbox'[l][i] = inbox[l][i]
    <3>1. CASE l = ReplyTo(body.q)
      <4>1. inbox'[l] = Append(inbox[l], body.q) /\ inbox[l] \in Seq(Question)
        BY <2>2, <2>3, <3>1
      <4> QED BY <2>1, <4>1
    <3>2. CASE l # ReplyTo(body.q)
      BY <2>1, <2>2, <2>3, <3>2
    <3> QED BY <3>1, <3>2
  <2> QED BY <1>1, <2>4
<1> QED BY <1>1, <1>2, <1>3

-----------------------------------------------------------------------------
(* An answer or a trace *)

\* Why nobody waits for an answer in vain.
Explained(q) ==
    \/ outcome[q] = "silent"
    \/ Contains(inbox[ReplyTo(q)], q)
    \/ Contains(events, [type |-> "terminated", q |-> q])

\* The body marks nothing that is not explained.
Traced ==
    /\ \A q \in acked : Explained(q)
    /\ body.at \in {"mirror", "mark"} => Explained(body.q)

LEMMA LastEvent ==
    ASSUME events' \in Seq(Event), NEW q \in Question,
           NEW i \in 1 .. Len(events'), events'[i] = [type |-> "terminated", q |-> q]
    PROVE  Explained(q)'
BY DEF Explained, Contains

\* What the body writes down explains what it goes on with.
LEMMA BodyExplains ==
    ASSUME Base, BodyStep, NEW q \in Question,
           \/ outcome'[q] # outcome[q]
           \/ /\ body'.at \in {"mirror", "mark"} /\ body'.q = q
              /\ ~(body.at = "mirror" /\ body.q = q)
    PROVE  Explained(q)'
<1>0. /\ events \in Seq(Event) /\ body \in BodyState /\ Len(events) \in Nat
      /\ queue \in Seq(Question) /\ outcome \in [Question -> {"none", "silent",
                                        "gated", "sent", "held", "refused"}]
      /\ body.at # "idle" => body.q \in Question
  BY DEF Base, TypeOK, HasQuestion, BodyState
<1>1. CASE Turn
  <2>1. q = Head(queue)
    BY <1>0, <1>1 DEF Turn
  <2>2. CASE outcome' = [outcome EXCEPT ![Head(queue)] = "silent"]
    BY <1>0, <2>1, <2>2 DEF Explained
  <2>3. CASE Mirror(<<"processing_done", "ack_suppressed">>, q)
    <3>1. /\ events' \in Seq(Event) /\ Len(events') = Len(events) + 2
          /\ events'[Len(events) + 2] = [type |-> "terminated", q |-> q]
      BY <1>0, <2>3, MirrorTwo DEF EventType
    <3> QED BY <1>0, <3>1, LastEvent
  <2> QED BY <1>1, <2>1, <2>2, <2>3 DEF Turn
<1>2. ASSUME NEW kind \in {"reply_rejected", "held"}, q = body.q,
             Mirror(<<kind>>, body.q)
      PROVE  Explained(q)'
  <2>1. /\ events' \in Seq(Event) /\ Len(events') = Len(events) + 1
        /\ events'[Len(events) + 1] = [type |-> "terminated", q |-> q]
    BY <1>0, <1>2, MirrorOne DEF EventType
  <2> QED BY <1>0, <2>1, LastEvent
<1>3. CASE CheckKnown
  <2>1. ReplyTo(body.q) \notin known /\ body.q = q
    BY <1>0, <1>3 DEF CheckKnown, Goto, BodyState
  <2> QED BY <1>2, <1>3, <2>1 DEF CheckKnown
<1>4. CASE CheckOnline
  BY <1>0, <1>4 DEF CheckOnline, Goto, BodyState
<1>5. CASE Hold
  <2>1. body.q = q
    BY <1>0, <1>5 DEF Hold, Goto, BodyState
  <2> QED BY <1>2, <1>5, <2>1 DEF Hold
<1>6. CASE Post
  <2>1. body.q = q
    BY <1>0, <1>6 DEF Post, Goto, BodyState
  <2>2. ReplyTo(q) \in Label /\ inbox \in [Label -> Seq(Question)]
    BY ReplyToLabel DEF Base, TypeOK
  <2>3. inbox'[ReplyTo(q)] = Append(inbox[ReplyTo(q)], q) /\ label' = label
    BY <1>6, <2>1, <2>2 DEF Post
  <2>4. /\ Len(inbox'[ReplyTo(q)]) = Len(inbox[ReplyTo(q)]) + 1
        /\ inbox'[ReplyTo(q)][Len(inbox[ReplyTo(q)]) + 1] = q
    BY <2>2, <2>3
  <2>5. ReplyTo(q)' = ReplyTo(q) /\ Len(inbox[ReplyTo(q)]) \in Nat
    BY <2>2, <2>3 DEF ReplyTo
  <2>6. Contains(inbox'[ReplyTo(q)], q)
    BY <2>4, <2>5 DEF Contains
  <2> QED BY <2>5, <2>6 DEF Explained
<1>7. CASE MirrorReply
  BY <1>0, <1>7 DEF MirrorReply, Goto, BodyState
<1>8. CASE Mark
  BY <1>0, <1>8 DEF Mark, Goto, BodyState
<1> QED BY <1>1, <1>3, <1>4, <1>5, <1>6, <1>7, <1>8 DEF BodyStep

\* Nothing is taken back.
LEMMA ExplainedStays ==
    ASSUME Base, [Next]_vars, NEW q \in Question, Explained(q),
           outcome'[q] = outcome[q]
    PROVE  Explained(q)'
<1>1. CASE outcome[q] = "silent"
  BY <1>1 DEF Explained
<1>2. CASE Contains(inbox[ReplyTo(q)], q)
  <2>1. ReplyTo(q) \in Label
    BY ReplyToLabel DEF Base, TypeOK
  <2>2. /\ label' = label
        /\ inbox[ReplyTo(q)] \in Seq(Question) /\ inbox'[ReplyTo(q)] \in Seq(Question)
        /\ Len(inbox[ReplyTo(q)]) <= Len(inbox'[ReplyTo(q)])
        /\ \A i \in 1 .. Len(inbox[ReplyTo(q)]) :
               inbox'[ReplyTo(q)][i] = inbox[ReplyTo(q)][i]
    BY <2>1, InboxStays DEF Base, TypeOK
  <2>3. PICK i \in 1 .. Len(inbox[ReplyTo(q)]) : inbox[ReplyTo(q)][i] = q
    BY <1>2 DEF Contains
  <2>4. i \in 1 .. Len(inbox'[ReplyTo(q)]) /\ inbox'[ReplyTo(q)][i] = q
    BY <2>2, <2>3
  <2>5. Contains(inbox'[ReplyTo(q)], q) /\ ReplyTo(q)' = ReplyTo(q)
    BY <2>2, <2>4 DEF Contains, ReplyTo
  <2> QED BY <2>5 DEF Explained
<1>3. CASE Contains(events, [type |-> "terminated", q |-> q])
  <2>1. PICK i \in 1 .. Len(events) : events[i] = [type |-> "terminated", q |-> q]
    BY <1>3 DEF Contains
  <2>2. /\ events' \in Seq(Event) /\ Len(events) <= Len(events')
        /\ events'[i] = events[i] /\ Len(events) \in Nat
    BY EventsStay DEF Base, TypeOK
  <2> QED BY <2>1, <2>2, LastEvent
<1> QED BY <1>1, <1>2, <1>3 DEF Explained

LEMMA TracedStep ==
    ASSUME Base, Traced, [Next]_vars
    PROVE  Traced'
<1>0. /\ body \in BodyState /\ acked \subseteq Question /\ acked' \subseteq Question
      /\ body.at # "idle" => body.q \in Question
      /\ body'.at # "idle" => body'.q \in Question
  BY BaseStep DEF Base, TypeOK, HasQuestion, BodyState
<1>1. BodyStep \/ Crash \/ UNCHANGED <<body, acked, outcome>>
  BY DEF Next, vars, bodyVars, ConsultStep,
     Register, Ask, MirrorAsk, Wait, TimeOut, Look, Leave, GoOffline, Die,
     TimePasses, Open, Tick, BridgeAsk, BridgeMirror, PollInbox, PollTail, Close,
     BridgeDies, Duplicate, Lapse
<1>2. ASSUME NEW q \in Question, Explained(q) PROVE Explained(q)'
  <2>1. CASE BodyStep /\ outcome'[q] # outcome[q]
    BY <2>1, BodyExplains
  <2>2. CASE outcome'[q] = outcome[q]
    BY <1>2, <2>2, ExplainedStays
  <2> QED BY <1>1, <2>1, <2>2 DEF Crash
<1>3. ASSUME NEW q \in acked' PROVE Explained(q)'
  <2>1. q \in acked \/ (q = body.q /\ body.at = "mark")
    BY <1>1, <1>3 DEF BodyStep, Turn, CheckKnown, CheckOnline, Hold, Post,
       MirrorReply, Mark, Crash
  <2> QED BY <1>0, <1>2, <2>1 DEF Traced
<1>4. ASSUME NEW q \in Question, body'.q = q, body'.at \in {"mirror", "mark"}
      PROVE  Explained(q)'
  <2>1. CASE BodyStep
    <3>1. CASE body.at = "mirror" /\ body.q = q
      BY <1>2, <3>1 DEF Traced
    <3>2. CASE ~(body.at = "mirror" /\ body.q = q)
      BY <1>4, <2>1, <3>2, BodyExplains
    <3> QED BY <3>1, <3>2
  <2>2. CASE Crash
    <3>1. body' = body \/ body'.at = "known"
      BY <1>0, <2>2 DEF Crash, AfterCrash, Goto, BodyState
    <3> QED BY <1>2, <1>4, <3>1 DEF Traced
  <2>3. CASE UNCHANGED <<body, acked, outcome>>
    BY <1>2, <1>4, <2>3 DEF Traced
  <2> QED BY <1>1, <2>1, <2>2, <2>3
<1>5. body'.at \in {"mirror", "mark"} => Explained(body.q)'
  BY <1>0, <1>4
<1> QED BY <1>3, <1>5 DEF Traced

-----------------------------------------------------------------------------
(* No answer is passed over *)

\* What a consult without a reply has read is there and is not its answer.
Read ==
    \A k \in Consult \ got :
        /\ cursor[k] <= Len(inbox[label[k]])
        /\ \A i \in 1 .. cursor[k] : inbox[label[k]][i] # k

LEMMA ReadStep ==
    ASSUME Base, Read, [Next]_vars
    PROVE  Read'
<1> SUFFICES ASSUME NEW k \in Consult, k \notin got'
             PROVE  /\ cursor'[k] <= Len(inbox'[label'[k]])
                    /\ \A i \in 1 .. cursor'[k] : inbox'[label'[k]][i] # k
  BY BaseStep DEF Read
<1> DEFINE l == label[k]
<1>0. /\ l \in Label /\ label' = label /\ cursor \in [Consult -> Nat]
      /\ inbox[l] \in Seq(Question) /\ inbox'[l] \in Seq(Question)
      /\ Len(inbox[l]) \in Nat /\ Len(inbox'[l]) \in Nat
      /\ Len(inbox[l]) <= Len(inbox'[l])
      /\ \A i \in 1 .. Len(inbox[l]) : inbox'[l][i] = inbox[l][i]
  BY InboxStays DEF Base, TypeOK, Asker
<1>1. (\E x \in Consult : Look(x)) \/ UNCHANGED <<cursor, got>>
  BY DEF Next, vars, consultVars, ConsultStep, BodyStep,
     Register, Ask, MirrorAsk, Wait, TimeOut, Leave, GoOffline, Die,
     TimePasses, Open, Tick, BridgeAsk, BridgeMirror, PollInbox, PollTail, Close,
     BridgeDies, Turn, CheckKnown, CheckOnline, Hold, Post, MirrorReply, Mark,
     Crash, Duplicate, Lapse
<1>2. CASE k \notin got /\ cursor'[k] = cursor[k]
  <2>1. cursor[k] <= Len(inbox[l]) /\ \A i \in 1 .. cursor[k] : inbox[l][i] # k
    BY <1>2 DEF Read
  <2> QED BY <1>0, <1>2, <2>1
<1>3. ASSUME NEW x \in Consult, Look(x), x # k
      PROVE  k \notin got /\ cursor'[k] = cursor[k]
  <2>1. CASE Matches(x) # {}
    <3>1. PICK i \in Matches(x) : cursor' = [cursor EXCEPT ![x] = i]
      BY <1>3, <2>1 DEF Look
    <3> QED BY <1>0, <1>3, <2>1, <3>1 DEF Look
  <2>2. CASE Matches(x) = {}
    BY <1>0, <1>3, <2>2 DEF Look
  <2> QED BY <2>1, <2>2
<1>4. CASE Look(k)
  <2>1. Matches(k) = {} /\ k \notin got
    BY <1>4 DEF Look
  <2>2. cursor'[k] = Len(inbox[l]) /\ UNCHANGED inbox
    BY <1>0, <1>4, <2>1 DEF Look
  <2>3. ASSUME NEW i \in 1 .. Len(inbox[l]) PROVE inbox[l][i] # k
    <3>1. CASE i <= cursor[k]
      BY <1>0, <2>1, <3>1 DEF Read
    <3>2. CASE i > cursor[k]
      <4>1. cursor[k] \in Nat /\ i \in Nat
        BY <1>0
      <4>2. i \in cursor[k] + 1 .. Len(inbox[label[k]])
        BY <1>0, <3>2, <4>1
      <4> QED BY <2>1, <4>2 DEF Matches
    <3> QED BY <1>0, <3>1, <3>2
  <2> QED BY <1>0, <2>2, <2>3
<1> QED BY <1>1, <1>2, <1>3, <1>4

-----------------------------------------------------------------------------
(* Who waits can be reached *)

\* A consult whose label is its own is on the chart while its question is on
\* its way, and its answer is neither refused nor held.
Reached ==
    \A k \in Consult :
        (\A x \in Asker \ {k} : label[x] # label[k]) =>
            /\ at[k] \in {"off", "ask"} =>
                   /\ ~Contains(queue, k) /\ body.q # k
                   /\ outcome[k] \notin {"refused", "held"}
            /\ at[k] \in {"ask", "mirror", "wait", "look"} =>
                   /\ label[k] \in known /\ label[k] \in online
                   /\ outcome[k] \notin {"refused", "held"}
                   /\ ~(body.at = "hold" /\ body.q = k)

\* What the steps of the others leave of a consult.
LEMMA ReachedKept ==
    ASSUME Base, [Next]_vars, NEW k \in Consult,
           \A x \in Asker \ {k} : label[x] # label[k],
           at[k] \in {"ask", "mirror", "wait", "look"},
           label[k] \in known, label[k] \in online
    PROVE  label[k] \in known' /\ label[k] \in online'
<1> USE DEF Base, TypeOK, Asker
<1>1. CASE UNCHANGED <<known, online>>
  BY <1>1
<1>2. \/ UNCHANGED <<known, online>>
      \/ \E x \in Consult : Register(x) \/ Wait(x) \/ Leave(x) \/ GoOffline(x)
      \/ Open \/ Tick \/ Close \/ \E l \in Label : Lapse(l)
  BY DEF Next, vars, chartVars, ConsultStep, BodyStep,
     Ask, MirrorAsk, TimeOut, Look, Die,
     TimePasses, BridgeAsk, BridgeMirror, PollInbox, PollTail,
     BridgeDies, Turn, CheckKnown, CheckOnline, Hold, Post, MirrorReply, Mark,
     Crash, Duplicate
<1>3. ASSUME NEW x \in Consult, Register(x) \/ Wait(x)
      PROVE  label[k] \in known' /\ label[k] \in online'
  BY <1>3 DEF Register, Wait, Announced
<1>4. ASSUME NEW x \in Consult, Leave(x) \/ GoOffline(x)
      PROVE  label[k] \in known' /\ label[k] \in online'
  <2>1. x # k
    BY <1>4 DEF Leave, GoOffline, Step
  <2>2. label[x] # label[k]
    BY <2>1
  <2> QED BY <1>4, <2>2 DEF Leave, GoOffline
<1>5. CASE Open \/ Tick
  BY <1>5 DEF Open, Tick
<1>6. CASE Close
  <2>1. label[Bridge] # label[k]
    BY AsksAssumption
  <2> QED BY <1>6, <2>1 DEF Close
<1>7. ASSUME NEW l \in Label, Lapse(l)
      PROVE  label[k] \in known' /\ label[k] \in online'
  <2>1. l # label[k]
    BY <1>7 DEF Lapse, Alive
  <2> QED BY <1>7, <2>1 DEF Lapse
<1> QED BY <1>1, <1>2, <1>3, <1>4, <1>5, <1>6, <1>7

LEMMA QueueChanges ==
    ASSUME Base, [Next]_vars
    PROVE  \/ UNCHANGED queue
           \/ \E x \in Consult : Ask(x)
           \/ \E q \in Asked : queue' = Append(queue, q)
           \/ Turn
BY DEF Next, vars, bodyVars, ConsultStep, BodyStep,
   Register, MirrorAsk, Wait, TimeOut, Look, Leave, GoOffline, Die, TimePasses,
   Open, Tick, BridgeAsk, BridgeMirror, PollInbox, PollTail, Close, BridgeDies,
   CheckKnown, CheckOnline, Hold, Post, MirrorReply, Mark, Crash, Duplicate, Lapse

LEMMA BodyChanges ==
    ASSUME Base, [Next]_vars
    PROVE  BodyStep \/ Crash \/ UNCHANGED <<body, acked, outcome>>
BY DEF Next, vars, bodyVars, ConsultStep,
   Register, Ask, MirrorAsk, Wait, TimeOut, Look, Leave, GoOffline, Die,
   TimePasses, Open, Tick, BridgeAsk, BridgeMirror, PollInbox, PollTail, Close,
   BridgeDies, Duplicate, Lapse

\* The body has not heard of a question that is not asked yet.
LEMMA Unheard ==
    ASSUME Base, [Next]_vars, NEW k \in Consult, at'[k] \in {"off", "ask"},
           ~Contains(queue, k), body.q # k
    PROVE  ~Contains(queue', k) /\ body'.q # k /\ outcome'[k] = outcome[k]
<1>0. /\ queue \in Seq(Question) /\ body \in BodyState
      /\ at \in [Consult -> {"off", "ask", "mirror", "wait", "look",
                             "leave", "offline", "done", "dead"}]
      /\ Len(queue) \in Nat /\ k \in Question /\ k \notin Asked
      /\ outcome \in [Question -> {"none", "silent", "gated", "sent", "held",
                                   "refused"}]
      /\ body.at # "idle" => body.q \in Question
  BY AsksAssumption DEF Base, TypeOK, HasQuestion, BodyState, Question
<1>1. ASSUME NEW q \in Question, q # k, queue' = Append(queue, q)
      PROVE  ~Contains(queue', k)
  <2>1. ASSUME NEW i \in 1 .. Len(queue') PROVE queue'[i] # k
    <3>1. Len(queue') = Len(queue) + 1
      BY <1>0, <1>1
    <3>2. CASE i <= Len(queue)
      <4>1. queue'[i] = queue[i] /\ i \in 1 .. Len(queue)
        BY <1>0, <1>1, <3>1, <3>2
      <4> QED BY <4>1 DEF Contains
    <3>3. CASE i = Len(queue) + 1
      BY <1>0, <1>1, <3>3
    <3> QED BY <1>0, <3>1, <3>2, <3>3
  <2> QED BY <2>1 DEF Contains
<1>2. CASE Turn
  <2>1. Head(queue) # k
    <3>1. queue # <<>> /\ 1 \in 1 .. Len(queue) /\ Head(queue) = queue[1]
      BY <1>0, <1>2 DEF Turn
    <3> QED BY <3>1 DEF Contains
  <2>2. ~Contains(queue', k)
    <3>1. ASSUME NEW i \in 1 .. Len(queue') PROVE queue'[i] # k
      <4>1. queue'[i] = queue[i + 1] /\ i + 1 \in 1 .. Len(queue)
        BY <1>0, <1>2 DEF Turn
      <4> QED BY <4>1 DEF Contains
    <3> QED BY <3>1 DEF Contains
  <2> QED BY <1>0, <1>2, <2>1, <2>2 DEF Turn
<1>3. ~Contains(queue', k)
  <2>1. ASSUME NEW x \in Consult, Ask(x) PROVE ~Contains(queue', k)
    <3>1. x # k /\ x \in Question
      BY <1>0, <2>1 DEF Ask, Step, Question
    <3> QED BY <1>1, <2>1, <3>1 DEF Ask
  <2>2. ASSUME NEW q \in Asked, queue' = Append(queue, q)
        PROVE  ~Contains(queue', k)
    BY <1>0, <1>1, <2>2 DEF Question
  <2> QED BY <1>2, <2>1, <2>2, QueueChanges
<1>4. body'.q # k /\ outcome'[k] = outcome[k]
  <2>1. CASE CheckKnown \/ CheckOnline \/ Hold \/ Post \/ MirrorReply \/ Crash
    BY <1>0, <2>1 DEF CheckKnown, CheckOnline, Hold, Post, MirrorReply, Crash,
       Goto, BodyState
  <2>2. CASE Mark
    BY <1>0, <2>2, AsksAssumption DEF Mark, Goto, BodyState
  <2>3. CASE UNCHANGED <<body, acked, outcome>>
    BY <2>3
  <2> QED BY <1>2, <2>1, <2>2, <2>3, BodyChanges DEF BodyStep
<1> QED BY <1>3, <1>4

\* The body does not refuse or hold the answer of one that is on the chart.
LEMMA Delivered ==
    ASSUME Base, [Next]_vars, NEW k \in Consult,
           label[k] \in known, label[k] \in online,
           outcome[k] \notin {"refused", "held"}, ~(body.at = "hold" /\ body.q = k)
    PROVE  outcome'[k] \notin {"refused", "held"} /\ ~(body'.at = "hold" /\ body'.q = k)
<1>0. /\ body \in BodyState /\ k \in Question /\ ReplyTo(k) = label[k]
      /\ outcome \in [Question -> {"none", "silent", "gated", "sent", "held",
                                   "refused"}]
      /\ queue \in Seq(Question)
      /\ body.at # "idle" => body.q \in Question
  BY DEF Base, TypeOK, HasQuestion, BodyState, Question, ReplyTo
<1>1. CASE Turn
  <2>1. body'.at # "hold"
    BY <1>1 DEF Turn
  <2>2. Head(queue) \in Question
    <3>1. queue # <<>>
      BY <1>1 DEF Turn
    <3>2. queue \in Seq(Question)
      BY <1>0
    <3> QED BY <3>1, <3>2
  <2>3. outcome'[k] \notin {"refused", "held"}
    BY <1>0, <1>1, <2>2 DEF Turn
  <2> QED BY <2>1, <2>3
<1>2. CASE CheckKnown
  BY <1>0, <1>2 DEF CheckKnown, Goto, BodyState
<1>3. CASE CheckOnline
  BY <1>0, <1>3 DEF CheckOnline, Goto, BodyState
<1>4. CASE Hold \/ Post \/ MirrorReply \/ Crash
  BY <1>0, <1>4 DEF Hold, Post, MirrorReply, Crash, AfterCrash, Goto, BodyState
<1>5. CASE Mark
  BY <1>5 DEF Mark, Goto, BodyState
<1>6. CASE UNCHANGED <<body, acked, outcome>>
  BY <1>6
<1> QED BY <1>1, <1>2, <1>3, <1>4, <1>5, <1>6, BodyChanges DEF BodyStep

LEMMA ConsultMoves ==
    ASSUME Base, [Next]_vars, NEW k \in Consult
    PROVE  /\ at'[k] \in {"off", "ask"} => at[k] \in {"off", "ask"}
           /\ at'[k] \in {"ask", "mirror", "wait", "look"} =>
                  at[k] \in {"ask", "mirror", "wait", "look"} \/ Register(k)
<1>0. at \in [Consult -> {"off", "ask", "mirror", "wait", "look",
                          "leave", "offline", "done", "dead"}]
  BY DEF Base, TypeOK
<1>1. CASE UNCHANGED at
  BY <1>0, <1>1
<1>2. ASSUME NEW x \in Consult,
             Register(x) \/ Ask(x) \/ MirrorAsk(x) \/ Wait(x) \/ TimeOut(x)
             \/ Step(x, "look", "leave") \/ Step(x, "look", "wait")
             \/ Leave(x) \/ GoOffline(x) \/ Die(x)
      PROVE  /\ at'[k] \in {"off", "ask"} => at[k] \in {"off", "ask"}
             /\ at'[k] \in {"ask", "mirror", "wait", "look"} =>
                    at[k] \in {"ask", "mirror", "wait", "look"} \/ Register(k)
  BY <1>0, <1>2 DEF Register, Ask, MirrorAsk, Wait, TimeOut, Leave, GoOffline, Die,
     Step
<1>3. \/ UNCHANGED at
      \/ \E x \in Consult :
             Register(x) \/ Ask(x) \/ MirrorAsk(x) \/ Wait(x) \/ TimeOut(x)
             \/ Look(x) \/ Leave(x) \/ GoOffline(x) \/ Die(x)
  BY DEF Next, vars, consultVars, ConsultStep, BodyStep,
     TimePasses, Open, Tick, BridgeAsk, BridgeMirror, PollInbox, PollTail, Close,
     BridgeDies, Turn, CheckKnown, CheckOnline, Hold, Post, MirrorReply, Mark,
     Crash, Duplicate, Lapse
<1> QED BY <1>1, <1>2, <1>3, LookSteps

LEMMA ReachedStep ==
    ASSUME Base, Reached, [Next]_vars
    PROVE  Reached'
<1>1. label' = label
  BY InboxStays
<1> SUFFICES ASSUME NEW k \in Consult, \A x \in Asker \ {k} : label[x] # label[k]
             PROVE  /\ at'[k] \in {"off", "ask"} =>
                        /\ ~Contains(queue', k) /\ body'.q # k
                        /\ outcome'[k] \notin {"refused", "held"}
                    /\ at'[k] \in {"ask", "mirror", "wait", "look"} =>
                        /\ label[k] \in known' /\ label[k] \in online'
                        /\ outcome'[k] \notin {"refused", "held"}
                        /\ ~(body'.at = "hold" /\ body'.q = k)
  BY <1>1 DEF Reached
<1>2. at'[k] \in {"off", "ask"} =>
          /\ ~Contains(queue', k) /\ body'.q # k
          /\ outcome'[k] \notin {"refused", "held"}
  BY ConsultMoves, Unheard DEF Reached
<1>3. CASE at[k] \in {"ask", "mirror", "wait", "look"}
  <2>1. /\ label[k] \in known /\ label[k] \in online
        /\ outcome[k] \notin {"refused", "held"}
        /\ ~(body.at = "hold" /\ body.q = k)
    BY <1>3 DEF Reached
  <2>2. label[k] \in known' /\ label[k] \in online'
    BY <1>3, <2>1, ReachedKept
  <2> QED BY <1>2, <2>1, <2>2, Delivered
<1>4. CASE Register(k)
  <2>1. label[k] \in known' /\ label[k] \in online' /\ UNCHANGED <<body, outcome>>
    BY <1>4 DEF Register, Announced, bodyVars
  <2>2. body.q # k /\ outcome[k] \notin {"refused", "held"}
    BY <1>4 DEF Register, Step, Reached
  <2> QED BY <1>2, <2>1, <2>2
<1> QED BY <1>2, <1>3, <1>4, ConsultMoves

-----------------------------------------------------------------------------
(* The theorems *)

IInv == Base /\ Traced /\ Read /\ Reached

LEMMA InitIInv == Init => IInv
<1> SUFFICES ASSUME Init PROVE IInv
  OBVIOUS
<1>1. Base
  BY BaseInit
<1>2. Traced
  BY DEF Init, Idle, Traced
<1>3. Read
  BY <1>1 DEF Init, Read, Base, TypeOK, Asker
<1>4. Reached
  <2>1. ASSUME NEW k \in Consult
        PROVE  /\ ~Contains(queue, k) /\ body.q # k /\ outcome[k] = "none"
               /\ at[k] = "off"
    BY AsksAssumption DEF Init, Idle, Question, Contains
  <2> QED BY <2>1 DEF Reached
<1> QED BY <1>1, <1>2, <1>3, <1>4 DEF IInv

LEMMA NextIInv == IInv /\ [Next]_vars => IInv'
BY BaseStep, TracedStep, ReadStep, ReachedStep DEF IInv

LEMMA Inductive == Spec => []IInv
BY InitIInv, NextIInv, PTL DEF Spec

\* Whatever dies when, an answer the body is done with is in the asker's inbox
\* or an event says why it is not (13.4, 13.6).
THEOREM AsksAnswerOrTrace == Spec => []AnswerOrTrace
<1>1. IInv => AnswerOrTrace
  BY DEF IInv, Traced, Explained, AnswerOrTrace
<1> QED BY <1>1, Inductive, PTL

\* A consult that leaves without a reply has not passed one over
\* (consult.py 96-99), whoever shares its inbox.
THEOREM AsksNotOverlooked == Spec => []NotOverlooked
<1>1. IInv => NotOverlooked
  BY DEF IInv, Read, NotOverlooked
<1> QED BY <1>1, Inductive, PTL

\* The answer of a consult that waits is neither refused nor held (consult.py
\* 95), unless its label is shared.
THEOREM AsksWaitIsReached == Spec => []WaitIsReached
<1>1. IInv => WaitIsReached
  BY DEF IInv, Reached, WaitIsReached
<1> QED BY <1>1, Inductive, PTL

\* A poll that says "waiting" (mcp_server.py 158) of a question the body is done
\* with has handed the reply out before, or missed an event that newer ones
\* have pushed out of the tail.
THEOREM AsksPollTellsEnd == Spec => PollTellsEnd
<1> DEFINE Tells ==
      (session.at = "tail" /\ session'.at = "free" /\ session'.up
          /\ Status = "waiting") =>
          \A q \in acked \cap Asked :
              \/ ~SameThread(q, session.q)
              \/ outcome[q] = "silent"
              \/ Contains(inbox[label[Bridge]], q)
              \/ \E i \in 1 .. Len(events) - TailLen :
                     events[i] = [type |-> "terminated", q |-> q]
<1>1. IInv /\ [Next]_vars => [Tells]_vars
  <2> SUFFICES ASSUME IInv, Status = "waiting",
                      NEW q \in acked, q \in Asked, SameThread(q, session.q),
                      Contains(events, [type |-> "terminated", q |-> q])
               PROVE  \E i \in 1 .. Len(events) - TailLen :
                          events[i] = [type |-> "terminated", q |-> q]
    BY AsksAssumption DEF IInv, Traced, Explained, ReplyTo
  <2>1. PICK i \in 1 .. Len(events) : events[i] = [type |-> "terminated", q |-> q]
    BY DEF Contains
  <2>2. events[i] \notin Newest(TailLen)
    BY <2>1 DEF Status
  <2>3. ~(i > Len(events) - TailLen)
    BY <2>2 DEF Newest
  <2>4. Len(events) \in Nat /\ TailLen \in Nat
    BY AsksAssumption DEF IInv, Base, TypeOK
  <2> QED BY <2>1, <2>3, <2>4
<1> QED BY <1>1, Inductive, PTL DEF Spec, PollTellsEnd
=============================================================================
