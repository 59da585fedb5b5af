-------------------------------- MODULE Asks --------------------------------
(***************************************************************************)
(* The interactive side of the bus: one-shot consults (consult.py), the    *)
(* session of the MCP bridge with its ask and poll tools (mcp_server.py),  *)
(* and the body they ask, whose Observatory answers one question after     *)
(* another and routes each answer by the registry and the heartbeats.      *)
(* Askers may share a label: --as, or two sessions of one project.  The    *)
(* body's own pipeline is in Observatory, the session's registration in    *)
(* StarChart, where their writes are split further.                        *)
(***************************************************************************)
EXTENDS Naturals, Sequences, FiniteSets, SequencesExt

CONSTANTS
    Consult,    \* consult processes, each with one question: itself
    Asked,      \* the questions of the bridge
    Thread,     \* their threads
    ThreadOf,
    Label,      \* names on the bus
    Labelling,  \* what --as and --identity may call the askers
    Bridge,
    NoQuestion,
    TailLen,    \* _events_tail's count
    MaxFaults   \* bound: processes that die

VARIABLES
    label,      \* the names of the askers
    known,      \* the registry, by label
    online,     \* the heartbeats
    inbox,      \* the inbox streams of the labels: replies, by their question
    events,     \* aether:events
    queue,      \* the body's inbox
    body,       \* the body: what it does next, for which question; idle, the
                \* last one
    acked,      \* questions the body is done with
    outcome,    \* history: where the last delivery of each answer went
    at,         \* each consult: what it does next
    late,       \* consults in their loop whose --wait is over
    cursor,     \* each consult: entries of its inbox it has read
    got,        \* consults with a reply
    session,    \* the bridge: up or not, what its tool call does next
    returned,   \* _returned of the bridge, over all threads; gone with it
    faults

vars == <<label, known, online, inbox, events, queue, body, acked, outcome, at, late,
          cursor, got, session, returned, faults>>
bodyVars == <<queue, body, acked, outcome>>
consultVars == <<at, late, cursor, got>>
bridgeVars == <<session, returned>>
chartVars == <<known, online>>

Question == Consult \cup Asked
Asker == Consult \cup {Bridge}

ASSUME AsksAssumption ==
    /\ Consult \cap Asked = {} /\ Bridge \notin Consult
    /\ ThreadOf \in [Asked -> Thread]
    /\ \A t \in Thread : \E q \in Asked : ThreadOf[q] = t
    /\ NoQuestion \notin Question
    /\ Labelling \subseteq [Asker -> Label]
    /\ TailLen \in Nat \ {0} /\ MaxFaults \in Nat

\* An answer goes to the label of who asked.
ReplyTo(q) == IF q \in Consult THEN label[q] ELSE label[Bridge]
SameThread(q, r) ==
    \/ q = r
    \/ q \in Asked /\ r \in Asked /\ ThreadOf[q] = ThreadOf[r]

Event == [type : {"message", "terminated", "other"},
          q : Question \cup {NoQuestion}]

TypeOK ==
    /\ label \in [Asker -> Label]
    /\ known \subseteq Label /\ online \subseteq Label
    /\ inbox \in [Label -> Seq(Question)]
    /\ events \in Seq(Event)
    /\ queue \in Seq(Question) /\ acked \subseteq Question
    /\ body \in [at : {"idle", "known", "online", "post", "mirror",
                       "hold", "mark"},
                 q : Question \cup {NoQuestion}]
    /\ outcome \in [Question -> {"none", "silent", "gated", "sent", "held",
                                 "refused"}]
    /\ at \in [Consult -> {"off", "ask", "mirror", "wait", "look",
                           "leave", "offline", "done", "dead"}]
    /\ late \subseteq Consult /\ got \subseteq Consult
    /\ cursor \in [Consult -> Nat]
    /\ session \in [up : BOOLEAN, at : {"free", "mirror", "tail"},
                    q : Asked \cup {NoQuestion}, new : SUBSET Asked]
    /\ returned \subseteq Asked
    /\ faults \in Nat

Closed == [up |-> FALSE, at |-> "free", q |-> NoQuestion, new |-> {}]
Idle == [at |-> "idle", q |-> NoQuestion]

Init ==
    /\ label \in Labelling
    /\ known = {} /\ online = {} /\ events = <<>>
    /\ inbox = [l \in Label |-> <<>>]
    /\ queue = <<>> /\ body = Idle /\ acked = {}
    /\ outcome = [q \in Question |-> "none"]
    /\ at = [k \in Consult |-> "off"] /\ late = {} /\ got = {}
    /\ cursor = [k \in Consult |-> 0]
    /\ session = Closed /\ returned = {}
    /\ faults = 0

\* Seeded fault: what is held is an event of a type of its own.
HeldApart(kind) ==
    CASE kind = "message" -> "message"
      [] kind \in {"reply_rejected", "ack_suppressed", "duplicate_skipped"} ->
             "terminated"
      [] OTHER -> "other"

\* EVENT_TYPE_BY_KIND
EventType(kind) ==
    CASE kind = "message" -> "message"
      [] kind \in {"held", "reply_rejected", "ack_suppressed",
                   "duplicate_skipped"} -> "terminated"
      [] OTHER -> "other"

Mirror(kinds, q) ==
    events' = events \o [i \in 1 .. Len(kinds) |->
                             [type |-> EventType(kinds[i]), q |-> q]]

-----------------------------------------------------------------------------
(* consult *)

Step(k, from, to) == at[k] = from /\ at' = [at EXCEPT ![k] = to]

\* Seeded fault: the session is not put on the star chart.
Unannounced(l) == known

Announced(l) == known \cup {l}

\* registry.add, heartbeat.beat: dead between the two looks like a record whose
\* heartbeat has lapsed.
Register(k) ==
    /\ Step(k, "off", "ask")
    /\ known' = Announced(label[k])
    /\ online' = online \cup {label[k]}
    /\ UNCHANGED <<label, inbox, events, bodyVars, late, cursor, got, bridgeVars, faults>>

\* AetherClient.emit: the inbox stream, then the mirror, then the audit.
Ask(k) ==
    /\ Step(k, "ask", "mirror")
    /\ queue' = Append(queue, k)
    /\ UNCHANGED <<label, chartVars, inbox, events, body, acked, outcome, late,
                   cursor, got, bridgeVars, faults>>

MirrorAsk(k) ==
    /\ Step(k, "mirror", "wait")
    /\ Mirror(<<"message", "operator_action">>, k)
    /\ UNCHANGED <<label, chartVars, inbox, bodyVars, late, cursor, got, bridgeVars,
                   faults>>

\* Seeded fault: the loop looks for a reply only.
NoDeadline(k) == FALSE

Deadline(k) == k \in late

\* The head of the loop.
Wait(k) ==
    /\ ~Deadline(k) /\ Step(k, "wait", "look")
    /\ online' = online \cup {label[k]}
    /\ UNCHANGED <<label, known, inbox, events, bodyVars, late, cursor, got,
                   bridgeVars, faults>>

TimeOut(k) ==
    /\ Deadline(k) /\ Step(k, "wait", "leave")
    /\ late' = late \ {k}
    /\ UNCHANGED <<label, chartVars, inbox, events, bodyVars, cursor, got,
                   bridgeVars, faults>>

\* Seeded fault: only the newest entry is looked at.
NewestOnly(k) == {i \in cursor[k] + 1 .. Len(inbox[label[k]]) :
                      i = Len(inbox[label[k]]) /\ inbox[label[k]][i] = k}

\* The entries after last_id that answer the question: XRANGE from the start
\* of the stream, older than the consult or not.
Matches(k) == {i \in cursor[k] + 1 .. Len(inbox[label[k]]) :
                   inbox[label[k]][i] = k}

\* Up to the first match, or all of them.
Look(k) ==
    /\ at[k] = "look"
    /\ IF Matches(k) # {}
       THEN /\ Step(k, "look", "leave") /\ got' = got \cup {k}
            /\ late' = late \ {k}
            /\ \E i \in Matches(k) : /\ \A j \in Matches(k) : i <= j
                                     /\ cursor' = [cursor EXCEPT ![k] = i]
       ELSE /\ Step(k, "look", "wait") /\ UNCHANGED <<got, late>>
            /\ cursor' = [cursor EXCEPT ![k] = Len(inbox[label[k]])]
    /\ UNCHANGED <<label, chartVars, inbox, events, bodyVars, bridgeVars, faults>>

\* finally: registry.remove, heartbeat.go_offline
Leave(k) ==
    /\ Step(k, "leave", "offline")
    /\ known' = known \ {label[k]}
    /\ UNCHANGED <<label, online, inbox, events, bodyVars, late, cursor, got,
                   bridgeVars, faults>>

GoOffline(k) ==
    /\ Step(k, "offline", "done")
    /\ online' = online \ {label[k]}
    /\ UNCHANGED <<label, known, inbox, events, bodyVars, late, cursor, got,
                   bridgeVars, faults>>

\* Killed, or an exception before the try: its record stays.
Die(k) ==
    /\ at[k] \notin {"off", "done", "dead"} /\ faults < MaxFaults
    /\ faults' = faults + 1
    /\ at' = [at EXCEPT ![k] = "dead"] /\ late' = late \ {k}
    /\ UNCHANGED <<label, chartVars, inbox, events, bodyVars, cursor, got,
                   bridgeVars>>

\* --wait seconds have passed.
TimePasses(k) ==
    /\ at[k] \in {"wait", "look"} /\ k \notin late
    /\ late' = late \cup {k}
    /\ UNCHANGED <<label, chartVars, inbox, events, bodyVars, at, cursor, got,
                   bridgeVars, faults>>

-----------------------------------------------------------------------------
(* The MCP bridge: a session that opens, asks and polls, and closes *)

Open ==
    /\ ~session.up
    /\ session' = [Closed EXCEPT !.up = TRUE]
    /\ known' = known \cup {label[Bridge]}
    /\ online' = online \cup {label[Bridge]}
    /\ UNCHANGED <<label, inbox, events, bodyVars, consultVars, returned, faults>>

\* The heartbeat thread beats and adds the record again.
Tick ==
    /\ session.up
    /\ known' = known \cup {label[Bridge]}
    /\ online' = online \cup {label[Bridge]}
    /\ UNCHANGED <<label, inbox, events, bodyVars, consultVars, bridgeVars, faults>>

BridgeAsk(q) ==
    /\ session.up /\ session.at = "free"
    /\ ~\E i \in 1 .. Len(events) : events[i] = [type |-> "message", q |-> q]
    /\ q \notin acked /\ body.q # q /\ ~Contains(queue, q)
    /\ queue' = Append(queue, q)
    /\ session' = [session EXCEPT !.at = "mirror", !.q = q]
    /\ UNCHANGED <<label, chartVars, inbox, events, body, acked, outcome,
                   consultVars, returned, faults>>

BridgeMirror ==
    /\ session.at = "mirror"
    /\ Mirror(<<"message", "operator_action">>, session.q)
    /\ session' = [session EXCEPT !.at = "free", !.q = NoQuestion]
    /\ UNCHANGED <<label, chartVars, inbox, bodyVars, consultVars, returned, faults>>

Fresh(q) == q \notin returned

\* poll: the whole inbox first ...
PollInbox(t) ==
    /\ session.up /\ session.at = "free"
    /\ LET new == {q \in Asked : /\ ThreadOf[q] = t /\ Fresh(q)
                                 /\ Contains(inbox[label[Bridge]], q)} IN
       /\ returned' = returned \cup new
       /\ session' = [session EXCEPT !.at = "tail", !.new = new,
                          !.q = CHOOSE q \in Asked : ThreadOf[q] = t]
    /\ UNCHANGED <<label, chartVars, inbox, events, bodyVars, consultVars, faults>>

\* _events_tail
Newest(n) == {events[i] : i \in {j \in 1 .. Len(events) : j > Len(events) - n}}

\* ... then build_timeline of the newest events, whose last terminated event
\* is how the thread ended.
Status ==
    IF \E e \in Newest(TailLen) :
           e.type = "terminated" /\ SameThread(e.q, session.q)
    THEN "extinguished"
    ELSE IF session.new # {} THEN "reply_received" ELSE "waiting"

PollTail ==
    /\ session.at = "tail"
    /\ session' = [session EXCEPT !.at = "free", !.new = {}, !.q = NoQuestion]
    /\ UNCHANGED <<label, chartVars, inbox, events, bodyVars, consultVars, returned,
                   faults>>

\* cleanup: registry.remove, heartbeat.go_offline
Close ==
    /\ session.up /\ session.at = "free"
    /\ known' = known \ {label[Bridge]}
    /\ online' = online \ {label[Bridge]}
    /\ session' = Closed /\ returned' = {}
    /\ UNCHANGED <<label, inbox, events, bodyVars, consultVars, faults>>

BridgeDies ==
    /\ session.up /\ faults < MaxFaults /\ faults' = faults + 1
    /\ session' = Closed /\ returned' = {}
    /\ UNCHANGED <<label, chartVars, inbox, events, bodyVars, consultVars>>

-----------------------------------------------------------------------------
(* The body that is asked *)

Goto(to) == body' = [body EXCEPT !.at = to]

\* Claude answers, stays silent, or its answer is an acknowledgment that the
\* register gate keeps back.
Turn ==
    /\ body.at = "idle" /\ queue # <<>>
    /\ queue' = Tail(queue)
    /\ LET q == Head(queue) IN
       \/ /\ body' = [at |-> "known", q |-> q]
          /\ Mirror(<<"processing_done">>, q) /\ UNCHANGED outcome
       \/ /\ body' = [at |-> "mark", q |-> q]
          /\ Mirror(<<"processing_done">>, q)
          /\ outcome' = [outcome EXCEPT ![q] = "silent"]
       \/ /\ body' = [at |-> "mark", q |-> q]
          /\ Mirror(<<"processing_done", "ack_suppressed">>, q)
          /\ outcome' = [outcome EXCEPT ![q] = "gated"]
    /\ UNCHANGED <<label, chartVars, inbox, acked, consultVars, bridgeVars, faults>>

\* _deliver_reply: an unknown recipient is refused, an offline one's answer is
\* held, and the rest is emitted.
CheckKnown ==
    /\ body.at = "known"
    /\ IF ReplyTo(body.q) \in known
       THEN Goto("online") /\ UNCHANGED <<outcome, events>>
       ELSE /\ Goto("mark") /\ Mirror(<<"reply_rejected">>, body.q)
            /\ outcome' = [outcome EXCEPT ![body.q] = "refused"]
    /\ UNCHANGED <<label, chartVars, inbox, queue, acked, consultVars, bridgeVars,
                   faults>>

CheckOnline ==
    /\ body.at = "online"
    /\ Goto(IF ReplyTo(body.q) \in online THEN "post" ELSE "hold")
    /\ UNCHANGED <<label, chartVars, inbox, events, queue, acked, outcome,
                   consultVars, bridgeVars, faults>>

\* hold() and then the event.  Nothing reads the hold list of a label.
Hold ==
    /\ body.at = "hold" /\ Goto("mark") /\ Mirror(<<"held">>, body.q)
    /\ outcome' = [outcome EXCEPT ![body.q] = "held"]
    /\ UNCHANGED <<label, chartVars, inbox, queue, acked, consultVars, bridgeVars,
                   faults>>

Post ==
    /\ body.at = "post" /\ Goto("mirror")
    /\ inbox' = [inbox EXCEPT ![ReplyTo(body.q)] = Append(@, body.q)]
    /\ outcome' = [outcome EXCEPT ![body.q] = "sent"]
    /\ UNCHANGED <<label, chartVars, events, queue, acked, consultVars, bridgeVars,
                   faults>>

MirrorReply ==
    /\ body.at = "mirror" /\ Goto("mark")
    /\ Mirror(<<"message">>, body.q)
    /\ UNCHANGED <<label, chartVars, inbox, queue, acked, outcome, consultVars,
                   bridgeVars, faults>>

Mark ==
    /\ body.at = "mark" /\ Goto("idle")
    /\ acked' = acked \cup {body.q}
    /\ UNCHANGED <<label, chartVars, inbox, events, queue, outcome, consultVars,
                   bridgeVars, faults>>

\* A turn that gave no reply: silent, or kept back by the gate.
Ungiven == body.at = "mark" /\ outcome[body.q] \in {"silent", "gated"}

\* Seeded fault: the reply is marked as emitted before it is.
MarkedEarly == "mark"

\* The log says CLAUDE_DONE: delivery begins again.
AfterCrash == "known"

\* The Observatory dies after the turn and recovers its pending entry: what is
\* not marked REPLY_EMITTED is delivered again, or found a second time to be an
\* acknowledgment.
Crash ==
    /\ body.at \in {"online", "post", "mirror", "hold", "mark"}
    /\ faults < MaxFaults /\ faults' = faults + 1
    /\ \/ /\ ~Ungiven /\ Goto(AfterCrash)
          /\ UNCHANGED events
       \/ /\ Ungiven /\ outcome[body.q] = "gated"
          /\ Mirror(<<"ack_suppressed">>, body.q)
          /\ UNCHANGED body
    /\ UNCHANGED <<label, chartVars, inbox, queue, acked, outcome, consultVars,
                   bridgeVars>>

\* It dies between ACKED and XACK: before any other, the entry comes again and
\* is skipped.
Duplicate ==
    /\ body.at = "idle" /\ body.q \in acked
    /\ faults < MaxFaults /\ faults' = faults + 1
    /\ Mirror(<<"duplicate_skipped">>, body.q)
    /\ UNCHANGED <<label, chartVars, inbox, bodyVars, consultVars, bridgeVars>>

-----------------------------------------------------------------------------
(* The rest of the world *)

\* Whoever lives beats every 2 or 10 s, against a TTL of 60 s.
Alive(l) ==
    \/ \E k \in Consult : label[k] = l /\ at[k] \notin {"off", "done", "dead"}
    \/ label[Bridge] = l /\ session.up

Lapse(l) ==
    /\ l \in online /\ ~Alive(l)
    /\ online' = online \ {l}
    /\ UNCHANGED <<label, known, inbox, events, bodyVars, consultVars, bridgeVars,
                   faults>>

ConsultStep(k) ==
    \/ Ask(k) \/ MirrorAsk(k) \/ Wait(k) \/ TimeOut(k) \/ Look(k)
    \/ Leave(k) \/ GoOffline(k)

BodyStep ==
    \/ Turn \/ CheckKnown \/ CheckOnline \/ Hold \/ Post
    \/ MirrorReply \/ Mark

Next ==
    \/ \E k \in Consult :
           Register(k) \/ ConsultStep(k) \/ Die(k) \/ TimePasses(k)
    \/ Open \/ Tick \/ BridgeMirror \/ PollTail \/ Close \/ BridgeDies
    \/ \E q \in Asked : BridgeAsk(q)
    \/ \E t \in Thread : PollInbox(t)
    \/ BodyStep \/ Crash \/ Duplicate
    \/ \E l \in Label : Lapse(l)

Spec == Init /\ [][Next]_vars

\* A consult runs on and its time passes; nothing is assumed of the user, who
\* opens the session and polls, or of the body.
FairSpec ==
    Spec /\ \A k \in Consult : WF_vars(ConsultStep(k)) /\ WF_vars(TimePasses(k))

-----------------------------------------------------------------------------
(* Properties *)

\* A consult that leaves without a reply has not passed one over
\* (consult.py 96-99), whatever else its label's inbox holds.
NotOverlooked ==
    \A k \in Consult \ got :
        at[k] \in {"wait", "leave", "offline", "done"} =>
            \A i \in 1 .. cursor[k] : inbox[label[k]][i] # k

\* An answer the body is done with is in the asker's inbox, or an event says
\* why it is not (13.4, 13.6), the body's crashes included.
AnswerOrTrace ==
    \A q \in acked :
        \/ outcome[q] = "silent"
        \/ Contains(inbox[ReplyTo(q)], q)
        \/ Contains(events, [type |-> "terminated", q |-> q])

\* While a consult waits, its answer is neither refused nor held ("stay online
\* so the reply is delivered", consult.py 95), unless its label is shared.
WaitIsReached ==
    \A k \in Consult :
        at[k] \in {"wait", "look"} /\ outcome[k] \in {"refused", "held"} =>
            \E x \in Asker \ {k} : label[x] = label[k]

\* A poll does not say "waiting" (mcp_server.py 158) of a question the body is
\* done with, unless the body stays silent, the reply is in the inbox (handed
\* out before, or arrived while the tail was read), or newer events have pushed
\* the one that says why there is none out of the tail.
PollTellsEnd ==
    [][(session.at = "tail" /\ session'.at = "free" /\ session'.up
          /\ Status = "waiting") =>
          \A q \in acked \cap Asked :
              \/ ~SameThread(q, session.q)
              \/ outcome[q] = "silent"
              \/ Contains(inbox[label[Bridge]], q)
              \/ \E i \in 1 .. Len(events) - TailLen :
                     events[i] = [type |-> "terminated", q |-> q]]_vars

\* A consult ends, answered or not.
ConsultEnds == \A k \in Consult : at[k] = "ask" ~> at[k] \in {"done", "dead"}
=============================================================================
