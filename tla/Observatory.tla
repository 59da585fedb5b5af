---------------------------- MODULE Observatory ----------------------------
(***************************************************************************)
(* Every body's Observatory (observatory/main.py, driven by the resident   *)
(* loop of run_observatory.py) over the Redis transport of aether_client.  *)
(*                                                                         *)
(* One step is one durable Redis write together with the reads that lead   *)
(* to it, so a crash or a lost connection can fall between any two writes. *)
(* The operator, the heartbeat TTLs and the other bodies interleave.       *)
(*                                                                         *)
(* Pending entries.  A consumer group's pending list is split in two:      *)
(* `batch` holds the entries the running process has in hand and `lost`    *)
(* the delivered, unacknowledged entries it does not know about.           *)
(***************************************************************************)
EXTENDS Envelope, Sequences, FiniteSets, Functions

CONSTANTS
    Control,        \* the control blocks Claude may end a turn with
    Running,        \* bodies whose Observatory runs in the initial state
    Known,          \* guests in the registry
    RatePerWindow,  \* rate limit per conversation and window
    ReadCount,      \* XREADGROUP's count
    Budgets         \* bounds on the faults and outside actions of a behaviour

VARIABLES
    posted,         \* origins already sent
    queue,          \* stream entries not yet delivered to the body's group
    batch, lost,    \* delivered and unacknowledged (see above)
    hold,           \* aether:hold:<id>, replies for an offline recipient
    parked,         \* aether:pausehold:<id>, inbound of a paused conversation
    moving,         \* local: entries popped from a hold list, not yet re-sent
    log, saved,     \* processing log: state and Claude's saved control block
    sessions,       \* conversations with a stored Claude session
    pc, phase, ctrl,\* local: next step, part of the loop, control block
    conv, slain,    \* operator control keys: conversations, killed projects
    online,         \* ids with a live heartbeat key
    registry,       \* ids in aether:registry
    rate,           \* the current window's counter per conversation
    mirrors,        \* history: "message" records in aether:events
    ended,          \* history: <<body, sender, mid>> in the Terminated Log
    sent,           \* history: envelopes handed to the transport
    heard,          \* history: <<body, sender, mid>> that Claude was run on
    budget

pipeVars == <<batch, lost, pc, phase, ctrl, moving>>
logVars == <<log, saved, sessions, heard, ended>>
wireVars == <<queue, hold, parked, sent, mirrors, posted>>
envVars == <<conv, slain, online, registry, rate, budget>>
vars == <<pipeVars, logVars, wireVars, envVars>>

Stream == {"inbox", "broadcast"}
LogState == {"none", "RECEIVED", "CLAUDE_DONE", "REPLY_EMITTED", "ACKED"}
Pc == {"down", "reconnect", "beat", "drain", "flush", "mirrorheld", "unpark",
       "repost", "poll", "check", "pause", "count", "limit", "endnote",
       "receive", "turn", "save", "session", "reply", "mirror", "emitted",
       "finish", "ack"}
Phase == {"start", "loop", "recover"}
Fault == {"crash", "drop", "lapse", "operator", "window"}

\* ProcessingLog.ORDER, with 0 for an absent key.
Order == [none |-> 0, RECEIVED |-> 1, CLAUDE_DONE |-> 2, REPLY_EMITTED |-> 3,
          ACKED |-> 4]

\* The control block of a turn without a reply; also ParsedControl.fail_safe.
Silent == [to |-> NoOne, reply |-> FALSE, gated |-> FALSE, session |-> FALSE]

ControlBlock == [to : Id \cup {Broadcast, NoOne}, reply : BOOLEAN,
                 gated : BOOLEAN, session : BOOLEAN]

ASSUME ObservatoryAssumption ==
    /\ Control \subseteq ControlBlock
    /\ Running \subseteq Body
    /\ Known \subseteq Guest
    /\ RatePerWindow \in Nat
    /\ ReadCount \in Nat \ {0}
    /\ Budgets \subseteq [Fault -> Nat]

Empty == [s \in Stream |-> <<>>]

Init ==
    /\ posted = {} /\ sent = {}
    /\ queue = [b \in Body |-> Empty]
    /\ batch = [b \in Body |-> Empty]
    /\ lost = [b \in Body |-> Empty]
    /\ hold = [i \in Id |-> <<>>]
    /\ parked = [b \in Body |-> <<>>]
    /\ moving = [b \in Body |-> <<>>]
    /\ log = [b \in Body |-> [m \in Mid |-> "none"]]
    /\ saved = [b \in Body |-> [m \in Mid |-> Silent]]
    /\ sessions = [b \in Body |-> {}]
    /\ pc = [b \in Body |-> IF b \in Running THEN "beat" ELSE "down"]
    /\ phase = [b \in Body |-> "loop"]
    /\ ctrl = [b \in Body |-> Silent]
    /\ conv = [c \in Conv |-> "active"]
    /\ slain = {}
    /\ online = Running \cup Known
    /\ registry = Running \cup Known
    /\ rate = [c \in Conv |-> 0]
    /\ mirrors = [k \in Id \X Mid |-> 0]
    /\ ended = {} /\ heard = {}
    /\ budget \in Budgets

-----------------------------------------------------------------------------
(* Helpers *)

\* The entry in hand: the inbox stream is read, and recovered, first.
Via(b) == IF batch[b]["inbox"] # <<>> THEN "inbox" ELSE "broadcast"
Cur(b) == Head(batch[b][Via(b)])
InHand(bt) == \E s \in Stream : bt[s] # <<>>

Goto(b, l) == pc' = [pc EXCEPT ![b] = l]
Spend(f) == budget[f] > 0 /\ budget' = [budget EXCEPT ![f] = @ - 1]

\* Seeded faults: Claude is re-invoked after CLAUDE_DONE; every redelivery that
\* is not ACKED is marked RECEIVED again; every logged message is a duplicate.
ResumeRerun(state) == CASE state \in {"RECEIVED", "CLAUDE_DONE"} -> "turn"
                        [] state = "REPLY_EMITTED" -> "finish"
                        [] OTHER -> "endnote"
ResumeFromScratch(state) == IF state = "ACKED" THEN "endnote" ELSE "receive"
ResumeAsDuplicate(state) == "endnote"
\* Seeded fault: a duplicate is skipped without its event.
ResumeSilently(state) == CASE state = "RECEIVED" -> "turn"
                           [] state = "CLAUDE_DONE" -> "reply"
                           [] state = "REPLY_EMITTED" -> "finish"
                           [] OTHER -> "ack"

\* What process() and _process_locked() do next for a logged message; what is
\* ACKED is a duplicate, skipped with an event.
Resume(state) == CASE state = "RECEIVED" -> "turn"
                   [] state = "CLAUDE_DONE" -> "reply"
                   [] state = "REPLY_EMITTED" -> "finish"
                   [] OTHER -> "endnote"

\* process(): a body ignores the Wave it sent itself.
OwnWave(b, e) == IsWave(e) /\ e.from = b

\* The kill checks at the head of process().
Killed(b, e) == conv[e.conv] = "killed" \/ b \in slain

\* RateLimiter.exceeded, after the INCR.
RateExceeded(n) == n > RatePerWindow

\* Seeded fault: a Wave is treated like any message.
NoWavePolicy(e, c) == c

\* _apply_wave_policy: an unsolicited Wave never gets a reply.
WavePolicy(e, c) ==
    IF IsWave(e) /\ ~e.solicit THEN [c EXCEPT !.reply = FALSE] ELSE c

\* Seeded fault: the control block's recipient, null or not.
ChosenRecipient(e, c) == c.to

\* _deliver_reply's recipient: a solicited Wave answers its originator, else the
\* control block's choice, else the sender.
Recipient(e, c) ==
    IF (IsWave(e) /\ e.solicit) \/ c.to = NoOne THEN e.from ELSE c.to

\* _deliver_reply: a recipient must be registered; the originator of a
\* solicited Wave is exempt.
Routable(e, to) == (IsWave(e) /\ e.solicit) \/ to \in registry

\* The reply leaves the body: wanted, not gated, no Wave and a known recipient.
Deliverable(e, c) ==
    LET to == Recipient(e, c)
    IN c.reply /\ ~c.gated /\ to # Broadcast /\ Routable(e, to)

\* XADD to an inbox; only the streams that Observatories read are kept.
XAdd(e) == queue' = IF e.to \in Body
                    THEN [queue EXCEPT ![e.to]["inbox"] = Append(@, e)]
                    ELSE queue

\* aether_client._mirror of a message record.
Record(e) == mirrors' = [mirrors EXCEPT ![<<e.from, e.mid>>] = @ + 1]

\* ProcessingLog.mark: writes the state whatever was there.
Mark(b, e, state) == log' = [log EXCEPT ![b][e.mid] = state]

-----------------------------------------------------------------------------
(* The resident loop *)

\* register_body, then recover_pending: every pending entry is claimed.
Start(b) ==
    /\ pc[b] = "down"
    /\ registry' = registry \cup {b}
    /\ batch' = [batch EXCEPT ![b] = lost[b]]
    /\ lost' = [lost EXCEPT ![b] = Empty]
    /\ phase' = [phase EXCEPT ![b] = "start"]
    /\ Goto(b, IF InHand(lost[b]) THEN "check" ELSE "drain")
    /\ UNCHANGED <<logVars, wireVars, ctrl, moving, conv, slain, online, rate,
                   budget>>

Beat(b) ==
    /\ pc[b] = "beat"
    /\ online' = online \cup {b}
    /\ Goto(b, "drain")
    /\ UNCHANGED <<logVars, wireVars, batch, lost, phase, ctrl, moving, conv,
                   slain, registry, rate, budget>>

\* drain_hold: pops the hold list into memory until it is empty.
Drain(b) ==
    /\ pc[b] = "drain"
    /\ IF hold[b] = <<>>
       THEN Goto(b, "flush") /\ UNCHANGED <<hold, moving>>
       ELSE /\ moving' = [moving EXCEPT ![b] = Append(@, Head(hold[b]))]
            /\ hold' = [hold EXCEPT ![b] = Tail(@)]
            /\ UNCHANGED pc
    /\ UNCHANGED <<logVars, envVars, batch, lost, phase, ctrl, queue, parked,
                   sent, mirrors, posted>>

\* flush_hold: emits what drain_hold returned, one message after the other.
Flush(b) ==
    /\ pc[b] = "flush"
    /\ \/ /\ moving[b] # <<>>
          /\ XAdd(Head(moving[b]))
          /\ Goto(b, "mirrorheld")
          /\ UNCHANGED phase
       \/ /\ moving[b] = <<>>
          /\ Goto(b, IF phase[b] = "start" THEN "beat" ELSE "unpark")
          /\ phase' = [phase EXCEPT ![b] = "loop"]
          /\ UNCHANGED queue
    /\ UNCHANGED <<logVars, envVars, batch, lost, ctrl, moving, hold, parked,
                   sent, mirrors, posted>>

FlushMirror(b) ==
    /\ pc[b] = "mirrorheld"
    /\ Record(Head(moving[b]))
    /\ moving' = [moving EXCEPT ![b] = Tail(@)]
    /\ Goto(b, "flush")
    /\ UNCHANGED <<logVars, envVars, batch, lost, phase, ctrl, queue, hold,
                   parked, sent, posted>>

\* flush_inbound_hold: LPOP ...
Unpark(b) ==
    /\ pc[b] = "unpark"
    /\ IF parked[b] = <<>>
       THEN Goto(b, "poll") /\ UNCHANGED <<parked, moving>>
       ELSE /\ moving' = [moving EXCEPT ![b] = <<Head(parked[b])>>]
            /\ parked' = [parked EXCEPT ![b] = Tail(@)]
            /\ Goto(b, "repost")
    /\ UNCHANGED <<logVars, envVars, batch, lost, phase, ctrl, queue, hold,
                   sent, mirrors, posted>>

\* Seeded fault: the re-delivery of a parked message is mirrored like an emit.
RepostMirrored(b) ==
    /\ pc[b] = "repost"
    /\ queue' = [queue EXCEPT ![b]["inbox"] = Append(@, Head(moving[b]))]
    /\ Record(Head(moving[b]))
    /\ moving' = [moving EXCEPT ![b] = <<>>]
    /\ Goto(b, "unpark")
    /\ UNCHANGED <<logVars, envVars, batch, lost, phase, ctrl, hold, parked,
                   sent, posted>>

\* ... and XADD to the body's own inbox, a Wave included, with no mirror.
Repost(b) ==
    /\ pc[b] = "repost"
    /\ queue' = [queue EXCEPT ![b]["inbox"] = Append(@, Head(moving[b]))]
    /\ moving' = [moving EXCEPT ![b] = <<>>]
    /\ Goto(b, "unpark")
    /\ UNCHANGED <<logVars, envVars, batch, lost, phase, ctrl, hold, parked,
                   sent, mirrors, posted>>

Took(q) == IF Len(q) < ReadCount THEN Len(q) ELSE ReadCount

\* poll_once: up to ReadCount new entries of each stream; none after block_ms.
Poll(b) ==
    /\ pc[b] = "poll"
    /\ batch' = [batch EXCEPT ![b] = [s \in Stream |->
                    SubSeq(queue[b][s], 1, Took(queue[b][s]))]]
    /\ queue' = [queue EXCEPT ![b] = [s \in Stream |->
                    SubSeq(@[s], Took(@[s]) + 1, Len(@[s]))]]
    /\ Goto(b, IF InHand(queue[b]) THEN "check" ELSE "beat")
    /\ UNCHANGED <<logVars, envVars, lost, phase, ctrl, moving, hold, parked,
                   sent, mirrors, posted>>

-----------------------------------------------------------------------------
(* The pipeline: process() *)

\* Own Wave, then is_killed and is_project_killed.
CheckKill(b) ==
    /\ pc[b] = "check"
    /\ LET e == Cur(b)
           drop == ~OwnWave(b, e) /\ Killed(b, e)
       IN /\ IF drop THEN Mark(b, e, "ACKED") ELSE UNCHANGED log
          /\ Goto(b, CASE OwnWave(b, e) -> "ack"
                       [] drop -> "endnote"
                       [] OTHER -> "pause")
    /\ UNCHANGED <<wireVars, envVars, batch, lost, phase, ctrl, moving, saved,
                   sessions, heard, ended>>

\* is_paused, the log, and the Horizon on a first encounter.
CheckPause(b) ==
    /\ pc[b] = "pause"
    /\ LET e == Cur(b)
           state == log[b][e.mid]
           paused == conv[e.conv] = "paused"
           dies == ~paused /\ state = "none" /\ HorizonReached(e)
       IN /\ parked' = IF paused THEN [parked EXCEPT ![b] = Append(@, e)]
                                 ELSE parked
          /\ IF dies THEN Mark(b, e, "ACKED") ELSE UNCHANGED log
          /\ ctrl' = [ctrl EXCEPT ![b] = IF ~paused /\ state = "CLAUDE_DONE"
                                         THEN saved[b][e.mid] ELSE Silent]
          /\ Goto(b, CASE paused -> "ack"
                       [] dies -> "endnote"
                       [] ~paused /\ ~dies /\ state = "none" -> "count"
                       [] OTHER -> Resume(state))
    /\ UNCHANGED <<envVars, batch, lost, phase, moving, queue, hold, sent,
                   mirrors, posted, saved, sessions, heard, ended>>

\* RateLimiter.exceeded: INCR, then compare.
Count(b) ==
    /\ pc[b] = "count"
    /\ LET c == Cur(b).conv
       IN /\ rate' = [rate EXCEPT ![c] = @ + 1]
          /\ Goto(b, IF RateExceeded(rate[c] + 1) THEN "limit" ELSE "receive")
    /\ UNCHANGED <<logVars, wireVars, batch, lost, phase, ctrl, moving, conv,
                   slain, online, registry, budget>>

Limit(b) ==
    /\ pc[b] = "limit"
    /\ Mark(b, Cur(b), "ACKED")
    /\ Goto(b, "endnote")
    /\ UNCHANGED <<wireVars, envVars, batch, lost, phase, ctrl, moving, saved,
                   sessions, heard, ended>>

\* Seeded fault: a message is dropped without its event.
EndNoteSkipped(b) ==
    /\ pc[b] = "endnote"
    /\ Goto(b, "ack")
    /\ UNCHANGED <<logVars, wireVars, envVars, batch, lost, phase, ctrl, moving>>

\* The "terminated" event of a killed, expired, rate-limited or (typed so by
\* EVENT_TYPE_BY_KIND) duplicate message.
EndNote(b) ==
    /\ pc[b] = "endnote"
    /\ ended' = ended \cup {<<b, Cur(b).from, Cur(b).mid>>}
    /\ Goto(b, "ack")
    /\ UNCHANGED <<wireVars, envVars, batch, lost, phase, ctrl, moving, log,
                   saved, sessions, heard>>

Receive(b) ==
    /\ pc[b] = "receive"
    /\ Mark(b, Cur(b), "RECEIVED")
    /\ Goto(b, "turn")
    /\ UNCHANGED <<wireVars, envVars, batch, lost, phase, ctrl, moving, saved,
                   sessions, heard, ended>>

\* _produce_control and _apply_wave_policy: nothing durable yet.
Turn(b) ==
    /\ pc[b] = "turn"
    /\ \E c \in Control :
          ctrl' = [ctrl EXCEPT ![b] = WavePolicy(Cur(b), c)]
    /\ heard' = heard \cup {<<b, Cur(b).from, Cur(b).mid>>}
    /\ Goto(b, "save")
    /\ UNCHANGED <<wireVars, envVars, batch, lost, phase, moving, log, saved,
                   sessions, ended>>

\* Seeded fault: the state is logged, Claude's result is not.
SaveStateOnly(b) ==
    /\ pc[b] = "save"
    /\ Mark(b, Cur(b), "CLAUDE_DONE")
    /\ Goto(b, "session")
    /\ UNCHANGED <<wireVars, envVars, batch, lost, phase, ctrl, moving, saved,
                   sessions, heard, ended>>

\* save_claude_result
Save(b) ==
    /\ pc[b] = "save"
    /\ Mark(b, Cur(b), "CLAUDE_DONE")
    /\ saved' = [saved EXCEPT ![b][Cur(b).mid] = ctrl[b]]
    /\ Goto(b, "session")
    /\ UNCHANGED <<wireVars, envVars, batch, lost, phase, ctrl, moving,
                   sessions, heard, ended>>

\* session_store.set, when the turn reported a session
StoreSession(b) ==
    /\ pc[b] = "session"
    /\ sessions' = [sessions EXCEPT ![b] =
                       IF ctrl[b].session THEN @ \cup {Cur(b).conv} ELSE @]
    /\ Goto(b, "reply")
    /\ UNCHANGED <<wireVars, envVars, batch, lost, phase, ctrl, moving, log,
                   saved, heard, ended>>

\* The reply as _deliver_reply builds it.
ReplyOf(b) == MakeReply(Cur(b), b, Recipient(Cur(b), ctrl[b]))

\* No reply, a gated one or a rejected one: nothing leaves.
Withhold(b) ==
    /\ pc[b] = "reply"
    /\ ~Deliverable(Cur(b), ctrl[b])
    /\ Goto(b, "emitted")
    /\ UNCHANGED <<logVars, wireVars, envVars, batch, lost, phase, ctrl, moving>>

\* The recipient's heartbeat is gone: the reply waits on its hold list.
HoldReply(b) ==
    /\ pc[b] = "reply"
    /\ Deliverable(Cur(b), ctrl[b])
    /\ ReplyOf(b).to \notin online
    /\ hold' = [hold EXCEPT ![ReplyOf(b).to] = Append(@, ReplyOf(b))]
    /\ sent' = sent \cup {ReplyOf(b)}
    /\ Goto(b, "emitted")
    /\ UNCHANGED <<logVars, envVars, batch, lost, phase, ctrl, moving, queue,
                   parked, mirrors, posted>>

\* emit: XADD to the recipient's inbox ...
EmitReply(b) ==
    /\ pc[b] = "reply"
    /\ Deliverable(Cur(b), ctrl[b])
    /\ ReplyOf(b).to \in online
    /\ XAdd(ReplyOf(b))
    /\ sent' = sent \cup {ReplyOf(b)}
    /\ Goto(b, "mirror")
    /\ UNCHANGED <<logVars, envVars, batch, lost, phase, ctrl, moving, hold,
                   parked, mirrors, posted>>

\* ... then the mirror in aether:events.
MirrorReply(b) ==
    /\ pc[b] = "mirror"
    /\ Record(ReplyOf(b))
    /\ Goto(b, "emitted")
    /\ UNCHANGED <<logVars, envVars, batch, lost, phase, ctrl, moving, queue,
                   hold, parked, sent, posted>>

MarkEmitted(b) ==
    /\ pc[b] = "emitted"
    /\ Mark(b, Cur(b), "REPLY_EMITTED")
    /\ Goto(b, "finish")
    /\ UNCHANGED <<wireVars, envVars, batch, lost, phase, ctrl, moving, saved,
                   sessions, heard, ended>>

Finish(b) ==
    /\ pc[b] = "finish"
    /\ Mark(b, Cur(b), "ACKED")
    /\ Goto(b, "ack")
    /\ UNCHANGED <<wireVars, envVars, batch, lost, phase, ctrl, moving, saved,
                   sessions, heard, ended>>

\* Where the end of a batch, read or recovered, leads.
Proceed(b, more) ==
    /\ Goto(b, IF more THEN "check"
               ELSE IF phase[b] = "start" THEN "drain" ELSE "beat")
    /\ phase' = [phase EXCEPT ![b] =
                    IF ~more /\ @ = "recover" THEN "loop" ELSE @]

\* XACK, and on to the next entry, the start-up flush or the next cycle.
Ack(b) ==
    /\ pc[b] = "ack"
    /\ batch' = [batch EXCEPT ![b][Via(b)] = Tail(@)]
    /\ ctrl' = [ctrl EXCEPT ![b] = Silent]
    /\ Proceed(b, InHand(batch'[b]))
    /\ UNCHANGED <<logVars, wireVars, envVars, lost, moving>>

-----------------------------------------------------------------------------
(* Faults *)

\* What is left of a body's work in memory when it stops: nothing.
Forget(b) ==
    /\ lost' = [lost EXCEPT ![b] = [s \in Stream |-> @[s] \o batch[b][s]]]
    /\ batch' = [batch EXCEPT ![b] = Empty]
    /\ moving' = [moving EXCEPT ![b] = <<>>]
    /\ ctrl' = [ctrl EXCEPT ![b] = Silent]

\* The process dies between two writes; its heartbeat key lives on (Lapse).
Crash(b) ==
    /\ pc[b] # "down"
    /\ Spend("crash")
    /\ Forget(b)
    /\ phase' = [phase EXCEPT ![b] = "loop"]
    /\ Goto(b, "down")
    /\ UNCHANGED <<logVars, wireVars, conv, slain, online, registry, rate>>

\* A ConnectionError inside the loop is caught by it (during start-up it is a
\* Crash).  Inside the except branch's own recovery every exception, a failed
\* Claude run included, is swallowed and the loop just goes on.
Drop(b) ==
    /\ pc[b] \notin {"down", "reconnect"} /\ phase[b] # "start"
    /\ Spend("drop")
    /\ Forget(b)
    /\ Goto(b, IF phase[b] = "recover" THEN "beat" ELSE "reconnect")
    /\ phase' = [phase EXCEPT ![b] = "loop"]
    /\ UNCHANGED <<logVars, wireVars, conv, slain, online, registry, rate>>

\* The except branch: ping and recover_pending ...
Reconnect(b) ==
    /\ pc[b] = "reconnect"
    /\ batch' = [batch EXCEPT ![b] = lost[b]]
    /\ lost' = [lost EXCEPT ![b] = Empty]
    /\ Goto(b, IF InHand(lost[b]) THEN "check" ELSE "beat")
    /\ phase' = [phase EXCEPT ![b] = IF InHand(lost[b]) THEN "recover" ELSE @]
    /\ UNCHANGED <<logVars, wireVars, envVars, ctrl, moving>>

\* ... and a ping that fails: the loop goes on without recovery.
ReconnectFails(b) ==
    /\ pc[b] = "reconnect"
    /\ Spend("drop")
    /\ Goto(b, "beat")
    /\ UNCHANGED <<logVars, wireVars, batch, lost, phase, ctrl, moving, conv,
                   slain, online, registry, rate>>

-----------------------------------------------------------------------------
(* The outside world *)

\* A sender mints and emits an envelope; a Wave reaches every body's group,
\* which reads the broadcast stream from its beginning (ensure_group id="0").
Post(o) ==
    /\ o \notin posted
    /\ posted' = posted \cup {o}
    /\ sent' = sent \cup {o}
    /\ IF IsWave(o)
       THEN queue' = [b \in Body |->
                [queue[b] EXCEPT !["broadcast"] = Append(@, o)]]
       ELSE XAdd(o)
    /\ Record(o)
    /\ UNCHANGED <<pipeVars, logVars, envVars, hold, parked>>

\* A heartbeat key outlives its TTL: the body is down, or busy for longer.
Lapse(i) ==
    /\ i \in online
    /\ Spend("lapse")
    /\ online' = online \ {i}
    /\ UNCHANGED <<pipeVars, logVars, wireVars, conv, slain, registry, rate>>

\* The clock enters a new rate window.
NextWindow ==
    /\ Spend("window")
    /\ rate' = [c \in Conv |-> 0]
    /\ UNCHANGED <<pipeVars, logVars, wireVars, conv, slain, online, registry>>

\* ControlPlane.pause, .resume and .kill; ControlPlane.tla splits resume.
SetControl(c) ==
    /\ Spend("operator")
    /\ \/ conv' = [conv EXCEPT ![c] = "paused"]
       \/ conv[c] = "paused" /\ conv' = [conv EXCEPT ![c] = "active"]
       \/ conv' = [conv EXCEPT ![c] = "killed"]
    /\ UNCHANGED <<pipeVars, logVars, wireVars, slain, online, registry, rate>>

KillProject(b) ==
    /\ Spend("operator")
    /\ slain' = slain \cup {b}
    /\ UNCHANGED <<pipeVars, logVars, wireVars, conv, online, registry, rate>>

-----------------------------------------------------------------------------
Step(b) ==
    \/ Start(b) \/ Beat(b) \/ Drain(b) \/ Flush(b) \/ FlushMirror(b)
    \/ Unpark(b) \/ Repost(b) \/ Poll(b)
    \/ CheckKill(b) \/ CheckPause(b) \/ Count(b) \/ Limit(b) \/ EndNote(b)
    \/ Receive(b) \/ Turn(b) \/ Save(b) \/ StoreSession(b)
    \/ Withhold(b) \/ HoldReply(b) \/ EmitReply(b) \/ MirrorReply(b)
    \/ MarkEmitted(b) \/ Finish(b) \/ Ack(b) \/ Reconnect(b)

Next ==
    \/ \E b \in Body : Step(b)
    \/ \E b \in Body : Crash(b) \/ Drop(b) \/ ReconnectFails(b)
    \/ \E o \in Origin : Post(o)
    \/ \E i \in Id : Lapse(i)
    \/ \E c \in Conv : SetControl(c)
    \/ \E b \in Body : KillProject(b)
    \/ NextWindow

Spec == Init /\ [][Next]_vars

\* An Observatory that can take its next step does; faults and the outside
\* world are not fair.
FairSpec == Spec /\ \A b \in Body : WF_vars(Step(b))

-----------------------------------------------------------------------------
(* Properties *)

\* Every envelope is well formed wherever it is stored, and every key of the
\* bus holds a value that the code can read back.
TypeOK ==
    /\ posted \subseteq Origin /\ sent \subseteq Envelope
    /\ queue \in [Body -> [Stream -> Seq(Envelope)]]
    /\ batch \in [Body -> [Stream -> Seq(Envelope)]]
    /\ lost \in [Body -> [Stream -> Seq(Envelope)]]
    /\ hold \in [Id -> Seq(Envelope)]
    /\ parked \in [Body -> Seq(Envelope)]
    /\ moving \in [Body -> Seq(Envelope)]
    /\ log \in [Body -> [Mid -> LogState]]
    /\ saved \in [Body -> [Mid -> ControlBlock]]
    /\ sessions \in [Body -> SUBSET Conv]
    /\ pc \in [Body -> Pc]
    /\ phase \in [Body -> Phase]
    /\ ctrl \in [Body -> ControlBlock]
    /\ conv \in [Conv -> {"active", "paused", "killed"}]
    /\ slain \subseteq Body
    /\ online \subseteq Id /\ registry \subseteq Id
    /\ rate \in [Conv -> Nat]
    /\ mirrors \in [Id \X Mid -> Nat]
    /\ ended \subseteq Body \X Id \X (Root \X Nat)
    /\ heard \subseteq Body \X Id \X (Root \X Nat)
    /\ budget \in [Fault -> Nat]

\* Where a message for body b can be between its sending and its XACK.
InTransit(b) ==
    Range(hold[b]) \cup Range(parked[b]) \cup Range(moving[b]) \cup
    UNION {Range(queue[b][s]) \cup Range(batch[b][s]) \cup Range(lost[b][s])
              : s \in Stream}

For(b, e) == e.to = b \/ (IsWave(e) /\ e.from # b)

\* Horizon (guards.horizon_reached): no envelope travels beyond its ceiling and
\* Claude is never run on one that has reached it, redeliveries, which skip the
\* guard, included.
HorizonHolds ==
    /\ \A e \in sent : e.hop <= e.max
    /\ \A h \in heard : \E o \in Origin :
          o.mid[1] = h[3][1] /\ h[3][2] < o.max

\* recover_pending and the log: a message handed to the transport is in some
\* queue of its recipient until the recipient's log says it is done with.
NoMessageLost ==
    \A b \in Body : \A e \in sent :
        For(b, e) => e \in InTransit(b) \/ log[b][e.mid] = "ACKED"

\* Nothing disappears without a trace: a message that is no longer in transit
\* was put to Claude or is in the Terminated Log, although the log entry is
\* written before the event and a crash can fall between the two.
NothingVanishes ==
    \A b \in Body : \A e \in sent :
        For(b, e) => \/ e \in InTransit(b)
                     \/ <<b, e.from, e.mid>> \in heard
                     \/ <<b, e.from, e.mid>> \in ended

\* _deliver_reply on a solicited Wave: "The originator collects and decides what
\* to do next."  What the originator is done with of the answers to its Wave,
\* short of the Horizon, was put to its Claude.
AnswersCollected ==
    \A o \in sent : \A e \in sent :
        /\ IsWave(o) /\ o.solicit /\ o.from \in Body
        /\ e.mid = DeriveReplyId(o.mid) /\ e.to = o.from /\ ~HorizonReached(e)
        => \/ e \in InTransit(o.from)
           \/ <<o.from, e.from, e.mid>> \in heard

\* The log is an outbox: whatever is re-emitted after a crash, a body sends one
\* and the same reply to a message, never two different ones.
ReplyDetermined ==
    \A s, t \in sent : s.from = t.from /\ s.mid = t.mid => s = t

\* Wave policy and routing (s18.1): no reply is a Wave, an unsolicited Wave
\* breeds no message, a solicited one is answered to its originator, and only
\* there is the registry not consulted.
ReplyRouting ==
    \A e \in sent \ Origin :
        /\ ~IsWave(e)
        /\ \E o \in Origin :
              /\ o.mid[1] = e.mid[1]
              /\ IsWave(o) => o.solicit
              /\ IF IsWave(o) /\ e.mid[2] = 1 THEN e.to = o.from
                                              ELSE e.to \in registry

\* emit, flush_hold and the paused re-delivery together record a message in
\* aether:events once, however often it is parked, held and moved.
Unmirrored == (UNION {Range(hold[i]) : i \in Id}) \cup
              (UNION {Range(moving[b]) : b \in Body}) \cup
              {ReplyOf(b) : b \in {x \in Body : pc[x] = "mirror"}}
MirroredOnce ==
    \A e \in sent :
        /\ mirrors[<<e.from, e.mid>>] <= 1
        /\ e \notin Unmirrored => mirrors[<<e.from, e.mid>>] = 1

\* ProcessingLog's "monotonic ordering": no write moves a message's state back.
LogMonotone ==
    [][\A b \in Body : \A m \in Mid :
          Order[log[b][m]] <= Order[log'[b][m]]]_log

\* Whom a body has sent replies to, by the message they answer.
Replies == [b \in Body |-> [m \in Mid |->
    {e.to : e \in {r \in sent : r.from = b /\ r.mid = DeriveReplyId(m)}}]]
Promise == INSTANCE Outbox WITH stage <- log, result <- saved, out <- Replies,
                                NoResult <- Silent
\* The pipeline implements the processing log's promise: Claude is never
\* re-invoked once CLAUDE_DONE is logged, no reply leaves once REPLY_EMITTED is,
\* and a crash between any two writes of process() changes neither.
KeepsPromise == Promise!Spec

\* Every message sent to a body is eventually done with.
EventuallySettled ==
    \A b \in Body : \A m \in Mid :
        (\E e \in sent : For(b, e) /\ e.mid = m) ~> log[b][m] = "ACKED"

-----------------------------------------------------------------------------
(* The inductive invariant behind TypeOK and HorizonHolds *)

\* Every place that stores envelopes holds members of S only.
Stored(S) ==
    /\ sent \subseteq S
    /\ queue \in [Body -> [Stream -> Seq(S)]]
    /\ batch \in [Body -> [Stream -> Seq(S)]]
    /\ lost \in [Body -> [Stream -> Seq(S)]]
    /\ hold \in [Id -> Seq(S)]
    /\ parked \in [Body -> Seq(S)]
    /\ moving \in [Body -> Seq(S)]

\* The steps that work on the entry in hand, and those that only happen once
\* the Horizon guard has let it pass.
Guarded == {"count", "receive", "turn", "save", "session", "reply", "mirror",
            "emitted", "finish"}
Busy == Guarded \cup {"check", "pause", "limit", "endnote", "ack"}

\* A step that works on an entry has one.
HandInv ==
    \A b \in Body :
        /\ pc[b] \in Busy => InHand(batch[b])
        /\ pc[b] \in {"mirrorheld", "repost"} => moving[b] # <<>>

\* A message id below the ceiling of the conversation it belongs to.
Below(m) == \E o \in Origin : o.mid[1] = m[1] /\ m[2] < o.max

\* Envelopes that descend from an origin by replies within its ceiling.
Bounded ==
    {e \in Envelope :
        /\ e.hop = e.mid[2] /\ e.hop <= e.max
        /\ \E o \in Origin : o.mid[1] = e.mid[1] /\ o.max = e.max}

\* What the Horizon guard established outlives it: in the log, for the
\* redeliveries that skip the guard, and in the step the body is at.
GuardInv ==
    /\ \A b \in Body : \A m \in Mid :
          log[b][m] \in {"RECEIVED", "CLAUDE_DONE", "REPLY_EMITTED"} => Below(m)
    /\ \A b \in Body : pc[b] \in Guarded => Below(Cur(b).mid)
    /\ \A h \in heard : Below(h[3])

HorizonInv == TypeOK /\ HandInv /\ Stored(Bounded) /\ GuardInv
=============================================================================
