-------------------------------- MODULE Turns --------------------------------
(***************************************************************************)
(* Claude's turns in one body, when its Observatory runs more than once:   *)
(* started twice, or restarted while the old process lives.  All processes *)
(* of a body are one consumer of one group and share its log, its sessions *)
(* and one lock per conversation (observatory/main.py), and each runs      *)
(* `claude -p` as a child (claude_runner.py).  Routing, guards, events and *)
(* the operator are in Observatory.                                        *)
(***************************************************************************)
EXTENDS Naturals, FiniteSets

CONSTANTS
    Proc,        \* the processes
    Msg,         \* inbound messages, numbered as the inbox stream has them
    Conv,        \* their conversations
    ConvOf,
    Retries,     \* malformed_retries
    Free, Ghost, \* no holder of a lock; a holder that died
    NoMsg,
    MaxRuns,     \* bound: runs of Claude
    MaxFaults,   \* bound: processes killed, runs that fail, and locks gone
                 \* past or lapsed under a living holder
    MaxExpired   \* bound: sessions that cannot be resumed any more

VARIABLES
    unread,     \* the inbox stream beyond the group's last-delivered id
    pending,    \* the group's pending entries
    hand,       \* what each process still has of its last claim or read
    me,         \* each process: what it does next, and its locals
    log,        \* the processing log
    saved,      \* claude_result of the log, by the run that gave it
    sent,       \* history: the results that replies were sent from
    lock,       \* aether:lock:conv:<body>:<conversation>
    session,    \* the session store, by the run that opened the session
    expired,    \* sessions Claude has lost
    runs,       \* history: runs of Claude so far, the name of the latest
    latest,     \* history: the session of the last result saved
    torn,       \* history: conversations whose lock somebody went past
    setback,    \* history: messages marked RECEIVED again
    cut,        \* history: conversations whose session was not stored
    faults

vars == <<unread, pending, hand, me, log, saved, sent, lock, session, expired,
          runs, latest, torn, setback, cut, faults>>
streamVars == <<unread, pending>>
logVars == <<log, saved, sent>>
sessionVars == <<session, expired, latest, cut>>
lockVars == <<lock, torn>>

ASSUME TurnsAssumption ==
    /\ ConvOf \in [Msg -> Conv]
    /\ Free # Ghost /\ {Free, Ghost} \cap Proc = {}
    /\ Msg \subseteq Nat /\ NoMsg \notin Msg
    /\ Retries \in Nat /\ MaxRuns \in Nat /\ MaxFaults \in Nat
    /\ MaxExpired \in Nat

Stage == {"none", "RECEIVED", "CLAUDE_DONE", "REPLY_EMITTED", "ACKED"}
Working == {"check", "run", "answer", "save", "store", "reply",
            "mark", "finish"}
Session == 0 .. MaxRuns   \* 0 for none

Local(at, m) == [at |-> at, msg |-> m, locked |-> FALSE, tries |-> 0,
                 resume |-> 0, sid |-> 0, result |-> 0]

\* What a process knows: the next step and the locals of the pipeline.
Locals == [at : Working \cup {"down", "next", "receive", "lock", "ack"},
           msg : Msg \cup {NoMsg}, locked : BOOLEAN, tries : 0 .. Retries,
           resume : Session, sid : Session, result : Session]

TypeOK ==
    /\ unread \subseteq Msg /\ pending \subseteq Msg
    /\ hand \in [Proc -> SUBSET Msg]
    /\ me \in [Proc -> Locals]
    /\ log \in [Msg -> Stage] /\ saved \in [Msg -> Session]
    /\ sent \in [Msg -> SUBSET Session]
    /\ lock \in [Conv -> Proc \cup {Free, Ghost}]
    /\ session \in [Conv -> Session] /\ latest \in [Conv -> Session]
    /\ expired \subseteq Session
    /\ torn \subseteq Conv /\ cut \subseteq Conv
    /\ setback \subseteq Msg
    /\ runs \in Session /\ faults \in Nat

Init ==
    /\ unread = Msg /\ pending = {}
    /\ hand = [p \in Proc |-> {}]
    /\ me = [p \in Proc |-> Local("down", NoMsg)]
    /\ log = [m \in Msg |-> "none"] /\ saved = [m \in Msg |-> 0]
    /\ sent = [m \in Msg |-> {}]
    /\ lock = [c \in Conv |-> Free] /\ session = [c \in Conv |-> 0]
    /\ latest = [c \in Conv |-> 0] /\ expired = {}
    /\ torn = {} /\ cut = {} /\ setback = {} /\ runs = 0 /\ faults = 0

Inside(p) == me[p].at \in Working
ConvAt(p) == ConvOf[me[p].msg]

\* Seeded fault: the log is not read again under the lock.
NeverPast(m, stage) == FALSE

\* ProcessingLog.at_least
Past(m, stage) ==
    \/ log[m] \in {"REPLY_EMITTED", "ACKED"}
    \/ log[m] = "CLAUDE_DONE" /\ stage = "CLAUDE_DONE"

Goto(p, at) == me' = [me EXCEPT ![p].at = at]

At(p, at) == me[p].at = at

-----------------------------------------------------------------------------
(* The loop: recover_pending, then poll_once for ever *)

\* Seeded fault: a claim of idle entries only, that finds none.
NothingIdle == {}

\* recover_pending with min_idle_ms = 0 claims every pending entry, those
\* another process has in hand included.
Claimed == pending

Start(p) ==
    /\ At(p, "down")
    /\ hand' = [hand EXCEPT ![p] = Claimed]
    /\ Goto(p, "next")
    /\ UNCHANGED <<streamVars, logVars, sessionVars, lockVars, runs,
                   setback, faults>>

\* XREADGROUP gives what has arrived by now, oldest first.
Poll(p) ==
    /\ At(p, "next") /\ hand[p] = {}
    /\ \E m \in unread :
           LET batch == {k \in unread : k <= m} IN
           /\ hand' = [hand EXCEPT ![p] = batch]
           /\ pending' = pending \cup batch
           /\ unread' = unread \ batch
    /\ UNCHANGED <<me, logVars, sessionVars, lockVars, runs, setback,
                   faults>>

Ack(p) ==
    /\ At(p, "ack")
    /\ pending' = pending \ {me[p].msg}
    /\ me' = [me EXCEPT ![p] = Local("next", NoMsg)]
    /\ UNCHANGED <<unread, hand, logVars, sessionVars, lockVars, runs,
                   setback, faults>>

-----------------------------------------------------------------------------
(* process: the log is read, and a first encounter marked, outside the lock *)

Take(p) ==
    /\ At(p, "next")
    /\ \E m \in hand[p] :
           /\ \A k \in hand[p] : m <= k
           /\ hand' = [hand EXCEPT ![p] = @ \ {m}]
           /\ me' = [me EXCEPT ![p] =
                  Local(CASE log[m] = "ACKED" -> "ack"
                          [] log[m] = "none" -> "receive"
                          [] OTHER -> "lock", m)]
    /\ UNCHANGED <<streamVars, logVars, sessionVars, lockVars, runs,
                   setback, faults>>

Receive(p) ==
    /\ At(p, "receive")
    /\ log' = [log EXCEPT ![me[p].msg] = "RECEIVED"]
    /\ setback' = IF log[me[p].msg] = "none" THEN setback
                                             ELSE setback \cup {me[p].msg}
    /\ Goto(p, "lock")
    /\ UNCHANGED <<streamVars, hand, saved, sent, sessionVars, lockVars,
                   runs, faults>>

-----------------------------------------------------------------------------
(* _conversation_lock *)

\* Seeded fault: the key is set whether it exists or not.
AlwaysSet(c) == TRUE

\* SET NX
Available(c) == lock[c] = Free

Lock(p) ==
    /\ At(p, "lock") /\ Available(ConvAt(p))
    /\ lock' = [lock EXCEPT ![ConvAt(p)] = p]
    /\ me' = [me EXCEPT ![p].at = "check", ![p].locked = TRUE]
    /\ UNCHANGED <<streamVars, hand, logVars, sessionVars, torn, runs,
                   setback, faults>>

\* After blocking_timeout acquire returns False, which nobody looks at.
GiveUp(p) ==
    /\ At(p, "lock") /\ lock[ConvAt(p)] # Free
    /\ faults < MaxFaults /\ faults' = faults + 1
    /\ torn' = torn \cup {ConvAt(p)}
    /\ Goto(p, "check")
    /\ UNCHANGED <<streamVars, hand, logVars, sessionVars, lock, runs,
                   setback>>

\* The key's TTL of 30 s passes, its holder still at work or not.
Lapse(c) ==
    /\ lock[c] # Free
    /\ lock' = [lock EXCEPT ![c] = Free]
    /\ \/ lock[c] = Ghost /\ UNCHANGED <<torn, faults>>
       \/ /\ lock[c] \in Proc /\ torn' = torn \cup {c}
          /\ faults < MaxFaults /\ faults' = faults + 1
    /\ UNCHANGED <<streamVars, hand, me, logVars, sessionVars, runs,
                   setback>>

\* Seeded fault: a release that does not look at the token.
ReleasesAny(p, c) == TRUE

\* release() deletes the key only where it holds the caller's token; that it
\* does not is an error that is swallowed.
Owns(p, c) == lock[c] = p

Released(p) ==
    IF me[p].locked /\ Owns(p, ConvAt(p))
    THEN [lock EXCEPT ![ConvAt(p)] = Free] ELSE lock

-----------------------------------------------------------------------------
(* _process_locked and _produce_control *)

\* Seeded fault: no session is looked up.
StartsAfresh(c) == 0

Resumed(c) == session[c]

Check(p) ==
    /\ At(p, "check")
    /\ IF Past(me[p].msg, "CLAUDE_DONE")
       THEN me' = [me EXCEPT ![p].at = "reply", ![p].result = saved[me[p].msg]]
       ELSE me' = [me EXCEPT ![p].at = "run",
                             ![p].resume = Resumed(ConvAt(p))]
    /\ UNCHANGED <<streamVars, hand, logVars, sessionVars, lockVars, runs,
                   setback, faults>>

\* RealClaudeRunner.run: the child prints its init event with the session id.
Talk(p) ==
    /\ At(p, "run") /\ runs < MaxRuns /\ me[p].resume \notin expired
    /\ runs' = runs + 1
    /\ me' = [me EXCEPT ![p].at = "answer", ![p].sid = runs + 1]
    /\ UNCHANGED <<streamVars, hand, logVars, sessionVars, lockVars, setback,
                   faults>>

\* The result event and exit 0.  parse_control either finds a block
\* or raises; after the retries fail_safe is silence.
Answer(p) ==
    /\ At(p, "answer")
    /\ \/ me' = [me EXCEPT ![p].at = "save", ![p].result = me[p].sid]
       \/ /\ me[p].tries < Retries
          /\ me' = [me EXCEPT ![p].at = "run", ![p].tries = @ + 1,
                              ![p].resume = me[p].sid]
       \/ /\ me[p].tries = Retries
          /\ me' = [me EXCEPT ![p].at = "save", ![p].result = 0]
    /\ UNCHANGED <<streamVars, hand, logVars, sessionVars, lockVars, runs,
                   setback, faults>>

\* A non-zero exit, as of a session that cannot be resumed, or the wait after
\* the end of stdout timing out: run() raises, the lock is released on the
\* way, and nothing in run_observatory catches it.
Raise(p) ==
    /\ \/ At(p, "run") /\ me[p].resume \in expired /\ UNCHANGED faults
       \/ /\ At(p, "run") \/ At(p, "answer")
          /\ faults < MaxFaults /\ faults' = faults + 1
    /\ lock' = Released(p)
    /\ me' = [me EXCEPT ![p] = Local("down", NoMsg)]
    /\ hand' = [hand EXCEPT ![p] = {}]
    /\ UNCHANGED <<streamVars, logVars, sessionVars, torn, runs, setback>>

Save(p) ==
    /\ At(p, "save")
    /\ log' = [log EXCEPT ![me[p].msg] = "CLAUDE_DONE"]
    /\ saved' = [saved EXCEPT ![me[p].msg] = me[p].result]
    /\ latest' = [latest EXCEPT ![ConvAt(p)] = me[p].sid]
    /\ Goto(p, "store")
    /\ UNCHANGED <<streamVars, hand, sent, session, expired, cut, lockVars,
                   runs, setback, faults>>

Store(p) ==
    /\ At(p, "store")
    /\ session' = [session EXCEPT ![ConvAt(p)] = me[p].sid]
    /\ Goto(p, "reply")
    /\ UNCHANGED <<streamVars, hand, logVars, expired, latest, cut, lockVars,
                   runs, setback, faults>>

\* The reply goes out with what this process holds for the result.
Reply(p) ==
    /\ At(p, "reply")
    /\ IF Past(me[p].msg, "REPLY_EMITTED")
       THEN UNCHANGED sent /\ Goto(p, "finish")
       ELSE /\ sent' = IF me[p].result = 0 THEN sent
                       ELSE [sent EXCEPT ![me[p].msg] = @ \cup {me[p].result}]
            /\ Goto(p, "mark")
    /\ UNCHANGED <<streamVars, hand, log, saved, sessionVars, lockVars, runs,
                   setback, faults>>

Mark(p) ==
    /\ At(p, "mark")
    /\ log' = [log EXCEPT ![me[p].msg] = "REPLY_EMITTED"]
    /\ Goto(p, "finish")
    /\ UNCHANGED <<streamVars, hand, saved, sent, sessionVars, lockVars,
                   runs, setback, faults>>

Finish(p) ==
    /\ At(p, "finish")
    /\ log' = [log EXCEPT ![me[p].msg] = "ACKED"]
    /\ lock' = Released(p)
    /\ Goto(p, "ack")
    /\ UNCHANGED <<streamVars, hand, saved, sent, sessionVars, torn, runs,
                   setback, faults>>

-----------------------------------------------------------------------------
(* Faults *)

\* The process is killed; its lock stays until its TTL.
Kill(p) ==
    /\ ~At(p, "down") /\ faults < MaxFaults
    /\ faults' = faults + 1
    /\ lock' = [c \in Conv |-> IF lock[c] = p THEN Ghost ELSE lock[c]]
    /\ cut' = IF At(p, "store") THEN cut \cup {ConvAt(p)} ELSE cut
    /\ me' = [me EXCEPT ![p] = Local("down", NoMsg)]
    /\ hand' = [hand EXCEPT ![p] = {}]
    /\ UNCHANGED <<streamVars, logVars, session, expired, latest, torn, runs,
                   setback>>

\* Claude no longer has a session that the store still names.
Expire(c) ==
    /\ session[c] \notin expired \cup {0}
    /\ Cardinality(expired) < MaxExpired
    /\ expired' = expired \cup {session[c]}
    /\ UNCHANGED <<streamVars, hand, me, logVars, lockVars, session, latest,
                   cut, runs, setback, faults>>

-----------------------------------------------------------------------------
Step(p) ==
    \/ Start(p) \/ Poll(p) \/ Take(p) \/ Ack(p) \/ Receive(p) \/ Lock(p)
    \/ Check(p) \/ Talk(p) \/ Answer(p) \/ Save(p) \/ Store(p) \/ Reply(p)
    \/ Mark(p) \/ Finish(p)

Next ==
    \/ \E p \in Proc : Step(p) \/ GiveUp(p) \/ Raise(p) \/ Kill(p)
    \/ \E c \in Conv : Lapse(c) \/ Expire(c)

Spec == Init /\ [][Next]_vars

\* A process goes on, Claude answers or its run fails, a process that died or
\* raised is started again, and a lock whose holder died lapses.
FairSpec ==
    /\ Spec
    /\ \A p \in Proc : WF_vars(Step(p) \/ Raise(p))
    /\ \A c \in Conv : WF_vars(lock[c] = Ghost /\ Lapse(c))

-----------------------------------------------------------------------------
(* Properties *)

\* Strict serialization (main.py 147): two processes are never in the pipeline
\* with one conversation, unless a wait for its lock was given up or the lock
\* of a living holder lapsed.
SerialTurns ==
    \A p, q \in Proc :
        p # q /\ Inside(p) /\ Inside(q) /\ ConvAt(p) = ConvAt(q) =>
            ConvAt(p) \in torn

\* A lock leaves its holder by the holder's own step or by the clock, never by
\* another process that is late and whose own lock has lapsed (316-322).
ReleaseOwn ==
    [][\A c \in Conv, q \in Proc :
           lock[c] = q /\ lock'[c] # q => me' = me \/ me'[q] # me[q]]_vars

\* Claude is not run again once CLAUDE_DONE is logged (main.py 7-9), unless
\* the lock was gone past or a late RECEIVED undid the log.
TurnIsNew ==
    \A p \in Proc :
        me[p].at \in {"run", "answer", "save"} =>
            \/ log[me[p].msg] = "RECEIVED"
            \/ ConvAt(p) \in torn \/ me[p].msg \in setback

\* Two processes and any number of redeliveries send one and the same result,
\* with the same exceptions.
ReplyAgrees ==
    \A m \in Msg :
        Cardinality(sent[m]) > 1 => ConvOf[m] \in torn \/ m \in setback

\* A turn resumes the conversation's last session (13.3), whichever process
\* had it, unless the lock was gone past or a process died before storing it.
ResumesLatest ==
    \A p \in Proc :
        At(p, "run") /\ me[p].tries = 0 =>
            \/ me[p].resume = latest[ConvAt(p)]
            \/ ConvAt(p) \in torn \cup cut

\* Whatever process takes an entry and dies, every message is acknowledged,
\* unless its conversation's session cannot be resumed.
EventuallyAcked ==
    \A m \in Msg :
        (m \in pending) ~> \/ m \notin pending \/ runs = MaxRuns
                           \/ session[ConvOf[m]] \in expired
=============================================================================
