# Aether in TLA+

TLA+ specifications of Aether, the message bus over Redis on which projects
("bodies") talk to each other through headless Claude turns. The modules are
translated from the Python sources under `src/aether/`; line numbers below are of
those files. TLC checks small instances; TLAPS proves the theorems of the eight
`...Proofs` modules for every value of the constants.

## The system

| part | state it keeps | operations | talks to |
|---|---|---|---|
| Envelope (`core/envelope.py`) | none: the data contract | mint, reply, validate, derive the reply id | everything |
| Observatory (`observatory/main.py`, `run_observatory.py`), one per body | in memory: the entries in hand, popped hold lists; durable: everything below | start, heartbeat, flush held and parked messages, poll, process, acknowledge, reconnect | Redis only; other bodies through their inboxes |
| Transport (`core/aether_client.py`) | inbox and broadcast streams with one consumer group per body, pending entries, `aether:hold:*`, `aether:pausehold:*`, `aether:events` | emit, mirror, hold, drain, park, re-post, read, claim, ack | Redis |
| Guards (`core/guards.py`) | a counter per conversation and window | Horizon, rate limit | pipeline |
| Processing log (`core/processing_log.py`) | per body and message: state and Claude's saved result | mark, save, load | pipeline |
| Session store, heartbeat, registry (`core/`) | Claude session per conversation; keys with a TTL; one hash of bodies | get/set; beat/is_online; register (compare-and-set), add, remove | pipeline, senders, panel, MCP bridge |
| Control plane and operator panel (`core/control.py`, `operator_panel/`) | a key per conversation, a key per killed project; audit records | inject, pause, resume, terminate, kill a project, unregister | written by a thread pool, read by every Observatory |
| Stargazer (`stargazer/`) | a cursor per viewer | backlog, tail, reconnect; view models | reads `aether:events` only |
| MCP bridge, consult, send_message | a transient identity, a heartbeat thread, ids already handed out | ask, poll, discuss, control | bus, registry |
| Control parser, register gate, Claude runner, prompt | none; a child process per turn | text in, control block out; milestones | pipeline, `aether:events` |
| Connection settings, command line (`core/conn.py`, `cli.py`, `cli_support.py`) | `~/.aether/config.json`, `.mcp.json`, the constellation file | resolve, `bus use`, `register`, `client setup`, `mcp setup` | registry, every command that connects |
| demos, containers, web pages | files | - | - |

What is hard in it: a body can die or lose Redis between any two writes of a
pipeline of up to ten; delivery is at least once and the same message is answered
at most once only because of the log and of derived ids; a body may run twice, its
processes sharing one consumer group, one log and locks that expire; replies wait in
lists for bodies whose heartbeat lapsed; the operator pauses and kills while all that
runs, without locks; several bodies read one Wave; the event stream is trimmed under
its viewers; and a machine's commands resolve their bus anew each time, from four
sources.

What makes each part correct:

- envelope and guards: no conversation outlives its ceiling;
- pipeline, transport and log: nothing is lost, Claude is not run again once its
  result is logged, one reply per message, recorded once, everything eventually done;
- Wave policy and routing: no Wave breeds Waves, replies only to registered bodies;
- control plane: after a kill at most the message in hand runs, a resume does not undo
  it, the audit reconstructs the keys;
- registry: a record is replaced only by force, a running Observatory is the one on
  record, registrations end, sessions heal and go dark;
- locks and sessions: turns of one conversation are serial, each resumes the last one;
- Stargazer: no event skipped or shown twice but what was trimmed;
- askers: a reply is never passed over, and its absence explained;
- settings: what was pinged is what later commands, sessions and directories get.

The hazards, each at its line and with the property that would catch it, are in
`PROJECT.json`.

## The modules

**Envelope** has the fields that routing, bounding and deduplication depend on. A
`message_id` is the pair of the sender's uuid4 and the number of times
`derive_reply_id` was applied to it. Body text, intents and time stamps are left out.

**Observatory** is the core: all bodies' pipelines and resident loops over the
transport. Every action is one durable Redis write, with the reads that lead to
it, so crashes and other actors fall between any two writes; `pc[b]` is the next
step of body `b`. Correspondence:

| action | code |
|---|---|
| `Start` | `run_observatory.main` 123-161: register, `recover_pending` claims everything pending |
| `Beat`, `Drain`, `Flush`, `FlushMirror`, `Unpark`, `Repost`, `Poll` | one cycle of the loop, 165-173: `beat`, `flush_hold` (LPOPs, then XADD and mirror of each), `flush_paused` (LPOP, XADD), `poll_once` |
| `CheckKill`, `CheckPause`, `Count`, `Limit`, `EndNote`, `Receive` | `process` 106-149: own Wave, kill, pause, log, Horizon, rate, `RECEIVED`; `EndNote` is the event of what stops there, a skipped duplicate included, which is typed `terminated` too |
| `Turn`, `Save`, `StoreSession` | the Claude phase 154-171; the turn ends in any control block of `Control`, `Silent` being also the parser's fail-safe |
| `Withhold`, `HoldReply`, `EmitReply`, `MirrorReply`, `MarkEmitted`, `Finish` | the reply phase and `_deliver_reply` 175-190, 240-278 |
| `Ack` | `XACK`, and the end of a batch |
| `Crash`, `Drop`, `Reconnect`, `ReconnectFails` | death of the process; the except branch 174-185 |
| `Post`, `Lapse`, `NextWindow`, `SetControl`, `KillProject` | senders, heartbeat TTL, the clock, the operator |

The pending list of a consumer group is split into `batch`, what the process has
in hand, and `lost`, what was delivered and is unknown to it; claiming moves all of
`lost` to `batch`. Reads are merged with the write they lead to where no other
actor's write between them can be told apart from one before or after: the
log of a body is written by that body alone, a heartbeat or registry read before a
send is the linearization point of the send. The one place where that does
not hold, the two reads of the control key, is split in ControlPlane. A sender's
XADD and mirror are one step (`Post`): a sender that dies in between leaves nothing behind that
the pipeline depends on.

**Outbox** is the abstract specification of the processing log: per body and
message the stages pass in order, the result is fixed at `CLAUDE_DONE`, and at most
one recipient is ever sent a reply, only between `CLAUDE_DONE` and
`REPLY_EMITTED`. `KeepsPromise` is the refinement, with the log, the saved result
and the replies sent as the mapping.

**ControlPlane** has one conversation's control key, written by the panel's
handlers and the MCP bridges (`resume` split into its GET and its DELETE, the audit
after the write) and read by the gate of `process()` in three separate reads.
`Workers` is the number of requests handled at a time, by the panel's thread pool and
the bridges together; `Fail` ends one at any step, as a lost bus does. Two history
variables name what the races can do: `behind` is the resumes that had read a pause and
not yet deleted it when the key was set to killed; `astray` says that handlers have met
between the write of the key and their record, or that a record is missing, since the
last pause or terminate that met none.

**StarChart** is the registry and the heartbeats with everybody who writes them.
`aether:registry` is one hash, and `WATCH` is on the whole key, so any write of it
(`Break`) breaks the transaction of any call that is between its HGET and its EXEC.

| action | code |
|---|---|
| `Watch`, `Exec`, `Retry` | `Registry.register_body` 83-108: WATCH and HGET, the two early returns, EXEC, the WatchError branch and the bounded loop |
| `ClientSetup`, `SetupUnreachable` | `cmd_client_setup` 153-203: the file's entry is appended once and never rewritten, the bus is offered what this setup says |
| `StartObservatory`, `BeatObservatory`, `StopObservatory` | `run_observatory.main` 84-189, as far as the registry and the heartbeat are concerned |
| `Seed`, `Join`, `FirstBeat` | `AetherBridge.__init__` 60-84: an empty bus is seeded from the machine's file, then the session adds itself |
| `TickDue`, `TickBeat`, `TickAdd` | the heartbeat thread 86-101, which looks at the stop flag once per tick |
| `Leave`, `GoOffline`, `Exit` | `cleanup` 103-109 and the end of the process, also a kill at any point |
| `Unregister`, `RefuseOnline`, `Remove`, `Darken` | `OperatorService.unregister` 78-97, one Redis command each |
| `Lapse` | a heartbeat's TTL; a Claude turn may outlast it, so it may pass at any time |

The record of a host holds its `working_dir`, so records of two hosts are taken to
differ; where two machines have the same layout they do not, and both pass as
"unchanged". Session identities are `<project>-mcp`, shared by the sessions of a
project and never a project id. A host makes one call at a time and the panel
handles one unregister at a time; its audit record is ControlPlane's `Audit`.
`consult`'s identity is in Asks; the destructive `prune=True` sync of the demos is left
out.

`deposed` is a history variable: the running Observatories whose record an operator
or a forced setup took.

**Turns** takes one body apart in the other direction: several processes of it,
started twice or restarted while the old one lives (two hosts with the same directory
layout are that, too), over one consumer group, log, session store and lock per
conversation. Routing, guards and the operator are left to Observatory, where the lock
can be left out because one process excludes nobody.

| action | code |
|---|---|
| `Start`, `Poll`, `Ack` | `recover_pending` with `min_idle_ms=0`, which claims entries others have in hand; `XREADGROUP`; `XACK` |
| `Take`, `Receive` | `process` 106-149: the log is read, and `RECEIVED` written, outside the lock |
| `Lock`, `GiveUp`, `Lapse` | `_conversation_lock` 307-322: `SET NX`, the wait that ends with an ignored `False`, the 30 s TTL |
| `Check`, `Talk`, `Answer`, `Raise` | `_process_locked`, `_produce_control` 151-171 and `RealClaudeRunner.run`: the log again, the init event, the result, retries of a malformed one, and every exception, which ends the process |
| `Save`, `Store`, `Reply`, `Mark`, `Finish` | `CLAUDE_DONE`, the session, the reply, `REPLY_EMITTED`, `ACKED` and the release |
| `Kill`, `Expire` | the process dies and leaves its lock; Claude loses a session |

`torn`, `setback` and `cut` are history variables and name the exceptions: a
conversation whose lock somebody went past or that lapsed under a living holder, a
message put back to `RECEIVED` by a late process, a conversation whose process died
between `CLAUDE_DONE` and its session.

**Feed** is what one open page of Stargazer is promised: from a bounded window before
its connection on, every event once, in order, none missing but trimmed ones.
**StargazerFeed** is how it gets them.

| action | code |
|---|---|
| `Write` | `AetherClient._mirror` 172-175: `XADD` with `MAXLEN ~`, which may keep more |
| `ConnectFresh`, `ConnectResumed` | `sse_source` 50-61: the backlog, or `Last-Event-ID` |
| `Poll`, `Yield` | 63-75: `EventReader.tail`, one event at a time with the cursor |
| `Receive`, `Disconnect` | the browser's `EventSource`; whatever is on the way is lost |

Events are numbered in the stream's order. The mapping to Feed is `Reached`: the
browser's last event id, or where the window of its last fresh connection began.

**Asks** composes the interactive side: a `consult` process, a session of the MCP
bridge, and the body they ask, with the labels under which answers come back.

| action | code |
|---|---|
| `Register`, `Ask`, `MirrorAsk` | `consult.main` 79-85 |
| `Wait`, `TimeOut`, `Look`, `Leave`, `GoOffline` | 89-107: beat, deadline, `XRANGE` up to the first match, the `finally` |
| `Open`, `Tick`, `Close` | the bridge's registration, heartbeat thread and cleanup, split further in StarChart |
| `BridgeAsk`, `BridgeMirror` | `ask` 124-134 |
| `PollInbox`, `PollTail` | `poll` 143-159: the whole inbox, then the newest events |
| `Turn`, `CheckKnown`, `CheckOnline`, `Hold`, `Post`, `MirrorReply`, `Mark` | the body's turn and `_deliver_reply`, split at the reads that race with the askers |
| `Crash`, `Duplicate` | a redelivery after `CLAUDE_DONE`, from any step of the delivery up to the write of `REPLY_EMITTED`, and one after `ACKED` |

A reply is represented by its question. `EventType` says which records a viewer takes
for the end of a conversation: `held` and `duplicate_skipped` are among them.

**BusSettings** is one machine: the profile in `~/.aether`, the shell's environment
and directory, `.mcp.json`, and buses that come and go. A connection is a record of
settings; a bus accepts one that has what it asks for, its CA read in the present
directory.

| action | code |
|---|---|
| `Resolve`, `Pick` | `resolve_redis_kwargs` 77-138 |
| `BusUse`, `Register`, `ClientSetup` | `cmd_bus_use` 245-277, `cmd_register` 280-287 and the second half of `cmd_client_setup`, which resolves again |
| `McpSetup`, `SessionStart` | `cmd_mcp_setup` 97-150 with `build_mcp_server_entry`; `mcp_server.main` under Claude Code, with the entry over the shell's environment or alone |
| `Export`, `ChangeDir`, `BusChanges`, `SessionEnd` | the world |

`Register` has both branches of `cmd_register`: with `--host` it is `BusUse` and then
`ClientSetup`, without it `ClientSetup` alone, with the flags it was given and no
profile written. `home` is the bus of the star chart a body was put on, with the fields
that such a register had from its own flags or environment (`KeptApart`).

Host, port and database are taken not to be empty strings; the client certificate is
left out.

**ObservatoryProofs**, **DeliveryProofs** (which extends it), **StarChartProofs**,
**ControlPlaneProofs**, **TurnsProofs**, **StargazerFeedProofs**, **BusSettingsProofs**
and **AsksProofs** hold the theorems.
The `MC...` modules give the constants their values. Definitions that begin with "Seeded fault"
are faulty variants of the definition below them, used to see that each property
can fail.

## The runs

Bounds: two bodies `a`, `b` (three in `ObsWaveReplies`), a registered guest `g`, an
unknown id `u`, one conversation, at most two origin messages with a ceiling of two
hops, and a budget of faults and outside actions. A ceiling of two is the least at
which a reply is answered and the answer dies at the Horizon. Two bodies are
enough for every relation of the pipeline but one, two answers to one Wave, which
has a run with three, without faults. Two control blocks that differ in the recipient are enough to
see a turn that was repeated.

For StarChart: two hosts, one project id and two descriptions are what a race for an
id needs, and the thread of one session is a third writer; `ChartRace` takes the two
descriptions as interchangeable (no definition tells them apart). Liveness is asked
of one host and two sessions of one identity. `MaxRetries` is 2 for the code's 50:
enough for a retry that succeeds and for the call that gives up.

For Turns: two processes and two messages of one conversation, three runs of Claude
and one retry: enough for a process that finishes what another began, and for a
second message that resumes the first one's session; one fault of any kind and one
lost session. For StargazerFeed: eight events, a window and batches of two, three kept
by trimming and two lost connections, so that whole batches are trimmed while a page
is away. For Asks: one consult, one question of the bridge, their labels shared or
not, a tail of three events instead of 1000, so that one question and its answer fill
it, and one death. For BusSettings: a plain local bus and a TLS hub whose user
has two passwords, five command lines, four environments, two directories, one of
which holds `ca.crt`, and an old hand-written profile.

| cfg | asks | result |
|---|---|---|
| `ObsCrash` | a crash anywhere, or a dropped connection and a failed reconnection: `HorizonHolds`, `NoMessageLost`, `NothingVanishes`, `ReplyDetermined`, `LogMonotone`, `KeepsPromise` | hold |
| `ObsQuiet` | a body that starts late, a lapsed heartbeat, two operator actions, a new rate window, no fault: `NothingVanishes`, `MirroredOnce` | hold |
| `ObsWave` | a soliciting and an announcing Wave, all kinds of control blocks, a crash: `TypeOK`, `ReplyRouting` | hold |
| `ObsLive` | fair Observatories, one fault of any one kind: `EventuallySettled` | holds |
| `TurnsTwo` | two processes of one body, a fault, a lost session: `SerialTurns`, `TurnIsNew`, `ReplyAgrees`, `ResumesLatest`, `ReleaseOwn`, `EventuallyAcked` | hold, up to `torn`, `setback` and `cut` |
| `Control` | four requests, three at a time, each of which may fail, two bodies: `OneStraggler`, `AuditReconstructs`, `ResumeKeepsKill` | hold, up to `behind` and `astray` |
| `ChartRace` | two hosts, a session and the operator on one hash: `TypeOK`, `HoldsItsRecord`, `FailClosed` | hold |
| `ChartLive` | fair calls, threads and TTLs: `RegistrationEnds`, `SessionHeals`, `ClosedGoesDark` | hold |
| `StargazerFeed` | a page, trimming and lost connections: `InStep`, `FollowsFeed`, `EventuallyShown` | hold |
| `Asks` | a consult and a session, labels shared or not, a death: `NotOverlooked`, `AnswerOrTrace`, `WaitIsReached`, `PollTellsEnd`, `ConsultEnds` | hold |
| `BusSettings` | commands in any order, directory and environment, `register` with and without `--host`: `ProfileReproduces`, `RegisteredThere`, `PasswordApart`, `NeverPoisoned`, `PinnedEndpoint` | hold |
| `ObsWaveReplies` | two bodies answer one Wave: `AnswersCollected` | violated: both replies have one derived id, the second is skipped and its originator never hears it |

### Where the properties stop

What the code does not do, and the exceptions and instances above therefore leave open:

- A popped list is in memory only. `drain_hold` (aether_client.py 248) pops a hold list
  before `flush_hold` sends from it, and the parked list has the same gap (272). A
  crash there loses what main.py 270 says "will be flushed when the target returns".
  `NoMessageLost` holds in `ObsCrash` because every recipient stays online there;
  `OnlyPoppedIsLost` proves that nothing else is ever lost.
- Replies of several bodies to a Wave of a body share one derived id (main.py 259). The
  originator's log, keyed by that id, skips the second as already done: it is in the
  Terminated Log as `dedup`, and not put to the Claude that main.py 246 says "collects
  and decides what to do next" (`ObsWaveReplies`). With three bodies, a dropped connection and a reconnection that
  fails it can also answer both with one saved result, under one id: the first reply
  is logged `CLAUDE_DONE` and stays pending, the loop goes on with the second, takes the
  result for its own and sends it. `ReplyDetermined` fails then; no run has both a drop
  and three bodies.
- A reconnection that fails once is not made good: the recovery runs right after the
  ping, its exception is swallowed (run_observatory.py 184-185), and the loop goes on
  with new entries only. `ObsLive` allows one drop, not two.
- A resume that read its pause before a kill deletes the kill, and a pause, a plain SET,
  overwrites one at any time: both revive a conversation of which control.py 59 says
  that "a killed conversation stays killed". `ResumeKeepsKill` excepts just these, and
  needs both exceptions.
- Where handlers meet, the audit records may be in another order than the writes, and a
  request that fails after its write leaves none: "fully reconstructable"
  (control_service.py 4) holds again after the next pause or terminate that meets
  nobody, since what these leave in the key does not depend on what was there.
- `register` without `--host` registers where its own flags and environment say, and
  writes no profile: later commands look elsewhere. `RegisteredThere` excepts the
  fields that it was told so.
- Bodies run turns of one conversation at the same time, by design (main.py 309), and
  the telescope is per conversation (viewmodels.py 152): it says ended when the first
  of them is done.
- A body unregistered while it runs keeps beating and never registers again, although
  control_service.py 84 says that it "would just re-register".
- After a lock was gone past or lapsed under a long turn, two turns of one conversation
  may run at once and two different replies to one message may go out. A process that
  is slow between reading the log and writing `RECEIVED` undoes a finished message.
- A session that Claude has lost fails every turn of its conversation, and the process
  with it: `forget()` (session_store.py 29) has no caller.
- `poll` says "extinguished" after a held reply or a skipped duplicate, though the
  conversation goes on; and it stays at "waiting" when the event that says why there
  is no answer is older than the newest 1000. An answer that comes after a consult has
  left stays in its label's inbox.
- A label shared by `--as` or by the sessions of a project goes off the star chart with
  the first asker that leaves.
- `mcp setup` leaves a default host or port out of `.mcp.json`: a profile written later
  takes its place, and a pinned host is joined with that profile's TLS and user name.
- `MirroredOnce` is checked without faults: a crash between a reply's mirror and
  `REPLY_EMITTED` mirrors it again. The gate's two reads of the control key let a
  paused conversation that is terminated between them through, which `OneStraggler`
  counts as its one message.
- A second `client setup` with another description offers the bus what the file, which
  is appended once, does not say, and the Observatory is then refused.
- `registry.add` writes without a comparison: an `--identity` that names a project takes
  its record. Identities are taken to be distinct from project ids.

**Fairness.** `FairSpec` asks weak fairness of each body's next step: the loop has no
branch that waits on anybody, Claude's turn is taken to end (its timeout only bounds
the wait after stdout is closed, claude_runner.py 133), and a crashed
process is taken to be restarted. Faults, the operator, senders and clocks are not
fair. `EventuallySettled` is not claimed while a conversation stays paused or a
body's process stays down.

In Turns each process goes on, its run of Claude answers or fails, a process that died
or raised is started again, and a lock whose holder died lapses. In StargazerFeed the
generator polls and yields, the network delivers and the browser reconnects, as
`EventSource` does by itself; nobody has to write events. In Asks a consult runs on and
its time passes; nothing is assumed of the user or of the body. BusSettings and
ControlPlane have no liveness.

In StarChart a call that began, a running loop, a running heartbeat thread and an
unregister go on (none waits on anybody), and a key that nobody renews expires. That
a person sets up, starts, closes or unregisters anything is not fair, and neither is
the end of a process.

## What is proved

**`ObservatoryProofs`**, from `EnvelopeAssumption` and `ObservatoryAssumption` only
(origins are well formed, start at hop 0 with a ceiling of at least 1, and their
uuid4s differ), for any sets of bodies, guests, conversations and control blocks and
any budgets:

- `TypeCorrect`: `Spec => []TypeOK`;
- `Horizon`: `Spec => []HorizonHolds`.

Neither is inductive. The guard is evaluated on the first encounter only, so a
reply's bound depends on what the log says of a message that may have been
redelivered any number of times; and a message id beyond the ceiling would be no
key of the log, so the types depend on the Horizon in turn. `HorizonInv`
strengthens both: every stored envelope is in `Bounded` (its hop count is the number of
derivations of its id, and an origin with the same root carries its ceiling);
a message logged `RECEIVED` or later, or in hand past the guard, is `Below` its
ceiling; and a step that works on an entry has one. `StoredStep` shows once, for any set
that contains the origins and the replies, that every queue, list and batch stays
within it, and is used for `Envelope` and for `Bounded`; `HandStep`, `KeysStep` and
`GuardStep` are the other conjuncts.

**`DeliveryProofs`**, on top of `HorizonInv` and from the same two assumptions, proves
what the pipeline promises about messages and replies. Four theorems hold of every
instance, whatever crashes, drops, lapses and is paused or killed:

- `LogIsMonotone`: `Spec => LogMonotone`. `mark()` writes whatever was there, so the
  invariant `Written` says, for each step of `process()`, what the log already holds
  of the message in hand;
- `RepliesAreRouted`: `Spec => []ReplyRouting`. `RouteInv` adds that every
  reply has a derived id, so that a Wave is always a sender's own (`Derived`), and that
  the result of a Wave that solicits nothing, in hand or saved, is no reply (`Unasked`);
- `OnlyPoppedIsLost`: the action property `LostOnlyPopped`. From the step that sends it
  a message is in its recipient's inbox, backlog, batch, hold or parked list, or in its
  memory (`Flight`, `SentArrives`, `FlowStep`), until it is acknowledged, which the
  pipeline does to what is parked, logged `ACKED` or the body's own Wave (`Done`). A
  crash or a drop takes what had been popped, and no other step takes anything;
- `RepliedOnce`: `ReplyDetermined` in every conversation with one answerer. `AnswerInv`
  keeps, for every reply that was sent, the message it answers and that it is what the
  log saved as the answer (`Answers`); that a body is never past its guards with a Wave
  of its own (`Foreign`); and that a body gets one message under one id (`OneLetter`).

The others need a condition, each time one that the code itself needs:

- `RepliesDetermined` (`Spec => []ReplyDetermined`) and `PipelineKeepsPromise` (`Spec =>
  KeepsPromise`, the refinement of Outbox): no Wave of a body solicits answers from
  several bodies (`OneAnswerer` of every root), or no crash and no drop. Under the first
  they follow from `AnswerInv`; under the second from `LeftOnce`, that a reply has left
  only when its sender is past the step that sends it. With neither there is the
  counterexample of the section before. The refinement is the steps `PromiseMark`,
  `PromiseSend`, `PromiseStutters` and `PromiseOutside`: a write of the log is the
  Outbox's, a send is its send or, of what was sent before, a stutter;
- `NothingIsLost` (`Spec => []NoMessageLost`): no crash and no drop, or all bodies run,
  no heartbeat lapses and the operator does nothing, and then any number of crashes
  and drops (`Unstranded`: the hold and parked lists stay empty, so there is nothing to
  pop). It is `OnlyPoppedIsLost` without the exception;
- `EverythingIsTraced` (`Spec => []NothingVanishes`): the condition of `NothingIsLost`
  and, where there are crashes and drops, one answerer of every root. `TraceInv` has two
  halves: what `process()` is through with is parked, its own Wave, was put to Claude or
  is noted (`Heeded`), and a logged result is of a turn on the message it is filed under
  (`Recalled`, `InProgress`). A crash between `ACKED` and the event leaves the entry
  pending, and the redelivery notes it as a duplicate. Without the condition on the
  budgets there is `OnlyPoppedVanishes`, an action property: the only way to leave no
  trace is the one by which messages are lost;
- `MirroredOnceQuietly` (`Spec => []MirroredOnce`): no crash and no drop. `RecordInv`
  counts: a sent message has no record while it is held, drained or at the step that
  mirrors it, and one afterwards (`Counted`); a list holds nothing twice and no two
  places hold the same (`Apart`). `CountedStep` lists the four ways in which the
  records and what waits for one change together, and each action is one of them.

Faults are bounded by `Budgets`, so "no crash" reads `w["crash"] = 0` for the budgets an
instance starts from, as in `ObsQuiet`; lapses, the operator, the clock and the senders
stay free in all of these.

**`StarChartProofs`**, from `ChartAssumption` only (records of hosts and sessions and
their ids are distinct, at least one try), for any hosts, ids, descriptions, sessions
and number of retries:

- `ChartTypeCorrect`: `Spec => []TypeOK`;
- `OwnRecord`: `Spec => []HoldsItsRecord`;
- `FailsClosed`: `Spec => FailClosed`.

The argument of all three is `ChartInv`. Its heart is `Guarded`: while the WATCH of a
call is intact, what its HGET read is still what the hash says, so an EXEC without
force finds its id absent. `Offers` says what a call may offer (an Observatory its
file's entry, a session its machine's), `Founded` that a running Observatory has an
entry. `HoldsItsRecord` then needs no strengthening of its own.

**`ControlPlaneProofs`**, for any number of bodies and of requests at a time:

- `Straggler`: `Spec => []OneStraggler`, by the invariant `Spent`: while the key says
  killed, a body is past `is_killed` or has had its late message, never both;
- `ResumesKeepKills`: `Spec => ResumeKeepsKill`. A resume that is about to delete a kill
  was about to delete when the kill was set, and so is in `behind`: whoever reads the
  key afterwards finds no pause to clear;
- `AuditTellsKey`: `Spec => []AuditReconstructs`. `AuditInv` says that while nothing is
  astray the records end at the key or, while one handler is between its write and its
  record, at a state from which the missing record leads to the key. A pause or a
  terminate that meets nobody establishes it from any state. A replay is stated as the
  sequence of states it passes (`Replays`), which has one step more for one record
  more (`ReplayOne`, `ReplayBack`), so that nothing is folded.

**`TurnsProofs`**, from `TurnsAssumption` only, for any processes, messages,
conversations, retries and faults: `TurnsAreSerial`, `TurnsAreNew`, `RepliesAgree`,
`TurnsResumeLatest` and `LockIsReleasedByOwner`. The invariant is
`TurnsInv`. Its first part, `HasLock`, makes everything else sequential: who is inside
holds its conversation's lock unless that is torn. Then `Marked`, `HoldsSaved` and
`SentIsSaved` tie what a process carries and what was sent to the log, each up to the
exceptions, and `StoresLatest` says that the store is behind only while a process is
about to write it.

**`StargazerFeedProofs`**, from `FeedAssumption` only: `NoGapInFlight`
(`Spec => []InStep`) and `PageFollowsFeed` (`Spec => FollowsFeed`), the refinement.
`InStep` is nearly inductive; `FeedInv` adds that a closed connection has nothing in
flight and that a page with no event id has shown nothing. The lemmas about
`Continues` say that a run of events stays without gap when the stream is trimmed,
when its head is taken and when the next event is appended.

**`BusSettingsProofs`**, from `BusAssumption` only, for any settings, buses and
commands: `ProfilesReproduce`, `RegistersThere`, `PasswordsApart`, `ProfilesReach` and
`EndpointsArePinned`. The heart is `Records`, what a profile says of the connection it
was written for, and the lemma `Reproduced`, that resolving it with that connection's
password alone gives the connection back.

**`AsksProofs`**, from `AsksAssumption` only, for any consults, questions, threads,
labels shared in any way, length of the tail and number of deaths:
`AsksAnswerOrTrace`, `AsksNotOverlooked`, `AsksWaitIsReached` and `AsksPollTellsEnd`.
The parts of `IInv` are one argument each. `Traced`: what the body is about to mark is
explained already, by an inbox and a stream that only grow (`EventsStay`,
`InboxStays`). `Read`: up to its cursor an inbox does not hold the consult's answer.
`Reached`: a consult under a label of its own is on the chart, alive, from before its
question is on the bus, so the body finds it at both looks. `PollTellsEnd` follows
from `Traced` and what `Status` sees of the tail.

Only model-checked: liveness (`EventuallySettled`, `RegistrationEnds`, `SessionHeals`,
`ClosedGoesDark`, `EventuallyShown`, `EventuallyAcked`, `ConsultEnds`), since TLAPS
proves nothing under fairness. Every invariant, action property and refinement that a
run checks is also a theorem, under the conditions given above.

## Not modelled

Texts, prompts and JSON, and with them which text the control parser takes for which
block; the pipes of a turn's child process and the milestones between its start and
its end, and with them the telescope; TTLs of log entries (24 h) and of rate counters; entries that do not parse,
which no producer in the code writes; `prune`; view models other than the end of a
conversation, which are functions of the events; the client
certificate of a connection; argument parsing, inference of descriptions, demos, the
capture scripts, containers and pages.

## What could follow

1. Whether `ReplyDetermined` holds with several answerers and crashes but no drop.
2. `MirroredOnce` with faults, stated up to what a crash may repeat or drop.
3. Expiry of log entries, with a conversation that is paused for a day.
