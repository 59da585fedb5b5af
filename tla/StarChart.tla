----------------------------- MODULE StarChart -----------------------------
(***************************************************************************)
(* The constellation on the bus: the hash aether:registry and the keys     *)
(* aether:heartbeat:<id> (core/registry.py, core/heartbeat.py), and all    *)
(* who write them: `aether client setup` and a starting Observatory        *)
(* through the compare-and-set of register_body, interactive sessions      *)
(* (mcp_server.py) with plain writes from two threads, and the operator's  *)
(* unregister.  Every write of the hash breaks every WATCH on it, because  *)
(* WATCH names the whole key and not one field.                            *)
(***************************************************************************)
EXTENDS Naturals

CONSTANTS
    Host,        \* machines, each with its own constellation.yaml
    Body,        \* project ids
    BodyOf,      \* the project a host runs
    Draft,       \* what a description and capabilities can say
    Session,     \* interactive sessions
    Identity,    \* their ids on the bus
    IdentityOf,  \* two sessions of one project share an identity
    HostOf,      \* the machine a session runs on
    MaxRetries,  \* _max_retries of register_body
    NoRecord

VARIABLES
    registry,   \* aether:registry, one record per id
    heartbeat,  \* ids whose heartbeat key exists
    file,       \* each host's own entry in its constellation.yaml
    call,       \* each host's register_body in progress
    up,         \* hosts whose Observatory is registered and running
    main,       \* each session's main thread
    tick,       \* each session's heartbeat thread
    panel,      \* the operator's unregister in progress
    deposed     \* history: running Observatories whose record an operator
                \* or a forced setup took away

vars == <<registry, heartbeat, file, call, up, main, tick, panel,
          deposed>>
hostVars == <<file, call, up>>
sessionVars == <<main, tick>>

ASSUME ChartAssumption ==
    /\ BodyOf \in [Host -> Body]
    /\ IdentityOf \in [Session -> Identity]
    /\ HostOf \in [Session -> Host]
    /\ Body \cap Identity = {}
    /\ MaxRetries \in Nat \ {0}
    /\ NoRecord \notin (Host \X Draft) \cup Identity

\* A host's record holds its working_dir, so two hosts' records differ; a
\* session's says nothing but its identity.
HostRecord == Host \X Draft
Record == HostRecord \cup Identity

Idle == [at |-> "idle", role |-> "none", offer |-> NoRecord,
         force |-> FALSE, tries |-> 0]
Quiet == [at |-> "idle", id |-> NoRecord]

TypeOK ==
    /\ registry \in [Body \cup Identity -> Record \cup {NoRecord}]
    /\ heartbeat \subseteq Body \cup Identity
    /\ file \in [Host -> HostRecord \cup {NoRecord}]
    /\ call \in [Host -> [at : {"idle", "watch", "exec", "broken"},
                          role : {"none", "setup", "observatory", "seed"},
                          offer : HostRecord \cup {NoRecord},
                          force : BOOLEAN,
                          tries : 0 .. MaxRetries - 1]]
    /\ up \subseteq Host
    /\ main \in [Session -> {"new", "seeding", "joined", "open", "leaving",
                             "left", "gone"}]
    /\ tick \in [Session -> {"rest", "due", "beaten"}]
    /\ panel \in {Quiet} \cup [at : {"has", "remove", "darken"},
                               id : Body \cup Identity]
    /\ deposed \subseteq Host

Init ==
    /\ registry = [i \in Body \cup Identity |-> NoRecord]
    /\ heartbeat = {}
    /\ file = [h \in Host |-> NoRecord]
    /\ call = [h \in Host |-> Idle]
    /\ up = {}
    /\ main = [s \in Session |-> "new"]
    /\ tick = [s \in Session |-> "rest"]
    /\ panel = Quiet
    /\ deposed = {}

\* Seeded faults: the compare-and-set without its WATCH; a conflict that is
\* not one; retries that are not counted, or given up one too late; a
\* heartbeat without a TTL.
NoWatch(calls) == calls
NeverConflicts(held, c) == FALSE
NeverCounts(h) == call[h].tries
GivesUpLate(h) == call[h].tries = MaxRetries
NoTTL(i) == FALSE

\* A write of the hash breaks the WATCH of every call that has read it.
Break(calls) ==
    [h \in Host |-> IF calls[h].at = "exec"
                    THEN [calls[h] EXCEPT !.at = "broken"] ELSE calls[h]]

\* HSET and HDEL, by anyone but register_body.
Write(i, rec) ==
    /\ registry' = [registry EXCEPT ![i] = rec]
    /\ call' = Break(call)

Delete(i) ==
    IF registry[i] # NoRecord THEN Write(i, NoRecord)
                              ELSE UNCHANGED <<registry, call>>

Registered(i) == registry[i] # NoRecord
Online(i) == i \in heartbeat

-----------------------------------------------------------------------------
(* Registry.register_body *)

\* One call at a time on a host: a person sets up, then starts.
Register(h, role, rec, force) ==
    /\ call[h] = Idle
    /\ rec # NoRecord
    /\ call' = [call EXCEPT ![h] = [at |-> "watch", role |-> role,
                                    offer |-> rec, force |-> force,
                                    tries |-> 0]]

\* An Observatory that got its record goes on to run.
GoUp(h, accepted) ==
    up' = IF accepted /\ call[h].role = "observatory" THEN up \cup {h} ELSE up

Done(h) == [call EXCEPT ![h] = Idle]

\* DuplicateBodyError
Conflicts(held, c) == held # NoRecord /\ held # c.offer /\ ~c.force

\* WATCH and HGET.  Taken as one step: a write between the two breaks the
\* WATCH and HGET still sees it, so EXEC would only fail once more.
Watch(h) ==
    /\ call[h].at = "watch"
    /\ LET held == registry[BodyOf[h]]
       IN IF held = call[h].offer \/ Conflicts(held, call[h])
          THEN call' = Done(h) /\ GoUp(h, held = call[h].offer)
          ELSE call' = [call EXCEPT ![h].at = "exec"] /\ UNCHANGED up
    /\ UNCHANGED <<registry, heartbeat, file, sessionVars, panel, deposed>>

\* EXEC of an intact WATCH: MULTI, HSET.
Exec(h) ==
    /\ call[h].at = "exec"
    /\ registry' = [registry EXCEPT ![BodyOf[h]] = call[h].offer]
    /\ call' = Break(Done(h))
    /\ GoUp(h, TRUE)
    /\ deposed' = deposed \cup {g \in up : /\ call[h].force
                                           /\ BodyOf[g] = BodyOf[h]}
    /\ UNCHANGED <<heartbeat, file, sessionVars, panel>>

\* The count of one more WatchError, and when to give up: too much contention.
Tried(h) == call[h].tries + 1
GivesUp(h) == Tried(h) = MaxRetries

Retry(h) ==
    /\ call[h].at = "broken"
    /\ call' = IF GivesUp(h) THEN Done(h)
               ELSE [call EXCEPT ![h].at = "watch", ![h].tries = Tried(h)]
    /\ UNCHANGED <<registry, heartbeat, file, up, sessionVars, panel, deposed>>

-----------------------------------------------------------------------------
(* A host: `aether client setup`, and its Observatory *)

\* append_constellation_body: the entry is appended once and never rewritten.
AppendEntry(h, rec) ==
    file' = IF file[h] = NoRecord THEN [file EXCEPT ![h] = rec] ELSE file

\* What is offered to the bus is what this setup says, not the entry.
ClientSetup(h, d, force) ==
    /\ AppendEntry(h, <<h, d>>)
    /\ Register(h, "setup", <<h, d>>, force)
    /\ UNCHANGED <<registry, heartbeat, up, sessionVars, panel,
                   deposed>>

\* Redis does not answer the ping: the entry stays, the bus knows nothing.
SetupUnreachable(h, d) ==
    /\ call[h] = Idle
    /\ AppendEntry(h, <<h, d>>)
    /\ UNCHANGED <<registry, heartbeat, call, up, sessionVars, panel,
                   deposed>>

StartObservatory(h) ==
    /\ h \notin up
    /\ Register(h, "observatory", file[h], FALSE)
    /\ UNCHANGED <<registry, heartbeat, file, up, sessionVars, panel,
                   deposed>>

\* The head of each cycle of the resident loop.
BeatObservatory(h) ==
    /\ h \in up
    /\ heartbeat' = heartbeat \cup {BodyOf[h]}
    /\ UNCHANGED <<registry, hostVars, sessionVars, panel, deposed>>

\* Ctrl-C or a crash; the heartbeat is left to lapse.
StopObservatory(h) ==
    /\ h \in up
    /\ up' = up \ {h}
    /\ deposed' = deposed \ {h}
    /\ UNCHANGED <<registry, heartbeat, file, call, sessionVars, panel>>

\* The TTL: a turn of the model may outlast it, so it can pass at any time.
Expires(i) == i \in heartbeat

Lapse(i) ==
    /\ Expires(i)
    /\ heartbeat' = heartbeat \ {i}
    /\ UNCHANGED <<registry, hostVars, sessionVars, panel, deposed>>

-----------------------------------------------------------------------------
(* An interactive session: AetherBridge and its heartbeat thread *)

Step(s, from, to) == main[s] = from /\ main' = [main EXCEPT ![s] = to]

\* Seeded fault: the heartbeat thread does not add the session again.
AddOnce(s) ==
    IF main[s] = "open" THEN UNCHANGED <<registry, call>>
                        ELSE Write(IdentityOf[s], IdentityOf[s])

\* registry.add: no compare, no watch.
AddSelf(s) == Write(IdentityOf[s], IdentityOf[s])

\* __init__ finds an empty bus and publishes the machine's own file.
Seed(s) ==
    /\ \A i \in Body \cup Identity : ~Registered(i)
    /\ Step(s, "new", "seeding")
    /\ Register(HostOf[s], "seed", file[HostOf[s]], FALSE)
    /\ UNCHANGED <<registry, heartbeat, file, up, tick, panel, deposed>>

\* Whatever came of it, the session then adds itself.
Join(s) ==
    /\ \/ Step(s, "seeding", "joined") /\ call[HostOf[s]] = Idle
       \/ /\ Step(s, "new", "joined")
          /\ \/ file[HostOf[s]] = NoRecord
             \/ \E i \in Body \cup Identity : Registered(i)
    /\ AddSelf(s)
    /\ UNCHANGED <<heartbeat, file, up, tick, panel, deposed>>

Beat(s) == heartbeat' = heartbeat \cup {IdentityOf[s]}

\* The last line of __init__; start_heartbeat follows.
FirstBeat(s) ==
    /\ Step(s, "joined", "open")
    /\ Beat(s)
    /\ UNCHANGED <<registry, hostVars, tick, panel, deposed>>

\* while not _hb_stop.is_set()
TickDue(s) ==
    /\ main[s] = "open"
    /\ tick[s] = "rest"
    /\ tick' = [tick EXCEPT ![s] = "due"]
    /\ UNCHANGED <<registry, heartbeat, hostVars, main, panel, deposed>>

\* The thread runs on beside cleanup until the process is gone.
TickBeat(s) ==
    /\ main[s] # "gone"
    /\ tick[s] = "due"
    /\ tick' = [tick EXCEPT ![s] = "beaten"]
    /\ Beat(s)
    /\ UNCHANGED <<registry, hostVars, main, panel, deposed>>

TickAdd(s) ==
    /\ main[s] # "gone"
    /\ tick[s] = "beaten"
    /\ tick' = [tick EXCEPT ![s] = "rest"]
    /\ AddSelf(s)
    /\ UNCHANGED <<heartbeat, file, up, main, panel, deposed>>

\* cleanup: _hb_stop.set() and registry.remove ...
Leave(s) ==
    /\ Step(s, "open", "leaving")
    /\ Delete(IdentityOf[s])
    /\ UNCHANGED <<heartbeat, file, up, tick, panel, deposed>>

\* ... heartbeat.go_offline.
GoOffline(s) ==
    /\ Step(s, "leaving", "left")
    /\ heartbeat' = heartbeat \ {IdentityOf[s]}
    /\ UNCHANGED <<registry, hostVars, tick, panel, deposed>>

\* The process ends: after cleanup, or killed at any point of its life.
Exit(s) ==
    /\ main[s] \notin {"new", "gone"}
    /\ main' = [main EXCEPT ![s] = "gone"]
    /\ UNCHANGED <<registry, heartbeat, hostVars, tick, panel, deposed>>

-----------------------------------------------------------------------------
(* OperatorService.unregister, one at a time *)

PanelAt(step) == panel.at = step
PanelThen(step) == panel' = [panel EXCEPT !.at = step]

\* reg.has; an absent body is answered at once.
Unregister(i) ==
    /\ PanelAt("idle")
    /\ Registered(i)
    /\ panel' = [at |-> "has", id |-> i]
    /\ UNCHANGED <<registry, heartbeat, hostVars, sessionVars, deposed>>

\* hb.is_online: an online body is refused unless the request says force,
\* which is looked at nowhere else.
RefuseOnline(force) ==
    /\ PanelAt("has")
    /\ IF Online(panel.id) /\ ~force
       THEN panel' = Quiet ELSE PanelThen("remove")
    /\ UNCHANGED <<registry, heartbeat, hostVars, sessionVars, deposed>>

\* reg.remove, which writes nothing when the record is already gone.
Remove ==
    /\ PanelAt("remove")
    /\ Delete(panel.id)
    /\ deposed' = deposed \cup {h \in up : BodyOf[h] = panel.id}
    /\ PanelThen("darken")
    /\ UNCHANGED <<heartbeat, file, up, sessionVars>>

\* hb.go_offline; the audit record that follows is ControlPlane's Audit.
Darken ==
    /\ PanelAt("darken")
    /\ heartbeat' = heartbeat \ {panel.id}
    /\ panel' = Quiet
    /\ UNCHANGED <<registry, hostVars, sessionVars, deposed>>

-----------------------------------------------------------------------------
RegisterStep(h) == Watch(h) \/ Retry(h) \/ Exec(h)
TickStep(s) == TickDue(s) \/ TickBeat(s) \/ TickAdd(s)
PanelStep == (\E force \in BOOLEAN : RefuseOnline(force)) \/ Remove \/ Darken

HostNext(h) ==
    \/ \E d \in Draft : \/ \E force \in BOOLEAN : ClientSetup(h, d, force)
                        \/ SetupUnreachable(h, d)
    \/ StartObservatory(h)
    \/ BeatObservatory(h)
    \/ StopObservatory(h)
    \/ RegisterStep(h)

SessionNext(s) ==
    \/ Seed(s) \/ Join(s) \/ FirstBeat(s) \/ TickStep(s)
    \/ Leave(s) \/ GoOffline(s) \/ Exit(s)

Next ==
    \/ \E h \in Host : HostNext(h)
    \/ \E s \in Session : SessionNext(s)
    \/ \E i \in Body \cup Identity : Lapse(i) \/ Unregister(i)
    \/ PanelStep

Spec == Init /\ [][Next]_vars

\* A call that began goes on, a running loop and a running thread go on, and
\* Redis expires a key that nobody renews.
Fairness ==
    /\ \A h \in Host : WF_vars(RegisterStep(h)) /\ WF_vars(BeatObservatory(h))
    /\ \A s \in Session : WF_vars(TickStep(s))
    /\ \A i \in Body \cup Identity : WF_vars(Lapse(i))
    /\ WF_vars(PanelStep)

FairSpec == Spec /\ Fairness

-----------------------------------------------------------------------------
(* Properties *)

\* A running Observatory is the one the star chart names, unless an operator
\* or a forced setup took its record while it ran: two hosts that race for
\* one id are never both running with records of their own.  The hazard is
\* the gap between register_body's HGET and its EXEC.
HoldsItsRecord ==
    \A h \in up \ deposed : registry[BodyOf[h]] = file[h]

\* Fail-closed: the record of a project is replaced by another one in a
\* single step only by a setup that said --force, however many callers race.
FailClosed ==
    [][\A b \in Body :
          Registered(b) /\ registry'[b] \notin {NoRecord, registry[b]}
              => \E h \in Host : /\ BodyOf[h] = b
                                 /\ call[h].role = "setup"
                                 /\ call[h].force]_vars

\* Every register_body ends, even while the heartbeat threads write the hash
\* it watches again and again: the retries are bounded.
RegistrationEnds == \A h \in Host : (call[h] # Idle) ~> (call[h] = Idle)

\* A session that lost its record, to an operator or to the cleanup of
\* another session of the same identity, has it again while it stays open.
SessionHeals ==
    \A s \in Session :
        main[s] = "open" ~> (main[s] # "open" \/ Registered(IdentityOf[s]))

\* An identity none of whose sessions is left goes dark, even when its last
\* heartbeat thread wrote after the cleanup.
ClosedGoesDark ==
    \A s \in Session :
        (\A r \in Session : IdentityOf[r] = IdentityOf[s] => main[r] = "gone")
            ~> ~Online(IdentityOf[s])
=============================================================================
