---------------------------- MODULE ControlPlane ----------------------------
(***************************************************************************)
(* The operator's control key of one conversation (core/control.py): the   *)
(* panel's request handlers (operator_panel/control_service.py, served by  *)
(* a thread pool) and the MCP bridges write it, every Observatory's gate   *)
(* at the head of process() reads it.  Nobody takes a lock: resume is a    *)
(* GET and a DELETE, the gate is three reads, and the audit record follows *)
(* the write.                                                              *)
(***************************************************************************)
EXTENDS Naturals, SequencesExt

CONSTANTS Body,      \* project ids with an Observatory
          Request,   \* the operator's requests, each handled once
          Workers    \* requests handled at a time, by panel and bridges

VARIABLES
    key,      \* aether:control:conv:<cid>; "active" when absent
    slain,    \* projects with aether:control:project:<pid>
    req,      \* each request: the action and the handler's next step
    audit,    \* operator_action records in aether:events
    gate,     \* each Observatory: the next read of the gate, or its turn
    late,     \* history: turns started since the key was set to "killed"
    behind,   \* history: resumes about to delete when it was
    astray    \* history: handlers met midway, or a record is missing, since
              \* the last pause or terminate that met none

vars == <<key, slain, req, audit, gate, late, behind, astray>>
panelVars == <<req, audit, behind, astray>>

ASSUME ControlAssumption == Workers \in Nat \ {0} /\ IsFiniteSet(Request)

KeyState == {"active", "paused", "killed"}
Op == {"none", "pause", "resume", "terminate", "kill_project"}
HandlerStep == {"new", "write", "delete", "audit", "done"}
GateStep == {"idle", "project", "pause", "turn"}

Init ==
    /\ key = "active"
    /\ slain = {}
    /\ req = [q \in Request |-> [op |-> "none", at |-> "new"]]
    /\ audit = <<>>
    /\ gate = [b \in Body |-> "idle"]
    /\ late = [b \in Body |-> 0]
    /\ behind = {}
    /\ astray = FALSE

-----------------------------------------------------------------------------
(* ControlPlane's writes, as their handlers reach them *)

\* Seeded faults: resume deletes whatever it finds; the gate does not look for
\* a kill.
ClearsAny(k) == TRUE
DropsNothing(k) == FALSE

\* What pause() leaves in the key: a plain SET, whatever was there.
PauseKey(k) == "paused"

\* resume() deletes only what it saw as a pause.
Clears(k) == k = "paused"

At(q, op, step) == req[q].op = op /\ req[q].at = step
Then(q, step) == req' = [req EXCEPT ![q].at = step]

\* Any write of the key, and what it means to the history.
WriteKey(k) ==
    /\ key' = k
    /\ late' = IF k = "killed" /\ key = "killed" THEN late
                                                 ELSE [b \in Body |-> 0]
    /\ behind' = {q \in Request : k = "killed" /\ At(q, "resume", "delete")}

\* r has read or set the key, and has not recorded it.
Midway(r) == req[r].op # "kill_project" /\ req[r].at \in {"delete", "audit"}

\* q reads or sets the key; what pause and terminate leave in it does not
\* depend on what was there.
Meets(q) ==
    astray' = \/ \E r \in Request \ {q} : Midway(r)
              \/ astray /\ req[q].op = "resume"

\* The thread pool, or a bridge, picks a request up.
Begin(q) ==
    /\ req[q].at = "new"
    /\ Cardinality({r \in Request : req[r].at \notin {"new", "done"}}) < Workers
    /\ \E op \in Op \ {"none"} :
          req' = [req EXCEPT ![q] = [op |-> op, at |-> "write"]]
    /\ UNCHANGED <<key, slain, audit, gate, late, behind, astray>>

Pause(q) ==
    /\ At(q, "pause", "write")
    /\ WriteKey(PauseKey(key)) /\ Meets(q)
    /\ Then(q, "audit")
    /\ UNCHANGED <<slain, audit, gate>>

\* resume: is_paused ...
ResumeRead(q) ==
    /\ At(q, "resume", "write")
    /\ Then(q, IF Clears(key) THEN "delete" ELSE "audit") /\ Meets(q)
    /\ UNCHANGED <<key, slain, audit, gate, late, behind>>

\* ... and the delete.
ResumeDelete(q) ==
    /\ At(q, "resume", "delete")
    /\ WriteKey("active") /\ Meets(q)
    /\ Then(q, "audit")
    /\ UNCHANGED <<slain, audit, gate>>

Kill(q) ==
    /\ At(q, "terminate", "write")
    /\ WriteKey("killed") /\ Meets(q)
    /\ Then(q, "audit")
    /\ UNCHANGED <<slain, audit, gate>>

KillProject(q) ==
    /\ At(q, "kill_project", "write")
    /\ \E b \in Body : slain' = slain \cup {b}
    /\ Then(q, "audit")
    /\ UNCHANGED <<key, audit, gate, late, behind, astray>>

\* emit_operator_action, after the write and whatever the write did.
Audit(q) ==
    /\ req[q].at = "audit"
    /\ audit' = Append(audit, req[q].op)
    /\ Then(q, "done")
    /\ UNCHANGED <<key, slain, gate, late, behind, astray>>

\* The bus goes away, or the panel stops, with the request in hand.
Fail(q) ==
    /\ req[q].at \notin {"new", "done"}
    /\ Then(q, "done")
    /\ astray' = (astray \/ (Midway(q) /\ req[q].at = "audit"))
    /\ UNCHANGED <<key, slain, audit, gate, late, behind>>

-----------------------------------------------------------------------------
(* The gate of process(): is_killed, is_project_killed, is_paused *)

\* is_killed drops the message, and the body takes the next.
DropsOn(k) == k = "killed"

GateKilled(b) ==
    /\ gate[b] = "idle"
    /\ gate' = [gate EXCEPT ![b] = IF DropsOn(key) THEN "idle" ELSE "project"]
    /\ UNCHANGED <<key, slain, panelVars, late>>

GateProject(b) ==
    /\ gate[b] = "project"
    /\ gate' = [gate EXCEPT ![b] = IF b \in slain THEN "idle" ELSE "pause"]
    /\ UNCHANGED <<key, slain, panelVars, late>>

\* is_paused parks the message; otherwise the pipeline runs on it.
GatePaused(b) ==
    /\ gate[b] = "pause"
    /\ gate' = [gate EXCEPT ![b] = IF key = "paused" THEN "idle" ELSE "turn"]
    /\ late' = IF key = "killed" THEN [late EXCEPT ![b] = @ + 1] ELSE late
    /\ UNCHANGED <<key, slain, panelVars>>

\* The message in hand is done with; nothing looks at the key meanwhile.
TurnDone(b) ==
    /\ gate[b] = "turn"
    /\ gate' = [gate EXCEPT ![b] = "idle"]
    /\ UNCHANGED <<key, slain, panelVars, late>>

-----------------------------------------------------------------------------
Handle(q) == \/ Begin(q) \/ Pause(q) \/ ResumeRead(q) \/ ResumeDelete(q)
             \/ Kill(q) \/ KillProject(q) \/ Audit(q) \/ Fail(q)
Observe(b) == GateKilled(b) \/ GateProject(b) \/ GatePaused(b) \/ TurnDone(b)

Next == (\E q \in Request : Handle(q)) \/ (\E b \in Body : Observe(b))

Spec == Init /\ [][Next]_vars

-----------------------------------------------------------------------------
(* Properties *)

\* The key, the handlers and the gates are where the code can leave them.
TypeOK ==
    /\ key \in KeyState
    /\ slain \subseteq Body
    /\ req \in [Request -> [op : Op, at : HandlerStep]]
    /\ audit \in Seq(Op)
    /\ gate \in [Body -> GateStep]
    /\ late \in [Body -> Nat]
    /\ behind \subseteq Request
    /\ astray \in BOOLEAN

\* terminate() is "a manual Horizon": once the key is set, a body runs at most
\* the one message that was already past is_killed.
OneStraggler == key = "killed" => \A b \in Body : late[b] <= 1

\* What an audit record says the key became.
Replay(op, k) == CASE op = "pause" -> "paused"
                   [] op = "resume" -> IF k = "paused" THEN "active" ELSE k
                   [] op = "terminate" -> "killed"
                   [] OTHER -> k

\* Replaying the records of s one after the other ends at k.
Replays(s, k) ==
    \E f \in [0 .. Len(s) -> KeyState] :
        /\ f[0] = "active" /\ f[Len(s)] = k
        /\ \A i \in 1 .. Len(s) : f[i] = Replay(s[i], f[i - 1])

\* "The write surface is itself observable [...] and fully reconstructable"
\* (control_service.py 4): once every request is recorded, replaying the audit
\* ends at the key.  Requests that were midway at the same time may spoil it, in
\* the order of their records or by a delete that comes late, and one that failed
\* before its record; the next pause or terminate that meets nobody mends it.
AuditReconstructs ==
    ~astray /\ (\A q \in Request : ~Midway(q)) =>
        \A k \in KeyState : Replays(audit, k) <=> k = key

\* "Only clears a pause; a killed conversation stays killed" (control.py 59):
\* however many requests are handled at once, nothing revives it but a pause, a
\* plain SET, or a resume that had read its pause before the kill.
ResumeKeepsKill ==
    [][key = "killed" /\ key' # "killed" =>
          \E q \in Request : \/ At(q, "pause", "write") /\ key' = "paused"
                             \/ At(q, "resume", "delete") /\ q \in behind]_key
=============================================================================
