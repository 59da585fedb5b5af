------------------------- MODULE ControlPlaneProofs -------------------------
(***************************************************************************)
(* Theorems about ControlPlane, for any bodies, requests and any number of *)
(* requests handled at a time.                                             *)
(***************************************************************************)
EXTENDS ControlPlane, TLAPS

\* Types as far as the kill needs them.
Typed ==
    /\ gate \in [Body -> GateStep]
    /\ late \in [Body -> Nat]

\* While the key says killed, a body is past is_killed or has run its
\* straggler, never both: the gate lets nobody in behind a kill.
Spent ==
    key = "killed" =>
        \A b \in Body : /\ late[b] <= 1
                        /\ gate[b] \in {"project", "pause"} => late[b] = 0

KillInv == Typed /\ Spent

LEMMA WriteKeeps ==
    ASSUME KillInv, NEW k, WriteKey(k), UNCHANGED gate
    PROVE  KillInv'
  <1>1. late' \in [Body -> Nat]
    BY DEF KillInv, Typed, WriteKey
  <1>2. CASE k = "killed" /\ key = "killed"
    BY <1>2 DEF KillInv, Typed, Spent, WriteKey
  <1>3. CASE ~(k = "killed" /\ key = "killed")
    <2>1. late' = [b \in Body |-> 0]
      BY <1>3 DEF WriteKey
    <2> QED
      BY <1>1, <2>1 DEF KillInv, Typed, Spent
  <1> QED
    BY <1>2, <1>3

LEMMA KillStep ==
    ASSUME KillInv, [Next]_vars
    PROVE  KillInv'
  <1>1. ASSUME UNCHANGED <<key, gate, late>> PROVE KillInv'
    BY <1>1 DEF KillInv, Typed, Spent
  <1>2. ASSUME NEW q \in Request, Handle(q) PROVE KillInv'
    <2>1. ASSUME Pause(q) \/ ResumeDelete(q) \/ Kill(q) PROVE KillInv'
      BY <2>1, WriteKeeps DEF Pause, ResumeDelete, Kill
    <2>2. ASSUME Begin(q) \/ ResumeRead(q) \/ KillProject(q) \/ Audit(q) \/ Fail(q)
          PROVE  KillInv'
      BY <1>1, <2>2 DEF Begin, ResumeRead, KillProject, Audit, Fail
    <2> QED
      BY <1>2, <2>1, <2>2 DEF Handle
  <1>3. ASSUME NEW b \in Body, Observe(b) PROVE KillInv'
    <2>1. ASSUME GateKilled(b) PROVE KillInv'
      BY <2>1 DEF GateKilled, DropsOn, GateStep, KillInv, Typed, Spent
    <2>2. ASSUME GateProject(b) PROVE KillInv'
      BY <2>2 DEF GateProject, GateStep, KillInv, Typed, Spent
    <2>3. ASSUME GatePaused(b) PROVE KillInv'
      BY <2>3 DEF GatePaused, GateStep, KillInv, Typed, Spent
    <2>4. ASSUME TurnDone(b) PROVE KillInv'
      BY <2>4 DEF TurnDone, GateStep, KillInv, Typed, Spent
    <2> QED
      BY <1>3, <2>1, <2>2, <2>3, <2>4 DEF Observe
  <1> QED
    BY <1>1, <1>2, <1>3 DEF Next, vars

\* After terminate() no body runs more than the one message that was already
\* past is_killed, whatever the operator's other requests are doing.
THEOREM Straggler == Spec => []OneStraggler
  <1>1. Init => KillInv
    BY DEF Init, KillInv, Typed, Spent, GateStep
  <1>2. KillInv /\ [Next]_vars => KillInv'
    BY KillStep
  <1>3. KillInv => OneStraggler
    BY DEF KillInv, Spent, OneStraggler
  <1> QED
    BY <1>1, <1>2, <1>3, PTL DEF Spec

-----------------------------------------------------------------------------
(* What a resume may undo *)

\* The handlers' steps.
Handling == req \in [Request -> [op : Op, at : HandlerStep]]

\* While the key says killed, only resumes from before wait to delete.
BehindInv ==
    /\ Handling
    /\ key = "killed" => \A q \in Request : At(q, "resume", "delete") => q \in behind

\* A handler's next step: its own entry moves, the others stay.
LEMMA HandlerMoves ==
    ASSUME Handling, NEW q \in Request, NEW s \in HandlerStep, Then(q, s)
    PROVE  /\ Handling'
           /\ \A r \in Request \ {q} : req'[r] = req[r]
           /\ req'[q].op = req[q].op /\ req'[q].at = s
  BY DEF Handling, Then

LEMMA HandlerBegins ==
    ASSUME Handling, NEW q \in Request, Begin(q)
    PROVE  /\ Handling'
           /\ \A r \in Request \ {q} : req'[r] = req[r]
           /\ req'[q].at = "write" /\ req[q].at = "new"
  <1>1. PICK op \in Op \ {"none"} :
            req' = [req EXCEPT ![q] = [op |-> op, at |-> "write"]]
    BY DEF Begin
  <1> QED
    BY <1>1 DEF Begin, Handling, HandlerStep, Op

LEMMA BehindStep ==
    ASSUME BehindInv, [Next]_vars
    PROVE  BehindInv'
  <1>0. Handling
    BY DEF BehindInv
  <1>1. ASSUME NEW q \in Request, Begin(q) PROVE BehindInv'
    <2>1. UNCHANGED <<key, behind>>
      BY <1>1 DEF Begin
    <2> QED
      BY <1>0, <1>1, <2>1, HandlerBegins DEF BehindInv, At
  <1>2. ASSUME NEW q \in Request, Pause(q) \/ ResumeDelete(q) PROVE BehindInv'
    <2>1. Then(q, "audit") /\ key' # "killed"
      BY <1>2 DEF Pause, ResumeDelete, WriteKey, PauseKey
    <2> QED
      BY <1>0, <2>1, HandlerMoves DEF BehindInv, HandlerStep
  <1>3. ASSUME NEW q \in Request, Kill(q) PROVE BehindInv'
    <2>1. Then(q, "audit") /\ behind' = {r \in Request : At(r, "resume", "delete")}
      BY <1>3 DEF Kill, WriteKey
    <2>2. /\ Handling' /\ req'[q].at = "audit"
          /\ \A r \in Request \ {q} : req'[r] = req[r]
      BY <1>0, <2>1, HandlerMoves DEF HandlerStep
    <2> QED
      BY <2>1, <2>2 DEF BehindInv, At
  <1>4. ASSUME NEW q \in Request, ResumeRead(q) PROVE BehindInv'
    <2>1. PICK s \in {"delete", "audit"} : Then(q, s) /\ (s = "delete" => key = "paused")
      BY <1>4 DEF ResumeRead, Clears
    <2>2. /\ Handling' /\ req'[q].at = s
          /\ \A r \in Request \ {q} : req'[r] = req[r]
      BY <1>0, <2>1, HandlerMoves DEF HandlerStep
    <2>3. UNCHANGED <<key, behind>>
      BY <1>4 DEF ResumeRead
    <2> QED
      BY <2>1, <2>2, <2>3 DEF BehindInv, At
  <1>5. ASSUME NEW q \in Request, KillProject(q) \/ Audit(q) \/ Fail(q) PROVE BehindInv'
    <2>1. PICK s \in {"audit", "done"} : Then(q, s)
      BY <1>5 DEF KillProject, Audit, Fail
    <2>2. /\ Handling' /\ req'[q].at = s
          /\ \A r \in Request \ {q} : req'[r] = req[r]
      BY <1>0, <2>1, HandlerMoves DEF HandlerStep
    <2>3. UNCHANGED <<key, behind>>
      BY <1>5 DEF KillProject, Audit, Fail
    <2> QED
      BY <2>2, <2>3 DEF BehindInv, At
  <1>6. ASSUME NEW b \in Body, Observe(b) PROVE BehindInv'
    BY <1>6 DEF Observe, GateKilled, GateProject, GatePaused, TurnDone, panelVars,
                BehindInv, Handling, At
  <1>7. CASE UNCHANGED vars
    BY <1>7 DEF vars, BehindInv, Handling, At
  <1> QED
    BY <1>1, <1>2, <1>3, <1>4, <1>5, <1>6, <1>7 DEF Next, Handle

LEMMA BehindInvariant == Spec => []BehindInv
  <1>1. Init => BehindInv
    BY DEF Init, BehindInv, Handling, Op, HandlerStep, At
  <1> QED
    BY <1>1, BehindStep, PTL DEF Spec

\* However many requests the panel and the bridges handle at once, a terminate
\* is undone by a pause or by a resume that read its pause before it (control.py
\* 55-60): no resume that comes after it does.
THEOREM ResumesKeepKills == Spec => ResumeKeepsKill
  <1> DEFINE P == key = "killed" /\ key' # "killed" =>
                      \E q \in Request :
                          \/ At(q, "pause", "write") /\ key' = "paused"
                          \/ At(q, "resume", "delete") /\ q \in behind
  <1>1. BehindInv /\ [Next]_vars => P
    <2> SUFFICES ASSUME BehindInv, [Next]_vars, key = "killed", key' # "killed"
                 PROVE  \E q \in Request :
                            \/ At(q, "pause", "write") /\ key' = "paused"
                            \/ At(q, "resume", "delete") /\ q \in behind
      OBVIOUS
    <2>1. PICK q \in Request : Pause(q) \/ ResumeDelete(q) \/ Kill(q)
      BY DEF Next, vars, Handle, Observe, Begin, ResumeRead, KillProject, Audit, Fail,
             GateKilled, GateProject, GatePaused, TurnDone
    <2>2. CASE Pause(q)
      BY <2>2 DEF Pause, WriteKey, PauseKey
    <2>3. CASE ResumeDelete(q)
      BY <2>3 DEF ResumeDelete, BehindInv
    <2>4. CASE Kill(q)
      BY <2>4 DEF Kill, WriteKey
    <2> QED
      BY <2>1, <2>2, <2>3, <2>4
  <1>2. Spec => [][P]_vars
    BY <1>1, BehindInvariant, PTL DEF Spec
  <1>3. [P]_vars => [P]_key
    BY DEF vars
  <1> QED
    BY <1>2, <1>3, PTL DEF ResumeKeepsKill

-----------------------------------------------------------------------------
(* The audit *)

\* A record more is a step of the replay more.
LEMMA ReplayOne ==
    ASSUME NEW s \in Seq(Op), NEW k \in KeyState, Replays(s, k), NEW op \in Op
    PROVE  /\ Replay(op, k) \in KeyState
           /\ Replays(Append(s, op), Replay(op, k))
  <1> DEFINE n == Len(s)
             t == Append(s, op)
             r == Replay(op, k)
  <1>1. PICK f \in [0 .. n -> KeyState] :
            /\ f[0] = "active" /\ f[n] = k
            /\ \A i \in 1 .. n : f[i] = Replay(s[i], f[i - 1])
    BY DEF Replays
  <1>2. /\ n \in Nat /\ Len(t) = n + 1 /\ t[n + 1] = op
        /\ \A i \in 1 .. n : t[i] = s[i]
    BY DEF Op
  <1>3. r \in KeyState
    BY DEF Replay, KeyState
  <1> DEFINE g == [i \in 0 .. (n + 1) |-> IF i = n + 1 THEN r ELSE f[i]]
  <1> HIDE DEF n, t, r
  <1>4. g \in [0 .. (n + 1) -> KeyState] /\ g[0] = "active" /\ g[n + 1] = r
    BY <1>1, <1>2, <1>3
  <1>5. ASSUME NEW i \in 1 .. (n + 1)
        PROVE  g[i] = Replay(t[i], g[i - 1])
    <2>1. g[i - 1] = f[i - 1]
      BY <1>2
    <2>2. CASE i = n + 1
      BY <1>1, <1>2, <2>1, <2>2 DEF r
    <2>3. CASE i # n + 1
      <3>1. i \in 1 .. n /\ g[i] = f[i]
        BY <1>2, <2>3
      <3> QED
        BY <1>1, <1>2, <2>1, <3>1
    <2> QED
      BY <2>2, <2>3
  <1>6. Replays(t, r)
    BY <1>2, <1>4, <1>5 DEF Replays
  <1> QED
    BY <1>3, <1>6 DEF t, r

LEMMA ReplayBack ==
    ASSUME NEW s \in Seq(Op), NEW op \in Op, NEW r, Replays(Append(s, op), r)
    PROVE  \E k \in KeyState : Replays(s, k) /\ r = Replay(op, k)
  <1> DEFINE n == Len(s)
             t == Append(s, op)
  <1>1. /\ n \in Nat /\ Len(t) = n + 1 /\ t[n + 1] = op
        /\ \A i \in 1 .. n : t[i] = s[i]
    BY DEF Op
  <1>2. PICK f \in [0 .. (n + 1) -> KeyState] :
            /\ f[0] = "active" /\ f[n + 1] = r
            /\ \A i \in 1 .. (n + 1) : f[i] = Replay(t[i], f[i - 1])
    BY <1>1 DEF Replays
  <1> DEFINE g == [i \in 0 .. n |-> f[i]]
  <1> HIDE DEF n, t
  <1>3. g \in [0 .. n -> KeyState] /\ g[0] = "active" /\ g[n] = f[n]
    BY <1>1, <1>2
  <1>4. \A i \in 1 .. n : g[i] = Replay(s[i], g[i - 1])
    <2> SUFFICES ASSUME NEW i \in 1 .. n
                 PROVE  g[i] = Replay(s[i], g[i - 1])
      OBVIOUS
    <2>1. g[i] = f[i] /\ g[i - 1] = f[i - 1] /\ t[i] = s[i] /\ i \in 1 .. (n + 1)
      BY <1>1
    <2> QED
      BY <1>2, <2>1
  <1>5. Replays(s, f[n])
    BY <1>3, <1>4 DEF Replays, n
  <1>6. r = Replay(op, f[n]) /\ f[n] \in KeyState
    <2>1. (n + 1) - 1 = n /\ n + 1 \in 1 .. (n + 1) /\ n \in 0 .. (n + 1)
      BY <1>1
    <2> QED
      BY <1>1, <1>2, <2>1
  <1> QED
    BY <1>5, <1>6

\* The records of s end at k and nowhere else.
EndsAt(s, k) == \A l \in KeyState : Replays(s, l) <=> l = k

LEMMA EndsOneOn ==
    ASSUME NEW s \in Seq(Op), NEW k \in KeyState, EndsAt(s, k), NEW op \in Op
    PROVE  EndsAt(Append(s, op), Replay(op, k))
  BY ReplayOne, ReplayBack DEF EndsAt

Told == \E k \in KeyState : EndsAt(audit, k)

\* Unless it is astray, the audit lacks at most the record of one request that
\* is midway, and that request's step leads from where the records end to the key.
AuditInv ==
    /\ Handling /\ key \in KeyState /\ audit \in Seq(Op) /\ astray \in BOOLEAN
    /\ Told
    /\ ~astray =>
          /\ \A q, r \in Request : Midway(q) /\ Midway(r) => q = r
          /\ (\A q \in Request : ~Midway(q)) => EndsAt(audit, key)
          /\ \A q \in Request : Midway(q) /\ req[q].at = "delete" =>
                 EndsAt(audit, key) /\ key = "paused" /\ req[q].op = "resume"
          /\ \A q \in Request : Midway(q) /\ req[q].at = "audit" =>
                 \E k \in KeyState : EndsAt(audit, k) /\ key = Replay(req[q].op, k)

LEMMA SameRecords ==
    ASSUME UNCHANGED audit
    PROVE  (Told => Told') /\ \A k \in KeyState : EndsAt(audit, k) <=> EndsAt(audit', k)
  BY DEF Told

LEMMA MeetsIsBoolean ==
    ASSUME NEW q, Meets(q)
    PROVE  astray' \in BOOLEAN
  BY DEF Meets

\* A request that reads or sets the key while nobody else is midway: the records
\* end at k, and its step leads from there to the key.
LEMMA MeetsNobody ==
    ASSUME AuditInv, NEW q \in Request, Then(q, "audit"), Meets(q), UNCHANGED audit,
           req[q].op \in {"pause", "resume", "terminate"}, key' \in KeyState,
           ~astray' => \E k \in KeyState : EndsAt(audit, k) /\ key' = Replay(req[q].op, k)
    PROVE  AuditInv'
  <1>1. /\ Handling' /\ req'[q].op = req[q].op /\ req'[q].at = "audit"
        /\ \A r \in Request \ {q} : req'[r] = req[r]
    BY HandlerMoves DEF AuditInv, HandlerStep
  <1>2. astray' \in BOOLEAN /\ Told'
    BY SameRecords, MeetsIsBoolean DEF AuditInv
  <1>3. ASSUME ~astray' PROVE \A r \in Request \ {q} : ~Midway(r)'
    BY <1>1, <1>3 DEF Meets, Midway
  <1>4. ASSUME ~astray'
        PROVE  \E k \in KeyState : EndsAt(audit, k)' /\ key' = Replay(req'[q].op, k)
    BY <1>1, <1>4, SameRecords
  <1>5. Midway(q)'
    BY <1>1 DEF Midway
  <1> QED
    BY <1>1, <1>2, <1>3, <1>4, <1>5 DEF AuditInv

LEMMA AuditStep ==
    ASSUME AuditInv, [Next]_vars
    PROVE  AuditInv'
  <1>0. Handling /\ key \in KeyState /\ audit \in Seq(Op)
    BY DEF AuditInv
  \* Nobody is midway: the records end at the key.
  <1>1. ASSUME NEW q \in Request, ~Midway(q), ~astray,
               \A r \in Request \ {q} : ~Midway(r)
        PROVE  EndsAt(audit, key)
    BY <1>1 DEF AuditInv
  <1>2. ASSUME NEW q \in Request, Begin(q) PROVE AuditInv'
    <2>1. /\ Handling' /\ UNCHANGED <<key, audit, astray>>
          /\ ~Midway(q) /\ ~Midway(q)'
          /\ \A r \in Request \ {q} : req'[r] = req[r]
      BY <1>0, <1>2, HandlerBegins DEF Begin, Midway
    <2>2. \A r \in Request : Midway(r)' => Midway(r) /\ req'[r] = req[r]
      BY <2>1 DEF Midway
    <2>3. (\A r \in Request : ~Midway(r)') => \A r \in Request : ~Midway(r)
      BY <2>1 DEF Midway
    <2> QED
      BY <2>1, <2>2, <2>3, SameRecords DEF AuditInv
  <1>3. ASSUME NEW q \in Request, Pause(q) PROVE AuditInv'
    <2>1. /\ Then(q, "audit") /\ Meets(q) /\ UNCHANGED audit
          /\ req[q].op = "pause" /\ key' = "paused"
      BY <1>3 DEF Pause, At, WriteKey, PauseKey
    <2>2. PICK k \in KeyState : EndsAt(audit, k)
      BY DEF AuditInv, Told
    <2>3. key' \in KeyState /\ key' = Replay("pause", k)
      BY <2>1 DEF KeyState, Replay
    <2> QED
      BY <2>1, <2>2, <2>3, MeetsNobody
  <1>4. ASSUME NEW q \in Request, Kill(q) PROVE AuditInv'
    <2>1. /\ Then(q, "audit") /\ Meets(q) /\ UNCHANGED audit
          /\ req[q].op = "terminate" /\ key' = "killed"
      BY <1>4 DEF Kill, At, WriteKey
    <2>2. PICK k \in KeyState : EndsAt(audit, k)
      BY DEF AuditInv, Told
    <2>3. key' \in KeyState /\ key' = Replay("terminate", k)
      BY <2>1 DEF KeyState, Replay
    <2> QED
      BY <2>1, <2>2, <2>3, MeetsNobody
  <1>5. ASSUME NEW q \in Request, ResumeRead(q) PROVE AuditInv'
    <2>1. /\ Meets(q) /\ UNCHANGED <<key, audit>> /\ req[q].op = "resume"
          /\ ~Midway(q) /\ req[q].at = "write"
      BY <1>5 DEF ResumeRead, At, Midway
    <2>2. ASSUME ~astray' PROVE EndsAt(audit, key) /\ \A r \in Request \ {q} : ~Midway(r)
      BY <1>1, <2>1, <2>2 DEF Meets
    <2>3. CASE Clears(key)
      <3>1. key = "paused" /\ Then(q, "delete")
        BY <1>5, <2>3 DEF ResumeRead, Clears
      <3>2. /\ Handling' /\ req'[q].op = "resume" /\ req'[q].at = "delete"
            /\ \A r \in Request \ {q} : req'[r] = req[r]
        BY <1>0, <2>1, <3>1, HandlerMoves DEF HandlerStep
      <3>3. astray' \in BOOLEAN /\ Told'
        BY <2>1, SameRecords, MeetsIsBoolean DEF AuditInv
      <3>4. ASSUME ~astray' PROVE \A r \in Request \ {q} : ~Midway(r)'
        BY <2>2, <3>2, <3>4 DEF Midway
      <3>5. Midway(q)'
        BY <3>2 DEF Midway
      <3>6. ASSUME ~astray' PROVE EndsAt(audit, key)'
        BY <1>0, <2>1, <2>2, <3>6, SameRecords
      <3> QED
        BY <1>0, <2>1, <3>1, <3>2, <3>3, <3>4, <3>5, <3>6 DEF AuditInv
    <2>4. CASE ~Clears(key)
      <3>1. Then(q, "audit") /\ key = Replay("resume", key)
        BY <1>5, <2>4 DEF ResumeRead, Clears, Replay
      <3> QED
        BY <1>0, <2>1, <2>2, <3>1, MeetsNobody
    <2> QED
      BY <2>3, <2>4
  <1>6. ASSUME NEW q \in Request, ResumeDelete(q) PROVE AuditInv'
    <2>1. /\ Then(q, "audit") /\ Meets(q) /\ UNCHANGED audit
          /\ req[q].op = "resume" /\ key' = "active"
          /\ Midway(q) /\ req[q].at = "delete"
      BY <1>6 DEF ResumeDelete, At, WriteKey, Midway
    <2>2. ASSUME ~astray' PROVE EndsAt(audit, key) /\ key = "paused"
      BY <2>1, <2>2 DEF Meets, AuditInv
    <2>3. key' \in KeyState /\ (key = "paused" => key' = Replay("resume", key))
      BY <2>1 DEF KeyState, Replay
    <2> QED
      BY <1>0, <2>1, <2>2, <2>3, MeetsNobody
  \* A request that stays out of the key, or leaves a resume before its delete.
  <1>7. ASSUME NEW q \in Request, NEW s \in {"audit", "done"}, Then(q, s),
               UNCHANGED <<key, audit, astray>>,
               req[q].op = "kill_project" \/ (s = "done" /\ req[q].at # "audit")
        PROVE  AuditInv'
    <2>1. /\ Handling' /\ req'[q].op = req[q].op /\ req'[q].at = s
          /\ \A r \in Request \ {q} : req'[r] = req[r]
      BY <1>0, <1>7, HandlerMoves DEF HandlerStep
    <2>2. /\ ~Midway(q)'
          /\ \A r \in Request \ {q} : req'[r] = req[r] /\ (Midway(r)' <=> Midway(r))
      BY <1>7, <2>1 DEF Midway
    <2>3. ASSUME ~astray, \A r \in Request \ {q} : ~Midway(r) PROVE EndsAt(audit, key)
      <3>1. CASE Midway(q)
        BY <1>7, <2>3, <3>1 DEF AuditInv, Midway
      <3>2. CASE ~Midway(q)
        BY <1>1, <2>3, <3>2
      <3> QED
        BY <3>1, <3>2
    <2>4. Told' /\ (EndsAt(audit, key) <=> EndsAt(audit, key)')
      BY <1>7, SameRecords DEF AuditInv
    <2>5. ASSUME ~astray, NEW r \in Request, Midway(r)'
          PROVE  /\ r # q /\ Midway(r) /\ req'[r] = req[r]
      BY <2>2, <2>5
    <2>6. ASSUME ~astray, \A r \in Request : ~Midway(r)' PROVE EndsAt(audit, key)'
      BY <2>2, <2>3, <2>4, <2>6
    <2>7. ASSUME ~astray, NEW r \in Request, Midway(r)', req'[r].at = "audit"
          PROVE  \E k \in KeyState : EndsAt(audit, k)' /\ key' = Replay(req'[r].op, k)
      <3>1. Midway(r) /\ req'[r] = req[r]
        BY <2>5, <2>7
      <3>2. PICK k \in KeyState : EndsAt(audit, k) /\ key = Replay(req[r].op, k)
        BY <2>7, <3>1 DEF AuditInv
      <3> QED
        BY <1>7, <3>1, <3>2, SameRecords
    <2>8. ASSUME ~astray, NEW r \in Request, Midway(r)', req'[r].at = "delete"
          PROVE  EndsAt(audit, key)' /\ key' = "paused" /\ req'[r].op = "resume"
      BY <1>7, <2>4, <2>5, <2>8 DEF AuditInv
    <2> QED
      BY <1>7, <2>1, <2>4, <2>5, <2>6, <2>7, <2>8 DEF AuditInv
  <1>8. ASSUME NEW q \in Request, KillProject(q) PROVE AuditInv'
    BY <1>7, <1>8 DEF KillProject, At
  <1>9. ASSUME NEW q \in Request, Fail(q) PROVE AuditInv'
    <2>1. Then(q, "done") /\ UNCHANGED <<key, audit>>
          /\ astray' = (astray \/ (Midway(q) /\ req[q].at = "audit"))
      BY <1>9 DEF Fail
    <2>2. CASE Midway(q) /\ req[q].at = "audit"
      <3>1. Handling'
        BY <1>0, <2>1, HandlerMoves DEF HandlerStep
      <3>2. astray' /\ astray' \in BOOLEAN /\ Told'
        BY <2>1, <2>2, SameRecords DEF AuditInv
      <3> QED
        BY <1>0, <2>1, <3>1, <3>2 DEF AuditInv
    <2>3. CASE ~(Midway(q) /\ req[q].at = "audit")
      <3>1. UNCHANGED astray
        BY <2>1, <2>3 DEF AuditInv
      <3>2. req[q].op = "kill_project" \/ req[q].at # "audit"
        BY <2>3 DEF Midway
      <3> QED
        BY <1>7, <2>1, <3>1, <3>2
    <2> QED
      BY <2>2, <2>3
  <1>10. ASSUME NEW q \in Request, Audit(q) PROVE AuditInv'
    <2>1. /\ req[q].at = "audit" /\ Then(q, "done") /\ UNCHANGED <<key, astray>>
          /\ audit' = Append(audit, req[q].op) /\ req[q].op \in Op
      BY <1>0, <1>10 DEF Audit, Handling
    <2>2. /\ Handling' /\ req'[q].at = "done"
          /\ \A r \in Request \ {q} : req'[r] = req[r]
      BY <1>0, <2>1, HandlerMoves DEF HandlerStep
    <2>3. audit' \in Seq(Op) /\ Told'
      <3>1. PICK k \in KeyState : EndsAt(audit, k)
        BY DEF AuditInv, Told
      <3>2. EndsAt(audit', Replay(req[q].op, k)) /\ Replay(req[q].op, k) \in KeyState
        BY <1>0, <2>1, <3>1, EndsOneOn, ReplayOne DEF EndsAt
      <3>3. Told'
        BY <3>2 DEF Told, EndsAt, Replays
      <3> QED
        BY <1>0, <2>1, <3>3
    <2>4. /\ ~Midway(q)'
          /\ \A r \in Request \ {q} : req'[r] = req[r] /\ (Midway(r)' <=> Midway(r))
      BY <2>2 DEF Midway
    <2>5. CASE Midway(q)
      <3> SUFFICES ASSUME ~astray
                   PROVE  /\ \A r \in Request : ~Midway(r)'
                          /\ EndsAt(audit', key)
        BY <1>0, <2>1, <2>2, <2>3 DEF AuditInv, EndsAt, Replays
      <3>1. \A r \in Request \ {q} : ~Midway(r)
        BY <2>5 DEF AuditInv
      <3>2. PICK k \in KeyState : EndsAt(audit, k) /\ key = Replay(req[q].op, k)
        BY <2>1, <2>5 DEF AuditInv
      <3> QED
        BY <1>0, <2>1, <2>4, <3>1, <3>2, EndsOneOn
    <2>6. CASE ~Midway(q)
      <3>1. req[q].op = "kill_project"
        BY <2>1, <2>6 DEF Midway
      <3>2. ASSUME NEW k \in KeyState, EndsAt(audit, k) PROVE EndsAt(audit, k)'
        <4>1. Replay(req[q].op, k) = k
          BY <3>1 DEF Replay
        <4>2. EndsAt(audit', k)
          BY <1>0, <2>1, <3>2, <4>1, EndsOneOn
        <4> QED
          BY <4>2 DEF EndsAt, Replays
      <3>3. ASSUME ~astray, NEW r \in Request, Midway(r)'
            PROVE  r # q /\ Midway(r) /\ req'[r] = req[r]
        BY <2>4, <3>3
      <3>4. ASSUME ~astray, \A r \in Request : ~Midway(r)' PROVE EndsAt(audit, key)'
        <4>1. EndsAt(audit, key)
          BY <1>1, <2>4, <2>6, <3>4
        <4>2. EndsAt(audit', key)
          BY <1>0, <3>1, <2>1, <4>1, EndsOneOn DEF Replay
        <4> QED
          BY <2>1, <4>2 DEF EndsAt, Replays
      <3>5. ASSUME ~astray, NEW r \in Request, Midway(r)', req'[r].at = "audit"
            PROVE  \E k \in KeyState : EndsAt(audit, k)' /\ key' = Replay(req'[r].op, k)
        <4>1. Midway(r) /\ req'[r] = req[r]
          BY <3>3, <3>5
        <4>2. PICK k \in KeyState : EndsAt(audit, k) /\ key = Replay(req[r].op, k)
          BY <3>5, <4>1 DEF AuditInv
        <4> QED
          BY <2>1, <3>2, <4>1, <4>2
      <3>6. ASSUME ~astray, NEW r \in Request, Midway(r)', req'[r].at = "delete"
            PROVE  EndsAt(audit, key)' /\ key' = "paused" /\ req'[r].op = "resume"
        <4>1. Midway(r) /\ req'[r] = req[r]
          BY <3>3, <3>6
        <4>2. EndsAt(audit, key) /\ key = "paused" /\ req[r].op = "resume"
          BY <3>6, <4>1 DEF AuditInv
        <4>3. EndsAt(audit', key)
          BY <1>0, <3>1, <2>1, <4>2, EndsOneOn DEF Replay
        <4> QED
          BY <2>1, <4>1, <4>2, <4>3 DEF EndsAt, Replays
      <3> QED
        BY <1>0, <2>1, <2>2, <2>3, <3>3, <3>4, <3>5, <3>6 DEF AuditInv
    <2> QED
      BY <2>5, <2>6
  <1>11. ASSUME NEW b \in Body, Observe(b) PROVE AuditInv'
    <2>1. UNCHANGED <<key, req, audit, astray>>
      BY <1>11 DEF Observe, GateKilled, GateProject, GatePaused, TurnDone, panelVars
    <2> QED
      BY <2>1, SameRecords DEF AuditInv, Handling, Midway
  <1>12. CASE UNCHANGED vars
    BY <1>12, SameRecords DEF vars, AuditInv, Handling, Midway
  <1> QED
    BY <1>2, <1>3, <1>4, <1>5, <1>6, <1>8, <1>9, <1>10, <1>11, <1>12 DEF Next, Handle

\* The audit tells the key (control_service.py 3-6), with any number of requests
\* at a time, unless since the last pause or terminate that met no other midway
\* two of them did meet, or one was lost before its record.
THEOREM AuditTellsKey == Spec => []AuditReconstructs
  <1>1. Init => AuditInv
    <2> SUFFICES ASSUME Init PROVE AuditInv
      OBVIOUS
    <2> DEFINE f == [i \in 0 .. 0 |-> "active"]
    <2>1. /\ Len(audit) = 0 /\ key = "active" /\ audit \in Seq(Op)
          /\ f \in [0 .. 0 -> KeyState] /\ f[0] = "active"
      BY DEF Init, KeyState
    <2> HIDE DEF f
    <2>2. EndsAt(audit, key)
      BY <2>1 DEF EndsAt, Replays
    <2>3. Handling /\ key \in KeyState /\ \A q \in Request : ~Midway(q)
      BY DEF Init, Handling, Midway, Op, HandlerStep, KeyState
    <2> QED
      BY <2>1, <2>2, <2>3 DEF AuditInv, Told, Init
  <1>2. AuditInv => AuditReconstructs
    BY DEF AuditInv, EndsAt, AuditReconstructs
  <1> QED
    BY <1>1, <1>2, AuditStep, PTL DEF Spec
=============================================================================
