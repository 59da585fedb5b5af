-------------------------- MODULE StarChartProofs --------------------------
(***************************************************************************)
(* Theorems about StarChart, for any hosts, projects, sessions and number  *)
(* of retries.                                                             *)
(***************************************************************************)
EXTENDS StarChart, TLAPS

Calls == [at : {"idle", "watch", "exec", "broken"},
          role : {"none", "setup", "observatory", "seed"},
          offer : HostRecord \cup {NoRecord},
          force : BOOLEAN,
          tries : 0 .. MaxRetries - 1]

Ids == Body \cup Identity

\* The parts of the inductive invariant.
\* A running Observatory was started from an entry of its file.
Founded == \A h \in up : file[h] # NoRecord

\* Only a setup forces; the others offer the file's entry, once it is there.
Offers ==
    \A h \in Host :
        /\ call[h].force => call[h].role = "setup"
        /\ call[h].at # "idle" => call[h].offer # NoRecord
        /\ call[h].role = "observatory" =>
               call[h].offer = file[h]

\* What an intact WATCH guards: the field is still free, or the caller forces.
Guarded ==
    \A h \in Host :
        call[h].at = "exec" =>
            registry[BodyOf[h]] = NoRecord \/ call[h].force

ChartInv == TypeOK /\ Founded /\ Offers /\ Guarded /\ HoldsItsRecord

-----------------------------------------------------------------------------
LEMMA BreakTyped ==
    ASSUME NEW calls \in [Host -> Calls]
    PROVE  Break(calls) \in [Host -> Calls]
  BY DEF Break, Calls

\* Breaking WATCHes ends none, and none stays intact.
LEMMA BreakFacts ==
    ASSUME NEW calls \in [Host -> Calls], NEW h \in Host
    PROVE  /\ Break(calls)[h].at # "exec"
           /\ Break(calls)[h].at = "idle" <=> calls[h].at = "idle"
           /\ Break(calls)[h].role = calls[h].role
           /\ Break(calls)[h].offer = calls[h].offer
           /\ Break(calls)[h].force = calls[h].force
  BY DEF Break, Calls

LEMMA IdleTyped == Idle \in Calls
  BY ChartAssumption DEF Idle, Calls

\* What a write by anyone but register_body does to the calls.
LEMMA WriteTyped ==
    ASSUME TypeOK, NEW i \in Ids, NEW rec \in Record \cup {NoRecord},
           Write(i, rec)
    PROVE  /\ registry' \in [Ids -> Record \cup {NoRecord}]
           /\ call' \in [Host -> Calls]
  <1>1. call \in [Host -> Calls]
    BY DEF TypeOK, Calls
  <1> QED
    BY <1>1, BreakTyped DEF Write, TypeOK, Ids

LEMMA DeleteTyped ==
    ASSUME TypeOK, NEW i \in Ids, Delete(i)
    PROVE  /\ registry' \in [Ids -> Record \cup {NoRecord}]
           /\ call' \in [Host -> Calls]
  <1>1. CASE Write(i, NoRecord)
    BY <1>1, WriteTyped
  <1>2. CASE UNCHANGED <<registry, call>>
    BY <1>2 DEF TypeOK, Calls, Ids
  <1> QED
    BY <1>1, <1>2 DEF Delete

LEMMA RegisterTyped ==
    ASSUME TypeOK, NEW h \in Host, NEW rec \in HostRecord \cup {NoRecord},
           NEW role \in {"setup", "observatory", "seed"},
           NEW force \in BOOLEAN, Register(h, role, rec, force)
    PROVE  call' \in [Host -> Calls]
  <1>1. call \in [Host -> Calls] /\ 0 \in 0 .. MaxRetries - 1
    BY ChartAssumption DEF TypeOK, Calls
  <1>2. [at |-> "watch", role |-> role, offer |-> rec, force |-> force,
         tries |-> 0] \in Calls
    BY <1>1 DEF Calls
  <1> QED
    BY <1>1, <1>2 DEF Register

LEMMA TypeStep ==
    ASSUME TypeOK, [Next]_vars
    PROVE  TypeOK'
  <1> USE DEF Ids
  <1>t. call \in [Host -> Calls] /\ Idle \in Calls
    BY IdleTyped DEF TypeOK, Calls
  <1>c. ASSUME call' \in [Host -> Calls]
        PROVE  call' \in [Host -> [at : {"idle", "watch", "exec", "broken"},
                          role : {"none", "setup", "observatory", "seed"},
                          offer : HostRecord \cup {NoRecord},
                          force : BOOLEAN,
                          tries : 0 .. MaxRetries - 1]]
    BY <1>c DEF Calls
  <1>i. ASSUME NEW s \in Session PROVE IdentityOf[s] \in Ids \cap Record
    BY ChartAssumption DEF Record
  <1>h. ASSUME NEW h \in Host PROVE BodyOf[h] \in Ids
    BY ChartAssumption
  <1>d. ASSUME NEW h \in Host PROVE Done(h) \in [Host -> Calls]
    BY <1>t DEF Done
  <1>1. ASSUME NEW h \in Host, HostNext(h) PROVE TypeOK'
    <2>1. ASSUME NEW d \in Draft, NEW force \in BOOLEAN,
                 ClientSetup(h, d, force)
          PROVE  TypeOK'
      <3>1. <<h, d>> \in HostRecord
        BY DEF HostRecord
      <3>2. call' \in [Host -> Calls]
        BY <2>1, <3>1, RegisterTyped DEF ClientSetup
      <3>3. file' \in [Host -> HostRecord \cup {NoRecord}]
        BY <2>1, <3>1 DEF ClientSetup, AppendEntry, TypeOK
      <3> QED
        BY <2>1, <3>2, <3>3, <1>c DEF ClientSetup, TypeOK, sessionVars
    <2>2. ASSUME NEW d \in Draft, SetupUnreachable(h, d) PROVE TypeOK'
      <3>1. <<h, d>> \in HostRecord
        BY DEF HostRecord
      <3>2. file' \in [Host -> HostRecord \cup {NoRecord}]
        BY <2>2, <3>1 DEF SetupUnreachable, AppendEntry, TypeOK
      <3> QED
        BY <2>2, <3>2 DEF SetupUnreachable, TypeOK, sessionVars
    <2>3. CASE StartObservatory(h)
      <3>1. call' \in [Host -> Calls]
        BY <2>3, RegisterTyped DEF StartObservatory, TypeOK
      <3> QED
        BY <2>3, <3>1, <1>c DEF StartObservatory, TypeOK, sessionVars
    <2>4. CASE BeatObservatory(h)
      BY <2>4, <1>h DEF BeatObservatory, TypeOK, sessionVars, hostVars
    <2>5. CASE StopObservatory(h)
      BY <2>5 DEF StopObservatory, TypeOK, sessionVars
    <2>6. CASE Watch(h)
      <3>1. call' \in [Host -> Calls]
        <4>1. [call[h] EXCEPT !.at = "exec"] \in Calls
          BY <1>t DEF Calls
        <4> QED
          BY <2>6, <1>t, <1>d, <4>1 DEF Watch, GoUp
      <3>2. up' \subseteq Host
        BY <2>6 DEF Watch, GoUp, TypeOK
      <3> QED
        BY <2>6, <3>1, <3>2, <1>c DEF Watch, TypeOK, sessionVars
    <2>7. CASE Exec(h)
      <3>1. call' \in [Host -> Calls]
        BY <2>7, <1>d, BreakTyped DEF Exec
      <3>2. up' \subseteq Host /\ deposed' \subseteq Host
        BY <2>7 DEF Exec, GoUp, TypeOK
      <3>3. registry' \in [Ids -> Record \cup {NoRecord}]
        BY <2>7 DEF Exec, TypeOK, Record
      <3> QED
        BY <2>7, <3>1, <3>2, <3>3, <1>c DEF Exec, TypeOK, sessionVars
    <2>8. CASE Retry(h)
      <3>1. CASE GivesUp(h)
        BY <2>8, <3>1, <1>d, <1>c DEF Retry, TypeOK, sessionVars
      <3>2. CASE ~GivesUp(h)
        <4>1. Tried(h) \in 0 .. MaxRetries - 1
          BY <3>2, <1>t, ChartAssumption DEF GivesUp, Tried, Calls
        <4>2. [call[h] EXCEPT !.at = "watch", !.tries = Tried(h)] \in Calls
          BY <1>t, <4>1 DEF Calls
        <4>3. call' = [call EXCEPT ![h] = [call[h] EXCEPT !.at = "watch",
                                                     !.tries = Tried(h)]]
          BY <2>8, <3>2 DEF Retry
        <4>4. call' \in [Host -> Calls]
          BY <4>2, <4>3, <1>t
        <4> QED
          BY <2>8, <4>4, <1>c DEF Retry, TypeOK, sessionVars
      <3> QED
        BY <3>1, <3>2
    <2> QED
      BY <1>1, <2>1, <2>2, <2>3, <2>4, <2>5, <2>6, <2>7, <2>8
         DEF HostNext, RegisterStep
  <1>2. ASSUME NEW s \in Session, SessionNext(s) PROVE TypeOK'
    <2>1. CASE Seed(s)
      <3>1. call' \in [Host -> Calls]
        BY <2>1, RegisterTyped, ChartAssumption DEF Seed, TypeOK
      <3> QED
        BY <2>1, <3>1, <1>c DEF Seed, Step, TypeOK
    <2>2. CASE Join(s)
      <3>1. /\ registry' \in [Ids -> Record \cup {NoRecord}]
            /\ call' \in [Host -> Calls]
        BY <2>2, <1>i, WriteTyped DEF Join, AddSelf
      <3>2. main' = [main EXCEPT ![s] = "joined"]
        BY <2>2 DEF Join, Step
      <3> QED
        BY <2>2, <3>1, <3>2, <1>c DEF Join, TypeOK
    <2>3. CASE FirstBeat(s)
      BY <2>3, <1>i DEF FirstBeat, Step, Beat, TypeOK, hostVars
    <2>4. CASE TickDue(s)
      BY <2>4 DEF TickDue, TypeOK, hostVars
    <2>5. CASE TickBeat(s)
      BY <2>5, <1>i DEF TickBeat, Beat, TypeOK, hostVars
    <2>6. CASE TickAdd(s)
      <3>1. /\ registry' \in [Ids -> Record \cup {NoRecord}]
            /\ call' \in [Host -> Calls]
        BY <2>6, <1>i, WriteTyped DEF TickAdd, AddSelf
      <3> QED
        BY <2>6, <3>1, <1>c DEF TickAdd, TypeOK
    <2>7. CASE Leave(s)
      <3>1. /\ registry' \in [Ids -> Record \cup {NoRecord}]
            /\ call' \in [Host -> Calls]
        BY <2>7, <1>i, DeleteTyped DEF Leave
      <3> QED
        BY <2>7, <3>1, <1>c DEF Leave, Step, TypeOK
    <2>8. CASE GoOffline(s)
      BY <2>8 DEF GoOffline, Step, TypeOK, hostVars
    <2>9. CASE Exit(s)
      BY <2>9 DEF Exit, TypeOK, hostVars
    <2> QED
      BY <1>2, <2>1, <2>2, <2>3, <2>4, <2>5, <2>6, <2>7, <2>8, <2>9
         DEF SessionNext, TickStep
  <1>3. ASSUME NEW i \in Ids, Lapse(i) \/ Unregister(i) PROVE TypeOK'
    BY <1>3 DEF Lapse, Unregister, TypeOK, hostVars, sessionVars
  <1>4. CASE PanelStep
    <2>1. ASSUME NEW force \in BOOLEAN, RefuseOnline(force) PROVE TypeOK'
      BY <2>1 DEF RefuseOnline, PanelAt, PanelThen, Quiet, TypeOK, hostVars, sessionVars
    <2>2. CASE Remove
      <3>1. /\ registry' \in [Ids -> Record \cup {NoRecord}]
            /\ call' \in [Host -> Calls]
        <4>1. panel.id \in Ids
          BY <2>2 DEF Remove, PanelAt, Quiet, TypeOK
        <4> QED
          BY <2>2, <4>1, DeleteTyped DEF Remove
      <3> QED
        BY <2>2, <3>1, <1>c DEF Remove, PanelAt, PanelThen, Quiet, TypeOK, sessionVars
    <2>3. CASE Darken
      BY <2>3 DEF Darken, Quiet, TypeOK, hostVars, sessionVars
    <2> QED
      BY <1>4, <2>1, <2>2, <2>3 DEF PanelStep
  <1>5. CASE UNCHANGED vars
    BY <1>5 DEF vars, TypeOK
  <1> QED
    BY <1>1, <1>2, <1>3, <1>4, <1>5 DEF Next

-----------------------------------------------------------------------------
\* A step that leaves the calls, the files and the running Observatories alone.
LEMMA QuietKeeps ==
    ASSUME ChartInv, UNCHANGED <<registry, file, call, up, deposed>>
    PROVE  Founded' /\ Offers' /\ Guarded' /\ HoldsItsRecord'
  BY DEF ChartInv, Founded, Offers, Guarded, HoldsItsRecord

\* A write by anyone but register_body, to any one field.
LEMMA WriteKeeps ==
    ASSUME ChartInv, NEW i \in Ids, NEW rec, Write(i, rec),
           UNCHANGED <<file, up>>
    PROVE  /\ Founded' /\ Offers' /\ Guarded'
           /\ \A b \in Body : b # i => registry'[b] = registry[b]
           /\ registry'[i] = rec
  <1>1. call \in [Host -> Calls]
    BY DEF ChartInv, TypeOK, Calls
  <1>2. \A h \in Host : /\ call'[h].at # "exec"
                        /\ call'[h].at = "idle" <=> call[h].at = "idle"
                        /\ call'[h].role = call[h].role
                        /\ call'[h].offer = call[h].offer
                        /\ call'[h].force = call[h].force
    BY <1>1, BreakFacts DEF Write
  <1>3. Founded' /\ Offers' /\ Guarded'
    BY <1>2 DEF ChartInv, Founded, Offers, Guarded
  <1> QED
    BY <1>3 DEF Write, ChartInv, TypeOK, Ids

\* A write to an identity, which is no project's.
LEMMA IdentityKeeps ==
    ASSUME ChartInv, NEW i \in Identity, NEW rec,
           Write(i, rec), UNCHANGED <<file, up, deposed>>
    PROVE  Founded' /\ Offers' /\ Guarded' /\ HoldsItsRecord'
  <1>1. \A b \in Body : registry'[b] = registry[b]
    BY WriteKeeps, ChartAssumption DEF Ids
  <1>2. \A h \in up : BodyOf[h] \in Body
    BY ChartAssumption DEF ChartInv, TypeOK
  <1>3. HoldsItsRecord'
    BY <1>1, <1>2 DEF ChartInv, HoldsItsRecord
  <1> QED
    BY <1>3, WriteKeeps DEF Ids

\* The start of a call: nothing is read yet.
LEMMA RegisterKeeps ==
    ASSUME ChartInv, NEW h \in Host, NEW rec,
           NEW role \in {"setup", "observatory", "seed"},
           NEW force \in BOOLEAN, Register(h, role, rec, force),
           force => role = "setup", role = "observatory" => rec = file'[h],
           \A g \in Host : g # h \/ file[g] # NoRecord => file'[g] = file[g],
           UNCHANGED <<registry, up, deposed>>
    PROVE  Founded' /\ Offers' /\ Guarded' /\ HoldsItsRecord'
  <1>1. call \in [Host -> Calls] /\ up \subseteq Host
    BY DEF ChartInv, TypeOK, Calls
  <1>2. /\ call'[h].at = "watch" /\ call'[h].role = role
        /\ call'[h].offer = rec /\ call'[h].force = force /\ rec # NoRecord
        /\ \A g \in Host : g # h => call'[g] = call[g]
    BY <1>1 DEF Register
  <1>3. \A g \in up : file'[g] = file[g]
    BY <1>1 DEF ChartInv, Founded
  <1>4. Founded' /\ HoldsItsRecord'
    BY <1>3 DEF ChartInv, Founded, HoldsItsRecord
  <1>5. Offers'
    BY <1>2 DEF ChartInv, Offers
  <1>6. Guarded'
    BY <1>2 DEF ChartInv, Guarded
  <1> QED
    BY <1>4, <1>5, <1>6

\* register_body's read and its conditional write.
LEMMA WatchKeeps ==
    ASSUME ChartInv, NEW h \in Host, Watch(h)
    PROVE  Founded' /\ Offers' /\ Guarded' /\ HoldsItsRecord'
  <1> DEFINE held == registry[BodyOf[h]]
  <1>1. call \in [Host -> Calls] /\ up \subseteq Host /\ call[h].at = "watch"
    BY DEF ChartInv, TypeOK, Calls, Watch
  <1>2. CASE held = call[h].offer \/ Conflicts(held, call[h])
    <2>1. /\ call'[h] = Idle
          /\ \A g \in Host : g # h => call'[g] = call[g]
      BY <1>1, <1>2 DEF Watch, Done
    <2>2. Offers' /\ Guarded'
      BY <2>1 DEF Watch, ChartInv, Offers, Guarded, Idle
    <2>3. up' = up \/ /\ up' = up \cup {h}
                      /\ held = call[h].offer /\ call[h].role = "observatory"
      BY <1>2 DEF Watch, GoUp
    <2>4. Founded' /\ HoldsItsRecord'
      BY <1>1, <2>3 DEF Watch, ChartInv, Founded, Offers, HoldsItsRecord
    <2> QED
      BY <2>2, <2>4
  <1>3. CASE ~(held = call[h].offer \/ Conflicts(held, call[h]))
    <2>1. /\ call'[h] = [call[h] EXCEPT !.at = "exec"]
          /\ \A g \in Host : g # h => call'[g] = call[g]
          /\ UNCHANGED <<registry, file, up, deposed>>
      BY <1>1, <1>3 DEF Watch
    <2>2. /\ call'[h].at = "exec" /\ call'[h].role = call[h].role
          /\ call'[h].offer = call[h].offer /\ call'[h].force = call[h].force
      BY <1>1, <2>1 DEF Calls
    <2>3. Offers'
      <3>1. \A g \in Host : g # h => call'[g] = call[g]
        BY <2>1
      <3>2. UNCHANGED file
        BY <2>1
      <3>3. Offers /\ call[h].at # "idle"
        BY <1>1 DEF ChartInv
      <3> QED
        BY <2>2, <3>1, <3>2, <3>3 DEF Offers
    <2>4. held = NoRecord \/ call[h].force
      BY <1>3 DEF Conflicts
    <2>5. Guarded'
      BY <2>1, <2>2, <2>4 DEF ChartInv, Guarded
    <2> QED
      BY <2>1, <2>3, <2>5 DEF ChartInv, Founded, HoldsItsRecord
  <1> QED
    BY <1>2, <1>3

LEMMA ExecKeeps ==
    ASSUME ChartInv, NEW h \in Host, Exec(h)
    PROVE  Founded' /\ Offers' /\ Guarded' /\ HoldsItsRecord'
  <1>1. /\ call \in [Host -> Calls] /\ up \subseteq Host
        /\ call[h].at = "exec" /\ UNCHANGED file
        /\ registry \in [Ids -> Record \cup {NoRecord}]
        /\ BodyOf[h] \in Ids
    BY ChartAssumption DEF ChartInv, TypeOK, Calls, Exec, Ids
  <1>2. Done(h) \in [Host -> Calls]
    BY <1>1, IdleTyped DEF Done
  <1>3. /\ Done(h)[h] = Idle
        /\ \A g \in Host : g # h => Done(h)[g] = call[g]
    BY <1>1 DEF Done
  <1>4. \A g \in Host : /\ call'[g].at # "exec"
                        /\ call'[g].at = "idle" <=> Done(h)[g].at = "idle"
                        /\ call'[g].role = Done(h)[g].role
                        /\ call'[g].offer = Done(h)[g].offer
                        /\ call'[g].force = Done(h)[g].force
    BY <1>2, BreakFacts DEF Exec
  <1>5. Offers' /\ Guarded'
    BY <1>1, <1>3, <1>4 DEF ChartInv, Offers, Guarded, Idle
  <1>6. up' = up \/ (up' = up \cup {h} /\ call[h].role = "observatory")
    BY DEF Exec, GoUp
  <1>7. Founded'
    BY <1>1, <1>6 DEF ChartInv, Founded, Offers
  <1>8. ASSUME NEW g \in up' \ deposed'
        PROVE  registry'[BodyOf[g]] = file[g]
    <2>1. registry'[BodyOf[h]] = call[h].offer
      BY <1>1 DEF Exec
    <2>2. CASE g \in up /\ BodyOf[g] = BodyOf[h]
      <3>1. ~call[h].force /\ g \notin deposed
        BY <2>2, <1>8 DEF Exec
      <3>2. registry[BodyOf[h]] = NoRecord
        BY <1>1, <3>1 DEF ChartInv, Guarded
      <3>3. registry[BodyOf[g]] = file[g] /\ file[g] # NoRecord
        BY <2>2, <3>1 DEF ChartInv, HoldsItsRecord, Founded
      <3> QED
        BY <2>2, <3>2, <3>3
    <2>3. CASE g \in up /\ BodyOf[g] # BodyOf[h]
      <3>1. g \notin deposed /\ registry'[BodyOf[g]] = registry[BodyOf[g]]
        <4>1. BodyOf[g] \in Ids
          BY <2>3, <1>1, ChartAssumption DEF Ids
        <4> QED
          BY <2>3, <1>1, <1>8, <4>1 DEF Exec
      <3> QED
        BY <2>3, <3>1 DEF ChartInv, HoldsItsRecord
    <2>4. CASE g \notin up
      <3>1. g = h /\ call[h].role = "observatory"
        BY <1>6, <2>4, <1>8
      <3> QED
        BY <2>1, <3>1 DEF ChartInv, Offers
    <2> QED
      BY <2>2, <2>3, <2>4
  <1> QED
    BY <1>1, <1>5, <1>7, <1>8 DEF HoldsItsRecord

LEMMA RetryKeeps ==
    ASSUME ChartInv, NEW h \in Host, Retry(h)
    PROVE  Founded' /\ Offers' /\ Guarded' /\ HoldsItsRecord'
  <1>1. call \in [Host -> Calls] /\ call[h].at = "broken"
    BY DEF ChartInv, TypeOK, Calls, Retry
  <1>2. UNCHANGED <<registry, file, up, deposed>>
    BY DEF Retry
  <1>3. /\ \A g \in Host : g # h => call'[g] = call[g]
        /\ call'[h] = Idle \/ /\ call'[h].at = "watch"
                              /\ call'[h].role = call[h].role
                              /\ call'[h].offer = call[h].offer
                              /\ call'[h].force = call[h].force
    <2>1. CASE GivesUp(h)
      BY <1>1, <2>1 DEF Retry, Done
    <2>2. CASE ~GivesUp(h)
      <3>1. call' = [call EXCEPT ![h] = [call[h] EXCEPT !.at = "watch",
                                                   !.tries = Tried(h)]]
        BY <2>2 DEF Retry
      <3> QED
        BY <1>1, <3>1 DEF Calls
    <2> QED
      BY <2>1, <2>2
  <1> QED
    BY <1>1, <1>2, <1>3
       DEF ChartInv, Founded, Offers, Guarded, HoldsItsRecord, Idle

LEMMA HostKeeps ==
    ASSUME ChartInv, NEW h \in Host, HostNext(h)
    PROVE  Founded' /\ Offers' /\ Guarded' /\ HoldsItsRecord'
  <1>1. ASSUME NEW d \in Draft, NEW force \in BOOLEAN, ClientSetup(h, d, force)
        PROVE  Founded' /\ Offers' /\ Guarded' /\ HoldsItsRecord'
    <2>1. \A g \in Host : g # h \/ file[g] # NoRecord => file'[g] = file[g]
      BY <1>1 DEF ClientSetup, AppendEntry, ChartInv, TypeOK
    <2> QED
      BY <1>1, <2>1, RegisterKeeps DEF ClientSetup
  <1>2. ASSUME NEW d \in Draft, SetupUnreachable(h, d)
        PROVE  Founded' /\ Offers' /\ Guarded' /\ HoldsItsRecord'
    <2>1. \A g \in Host : g # h \/ file[g] # NoRecord => file'[g] = file[g]
      BY <1>2 DEF SetupUnreachable, AppendEntry, ChartInv, TypeOK
    <2>2. up \subseteq Host /\ UNCHANGED <<registry, call, up, deposed>>
          /\ call[h].role = "none"
      BY <1>2 DEF SetupUnreachable, ChartInv, TypeOK, Idle
    <2> QED
      BY <2>1, <2>2 DEF ChartInv, Founded, Offers, Guarded, HoldsItsRecord
  <1>3. CASE StartObservatory(h)
    BY <1>3, RegisterKeeps DEF StartObservatory
  <1>4. CASE BeatObservatory(h)
    BY <1>4, QuietKeeps DEF BeatObservatory, hostVars
  <1>5. CASE StopObservatory(h)
    BY <1>5 DEF StopObservatory, ChartInv, Founded, Offers, Guarded,
                HoldsItsRecord
  <1> QED
    BY <1>1, <1>2, <1>3, <1>4, <1>5, WatchKeeps, ExecKeeps, RetryKeeps
       DEF HostNext, RegisterStep

LEMMA SessionKeeps ==
    ASSUME ChartInv, NEW s \in Session, SessionNext(s)
    PROVE  Founded' /\ Offers' /\ Guarded' /\ HoldsItsRecord'
  <1>1. IdentityOf[s] \in Identity /\ HostOf[s] \in Host
    BY ChartAssumption
  <1>2. CASE Seed(s)
    BY <1>1, <1>2, RegisterKeeps DEF Seed
  <1>3. CASE Join(s) \/ TickAdd(s)
    BY <1>1, <1>3, IdentityKeeps DEF Join, TickAdd, AddSelf
  <1>4. CASE Leave(s)
    BY <1>1, <1>4, IdentityKeeps, QuietKeeps DEF Leave, Delete
  <1>5. CASE FirstBeat(s) \/ TickDue(s) \/ TickBeat(s) \/ GoOffline(s) \/ Exit(s)
    BY <1>5, QuietKeeps
       DEF FirstBeat, TickDue, TickBeat, GoOffline, Exit, hostVars
  <1> QED
    BY <1>2, <1>3, <1>4, <1>5 DEF SessionNext, TickStep

\* unregister takes a record away, and notes whose.
LEMMA RemoveKeeps ==
    ASSUME ChartInv, Remove
    PROVE  Founded' /\ Offers' /\ Guarded' /\ HoldsItsRecord'
  <1>1. panel.id \in Ids
    BY DEF ChartInv, Remove, PanelAt, Quiet, TypeOK, Ids
  <1>2. \A h \in up' \ deposed' : /\ h \in up \ deposed
                                  /\ BodyOf[h] # panel.id /\ BodyOf[h] \in Body
    BY ChartAssumption DEF Remove, ChartInv, TypeOK
  <1>3. CASE Write(panel.id, NoRecord)
    <2>1. /\ Founded' /\ Offers' /\ Guarded'
          /\ \A b \in Body : b # panel.id => registry'[b] = registry[b]
      BY <1>1, <1>3, WriteKeeps DEF Remove
    <2>2. HoldsItsRecord'
      BY <1>2, <2>1 DEF Remove, ChartInv, HoldsItsRecord
    <2> QED
      BY <2>1, <2>2
  <1>4. CASE UNCHANGED <<registry, call>>
    BY <1>2, <1>4
       DEF Remove, ChartInv, Founded, Offers, Guarded, HoldsItsRecord
  <1> QED
    BY <1>3, <1>4 DEF Remove, Delete

LEMMA ChartStep ==
    ASSUME ChartInv, [Next]_vars
    PROVE  ChartInv'
  <1>1. TypeOK'
    BY TypeStep DEF ChartInv
  <1>2. ASSUME NEW i \in Body \cup Identity, Lapse(i) \/ Unregister(i)
        PROVE  Founded' /\ Offers' /\ Guarded' /\ HoldsItsRecord'
    BY <1>2, QuietKeeps DEF Lapse, Unregister, hostVars
  <1>3. ASSUME PanelStep
        PROVE  Founded' /\ Offers' /\ Guarded' /\ HoldsItsRecord'
    BY <1>3, RemoveKeeps, QuietKeeps DEF PanelStep, RefuseOnline, Darken, hostVars
  <1>4. ASSUME UNCHANGED vars
        PROVE  Founded' /\ Offers' /\ Guarded' /\ HoldsItsRecord'
    BY <1>4, QuietKeeps DEF vars
  <1> QED
    BY <1>1, <1>2, <1>3, <1>4, HostKeeps, SessionKeeps DEF Next, ChartInv

LEMMA ChartInit == Init => ChartInv
  <1> SUFFICES ASSUME Init PROVE ChartInv
    OBVIOUS
  <1>1. TypeOK
    BY IdleTyped DEF Init, TypeOK, Calls
  <1>2. \A h \in Host : call[h] = Idle
    BY DEF Init
  <1> QED
    BY <1>1, <1>2 DEF Init, ChartInv, Founded, Offers, Guarded,
                      HoldsItsRecord, Idle

THEOREM ChartInvariant == Spec => []ChartInv
  BY ChartInit, ChartStep, PTL DEF Spec

\* The star chart's state keeps its types.
THEOREM ChartTypeCorrect == Spec => []TypeOK
  <1>1. ChartInv => TypeOK
    BY DEF ChartInv
  <1> QED
    BY <1>1, ChartInvariant, PTL

\* Whatever the number of hosts that race through register_body, a running
\* Observatory holds the record its project is known by, unless an operator or
\* a forced setup took it.
THEOREM OwnRecord == Spec => []HoldsItsRecord
  <1>1. ChartInv => HoldsItsRecord
    BY DEF ChartInv
  <1> QED
    BY <1>1, ChartInvariant, PTL

-----------------------------------------------------------------------------
\* A step that may replace a project's record.
Replaces(b) == Registered(b) /\ registry'[b] \notin {NoRecord, registry[b]}

ForcedOver(b) == \E h \in Host : /\ BodyOf[h] = b
                                 /\ call[h].role = "setup"
                                 /\ call[h].force

LEMMA OthersWrite ==
    ASSUME TypeOK, NEW b \in Body, NEW i \in Ids, NEW rec, Write(i, rec),
           i # b \/ rec = NoRecord
    PROVE  ~Replaces(b)
  BY DEF Write, Replaces, TypeOK, Ids

LEMMA FailClosedStep ==
    ASSUME ChartInv, [Next]_vars, NEW b \in Body, Replaces(b)
    PROVE  ForcedOver(b)
  <1>1. ASSUME NEW h \in Host, HostNext(h) PROVE ForcedOver(b)
    <2>1. Exec(h)
      BY <1>1 DEF HostNext, RegisterStep, ClientSetup, SetupUnreachable,
                  StartObservatory, BeatObservatory, StopObservatory, Watch,
                  Retry, Replaces, hostVars
    <2>2. BodyOf[h] = b
      BY <2>1 DEF Exec, Replaces, ChartInv, TypeOK, Ids
    <2>3. call[h].at = "exec" /\ registry[b] # NoRecord
      BY <2>1 DEF Exec, Replaces, Registered
    <2> QED
      BY <2>2, <2>3 DEF ForcedOver, ChartInv, Guarded, Offers
  <1>2. ASSUME NEW s \in Session, SessionNext(s) PROVE FALSE
    <2>1. IdentityOf[s] \in Ids /\ IdentityOf[s] # b
      BY ChartAssumption DEF Ids
    <2>2. ~Write(IdentityOf[s], IdentityOf[s]) /\ ~Write(IdentityOf[s], NoRecord)
      BY <2>1, OthersWrite DEF ChartInv
    <2>3. registry' # registry
      BY DEF Replaces
    <2> QED
      BY <1>2, <2>2, <2>3
         DEF SessionNext, TickStep, Seed, Join, FirstBeat, TickDue, TickBeat,
             TickAdd, Leave, GoOffline, Exit, AddSelf, Delete
  <1>3. ASSUME PanelStep PROVE FALSE
    <2>1. registry' # registry
      BY DEF Replaces
    <2>2. Remove
      BY <1>3, <2>1 DEF PanelStep, RefuseOnline, Darken
    <2>3. panel.id \in Ids
      BY <2>2 DEF ChartInv, Remove, PanelAt, Quiet, TypeOK, Ids
    <2> QED
      BY <2>1, <2>2, <2>3, OthersWrite DEF Remove, Delete, ChartInv
  <1>4. ASSUME NEW i \in Body \cup Identity, Lapse(i) \/ Unregister(i)
        PROVE  FALSE
    BY <1>4 DEF Lapse, Unregister, Replaces
  <1>5. ASSUME UNCHANGED vars PROVE FALSE
    BY <1>5 DEF vars, Replaces
  <1> QED
    BY <1>1, <1>2, <1>3, <1>4, <1>5 DEF Next

\* Registration fails closed: only a forced setup replaces a project's record.
THEOREM FailsClosed == Spec => FailClosed
  <1>1. ASSUME ChartInv, [Next]_vars
        PROVE  [\A b \in Body :
                   Registered(b) /\ registry'[b] \notin {NoRecord, registry[b]}
                       => \E h \in Host : /\ BodyOf[h] = b
                                          /\ call[h].role = "setup"
                                          /\ call[h].force]_vars
    BY <1>1, FailClosedStep DEF Replaces, ForcedOver
  <1> QED
    BY <1>1, ChartInvariant, PTL DEF Spec, FailClosed
=============================================================================
