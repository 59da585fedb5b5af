------------------------- MODULE BusSettingsProofs -------------------------
(* Proofs about BusSettings, for every set of settings, buses and commands. *)
EXTENDS BusSettings, TLAPS

\* A resolved connection: every endpoint is named, nothing is blank.
Resolved(k) ==
    /\ k \in Setting
    /\ \A f \in Endpoint : k[f] # Unset
    /\ k["ssl"] \in {"on", "off"}
    /\ k["password"] # Blank /\ k["username"] # Blank /\ k["ca"] # Blank
    /\ k["ssl"] = "off" => k["ca"] = Unset

\* A profile that says what the connection was.
Records(p, k) ==
    /\ p \in Setting
    /\ \A f \in Endpoint \cup {"username"} : p[f] = k[f]
    /\ p["password"] = Unset
    /\ p["ssl"] = IF k["ssl"] = "on" THEN "on" ELSE Unset
    /\ p["ca"] # RelativeCA

\* A field of the endpoint that flags and environment leave to the profile.
FromProfile(p, f) == IF p[f] = Unset THEN Default[f] ELSE p[f]

PasswordGiven(k) ==
    \/ k["password"] = Unset
    \/ \E s \in Env \cup Flags : s["password"] = k["password"]

SettingsOK ==
    /\ profile \in Setting /\ env \in Env /\ cwd \in Dir /\ up \subseteq Bus
    /\ pending \in Flags \cup {None}

UsedOK ==
    /\ used = None \/ (Resolved(used) /\ Records(profile, used) /\ PasswordGiven(used))
    /\ home # None => \A f \in Endpoint \ home.own : home.at[f] = FromProfile(profile, f)
    /\ pending # None /\ pending["host"] # Unset =>
           used # None /\ Address(Resolve(pending, env, profile)) = Address(used)

EntryOK ==
    /\ entry = None \/ (/\ Resolved(meant)
                        /\ \E flags \in Flags : entry = EntryOf(flags, meant))
    /\ session = None \/ (session \in Setting /\ PasswordGiven(session))

IInv == SettingsOK /\ UsedOK /\ EntryOK

-----------------------------------------------------------------------------

LEMMA NothingIsSetting == Nothing \in Setting /\ \A f \in Field : Nothing[f] = Unset
  BY DEF Nothing, Setting

LEMMA PickType ==
  ASSUME NEW flags \in Setting, NEW e \in Setting, NEW p \in Setting, NEW f \in Field
  PROVE  Pick(flags, e, p, f) \in Value \cup {Unset}
  BY DEF Pick, Setting

\* What each field of a resolved connection is.
LEMMA ResolveFields ==
  ASSUME NEW flags \in Setting, NEW e \in Setting, NEW p \in Setting
  PROVE  LET k == Resolve(flags, e, p)
             said(f) == Pick(flags, e, p, f)
         IN /\ \A f \in Endpoint : k[f] = IF said(f) = Unset THEN Default[f] ELSE said(f)
            /\ k["ssl"] = IF said("ssl") = "on" THEN "on" ELSE "off"
            /\ k["username"] = IF said("username") = Blank THEN Unset ELSE said("username")
            /\ k["password"] = IF said("password") = Blank THEN Unset ELSE said("password")
            /\ k["ca"] = IF said("ca") = Blank \/ said("ssl") # "on" THEN Unset ELSE said("ca")
  BY DEF Resolve, Field, Endpoint

LEMMA ResolveIsResolved ==
  ASSUME NEW flags \in Setting, NEW e \in Setting, NEW p \in Setting
  PROVE  Resolved(Resolve(flags, e, p))
<1> DEFINE k == Resolve(flags, e, p)
<1>1. /\ \A f \in Endpoint : k[f] \in Value /\ k[f] # Unset
      /\ k["ssl"] \in {"on", "off"}
      /\ \A f \in {"password", "username", "ca"} :
             k[f] \in Value \cup {Unset} /\ k[f] # Blank
      /\ k["ssl"] = "off" => k["ca"] = Unset
  <2>1. ASSUME NEW f \in Endpoint PROVE k[f] \in Value /\ k[f] # Unset
    BY <2>1, ResolveFields, PickType, BusAssumption DEF Endpoint, Field
  <2>2. k["ssl"] \in {"on", "off"} /\ (k["ssl"] = "off" => k["ca"] = Unset)
    BY ResolveFields
  <2>3. /\ Pick(flags, e, p, "password") \in Value \cup {Unset}
        /\ Pick(flags, e, p, "username") \in Value \cup {Unset}
        /\ Pick(flags, e, p, "ca") \in Value \cup {Unset}
    BY PickType DEF Field
  <2>4. \A f \in {"password", "username", "ca"} :
            k[f] \in Value \cup {Unset} /\ k[f] # Blank
    BY <2>3, ResolveFields, BusAssumption
  <2> QED BY <2>1, <2>2, <2>4
<1>2. \A f \in Field : k[f] \in Value \cup {Unset}
  BY <1>1, BusAssumption DEF Field, Endpoint
<1>3. k = [f \in Field |-> k[f]]
  BY DEF Resolve
<1>4. k \in Setting
  BY <1>2, <1>3 DEF Setting
<1> QED BY <1>1, <1>4 DEF Resolved

\* The profile that is written records the connection that was pinged.
LEMMA ProfileRecords ==
  ASSUME NEW k, Resolved(k), SettingsOK
  PROVE  /\ Records(ProfileOf(k), k)
         /\ ProfileOf(k)["ca"] = Absolute(k["ca"])
<1>1. Absolute(k["ca"]) \in Value \cup {Unset} /\ Absolute(k["ca"]) # RelativeCA
  BY BusAssumption DEF Absolute, Resolved, Setting, Field, SettingsOK
<1>2. ProfileOf(k) \in Setting
  BY <1>1, BusAssumption DEF ProfileOf, Resolved, Setting, Field
<1>3. /\ ProfileOf(k)["ca"] = Absolute(k["ca"])
      /\ ProfileOf(k)["password"] = Unset
      /\ ProfileOf(k)["ssl"] = IF k["ssl"] = "on" THEN "on" ELSE Unset
      /\ \A f \in Endpoint \cup {"username"} : ProfileOf(k)[f] = k[f]
  BY DEF ProfileOf, Resolved, Setting, Field, Endpoint
<1> QED BY <1>1, <1>2, <1>3 DEF Records

LEMMA SecretIsSetting ==
  ASSUME NEW k \in Setting
  PROVE  /\ Secret(k) \in Setting
         /\ \A f \in Field \ {"password"} : Secret(k)[f] = Unset
         /\ Secret(k)["password"] = k["password"]
  BY DEF Secret, Nothing, Setting, Field

\* A recorded connection is resolved again from the profile and the password.
LEMMA Reproduced ==
  ASSUME NEW k, Resolved(k), NEW p, Records(p, k)
  PROVE  LET r == Resolve(Nothing, Secret(k), p)
         IN /\ \A f \in Field \ {"ca"} : r[f] = k[f]
            /\ r["ca"] = IF p["ca"] = Blank \/ k["ssl"] # "on" THEN Unset ELSE p["ca"]
<1> DEFINE r == Resolve(Nothing, Secret(k), p)
           said(f) == Pick(Nothing, Secret(k), p, f)
<1>1. k \in Setting /\ p \in Setting /\ Nothing \in Setting /\ Secret(k) \in Setting
  BY NothingIsSetting, SecretIsSetting DEF Resolved, Records
<1>2. \A f \in Field \ {"password"} : said(f) = p[f]
  BY <1>1, NothingIsSetting, SecretIsSetting DEF Pick
<1>3. said("password") = k["password"]
  BY <1>1, NothingIsSetting, SecretIsSetting DEF Pick, Field
<1>4. /\ \A f \in Endpoint : r[f] = IF said(f) = Unset THEN Default[f] ELSE said(f)
      /\ r["ssl"] = IF said("ssl") = "on" THEN "on" ELSE "off"
      /\ r["username"] = IF said("username") = Blank THEN Unset ELSE said("username")
      /\ r["password"] = IF said("password") = Blank THEN Unset ELSE said("password")
      /\ r["ca"] = IF said("ca") = Blank \/ said("ssl") # "on" THEN Unset ELSE said("ca")
  BY <1>1, ResolveFields
<1>5. \A f \in Endpoint : r[f] = k[f]
  BY <1>2, <1>4 DEF Resolved, Records, Endpoint, Field
<1>6. r["username"] = k["username"]
  BY <1>2, <1>4 DEF Resolved, Records, Field
<1>7. r["password"] = k["password"]
  BY <1>3, <1>4 DEF Resolved
<1>8. said("ssl") = p["ssl"] /\ (p["ssl"] = "on" <=> k["ssl"] = "on")
  BY <1>2, BusAssumption DEF Records, Field
<1>9. r["ssl"] = k["ssl"]
  BY <1>4, <1>8 DEF Resolved
<1>10. r["ca"] = IF p["ca"] = Blank \/ k["ssl"] # "on" THEN Unset ELSE p["ca"]
  BY <1>2, <1>4, <1>8 DEF Field
<1> QED BY <1>5, <1>6, <1>7, <1>9, <1>10 DEF Field

\* A command line resolves to the same address after its own bus use.
LEMMA SameAddress ==
  ASSUME NEW flags \in Setting, NEW e \in Setting, NEW p \in Setting, NEW q,
         Records(q, Resolve(flags, e, p))
  PROVE  Address(Resolve(flags, e, q)) = Address(Resolve(flags, e, p))
<1> DEFINE k == Resolve(flags, e, p)
           r == Resolve(flags, e, q)
<1>1. Resolved(k) /\ q \in Setting
  BY ResolveIsResolved DEF Records
<1>2. ASSUME NEW f \in Endpoint PROVE r[f] = k[f]
  <2>1. /\ k[f] = IF Pick(flags, e, p, f) = Unset THEN Default[f] ELSE Pick(flags, e, p, f)
        /\ r[f] = IF Pick(flags, e, q, f) = Unset THEN Default[f] ELSE Pick(flags, e, q, f)
    BY <1>1, ResolveFields
  <2>2. q[f] = k[f] /\ k[f] # Unset /\ f # "password"
    BY <1>1 DEF Records, Resolved, Endpoint
  <2> QED BY <2>1, <2>2 DEF Pick
<1> QED BY <1>2 DEF Address

\* Nor flags nor environment: the field is the profile's or the default.
LEMMA LeftToProfile ==
  ASSUME NEW flags \in Setting, NEW e \in Setting, NEW p \in Setting,
         NEW f \in Endpoint, flags[f] = Unset, e[f] = Unset
  PROVE  Resolve(flags, e, p)[f] = FromProfile(p, f)
<1>1. Pick(flags, e, p, f) = p[f]
  BY DEF Pick, Endpoint
<1> QED BY <1>1, ResolveFields DEF FromProfile

LEMMA GivenByResolve ==
  ASSUME NEW flags \in Setting, NEW e \in Setting, NEW p \in Setting,
         \A x \in {flags, e} : x["password"] = Unset
                                 \/ \E s \in Env \cup Flags : s["password"] = x["password"]
  PROVE  PasswordGiven(Resolve(flags, e, p))
<1>1. Resolve(flags, e, p)["password"] \in {Unset, flags["password"], e["password"]}
  BY ResolveFields DEF Pick
<1> QED BY <1>1 DEF PasswordGiven

-----------------------------------------------------------------------------

LEMMA InitInv == Init => IInv
  BY BusAssumption DEF Init, IInv, SettingsOK, UsedOK, EntryOK

\* What bus use and register do to the profile, if the ping succeeds.
LEMMA SavesInv ==
  ASSUME IInv, NEW flags \in Flags, Saves(flags), UNCHANGED world,
         Writes(Resolve(flags, env, profile))
  PROVE  LET k == Resolve(flags, env, profile)
         IN /\ profile' = ProfileOf(k) /\ used' = k /\ home' = None
            /\ Resolved(k) /\ Records(profile', k) /\ PasswordGiven(k)
            /\ profile' \in Setting /\ used' # None
            /\ Address(Resolve(flags, env, profile')) = Address(k)
<1> DEFINE k == Resolve(flags, env, profile)
<1>1. flags \in Setting /\ env \in Setting /\ profile \in Setting
  BY BusAssumption DEF IInv, SettingsOK
<1>2. profile' = ProfileOf(k) /\ used' = k /\ home' = None
  BY DEF Saves
<1>3. Resolved(k)
  BY <1>1, ResolveIsResolved
<1>4. Records(profile', k)
  BY <1>2, <1>3, ProfileRecords DEF IInv
<1>5. PasswordGiven(k)
  BY <1>1, GivenByResolve DEF IInv, SettingsOK
<1>6. Address(Resolve(flags, env, profile')) = Address(k)
  BY <1>1, <1>4, SameAddress
<1>7. used' # None
  BY <1>2, <1>3, BusAssumption DEF Resolved
<1> QED BY <1>2, <1>3, <1>4, <1>5, <1>6, <1>7 DEF Records

LEMMA BusUseInv == ASSUME IInv, NEW flags \in Flags, BusUse(flags) PROVE IInv'
<1>1. CASE Writes(Resolve(flags, env, profile))
  <2>1. SettingsOK'
    BY <1>1, SavesInv DEF BusUse, world, IInv, SettingsOK
  <2>2. UsedOK'
    BY <1>1, SavesInv DEF BusUse, world, UsedOK, PasswordGiven
  <2>3. EntryOK'
    BY DEF BusUse, IInv, EntryOK
  <2> QED BY <2>1, <2>2, <2>3 DEF IInv
<1>2. CASE ~Writes(Resolve(flags, env, profile))
  BY <1>2 DEF BusUse, Saves, world, IInv, SettingsOK, UsedOK, EntryOK
<1> QED BY <1>1, <1>2

LEMMA RegisterInv == ASSUME IInv, NEW flags \in Flags, Register(flags) PROVE IInv'
<1>1. CASE flags["host"] # Unset /\ Writes(Resolve(flags, env, profile))
  <2>0. pending' = flags /\ UNCHANGED world /\ Saves(flags)
    BY <1>1 DEF Register
  <2>1. SettingsOK'
    BY <1>1, <2>0, SavesInv DEF world, IInv, SettingsOK
  <2>2. UsedOK'
    BY <1>1, <2>0, SavesInv DEF world, UsedOK
  <2>3. EntryOK'
    BY DEF Register, IInv, EntryOK
  <2> QED BY <2>1, <2>2, <2>3 DEF IInv
<1>2. CASE flags["host"] # Unset /\ ~Writes(Resolve(flags, env, profile))
  BY <1>2 DEF Register, Saves, world, IInv, SettingsOK, UsedOK, EntryOK
<1>3. CASE flags["host"] = Unset
  BY <1>3 DEF Register, world, IInv, SettingsOK, UsedOK, EntryOK
<1> QED BY <1>1, <1>2, <1>3

LEMMA ClientSetupInv == ASSUME IInv, ClientSetup PROVE IInv'
<1> DEFINE k == Resolve(pending, env, profile)
           h == [at |-> Address(k), own |-> KeptApart(pending)]
<1>1. home' \in {home, h} /\ pending # None /\ UNCHANGED <<profile, used>> /\ pending' = None
  BY DEF ClientSetup, ConnectFlags
<1>2. SettingsOK' /\ EntryOK'
  BY DEF ClientSetup, world, IInv, SettingsOK, EntryOK
<1>3. pending \in Setting /\ env \in Setting /\ profile \in Setting
  BY <1>1, BusAssumption DEF IInv, SettingsOK
<1>4. ASSUME NEW f \in Endpoint \ h.own PROVE h.at[f] = FromProfile(profile, f)
  <2>1. h.at[f] = k[f] /\ f \in Endpoint /\ f \in Field
    BY <1>4 DEF Address, Field
  <2>2. CASE pending["host"] # Unset
    <3>1. Resolved(used) /\ Records(profile, used) /\ Address(k) = Address(used)
      BY <1>1, <2>2 DEF IInv, UsedOK
    <3>2. profile[f] = used[f] /\ used[f] # Unset
      BY <2>1, <3>1 DEF Records, Resolved
    <3>3. k[f] = used[f]
      BY <2>1, <3>1 DEF Address
    <3> QED BY <2>1, <3>2, <3>3 DEF FromProfile
  <2>3. CASE pending["host"] = Unset
    <3>1. Over(pending, env)[f] = Unset
      BY <1>4, <2>1, <2>3 DEF KeptApart
    <3>2. pending[f] = Unset /\ env[f] = Unset
      BY <2>1, <3>1 DEF Over
    <3> QED BY <1>3, <2>1, <3>2, LeftToProfile
  <2> QED BY <2>2, <2>3
<1>5. home' # None => \A f \in Endpoint \ home'.own : home'.at[f] = FromProfile(profile', f)
  <2>1. CASE home' = home
    BY <1>1, <2>1 DEF IInv, UsedOK
  <2>2. CASE home' = h
    BY <1>1, <1>4, <2>2
  <2> QED BY <1>1, <2>1, <2>2
<1>6. UsedOK'
  BY <1>1, <1>5 DEF IInv, UsedOK, Endpoint
<1> QED BY <1>2, <1>6 DEF IInv

LEMMA McpSetupInv == ASSUME IInv, NEW flags \in Flags, McpSetup(flags) PROVE IInv'
<1>1. meant' = Resolve(flags, env, profile) /\ entry' = EntryOf(flags, meant')
  BY DEF McpSetup
<1>2. Resolved(meant')
  BY <1>1, ResolveIsResolved, BusAssumption DEF IInv, SettingsOK
<1>3. EntryOK'
  BY <1>1, <1>2 DEF McpSetup, IInv, EntryOK
<1>4. SettingsOK' /\ UsedOK'
  BY DEF McpSetup, world, IInv, SettingsOK, UsedOK
<1> QED BY <1>3, <1>4 DEF IInv

\* What a session starts with.
LEMMA SessionSettings ==
  ASSUME IInv, entry # None, NEW e \in {env, Nothing}
  PROVE  LET o == Over(entry, e)
         IN /\ o \in Setting /\ o["password"] = e["password"]
            /\ \A f \in Endpoint : o[f] = IF entry[f] # Unset THEN entry[f] ELSE e[f]
            /\ \A f \in Endpoint :
                   \/ entry[f] = meant[f]
                   \/ f # "db" /\ meant[f] = Default[f] /\ entry[f] = Unset
<1>1. e \in Setting
  BY NothingIsSetting, BusAssumption DEF IInv, SettingsOK
<1>2. PICK flags \in Flags : Resolved(meant) /\ entry = EntryOf(flags, meant)
  BY DEF IInv, EntryOK
<1>3. entry \in Setting /\ entry["password"] = Unset
  BY <1>2 DEF EntryOf, Resolved, Setting, Field, Endpoint
<1>4. \A f \in Endpoint :
          \/ entry[f] = meant[f]
          \/ f # "db" /\ meant[f] = Default[f] /\ entry[f] = Unset
  BY <1>2 DEF EntryOf, Field, Endpoint
<1>5. Over(entry, e) \in Setting
  BY <1>1, <1>3 DEF Over, Setting
<1>6. \A f \in Field : Over(entry, e)[f] = IF entry[f] # Unset THEN entry[f] ELSE e[f]
  BY DEF Over
<1> QED BY <1>3, <1>4, <1>5, <1>6 DEF Field

LEMMA SessionStartInv == ASSUME IInv, SessionStart PROVE IInv'
<1>1. PICK e \in {env, Nothing} : session' = Resolve(Nothing, Over(entry, e), profile)
  BY DEF SessionStart
<1>2. entry # None /\ profile \in Setting /\ env \in Env
  BY DEF SessionStart, IInv, SettingsOK
<1>3. Over(entry, e) \in Setting /\ Over(entry, e)["password"] = e["password"]
  BY <1>2, SessionSettings
<1>4. Nothing["password"] = Unset
  BY NothingIsSetting DEF Field
<1>5. PasswordGiven(session')
  BY <1>1, <1>2, <1>3, <1>4, GivenByResolve, NothingIsSetting
<1>6. session' \in Setting
  BY <1>1, <1>2, <1>3, ResolveIsResolved, NothingIsSetting DEF Resolved
<1>7. EntryOK'
  BY <1>5, <1>6 DEF SessionStart, IInv, EntryOK, PasswordGiven
<1>8. SettingsOK' /\ UsedOK'
  BY DEF SessionStart, world, IInv, SettingsOK, UsedOK
<1> QED BY <1>7, <1>8 DEF IInv

LEMMA WorldInv ==
  ASSUME IInv,
         \/ SessionEnd
         \/ \E e \in Env : Export(e)
         \/ \E d \in Dir : ChangeDir(d)
         \/ \E b \in Bus : BusChanges(b)
         \/ UNCHANGED vars
  PROVE  IInv'
<1>1. CASE SessionEnd
  BY <1>1 DEF SessionEnd, world, IInv, SettingsOK, UsedOK, EntryOK
<1>2. CASE \E e \in Env : Export(e)
  BY <1>2 DEF Export, IInv, SettingsOK, UsedOK, EntryOK
<1>3. CASE \E d \in Dir : ChangeDir(d)
  BY <1>3 DEF ChangeDir, IInv, SettingsOK, UsedOK, EntryOK
<1>4. CASE \E b \in Bus : BusChanges(b)
  BY <1>4 DEF BusChanges, IInv, SettingsOK, UsedOK, EntryOK
<1>5. CASE UNCHANGED vars
  BY <1>5 DEF vars, world, IInv, SettingsOK, UsedOK, EntryOK
<1> QED BY <1>1, <1>2, <1>3, <1>4, <1>5

LEMMA NextInv == IInv /\ [Next]_vars => IInv'
<1> SUFFICES ASSUME IInv, [Next]_vars PROVE IInv'
  OBVIOUS
<1>1. ASSUME NEW flags \in Flags, BusUse(flags) PROVE IInv'
  BY <1>1, BusUseInv
<1>2. ASSUME NEW flags \in Flags, Register(flags) PROVE IInv'
  BY <1>2, RegisterInv
<1>3. ASSUME NEW flags \in Flags, McpSetup(flags) PROVE IInv'
  BY <1>3, McpSetupInv
<1>4. CASE ClientSetup
  BY <1>4, ClientSetupInv
<1>5. CASE SessionStart
  BY <1>5, SessionStartInv
<1> QED BY <1>1, <1>2, <1>3, <1>4, <1>5, WorldInv DEF Next

\* The profile always records the last connection that bus use pinged, and the
\* entry what mcp setup resolved: the invariant behind the others.
THEOREM SettingsInvariant == Spec => []IInv
  BY InitInv, NextInv, PTL DEF Spec

-----------------------------------------------------------------------------

\* What bus use pinged is what later commands resolve (conn.py 77-138, cli.py
\* 260-268).
THEOREM ProfilesReproduce == Spec => []ProfileReproduces
<1>1. IInv => ProfileReproduces
  <2> SUFFICES ASSUME IInv, used # None PROVE ProfileReproduces
    BY DEF ProfileReproduces
  <2>1. Resolved(used) /\ Records(profile, used)
    BY DEF IInv, UsedOK
  <2>2. Unset # RelativeCA
    BY BusAssumption
  <2> QED BY <2>1, <2>2, Reproduced DEF ProfileReproduces, Records
<1> QED BY <1>1, SettingsInvariant, PTL

\* The second half of register goes to the bus that later commands read, with
\* --host because its first half recorded it, without it in every field of the
\* address that it left to the profile (cli.py 280-287).
THEOREM RegistersThere == Spec => []RegisteredThere
<1>1. IInv => RegisteredThere
  <2> SUFFICES ASSUME IInv, home # None, NEW f \in Endpoint \ home.own
               PROVE  home.at[f] = Resolve(Nothing, Nothing, profile)[f]
    BY DEF RegisteredThere
  <2>1. profile \in Setting /\ home.at[f] = FromProfile(profile, f)
    BY DEF IInv, SettingsOK, UsedOK
  <2>2. Resolve(Nothing, Nothing, profile)[f] = FromProfile(profile, f)
    BY <2>1, NothingIsSetting, LeftToProfile DEF Endpoint, Field
  <2> QED BY <2>1, <2>2
<1> QED BY <1>1, SettingsInvariant, PTL

\* No connection takes its password from the profile (conn.py 111-114).
THEOREM PasswordsApart == Spec => []PasswordApart
<1>1. IInv => PasswordApart
  <2> SUFFICES ASSUME IInv PROVE PasswordApart
    OBVIOUS
  <2>1. used # None => profile["password"] = Unset /\ PasswordGiven(used)
    BY DEF IInv, UsedOK, Records
  <2>2. session # None => PasswordGiven(session)
    BY DEF IInv, EntryOK
  <2> QED BY <2>1, <2>2 DEF PasswordApart, PasswordGiven
<1> QED BY <1>1, SettingsInvariant, PTL

\* A profile that is written reaches a bus by itself (cli.py 253-259).
THEOREM ProfilesReach == Spec => NeverPoisoned
<1> DEFINE P == profile' # profile =>
                    Pings(Resolve(Nothing, Secret(used'), profile'))
<1>1. ASSUME IInv, NEW flags \in Flags, Saves(flags), UNCHANGED world PROVE P
  <2> DEFINE k == Resolve(flags, env, profile)
             r == Resolve(Nothing, Secret(k), profile')
  <2> SUFFICES ASSUME profile' # profile PROVE P
    OBVIOUS
  <2>1. Writes(k)
    BY <1>1 DEF Saves
  <2>2. /\ used' = k /\ Resolved(k) /\ Records(profile', k)
        /\ profile' = ProfileOf(k)
    BY <1>1, <2>1, SavesInv
  <2>3. profile'["ca"] = Absolute(k["ca"])
    BY <1>1, <2>2, ProfileRecords DEF IInv
  <2>4. PICK b \in Bus : Accepts(b, k)
    BY <2>1 DEF Writes, Pings
  <2>5. /\ \A f \in Field \ {"ca"} : r[f] = k[f]
        /\ r["ca"] = IF profile'["ca"] = Blank \/ k["ssl"] # "on" THEN Unset
                     ELSE profile'["ca"]
    BY <2>2, Reproduced
  <2>6. k["ssl"] = "on" => Absolute(r["ca"]) = Absolute(k["ca"])
    <3> SUFFICES ASSUME k["ssl"] = "on" PROVE Absolute(r["ca"]) = Absolute(k["ca"])
      OBVIOUS
    <3>1. profile'["ca"] # Blank
      BY <1>1, <2>2, <2>3, BusAssumption DEF Absolute, Resolved, IInv, SettingsOK
    <3>2. r["ca"] = Absolute(k["ca"])
      BY <2>3, <2>5, <3>1
    <3>3. Absolute(k["ca"]) # RelativeCA
      BY <1>1, BusAssumption DEF Absolute, IInv, SettingsOK
    <3> QED BY <3>2, <3>3 DEF Absolute
  <2>7. Accepts(b, r)
    <3>1. \A f \in {"host", "port", "ssl", "username", "password"} :
              f \in Field \ {"ca"} /\ k[f] = b[f]
      BY <2>4 DEF Accepts, Field, Endpoint
    <3>2. \A f \in {"host", "port", "ssl", "username", "password"} : r[f] = b[f]
      BY <2>5, <3>1
    <3>3. r["ssl"] = k["ssl"]
      BY <2>5 DEF Field
    <3> QED BY <2>4, <2>6, <3>2, <3>3 DEF Accepts
  <2>8. Pings(r)
    BY <2>7 DEF Pings
  <2>9. Pings(Resolve(Nothing, Secret(used'), profile'))
    BY <2>2, <2>8
  <2> QED BY <2>9
<1>2. IInv /\ [Next]_vars => P
  <2> SUFFICES ASSUME IInv, [Next]_vars, profile' # profile PROVE P
    OBVIOUS
  <2>1. \E flags \in Flags : Saves(flags) /\ UNCHANGED world
    BY DEF Next, vars, BusUse, Register, ClientSetup, McpSetup, SessionStart,
           SessionEnd, Export, ChangeDir, BusChanges
  <2> QED BY <1>1, <2>1
<1>3. Spec => [][P]_vars
  BY <1>2, SettingsInvariant, PTL DEF Spec
<1>4. [P]_vars => P
  BY DEF vars
<1> QED BY <1>3, <1>4, PTL DEF NeverPoisoned

\* A session lands where its setup meant it to, but for defaults left out
\* (cli.py 104-108).
THEOREM EndpointsArePinned == Spec => PinnedEndpoint
<1> DEFINE Lands == \A f \in Endpoint :
                        \/ session'[f] = meant[f]
                        \/ /\ f # "db" /\ meant[f] = Default[f]
                           /\ session'[f] \in {env[f], profile[f]}
           P == session' # session /\ session' # None => Lands
<1>1. ASSUME IInv, SessionStart PROVE Lands
  <2>1. PICK e \in {env, Nothing} : session' = Resolve(Nothing, Over(entry, e), profile)
    BY <1>1 DEF SessionStart
  <2>2. entry # None /\ profile \in Setting
    BY <1>1 DEF SessionStart, IInv, SettingsOK
  <2> SUFFICES ASSUME NEW f \in Endpoint
               PROVE  \/ session'[f] = meant[f]
                      \/ /\ f # "db" /\ meant[f] = Default[f]
                         /\ session'[f] \in {env[f], profile[f]}
    OBVIOUS
  <2>3. /\ Over(entry, e) \in Setting
        /\ Over(entry, e)[f] = IF entry[f] # Unset THEN entry[f] ELSE e[f]
        /\ \/ entry[f] = meant[f]
           \/ f # "db" /\ meant[f] = Default[f] /\ entry[f] = Unset
    BY <1>1, <2>2, SessionSettings
  <2>4. meant[f] # Unset
    BY <1>1, <2>2 DEF IInv, EntryOK, Resolved
  <2>5. Nothing[f] = Unset /\ f # "password" /\ f \in Field
    BY NothingIsSetting DEF Endpoint, Field
  <2>6. session'[f] = IF Pick(Nothing, Over(entry, e), profile, f) = Unset THEN Default[f]
                      ELSE Pick(Nothing, Over(entry, e), profile, f)
    BY <2>1, <2>2, <2>3, ResolveFields, NothingIsSetting
  <2>7. Pick(Nothing, Over(entry, e), profile, f) =
            IF Over(entry, e)[f] # Unset THEN Over(entry, e)[f] ELSE profile[f]
    BY <2>5 DEF Pick
  <2>8. CASE entry[f] = meant[f]
    BY <2>3, <2>4, <2>6, <2>7, <2>8
  <2>9. CASE f # "db" /\ meant[f] = Default[f] /\ entry[f] = Unset
    BY <2>3, <2>5, <2>6, <2>7, <2>9
  <2> QED BY <2>3, <2>8, <2>9
<1>2. IInv /\ [Next]_vars => P
  <2> SUFFICES ASSUME IInv, [Next]_vars, session' # session, session' # None PROVE Lands
    OBVIOUS
  <2>1. SessionStart
    BY DEF Next, vars, BusUse, Register, ClientSetup, McpSetup, SessionEnd, Export,
           ChangeDir, BusChanges
  <2> QED BY <1>1, <2>1
<1>3. Spec => [][P]_vars
  BY <1>2, SettingsInvariant, PTL DEF Spec
<1>4. [P]_vars => P
  BY DEF vars
<1> QED BY <1>3, <1>4, PTL DEF PinnedEndpoint
=============================================================================
