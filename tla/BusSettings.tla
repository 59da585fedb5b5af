---------------------------- MODULE BusSettings ----------------------------
(***************************************************************************)
(* Which bus a command of one machine talks to (conn.py).  Flags, the      *)
(* environment, the profile that `aether bus use` leaves in ~/.aether and  *)
(* the built-in defaults are resolved field by field; `aether register`    *)
(* writes the profile, if it is given a host, and then the star chart,     *)
(* `aether mcp setup` pins part of the endpoint in .mcp.json, where a      *)
(* later session finds it.                                                 *)
(* Commands run in any directory and any environment, and buses come and   *)
(* go between them.                                                        *)
(***************************************************************************)
CONSTANTS
    Value,      \* what a setting may say
    Unset,      \* nothing
    Blank,      \* the empty string: said, and then left out
    Default,    \* _DEFAULTS
    Dir,        \* directories; as a CA, <dir>/ca.crt
    RelativeCA, \* the CA ./ca.crt
    Bus,        \* what each bus asks of a connection
    Flags,      \* command lines
    Env,        \* environments of the shell
    OldProfile, \* profiles from before, hand-written ones included
    None

VARIABLES
    profile,    \* ~/.aether/config.json
    env,        \* the shell's AETHER_REDIS_*
    cwd,
    up,         \* buses that answer
    pending,    \* register: the command line of the client setup to come
    entry,      \* the env block of .mcp.json
    used,       \* history: the connection that the last bus use pinged
    home,       \* history: the address at which register put the body, and the
                \* fields of it that the register kept to itself
    meant,      \* history: the connection that the last mcp setup resolved
    session     \* the connection of the MCP session

vars == <<profile, env, cwd, up, pending, entry, used, home, meant, session>>
world == <<env, cwd, up>>

Endpoint == {"host", "port", "db"}
Field == Endpoint \cup {"password", "username", "ssl", "ca"}
Setting == [Field -> Value \cup {Unset}]
Nothing == [f \in Field |-> Unset]
Address(k) == [f \in Endpoint |-> k[f]]

ASSUME BusAssumption ==
    /\ Unset \notin Value /\ {Blank, RelativeCA, "on", "off"} \cup Dir \subseteq Value
    /\ Default \in [Endpoint -> Value \ {Blank}]
    /\ Flags \subseteq Setting /\ Env \subseteq Setting /\ OldProfile \subseteq Setting
    /\ \A s \in Flags \cup Env \cup OldProfile, f \in Endpoint : s[f] # Blank
    /\ Bus \subseteq [Field \ {"db"} -> Value \cup {Unset}]
    /\ None \notin Setting
    /\ RelativeCA \notin Dir /\ Blank \notin Dir

-----------------------------------------------------------------------------
(* resolve_redis_kwargs *)

\* Seeded fault: the profile before the environment.
ProfileFirst(flags, e, p, f) ==
    IF flags[f] # Unset THEN flags[f] ELSE IF p[f] # Unset THEN p[f] ELSE e[f]

\* flag, environment, profile; a password from the first two only.
Pick(flags, e, p, f) ==
    IF flags[f] # Unset THEN flags[f]
    ELSE IF e[f] # Unset THEN e[f]
    ELSE IF f = "password" THEN Unset ELSE p[f]

Resolve(flags, e, p) ==
    LET said(f) == Pick(flags, e, p, f)
        tls == said("ssl") = "on"
    IN [f \in Field |->
           CASE f \in Endpoint -> IF said(f) = Unset THEN Default[f] ELSE said(f)
             [] f = "ssl" -> IF tls THEN "on" ELSE "off"
             [] OTHER -> IF said(f) = Blank \/ (f = "ca" /\ ~tls) THEN Unset
                         ELSE said(f)]

\* os.path.abspath
Absolute(ca) == IF ca = RelativeCA THEN cwd ELSE ca

\* Does a ping over this connection succeed?
Accepts(b, k) ==
    /\ b \in up
    /\ \A f \in {"host", "port", "ssl", "username", "password"} : k[f] = b[f]
    /\ k["ssl"] = "on" => Absolute(k["ca"]) = b["ca"]

Pings(k) == \E b \in Bus : Accepts(b, k)

-----------------------------------------------------------------------------
(* aether bus use, aether register *)

\* Seeded fault: the profile keeps the CA as it was typed.
AsTyped(k) == [k EXCEPT !["password"] = Unset]

\* Without the password, and without TLS unless it is on.
ProfileOf(k) ==
    [k EXCEPT !["password"] = Unset,
              !["ssl"] = IF @ = "on" THEN "on" ELSE Unset,
              !["ca"] = Absolute(@)]

\* Seeded fault: the profile is written first.
WritesFirst(k) == TRUE

Writes(k) == Pings(k)

Saves(flags) ==
    LET k == Resolve(flags, env, profile) IN
    IF Writes(k)
    THEN profile' = ProfileOf(k) /\ used' = k /\ home' = None
    ELSE UNCHANGED <<profile, used, home>>

BusUse(flags) ==
    /\ pending = None
    /\ Saves(flags)
    /\ UNCHANGED <<world, pending, entry, meant, session>>

\* With --host, bus use comes first and its failure ends the command.
Register(flags) ==
    /\ pending = None
    /\ \/ /\ flags["host"] # Unset
          /\ Saves(flags)
          /\ pending' = IF Writes(Resolve(flags, env, profile)) THEN flags ELSE None
       \/ /\ flags["host"] = Unset
          /\ pending' = flags
          /\ UNCHANGED <<profile, used, home>>
    /\ UNCHANGED <<world, entry, meant, session>>

Over(top, below) == [f \in Field |-> IF top[f] # Unset THEN top[f] ELSE below[f]]

\* What a register without --host says of the endpoint goes into no profile.
KeptApart(flags) ==
    {f \in Endpoint : flags["host"] = Unset /\ Over(flags, env)[f] # Unset}

\* Seeded fault: the second half goes by the profile alone.
SetupFlags(flags) == Nothing

ConnectFlags(flags) == flags

\* client setup: the star chart of the bus that it resolves now.
ClientSetup ==
    /\ pending # None
    /\ LET k == Resolve(ConnectFlags(pending), env, profile) IN
       home' = IF Pings(k) THEN [at |-> Address(k), own |-> KeptApart(pending)]
               ELSE home
    /\ pending' = None
    /\ UNCHANGED <<world, profile, entry, used, meant, session>>

-----------------------------------------------------------------------------
(* aether mcp setup, and the session that Claude Code starts *)

\* Seeded fault: the flags as they were given.
EntryOfFlags(flags, k) ==
    [f \in Field |-> IF f \in Endpoint THEN flags[f] ELSE Unset]

\* build_mcp_server_entry: the db always, host and port unless they are the
\* defaults.
EntryOf(flags, k) ==
    [f \in Field |->
        IF f = "db" \/ (f \in {"host", "port"} /\ k[f] # Default[f])
        THEN k[f] ELSE Unset]

\* merge_mcp_config: a second setup replaces the entry.
McpSetup(flags) ==
    /\ LET k == Resolve(flags, env, profile) IN
       entry' = EntryOf(flags, k) /\ meant' = k
    /\ UNCHANGED <<world, profile, pending, used, home, session>>

\* Claude Code hands over the entry's block, over its own environment or alone.
SessionStart ==
    /\ entry # None /\ session = None
    /\ \E e \in {env, Nothing} :
           LET k == Resolve(Nothing, Over(entry, e), profile) IN
           Pings(k) /\ session' = k
    /\ UNCHANGED <<world, profile, pending, entry, used, home, meant>>

SessionEnd ==
    /\ session # None /\ session' = None
    /\ UNCHANGED <<world, profile, pending, entry, used, home, meant>>

-----------------------------------------------------------------------------
(* The rest of the world *)

Export(e) ==
    /\ pending = None
    /\ env' = e
    /\ UNCHANGED <<profile, cwd, up, pending, entry, used, home, meant, session>>

ChangeDir(d) ==
    /\ pending = None
    /\ cwd' = d
    /\ UNCHANGED <<profile, env, up, pending, entry, used, home, meant, session>>

BusChanges(b) ==
    /\ up' = IF b \in up THEN up \ {b} ELSE up \cup {b}
    /\ UNCHANGED <<profile, env, cwd, pending, entry, used, home, meant, session>>

Init ==
    /\ profile \in OldProfile /\ env \in Env /\ cwd \in Dir /\ up = Bus
    /\ pending = None
    /\ entry = None /\ used = None /\ home = None /\ meant = None /\ session = None

Next ==
    \/ \E flags \in Flags : BusUse(flags) \/ Register(flags) \/ McpSetup(flags)
    \/ ClientSetup \/ SessionStart \/ SessionEnd
    \/ \E e \in Env : Export(e)
    \/ \E d \in Dir : ChangeDir(d)
    \/ \E b \in Bus : BusChanges(b)

Spec == Init /\ [][Next]_vars

-----------------------------------------------------------------------------
(* Properties *)

Secret(k) == [Nothing EXCEPT !["password"] = k["password"]]

\* What bus use pinged is what every later command resolves in an environment
\* with the same password and nothing else ("so observatory/send/who/mcp
\* inherit it without re-typing", cli.py 247), in every directory.
ProfileReproduces ==
    used # None =>
        LET k == Resolve(Nothing, Secret(used), profile) IN
        /\ \A f \in Field \ {"ca"} : k[f] = used[f]
        /\ k["ca"] # RelativeCA

\* A profile that is written reaches, by itself, a bus that answers ("a
\* half-complete unreachable profile never poisons later commands", 249).
NeverPoisoned ==
    [][profile' # profile =>
          Pings(Resolve(Nothing, Secret(used'), profile'))]_vars

\* The body that register put on a star chart is on the one that later
\* commands read, flags and environment aside, though the bus may have gone
\* down in between: with --host in every field of the address, without it in
\* those that its own flags and environment left to the profile.
RegisteredThere ==
    home # None =>
        \A f \in Endpoint \ home.own :
            home.at[f] = Resolve(Nothing, Nothing, profile)[f]

\* A session lands on the endpoint its setup resolved, whatever bus use wrote
\* since, except for a host or port that setup left out as the default.
PinnedEndpoint ==
    [][session' # session /\ session' # None =>
          \A f \in Endpoint :
              \/ session'[f] = meant[f]
              \/ /\ f # "db" /\ meant[f] = Default[f]
                 /\ session'[f] \in {env[f], profile[f]}]_vars

\* A password written into the profile by hand is never used, nor one kept
\* there by bus use (conn.py 13-14).
PasswordApart ==
    /\ used # None => profile["password"] = Unset
    /\ \A k \in {used, session} \ {None} :
           \/ k["password"] = Unset
           \/ \E s \in Env \cup Flags : s["password"] = k["password"]
=============================================================================
