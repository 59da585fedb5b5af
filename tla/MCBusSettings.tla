--------------------------- MODULE MCBusSettings ---------------------------
(* A plain bus on this machine and a hub with TLS and a user who has two      *)
(* passwords, as Redis' ACLs allow: to the model, two buses at one address.   *)
EXTENDS BusSettings

Values == {"", "./ca", "on", "off", "localhost", "hub", "6379", "6380", "0", "1",
           "secret", "old", "u", "proj", "tmp"}
Defaults == [host |-> "localhost", port |-> "6379", db |-> "0"]
Dirs == {"proj", "tmp"}
\* ca.crt is in proj.
Hub(pw) == [host |-> "hub", port |-> "6380", password |-> pw,
            username |-> "u", ssl |-> "on", ca |-> "proj"]
Buses == {[host |-> "localhost", port |-> "6379", password |-> Unset,
           username |-> Unset, ssl |-> "off", ca |-> Unset],
          Hub("secret"), Hub("old")}

Say(s) == [f \in Field |-> IF f \in DOMAIN s THEN s[f] ELSE Unset]
ToHub == Say([host |-> "hub", port |-> "6380", ssl |-> "on", ca |-> "./ca",
              username |-> "u"])
CommandLines ==
    {Nothing, ToHub, Say([db |-> "1"]),
     [ToHub EXCEPT !["password"] = "secret", !["db"] = "0"],
     Say([host |-> "localhost"]),
     Say([host |-> "localhost", port |-> "6379", ssl |-> "off", username |-> "",
          password |-> ""])}
Environments ==
    {Nothing, Say([password |-> "secret"]), Say([host |-> "localhost"]),
     Say([password |-> "secret", db |-> "1"])}
Profiles == {Nothing, Say([host |-> "hub", port |-> "6380", ssl |-> "on",
                           ca |-> "./ca", username |-> "u", password |-> "old"])}
=============================================================================
