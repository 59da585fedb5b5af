-------------------------------- MODULE Feed --------------------------------
(***************************************************************************)
(* What Stargazer promises one open page about aether:events (server.py    *)
(* 5-7, and "no gap" in 57-60): from a bounded window before its           *)
(* connection on, the page is shown every event once and in the order of   *)
(* the stream, and only what the stream itself no longer holds is missing. *)
(* Connections, batches and buffers do not show here.                      *)
(***************************************************************************)
EXTENDS Naturals

CONSTANT Window   \* how far back a new page is taken
VARIABLES
    tip,     \* the newest event; events are numbered in the stream's order
    low,     \* everything up to here has been trimmed
    after,   \* the page has what it is owed up to here
    shown    \* what the page has shown

vars == <<tip, low, after, shown>>

Init == tip = 0 /\ low = 0 /\ after = 0 /\ shown = {}

Write ==
    /\ tip' = tip + 1
    /\ \E l \in low .. tip' : low' = l
    /\ UNCHANGED <<after, shown>>

\* A page that shows nothing yet is owed the window, and what follows it.
Open ==
    /\ shown = {}
    /\ after' = IF tip - low >= Window THEN tip - Window ELSE low
    /\ UNCHANGED <<tip, low, shown>>

Show(e) ==
    /\ \A i \in after + 1 .. e - 1 : i <= low
    /\ after' = e
    /\ shown' = shown \cup {e}
    /\ UNCHANGED <<tip, low>>

Next == Write \/ Open \/ \E e \in after + 1 .. tip : Show(e)

Spec == Init /\ [][Next]_vars
=============================================================================
