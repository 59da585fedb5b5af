---------------------------- MODULE MCStarChart ----------------------------
(* Instances of StarChart for TLC. *)
EXTENDS StarChart, TLC

CONSTANTS h1, h2, s1, s2, p, m, d1, d2

TwoHosts == {h1, h2}
OneBody == {p}
OneHost == {h1}
RunsP == [h \in Host |-> p]
TwoDrafts == {d1, d2}
OneDraft == {d1}
Interchangeable == Permutations(TwoDrafts)
OneSession == {s1}
TwoSessions == {s1, s2}
OneIdentity == {m}
Shared == [s \in Session |-> m]
OnFirstHost == [s \in Session |-> h1]
=============================================================================
