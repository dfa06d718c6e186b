-------------------------- MODULE MCApprovalsView --------------------------
(* Constants for TLC: two streams, so that a leaked one is visible, and two *)
(* requests, so that a reply can be overtaken if the single flight fails.   *)
EXTENDS ApprovalsView

CONSTANTS a1, a2, s1, s2, r1, r2

OneAsk     == {a1}
TwoAsks    == {a1, a2}
NoAsks     == {}
StreamIds  == {s1, s2}
OneRead    == {r1}
ReadIds    == {r1, r2}
============================================================================
