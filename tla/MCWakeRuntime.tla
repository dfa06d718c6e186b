---------------------------- MODULE MCWakeRuntime ----------------------------
(* Two changes of the rows: detection is turned on, its models are fetched, *)
(* and it is turned off before they have come.                              *)
EXTENDS WakeRuntime

CONSTANTS w1, w2

TwoRefreshes == {w1, w2}
==============================================================================
