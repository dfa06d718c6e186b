------------------------- MODULE MCHostedTurnStream -------------------------
(* Bounds for TLC.  Three turns: the third is the first that can follow a   *)
(* stream that was itself resumed after a mishap.                           *)
EXTENDS HostedTurnStream

TwoTurns == 2
ThreeTurns == 3
=============================================================================
