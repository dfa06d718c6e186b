----------------------------- MODULE MCLiveSession -----------------------------
(* Bounds for TLC.  One session an earlier launch left, with one turn, and the *)
(* session of this launch: enough to resume the one from the other.           *)
EXTENDS LiveSession

TwoSessions == 2
TwoTurns    == 2
================================================================================
