--------------------------- MODULE MCRemoteRouting ---------------------------
(* Three messages, so that one can overlap the creation and another the use *)
(* of a session; two sessions, so that one can be lost and recreated, or    *)
(* created by an overlapping first message.                                 *)
EXTENDS RemoteRouting

CONSTANTS m1, m2, m3, s1, s2

TwoMessages   == {m1, m2}
ThreeMessages == {m1, m2, m3}
SessionIds    == {s1, s2}
============================================================================
