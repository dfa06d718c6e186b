---------------------------- MODULE MCSelfUpdate ----------------------------
(* Constants for TLC: two agents on one install, and three releases, so that *)
(* a rollback can meet an extra that the release in between did not publish. *)
EXTENDS SelfUpdate, TLC

CONSTANTS p1, p2

OneProcess   == {p1}
TwoProcesses == {p1, p2}
ThirdWithoutDriver == [r \in Releases |-> IF r = 3 THEN {"addon"} ELSE Extras]
EveryExtra   == [r \in Releases |-> Extras]
SecondStale  == {2}
Interchangeable == Permutations(TwoProcesses)
=============================================================================
