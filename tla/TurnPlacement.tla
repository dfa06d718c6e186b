--------------------------- MODULE TurnPlacement ---------------------------
(***************************************************************************)
(* What routing a conversation promises, whatever the daemon, the network  *)
(* and the person do: a message that was typed runs on exactly one         *)
(* machine, and where it runs is never taken back.                         *)
(***************************************************************************)
CONSTANT Messages

VARIABLE place      \* where each message runs

Init == place = [m \in Messages |-> "nowhere"]

Place(m, where) ==
    /\ place[m] = "nowhere"
    /\ place' = [place EXCEPT ![m] = where]

Next == \E m \in Messages, where \in {"daemon", "here"} : Place(m, where)

Spec == Init /\ [][Next]_place
============================================================================
