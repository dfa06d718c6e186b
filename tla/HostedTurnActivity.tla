-------------------------- MODULE HostedTurnActivity --------------------------
(***************************************************************************)
(* The "a turn is in flight" indicator: shell/hosted-turn-activity.ts as   *)
(* routeOrExplain() of shell/remote-conversation-wiring.ts and             *)
(* cancelGeneration() of main.ts drive it.  There is one flag, the         *)
(* orchestrator's isThinking, with two writers: the orchestrator for a     *)
(* local turn, and this controller, one for all hosted turns, which owns   *)
(* the flag from begin() to end().                                         *)
(*                                                                         *)
(* The 80 ms repaint timer runs exactly while the flag is owned and is not *)
(* modelled; nor are the token counts and the tool label.                  *)
(***************************************************************************)
EXTENDS FiniteSets

CONSTANT Messages  \* what the person sends

VARIABLES
    pc,          \* where each message is
    interrupted, \* messages in flight when the person interrupted
    crowded,     \* was a message ever sent while an uninterrupted turn was in flight?
    isThinking,  \* the orchestrator's flag
    owned        \* did this controller set it?

vars == <<pc, interrupted, crowded, isThinking, owned>>

In(place) == {m \in Messages : pc[m] = place}

TypeOK ==
    /\ pc \in [Messages -> {"unsent", "routing", "hosted", "unwatched", "local", "over"}]
    /\ interrupted \subseteq Messages
    /\ crowded \in BOOLEAN
    /\ isThinking \in BOOLEAN
    /\ owned \in BOOLEAN

Init ==
    /\ pc = [m \in Messages |-> "unsent"]
    /\ interrupted = {}
    /\ crowded = FALSE
    /\ isThinking = FALSE
    /\ owned = FALSE

----------------------------------------------------------------------------
(* The controller *)

\* begin() leaves the indicator of a local turn alone.
MayOwn_FromLocal == ~owned
MayOwn == ~owned /\ ~isThinking

Begin ==
    /\ owned' = (owned \/ MayOwn)
    /\ isThinking' = (isThinking \/ MayOwn)

\* end() clears the flag only if this controller set it.
Released == isThinking /\ ~owned
End ==
    /\ owned' = FALSE
    /\ isThinking' = Released

----------------------------------------------------------------------------
(* The orchestrator (external) holds the flag until its last local turn ends. *)

\* handleUserInput(), in the step in which the controller let go of the flag.
RunsLocally(m) ==
    /\ owned' = FALSE
    /\ isThinking' = TRUE
    /\ pc' = [pc EXCEPT ![m] = "local"]

LocalEnds(m) ==
    /\ pc[m] = "local"
    /\ isThinking' = (In("local") # {m})
    /\ pc' = [pc EXCEPT ![m] = "over"]
    /\ UNCHANGED <<interrupted, crowded, owned>>

----------------------------------------------------------------------------
(* The wiring *)

\* A keystroke away at any moment.
Submitted(m) ==
    /\ pc[m] = "unsent"
    /\ crowded' = (\/ crowded
                   \/ In("routing") \cup In("local") \cup (In("hosted") \ interrupted) # {})

\* Routing off, attachments, no connection: begin(), a refusal, end().
RefusedUpFront(m) ==
    /\ Submitted(m)
    /\ RunsLocally(m)
    /\ UNCHANGED interrupted

\* A message for the bound session closes the stream of the turn before it, whose
\* completion is then never reported.
Unwatch == [n \in Messages |-> IF pc[n] = "hosted" THEN "unwatched" ELSE pc[n]]

Send(m) ==
    /\ Submitted(m)
    /\ Begin
    /\ pc' = [Unwatch EXCEPT ![m] = "routing"]
    /\ UNCHANGED interrupted

Routed(m) ==
    /\ pc[m] = "routing"
    /\ pc' = [pc EXCEPT ![m] = "hosted"]
    /\ UNCHANGED <<interrupted, crowded, isThinking, owned>>

Refused(m) ==
    /\ pc[m] = "routing"
    /\ RunsLocally(m)
    /\ UNCHANGED <<interrupted, crowded>>

\* The completion of a hosted turn: an end frame, or its stream ended.
Completed(m) ==
    /\ pc[m] = "hosted"
    /\ End
    /\ pc' = [pc EXCEPT ![m] = "over"]
    /\ UNCHANGED <<interrupted, crowded>>

\* cancelGeneration(): the hosted turn itself continues on the daemon; a local
\* one is aborted.
Interrupt_LocalOnly ==
    /\ owned' = owned
    /\ isThinking' = owned
    /\ pc' = [m \in Messages |-> IF pc[m] = "local" THEN "over" ELSE pc[m]]
    /\ interrupted' = interrupted \cup In("routing") \cup In("hosted")
    /\ crowded' = crowded

Interrupt ==
    /\ owned' = FALSE
    /\ isThinking' = FALSE
    /\ pc' = [m \in Messages |-> IF pc[m] = "local" THEN "over" ELSE pc[m]]
    /\ interrupted' = interrupted \cup In("routing") \cup In("hosted")
    /\ crowded' = crowded

Next ==
    \/ \E m \in Messages :
         \/ Send(m) \/ RefusedUpFront(m) \/ Routed(m) \/ Refused(m)
         \/ Completed(m) \/ LocalEnds(m)
    \/ Interrupt

Spec == Init /\ [][Next]_vars

----------------------------------------------------------------------------
(* Properties *)

\* While a hosted turn is watched and was not interrupted the indicator shows, as
\* long as messages are not sent on top of one another: "the waiting state ends
\* when the TURN ends, however it ends".
Watched == In("hosted") \ interrupted
WaitingWhileTurnRuns == ~crowded /\ Watched # {} => isThinking

\* The indicator never turns over nothing: without a message being handed over, a
\* watched turn or a local one it is off.
SpinnerMeansWork == isThinking => In("routing") \cup In("local") \cup Watched # {}

\* The end of a hosted turn never clears the indicator of a local turn: "it never
\* clears another's".
NeverClearsAnothers ==
    [][\A m \in Messages : pc[m] = "local" /\ pc'[m] = "local" /\ isThinking => isThinking']_vars
============================================================================
