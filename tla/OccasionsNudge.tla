---------------------------- MODULE OccasionsNudge ----------------------------
(***************************************************************************)
(* What the daemon wants said about occasions, said at the end of a turn:  *)
(* runtime/occasions-nudge-surface.ts, agent/occasions-nudge.ts and the    *)
(* TURN_COMPLETED subscription of runtime/bootstrap.ts that calls them.    *)
(* A pull is one awaited call; what was said is remembered per stream by   *)
(* the daemon's own token, and only for the streams of the last answer.    *)
(***************************************************************************)
EXTENDS Integers, Sequences, SequencesExt

CONSTANTS
    Streams,     \* the nudge, one conflict, one interview ...
    MaxToken,    \* bound: states of one stream
    Pulls,       \* pulls that may be out at once
    MaxChanges   \* bound: changes of the daemon's record

Tokens == 1..MaxToken
Answer == [Streams -> 0..MaxToken]  \* the token of each open stream, 0 if it is not open

VARIABLES
    offered,  \* what the daemon has open
    changes,  \* changes made to it
    enabled,  \* occasions.enabled
    asked,    \* pulls the daemon has not answered
    answers,  \* answers that have not landed, in the order they were given, each with
              \* the streams that have changed since
    ledger,   \* the token last put to the person, by stream
    told,     \* streams said since the daemon last changed them
    stale,    \* answers given before one that has landed
    crossed,  \* has such an answer landed?
    repeated  \* was a line said twice while the daemon kept it open?

vars == <<offered, changes, enabled, asked, answers, ledger, told, stale, crossed, repeated>>

TypeOK ==
    /\ offered \in Answer /\ changes \in 0..MaxChanges
    /\ enabled \in BOOLEAN
    /\ asked \subseteq Pulls
    /\ answers \in Seq([pull : Pulls, open : Answer, moved : SUBSET Streams])
    /\ ledger \in Answer
    /\ told \subseteq Streams
    /\ stale \subseteq Pulls
    /\ crossed \in BOOLEAN /\ repeated \in BOOLEAN

Init ==
    /\ offered \in Answer /\ changes = 0
    /\ enabled = TRUE
    /\ asked = {} /\ answers = <<>>
    /\ ledger = [s \in Streams |-> 0]
    /\ told = {} /\ stale = {}
    /\ crossed = FALSE /\ repeated = FALSE

Out == asked \cup {answers[i].pull : i \in 1..Len(answers)}

----------------------------------------------------------------------------
\* TURN_COMPLETED starts a pull and does not wait for it.
TurnCompletes ==
    /\ enabled
    /\ \E p \in Pulls \ Out : asked' = asked \cup {p}
    /\ UNCHANGED <<offered, changes, enabled, answers, ledger, told, stale, crossed, repeated>>

Toggle ==
    /\ enabled' = ~enabled
    /\ UNCHANGED <<offered, changes, asked, answers, ledger, told, stale, crossed, repeated>>

\* The daemon opens, moves on or closes a stream ...
Change(s) ==
    /\ changes < MaxChanges /\ changes' = changes + 1
    /\ \E t \in 0..MaxToken \ {offered[s]} : offered' = [offered EXCEPT ![s] = t]
    /\ told' = told \ {s}
    /\ answers' = [i \in 1..Len(answers) |-> [answers[i] EXCEPT !.moved = @ \cup {s}]]
    /\ UNCHANGED <<enabled, asked, ledger, stale, crossed, repeated>>

\* ... and answers occasions.pending.
Answers(p) ==
    /\ p \in asked
    /\ asked' = asked \ {p}
    /\ answers' = Append(answers, [pull |-> p, open |-> offered, moved |-> {}])
    /\ UNCHANGED <<offered, changes, enabled, ledger, told, stale, crossed, repeated>>

\* No answer, or none this build can read.
PullFails(p) ==
    /\ p \in asked
    /\ asked' = asked \ {p}
    /\ UNCHANGED <<offered, changes, enabled, answers, ledger, told, stale, crossed, repeated>>

----------------------------------------------------------------------------
(* decideOccasionsRaises() and what is done with it                         *)

Raises(open) == {s \in Streams : open[s] # 0 /\ ledger[s] # open[s]}

\* Variant: only what is said now is remembered.
LedgerAfter_OfRaised(open) == [s \in Streams |-> IF ledger[s] # open[s] THEN open[s] ELSE 0]

LedgerAfter(open) == open

Lands(i) ==
    LET open   == answers[i].open
        raises == Raises(open)
        kept   == raises \ answers[i].moved
        late   == answers[i].pull \in stale
    IN  /\ ledger' = LedgerAfter(open)
        /\ answers' = RemoveAt(answers, i)
        /\ told' = told \cup kept
        /\ stale' = (stale \cup {answers[j].pull : j \in 1..(i - 1)}) \ {answers[i].pull}
        /\ crossed' = (crossed \/ late)
        /\ repeated' = (repeated \/ kept \cap told # {})
        /\ UNCHANGED <<offered, changes, enabled, asked>>

Next ==
    \/ TurnCompletes \/ Toggle
    \/ \E s \in Streams : Change(s)
    \/ \E p \in Pulls : Answers(p) \/ PullFails(p)
    \/ \E i \in 1..Len(answers) : Lands(i)

Spec == Init /\ [][Next]_vars

----------------------------------------------------------------------------
(* "the same open nudge is said once per session, not once per turn"        *)
(* (test/runtime/occasions-nudge-surface.test.ts): nothing is said again    *)
(* while the daemon keeps it open, unless two answers land crosswise.       *)
SaidOnce == repeated => crossed
============================================================================
