------------------------------ MODULE Services ------------------------------
(***************************************************************************)
(* Eight parts of the agent's runtime beside each other.  They share no    *)
(* state: each is an instance of its module over variables of its own, and *)
(* has here the properties that say what it promises.  MCServices checks   *)
(* them one at a time on small instances, Services_proofs and              *)
(* Registers_proofs prove them for any.                                    *)
(***************************************************************************)
EXTENDS CalendarSubscriptions

CONSTANTS
    Messages, Sessions, NoSession, ConversationOf, LossyReplies,  \* the hand-off
    NumSessions, MaxTurns, MaxRecovered, MaxBoots,                \* the mirror
    Reconciles, MaxChanges,                                       \* adoption
    Refreshes,                                                    \* wake detection
    NumOperations, Places, MaxForeign,                            \* onboarding
    Roots, Slots, MaxLaunches,                                    \* the workspace register
    Callers, NumIds, MaxCalls, DraftLimit                         \* drafts

VARIABLES
    part,   \* the part that moves, where one is checked at a time
    enabled, outdated, alive, opened, ran, here, messagePc, target, promoted, overlapped,
    transcript, store, pointer, mirrors, recovery, pending, up, boots, doubtful,
    daemon, changes, owed, at, carried, booted, active, dispatch, refused, announced,
    taken, buffer, sink, shown, attaches, overlapping, swapped,
    wanted, provisioned, wakePc, listener, open, stopped, answered, torn, lateFetch, lateRefusal,
    kindOf, placeOf, world, before, phase, done, rollbacks, reported, foreign, stuck,
    legacy, register, migration, backfill, launches, job, root, atStep, snap, stale, crossed, word,
    mirror, held, calls, began, made, composed, arrived, kept, exposed, evicted, revised,
    brokenOff, unheard

(* No session is a session, and a session created for no conversation was  *)
(* created for none of those there are.                                    *)
ASSUME HandoffAssumption ==
    /\ NoSession \notin Sessions
    /\ "none" \notin {ConversationOf[m] : m \in Messages}

\* The bounds are numbers.
ASSUME BoundsAssumption ==
    /\ MaxChanges \in Nat /\ MaxLaunches \in Nat /\ NumOperations \in Nat
    /\ NumSessions \in Nat /\ MaxTurns \in Nat /\ MaxRecovered \in Nat /\ MaxBoots \in Nat
    /\ NumIds \in Nat /\ MaxCalls \in Nat /\ DraftLimit \in Nat

Handoff  == INSTANCE HostedHandoff WITH pc <- messagePc
Mirror   == INSTANCE HostedMirror
Adoption == INSTANCE DaemonAdoption WITH overlapped <- overlapping
Wake     == INSTANCE WakeRuntime WITH active <- wanted, pc <- wakePc
Apply    == INSTANCE OnboardingApply
Register == INSTANCE WorkspaceRegister WITH stage <- atStep
Drafts   == INSTANCE ChannelDrafts

----------------------------------------------------------------------------
(* What each part promises; its module states and comments the conjuncts.  *)

\* Changes of one registry take their turns, and a subscription has its own feed.
UpdatesInTurn == OneAtATime /\ InOrder /\ OneFeed

\* An inbound message is answered by one side, in the one session its conversation
\* is mapped to.
PlacedOnce  == Handoff!PlacedOnce
OneAnswerer == Handoff!AnsweredOnce /\ Handoff!OneHost /\ Handoff!MappingIsCurrent

\* A hosted transcript is whole here in the end, and never shrinks on the way.
TranscriptIsHome == Mirror!Recovered /\ Mirror!HomeIsWhole
NeverShrinks     == Mirror!NeverShrinks

\* A daemon is used if it may be, watched once, heard, and refused out loud.
AdoptionIsSound ==
    /\ Adoption!OldIsNotUsed /\ Adoption!OncePerAttach
    /\ Adoption!NoReceiptLost /\ Adoption!RefusalIsSaid

\* The microphone is open only in the listener that is held, and never when off.
MicrophoneIsOurs == Wake!MicrophoneIsHeld /\ Wake!OffMeansSilent

\* Onboarding is applied as a whole or not at all, over nobody else's changes.
AppliedAsAWhole == Apply!FailedLeavesNoTrace /\ Apply!AppliedIsInForce /\ Apply!OthersAreKept

\* A workspace is in the shared register, and marked, as its owner last said.
RegisterIsTheOwners == Register!RegisterIsTheOwners

\* What was composed is kept, shown as it stands, and sent once.
DraftsAreKept == part = "drafts" => Drafts!DraftsAreKept
=============================================================================
