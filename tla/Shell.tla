-------------------------------- MODULE Shell --------------------------------
(***************************************************************************)
(* Nine parts of the terminal shell beside each other.  They share no      *)
(* state: each is an instance of its module over variables of its own, and *)
(* has here the properties that say what it promises.  MCShell checks them *)
(* one at a time on small instances; Shell_proofs, Turn_proofs and         *)
(* Screen_proofs prove them for any, but for the graph of a turn.  What is *)
(* costly to evaluate is evaluated where its part moves.                   *)
(***************************************************************************)
EXTENDS PermissionCard

CONSTANTS
    Submissions,                                     \* the indicator
    MaxCalls, MaxPieces, MaxTools,                   \* frames
    NumTurns, MaxText, CatchUp, MaxBreaks,           \* the stream
    Occasions, MaxToken, Pulls, MaxChanges,          \* the nudge
    Slots, MaxRounds,                                \* the palette
    NumIds, MaxTurns, MaxLaunches, MaxCommands,      \* the session
    MaxMessages, MaxLines, MaxPrints,                \* the screen
    NumAgents, MaxNest, MaxItems, MaxLaneCalls, MaxTime   \* the tree

\* The bounds are numbers, and leave room for the session an earlier launch saved.
ASSUME RoomAssumption ==
    /\ MaxCalls \in Nat \ {0} /\ MaxPieces \in Nat
    /\ MaxChanges \in Nat /\ MaxToken \in Nat /\ MaxRounds \in Nat \ {0}
    /\ NumTurns \in Nat /\ CatchUp \in Nat /\ MaxBreaks \in Nat
    /\ NumIds \in Nat /\ NumIds >= 2
    /\ MaxTurns \in Nat \ {0} /\ MaxLaunches \in Nat \ {0} /\ MaxCommands \in Nat
    /\ MaxMessages \in Nat /\ MaxLines \in Nat \ {0} /\ MaxPrints \in Nat
    /\ NumAgents \in Nat /\ MaxTime \in Nat

VARIABLES
    part,   \* the part that moves, where one is checked at a time
    place, interrupted, overlapping, isThinking, owned,
    running, call, pieces, stage, tools, pending, said,
    accumulated, streaming, pendingToolCalls, usage, turnText, finished, block, entries,
    log, queue, pc, feed, position, rendering, bound, shown, ended, breaks, mishaps,
    offered, moves, enabled, asked, answers, ledger, told, stale, crosswise, repeated,
    reader, replies, attached,
    home, boot, screen, asking, files, pointer, anchors, offer, ids, turns, launches, commands,
    madeIn, discarded, strayed, replaced, misplaced,
    transcript, placeholder, width, kept, view, mixed, shortened,
    items, agent, folded, clock

Activity == INSTANCE HostedTurnActivity
                WITH Messages <- Submissions, pc <- place, crowded <- overlapping
Frames   == INSTANCE HostedFrameRender
Stream   == INSTANCE HostedTurnStream
Nudge    == INSTANCE OccasionsNudge
                WITH Streams <- Occasions, changes <- moves, crossed <- crosswise
Palette  == INSTANCE PaletteReader
Session  == INSTANCE LiveSession
                WITH running <- asking, dropped <- discarded, crossed <- replaced
Screen   == INSTANCE TranscriptDisplay
                WITH MaxText <- MaxLines, messages <- transcript, streaming <- placeholder,
                     displaced <- mixed
Tree     == INSTANCE WorkTreeRows
                WITH MaxCalls <- MaxLaneCalls

----------------------------------------------------------------------------
(* What each part promises; its module states and comments the conjuncts.  *)

\* The indicator turns over work, and over all the work there is; it is cleared by
\* whoever set it.
IndicatorTellsTruth == Activity!SpinnerMeansWork /\ Activity!WaitingWhileTurnRuns
NeverClearsAnothers == Activity!NeverClearsAnothers

\* A hosted turn is written down as it ran, whatever frame it breaks at.
TurnIsWritten ==
    part = "frames" =>
        /\ Frames!TextOnce /\ Frames!BlockIsPending
        /\ Frames!CallsInPlace /\ Frames!UsageOnClosing

\* Each turn reaches its own renderer, whole and once, and its caller is told.
TurnReachesItsOwn ==
    part = "stream" =>
        Stream!OwnEndingWhenCalm /\ Stream!WholeTurn /\ Stream!RenderedOnce

SaidOnce == Nudge!SaidOnce

ColoursKept == Palette!ColoursKept

\* What was completed is saved, where the next launch looks, and a reply lands in
\* the transcript it was asked in.
SessionsAreKept ==
    part = "session" =>
        Session!NothingLost /\ Session!PointerReaches /\ Session!RepliesLandHome

\* The lines on the screen are those of the transcript, and of what was printed in it,
\* but while a block is open and, since it began, a message came in behind its placeholder
\* or messages were taken back (Screen!Calm).
ScreenIsTranscript ==
    part = "screen" =>
        Screen!ShownAsRebuilt /\ Screen!EachTextOnce /\ Screen!PrintsInPlace

\* The graph of a turn has every call in its place and no lane left hanging.
TurnIsDrawn ==
    part = "tree" => Tree!LanesHold /\ Tree!DrawnByStart /\ Tree!EveryCallOnce
=============================================================================
