---------------------------- MODULE PaletteReader ----------------------------
(***************************************************************************)
(* Reading the terminal's colours: renderer/terminal-palette-reader.ts,    *)
(* with the collection window of renderer/terminal-palette-probe.ts.  A    *)
(* round writes a batch of queries and collects replies until all are      *)
(* there or its window closes; a round without a colour is followed by     *)
(* another, by a timer or at a sign of life, up to a cap.  Replies that    *)
(* miss their window are still taken from the input.                       *)
(*                                                                         *)
(* What a chunk of input holds besides replies is one bit: anything else.  *)
(***************************************************************************)
EXTENDS Integers, FiniteSets

CONSTANTS
    Slots,     \* background, foreground and the palette entries
    MaxRounds  \* the code's cap, the startup round included

VARIABLES
    reader,    \* the reader and its current probe
    replies,   \* replies on their way from the terminal
    attached   \* is a terminal there to answer?

vars == <<reader, replies, attached>>

TypeOK ==
    /\ reader \in [rounds : 0..MaxRounds, active : BOOLEAN, answered : SUBSET Slots,
                   colours : SUBSET Slots, settled : BOOLEAN, shown : BOOLEAN,
                   published : SUBSET Slots, timer : BOOLEAN, spaced : BOOLEAN]
    /\ replies \subseteq Slots
    /\ attached \in BOOLEAN

Init ==
    /\ reader = [rounds |-> 0, active |-> FALSE, answered |-> {}, colours |-> {},
                 settled |-> FALSE, shown |-> FALSE, published |-> {},
                 timer |-> FALSE, spaced |-> FALSE]
    /\ replies = {}
    /\ attached \in BOOLEAN

----------------------------------------------------------------------------
(* The methods of the reader, as functions of its state.                    *)

BeginRound(r) ==
    [r EXCEPT !.rounds = @ + 1, !.active = TRUE, !.answered = {}, !.colours = {}, !.spaced = FALSE]

\* Variant: it asks again although colours were read.
MayAskAgain_Settled(r) == ~r.active /\ r.rounds < MaxRounds

MayAskAgain(r) == ~r.settled /\ ~r.active /\ r.rounds < MaxRounds

Retry(r) == IF MayAskAgain(r) /\ r.spaced THEN BeginRound(r) ELSE r

\* scheduleRetry() keeps one timer at most.
RoundResolved(r) ==
    [r EXCEPT !.active = FALSE,
              !.settled = @ \/ r.colours # {},
              !.published = IF r.colours # {} THEN r.colours ELSE @,
              !.shown = TRUE,
              !.timer = @ \/ ~(r.settled \/ r.colours # {})]

AcceptLate(r, colours) ==
    IF colours \subseteq r.published THEN r
    ELSE [r EXCEPT !.settled = TRUE, !.published = @ \cup colours, !.shown = TRUE]

Collect(r, chunk, colours) ==
    LET now == [r EXCEPT !.answered = @ \cup chunk, !.colours = (@ \ chunk) \cup colours]
    IN  IF now.answered = Slots THEN RoundResolved(now) ELSE now

Feed(r, chunk, colours) ==
    IF r.active THEN Collect(r, chunk, colours) ELSE AcceptLate(r, colours)

----------------------------------------------------------------------------
\* A batch that is written is answered by the terminal that is there.
Step(next, left) ==
    /\ reader' = next
    /\ replies' = IF next.rounds > reader.rounds /\ attached THEN Slots ELSE left
    /\ UNCHANGED attached

Start == reader.rounds = 0 /\ Step(BeginRound(reader), replies)

\* One chunk of stdin: some replies, of which some have a readable colour, and
\* perhaps something else, which is a sign that someone is there.
Input ==
    /\ reader.rounds > 0
    /\ \E chunk \in SUBSET replies, other \in BOOLEAN : \E colours \in SUBSET chunk :
         /\ chunk # {} \/ other
         /\ LET fed == Feed(reader, chunk, colours)
            IN  Step(IF other THEN Retry(fed) ELSE fed, replies \ chunk)

Resize == reader.rounds > 0 /\ Step(Retry(reader), replies)

WindowCloses == reader.active /\ Step(RoundResolved(reader), replies)

\* The timed retry, put off when a round has only just begun.
TimerFires ==
    LET fired == [reader EXCEPT !.timer = FALSE]
        asked == Retry(fired)
    IN  /\ reader.timer
        /\ Step(IF asked = fired /\ MayAskAgain(fired) THEN [fired EXCEPT !.timer = TRUE] ELSE asked,
                replies)

SpacingElapses == reader.rounds > 0 /\ ~reader.spaced /\ Step([reader EXCEPT !.spaced = TRUE], replies)

\* The terminal: attached, detached, or its replies dropped on the way.
Attach == attached' = ~attached /\ UNCHANGED <<reader, replies>>
Lost   == replies # {} /\ replies' = {} /\ UNCHANGED <<reader, attached>>

Next ==
    \/ Start \/ Input \/ Resize \/ WindowCloses \/ TimerFires \/ SpacingElapses
    \/ Attach \/ Lost

\* The startup round is begun, and timers fire.
Proceeds == Start \/ WindowCloses \/ TimerFires \/ SpacingElapses

FairSpec == Init /\ [][Next]_vars /\ WF_vars(Proceeds)

----------------------------------------------------------------------------
(* A colour that was published is never taken back: by a later round that   *)
(* read fewer, or by a reply that came late.                                *)
ColoursKept == [][reader.published \subseteq reader'.published]_vars

(* "when a round ends without a single colour, the reader asks again": the  *)
(* retries go on until colours are read or the cap is reached, whatever     *)
(* the terminal does and whenever the person types.                         *)
AsksUntilAnswered == <>(reader.settled \/ reader.rounds = MaxRounds)
============================================================================
