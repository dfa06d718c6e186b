-------------------------- MODULE TranscriptDisplay --------------------------
(***************************************************************************)
(* The transcript on the screen: ConversationManager of                    *)
(* core/conversation.ts, with the output it keeps that is no message       *)
(* (core/conversation-display-only.ts) and the lines it keeps of units     *)
(* that did not change (core/conversation-line-cache.ts).  A frame flushes *)
(* the buffer of lines first, which rebuilds it if anything changed;       *)
(* while an answer streams, its text and what was printed meanwhile are    *)
(* replaced in place and nothing is rebuilt.                               *)
(*                                                                         *)
(* A text is its length in lines of the wide terminal; on the narrow one   *)
(* each takes two.  Markdown, colours, folds, what a header says of a      *)
(* running turn and its lanes (WorkTreeRows) are left out, and so are tool *)
(* results, which are rows of the turn they belong to.                     *)
(***************************************************************************)
EXTENDS Naturals, Sequences, FiniteSets, SequencesExt

CONSTANTS
    MaxMessages,  \* bound: messages of the transcript
    MaxText,      \* bound: the length of a text
    MaxPrints     \* bound: outputs printed

VARIABLES
    messages,   \* the conversation's; a streaming answer is one of them
    streaming,  \* has a turn a block open?
    width,      \* the terminal's: 1 wide, 2 narrow
    kept,       \* printed outputs: the number of messages there were
    view,       \* the buffer of lines and how it was built
    displaced,  \* a message came in behind the placeholder, or was taken back, since it began
    shortened   \* an output was printed after messages that are gone

vars == <<messages, streaming, width, kept, view, displaced, shortened>>

Messages == [role : {"user", "assistant", "notice"}, text : 0..MaxText]
None     == 0
Never    == MaxPrints + 1

\* Lines are counted from 1; `start` is the line the streamed text begins after.
TypeOK ==
    /\ messages \in Seq(Messages) /\ Len(messages) <= MaxMessages
    /\ streaming \in BOOLEAN /\ width \in {1, 2}
    /\ kept \in Seq(0..MaxMessages)
    /\ view.dirty \in BOOLEAN /\ view.splash \in BOOLEAN
    /\ view.width \in 0..2 /\ view.streamWidth \in 0..2
    /\ view.streams \in BOOLEAN /\ view.start \in Nat
    /\ view.trailFrom \in 1..Never /\ view.trailLines \in Nat
    /\ \A i \in DOMAIN view.cache : i \in 1..MaxMessages
    /\ displaced \in BOOLEAN /\ shortened \in BOOLEAN

NoLines == [i \in {} |-> 0]

Init ==
    /\ messages = <<>> /\ streaming = FALSE /\ width \in {1, 2}
    /\ kept = <<>>
    /\ view = [lines |-> <<>>, dirty |-> TRUE, width |-> None,
               splash |-> FALSE, streams |-> FALSE, start |-> 0, streamWidth |-> None,
               trailFrom |-> Never, trailLines |-> 0, cache |-> NoLines]
    /\ displaced = FALSE /\ shortened = FALSE

----------------------------------------------------------------------------
(* The units of a transcript: transcriptUnits() of work-tree-model.ts       *)

Is(msgs, i, role) == msgs[i].role = role

\* From message i on, up to the next question.
Stretch(msgs, i) == {j \in i..Len(msgs) : \A k \in i..j : ~Is(msgs, k, "user")}

TurnEnd(msgs, i) == Max({j \in Stretch(msgs, i) : Is(msgs, j, "assistant")})

\* Messages inside a turn that are not the first of it.
Inside(msgs) ==
    {j \in DOMAIN msgs :
        \E i \in 1..(j - 1) : Is(msgs, i, "assistant") /\ j \in Stretch(msgs, i) /\ j <= TurnEnd(msgs, i)}

Heads(msgs) == DOMAIN msgs \ Inside(msgs)

UnitEnd(msgs, i) == IF Is(msgs, i, "assistant") THEN TurnEnd(msgs, i) ELSE i

----------------------------------------------------------------------------
(* Drawing                                                                  *)

Line(of, at, n) == [of |-> of, at |-> at, n |-> n]

TextLines(w, at, text) == [n \in 1..(text * w) |-> Line("text", at, n)]

\* The turn whose answer streams ends without its blank row.
Streams(msgs, i, at) == at \in i..UnitEnd(msgs, i)

DrawUnit(w, msgs, i, at) ==
    LET blank == IF Streams(msgs, i, at) THEN <<>> ELSE <<Line("blank", i, 0)>>
    IN  CASE Is(msgs, i, "notice") -> <<>>
          [] Is(msgs, i, "user")   -> TextLines(w, i, msgs[i].text) \o blank
          [] OTHER ->
               <<Line("head", i, 0)>>
               \o FlattenSeq([k \in 1..(TurnEnd(msgs, i) - i + 1) |->
                     LET j == i + k - 1
                     IN  IF Is(msgs, j, "assistant") /\ j # at THEN TextLines(w, j, msgs[j].text) ELSE <<>>])
               \o blank

\* What the cache compares before it serves a unit's lines again.
Key(w, msgs, i, at) ==
    [width   |-> w,
     streams |-> Streams(msgs, i, at),
     parts   |-> [j \in i..UnitEnd(msgs, i) |-> IF j = at THEN [msgs[j] EXCEPT !.text = 0] ELSE msgs[j]]]

Served(cache, w, msgs, i, at) ==
    i \in DOMAIN cache /\ cache[i].key = Key(w, msgs, i, at)

UnitLines(cache, w, msgs, i, at) ==
    IF Served(cache, w, msgs, i, at) THEN cache[i].lines ELSE DrawUnit(w, msgs, i, at)

Printed(from, to) == [k \in 1..(to - from + 1) |-> Line("print", from + k - 1, 0)]

\* through(): outputs are drawn in order, up to the first that was printed later.
Through(outputs, next, last) ==
    LET later == {k \in next..Len(outputs) : outputs[k] > last}
    IN  IF later = {} THEN Len(outputs) + 1 ELSE Min(later)

\* One unit and what was printed after it, below what is drawn.
AddUnit(drawn, outputs, cache, w, msgs, i, at) ==
    LET next == IF Streams(msgs, i, at) THEN drawn.next 
               ELSE Through(outputs, drawn.next, UnitEnd(msgs, i))
    IN  [lines |-> drawn.lines \o UnitLines(cache, w, msgs, i, at) \o Printed(drawn.next, next - 1),
         next  |-> next]

\* renderInto(): what is drawn, and the next output, after each message.
RenderInto(outputs, cache, w, msgs, at) ==
    LET first == Through(outputs, 1, 0)
        drawn[i \in 0..Len(msgs)] ==
            IF i = 0 THEN [lines |-> Printed(1, first - 1), next |-> first]
            ELSE IF i \in Heads(msgs) THEN AddUnit(drawn[i - 1], outputs, cache, w, msgs, i, at)
                                      ELSE drawn[i - 1]
    IN  drawn

\* The message whose text streams, as far as a rebuild can tell.
StreamingAt(v, msgs) ==
    IF v.streams /\ msgs # <<>> /\ Is(msgs, Len(msgs), "assistant") THEN Len(msgs) ELSE None

\* rebuildHistory()
Rebuild(v, msgs) ==
    LET at    == StreamingAt(v, msgs)
        drawn == RenderInto(kept, v.cache, width, msgs, at)[Len(msgs)]
        rest  == Printed(drawn.next, Len(kept))
        built == [v EXCEPT !.dirty = FALSE, !.width = width, !.splash = FALSE,
                           !.trailFrom = Never, !.trailLines = 0]
    IN  IF kept = <<>> /\ \A i \in DOMAIN msgs : Is(msgs, i, "notice")
        THEN [built EXCEPT !.splash = TRUE, !.lines = <<Line("splash", 0, 0)>>]
        ELSE [built EXCEPT
                !.cache = [i \in Heads(msgs) |->
                              [key   |-> Key(width, msgs, i, at),
                               lines |-> UnitLines(v.cache, width, msgs, i, at)]],
                !.lines = drawn.lines
                          \o (IF at # None THEN TextLines(width, at, msgs[at].text) ELSE <<>>) \o rest,
                !.start       = IF at # None THEN Len(drawn.lines) ELSE @,
                !.streamWidth = IF at # None THEN width ELSE @,
                !.trailFrom   = IF at # None /\ rest # <<>> THEN drawn.next ELSE Never,
                !.trailLines  = IF at # None THEN Len(rest) ELSE 0]

\* flushHistory()
Clean(v)         == ~v.dirty /\ v.width = width
Flushed(v, msgs) == IF Clean(v) THEN v ELSE Rebuild(v, msgs)

\* markDirty().  The lines of a marked buffer, how wide they are, what trails and whether
\* they are the splash make no difference before a rebuild: they are dropped here.
Marked == [view EXCEPT !.dirty = TRUE, !.width = None, !.splash = FALSE, !.lines = <<>>,
                       !.trailFrom = Never, !.trailLines = 0]

----------------------------------------------------------------------------
(* The conversation.  Commands and late replies reach it whether a turn     *)
(* streams or not.                                                          *)

Add(role, text) ==
    /\ Len(messages) < MaxMessages
    /\ messages' = Append(messages, [role |-> role, text |-> text])
    /\ view' = Marked
    /\ displaced' = (displaced \/ streaming)
    /\ UNCHANGED <<streaming, width, kept, shortened>>

AddUserMessage      == Add("user", 1)
AddSystemMessage    == Add("notice", 0)
AddAssistantMessage == Add("assistant", MaxText)

\* Variant: the text that streams begins at the end of the buffer.
StartsAfter_TheEnd(v) == Len(v.lines)

\* startStreamingBlock(): the text begins above what was printed in this turn.
StartsAfter(v) == Len(v.lines) - v.trailLines

\* Who streams opens a block once, and closes it before the next: openStream().
StartStreamingBlock ==
    /\ ~streaming /\ Len(messages) < MaxMessages
    /\ streaming' = TRUE
    /\ messages' = Append(messages, [role |-> "assistant", text |-> 0])
    /\ LET built == Rebuild([Marked EXCEPT !.streams = TRUE, !.start = 0], messages')
       IN  view' = [built EXCEPT !.start = StartsAfter(built), !.streamWidth = width]
    /\ UNCHANGED <<width, kept, displaced, shortened>>

\* The placeholder is taken to be the last message of the assistant, if there is one
\* (external).
Placeholder(msgs) == Max({None} \cup {i \in DOMAIN msgs : Is(msgs, i, "assistant")})

\* truncateToLine(), the text, and drawTrailing(): on a marked buffer nobody sees it.
DrawStreamed(v, at, text) ==
    LET trail == Printed(v.trailFrom, Len(kept))
    IN  IF v.dirty THEN v
        ELSE [v EXCEPT !.lines      = SubSeq(@, 1, Min({v.start, Len(@)}))
                                      \o TextLines(width, at, text) \o trail,
                       !.trailLines = Len(trail)]

\* updateStreamingBlock(): the text is the whole of what came so far.
UpdateStreamingBlock(text) ==
    /\ streaming
    /\ LET at == Placeholder(messages)
       IN  /\ messages' = IF at = None THEN messages ELSE [messages EXCEPT ![at].text = text]
           /\ view' = IF ~view.streams THEN view
                      ELSE DrawStreamed(IF width = view.streamWidth THEN view
                                        ELSE Flushed(view, messages'), at, text)
    /\ UNCHANGED <<streaming, width, kept, displaced, shortened>>

Shorter(msgs) == shortened \/ \E k \in DOMAIN kept : kept[k] > Len(msgs)

\* finalizeStreamingBlock(), and the message that takes the placeholder's place, if
\* there is one.
FinalizeStreamingBlock(answer) ==
    /\ streaming /\ streaming' = FALSE
    /\ LET at   == Placeholder(messages)
           rest == IF at = None THEN messages ELSE RemoveAt(messages, at)
       IN  /\ answer => Len(rest) < MaxMessages
           /\ messages' = rest \o (IF answer THEN <<[role |-> "assistant", text |-> MaxText]>>
                                             ELSE <<>>)
    /\ view' = [Marked EXCEPT !.streams = FALSE, !.start = 0, !.streamWidth = None]
    /\ shortened' = Shorter(messages') /\ displaced' = FALSE
    /\ UNCHANGED <<width, kept>>

\* log(), recordDisplayOnly() and noteDrawn()
Log ==
    /\ Len(kept) < MaxPrints
    /\ kept' = Append(kept, Len(messages))
    /\ LET seq == Len(kept) + 1
       IN  view' = IF view.splash THEN Marked
                   ELSE IF view.dirty THEN view
                   ELSE [view EXCEPT
                           !.lines      = Append(@, Line("print", seq, 0)),
                           !.trailFrom  = IF view.streams /\ @ = Never THEN seq ELSE @,
                           !.trailLines = IF view.streams THEN @ + 1 ELSE @]
    /\ UNCHANGED <<messages, streaming, width, displaced, shortened>>

\* getDisplayBlocks()
Flush ==
    /\ ~Clean(view)
    /\ view' = Rebuild(view, messages)
    /\ UNCHANGED <<messages, streaming, width, kept, displaced, shortened>>

Resize ==
    /\ width' = 3 - width
    /\ UNCHANGED <<messages, streaming, kept, view, displaced, shortened>>

\* undo() and removeMessagesAfter(), in mid-stream too: the placeholder goes with what
\* is taken back, and the line its text began at stays.
RemoveMessagesAfter(count) ==
    /\ count < Len(messages)
    /\ messages' = SubSeq(messages, 1, count)
    /\ view' = Marked
    /\ displaced' = (displaced \/ streaming)
    /\ shortened' = Shorter(messages')
    /\ UNCHANGED <<streaming, width, kept>>

\* resetAll().  In mid-stream the turn goes on, with no line its text begins at (and no
\* use for the width it was drawn at).
ResetAll ==
    /\ messages' = <<>> /\ kept' = <<>>
    /\ view' = [Marked EXCEPT !.streams = FALSE, !.start = 0, !.streamWidth = None,
                              !.cache = NoLines]
    /\ displaced' = streaming /\ shortened' = FALSE
    /\ UNCHANGED <<streaming, width>>

Next ==
    \/ AddUserMessage \/ AddAssistantMessage \/ AddSystemMessage
    \/ StartStreamingBlock
    \/ \E text \in 1..MaxText : UpdateStreamingBlock(text)
    \/ \E answer \in BOOLEAN : FinalizeStreamingBlock(answer)
    \/ Log \/ Flush \/ Resize
    \/ \E count \in 0..MaxMessages : RemoveMessagesAfter(count)
    \/ ResetAll

Spec == Init /\ [][Next]_vars

----------------------------------------------------------------------------
(* A frame that needs no rebuild, while the placeholder is where it was put *)
(* if a block is open.  After a message came in behind it, or messages were *)
(* taken back or reset in mid-stream, what is promised below may fail until *)
(* the block is closed and the next frame drawn: README, section 8.         *)
Calm == Clean(view) /\ ~displaced

(* "A cache-served rebuild is BYTE-IDENTICAL to a cold rebuild"             *)
(* (conversation-line-cache.ts), and so is a screen that needs none:        *)
(* whatever was streamed, printed, resized or, while no block is open,      *)
(* taken back since the last rebuild, one from nothing would draw the same  *)
(* lines (Calm says which frames).                                          *)
ShownAsRebuilt ==
    Calm => view.lines = Rebuild([view EXCEPT !.cache = NoLines], messages).lines

TextsOf(lines) ==
    FlattenSeq([l \in DOMAIN lines |-> IF lines[l].of = "text" THEN <<lines[l]>> ELSE <<>>])

(* Every text of the transcript is on the screen once and whole, in the     *)
(* order of the messages, on the same frames.                               *)
EachTextOnce ==
    Calm => TextsOf(view.lines)
            = FlattenSeq([i \in DOMAIN messages |-> TextLines(width, i, messages[i].text)])

(* Display-only output is drawn "again in the same place on every rebuild"  *)
(* (conversation-display-only.ts), on the same frames: once, below the      *)
(* messages it was printed after and above every question, and every turn,  *)
(* that came later.  Messages are counted, as the code counts them:         *)
(* kept[k] is how many there were.                                          *)
PrintsInPlace ==
    Calm => \A k \in DOMAIN kept :
        /\ Cardinality({l \in DOMAIN view.lines : view.lines[l] = Line("print", k, 0)}) = 1
        /\ ~shortened =>
            LET here == CHOOSE l \in DOMAIN view.lines : view.lines[l] = Line("print", k, 0)
            IN  \A l \in DOMAIN view.lines :
                   /\ view.lines[l].of = "text" /\ view.lines[l].at <= kept[k] => l < here
                   /\ view.lines[l].at \in Heads(messages) /\ view.lines[l].at > kept[k]
                      /\ view.lines[l].of # "print" => l > here
=============================================================================
