-------------------------- MODULE HostedFrameRender --------------------------
(***************************************************************************)
(* What the frames of one hosted turn write into the conversation:         *)
(* createHostedFrameRenderer() of runtime/client/hosted-frame-render.ts.   *)
(* Text accumulates in a streaming block; a tool call closes the block     *)
(* into an assistant message that carries the call; the rest is closed     *)
(* into the last message when the turn ends, however it ends.              *)
(*                                                                         *)
(* The turn itself is the daemon's (external): model calls, each of some   *)
(* text, streamed or not, and a batch of tool calls.  Frames arrive in     *)
(* order and once: HostedTurnStream says when they do.  A text is the      *)
(* sequence of the pieces the model produced, a piece named by its model   *)
(* call and its number in it.                                              *)
(***************************************************************************)
EXTENDS Naturals, Sequences, FiniteSets, SequencesExt

CONSTANTS
    MaxCalls,   \* model calls in a turn
    MaxPieces,  \* text pieces of a model call
    MaxTools    \* tool calls of a model call

VARIABLES
    running,     \* does the daemon send the running text with a delta?
    call, pieces,\* the daemon's model call, and the pieces it has streamed
    stage,       \* and how far it is with that call
    tools,       \* tool calls it has announced, in order, by model call
    pending,     \* those it has not reported a result for
    said,        \* the text the turn's frames carried
    accumulated, streaming, pendingToolCalls, usage, turnText, finished,  \* the renderer
    block,       \* the conversation's streaming block: the text it shows, if open
    entries      \* the conversation's messages

turnVars == <<running, call, pieces, stage, tools, pending, said>>
rendererVars == <<accumulated, streaming, pendingToolCalls, usage, turnText, finished>>
vars == <<turnVars, rendererVars, block, entries>>

Pieces == [call : 1 .. MaxCalls, n : 1 .. MaxPieces]
NoUsage == 0

Assistant == [kind : {"assistant"}, text : Seq(Pieces), calls : Seq(Nat), usage : 0 .. MaxCalls]
Result    == [kind : {"result"}, of : Nat]
Notice    == [kind : {"notice"}]

TypeOK ==
    /\ call \in 1 .. MaxCalls /\ pieces \in 0 .. MaxPieces
    /\ stage \in {"calling", "replied", "over"}
    /\ tools \in Seq(1 .. MaxCalls) /\ pending \subseteq 1 .. Len(tools)
    /\ said \in Seq(Pieces)
    /\ accumulated \in Seq(Pieces) /\ turnText \in Seq(Pieces)
    /\ pendingToolCalls \in Seq(1 .. Len(tools)) /\ usage \in 0 .. MaxCalls
    /\ streaming \in BOOLEAN /\ finished \in BOOLEAN
    /\ block \in [open : BOOLEAN, text : Seq(Pieces)]
    /\ \A i \in 1 .. Len(entries) : entries[i] \in Assistant \cup Result \cup Notice

ClosedBlock == [open |-> FALSE, text |-> <<>>]

Init ==
    /\ running \in BOOLEAN
    /\ call = 1 /\ pieces = 0 /\ stage = "calling"
    /\ tools = <<>> /\ pending = {} /\ said = <<>>
    /\ accumulated = <<>> /\ streaming = FALSE /\ usage = NoUsage
    /\ pendingToolCalls = <<>> /\ turnText = <<>> /\ finished = FALSE
    /\ block = ClosedBlock /\ entries = <<>>

----------------------------------------------------------------------------
(* The renderer *)

\* closeStream()
CloseStream ==
    /\ streaming' = FALSE
    /\ block' = IF streaming THEN ClosedBlock ELSE block

\* The message of a flush: none without text or calls.
Message(text, calls, u) ==
    IF text = <<>> /\ calls = <<>> THEN <<>>
    ELSE <<[kind |-> "assistant", text |-> text, calls |-> calls, usage |-> u]>>

\* Usage belongs on the message that ends the turn.
UsageOn(final) == IF final THEN usage ELSE NoUsage

\* flush().  One that writes no message leaves the block open, and only the end
\* of a turn makes one; both callers have the block closed.
Flush(calls, text, final, after) ==
    /\ accumulated' = <<>>
    /\ turnText' = turnText \o text
    /\ entries' = entries \o Message(text, calls, UsageOn(final)) \o after
    /\ pendingToolCalls' = <<>>
    /\ CloseStream

\* TOOL_RECEIVED: the text so far becomes the message that carries the call.
ToolReceived_HeldToTheEnd(id) ==
    /\ pendingToolCalls' = Append(pendingToolCalls, id)
    /\ UNCHANGED <<accumulated, streaming, turnText, block, entries>>
ToolReceived(id) == Flush(Append(pendingToolCalls, id), accumulated, FALSE, <<>>)

\* TURN_COMPLETED, TURN_ERROR, TURN_CANCEL and abandon().
Finish(text, after) ==
    /\ Flush(pendingToolCalls, text, TRUE, after)
    /\ finished' = TRUE

NoticeEntry == <<[kind |-> "notice"]>>

----------------------------------------------------------------------------
(* The frames of a turn.  Each action is one frame: what the daemon emits  *)
(* (external) and what apply() does with it.                               *)

\* The text of model call c, up to its n-th piece.
Text(c, n) == [i \in 1 .. n |-> [call |-> c, n |-> i]]

StreamStart ==
    /\ stage = "calling" /\ pieces = 0
    /\ streaming' = TRUE
    /\ block' = IF streaming THEN block ELSE [open |-> TRUE, text |-> <<>>]
    /\ UNCHANGED <<turnVars, accumulated, pendingToolCalls, usage, turnText, finished, entries>>

\* The running text the daemon sends is authoritative; without it the content of
\* the delta is appended.
RunningText ==
    IF running THEN Text(call, pieces + 1)
    ELSE Append(accumulated, [call |-> call, n |-> pieces + 1])

StreamDelta ==
    /\ stage = "calling" /\ pieces < MaxPieces
    /\ pieces' = pieces + 1
    /\ said' = Append(said, [call |-> call, n |-> pieces + 1])
    /\ accumulated' = RunningText
    /\ streaming' = TRUE
    /\ block' = [open |-> TRUE, text |-> RunningText]
    /\ UNCHANGED <<running, call, stage, tools, pending,
                   pendingToolCalls, usage, turnText, finished, entries>>

LlmResponseReceived ==
    /\ stage = "calling"
    /\ stage' = "replied"
    /\ usage' = call
    /\ UNCHANGED <<running, call, pieces, tools, pending, said,
                   accumulated, streaming, pendingToolCalls, turnText, finished, block, entries>>

CallsMade(c) == {i \in 1 .. Len(tools) : tools[i] = c}

ToolCallFrame ==
    /\ stage = "replied" /\ Cardinality(CallsMade(call)) < MaxTools /\ call < MaxCalls
    /\ tools' = Append(tools, call)
    /\ pending' = pending \cup {Len(tools) + 1}
    /\ ToolReceived(Len(tools) + 1)
    /\ UNCHANGED <<running, call, pieces, stage, said, usage, finished>>

\* TOOL_SUCCEEDED, TOOL_FAILED
ToolResultFrame(i) ==
    /\ i \in pending /\ stage # "over"
    /\ pending' = pending \ {i}
    /\ entries' = Append(entries, [kind |-> "result", of |-> i])
    /\ UNCHANGED <<running, call, pieces, stage, tools, said, rendererVars, block>>

\* The model is called again with the results.
NextCall ==
    /\ stage = "replied" /\ CallsMade(call) # {} /\ pending = {}
    /\ call' = call + 1 /\ pieces' = 0 /\ stage' = "calling"
    /\ UNCHANGED <<running, tools, pending, said, rendererVars, block, entries>>

\* A turn completes on a reply that called no tool.  Its response is that reply's
\* text, streamed or not; the renderer uses it only if nothing was streamed.
TurnCompleted ==
    /\ stage = "replied" /\ CallsMade(call) = {}
    /\ \E n \in 0 .. MaxPieces :
         LET response == Text(call, n)
             text == IF accumulated # <<>> THEN accumulated ELSE response
         IN /\ pieces # 0 => n = pieces
            /\ said' = IF pieces = 0 THEN said \o response ELSE said
            /\ Finish(text, <<>>)
    /\ stage' = "over"
    /\ UNCHANGED <<running, call, pieces, tools, pending, usage>>

\* It fails, is cancelled, or its stream ends, at any point.
TurnBroken ==
    /\ stage # "over"
    /\ Finish(accumulated, NoticeEntry)
    /\ stage' = "over"
    /\ UNCHANGED <<running, call, pieces, tools, pending, said, usage>>

Next ==
    \/ StreamStart \/ StreamDelta \/ LlmResponseReceived
    \/ ToolCallFrame \/ (\E i \in pending : ToolResultFrame(i))
    \/ NextCall \/ TurnCompleted \/ TurnBroken

Spec == Init /\ [][Next]_vars

----------------------------------------------------------------------------
(* Properties *)

IsMessage(i) == entries[i].kind = "assistant"
Messages == {i \in 1 .. Len(entries) : IsMessage(i)}
Written == FlattenSeq([i \in 1 .. Len(entries) |-> IF IsMessage(i) THEN entries[i].text ELSE <<>>])

\* Every piece of text the frames carried is in the transcript or still in the
\* streaming block, once and in order, and the completion reports the same text.
TextOnce ==
    /\ Written \o accumulated = said
    /\ turnText = Written

\* The streaming block shows the text not yet in a message, and a finished turn
\* leaves none open and no call behind.
BlockIsPending ==
    /\ block.open = streaming
    /\ accumulated # <<>> => block = [open |-> TRUE, text |-> accumulated]
    /\ finished => ~block.open /\ accumulated = <<>> /\ pendingToolCalls = <<>>

\* "Otherwise the calls would attach to text that had not been written when they
\* were made": a tool call is on a message before its result, and the text of the
\* model call that made it is not after it.
CallsInPlace ==
    \A k \in 1 .. Len(entries) :
      /\ entries[k].kind = "result" =>
           \E i \in Messages : i < k /\ entries[k].of \in ToSet(entries[i].calls)
      /\ IsMessage(k) =>
           \A p \in ToSet(entries[k].text), i \in Messages, id \in ToSet(entries[k].calls) :
             /\ p.call = tools[id]
             /\ i < k => \A early \in ToSet(entries[i].calls) : tools[early] <= p.call

\* The turn's accounting is on the message that ends the turn and on no other, and
\* it is that of the last model call.
UsageOnClosing ==
    \A i \in Messages :
      entries[i].usage # NoUsage =>
        /\ finished /\ entries[i].usage = usage
        /\ \A j \in Messages : j <= i
============================================================================
