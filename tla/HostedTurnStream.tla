--------------------------- MODULE HostedTurnStream ---------------------------
(***************************************************************************)
(* How the turns of one daemon-hosted session reach the renderers of this  *)
(* surface: watch() of runtime/client/remote-conversation.ts.  Every       *)
(* message opens a fresh event stream and a fresh renderer, resumes from   *)
(* the last frame id the router read (streamPositions), and passes each    *)
(* frame through a turn gate of its own before the renderer sees it.       *)
(*                                                                         *)
(* The daemon - its frame log, its replay, the turns it runs - and the     *)
(* SDK's gate are external.  Creating, losing and recreating the session   *)
(* is the subject of RemoteRouting; what a frame writes into the           *)
(* conversation is that of HostedFrameRender.                              *)
(***************************************************************************)
EXTENDS Naturals, Sequences, FiniteSets

CONSTANTS
    NumTurns,   \* messages sent, each one turn of the session
    MaxText,    \* text frames a turn may have
    CatchUp,    \* frames the daemon replays to a stream whose position it cannot use
    MaxBreaks   \* connections that break and are made again (bound)

Turns     == 1 .. NumTurns
NoTurn    == 0              \* null: an unbound gate, an unsettled completion
Abandoned == NumTurns + 1   \* the completion of a renderer whose stream ended

VARIABLES
    log,       \* the session's frames so far; a frame's id is its index
    queue,     \* turns the daemon has taken and not ended, the running one first
    pc,        \* how far submit() is with each message
    feed,      \* the stream closeStream closes: whether it is open, its next frame
    position,  \* streamPositions: the id last read, 0 before any
    rendering, \* the turn whose renderer is the newest, NoTurn before any
    bound,     \* the turn that renderer's gate is bound to
    shown,     \* frames applied, in order, each with the renderer it went to
    ended,     \* what settled each completion: a turn's end frame, or Abandoned
    breaks,    \* connections broken so far
    mishaps    \* what went wrong so far: the cases the properties tell apart

vars == <<log, queue, pc, feed, position, rendering, bound, shown, ended, breaks, mishaps>>

Kinds  == {"start", "text", "end"}
Frames == [turn : Turns, kind : Kinds]

TypeOK ==
    /\ log \in Seq(Frames)
    /\ queue \in Seq(Turns)
    /\ pc \in [Turns -> {"unsent", "opening", "steering", "routed"}]
    /\ feed \in [open : BOOLEAN, next : Nat]
    /\ position \in 0 .. Len(log)
    /\ rendering \in Turns \cup {NoTurn}
    /\ bound \in Turns \cup {NoTurn}
    /\ shown \in Seq([by : Turns, id : Nat])
    /\ ended \in [Turns -> Turns \cup {NoTurn, Abandoned}]
    /\ breaks \in 0 .. MaxBreaks
    /\ mishaps \subseteq {"hurried", "dropped", "replayed", "rerun"}

Closed == [open |-> FALSE, next |-> 0]

Init ==
    /\ log = <<>> /\ queue = <<>>
    /\ pc = [t \in Turns |-> "unsent"]
    /\ feed = Closed
    /\ position = 0
    /\ rendering = NoTurn /\ bound = NoTurn
    /\ shown = <<>>
    /\ ended = [t \in Turns |-> NoTurn]
    /\ breaks = 0
    /\ mishaps = {}

----------------------------------------------------------------------------
(* The daemon (external): it runs the turns it took one at a time.  A turn *)
(* may end after any of its frames: it completed, failed or was cancelled. *)

FramesOf(t) == {i \in 1 .. Len(log) : log[i].turn = t}
FramesLike(t, kind) == {i \in FramesOf(t) : log[i].kind = kind}
Emit(t, kind) == log' = Append(log, [turn |-> t, kind |-> kind])
Running(t) == queue # <<>> /\ t = Head(queue) /\ FramesLike(t, "start") # {}

TurnStarts ==
    /\ queue # <<>> /\ ~Running(Head(queue))
    /\ Emit(Head(queue), "start")
    /\ UNCHANGED <<queue, pc, feed, position, rendering, bound, shown, ended, breaks, mishaps>>

TurnStreams(t) ==
    /\ Running(t)
    /\ Cardinality(FramesLike(t, "text")) < MaxText
    /\ Emit(t, "text")
    /\ UNCHANGED <<queue, pc, feed, position, rendering, bound, shown, ended, breaks, mishaps>>

TurnEnds(t) ==
    /\ Running(t)
    /\ Emit(t, "end")
    /\ queue' = Tail(queue)
    /\ UNCHANGED <<pc, feed, position, rendering, bound, shown, ended, breaks, mishaps>>

\* Where a stream begins: after the position it states if the daemon can use it
\* ("replayed": it cannot, and the tail of the session repeats or skips frames).
\* "rerun": a turn its own renderer has finished is brought again, and not only its
\* ending.
TailStart == IF Len(log) > CatchUp THEN Len(log) - CatchUp + 1 ELSE 1

Reruns(f) == f.kind # "end" /\ f.turn # rendering /\ ended[f.turn] = f.turn

Opens(first, replay) ==
    /\ feed' = [open |-> TRUE, next |-> first]
    /\ mishaps' = IF \E i \in first .. Len(log) : Reruns(log[i])
                  THEN mishaps \cup replay \cup {"rerun"} ELSE mishaps \cup replay

OpensFeed ==
    \/ position # 0 /\ Opens(position + 1, {})
    \/ Opens(TailStart, IF TailStart = position + 1 THEN {} ELSE {"replayed"})

----------------------------------------------------------------------------
(* The SDK's gate (external): an end frame passes only if its turn is the  *)
(* one the gate is bound to; any other frame passes, and binds the gate.   *)

Accepts(f) == f.kind # "end" \/ f.turn = bound

----------------------------------------------------------------------------
(* The router *)

\* main.ts starts a submission on any keystroke; submissions that overlap each
\* other's hand-off are the subject of RemoteRouting.
MaySend(t) ==
    /\ pc[t] = "unsent"
    /\ \A u \in 1 .. t - 1 : pc[u] = "routed"

\* submit(), and watch() up to its await: the stream of the turn before is
\* closed; the new renderer's gate starts unbound.  "hurried": that turn had not
\* been reported over.
FreshGate_Kept == bound
FreshGate == NoTurn

Watch(t) ==
    /\ MaySend(t)
    /\ feed' = Closed
    /\ rendering' = t
    /\ bound' = FreshGate
    /\ pc' = [pc EXCEPT ![t] = "opening"]
    /\ mishaps' = IF \E u \in 1 .. t - 1 : ended[u] = NoTurn
                  THEN mishaps \cup {"hurried"} ELSE mishaps
    /\ UNCHANGED <<log, queue, position, shown, ended, breaks>>

OpenLands(t) ==
    /\ pc[t] = "opening"
    /\ OpensFeed
    /\ pc' = [pc EXCEPT ![t] = "steering"]
    /\ UNCHANGED <<log, queue, position, rendering, bound, shown, ended, breaks>>

SteerLands(t) ==
    /\ pc[t] = "steering"
    /\ queue' = Append(queue, t)
    /\ pc' = [pc EXCEPT ![t] = "routed"]
    /\ UNCHANGED <<log, feed, position, rendering, bound, shown, ended, breaks, mishaps>>

\* onEventId: every id is remembered as it is read, whatever becomes of the frame.
Remembered_Next(i) == i + 1
Remembered(i) == i

\* apply() returns early once the turn is finished.
Apply(i) ==
    IF ended[rendering] # NoTurn THEN UNCHANGED <<shown, ended>>
    ELSE /\ shown' = Append(shown, [by |-> rendering, id |-> i])
         /\ ended' = IF log[i].kind = "end"
                     THEN [ended EXCEPT ![rendering] = log[i].turn]
                     ELSE ended

\* onEvent
Deliver ==
    /\ feed.open /\ feed.next <= Len(log)
    /\ feed' = [feed EXCEPT !.next = @ + 1]
    /\ position' = Remembered(feed.next)
    /\ IF Accepts(log[feed.next])
       THEN bound' = log[feed.next].turn /\ Apply(feed.next)
       ELSE UNCHANGED <<bound, shown, ended>>
    /\ UNCHANGED <<log, queue, pc, rendering, breaks, mishaps>>

\* The SDK reconnects a broken stream by itself, stating the same position.
Reconnects ==
    /\ feed.open /\ breaks < MaxBreaks
    /\ breaks' = breaks + 1
    /\ OpensFeed
    /\ UNCHANGED <<log, queue, pc, position, rendering, bound, shown, ended>>

\* endWatch() abandons a turn that has not finished.
EndWatch_Nothing == UNCHANGED ended
EndWatch ==
    ended' = IF ended[rendering] = NoTurn
             THEN [ended EXCEPT ![rendering] = Abandoned] ELSE ended

\* onTerminate and onClose.  "dropped": before the turn was over.
StreamEnds ==
    /\ feed.open
    /\ feed' = Closed
    /\ EndWatch
    /\ mishaps' = IF ended[rendering] = NoTurn THEN mishaps \cup {"dropped"} ELSE mishaps
    /\ UNCHANGED <<log, queue, pc, position, rendering, bound, shown, breaks>>

----------------------------------------------------------------------------
Daemon == TurnStarts \/ \E t \in Turns : TurnStreams(t) \/ TurnEnds(t)

Next ==
    \/ Daemon \/ Deliver \/ Reconnects \/ StreamEnds
    \/ \E t \in Turns : Watch(t) \/ OpenLands(t) \/ SteerLands(t)

Spec == Init /\ [][Next]_vars

\* Awaited calls settle, the daemon runs and ends the turns it takes, and an open
\* stream delivers.  Each can happen only so often, so none waits for ever on the rest.
Proceeds ==
    \/ TurnStarts \/ Deliver
    \/ \E t \in Turns : TurnEnds(t) \/ OpenLands(t) \/ SteerLands(t)

FairSpec == Spec /\ WF_vars(Proceeds)

----------------------------------------------------------------------------
(* Properties *)

\* A turn is finished by its own ending, never by another turn's: "a new turn is
\* not finished by the previous turn's ending".
OwnEnding == \A t \in Turns : ended[t] \in {NoTurn, Abandoned, t}

\* So it is while every message waits for the turn before it and no stream is
\* lost, even if the daemon repeats the endings of finished turns, or frames of the
\* running one.
OwnEndingWhenCalm == mishaps \subseteq {"replayed"} => OwnEnding

\* The same, for a stream lost during a turn and nothing else.
OwnEndingAfterADrop == mishaps \subseteq {"dropped"} => OwnEnding

\* When nothing goes wrong, a renderer its own turn finished has applied that
\* turn's frames, every one of them, and no other turn's.
ShownBy(t) == {shown[k].id : k \in {j \in 1 .. Len(shown) : shown[j].by = t}}
WholeTurn ==
    mishaps = {} => \A t \in Turns : ended[t] = t => ShownBy(t) = FramesOf(t)

\* The daemon "replays only what this router has not already been given": while
\* it can use the positions, no frame is applied twice, by one renderer or by two,
\* and none out of order, whatever streams are lost and messages overlap.
RenderedOnce ==
    "replayed" \notin mishaps =>
      \A j, k \in 1 .. Len(shown) : j < k => shown[j].id < shown[k].id

\* A caller that awaits the completion of a turn the daemon took gets one, however
\* streams break and drop, unless the next message took the stream away first or
\* the replay repeated or skipped frames: again and again, nobody is waiting.
Waiting == {t \in Turns : pc[t] = "routed" /\ ended[t] = NoTurn}
EveryTurnSettles == []<>(Waiting = {} \/ mishaps \cap {"hurried", "replayed"} # {})
============================================================================
