------------------------------ MODULE Turn_proofs ------------------------------
(***************************************************************************)
(* What the hosted turns of the shell promise, for any number of turns,    *)
(* frames, model calls, pieces and tool calls, wherever a connection or a  *)
(* turn breaks, and any catch-up of the daemon.                            *)
(*                                                                         *)
(* The stream: while messages wait for one another, what a stream still    *)
(* has to bring is of the newest turn, or an ending its gate refuses.      *)
(* The frames: the texts of the messages add up to what was written,       *)
(* message by message, and what is not written yet is that of the current  *)
(* model call.                                                             *)
(***************************************************************************)
EXTENDS Shell, TLAPS

LEMMA ElementsOf ==
  ASSUME NEW S, NEW s \in Seq(S)
  PROVE  Len(s) \in Nat /\ \A k \in 1..Len(s) : s[k] \in S
  OBVIOUS

----------------------------------------------------------------------------
(* The stream. *)

\* Messages are sent in order, one at a time, and the newest has the renderer.
SentInOrder ==
    /\ \A t \in Stream!Turns : t < rendering => pc[t] = "routed"
    /\ \A t \in Stream!Turns : t > rendering => pc[t] = "unsent" /\ ended[t] = 0
    /\ rendering # 0 => pc[rendering] # "unsent"

\* While the daemon can use positions a stream goes on where the last one stopped, so
\* frames are applied in order.
ReadInOrder ==
    /\ feed.open => feed.next = position + 1
    /\ \A k \in 1..Len(shown) : shown[k].id \in 1..position
    /\ \A j, k \in 1..Len(shown) : j < k => shown[j].id < shown[k].id

\* Messages that wait for one another: the daemon runs the newest turn or none, and
\* each before it has ended.
OneTurnAtATime ==
    /\ \A t \in Stream!Turns : ended[t] \in {0, t}
    /\ \A t \in Stream!Turns : t < rendering => ended[t] = t
    /\ queue = <<>> \/ (queue = <<rendering>> /\ pc[rendering] = "routed")
    /\ \A i \in 1..Len(log) :
         log[i].turn <= rendering /\ (log[i].turn = rendering => pc[rendering] = "routed")
    /\ \A t \in Stream!Turns :
         ended[t] = t => \E i \in 1..Len(log) : log[i].turn = t /\ log[i].kind = "end"
    /\ queue # <<>> =>
         \A i \in 1..Len(log) : ~(log[i].turn = rendering /\ log[i].kind = "end")

\* So what an open stream still has to bring is of the newest turn, or an ending, and
\* the gate is bound to that turn if to any.
BringsTheNewest ==
    /\ feed.open => \A i \in feed.next..Len(log) : i > 0 =>
                        log[i].turn = rendering \/ log[i].kind = "end"
    /\ bound \in {0, rendering}

\* The frames of a turn: the ending last, and not first.
EndsLast ==
    \A i \in 1..Len(log) : log[i].kind = "end" =>
        /\ \A j \in (i + 1)..Len(log) : log[j].turn # log[i].turn
        /\ \E j \in 1..(i - 1) : log[j].turn = log[i].turn

\* Nothing went wrong: what was read was applied by the renderer of its turn, what was
\* not read is of the newest turn, and the gate is bound once a frame of that was read.
AllApplied ==
    /\ \A k \in 1..Len(shown) : log[shown[k].id].turn = shown[k].by
    /\ \A i \in 1..position : \E k \in 1..Len(shown) : shown[k].id = i
    /\ \A i \in (position + 1)..Len(log) : log[i].turn = rendering
    /\ rendering # 0 /\ ended[rendering] = rendering => position = Len(log)
    /\ (\E i \in 1..position : log[i].turn = rendering) => bound = rendering

StreamInv ==
    /\ Stream!TypeOK
    /\ feed.open => feed.next > 0 /\ rendering # 0 /\ pc[rendering] \in {"steering", "routed"}
    /\ SentInOrder
    /\ "replayed" \notin mishaps => ReadInOrder
    /\ mishaps \subseteq {"replayed"} => OneTurnAtATime /\ BringsTheNewest
    /\ mishaps = {} => EndsLast /\ AllApplied

\* A frame of the turn that runs, at the end of the log.
Emitted(t, kind) ==
    /\ queue # <<>> /\ t = Head(queue) /\ t \in Stream!Turns /\ kind \in Stream!Kinds
    /\ log' \in Seq(Stream!Frames) /\ Len(log') = Len(log) + 1
    /\ \A i \in 1..Len(log) : log'[i] = log[i]
    /\ log'[Len(log) + 1].turn = t /\ log'[Len(log) + 1].kind = kind
    /\ kind = "end" => queue' = Tail(queue) /\ \E i \in 1..Len(log) : log[i].turn = t
    /\ kind # "end" => queue' = queue
    /\ UNCHANGED <<pc, feed, position, rendering, bound, shown, ended, breaks, mishaps>>

LEMMA DaemonEmits ==
  ASSUME Stream!TypeOK, Stream!Daemon
  PROVE  \E t \in Stream!Turns, kind \in Stream!Kinds : Emitted(t, kind)
<1>1. log \in Seq(Stream!Frames) /\ queue \in Seq(Stream!Turns) /\ Len(log) \in Nat
  BY DEF Stream!TypeOK
<1>2. ASSUME NEW t \in Stream!Turns, NEW kind \in Stream!Kinds, Stream!Emit(t, kind)
      PROVE  /\ log' \in Seq(Stream!Frames) /\ Len(log') = Len(log) + 1
             /\ \A i \in 1..Len(log) : log'[i] = log[i]
             /\ log'[Len(log) + 1].turn = t /\ log'[Len(log) + 1].kind = kind
  <2>. DEFINE new == [turn |-> t, kind |-> kind]
  <2>1. new \in Stream!Frames /\ new.turn = t /\ new.kind = kind
    BY DEF Stream!Frames
  <2>2. log' = Append(log, new)
    BY <1>2 DEF Stream!Emit
  <2>. HIDE DEF new
  <2>. QED  BY <1>1, <2>1, <2>2
<1>3. CASE Stream!TurnStarts
  <2>1. queue # <<>> /\ Head(queue) \in Stream!Turns
    BY <1>1, <1>3 DEF Stream!TurnStarts
  <2>2. "start" \in Stream!Kinds /\ Stream!Emit(Head(queue), "start")
    BY <1>3 DEF Stream!TurnStarts, Stream!Kinds
  <2>3. Emitted(Head(queue), "start")
    BY <1>2, <1>3, <2>1, <2>2 DEF Stream!TurnStarts, Emitted
  <2>. QED  BY <2>1, <2>2, <2>3
<1>4. ASSUME NEW t \in Stream!Turns, Stream!TurnStreams(t)
      PROVE  Emitted(t, "text")
  <2>1. "text" \in Stream!Kinds /\ Stream!Emit(t, "text")
    BY <1>4 DEF Stream!TurnStreams, Stream!Kinds
  <2>. QED  BY <1>2, <1>4, <2>1 DEF Stream!TurnStreams, Stream!Running, Emitted
<1>5. ASSUME NEW t \in Stream!Turns, Stream!TurnEnds(t)
      PROVE  Emitted(t, "end")
  <2>1. "end" \in Stream!Kinds /\ Stream!Emit(t, "end")
    BY <1>5 DEF Stream!TurnEnds, Stream!Kinds
  <2>2. \E i \in 1..Len(log) : log[i].turn = t
    BY <1>5 DEF Stream!TurnEnds, Stream!Running, Stream!FramesLike, Stream!FramesOf
  <2>. QED  BY <1>2, <1>5, <2>1, <2>2 DEF Stream!TurnEnds, Stream!Running, Emitted
<1>. QED  BY <1>3, <1>4, <1>5 DEF Stream!Daemon, Stream!Kinds

\* A stream that opens, or opens again.
Opened ==
    /\ feed' \in [open : BOOLEAN, next : Nat] /\ feed'.open = TRUE /\ feed'.next > 0
    /\ "replayed" \notin mishaps' => feed'.next = position + 1
    /\ mishaps \subseteq mishaps' /\ mishaps' \subseteq mishaps \cup {"replayed", "rerun"}
    /\ "rerun" \notin mishaps' => \A i \in feed'.next..Len(log) : ~Stream!Reruns(log[i])
    /\ UNCHANGED <<log, queue, position, rendering, bound, shown, ended>>

LEMMA FeedOpens ==
  ASSUME Stream!TypeOK, Stream!OpensFeed,
         UNCHANGED <<log, queue, position, rendering, bound, shown, ended>>
  PROVE  Opened
<1>1. Len(log) \in Nat /\ position \in Nat /\ CatchUp \in Nat
  BY RoomAssumption DEF Stream!TypeOK
<1>2. position + 1 \in Nat \ {0} /\ Stream!TailStart \in Nat \ {0}
  BY <1>1 DEF Stream!TailStart
<1>3. ASSUME NEW first \in Nat \ {0}, NEW replay \in {{}, {"replayed"}},
             Stream!Opens(first, replay), replay = {} => first = position + 1
      PROVE  Opened
  BY <1>3 DEF Stream!Opens, Opened
<1>. QED  BY <1>2, <1>3 DEF Stream!OpensFeed

\* A frame that is read: refused by the gate, or passed and applied unless the renderer
\* is done.
Read(i) ==
    /\ feed.open /\ i = feed.next /\ i <= Len(log)
    /\ feed' \in [open : BOOLEAN, next : Nat] /\ feed'.open = TRUE /\ feed'.next = i + 1
    /\ position' = i
    /\ UNCHANGED <<log, queue, pc, rendering, breaks, mishaps>>

Refused(i) == log[i].kind = "end" /\ log[i].turn # bound /\ UNCHANGED <<bound, shown, ended>>

Passed(i) ==
    /\ log[i].kind = "end" => log[i].turn = bound
    /\ bound' = log[i].turn

Applied(i) ==
    /\ ended[rendering] = 0
    /\ shown' \in Seq([by : Stream!Turns, id : Nat]) /\ Len(shown') = Len(shown) + 1
    /\ \A k \in 1..Len(shown) : shown'[k] = shown[k]
    /\ shown'[Len(shown) + 1].by = rendering /\ shown'[Len(shown) + 1].id = i
    /\ ended' \in [Stream!Turns -> Stream!Turns \cup {Stream!NoTurn, Stream!Abandoned}]
    /\ \A t \in Stream!Turns :
         ended'[t] = IF t = rendering /\ log[i].kind = "end" THEN log[i].turn ELSE ended[t]

LEMMA FramesAreRead ==
  ASSUME Stream!TypeOK, Stream!Deliver, feed.open => feed.next > 0 /\ rendering # 0
  PROVE  /\ Read(feed.next) /\ log[feed.next].turn \in Stream!Turns
         /\ \/ Refused(feed.next)
            \/ Passed(feed.next) /\ ended[rendering] # 0 /\ UNCHANGED <<shown, ended>>
            \/ Passed(feed.next) /\ Applied(feed.next)
<1>. DEFINE i == feed.next
<1>1. feed \in [open : BOOLEAN, next : Nat] /\ i \in Nat /\ rendering \in Stream!Turns
  BY DEF Stream!TypeOK, Stream!Deliver, Stream!NoTurn
<1>2. feed' \in [open : BOOLEAN, next : Nat] /\ feed'.open = TRUE /\ feed'.next = i + 1
  <2>1. feed' = [feed EXCEPT !.next = @ + 1] /\ feed.open = TRUE /\ i + 1 \in Nat
    BY <1>1 DEF Stream!Deliver
  <2>. QED  BY <1>1, <2>1
<1>3. Read(i)
  BY <1>2 DEF Stream!Deliver, Stream!Remembered, Read
<1>0. log[i].turn \in Stream!Turns
  <2>1. feed.open /\ i \in 1..Len(log) /\ log \in Seq(Stream!Frames)
    BY <1>1 DEF Stream!Deliver, Stream!TypeOK
  <2>2. log[i] \in Stream!Frames
    BY <2>1
  <2>. QED  BY <2>2 DEF Stream!Frames
<1>4. CASE ~Stream!Accepts(log[i])
  BY <1>0, <1>3, <1>4 DEF Stream!Deliver, Stream!Accepts, Refused
<1>5. CASE Stream!Accepts(log[i])
  <2>1. Passed(i) /\ Stream!Apply(i)
    BY <1>5 DEF Stream!Deliver, Stream!Accepts, Passed
  <2>2. CASE ended[rendering] # 0
    BY <1>0, <1>3, <2>1, <2>2 DEF Stream!Apply, Stream!NoTurn
  <2>3. CASE ended[rendering] = 0
    <3>. DEFINE new == [by |-> rendering, id |-> i]
    <3>1. /\ shown' = Append(shown, new)
          /\ ended' = IF log[i].kind = "end" THEN [ended EXCEPT ![rendering] = log[i].turn]
                      ELSE ended
      BY <2>1, <2>3 DEF Stream!Apply, Stream!NoTurn
    <3>2. new \in [by : Stream!Turns, id : Nat] /\ new.by = rendering /\ new.id = i
      BY <1>1
    <3>3. shown \in Seq([by : Stream!Turns, id : Nat]) /\ Len(shown) \in Nat
      BY DEF Stream!TypeOK
    <3>. HIDE DEF new
    <3>4. /\ shown' \in Seq([by : Stream!Turns, id : Nat]) /\ Len(shown') = Len(shown) + 1
          /\ \A k \in 1..Len(shown) : shown'[k] = shown[k]
          /\ shown'[Len(shown) + 1] = new
      BY <3>1, <3>2, <3>3
    <3>6. ended' \in [Stream!Turns -> Stream!Turns \cup {Stream!NoTurn, Stream!Abandoned}]
      BY <1>0, <1>1, <3>1 DEF Stream!TypeOK
    <3>7. \A t \in Stream!Turns :
            ended'[t] = IF t = rendering /\ log[i].kind = "end" THEN log[i].turn ELSE ended[t]
      BY <1>1, <3>1 DEF Stream!TypeOK
    <3>. QED  BY <1>0, <1>3, <2>1, <2>3, <3>2, <3>4, <3>6, <3>7 DEF Applied
  <2>. QED  BY <2>1, <2>2, <2>3
<1>. QED  BY <1>3, <1>4, <1>5

LEMMA StreamSteps ==
  ASSUME Stream!TypeOK, [Stream!Next]_(Stream!vars)
  PROVE  \/ \E t \in Stream!Turns, kind \in Stream!Kinds : Emitted(t, kind)
         \/ Stream!Deliver \/ Stream!Reconnects \/ Stream!StreamEnds
         \/ \E t \in Stream!Turns : Stream!Watch(t) \/ Stream!OpenLands(t) \/ Stream!SteerLands(t)
         \/ UNCHANGED Stream!vars
  BY DaemonEmits DEF Stream!Next

LEMMA StreamInit == Stream!Init => StreamInv
<1>. SUFFICES ASSUME Stream!Init
              PROVE  StreamInv
  OBVIOUS
<1>1. /\ log = <<>> /\ queue = <<>> /\ shown = <<>> /\ mishaps = {}
      /\ feed = [open |-> FALSE, next |-> 0] /\ position = 0
      /\ rendering = 0 /\ bound = 0 /\ breaks = 0
  BY DEF Stream!Init, Stream!Closed, Stream!NoTurn
<1>2. \A t \in Stream!Turns : t > 0 /\ pc[t] = "unsent" /\ ended[t] = 0
  BY RoomAssumption DEF Stream!Init, Stream!NoTurn, Stream!Turns
<1>3. feed \in [open : BOOLEAN, next : Nat] /\ feed.open = FALSE
  BY <1>1
<1>4. Stream!TypeOK
  BY <1>1, <1>3, RoomAssumption DEF Stream!Init, Stream!TypeOK, Stream!NoTurn
<1>. QED
  BY <1>1, <1>2, <1>3, <1>4
  DEF StreamInv, SentInOrder, ReadInOrder, OneTurnAtATime, BringsTheNewest, EndsLast,
      AllApplied,
      Stream!Turns

\* The types, and who an open stream is for.
LEMMA StreamTypePreserved ==
  ASSUME StreamInv, [Stream!Next]_(Stream!vars)
  PROVE  Stream!TypeOK'
<1>. USE DEF StreamInv, Stream!TypeOK
<1>1. ASSUME NEW t \in Stream!Turns, NEW kind \in Stream!Kinds, Emitted(t, kind)
      PROVE  Stream!TypeOK'
  <2>1. queue' \in Seq(Stream!Turns)
    <3>1. queue' = queue \/ (queue # <<>> /\ queue' = Tail(queue))
      BY <1>1 DEF Emitted
    <3>2. queue # <<>> => Tail(queue) \in Seq(Stream!Turns)
      OBVIOUS
    <3>. QED  BY <3>1, <3>2
  <2>2. position' \in 0..Len(log')
    BY <1>1 DEF Emitted
  <2>. QED  BY <1>1, <2>1, <2>2 DEF Emitted
<1>2. CASE Stream!Deliver
  <2>1. Read(feed.next) /\ log[feed.next].turn \in Stream!Turns
    BY <1>2, FramesAreRead
  <2>2. position' \in 0..Len(log')
    BY <2>1 DEF Read
  <2>3. bound' \in Stream!Turns \cup {Stream!NoTurn}
    BY <1>2, <2>1, FramesAreRead DEF Refused, Passed
  <2>4. /\ shown' \in Seq([by : Stream!Turns, id : Nat])
        /\ ended' \in [Stream!Turns -> Stream!Turns \cup {Stream!NoTurn, Stream!Abandoned}]
    BY <1>2, FramesAreRead DEF Refused, Applied
  <2>. QED  BY <2>1, <2>2, <2>3, <2>4 DEF Read
<1>3. CASE Stream!Reconnects
  <2>1. Opened
    BY <1>3, FeedOpens DEF Stream!Reconnects
  <2>2. breaks' \in 0..MaxBreaks
    BY <1>3, RoomAssumption DEF Stream!Reconnects
  <2>. QED  BY <1>3, <2>1, <2>2 DEF Opened, Stream!Reconnects
<1>4. CASE Stream!StreamEnds
  <2>1. feed' \in [open : BOOLEAN, next : Nat]
    BY <1>4 DEF Stream!StreamEnds, Stream!Closed
  <2>2. ended' \in [Stream!Turns -> Stream!Turns \cup {Stream!NoTurn, Stream!Abandoned}]
    BY <1>4 DEF Stream!StreamEnds, Stream!EndWatch
  <2>. QED  BY <1>4, <2>1, <2>2 DEF Stream!StreamEnds
<1>5. ASSUME NEW t \in Stream!Turns, Stream!Watch(t)
      PROVE  Stream!TypeOK'
  <2>1. feed' \in [open : BOOLEAN, next : Nat]
    BY <1>5 DEF Stream!Watch, Stream!Closed
  <2>. QED  BY <1>5, <2>1 DEF Stream!Watch, Stream!FreshGate
<1>6. ASSUME NEW t \in Stream!Turns, Stream!OpenLands(t)
      PROVE  Stream!TypeOK'
  <2>1. Opened
    BY <1>6, FeedOpens DEF Stream!OpenLands
  <2>. QED  BY <1>6, <2>1 DEF Opened, Stream!OpenLands
<1>7. ASSUME NEW t \in Stream!Turns, Stream!SteerLands(t)
      PROVE  Stream!TypeOK'
  BY <1>7 DEF Stream!SteerLands
<1>8. CASE UNCHANGED Stream!vars
  BY <1>8 DEF Stream!vars
<1>. QED  BY <1>1, <1>2, <1>3, <1>4, <1>5, <1>6, <1>7, <1>8, StreamSteps

StreamIsOwned ==
    feed.open => feed.next > 0 /\ rendering # 0 /\ pc[rendering] \in {"steering", "routed"}

\* A message is sent only when every one before it was handed over, so it is the next.
LEMMA SentNext ==
  ASSUME StreamInv, NEW t \in Stream!Turns, Stream!Watch(t)
  PROVE  t = rendering + 1
<1>1. rendering \in Nat /\ rendering <= NumTurns /\ t \in 1..NumTurns /\ NumTurns \in Nat
  BY RoomAssumption DEF StreamInv, Stream!TypeOK, Stream!Turns, Stream!NoTurn
<1>2. pc[t] = "unsent" /\ \A u \in 1..(t - 1) : pc[u] = "routed"
  BY <1>1 DEF Stream!Watch, Stream!MaySend
<1>3. ~(t < rendering) /\ t # rendering
  BY <1>1, <1>2 DEF StreamInv, SentInOrder, Stream!Turns
<1>4. ~(t > rendering + 1)
  <2>. SUFFICES ASSUME t > rendering + 1
                PROVE  FALSE
    OBVIOUS
  <2>1. rendering + 1 \in 1..(t - 1) /\ rendering + 1 \in Stream!Turns
    BY <1>1 DEF Stream!Turns
  <2>. QED  BY <1>1, <1>2, <2>1 DEF StreamInv, SentInOrder
<1>. QED  BY <1>1, <1>3, <1>4

LEMMA SentStaysInOrder ==
  ASSUME StreamInv, [Stream!Next]_(Stream!vars)
  PROVE  SentInOrder' /\ StreamIsOwned'
<1>. USE DEF StreamInv, Stream!TypeOK, SentInOrder, StreamIsOwned, Stream!NoTurn
<1>1. ASSUME NEW t \in Stream!Turns, NEW kind \in Stream!Kinds, Emitted(t, kind)
      PROVE  SentInOrder' /\ StreamIsOwned'
  BY <1>1 DEF Emitted
<1>2. CASE Stream!Deliver
  <2>1. Read(feed.next) /\ feed.next \in Nat
    BY <1>2, FramesAreRead
  <2>2. \A t \in Stream!Turns : t # rendering => ended'[t] = ended[t]
    BY <1>2, FramesAreRead DEF Refused, Applied
  <2>3. \A t \in Stream!Turns : t > rendering => t # rendering
    BY DEF Stream!Turns
  <2>. QED  BY <2>1, <2>2, <2>3 DEF Read
<1>3. CASE Stream!Reconnects
  <2>1. Opened
    BY <1>3, FeedOpens DEF Stream!Reconnects
  <2>. QED  BY <1>3, <2>1 DEF Opened, Stream!Reconnects
<1>4. CASE Stream!StreamEnds
  <2>1. \A t \in Stream!Turns : t > rendering => t # rendering
    BY DEF Stream!Turns
  <2>. QED  BY <1>4, <2>1 DEF Stream!StreamEnds, Stream!EndWatch, Stream!Closed
<1>5. ASSUME NEW t \in Stream!Turns, Stream!Watch(t)
      PROVE  SentInOrder' /\ StreamIsOwned'
  <2>1. t = rendering + 1 /\ t # 0
    BY <1>5, SentNext DEF Stream!Turns
  <2>2. rendering' = t /\ ended' = ended /\ pc' = [pc EXCEPT ![t] = "opening"]
    BY <1>5 DEF Stream!Watch
  <2>3. \A u \in Stream!Turns : u < t => pc[u] = "routed" /\ u # t
    BY <1>5 DEF Stream!Watch, Stream!MaySend, Stream!Turns
  <2>4. \A u \in Stream!Turns : u > t => u > rendering /\ u # t
    BY <2>1 DEF Stream!Turns
  <2>5. feed'.open = FALSE
    BY <1>5 DEF Stream!Watch, Stream!Closed
  <2>. QED  BY <2>1, <2>2, <2>3, <2>4, <2>5
<1>6. ASSUME NEW t \in Stream!Turns, Stream!OpenLands(t) \/ Stream!SteerLands(t)
      PROVE  SentInOrder' /\ StreamIsOwned'
  <2>1. t = rendering
    <3>1. pc[t] # "unsent" /\ pc[t] # "routed"
      BY <1>6 DEF Stream!OpenLands, Stream!SteerLands
    <3>2. t < rendering \/ t = rendering \/ t > rendering
      BY DEF Stream!Turns
    <3>. QED  BY <3>1, <3>2
  <2>2. CASE Stream!OpenLands(t)
    <3>1. Opened
      BY <2>2, FeedOpens DEF Stream!OpenLands
    <3>2. \A u \in Stream!Turns : u < t \/ u > t => pc'[u] = pc[u]
      BY <2>2 DEF Stream!OpenLands, Stream!Turns
    <3>3. pc'[t] = "steering" /\ t # 0 /\ rendering' = rendering
      BY <2>2, <3>1 DEF Opened, Stream!OpenLands, Stream!Turns
    <3>4. ended' = ended /\ feed'.next > 0
      BY <3>1 DEF Opened
    <3>. QED  BY <2>1, <3>2, <3>3, <3>4
  <2>3. CASE Stream!SteerLands(t)
    <3>1. \A u \in Stream!Turns : u < t \/ u > t => pc'[u] = pc[u]
      BY <2>3 DEF Stream!SteerLands, Stream!Turns
    <3>. QED  BY <2>1, <2>3, <3>1 DEF Stream!SteerLands
  <2>. QED  BY <1>6, <2>2, <2>3
<1>7. CASE UNCHANGED Stream!vars
  BY <1>7 DEF Stream!vars
<1>. QED  BY <1>1, <1>2, <1>3, <1>4, <1>5, <1>6, <1>7, StreamSteps

LEMMA StaysReadInOrder ==
  ASSUME StreamInv, [Stream!Next]_(Stream!vars), "replayed" \notin mishaps'
  PROVE  ReadInOrder'
<1>. USE DEF StreamInv, Stream!TypeOK, ReadInOrder
<1>0. Len(shown) \in Nat /\ position \in Nat /\ \A k \in 1..Len(shown) : shown[k].id \in Nat
  <2>1. shown \in Seq([by : Stream!Turns, id : Nat]) /\ position \in 0..Len(log)
    OBVIOUS
  <2>2. Len(shown) \in Nat /\ \A k \in 1..Len(shown) : shown[k] \in [by : Stream!Turns, id : Nat]
    BY <2>1, ElementsOf
  <2>. QED  BY <2>1, <2>2
<1>1. ASSUME NEW t \in Stream!Turns, NEW kind \in Stream!Kinds, Emitted(t, kind)
      PROVE  ReadInOrder'
  BY <1>1 DEF Emitted
<1>2. CASE Stream!Deliver
  <2>1. Read(feed.next) /\ feed.next = position + 1 /\ ReadInOrder
    BY <1>2, FramesAreRead DEF Read
  <2>2. CASE UNCHANGED shown
    <3>1. position' = position + 1 /\ feed'.next = position' + 1
      BY <2>1 DEF Read
    <3>2. \A k \in 1..Len(shown) : shown[k].id \in 1..position'
      BY <1>0, <2>1, <3>1
    <3>. QED  BY <2>1, <2>2, <3>1, <3>2
  <2>3. CASE Applied(feed.next)
    <3>1. 1..Len(shown') = 1..Len(shown) \cup {Len(shown) + 1}
      BY <1>0, <2>3 DEF Applied
    <3>2. \A k \in 1..Len(shown) : shown'[k] = shown[k] /\ shown'[k].id < position'
      <4>1. position' = position + 1
        BY <2>1 DEF Read
      <4>2. \A k \in 1..Len(shown) : shown[k].id < position'
        BY <1>0, <2>1, <4>1
      <4>. QED  BY <2>3, <4>2 DEF Applied
    <3>3. shown'[Len(shown) + 1].id = position' /\ position' \in Nat
      BY <1>0, <2>1, <2>3 DEF Applied, Read
    <3>4. feed'.next = position' + 1
      BY <2>1 DEF Read
    <3>5. \A k \in 1..Len(shown') : shown'[k].id \in 1..position'
      <4>1. position' = position + 1 /\ position' \in 1..position'
        BY <1>0, <2>1 DEF Read
      <4>2. 1..position \subseteq 1..position'
        BY <1>0, <4>1
      <4>3. \A k \in 1..Len(shown) : shown[k].id \in 1..position /\ shown'[k] = shown[k]
        BY <2>1, <3>2
      <4>4. \A k \in 1..Len(shown) : shown'[k].id \in 1..position'
        BY <4>2, <4>3
      <4>. QED  BY <3>1, <3>3, <4>1, <4>4
    <3>6. \A j, k \in 1..Len(shown) : j < k => shown'[j].id < shown'[k].id
      BY <2>1, <3>2
    <3>7. \A j, k \in 1..Len(shown') : j < k => shown'[j].id < shown'[k].id
      <4>. SUFFICES ASSUME NEW j \in 1..Len(shown'), NEW k \in 1..Len(shown'), j < k
                    PROVE  shown'[j].id < shown'[k].id
        OBVIOUS
      <4>1. j \in 1..Len(shown)
        <5>1. Len(shown') = Len(shown) + 1
          BY <2>3 DEF Applied
        <5>2. ASSUME NEW n \in Nat, NEW a \in 1..(n + 1), NEW b \in 1..(n + 1), a < b
              PROVE  a \in 1..n
          BY <5>2
        <5>. QED  BY <1>0, <5>1, <5>2
      <4>. QED  BY <3>1, <3>2, <3>3, <3>6, <4>1
    <3>. QED  BY <3>4, <3>5, <3>7
  <2>. QED  BY <1>2, <2>2, <2>3, FramesAreRead DEF Refused
<1>3. ASSUME Opened
      PROVE  ReadInOrder'
  BY <1>3 DEF Opened
<1>4. CASE Stream!StreamEnds
  BY <1>4 DEF Stream!StreamEnds, Stream!Closed
<1>5. ASSUME NEW t \in Stream!Turns, Stream!Watch(t)
      PROVE  ReadInOrder'
  BY <1>5 DEF Stream!Watch, Stream!Closed
<1>6. ASSUME NEW t \in Stream!Turns, Stream!SteerLands(t)
      PROVE  ReadInOrder'
  BY <1>6 DEF Stream!SteerLands
<1>7. CASE UNCHANGED Stream!vars
  BY <1>7 DEF Stream!vars
<1>8. CASE Stream!Reconnects
  BY <1>3, <1>8, FeedOpens DEF Stream!Reconnects
<1>9. ASSUME NEW t \in Stream!Turns, Stream!OpenLands(t)
      PROVE  ReadInOrder'
  BY <1>3, <1>9, FeedOpens DEF Stream!OpenLands
<1>. QED  BY <1>1, <1>2, <1>4, <1>5, <1>6, <1>7, <1>8, <1>9, StreamSteps

\* While messages wait for one another, what the daemon emits is of the newest turn.
LEMMA NewestEmits ==
  ASSUME StreamInv, OneTurnAtATime, NEW t \in Stream!Turns, NEW kind \in Stream!Kinds,
         Emitted(t, kind)
  PROVE  /\ t = rendering /\ pc[rendering] = "routed" /\ ended[rendering] # rendering
         /\ queue' = IF kind = "end" THEN <<>> ELSE queue
         /\ \A i \in 1..Len(log) : ~(log[i].turn = rendering /\ log[i].kind = "end")
<1>1. queue = <<rendering>> /\ pc[rendering] = "routed"
  BY DEF Emitted, OneTurnAtATime
<1>2. t = rendering /\ Tail(queue) = <<>>
  BY <1>1 DEF Emitted
<1>3. \A i \in 1..Len(log) : ~(log[i].turn = rendering /\ log[i].kind = "end")
  BY <1>1 DEF OneTurnAtATime
<1>4. ended[rendering] # rendering
  BY <1>2, <1>3 DEF OneTurnAtATime
<1>. QED  BY <1>1, <1>2, <1>3, <1>4 DEF Emitted

LEMMA StaysOneTurnAtATime ==
  ASSUME StreamInv, [Stream!Next]_(Stream!vars), mishaps' \subseteq {"replayed"}
  PROVE  OneTurnAtATime'
<1>. USE DEF StreamInv, Stream!TypeOK
<1>0. Len(log) \in Nat /\ rendering \in Nat /\ \A t \in Stream!Turns : t \in Nat /\ t # 0
  BY DEF Stream!Turns, Stream!NoTurn
<1>1. ASSUME NEW t \in Stream!Turns, NEW kind \in Stream!Kinds, Emitted(t, kind)
      PROVE  OneTurnAtATime'
  <2>1. OneTurnAtATime
    BY <1>1 DEF Emitted
  <2>2. /\ t = rendering /\ pc[rendering] = "routed" /\ ended[rendering] # rendering
        /\ queue' = IF kind = "end" THEN <<>> ELSE queue
        /\ \A i \in 1..Len(log) : ~(log[i].turn = rendering /\ log[i].kind = "end")
    BY <1>1, <2>1, NewestEmits
  <2>3. /\ 1..Len(log') = 1..Len(log) \cup {Len(log) + 1}
        /\ \A i \in 1..Len(log) : log'[i] = log[i]
        /\ log'[Len(log) + 1].turn = rendering /\ log'[Len(log) + 1].kind = kind
        /\ UNCHANGED <<pc, rendering, ended>>
    BY <1>0, <1>1, <2>2 DEF Emitted
  <2>4. queue' = <<>> \/ (queue' = <<rendering>> /\ pc[rendering] = "routed")
    BY <2>1, <2>2 DEF OneTurnAtATime
  <2>5. \A i \in 1..Len(log') : log'[i].turn <= rendering
    <3>1. \A i \in 1..Len(log) : log'[i].turn <= rendering
      BY <2>1, <2>3 DEF OneTurnAtATime
    <3>2. rendering <= rendering
      BY <1>0
    <3>. QED  BY <2>3, <3>1, <3>2
  <2>6. \A u \in Stream!Turns :
          ended[u] = u => \E i \in 1..Len(log') : log'[i].turn = u /\ log'[i].kind = "end"
    <3>. SUFFICES ASSUME NEW u \in Stream!Turns, ended[u] = u
                  PROVE  \E i \in 1..Len(log') : log'[i].turn = u /\ log'[i].kind = "end"
      OBVIOUS
    <3>1. PICK i \in 1..Len(log) : log[i].turn = u /\ log[i].kind = "end"
      BY <2>1 DEF OneTurnAtATime
    <3>. QED  BY <2>3, <3>1
  <2>7. queue' # <<>> =>
          \A i \in 1..Len(log') : ~(log'[i].turn = rendering /\ log'[i].kind = "end")
    BY <2>2, <2>3
  <2>. QED  BY <2>1, <2>2, <2>3, <2>4, <2>5, <2>6, <2>7 DEF OneTurnAtATime
<1>2. CASE Stream!Deliver
  <2>. DEFINE i == feed.next
  <2>1. Read(i) /\ OneTurnAtATime /\ BringsTheNewest
    BY <1>2, FramesAreRead DEF Read
  <2>2. CASE UNCHANGED ended
    <3>1. UNCHANGED <<log, queue, pc, rendering>>
      BY <2>1 DEF Read
    <3>. QED  BY <2>1, <2>2, <3>1 DEF OneTurnAtATime
  <2>3. CASE Passed(i) /\ Applied(i)
    <3>1. i \in 1..Len(log) /\ rendering # 0
      BY <1>0, <2>1 DEF Read
    <3>2. log[i].kind = "end" => log[i].turn = rendering
      BY <1>2, <2>1, <2>3, <1>0, FramesAreRead DEF Passed, BringsTheNewest
    <3>3. \A t \in Stream!Turns :
            ended'[t] = IF t = rendering /\ log[i].kind = "end" THEN t ELSE ended[t]
      BY <2>3, <3>2 DEF Applied
    <3>4. UNCHANGED <<log, queue, pc, rendering>>
      BY <2>1 DEF Read
    <3>. HIDE DEF i
    <3>. QED  BY <2>1, <3>1, <3>2, <3>3, <3>4 DEF OneTurnAtATime
  <2>. QED  BY <1>2, <2>2, <2>3, FramesAreRead DEF Refused
<1>3. ASSUME Opened, \A u \in Stream!Turns : u < rendering \/ u > rendering => pc'[u] = pc[u],
             pc[rendering] = "routed" => pc'[rendering] = "routed"
      PROVE  OneTurnAtATime'
  <2>1. OneTurnAtATime
    BY <1>3 DEF Opened
  <2>. QED  BY <1>3, <2>1 DEF Opened, OneTurnAtATime
<1>4. CASE Stream!StreamEnds
  <2>1. ended' = ended /\ mishaps' = mishaps
    BY <1>4 DEF Stream!StreamEnds, Stream!EndWatch, Stream!NoTurn
  <2>. QED  BY <1>4, <2>1 DEF Stream!StreamEnds, OneTurnAtATime
<1>5. ASSUME NEW t \in Stream!Turns, Stream!Watch(t)
      PROVE  OneTurnAtATime'
  <2>1. t = rendering + 1
    BY <1>5, SentNext
  <2>2. mishaps' = mishaps /\ \A u \in 1..(t - 1) : ended[u] # 0
    BY <1>5 DEF Stream!Watch, Stream!NoTurn
  <2>3. OneTurnAtATime
    BY <2>2
  <2>4. \A u \in Stream!Turns : u < t => ended[u] = u
    BY <2>1, <2>2, <2>3 DEF OneTurnAtATime, Stream!Turns
  <2>5. queue = <<>>
    <3>1. CASE rendering = 0
      <4>1. ASSUME queue = <<rendering>>
            PROVE  FALSE
        <5>1. queue[1] = 0 /\ Len(queue) = 1
          BY <3>1, <4>1
        <5>2. queue \in Seq(Stream!Turns)
          OBVIOUS
        <5>3. queue[1] \in Stream!Turns
          <6>1. 1 \in 1..Len(queue)
            BY <5>1
          <6>. QED  BY <5>2, <6>1, ElementsOf
        <5>. QED  BY <1>0, <5>1, <5>3
      <4>. QED  BY <2>3, <4>1 DEF OneTurnAtATime
    <3>2. CASE rendering # 0
      <4>1. rendering \in Stream!Turns /\ ended[rendering] = rendering
        BY <1>0, <2>1, <2>4, <3>2 DEF Stream!NoTurn
      <4>. QED  BY <2>3, <4>1 DEF OneTurnAtATime
    <3>. QED  BY <3>1, <3>2
  <2>6. rendering' = t /\ UNCHANGED <<log, queue, ended>>
    BY <1>5 DEF Stream!Watch
  <2>7. \A i \in 1..Len(log) : log[i].turn < t
    <3>1. \A i \in 1..Len(log) : log[i] \in Stream!Frames
      OBVIOUS
    <3>2. \A i \in 1..Len(log) : log[i].turn \in Nat
      BY <1>0, <3>1 DEF Stream!Frames
    <3>. QED  BY <1>0, <2>1, <2>3, <3>2 DEF OneTurnAtATime
  <2>8. \A i \in 1..Len(log) : log[i].turn <= t /\ log[i].turn # t
    <3>1. \A i \in 1..Len(log) : log[i] \in Stream!Frames
      OBVIOUS
    <3>2. \A i \in 1..Len(log) : log[i].turn \in Nat
      BY <1>0, <3>1 DEF Stream!Frames
    <3>. QED  BY <1>0, <2>7, <3>2
  <2>. QED  BY <2>3, <2>4, <2>5, <2>6, <2>8 DEF OneTurnAtATime
<1>6. ASSUME NEW t \in Stream!Turns, Stream!SteerLands(t)
      PROVE  OneTurnAtATime'
  <2>1. t = rendering
    <3>1. pc[t] # "unsent" /\ pc[t] # "routed"
      BY <1>6 DEF Stream!SteerLands
    <3>. QED  BY <1>0, <3>1 DEF SentInOrder
  <2>2. OneTurnAtATime /\ pc[t] # "routed"
    BY <1>6 DEF Stream!SteerLands
  <2>3. queue = <<>> /\ \A i \in 1..Len(log) : log[i].turn # rendering
    BY <2>1, <2>2 DEF OneTurnAtATime
  <2>4. /\ queue' = <<rendering>> /\ pc'[rendering] = "routed"
        /\ UNCHANGED <<log, rendering, ended>>
    BY <1>6, <2>1, <2>3 DEF Stream!SteerLands
  <2>. QED  BY <2>2, <2>3, <2>4 DEF OneTurnAtATime
<1>7. CASE UNCHANGED Stream!vars
  BY <1>7 DEF Stream!vars, OneTurnAtATime
<1>8. CASE Stream!Reconnects
  <2>1. Opened
    BY <1>8, FeedOpens DEF Stream!Reconnects
  <2>. QED  BY <1>3, <1>8, <2>1 DEF Stream!Reconnects
<1>9. ASSUME NEW t \in Stream!Turns, Stream!OpenLands(t)
      PROVE  OneTurnAtATime'
  <2>1. Opened
    BY <1>9, FeedOpens DEF Stream!OpenLands
  <2>2. t = rendering
    <3>1. pc[t] # "unsent" /\ pc[t] # "routed"
      BY <1>9 DEF Stream!OpenLands
    <3>. QED  BY <1>0, <3>1 DEF SentInOrder
  <2>3. \A u \in Stream!Turns : u < t \/ u > t => pc'[u] = pc[u]
    BY <1>9 DEF Stream!OpenLands, Stream!Turns
  <2>4. pc[t] # "routed"
    BY <1>9 DEF Stream!OpenLands
  <2>. QED  BY <1>3, <2>1, <2>2, <2>3, <2>4
<1>. QED  BY <1>1, <1>2, <1>4, <1>5, <1>6, <1>7, <1>8, <1>9, StreamSteps

LEMMA StaysTheNewest ==
  ASSUME StreamInv, [Stream!Next]_(Stream!vars), mishaps' \subseteq {"replayed"}
  PROVE  BringsTheNewest'
<1>. USE DEF StreamInv
<1>0. /\ Len(log) \in Nat /\ feed.next \in Nat /\ rendering \in Nat
      /\ \A i \in 1..Len(log) : log[i].turn \in Stream!Turns
      /\ \A t \in Stream!Turns : t \in Nat /\ t # 0
  <2>1. log \in Seq(Stream!Frames) /\ feed \in [open : BOOLEAN, next : Nat]
    BY DEF Stream!TypeOK
  <2>2. \A i \in 1..Len(log) : log[i] \in Stream!Frames
    BY <2>1, ElementsOf
  <2>3. \A i \in 1..Len(log) : log[i].turn \in Stream!Turns
    BY <2>2 DEF Stream!Frames
  <2>4. Len(log) \in Nat /\ feed.next \in Nat
    BY <2>1
  <2>5. rendering \in Nat
    BY DEF Stream!TypeOK, Stream!Turns, Stream!NoTurn
  <2>. QED  BY <2>3, <2>4, <2>5 DEF Stream!Turns
<1>1. ASSUME NEW t \in Stream!Turns, NEW kind \in Stream!Kinds, Emitted(t, kind)
      PROVE  BringsTheNewest'
  <2>1. OneTurnAtATime /\ BringsTheNewest
    BY <1>1 DEF Emitted
  <2>2. t = rendering
    BY <1>1, <2>1, NewestEmits
  <2>3. /\ Len(log') = Len(log) + 1 /\ \A i \in 1..Len(log) : log'[i] = log[i]
        /\ log'[Len(log) + 1].turn = rendering /\ UNCHANGED <<feed, rendering, bound>>
    BY <1>1, <2>2 DEF Emitted
  <2>4. ASSUME feed.open, NEW i \in feed.next..Len(log'), i > 0
        PROVE  log'[i].turn = rendering \/ log'[i].kind = "end"
    <3>1. CASE i = Len(log) + 1
      BY <2>3, <3>1
    <3>2. CASE i # Len(log) + 1
      <4>1. i \in feed.next..Len(log) /\ i \in 1..Len(log)
        BY <1>0, <2>3, <2>4, <3>2
      <4>. QED  BY <2>1, <2>3, <2>4, <4>1 DEF BringsTheNewest
    <3>. QED  BY <3>1, <3>2
  <2>. QED  BY <2>1, <2>3, <2>4 DEF BringsTheNewest
<1>2. CASE Stream!Deliver
  <2>. DEFINE i == feed.next
  <2>1. Read(i) /\ BringsTheNewest
    BY <1>2, FramesAreRead DEF Read
  <2>2. i > 0 /\ i \in feed.next..Len(log)
    BY <1>0, <2>1 DEF Read
  <2>3. bound' \in {0, rendering}
    <3>1. UNCHANGED bound \/ Passed(i)
      BY <1>2, FramesAreRead DEF Refused
    <3>2. CASE Passed(i)
      BY <2>1, <2>2, <3>2 DEF Passed, BringsTheNewest, Read
    <3>. QED  BY <2>1, <3>1, <3>2 DEF BringsTheNewest
  <2>4. \A j \in feed'.next..Len(log) : j \in feed.next..Len(log)
    BY <1>0, <2>1 DEF Read
  <2>. QED  BY <2>1, <2>3, <2>4 DEF Read, BringsTheNewest
<1>3. ASSUME Opened
      PROVE  BringsTheNewest'
  <2>1. OneTurnAtATime /\ BringsTheNewest /\ "rerun" \notin mishaps'
    BY <1>3 DEF Opened
  <2>2. ASSUME NEW i \in feed'.next..Len(log)
        PROVE  log[i].turn = rendering \/ log[i].kind = "end"
    <3>1. i \in 1..Len(log)
      BY <1>0, <1>3 DEF Opened
    <3>2. ~Stream!Reruns(log[i])
      BY <1>3, <2>1 DEF Opened
    <3>3. log[i].turn \in Stream!Turns /\ log[i].turn <= rendering
      BY <1>0, <2>1, <3>1 DEF OneTurnAtATime
    <3>4. log[i].turn = rendering \/ ended[log[i].turn] = log[i].turn
      BY <1>0, <2>1, <3>3 DEF OneTurnAtATime
    <3>. QED  BY <3>2, <3>4 DEF Stream!Reruns
  <2>. QED  BY <1>3, <2>1, <2>2 DEF Opened, BringsTheNewest
<1>4. CASE Stream!StreamEnds
  <2>1. BringsTheNewest
    BY <1>4 DEF Stream!StreamEnds
  <2>. QED  BY <1>4, <2>1 DEF Stream!StreamEnds, Stream!Closed, BringsTheNewest
<1>5. ASSUME NEW t \in Stream!Turns, Stream!Watch(t)
      PROVE  BringsTheNewest'
  BY <1>5 DEF Stream!Watch, Stream!Closed, Stream!FreshGate, Stream!NoTurn, BringsTheNewest
<1>6. ASSUME NEW t \in Stream!Turns, Stream!SteerLands(t)
      PROVE  BringsTheNewest'
  BY <1>6 DEF Stream!SteerLands, BringsTheNewest
<1>7. CASE UNCHANGED Stream!vars
  BY <1>7 DEF Stream!vars, BringsTheNewest
<1>8. CASE Stream!Reconnects
  BY <1>3, <1>8, FeedOpens DEF Stream!Reconnects
<1>9. ASSUME NEW t \in Stream!Turns, Stream!OpenLands(t)
      PROVE  BringsTheNewest'
  BY <1>3, <1>9, FeedOpens DEF Stream!OpenLands
<1>. QED  BY <1>1, <1>2, <1>4, <1>5, <1>6, <1>7, <1>8, <1>9, StreamSteps

\* Only the daemon writes the log.
LEMMA StaysEndsLast ==
  ASSUME StreamInv, [Stream!Next]_(Stream!vars), mishaps' = {}
  PROVE  EndsLast'
<1>. USE DEF StreamInv
<1>0. Len(log) \in Nat
  BY DEF Stream!TypeOK
<1>1. ASSUME NEW t \in Stream!Turns, NEW kind \in Stream!Kinds, Emitted(t, kind)
      PROVE  EndsLast'
  <2>1. OneTurnAtATime /\ EndsLast
    BY <1>1 DEF Emitted
  <2>2. t = rendering /\ \A i \in 1..Len(log) : ~(log[i].turn = rendering /\ log[i].kind = "end")
    BY <1>1, <2>1, NewestEmits
  <2>3. /\ Len(log') = Len(log) + 1 /\ \A i \in 1..Len(log) : log'[i] = log[i]
        /\ log'[Len(log) + 1].turn = t /\ log'[Len(log) + 1].kind = kind
        /\ kind = "end" => \E i \in 1..Len(log) : log[i].turn = t
    BY <1>1 DEF Emitted
  <2>. SUFFICES ASSUME NEW i \in 1..Len(log'), log'[i].kind = "end"
                PROVE  /\ \A j \in (i + 1)..Len(log') : log'[j].turn # log'[i].turn
                       /\ \E j \in 1..(i - 1) : log'[j].turn = log'[i].turn
    BY DEF EndsLast
  <2>4. CASE i = Len(log) + 1
    <3>1. (i + 1)..Len(log') = {} /\ i - 1 = Len(log)
      BY <1>0, <2>3, <2>4
    <3>2. \E j \in 1..Len(log) : log'[j].turn = t
      BY <2>3, <2>4
    <3>. QED  BY <2>3, <2>4, <3>1, <3>2
  <2>5. CASE i # Len(log) + 1
    <3>1. i \in 1..Len(log) /\ log'[i] = log[i]
      BY <1>0, <2>3, <2>5
    <3>2. log[i].turn # t
      BY <2>2, <3>1
    <3>3. ASSUME NEW j \in (i + 1)..Len(log')
          PROVE  log'[j].turn # log[i].turn
      <4>1. j = Len(log) + 1 \/ (j \in (i + 1)..Len(log) /\ j \in 1..Len(log))
        BY <1>0, <2>3, <3>1
      <4>. QED  BY <2>1, <2>3, <3>1, <3>2, <4>1 DEF EndsLast
    <3>4. \E j \in 1..(i - 1) : log'[j].turn = log[i].turn
      <4>1. PICK j \in 1..(i - 1) : log[j].turn = log[i].turn
        BY <2>1, <3>1 DEF EndsLast
      <4>2. j \in 1..Len(log)
        BY <1>0, <3>1
      <4>. QED  BY <2>3, <4>1, <4>2
    <3>. QED  BY <3>1, <3>3, <3>4
  <2>. QED  BY <2>4, <2>5
<1>2. ASSUME UNCHANGED log, mishaps = {}
      PROVE  EndsLast'
  BY <1>2 DEF EndsLast
<1>3. CASE Stream!Deliver
  BY <1>2, <1>3 DEF Stream!Deliver
<1>4. ASSUME Opened
      PROVE  EndsLast'
  <2>1. UNCHANGED log /\ mishaps = {}
    BY <1>4 DEF Opened
  <2>. QED  BY <1>2, <2>1
<1>5. CASE Stream!StreamEnds
  <2>1. UNCHANGED log /\ mishaps = {}
    BY <1>5 DEF Stream!StreamEnds
  <2>. QED  BY <1>2, <2>1
<1>6. ASSUME NEW t \in Stream!Turns, Stream!Watch(t)
      PROVE  EndsLast'
  <2>1. UNCHANGED log /\ mishaps = {}
    BY <1>6 DEF Stream!Watch
  <2>. QED  BY <1>2, <2>1
<1>7. ASSUME NEW t \in Stream!Turns, Stream!SteerLands(t)
      PROVE  EndsLast'
  BY <1>2, <1>7 DEF Stream!SteerLands
<1>8. CASE UNCHANGED Stream!vars
  BY <1>2, <1>8 DEF Stream!vars
<1>9. CASE Stream!Reconnects
  BY <1>4, <1>9, FeedOpens DEF Stream!Reconnects
<1>10. ASSUME NEW t \in Stream!Turns, Stream!OpenLands(t)
       PROVE  EndsLast'
  BY <1>4, <1>10, FeedOpens DEF Stream!OpenLands
<1>. QED  BY <1>1, <1>3, <1>5, <1>6, <1>7, <1>8, <1>9, <1>10, StreamSteps

LEMMA StaysAllApplied ==
  ASSUME StreamInv, [Stream!Next]_(Stream!vars), mishaps' = {}
  PROVE  AllApplied'
<1>. USE DEF StreamInv
<1>0. /\ Len(log) \in Nat /\ Len(shown) \in Nat /\ position \in 0..Len(log)
      /\ rendering \in Nat /\ (rendering # 0 => rendering \in Stream!Turns)
      /\ \A i \in 1..Len(log) : log[i].turn \in Stream!Turns
      /\ \A t \in Stream!Turns : t \in Nat /\ t # 0
  <2>1. log \in Seq(Stream!Frames) /\ shown \in Seq([by : Stream!Turns, id : Nat])
    BY DEF Stream!TypeOK
  <2>2. \A i \in 1..Len(log) : log[i] \in Stream!Frames
    BY <2>1, ElementsOf
  <2>3. \A i \in 1..Len(log) : log[i].turn \in Stream!Turns
    BY <2>2 DEF Stream!Frames
  <2>4. Len(log) \in Nat /\ Len(shown) \in Nat /\ position \in 0..Len(log)
    BY <2>1 DEF Stream!TypeOK
  <2>5. rendering \in Nat /\ (rendering # 0 => rendering \in Stream!Turns)
    BY DEF Stream!TypeOK, Stream!Turns, Stream!NoTurn
  <2>. QED  BY <2>3, <2>4, <2>5 DEF Stream!Turns
<1>1. ASSUME NEW t \in Stream!Turns, NEW kind \in Stream!Kinds, Emitted(t, kind)
      PROVE  AllApplied'
  <2>1. OneTurnAtATime /\ ReadInOrder /\ AllApplied
    BY <1>1 DEF Emitted
  <2>2. t = rendering /\ ended[rendering] # rendering
    BY <1>1, <2>1, NewestEmits
  <2>3. /\ Len(log') = Len(log) + 1 /\ \A i \in 1..Len(log) : log'[i] = log[i]
        /\ log'[Len(log) + 1].turn = rendering
        /\ UNCHANGED <<position, rendering, bound, shown, ended>>
    BY <1>1, <2>2 DEF Emitted
  <2>4. \A i \in 1..position : log'[i] = log[i]
    BY <1>0, <2>3
  <2>5. \A k \in 1..Len(shown) : log'[shown[k].id].turn = shown[k].by
    BY <2>1, <2>4 DEF ReadInOrder, AllApplied
  <2>6. ASSUME NEW i \in (position + 1)..Len(log')
        PROVE  log'[i].turn = rendering
    <3>1. i = Len(log) + 1 \/ (i \in (position + 1)..Len(log) /\ i \in 1..Len(log))
      BY <1>0, <2>3
    <3>. QED  BY <2>1, <2>3, <3>1 DEF AllApplied
  <2>. QED  BY <2>1, <2>2, <2>3, <2>4, <2>5, <2>6 DEF AllApplied
<1>2. CASE Stream!Deliver
  <2>. DEFINE i == feed.next
  <2>1. Read(i) /\ ReadInOrder /\ OneTurnAtATime /\ BringsTheNewest /\ EndsLast /\ AllApplied
    BY <1>2, FramesAreRead DEF Read
  <2>2. i = position + 1 /\ i \in 1..Len(log) /\ rendering \in Stream!Turns
    BY <1>0, <2>1 DEF Read, ReadInOrder
  <2>3. log[i].turn = rendering
    BY <1>0, <2>1, <2>2 DEF AllApplied
  <2>4. ~Refused(i)
    <3>. SUFFICES ASSUME log[i].kind = "end", log[i].turn # bound
                  PROVE  FALSE
      BY DEF Refused
    <3>1. \E j \in 1..(i - 1) : log[j].turn = rendering
      BY <2>1, <2>2, <2>3 DEF EndsLast
    <3>2. i - 1 = position
      BY <1>0, <2>2
    <3>. QED  BY <2>1, <2>3, <3>1, <3>2 DEF AllApplied
  <2>5. ended[rendering] = 0
    <3>1. ended[rendering] \in {0, rendering}
      BY <2>1, <2>2 DEF OneTurnAtATime
    <3>2. position # Len(log)
      BY <1>0, <2>2
    <3>. QED  BY <1>0, <2>1, <2>2, <3>1, <3>2 DEF AllApplied
  <2>6. Passed(i) /\ Applied(i)
    BY <1>2, <2>4, <2>5, FramesAreRead
  <2>7. position' = position + 1 /\ bound' = rendering /\ UNCHANGED <<log, rendering>>
    BY <2>1, <2>2, <2>3, <2>6 DEF Read, Passed
  <2>8. /\ 1..Len(shown') = 1..Len(shown) \cup {Len(shown) + 1}
        /\ \A k \in 1..Len(shown) : shown'[k] = shown[k]
        /\ shown'[Len(shown) + 1].by = rendering /\ shown'[Len(shown) + 1].id = i
    BY <1>0, <2>6 DEF Applied
  <2>9. 1..(position + 1) = 1..position \cup {i}
    BY <1>0, <2>2
  <2>. HIDE DEF i
  <2>10. \A k \in 1..Len(shown') : log[shown'[k].id].turn = shown'[k].by
    BY <2>1, <2>3, <2>8 DEF AllApplied
  <2>11. ASSUME NEW j \in 1..(position + 1)
         PROVE  \E k \in 1..Len(shown') : shown'[k].id = j
    <3>1. CASE j = i
      BY <2>8, <3>1
    <3>2. CASE j # i
      <4>1. PICK k \in 1..Len(shown) : shown[k].id = j
        BY <2>1, <2>9, <3>2 DEF AllApplied
      <4>. QED  BY <2>8, <4>1
    <3>. QED  BY <3>1, <3>2
  <2>12. \A j \in (position + 2)..Len(log) : log[j].turn = rendering
    <3>1. \A j \in (position + 2)..Len(log) : j \in (position + 1)..Len(log)
      BY <1>0
    <3>. QED  BY <2>1, <3>1 DEF AllApplied
  <2>13. ended'[rendering] = rendering => position + 1 = Len(log)
    <3>. SUFFICES ASSUME ended'[rendering] = rendering, position + 1 # Len(log)
                  PROVE  FALSE
      OBVIOUS
    <3>1. log[i].kind = "end"
      BY <1>0, <2>2, <2>5, <2>6 DEF Applied
    <3>2. position + 2 \in (i + 1)..Len(log) /\ position + 2 \in (position + 2)..Len(log)
      BY <1>0, <2>2
    <3>. QED  BY <2>1, <2>2, <2>3, <2>12, <3>1, <3>2 DEF EndsLast
  <2>14. position + 1 + 1 = position + 2
    BY <1>0
  <2>. QED  BY <2>7, <2>10, <2>11, <2>12, <2>13, <2>14 DEF AllApplied
<1>3. ASSUME UNCHANGED <<log, position, rendering, bound, shown, ended>>, AllApplied
      PROVE  AllApplied'
  BY <1>3 DEF AllApplied
<1>4. ASSUME Opened
      PROVE  AllApplied'
  <2>1. mishaps = {}
    BY <1>4 DEF Opened
  <2>. QED  BY <1>3, <1>4, <2>1 DEF Opened
<1>5. CASE Stream!StreamEnds
  <2>1. mishaps = {} /\ ended' = ended
    BY <1>5 DEF Stream!StreamEnds, Stream!EndWatch
  <2>. QED  BY <1>3, <1>5, <2>1 DEF Stream!StreamEnds
<1>6. ASSUME NEW t \in Stream!Turns, Stream!Watch(t)
      PROVE  AllApplied'
  <2>1. mishaps = {} /\ t = rendering + 1 /\ \A u \in 1..(t - 1) : ended[u] # 0
    BY <1>6, SentNext DEF Stream!Watch, Stream!NoTurn
  <2>2. SentInOrder /\ OneTurnAtATime /\ AllApplied
    BY <2>1
  <2>3. \A i \in 1..Len(log) : log[i].turn <= rendering /\ log[i].turn # t
    BY <1>0, <2>1, <2>2 DEF OneTurnAtATime
  <2>4. position = Len(log)
    <3>1. CASE rendering = 0
      <4>1. \A i \in 1..Len(log) : FALSE
        BY <1>0, <2>3, <3>1
      <4>. QED  BY <1>0, <4>1
    <3>2. CASE rendering # 0
      <4>1. rendering \in 1..(t - 1) /\ rendering \in Stream!Turns
        BY <1>0, <2>1, <3>2
      <4>2. ended[rendering] = rendering
        BY <2>1, <2>2, <4>1 DEF OneTurnAtATime
      <4>. QED  BY <2>2, <3>2, <4>2 DEF AllApplied
    <3>. QED  BY <3>1, <3>2
  <2>5. ended[t] = 0 /\ t # 0
    BY <1>0, <2>1, <2>2 DEF SentInOrder
  <2>6. rendering' = t /\ UNCHANGED <<log, position, shown, ended>>
    BY <1>6 DEF Stream!Watch
  <2>7. (position + 1)..Len(log) = {} /\ 1..position = 1..Len(log)
    BY <1>0, <2>4
  <2>. QED  BY <2>2, <2>3, <2>5, <2>6, <2>7 DEF AllApplied
<1>7. ASSUME NEW t \in Stream!Turns, Stream!SteerLands(t)
      PROVE  AllApplied'
  <2>1. mishaps = {}
    BY <1>7 DEF Stream!SteerLands
  <2>. QED  BY <1>3, <1>7, <2>1 DEF Stream!SteerLands
<1>8. CASE UNCHANGED Stream!vars
  BY <1>3, <1>8 DEF Stream!vars
<1>9. CASE Stream!Reconnects
  BY <1>4, <1>9, FeedOpens DEF Stream!Reconnects
<1>10. ASSUME NEW t \in Stream!Turns, Stream!OpenLands(t)
       PROVE  AllApplied'
  BY <1>4, <1>10, FeedOpens DEF Stream!OpenLands
<1>. QED  BY <1>1, <1>2, <1>5, <1>6, <1>7, <1>8, <1>9, <1>10, StreamSteps

LEMMA StreamPreserved == StreamInv /\ [Stream!Next]_(Stream!vars) => StreamInv'
<1>. SUFFICES ASSUME StreamInv, [Stream!Next]_(Stream!vars)
              PROVE  StreamInv'
  OBVIOUS
<1>1. Stream!TypeOK'
  BY StreamTypePreserved
<1>2. SentInOrder' /\ StreamIsOwned'
  BY SentStaysInOrder
<1>3. ("replayed" \notin mishaps => ReadInOrder)'
  BY StaysReadInOrder
<1>4. (mishaps \subseteq {"replayed"} => OneTurnAtATime /\ BringsTheNewest)'
  BY StaysOneTurnAtATime, StaysTheNewest
<1>5. (mishaps = {} => EndsLast /\ AllApplied)'
  BY StaysEndsLast, StaysAllApplied
<1>. QED  BY <1>1, <1>2, <1>3, <1>4, <1>5 DEF StreamInv, StreamIsOwned

LEMMA StreamMeansIt == StreamInv => TurnReachesItsOwn
<1>. SUFFICES ASSUME StreamInv
              PROVE  Stream!OwnEndingWhenCalm /\ Stream!WholeTurn /\ Stream!RenderedOnce
  BY DEF TurnReachesItsOwn
<1>1. Stream!OwnEndingWhenCalm
  BY DEF StreamInv, OneTurnAtATime, Stream!OwnEndingWhenCalm, Stream!OwnEnding,
     Stream!NoTurn
<1>2. Stream!RenderedOnce
  BY DEF StreamInv, ReadInOrder, Stream!RenderedOnce
<1>3. ASSUME mishaps = {}, NEW t \in Stream!Turns, ended[t] = t
      PROVE  Stream!ShownBy(t) = Stream!FramesOf(t)
  <2>1. SentInOrder /\ ReadInOrder /\ OneTurnAtATime /\ AllApplied
    BY <1>3 DEF StreamInv
  <2>2. Len(log) \in Nat /\ position \in 0..Len(log) /\ rendering \in Nat /\ t \in Nat /\ t # 0
    BY DEF StreamInv, Stream!TypeOK, Stream!Turns, Stream!NoTurn
  <2>3. t <= rendering
    BY <1>3, <2>1, <2>2 DEF SentInOrder
  <2>4. \A i \in (position + 1)..Len(log) : log[i].turn # t
    <3>1. CASE t = rendering
      <4>1. (position + 1)..Len(log) = {}
        BY <1>3, <2>1, <2>2, <3>1 DEF AllApplied
      <4>. QED  BY <4>1
    <3>2. CASE t # rendering
      BY <2>1, <3>2 DEF AllApplied
    <3>. QED  BY <3>1, <3>2
  <2>5. ASSUME NEW i \in Stream!FramesOf(t)
        PROVE  i \in Stream!ShownBy(t)
    <3>1. i \in 1..Len(log) /\ log[i].turn = t
      BY DEF Stream!FramesOf
    <3>2. i \in 1..position
      BY <2>2, <2>4, <3>1
    <3>3. PICK k \in 1..Len(shown) : shown[k].id = i
      BY <2>1, <3>2 DEF AllApplied
    <3>4. shown[k].by = t
      BY <2>1, <3>1, <3>3 DEF AllApplied
    <3>. QED  BY <3>3, <3>4 DEF Stream!ShownBy
  <2>6. ASSUME NEW i \in Stream!ShownBy(t)
        PROVE  i \in Stream!FramesOf(t)
    <3>1. PICK k \in 1..Len(shown) : shown[k].by = t /\ i = shown[k].id
      BY DEF Stream!ShownBy
    <3>2. i \in 1..position /\ log[i].turn = t
      BY <2>1, <3>1 DEF ReadInOrder, AllApplied
    <3>. QED  BY <2>2, <3>2 DEF Stream!FramesOf
  <2>. QED  BY <2>5, <2>6
<1>. QED  BY <1>1, <1>2, <1>3 DEF Stream!WholeTurn

\* Each turn is finished by its own ending, its renderer applied its frames, all of them,
\* and no frame is applied twice (remote-conversation.ts).
THEOREM TurnsReachTheirOwn == Stream!Spec => []TurnReachesItsOwn
<1>. QED  BY StreamInit, StreamPreserved, StreamMeansIt, PTL DEF Stream!Spec

----------------------------------------------------------------------------
(* What the frames of a turn write.  That the texts of the messages add up *)
(* to what was written is kept from message to message, so it needs no     *)
(* induction over them.                                                    *)

Entries == Frames!Assistant \cup Frames!Result \cup Frames!Notice

TextsOf(s) == [i \in 1..Len(s) |-> IF s[i].kind = "assistant" THEN s[i].text ELSE <<>>]

\* f adds the sequences of s up, one by one.
AddsUp(f, s) == f = [i \in 1..Len(s) |-> IF i = 1 THEN s[i] ELSE f[i-1] \o s[i]]

ComesTo(s, t) ==
    IF Len(s) = 0 THEN s = <<>> /\ t = <<>>
    ELSE (\E f : AddsUp(f, s)) /\ \A f : AddsUp(f, s) => f[Len(s)] = t

\* A call is of a model call that was made, and on a message.
CallsSoFar ==
    /\ pendingToolCalls = <<>>
    /\ finished <=> stage = "over"
    /\ \A i \in 1..Len(tools) :
         tools[i] <= call /\ tools[i] < MaxCalls /\ (stage = "calling" => tools[i] < call)
    /\ \A i \in 1..Len(tools) :
         \E m \in Frames!Messages : i \in Frames!ToSet(entries[m].calls)
    /\ \A m \in Frames!Messages : Frames!ToSet(entries[m].calls) \subseteq 1..Len(tools)

\* Of a model call that made calls nothing is left to write, of any other its text.
TextIsOfCall ==
    stage # "over" =>
        accumulated = IF Frames!CallsMade(call) = {} THEN Frames!Text(call, pieces) ELSE <<>>

TextIsKept ==
    /\ turnText \o accumulated = said
    /\ ComesTo(TextsOf(entries), turnText)

WrittenInv ==
    /\ Frames!TypeOK /\ entries \in Seq(Entries)
    /\ CallsSoFar /\ TextIsOfCall /\ TextIsKept
    /\ Frames!BlockIsPending /\ Frames!CallsInPlace /\ Frames!UsageOnClosing

LEMMA FlattenedIs ==
  ASSUME NEW s, NEW t, ComesTo(s, t)
  PROVE  Frames!FlattenSeq(s) = t
<1>1. CASE Len(s) = 0
  BY <1>1 DEF ComesTo, Frames!FlattenSeq
<1>2. CASE Len(s) # 0
  <2>. DEFINE F == CHOOSE f : f = [i \in 1..Len(s) |-> IF i = 1 THEN s[i] ELSE f[i-1] \o s[i]]
  <2>1. Frames!FlattenSeq(s) = F[Len(s)]
    BY <1>2 DEF Frames!FlattenSeq
  <2>2. \E f : f = [i \in 1..Len(s) |-> IF i = 1 THEN s[i] ELSE f[i-1] \o s[i]]
    BY <1>2 DEF ComesTo, AddsUp
  <2>3. F = [i \in 1..Len(s) |-> IF i = 1 THEN s[i] ELSE F[i-1] \o s[i]]
    BY <2>2, Zenon
  <2>. HIDE DEF F
  <2>4. AddsUp(F, s)
    BY <2>3 DEF AddsUp
  <2>. QED  BY <1>2, <2>1, <2>4 DEF ComesTo
<1>. QED  BY <1>1, <1>2

LEMMA ComesToMore ==
  ASSUME NEW n \in Nat, NEW s, NEW t, NEW r, ComesTo(s, t), Len(s) = n,
         r = [i \in 1..(n + 1) |-> r[i]], Len(r) = n + 1, \A i \in 1..n : r[i] = s[i],
         <<>> \o r[n + 1] = r[n + 1]
  PROVE  ComesTo(r, t \o r[n + 1])
<1>1. CASE n = 0
  <2>1. t = <<>> /\ Len(r) = 1
    BY <1>1 DEF ComesTo
  <2>. DEFINE g == [i \in 1..1 |-> r[1]]
  <2>2. AddsUp(g, r)
    BY <2>1 DEF AddsUp
  <2>3. ASSUME NEW f, AddsUp(f, r)
        PROVE  f[1] = r[1]
    BY <2>1, <2>3 DEF AddsUp
  <2>4. Len(r) # 0 /\ t \o r[n + 1] = r[1] /\ \E f : AddsUp(f, r)
    BY <1>1, <2>1, <2>2
  <2>. QED  BY <2>1, <2>3, <2>4 DEF ComesTo
<1>2. CASE n # 0
  <2>1. PICK f : AddsUp(f, s)
    BY <1>2 DEF ComesTo
  <2>. DEFINE g == [i \in 1..(n + 1) |-> IF i = n + 1 THEN f[n] \o r[n + 1] ELSE f[i]]
  <2>2. AddsUp(g, r)
    <3>1. \A i \in 1..n : f[i] = IF i = 1 THEN s[i] ELSE f[i-1] \o s[i]
      BY <2>1 DEF AddsUp
    <3>2. \A i \in 1..(n + 1) : g[i] = IF i = 1 THEN r[i] ELSE g[i-1] \o r[i]
      <4>. SUFFICES ASSUME NEW i \in 1..(n + 1)
                    PROVE  g[i] = IF i = 1 THEN r[i] ELSE g[i-1] \o r[i]
        OBVIOUS
      <4>1. CASE i = 1
        <5>1. 1 \in 1..n /\ 1 # n + 1 /\ 1 \in 1..(n + 1)
          BY <1>2
        <5>2. f[1] = s[1] /\ r[1] = s[1]
          BY <3>1, <5>1
        <5>3. g[1] = f[1]
          BY <5>1
        <5>. QED  BY <4>1, <5>2, <5>3
      <4>2. CASE i # 1 /\ i # n + 1
        <5>1. i \in 1..n /\ i - 1 \in 1..n /\ i - 1 # n + 1
          BY <4>2
        <5>2. f[i] = f[i - 1] \o s[i]
          BY <3>1, <4>2, <5>1
        <5>3. g[i] = f[i]
          BY <4>2
        <5>4. i - 1 \in 1..(n + 1)
          BY <5>1
        <5>5. g[i - 1] = f[i - 1]
          BY <5>1, <5>4
        <5>. QED  BY <4>2, <5>1, <5>2, <5>3, <5>5
      <4>3. CASE i = n + 1
        <5>1. i - 1 = n /\ n \in 1..(n + 1) /\ n # n + 1 /\ i # 1
          BY <1>2, <4>3
        <5>2. g[i] = f[n] \o r[i] /\ g[n] = f[n]
          BY <4>3, <5>1
        <5>. QED  BY <5>1, <5>2
      <4>. QED  BY <4>1, <4>2, <4>3
    <3>3. g = [i \in 1..(n + 1) |-> g[i]]
      OBVIOUS
    <3>. HIDE DEF g
    <3>. QED  BY <3>2, <3>3 DEF AddsUp
  <2>3. ASSUME NEW h, AddsUp(h, r)
        PROVE  h[n + 1] = t \o r[n + 1]
    <3>. DEFINE k == [i \in 1..n |-> h[i]]
    <3>1. \A i \in 1..(n + 1) : h[i] = IF i = 1 THEN r[i] ELSE h[i-1] \o r[i]
      BY <2>3 DEF AddsUp
    <3>2. \A i \in 1..n : k[i] = IF i = 1 THEN s[i] ELSE k[i-1] \o s[i]
      <4>. SUFFICES ASSUME NEW i \in 1..n
                    PROVE  k[i] = IF i = 1 THEN s[i] ELSE k[i-1] \o s[i]
        OBVIOUS
      <4>1. i \in 1..(n + 1) /\ (i # 1 => i - 1 \in 1..n)
        OBVIOUS
      <4>2. h[i] = IF i = 1 THEN r[i] ELSE h[i-1] \o r[i]
        BY <3>1, <4>1
      <4>3. k[i] = h[i] /\ (i # 1 => k[i - 1] = h[i - 1]) /\ r[i] = s[i]
        BY <4>1
      <4>. QED  BY <4>2, <4>3
    <3>3. k = [i \in 1..n |-> k[i]]
      OBVIOUS
    <3>4. k[n] = h[n]
      BY <1>2
    <3>. HIDE DEF k
    <3>5. AddsUp(k, s)
      BY <3>2, <3>3 DEF AddsUp
    <3>6. h[n] = t
      BY <1>2, <3>4, <3>5 DEF ComesTo
    <3>7. h[n + 1] = h[n] \o r[n + 1]
      <4>1. ASSUME NEW i \in 1..(n + 1), i = n + 1
            PROVE  h[i] = h[n] \o r[i]
        <5>1. h[i] = IF i = 1 THEN r[i] ELSE h[i-1] \o r[i]
          BY <3>1
        <5>2. i # 1 /\ i - 1 = n
          BY <1>2, <4>1
        <5>. QED  BY <5>1, <5>2
      <4>2. n + 1 \in 1..(n + 1)
        OBVIOUS
      <4>. QED  BY <4>1, <4>2
    <3>. QED  BY <3>6, <3>7
  <2>. HIDE DEF g
  <2>4. \E e : AddsUp(e, r)
    BY <2>2
  <2>5. Len(r) = n + 1 /\ n + 1 # 0
    OBVIOUS
  <2>. QED  BY <2>3, <2>4, <2>5 DEF ComesTo
<1>. QED  BY <1>1, <1>2

\* What a message or a notice at the end adds.
LEMMA TextsGrow ==
  ASSUME NEW s \in Seq(Entries), NEW e \in Entries, NEW t, NEW x \in Seq(Frames!Pieces),
         ComesTo(TextsOf(s), t), x = IF e.kind = "assistant" THEN e.text ELSE <<>>
  PROVE  /\ Append(s, e) \in Seq(Entries) /\ Len(Append(s, e)) = Len(s) + 1
         /\ \A i \in 1..Len(s) : Append(s, e)[i] = s[i]
         /\ Append(s, e)[Len(s) + 1] = e
         /\ ComesTo(TextsOf(Append(s, e)), t \o x)
<1>. DEFINE r == Append(s, e)
            n == Len(s)
<1>1. /\ r \in Seq(Entries) /\ Len(r) = n + 1 /\ n \in Nat
      /\ \A i \in 1..n : r[i] = s[i]
      /\ r[n + 1] = e
  OBVIOUS
<1>. HIDE DEF r
<1>2. /\ TextsOf(r) = [i \in 1..(n + 1) |-> TextsOf(r)[i]]
      /\ \A i \in 1..n : TextsOf(r)[i] = TextsOf(s)[i]
      /\ TextsOf(r)[n + 1] = x
  BY <1>1 DEF TextsOf
<1>3. Len(TextsOf(s)) = n /\ Len(TextsOf(r)) = n + 1
  BY <1>1 DEF TextsOf
<1>4. <<>> \o x = x
  OBVIOUS
<1>5. ComesTo(TextsOf(r), t \o TextsOf(r)[n + 1])
  BY <1>1, <1>2, <1>3, <1>4, ComesToMore
<1>. QED  BY <1>1, <1>2, <1>5 DEF r

\* What flush() writes: a message if there is anything to say, then a notice if one came.
Wrote(text, calls, final) ==
    /\ accumulated' = <<>> /\ pendingToolCalls' = <<>>
    /\ turnText' = turnText \o text
    /\ streaming' = FALSE /\ block' = IF streaming THEN Frames!ClosedBlock ELSE block
    /\ entries' \in Seq(Entries) /\ Len(entries') \in Nat /\ Len(entries') >= Len(entries)
    /\ ComesTo(TextsOf(entries'), turnText')
    /\ \A i \in 1..Len(entries) : entries'[i] = entries[i]
    /\ \A i \in 1..Len(entries') : i > Len(entries) =>
         \/ entries'[i].kind = "notice"
         \/ /\ i = Len(entries) + 1 /\ entries'[i].kind = "assistant"
            /\ entries'[i].text = text /\ entries'[i].calls = calls
            /\ entries'[i].usage = Frames!UsageOn(final)
    /\ calls # <<>> =>
         /\ Len(entries) + 1 \in 1..Len(entries')
         /\ entries'[Len(entries) + 1].kind = "assistant"
         /\ entries'[Len(entries) + 1].calls = calls

LEMMA FlushWrites ==
  ASSUME Frames!TypeOK, entries \in Seq(Entries), ComesTo(TextsOf(entries), turnText),
         NEW text \in Seq(Frames!Pieces), NEW calls \in Seq(Nat), NEW final \in BOOLEAN,
         NEW after, after = <<>> \/ after = Frames!NoticeEntry,
         Frames!Flush(calls, text, final, after)
  PROVE  Wrote(text, calls, final)
<1>. DEFINE m == [kind |-> "assistant", text |-> text, calls |-> calls,
                  usage |-> Frames!UsageOn(final)]
            note == [kind |-> "notice"]
            mid == entries \o Frames!Message(text, calls, Frames!UsageOn(final))
            n == Len(entries)
<1>1. /\ m \in Entries /\ m.kind = "assistant" /\ m.text = text /\ m.calls = calls
      /\ m.usage = Frames!UsageOn(final)
  <2>1. Frames!UsageOn(final) \in 0..MaxCalls
    BY RoomAssumption DEF Frames!UsageOn, Frames!NoUsage, Frames!TypeOK
  <2>2. m \in Frames!Assistant
    BY <2>1 DEF Frames!Assistant
  <2>. QED  BY <2>2 DEF Entries
<1>2. note \in Entries /\ note.kind = "notice" /\ Frames!NoticeEntry = <<note>>
  BY DEF Entries, Frames!Notice, Frames!NoticeEntry
<1>3. /\ entries' = mid \o after /\ turnText' = turnText \o text
      /\ accumulated' = <<>> /\ pendingToolCalls' = <<>>
      /\ streaming' = FALSE /\ block' = IF streaming THEN Frames!ClosedBlock ELSE block
  BY DEF Frames!Flush, Frames!CloseStream
<1>4. turnText \in Seq(Frames!Pieces) /\ turnText \o <<>> = turnText
  BY DEF Frames!TypeOK
<1>5. mid = IF text = <<>> /\ calls = <<>> THEN entries ELSE Append(entries, m)
  <2>1. Frames!Message(text, calls, Frames!UsageOn(final))
          = IF text = <<>> /\ calls = <<>> THEN <<>> ELSE <<m>>
    BY DEF Frames!Message
  <2>. HIDE DEF m
  <2>. QED  BY <1>1, <2>1
<1>. HIDE DEF m, note, mid
<1>6. /\ mid \in Seq(Entries) /\ Len(mid) \in {n, n + 1} /\ n \in Nat
      /\ ComesTo(TextsOf(mid), turnText')
      /\ \A i \in 1..n : mid[i] = entries[i]
      /\ Len(mid) = n + 1 => mid[n + 1] = m
      /\ calls # <<>> => Len(mid) = n + 1
  <2>1. CASE text = <<>> /\ calls = <<>>
    BY <1>3, <1>4, <1>5, <2>1
  <2>2. CASE ~(text = <<>> /\ calls = <<>>)
    BY <1>1, <1>3, <1>5, <2>2, TextsGrow
  <2>. QED  BY <2>1, <2>2
<1>7. CASE after = <<>>
  <2>1. entries' = mid
    BY <1>3, <1>6, <1>7
  <2>2. \A i \in 1..Len(entries') : i > n => i = n + 1 /\ entries'[i] = m
    BY <1>6, <2>1
  <2>3. calls # <<>> => n + 1 \in 1..Len(entries') /\ entries'[n + 1] = m
    BY <1>6, <2>1
  <2>. QED  BY <1>1, <1>3, <1>6, <2>1, <2>2, <2>3 DEF Wrote
<1>8. CASE after = <<note>>
  <2>1. entries' = Append(mid, note)
    BY <1>2, <1>3, <1>6, <1>8
  <2>2. turnText' \in Seq(Frames!Pieces) /\ turnText' \o <<>> = turnText'
    BY <1>3, <1>4
  <2>0. <<>> \in Seq(Frames!Pieces) /\ <<>> = IF note.kind = "assistant" THEN note.text ELSE <<>>
    BY <1>2
  <2>3. /\ entries' \in Seq(Entries) /\ Len(entries') = Len(mid) + 1
        /\ \A i \in 1..Len(mid) : entries'[i] = mid[i]
        /\ entries'[Len(mid) + 1] = note
        /\ ComesTo(TextsOf(entries'), turnText' \o <<>>)
    BY <1>2, <1>6, <2>1, <2>0, TextsGrow
  <2>4. ComesTo(TextsOf(entries'), turnText')
    BY <2>2, <2>3
  <2>5. \A i \in 1..n : entries'[i] = entries[i]
    BY <1>6, <2>3
  <2>6. ASSUME NEW i \in 1..Len(entries'), i > n
        PROVE  \/ entries'[i] = note
               \/ i = n + 1 /\ entries'[i] = m
    <3>1. i = Len(mid) + 1 \/ (Len(mid) = n + 1 /\ i = n + 1 /\ i \in 1..Len(mid))
      BY <1>6, <2>3, <2>6
    <3>. QED  BY <1>6, <2>3, <3>1
  <2>7. calls # <<>> => n + 1 \in 1..Len(entries') /\ entries'[n + 1] = m
    BY <1>6, <2>3
  <2>8. Len(entries') \in Nat /\ Len(entries') >= n
    BY <1>6, <2>3
  <2>9. \A i \in 1..Len(entries') : i > n =>
          \/ entries'[i].kind = "notice"
          \/ /\ i = n + 1 /\ entries'[i].kind = "assistant"
             /\ entries'[i].text = text /\ entries'[i].calls = calls
             /\ entries'[i].usage = Frames!UsageOn(final)
    BY <1>1, <1>2, <2>6
  <2>10. calls # <<>> => /\ n + 1 \in 1..Len(entries')
                         /\ entries'[n + 1].kind = "assistant" /\ entries'[n + 1].calls = calls
    BY <1>1, <2>7
  <2>. QED  BY <1>3, <2>3, <2>4, <2>5, <2>8, <2>9, <2>10, Zenon DEF Wrote
<1>. QED  BY <1>2, <1>7, <1>8

\* The text of a model call grows by a piece at a time.
LEMMA TextOfPieces ==
  ASSUME NEW c \in 1..MaxCalls, NEW n \in 0..MaxPieces
  PROVE  /\ Frames!Text(c, n) \in Seq(Frames!Pieces) /\ Len(Frames!Text(c, n)) = n
         /\ \A i \in 1..n : Frames!Text(c, n)[i].call = c
         /\ n = 0 => Frames!Text(c, n) = <<>>
         /\ n < MaxPieces =>
              /\ [call |-> c, n |-> n + 1] \in Frames!Pieces
              /\ Frames!Text(c, n + 1) = Append(Frames!Text(c, n), [call |-> c, n |-> n + 1])
<1>. DEFINE t == Frames!Text(c, n)
<1>0. n \in Nat /\ n <= MaxPieces /\ MaxPieces \in Nat
  BY RoomAssumption
<1>1. t \in Seq(Frames!Pieces) /\ Len(t) = n /\ \A i \in 1..n : t[i].call = c /\ t[i] = [call |-> c, n |-> i]
  BY <1>0 DEF Frames!Text, Frames!Pieces
<1>2. n = 0 => t = <<>>
  BY <1>1
<1>3. ASSUME n < MaxPieces
      PROVE  /\ [call |-> c, n |-> n + 1] \in Frames!Pieces
             /\ Frames!Text(c, n + 1) = Append(t, [call |-> c, n |-> n + 1])
  <2>1. [call |-> c, n |-> n + 1] \in Frames!Pieces
    BY <1>0, <1>3 DEF Frames!Pieces
  <2>2. Frames!Text(c, n + 1) = [i \in 1..(n + 1) |-> [call |-> c, n |-> i]]
    BY DEF Frames!Text
  <2>. DEFINE new == [call |-> c, n |-> n + 1]
  <2>3. \A i \in 1..(n + 1) : Append(t, new)[i] = [call |-> c, n |-> i]
    <3>1. Append(t, new)[n + 1] = new /\ \A i \in 1..n : Append(t, new)[i] = t[i]
      BY <1>0, <1>1
    <3>2. \A i \in 1..(n + 1) : i = n + 1 \/ i \in 1..n
      BY <1>0
    <3>. QED  BY <1>1, <3>1, <3>2
  <2>4. Append(t, new) = [i \in 1..(n + 1) |-> Append(t, new)[i]]
    BY <1>0, <1>1
  <2>. QED  BY <2>1, <2>2, <2>3, <2>4
<1>. QED  BY <1>1, <1>2, <1>3

LEMMA WrittenInit == Frames!Init => WrittenInv
<1>. SUFFICES ASSUME Frames!Init
              PROVE  WrittenInv
  OBVIOUS
<1>. USE DEF Frames!Init
<1>1. Frames!TypeOK
  <2>1. Frames!ClosedBlock \in [open : BOOLEAN, text : Seq(Frames!Pieces)]
    BY DEF Frames!ClosedBlock
  <2>2. call \in 1..MaxCalls /\ pieces \in 0..MaxPieces /\ usage \in 0..MaxCalls
    BY RoomAssumption DEF Frames!NoUsage
  <2>3. pending \subseteq 1..Len(tools) /\ pendingToolCalls \in Seq(1..Len(tools))
    OBVIOUS
  <2>4. \A i \in 1..Len(entries) : entries[i] \in Frames!Assistant \cup Frames!Result \cup Frames!Notice
    OBVIOUS
  <2>5. /\ stage \in {"calling", "replied", "over"} /\ tools \in Seq(1..MaxCalls)
        /\ said \in Seq(Frames!Pieces) /\ accumulated \in Seq(Frames!Pieces)
        /\ turnText \in Seq(Frames!Pieces)
    OBVIOUS
  <2>6. streaming \in BOOLEAN /\ finished \in BOOLEAN
    OBVIOUS
  <2>7. block \in [open : BOOLEAN, text : Seq(Frames!Pieces)]
    BY <2>1
  <2>. QED  BY <2>2, <2>3, <2>4, <2>5, <2>6, <2>7 DEF Frames!TypeOK
<1>2. entries \in Seq(Entries) /\ Frames!Messages = {}
  BY DEF Frames!Messages
<1>3. CallsSoFar
  BY <1>2 DEF CallsSoFar
<1>4. TextIsOfCall
  <2>1. Frames!CallsMade(call) = {}
    BY DEF Frames!CallsMade
  <2>2. call \in 1..MaxCalls /\ pieces \in 0..MaxPieces
    BY RoomAssumption
  <2>3. Frames!Text(call, pieces) = <<>>
    BY <2>2, TextOfPieces
  <2>. QED  BY <2>1, <2>3 DEF TextIsOfCall
<1>5. TextIsKept
  BY DEF TextIsKept, ComesTo, TextsOf
<1>6. Frames!BlockIsPending
  BY DEF Frames!BlockIsPending, Frames!ClosedBlock
<1>7. Frames!CallsInPlace /\ Frames!UsageOnClosing
  BY <1>2 DEF Frames!CallsInPlace, Frames!UsageOnClosing
<1>. QED  BY <1>1, <1>2, <1>3, <1>4, <1>5, <1>6, <1>7 DEF WrittenInv

\* A tool call writes the text before it, with the call.
LEMMA ToolCallWrites ==
  ASSUME WrittenInv, Frames!ToolCallFrame
  PROVE  Wrote(accumulated, <<Len(tools) + 1>>, FALSE)
<1>1. pendingToolCalls = <<>> /\ accumulated \in Seq(Frames!Pieces) /\ Len(tools) \in Nat
  BY DEF WrittenInv, CallsSoFar, Frames!TypeOK
<1>2. <<Len(tools) + 1>> \in Seq(Nat) /\ Append(pendingToolCalls, Len(tools) + 1) = <<Len(tools) + 1>>
  BY <1>1
<1>3. Frames!Flush(<<Len(tools) + 1>>, accumulated, FALSE, <<>>)
  BY <1>2 DEF Frames!ToolCallFrame, Frames!ToolReceived
<1>. QED  BY <1>1, <1>2, <1>3, FlushWrites DEF WrittenInv, TextIsKept

\* The end of a turn writes what is left, on which no call can be.
LEMMA EndWrites ==
  ASSUME WrittenInv, NEW text \in Seq(Frames!Pieces), NEW after,
         after = <<>> \/ after = Frames!NoticeEntry, Frames!Finish(text, after)
  PROVE  Wrote(text, <<>>, TRUE) /\ finished' = TRUE
<1>1. pendingToolCalls = <<>> /\ <<>> \in Seq(Nat)
  BY DEF WrittenInv, CallsSoFar
<1>2. Frames!Flush(<<>>, text, TRUE, after) /\ finished' = TRUE
  BY <1>1 DEF Frames!Finish
<1>. QED  BY <1>1, <1>2, FlushWrites DEF WrittenInv, TextIsKept

\* The end of a turn, however it comes.
Ended(text) ==
    /\ Wrote(text, <<>>, TRUE)
    /\ stage # "over" /\ stage' = "over" /\ finished' = TRUE
    /\ said' = turnText \o text
    /\ UNCHANGED <<running, call, pieces, tools, pending, usage>>

LEMMA TurnsEnd ==
  ASSUME WrittenInv, Frames!TurnCompleted \/ Frames!TurnBroken
  PROVE  \E text \in Seq(Frames!Pieces) : Ended(text)
<1>1. /\ accumulated \in Seq(Frames!Pieces) /\ turnText \in Seq(Frames!Pieces)
      /\ said = turnText \o accumulated
  BY DEF WrittenInv, Frames!TypeOK, TextIsKept
<1>2. CASE Frames!TurnBroken
  BY <1>1, <1>2, EndWrites DEF Frames!TurnBroken, Ended
<1>3. CASE Frames!TurnCompleted
  <2>1. PICK n \in 0..MaxPieces :
          /\ pieces # 0 => n = pieces
          /\ said' = IF pieces = 0 THEN said \o Frames!Text(call, n) ELSE said
          /\ Frames!Finish(IF accumulated # <<>> THEN accumulated ELSE Frames!Text(call, n), <<>>)
    BY <1>3 DEF Frames!TurnCompleted
  <2>2. /\ Frames!CallsMade(call) = {} /\ stage = "replied" /\ stage' = "over"
        /\ UNCHANGED <<running, call, pieces, tools, pending, usage>>
    BY <1>3 DEF Frames!TurnCompleted
  <2>3. call \in 1..MaxCalls /\ pieces \in 0..MaxPieces
    BY DEF WrittenInv, Frames!TypeOK
  <2>4. accumulated = Frames!Text(call, pieces)
    BY <2>2 DEF WrittenInv, TextIsOfCall
  <2>5. Frames!Text(call, n) \in Seq(Frames!Pieces) /\ (pieces = 0 => accumulated = <<>>)
    BY <2>3, <2>4, TextOfPieces
  <2>. DEFINE text == IF accumulated # <<>> THEN accumulated ELSE Frames!Text(call, n)
  <2>6. text \in Seq(Frames!Pieces)
    BY <1>1, <2>5
  <2>7. said' = turnText \o text
    <3>1. CASE pieces = 0
      <4>1. said = turnText /\ text = Frames!Text(call, n)
        BY <1>1, <2>5, <3>1
      <4>. QED  BY <2>1, <3>1, <4>1
    <3>2. CASE pieces # 0
      <4>1. n = pieces /\ text = accumulated
        BY <2>1, <2>4, <3>2
      <4>. QED  BY <1>1, <2>1, <3>2, <4>1
    <3>. QED  BY <3>1, <3>2
  <2>8. Wrote(text, <<>>, TRUE) /\ finished' = TRUE
    BY <2>1, <2>6, EndWrites
  <2>. HIDE DEF text
  <2>. QED  BY <2>2, <2>6, <2>7, <2>8 DEF Ended
<1>. QED  BY <1>2, <1>3

\* While a model call streams it has made no calls, so its text is all there is, and
\* appending to it and taking over the running text are the same.
LEMMA TextStreams ==
  ASSUME WrittenInv, stage = "calling"
  PROVE  /\ Frames!CallsMade(call) = {} /\ accumulated = Frames!Text(call, pieces)
         /\ pieces = 0 => accumulated = <<>>
         /\ Frames!StreamDelta =>
              /\ [call |-> call, n |-> pieces + 1] \in Frames!Pieces
              /\ Frames!RunningText = Append(accumulated, [call |-> call, n |-> pieces + 1])
              /\ Frames!RunningText = Frames!Text(call, pieces + 1)
<1>1. call \in 1..MaxCalls /\ pieces \in 0..MaxPieces
  BY DEF WrittenInv, Frames!TypeOK
<1>2. Frames!CallsMade(call) = {}
  <2>1. \A i \in 1..Len(tools) : tools[i] # call
    <3>1. \A i \in 1..Len(tools) : tools[i] < call /\ tools[i] \in 1..MaxCalls
      BY ElementsOf DEF WrittenInv, CallsSoFar, Frames!TypeOK
    <3>. QED  BY <1>1, <3>1
  <2>. QED  BY <2>1 DEF Frames!CallsMade
<1>3. accumulated = Frames!Text(call, pieces)
  BY <1>2 DEF WrittenInv, TextIsOfCall
<1>4. Frames!StreamDelta => pieces < MaxPieces
  BY DEF Frames!StreamDelta
<1>. QED  BY <1>1, <1>2, <1>3, <1>4, TextOfPieces DEF Frames!RunningText

LEMMA WrittenSteps ==
  ASSUME [Frames!Next]_(Frames!vars)
  PROVE  \/ Frames!StreamStart \/ Frames!StreamDelta \/ Frames!LlmResponseReceived
         \/ Frames!ToolCallFrame \/ (\E i \in pending : Frames!ToolResultFrame(i))
         \/ Frames!NextCall \/ Frames!TurnCompleted \/ Frames!TurnBroken
         \/ UNCHANGED Frames!vars
  BY DEF Frames!Next

LEMMA ResultsFollow ==
  ASSUME WrittenInv, NEW i \in pending, Frames!ToolResultFrame(i)
  PROVE  /\ i \in Nat /\ entries' \in Seq(Entries) /\ Len(entries') = Len(entries) + 1
         /\ \A k \in 1..Len(entries) : entries'[k] = entries[k]
         /\ entries'[Len(entries) + 1].kind = "result" /\ entries'[Len(entries) + 1].of = i
         /\ ComesTo(TextsOf(entries'), turnText)
<1>. DEFINE e == [kind |-> "result", of |-> i]
<1>1. /\ i \in Nat /\ entries \in Seq(Entries) /\ ComesTo(TextsOf(entries), turnText)
      /\ turnText \o <<>> = turnText
  BY DEF WrittenInv, TextIsKept, Frames!TypeOK
<1>2. e \in Entries /\ e.kind = "result" /\ e.of = i
  BY <1>1 DEF Entries, Frames!Result
<1>3. entries' = Append(entries, e)
  BY DEF Frames!ToolResultFrame
<1>4. <<>> \in Seq(Frames!Pieces) /\ <<>> = IF e.kind = "assistant" THEN e.text ELSE <<>>
  BY <1>2
<1>. HIDE DEF e
<1>5. /\ entries' \in Seq(Entries) /\ Len(entries') = Len(entries) + 1
      /\ \A k \in 1..Len(entries) : entries'[k] = entries[k]
      /\ entries'[Len(entries) + 1] = e
      /\ ComesTo(TextsOf(entries'), turnText \o <<>>)
  BY <1>1, <1>2, <1>3, <1>4, TextsGrow
<1>. QED  BY <1>1, <1>2, <1>5

LEMMA WrittenTypes ==
  ASSUME WrittenInv, [Frames!Next]_(Frames!vars)
  PROVE  Frames!TypeOK' /\ (entries \in Seq(Entries))'
<1>. USE DEF Frames!rendererVars, Frames!turnVars
<1>0. /\ call \in 1..MaxCalls /\ pieces \in 0..MaxPieces
      /\ stage \in {"calling", "replied", "over"}
      /\ tools \in Seq(1..MaxCalls) /\ pending \subseteq 1..Len(tools)
      /\ said \in Seq(Frames!Pieces)
      /\ accumulated \in Seq(Frames!Pieces) /\ turnText \in Seq(Frames!Pieces)
      /\ pendingToolCalls = <<>> /\ usage \in 0..MaxCalls
      /\ streaming \in BOOLEAN /\ finished \in BOOLEAN
      /\ block \in [open : BOOLEAN, text : Seq(Frames!Pieces)]
      /\ entries \in Seq(Entries)
  BY DEF WrittenInv, CallsSoFar, Frames!TypeOK
<1>1. ASSUME /\ call' \in 1..MaxCalls /\ pieces' \in 0..MaxPieces
             /\ stage' \in {"calling", "replied", "over"}
             /\ tools' \in Seq(1..MaxCalls) /\ pending' \subseteq 1..Len(tools')
             /\ said' \in Seq(Frames!Pieces)
             /\ accumulated' \in Seq(Frames!Pieces) /\ turnText' \in Seq(Frames!Pieces)
             /\ pendingToolCalls' = <<>> /\ usage' \in 0..MaxCalls
             /\ streaming' \in BOOLEAN /\ finished' \in BOOLEAN
             /\ block' \in [open : BOOLEAN, text : Seq(Frames!Pieces)]
             /\ entries' \in Seq(Entries)
      PROVE  Frames!TypeOK' /\ (entries \in Seq(Entries))'
  <2>1. \A i \in 1..Len(entries') :
          entries'[i] \in Frames!Assistant \cup Frames!Result \cup Frames!Notice
    BY <1>1, ElementsOf DEF Entries
  <2>2. pendingToolCalls' \in Seq(1..Len(tools'))
    BY <1>1
  <2>. QED  BY <1>1, <2>1, <2>2 DEF Frames!TypeOK
<1>2. \A open \in BOOLEAN, text \in Seq(Frames!Pieces) :
        [open |-> open, text |-> text] \in [open : BOOLEAN, text : Seq(Frames!Pieces)]
  OBVIOUS
<1>3. CASE Frames!StreamStart
  <2>1. block' \in [open : BOOLEAN, text : Seq(Frames!Pieces)]
    BY <1>0, <1>2, <1>3 DEF Frames!StreamStart
  <2>. QED  BY <1>0, <1>1, <1>3, <2>1 DEF Frames!StreamStart
<1>4. CASE Frames!StreamDelta
  <2>1. stage = "calling" /\ pieces' \in 0..MaxPieces
    BY <1>0, <1>4, RoomAssumption DEF Frames!StreamDelta
  <2>2. /\ [call |-> call, n |-> pieces + 1] \in Frames!Pieces
        /\ accumulated' = Append(accumulated, [call |-> call, n |-> pieces + 1])
        /\ said' = Append(said, [call |-> call, n |-> pieces + 1])
        /\ block' = [open |-> TRUE, text |-> accumulated']
    BY <1>4, <2>1, TextStreams DEF Frames!StreamDelta
  <2>3. said' \in Seq(Frames!Pieces) /\ accumulated' \in Seq(Frames!Pieces)
    BY <1>0, <2>2
  <2>4. block' \in [open : BOOLEAN, text : Seq(Frames!Pieces)]
    BY <1>2, <2>2, <2>3
  <2>. QED  BY <1>0, <1>1, <1>4, <2>1, <2>3, <2>4 DEF Frames!StreamDelta
<1>5. CASE Frames!LlmResponseReceived
  <2>1. usage' \in 0..MaxCalls
    BY <1>0, <1>5 DEF Frames!LlmResponseReceived
  <2>. QED  BY <1>0, <1>1, <1>5, <2>1 DEF Frames!LlmResponseReceived
<1>6. ASSUME NEW text \in Seq(Frames!Pieces), NEW calls, NEW final, Wrote(text, calls, final)
      PROVE  /\ accumulated' \in Seq(Frames!Pieces) /\ turnText' \in Seq(Frames!Pieces)
             /\ pendingToolCalls' = <<>> /\ streaming' \in BOOLEAN
             /\ block' \in [open : BOOLEAN, text : Seq(Frames!Pieces)]
             /\ entries' \in Seq(Entries)
  <2>1. block' \in [open : BOOLEAN, text : Seq(Frames!Pieces)]
    BY <1>0, <1>2, <1>6 DEF Wrote, Frames!ClosedBlock
  <2>2. turnText' \in Seq(Frames!Pieces)
    <3>1. turnText' = turnText \o text
      BY <1>6 DEF Wrote
    <3>. QED  BY <1>0, <1>6, <3>1
  <2>3. /\ accumulated' = <<>> /\ pendingToolCalls' = <<>> /\ streaming' = FALSE
        /\ entries' \in Seq(Entries)
    BY <1>6 DEF Wrote
  <2>4. <<>> \in Seq(Frames!Pieces)
    OBVIOUS
  <2>. QED  BY <2>1, <2>2, <2>3, <2>4
<1>7. CASE Frames!ToolCallFrame
  <2>1. tools' = Append(tools, call) /\ pending' = pending \cup {Len(tools) + 1}
    BY <1>7 DEF Frames!ToolCallFrame
  <2>2. tools' \in Seq(1..MaxCalls) /\ Len(tools') = Len(tools) + 1 /\ Len(tools) \in Nat
    BY <1>0, <2>1
  <2>3. pending' \subseteq 1..Len(tools')
    <3>1. 1..Len(tools') = 1..Len(tools) \cup {Len(tools) + 1}
      BY <2>2
    <3>. QED  BY <1>0, <2>1, <3>1
  <2>4. Wrote(accumulated, <<Len(tools) + 1>>, FALSE)
    BY <1>7, ToolCallWrites
  <2>5. /\ accumulated' \in Seq(Frames!Pieces) /\ turnText' \in Seq(Frames!Pieces)
        /\ pendingToolCalls' = <<>> /\ streaming' \in BOOLEAN
        /\ block' \in [open : BOOLEAN, text : Seq(Frames!Pieces)]
        /\ entries' \in Seq(Entries)
    BY <1>0, <1>6, <2>4
  <2>. QED  BY <1>0, <1>1, <1>7, <2>2, <2>3, <2>5 DEF Frames!ToolCallFrame
<1>8. ASSUME NEW i \in pending, Frames!ToolResultFrame(i)
      PROVE  Frames!TypeOK' /\ (entries \in Seq(Entries))'
  <2>1. entries' \in Seq(Entries)
    BY <1>8, ResultsFollow
  <2>. QED  BY <1>0, <1>1, <1>8, <2>1 DEF Frames!ToolResultFrame
<1>9. CASE Frames!NextCall
  <2>1. call' \in 1..MaxCalls
    <3>1. PICK i \in 1..Len(tools) : tools[i] = call
      BY <1>9 DEF Frames!NextCall, Frames!CallsMade
    <3>2. call < MaxCalls
      BY <3>1 DEF WrittenInv, CallsSoFar
    <3>. QED  BY <1>0, <1>9, <3>2, RoomAssumption DEF Frames!NextCall
  <2>2. pieces' \in 0..MaxPieces /\ stage' = "calling"
    BY <1>9, RoomAssumption DEF Frames!NextCall
  <2>. QED  BY <1>0, <1>1, <1>9, <2>1, <2>2 DEF Frames!NextCall
<1>10. CASE Frames!TurnCompleted \/ Frames!TurnBroken
  <2>1. PICK text \in Seq(Frames!Pieces) : Ended(text)
    BY <1>10, TurnsEnd
  <2>2. /\ accumulated' \in Seq(Frames!Pieces) /\ turnText' \in Seq(Frames!Pieces)
        /\ pendingToolCalls' = <<>> /\ streaming' \in BOOLEAN
        /\ block' \in [open : BOOLEAN, text : Seq(Frames!Pieces)]
        /\ entries' \in Seq(Entries)
    BY <1>6, <2>1 DEF Ended
  <2>3. said' \in Seq(Frames!Pieces)
    BY <1>0, <2>1 DEF Ended
  <2>. QED  BY <1>0, <1>1, <2>1, <2>2, <2>3 DEF Ended
<1>11. CASE UNCHANGED Frames!vars
  BY <1>0, <1>1, <1>11 DEF Frames!vars
<1>. QED  BY <1>3, <1>4, <1>5, <1>7, <1>8, <1>9, <1>10, <1>11, WrittenSteps

LEMMA StaysTextIsKept ==
  ASSUME WrittenInv, [Frames!Next]_(Frames!vars)
  PROVE  TextIsKept'
<1>. USE DEF Frames!rendererVars, Frames!turnVars
<1>0. /\ accumulated \in Seq(Frames!Pieces) /\ turnText \in Seq(Frames!Pieces)
      /\ said \in Seq(Frames!Pieces) /\ TextIsKept /\ entries \in Seq(Entries)
  BY DEF WrittenInv, Frames!TypeOK
<1>1. ASSUME UNCHANGED <<turnText, accumulated, said, entries>>
      PROVE  TextIsKept'
  BY <1>0, <1>1 DEF TextIsKept, TextsOf
<1>2. CASE Frames!StreamDelta
  <2>. DEFINE new == [call |-> call, n |-> pieces + 1]
  <2>1. /\ new \in Frames!Pieces /\ accumulated' = Append(accumulated, new)
        /\ said' = Append(said, new) /\ UNCHANGED <<turnText, entries>>
    BY <1>2, TextStreams DEF Frames!StreamDelta
  <2>. HIDE DEF new
  <2>2. turnText \o Append(accumulated, new) = Append(turnText \o accumulated, new)
    BY <1>0, <2>1
  <2>. QED  BY <1>0, <2>1, <2>2 DEF TextIsKept, TextsOf
<1>3. ASSUME NEW text \in Seq(Frames!Pieces), NEW calls, NEW final, Wrote(text, calls, final),
             said' = turnText \o text
      PROVE  TextIsKept'
  <2>1. turnText' = turnText \o text /\ accumulated' = <<>> /\ ComesTo(TextsOf(entries'), turnText')
    BY <1>3 DEF Wrote
  <2>2. turnText' \o accumulated' = said'
    BY <1>0, <1>3, <2>1
  <2>. QED  BY <2>1, <2>2 DEF TextIsKept
<1>4. CASE Frames!ToolCallFrame
  <2>1. Wrote(accumulated, <<Len(tools) + 1>>, FALSE) /\ said' = said
    BY <1>4, ToolCallWrites DEF Frames!ToolCallFrame
  <2>. QED  BY <1>0, <1>3, <2>1 DEF TextIsKept
<1>5. ASSUME NEW i \in pending, Frames!ToolResultFrame(i)
      PROVE  TextIsKept'
  <2>1. ComesTo(TextsOf(entries'), turnText) /\ UNCHANGED <<turnText, accumulated, said>>
    BY <1>5, ResultsFollow DEF Frames!ToolResultFrame
  <2>. QED  BY <1>0, <2>1 DEF TextIsKept
<1>6. CASE Frames!TurnCompleted \/ Frames!TurnBroken
  BY <1>3, <1>6, TurnsEnd DEF Ended
<1>7. CASE Frames!StreamStart \/ Frames!LlmResponseReceived \/ Frames!NextCall \/ UNCHANGED Frames!vars
  BY <1>1, <1>7 DEF Frames!StreamStart, Frames!LlmResponseReceived, Frames!NextCall,
     Frames!vars
<1>. QED  BY <1>2, <1>4, <1>5, <1>6, <1>7, WrittenSteps

\* Where the messages are once more has been written.
LEMMA MessagesWritten ==
  ASSUME WrittenInv, NEW text, NEW calls, NEW final, Wrote(text, calls, final)
  PROVE  /\ Len(entries) \in Nat
         /\ \A m \in Frames!Messages :
              m \in Frames!Messages' /\ m \in 1..Len(entries) /\ entries'[m] = entries[m]
         /\ \A m \in Frames!Messages' :
              \/ m \in Frames!Messages
              \/ /\ m = Len(entries) + 1 /\ entries'[m].text = text
                 /\ entries'[m].calls = calls /\ entries'[m].usage = Frames!UsageOn(final)
<1>1. /\ Len(entries) \in Nat /\ Len(entries') \in Nat /\ Len(entries') >= Len(entries)
      /\ \A i \in 1..Len(entries) : entries'[i] = entries[i]
  BY DEF WrittenInv, Wrote
<1>2. ASSUME NEW m \in Frames!Messages
      PROVE  m \in Frames!Messages' /\ m \in 1..Len(entries) /\ entries'[m] = entries[m]
  <2>1. m \in 1..Len(entries) /\ entries[m].kind = "assistant"
    BY DEF Frames!Messages, Frames!IsMessage
  <2>2. m \in 1..Len(entries') /\ entries'[m] = entries[m]
    BY <1>1, <2>1
  <2>. QED  BY <2>1, <2>2 DEF Frames!Messages, Frames!IsMessage
<1>3. ASSUME NEW m \in Frames!Messages'
      PROVE  \/ m \in Frames!Messages
             \/ /\ m = Len(entries) + 1 /\ entries'[m].text = text
                /\ entries'[m].calls = calls /\ entries'[m].usage = Frames!UsageOn(final)
  <2>1. m \in 1..Len(entries') /\ entries'[m].kind = "assistant"
    BY DEF Frames!Messages, Frames!IsMessage
  <2>2. CASE m <= Len(entries)
    <3>1. m \in 1..Len(entries) /\ entries'[m] = entries[m]
      BY <1>1, <2>1, <2>2
    <3>. QED  BY <2>1, <3>1 DEF Frames!Messages, Frames!IsMessage
  <2>3. CASE m > Len(entries)
    BY <2>1, <2>3 DEF Wrote
  <2>. QED  BY <1>1, <2>1, <2>2, <2>3
<1>. QED  BY <1>1, <1>2, <1>3

LEMMA MessagesBeforeResult ==
  ASSUME WrittenInv, NEW i \in pending, Frames!ToolResultFrame(i)
  PROVE  /\ Frames!Messages' = Frames!Messages
         /\ \A m \in Frames!Messages : m \in 1..Len(entries) /\ entries'[m] = entries[m]
<1>1. /\ Len(entries) \in Nat /\ Len(entries') = Len(entries) + 1
      /\ \A k \in 1..Len(entries) : entries'[k] = entries[k]
      /\ entries'[Len(entries) + 1].kind = "result"
  BY ResultsFollow DEF WrittenInv
<1>2. ASSUME NEW m \in 1..Len(entries'), entries'[m].kind = "assistant"
      PROVE  m \in 1..Len(entries)
  BY <1>1, <1>2
<1>. QED  BY <1>1, <1>2 DEF Frames!Messages, Frames!IsMessage

\* A tool call is of the current model call, and is the last.
LEMMA CallIsLast ==
  ASSUME WrittenInv, Frames!ToolCallFrame
  PROVE  /\ Len(tools) \in Nat /\ Len(tools') = Len(tools) + 1
         /\ tools'[Len(tools) + 1] = call /\ \A i \in 1..Len(tools) : tools'[i] = tools[i]
         /\ 1..Len(tools') = 1..Len(tools) \cup {Len(tools) + 1}
         /\ \E m \in Frames!Messages' : Len(tools) + 1 \in Frames!ToSet(entries'[m].calls)
<1>1. tools \in Seq(1..MaxCalls) /\ tools' = Append(tools, call)
  BY DEF WrittenInv, Frames!TypeOK, Frames!ToolCallFrame
<1>2. Wrote(accumulated, <<Len(tools) + 1>>, FALSE)
  BY ToolCallWrites
<1>. DEFINE m == Len(entries) + 1
<1>3. /\ m \in 1..Len(entries') /\ entries'[m].kind = "assistant"
      /\ entries'[m].calls = <<Len(tools) + 1>>
  BY <1>2 DEF Wrote
<1>4. Len(tools) + 1 \in Frames!ToSet(entries'[m].calls)
  BY <1>3 DEF Frames!ToSet
<1>5. m \in Frames!Messages'
  BY <1>3 DEF Frames!Messages, Frames!IsMessage
<1>. HIDE DEF m
<1>6. /\ Len(tools) \in Nat /\ Len(tools') = Len(tools) + 1
      /\ tools'[Len(tools) + 1] = call /\ \A i \in 1..Len(tools) : tools'[i] = tools[i]
  BY <1>1
<1>7. 1..Len(tools') = 1..Len(tools) \cup {Len(tools) + 1}
  BY <1>6
<1>. QED  BY <1>4, <1>5, <1>6, <1>7

LEMMA StaysCallsSoFar ==
  ASSUME WrittenInv, [Frames!Next]_(Frames!vars)
  PROVE  CallsSoFar'
<1>. USE DEF Frames!rendererVars, Frames!turnVars
<1>0. /\ pendingToolCalls = <<>> /\ (finished <=> stage = "over")
      /\ \A i \in 1..Len(tools) :
           tools[i] <= call /\ tools[i] < MaxCalls /\ (stage = "calling" => tools[i] < call)
      /\ \A i \in 1..Len(tools) :
           \E m \in Frames!Messages : i \in Frames!ToSet(entries[m].calls)
      /\ \A m \in Frames!Messages : Frames!ToSet(entries[m].calls) \subseteq 1..Len(tools)
  BY DEF WrittenInv, CallsSoFar
<1>1. ASSUME /\ UNCHANGED tools /\ Frames!Messages' = Frames!Messages
             /\ \A m \in Frames!Messages : entries'[m] = entries[m]
             /\ pendingToolCalls' = <<>> /\ (finished' <=> stage' = "over")
             /\ \A i \in 1..Len(tools) :
                  tools[i] <= call' /\ (stage' = "calling" => tools[i] < call')
      PROVE  CallsSoFar'
  <2>1. \A i \in 1..Len(tools') :
          tools'[i] <= call' /\ tools'[i] < MaxCalls /\ (stage' = "calling" => tools'[i] < call')
    BY <1>0, <1>1
  <2>2. \A i \in 1..Len(tools') :
          \E m \in Frames!Messages' : i \in Frames!ToSet(entries'[m].calls)
    BY <1>0, <1>1
  <2>3. \A m \in Frames!Messages' : Frames!ToSet(entries'[m].calls) \subseteq 1..Len(tools')
    BY <1>0, <1>1
  <2>4. pendingToolCalls' = <<>> /\ (finished' <=> stage' = "over")
    BY <1>1
  <2>. QED  BY <2>1, <2>2, <2>3, <2>4 DEF CallsSoFar
<1>2. UNCHANGED entries =>
        Frames!Messages' = Frames!Messages /\ \A m \in Frames!Messages : entries'[m] = entries[m]
  BY DEF Frames!Messages, Frames!IsMessage
<1>3. CASE Frames!StreamStart \/ Frames!StreamDelta \/ UNCHANGED Frames!vars
  BY <1>0, <1>1, <1>2, <1>3 DEF Frames!StreamStart, Frames!StreamDelta, Frames!vars
<1>4. CASE Frames!LlmResponseReceived
  BY <1>0, <1>1, <1>2, <1>4 DEF Frames!LlmResponseReceived
<1>5. ASSUME NEW i \in pending, Frames!ToolResultFrame(i)
      PROVE  CallsSoFar'
  BY <1>0, <1>1, <1>5, MessagesBeforeResult DEF Frames!ToolResultFrame
<1>6. CASE Frames!NextCall
  <2>1. call \in Nat /\ call' = call + 1 /\ stage' = "calling" /\ stage = "replied"
        /\ UNCHANGED <<tools, entries, pendingToolCalls, finished>>
    BY <1>6 DEF Frames!NextCall, WrittenInv, Frames!TypeOK
  <2>2. \A i \in 1..Len(tools) : tools[i] \in Nat
    <3>1. \A i \in 1..Len(tools) : tools[i] \in 1..MaxCalls
      BY ElementsOf DEF WrittenInv, Frames!TypeOK
    <3>. QED  BY <3>1
  <2>3. \A i \in 1..Len(tools) : tools[i] <= call' /\ tools[i] < call'
    BY <1>0, <2>1, <2>2
  <2>. QED  BY <1>0, <1>1, <1>2, <2>1, <2>3
<1>7. CASE Frames!ToolCallFrame
  <2>1. Wrote(accumulated, <<Len(tools) + 1>>, FALSE) /\ pendingToolCalls' = <<>>
    BY <1>7, ToolCallWrites DEF Wrote
  <2>2. stage = "replied" /\ call < MaxCalls /\ UNCHANGED <<stage, finished, call>>
    BY <1>7 DEF Frames!ToolCallFrame
  <2>. DEFINE n == Len(tools) + 1
  <2>3. /\ n \in Nat /\ tools'[n] = call /\ \A i \in 1..Len(tools) : tools'[i] = tools[i]
        /\ 1..Len(tools') = 1..Len(tools) \cup {n}
        /\ \E m \in Frames!Messages' : n \in Frames!ToSet(entries'[m].calls)
    BY <1>7, CallIsLast
  <2>4. /\ \A m \in Frames!Messages :
             m \in Frames!Messages' /\ m \in 1..Len(entries) /\ entries'[m] = entries[m]
        /\ \A m \in Frames!Messages' :
             \/ m \in Frames!Messages
             \/ m = Len(entries) + 1 /\ entries'[m].calls = <<n>>
    <3>. HIDE DEF n
    <3>1. Wrote(accumulated, <<n>>, FALSE)
      BY <2>1 DEF n
    <3>. QED  BY <3>1, MessagesWritten
  <2>5. Frames!ToSet(<<n>>) = {n}
    BY DEF Frames!ToSet
  <2>. HIDE DEF n
  <2>6. call <= call
    BY DEF WrittenInv, Frames!TypeOK
  <2>7. \A i \in 1..Len(tools') :
          /\ tools'[i] <= call' /\ tools'[i] < MaxCalls /\ (stage' = "calling" => tools'[i] < call')
          /\ \E m \in Frames!Messages' : i \in Frames!ToSet(entries'[m].calls)
    <3>. SUFFICES ASSUME NEW i \in 1..Len(tools')
                  PROVE  /\ tools'[i] <= call /\ tools'[i] < MaxCalls
                         /\ \E m \in Frames!Messages' : i \in Frames!ToSet(entries'[m].calls)
      BY <2>2
    <3>1. CASE i = n
      BY <2>2, <2>3, <2>6, <3>1
    <3>2. CASE i \in 1..Len(tools)
      <4>1. PICK m \in Frames!Messages : i \in Frames!ToSet(entries[m].calls)
        BY <1>0, <3>2
      <4>2. m \in Frames!Messages' /\ entries'[m] = entries[m]
        BY <2>4
      <4>. QED  BY <1>0, <2>3, <3>2, <4>1, <4>2
    <3>. QED  BY <2>3, <3>1, <3>2
  <2>8. \A m \in Frames!Messages' : Frames!ToSet(entries'[m].calls) \subseteq 1..Len(tools')
    <3>. SUFFICES ASSUME NEW m \in Frames!Messages'
                  PROVE  Frames!ToSet(entries'[m].calls) \subseteq 1..Len(tools')
      OBVIOUS
    <3>1. CASE m \in Frames!Messages
      BY <1>0, <2>3, <2>4, <3>1
    <3>2. CASE entries'[m].calls = <<n>>
      BY <2>3, <2>5, <3>2
    <3>. QED  BY <2>4, <3>1, <3>2
  <2>9. finished' <=> stage' = "over"
    <3>1. finished <=> stage = "over"
      BY <1>0
    <3>2. finished' = finished /\ stage' = stage
      BY <2>2
    <3>. QED  BY <3>1, <3>2, Zenon
  <2>. QED  BY <2>1, <2>7, <2>8, <2>9 DEF CallsSoFar
<1>8. CASE Frames!TurnCompleted \/ Frames!TurnBroken
  <2>1. PICK text \in Seq(Frames!Pieces) : Ended(text)
    BY <1>8, TurnsEnd
  <2>2. /\ Wrote(text, <<>>, TRUE) /\ pendingToolCalls' = <<>>
        /\ stage' = "over" /\ finished' = TRUE /\ UNCHANGED <<call, tools>>
    BY <2>1 DEF Ended, Wrote
  <2>3. /\ \A m \in Frames!Messages :
             m \in Frames!Messages' /\ m \in 1..Len(entries) /\ entries'[m] = entries[m]
        /\ \A m \in Frames!Messages' :
             \/ m \in Frames!Messages
             \/ m = Len(entries) + 1 /\ entries'[m].calls = <<>>
    BY <2>2, MessagesWritten
  <2>4. Frames!ToSet(<<>>) = {}
    BY DEF Frames!ToSet
  <2>5. \A i \in 1..Len(tools) :
          \E m \in Frames!Messages' : i \in Frames!ToSet(entries'[m].calls)
    <3>. SUFFICES ASSUME NEW i \in 1..Len(tools)
                  PROVE  \E m \in Frames!Messages' : i \in Frames!ToSet(entries'[m].calls)
      OBVIOUS
    <3>1. PICK m \in Frames!Messages : i \in Frames!ToSet(entries[m].calls)
      BY <1>0
    <3>. QED  BY <2>3, <3>1
  <2>6. \A m \in Frames!Messages' : Frames!ToSet(entries'[m].calls) \subseteq 1..Len(tools)
    <3>. SUFFICES ASSUME NEW m \in Frames!Messages'
                  PROVE  Frames!ToSet(entries'[m].calls) \subseteq 1..Len(tools)
      OBVIOUS
    <3>1. CASE m \in Frames!Messages
      BY <1>0, <2>3, <3>1
    <3>2. CASE entries'[m].calls = <<>>
      BY <2>4, <3>2
    <3>. QED  BY <2>3, <3>1, <3>2
  <2>. QED  BY <1>0, <2>2, <2>5, <2>6 DEF CallsSoFar
<1>. QED  BY <1>3, <1>4, <1>5, <1>6, <1>7, <1>8, WrittenSteps

LEMMA StaysTextIsOfCall ==
  ASSUME WrittenInv, [Frames!Next]_(Frames!vars)
  PROVE  TextIsOfCall'
<1>. USE DEF Frames!rendererVars, Frames!turnVars
<1>0. /\ TextIsOfCall /\ call \in 1..MaxCalls /\ pieces \in 0..MaxPieces
      /\ \A i \in 1..Len(tools) : tools[i] <= call /\ tools[i] \in 1..MaxCalls
  BY ElementsOf DEF WrittenInv, CallsSoFar, Frames!TypeOK
<1>1. ASSUME UNCHANGED <<call, pieces, tools, accumulated>>, stage' # "over" => stage # "over"
      PROVE  TextIsOfCall'
  BY <1>0, <1>1 DEF TextIsOfCall, Frames!CallsMade, Frames!Text
<1>2. CASE \/ Frames!StreamStart \/ Frames!LlmResponseReceived \/ UNCHANGED Frames!vars
           \/ \E i \in pending : Frames!ToolResultFrame(i)
  BY <1>1, <1>2
     DEF Frames!StreamStart, Frames!LlmResponseReceived, Frames!vars, Frames!ToolResultFrame
<1>3. CASE Frames!StreamDelta
  <2>1. /\ Frames!CallsMade(call) = {} /\ accumulated' = Frames!Text(call, pieces + 1)
        /\ pieces' = pieces + 1 /\ UNCHANGED <<call, tools>>
    BY <1>3, TextStreams DEF Frames!StreamDelta
  <2>2. Frames!CallsMade(call)' = {}
    BY <2>1 DEF Frames!CallsMade
  <2>3. Frames!Text(call, pieces)' = Frames!Text(call, pieces + 1)
    BY <2>1 DEF Frames!Text
  <2>. QED  BY <2>1, <2>2, <2>3 DEF TextIsOfCall
<1>4. CASE Frames!ToolCallFrame
  <2>1. accumulated' = <<>> /\ call' = call
    BY <1>4, ToolCallWrites DEF Wrote, Frames!ToolCallFrame
  <2>2. Len(tools) + 1 \in 1..Len(tools') /\ tools'[Len(tools) + 1] = call
    BY <1>4, CallIsLast
  <2>3. Frames!CallsMade(call)' # {}
    BY <2>1, <2>2 DEF Frames!CallsMade
  <2>. QED  BY <2>1, <2>3 DEF TextIsOfCall
<1>5. CASE Frames!NextCall
  <2>1. /\ Frames!CallsMade(call) # {} /\ stage = "replied" /\ pieces' = 0
        /\ call' = call + 1 /\ UNCHANGED <<tools, accumulated>>
    BY <1>5 DEF Frames!NextCall
  <2>2. accumulated' = <<>>
    BY <1>0, <2>1 DEF TextIsOfCall
  <2>3. Frames!CallsMade(call)' = {}
    BY <1>0, <2>1 DEF Frames!CallsMade
  <2>4. Frames!Text(call, pieces)' = <<>>
    BY <2>1 DEF Frames!Text
  <2>. QED  BY <2>2, <2>3, <2>4 DEF TextIsOfCall
<1>6. CASE Frames!TurnCompleted \/ Frames!TurnBroken
  BY <1>6, TurnsEnd DEF Ended, TextIsOfCall
<1>. QED  BY <1>2, <1>3, <1>4, <1>5, <1>6, WrittenSteps

LEMMA StaysBlockIsPending ==
  ASSUME WrittenInv, [Frames!Next]_(Frames!vars)
  PROVE  Frames!BlockIsPending'
<1>. USE DEF Frames!rendererVars, Frames!turnVars
<1>0. /\ block.open = streaming
      /\ accumulated # <<>> => block = [open |-> TRUE, text |-> accumulated]
      /\ finished => ~block.open /\ accumulated = <<>> /\ pendingToolCalls = <<>>
      /\ (finished <=> stage = "over")
  BY DEF WrittenInv, CallsSoFar, Frames!BlockIsPending
<1>1. ASSUME UNCHANGED <<block, streaming, accumulated, finished, pendingToolCalls>>
      PROVE  Frames!BlockIsPending'
  <2>1. /\ block' = block /\ streaming' = streaming /\ accumulated' = accumulated
        /\ finished' = finished /\ pendingToolCalls' = pendingToolCalls
    BY <1>1
  <2>. QED  BY <1>0, <2>1, Zenon DEF Frames!BlockIsPending
<1>2. CASE Frames!StreamStart
  <2>1. stage = "calling" /\ accumulated = <<>>
    BY <1>2, TextStreams DEF Frames!StreamStart
  <2>2. streaming' = TRUE /\ accumulated' = <<>> /\ finished' = finished
    BY <1>2, <2>1 DEF Frames!StreamStart
  <2>3. block'.open = TRUE
    <3>1. CASE streaming
      BY <1>0, <1>2, <3>1 DEF Frames!StreamStart
    <3>2. CASE ~streaming
      BY <1>2, <3>2 DEF Frames!StreamStart
    <3>. QED  BY <3>1, <3>2
  <2>4. ~finished
    BY <1>0, <2>1
  <2>. QED  BY <2>2, <2>3, <2>4 DEF Frames!BlockIsPending
<1>3. CASE Frames!StreamDelta
  <2>1. /\ stage = "calling" /\ streaming' = TRUE
        /\ block' = [open |-> TRUE, text |-> accumulated'] /\ finished' = finished
    BY <1>3 DEF Frames!StreamDelta
  <2>2. ~finished
    BY <1>0, <2>1
  <2>. QED  BY <2>1, <2>2 DEF Frames!BlockIsPending
<1>4. ASSUME NEW text, NEW calls, NEW final, Wrote(text, calls, final)
      PROVE  Frames!BlockIsPending'
  <2>1. accumulated' = <<>> /\ pendingToolCalls' = <<>> /\ streaming' = FALSE
    BY <1>4 DEF Wrote
  <2>2. block'.open = FALSE
    <3>1. CASE streaming
      BY <1>4, <3>1 DEF Wrote, Frames!ClosedBlock
    <3>2. CASE ~streaming
      <4>1. block' = block
        BY <1>4, <3>2 DEF Wrote
      <4>2. streaming = FALSE
        BY <3>2 DEF WrittenInv, Frames!TypeOK
      <4>. QED  BY <1>0, <4>1, <4>2
    <3>. QED  BY <3>1, <3>2
  <2>. QED  BY <2>1, <2>2 DEF Frames!BlockIsPending
<1>5. CASE Frames!ToolCallFrame
  BY <1>4, <1>5, ToolCallWrites
<1>6. CASE Frames!TurnCompleted \/ Frames!TurnBroken
  BY <1>4, <1>6, TurnsEnd DEF Ended
<1>7. CASE \/ Frames!LlmResponseReceived \/ Frames!NextCall \/ UNCHANGED Frames!vars
           \/ \E i \in pending : Frames!ToolResultFrame(i)
  BY <1>1, <1>7
     DEF Frames!LlmResponseReceived, Frames!NextCall, Frames!vars, Frames!ToolResultFrame
<1>. QED  BY <1>2, <1>3, <1>5, <1>6, <1>7, WrittenSteps

\* What CallsInPlace asks of the k-th message.
ResultFollows(k) ==
    entries[k].kind = "result" =>
        \E m \in Frames!Messages : m < k /\ entries[k].of \in Frames!ToSet(entries[m].calls)
CallFollows(k) ==
    Frames!IsMessage(k) =>
        \A p \in Frames!ToSet(entries[k].text), m \in Frames!Messages,
           id \in Frames!ToSet(entries[k].calls) :
          /\ p.call = tools[id]
          /\ m < k => \A early \in Frames!ToSet(entries[m].calls) : tools[early] <= p.call

LEMMA EachInPlace ==
    Frames!CallsInPlace <=> \A k \in 1..Len(entries) : ResultFollows(k) /\ CallFollows(k)
  BY DEF Frames!CallsInPlace, ResultFollows, CallFollows

LEMMA EachInPlaceNext ==
    Frames!CallsInPlace' <=> \A k \in 1..Len(entries') : ResultFollows(k)' /\ CallFollows(k)'
  BY DEF Frames!CallsInPlace, ResultFollows, CallFollows

\* A message keeps the calls in place whose calls are those of its text, and of the
\* newest model call.
LEMMA WrittenInPlace ==
  ASSUME WrittenInv, NEW text, NEW calls, NEW final, Wrote(text, calls, final),
         \A i \in 1..Len(tools) : tools'[i] = tools[i],
         \A p \in Frames!ToSet(text), id \in Frames!ToSet(calls) :
           p.call = tools'[id] /\ \A e \in 1..Len(tools) : tools[e] <= p.call
  PROVE  Frames!CallsInPlace'
<1>. DEFINE n == Len(entries)
<1>1. /\ n \in Nat /\ Len(entries') \in Nat /\ Len(entries') >= n
      /\ \A i \in 1..n : entries'[i] = entries[i]
      /\ \A i \in 1..Len(entries') : i > n => entries'[i].kind # "result"
  BY DEF WrittenInv, Wrote
<1>2. /\ \A m \in Frames!Messages :
           m \in Frames!Messages' /\ m \in 1..n /\ entries'[m] = entries[m]
      /\ \A m \in Frames!Messages' :
           \/ m \in Frames!Messages
           \/ m = n + 1 /\ entries'[m].text = text /\ entries'[m].calls = calls
  BY MessagesWritten
<1>3. \A m \in Frames!Messages : Frames!ToSet(entries[m].calls) \subseteq 1..Len(tools)
  BY DEF WrittenInv, CallsSoFar
<1>4. \A k \in 1..n : ResultFollows(k) /\ CallFollows(k)
  BY EachInPlace DEF WrittenInv
<1>5. ASSUME NEW k \in 1..Len(entries')
      PROVE  ResultFollows(k)'
  <2>1. CASE entries'[k].kind = "result"
    <3>1. k \in 1..n /\ entries'[k] = entries[k]
      BY <1>1, <2>1
    <3>2. PICK m \in Frames!Messages :
            m < k /\ entries[k].of \in Frames!ToSet(entries[m].calls)
      BY <1>4, <2>1, <3>1 DEF ResultFollows
    <3>. QED  BY <1>2, <3>1, <3>2 DEF ResultFollows
  <2>. QED  BY <2>1 DEF ResultFollows
<1>6. ASSUME NEW k \in 1..Len(entries')
      PROVE  CallFollows(k)'
  <2>. SUFFICES ASSUME k \in Frames!Messages',
                       NEW p \in Frames!ToSet(entries'[k].text), NEW m \in Frames!Messages',
                       NEW id \in Frames!ToSet(entries'[k].calls)
                PROVE  /\ p.call = tools'[id]
                       /\ m < k => \A early \in Frames!ToSet(entries'[m].calls) :
                                     tools'[early] <= p.call
    BY DEF CallFollows, Frames!Messages, Frames!IsMessage
  <2>1. CASE k \in Frames!Messages
    <3>1. k \in 1..n /\ entries'[k] = entries[k] /\ id \in 1..Len(tools) /\ tools'[id] = tools[id]
      BY <1>2, <1>3, <2>1
    <3>2. /\ p \in Frames!ToSet(entries[k].text) /\ id \in Frames!ToSet(entries[k].calls)
          /\ Frames!IsMessage(k)
      BY <2>1, <3>1 DEF Frames!Messages
    <3>3. p.call = tools[id]
      BY <1>4, <2>1, <3>1, <3>2 DEF CallFollows
    <3>4. ASSUME m < k
          PROVE  \A early \in Frames!ToSet(entries'[m].calls) : tools'[early] <= p.call
      <4>1. m \in Frames!Messages
        BY <1>1, <1>2, <3>1, <3>4
      <4>2. \A early \in Frames!ToSet(entries[m].calls) : tools[early] <= p.call
        BY <1>4, <3>1, <3>2, <3>4, <4>1 DEF CallFollows
      <4>3. entries'[m] = entries[m] /\ Frames!ToSet(entries[m].calls) \subseteq 1..Len(tools)
        BY <1>2, <1>3, <4>1
      <4>. QED  BY <4>2, <4>3
    <3>. QED  BY <3>1, <3>3, <3>4
  <2>2. CASE k = n + 1 /\ entries'[k].text = text /\ entries'[k].calls = calls
    <3>1. p.call = tools'[id] /\ \A e \in 1..Len(tools) : tools[e] <= p.call
      BY <2>2
    <3>2. ASSUME m < k
          PROVE  \A early \in Frames!ToSet(entries'[m].calls) : tools'[early] <= p.call
      <4>1. m # n + 1
        BY <1>1, <2>2, <3>2
      <4>2. m \in Frames!Messages
        BY <1>2, <4>1
      <4>3. entries'[m] = entries[m] /\ Frames!ToSet(entries[m].calls) \subseteq 1..Len(tools)
        BY <1>2, <1>3, <4>2
      <4>. QED  BY <3>1, <4>3
    <3>. QED  BY <3>1, <3>2
  <2>. QED  BY <1>2, <2>1, <2>2
<1>. QED  BY <1>5, <1>6, EachInPlaceNext

LEMMA StaysCallsInPlace ==
  ASSUME WrittenInv, [Frames!Next]_(Frames!vars)
  PROVE  Frames!CallsInPlace'
<1>. USE DEF Frames!rendererVars, Frames!turnVars
<1>0. Frames!CallsInPlace
  BY DEF WrittenInv
<1>1. ASSUME UNCHANGED <<tools, entries>>
      PROVE  Frames!CallsInPlace'
  BY <1>0, <1>1 DEF Frames!CallsInPlace, Frames!Messages, Frames!IsMessage
<1>2. CASE \/ Frames!StreamStart \/ Frames!StreamDelta \/ Frames!LlmResponseReceived
           \/ Frames!NextCall \/ UNCHANGED Frames!vars
  BY <1>1, <1>2
     DEF Frames!StreamStart, Frames!StreamDelta, Frames!LlmResponseReceived,
         Frames!NextCall,
         Frames!vars
<1>3. ASSUME NEW i \in pending, Frames!ToolResultFrame(i)
      PROVE  Frames!CallsInPlace'
  <2>. DEFINE n == Len(entries)
  <2>1. /\ n \in Nat /\ Len(entries') = n + 1 /\ tools' = tools
        /\ \A k \in 1..n : entries'[k] = entries[k]
        /\ \A k \in 1..Len(entries') : k \notin 1..n =>
             k = n + 1 /\ entries'[k].kind = "result" /\ entries'[k].of = i
    BY <1>3, ResultsFollow DEF WrittenInv, Frames!ToolResultFrame
  <2>2. /\ Frames!Messages' = Frames!Messages
        /\ \A m \in Frames!Messages : m \in 1..n /\ entries'[m] = entries[m]
    BY <1>3, MessagesBeforeResult
  <2>3. \A k \in 1..n : ResultFollows(k) /\ CallFollows(k)
    BY <1>0, EachInPlace
  <2>. HIDE DEF n
  <2>4. ASSUME NEW k \in 1..Len(entries')
        PROVE  ResultFollows(k)'
    <3>1. CASE k \in 1..n
      BY <2>1, <2>2, <2>3, <3>1 DEF ResultFollows
    <3>2. CASE k \notin 1..n
      <4>1. k = n + 1 /\ entries'[k].of = i
        BY <2>1, <3>2
      <4>2. i \in 1..Len(tools)
        BY DEF WrittenInv, Frames!TypeOK
      <4>3. PICK m \in Frames!Messages : i \in Frames!ToSet(entries[m].calls)
        BY <4>2 DEF WrittenInv, CallsSoFar
      <4>4. m \in Frames!Messages' /\ m < k /\ entries'[m] = entries[m]
        BY <2>1, <2>2, <4>1
      <4>. QED  BY <4>1, <4>3, <4>4 DEF ResultFollows
    <3>. QED  BY <3>1, <3>2
  <2>5. ASSUME NEW k \in 1..Len(entries')
        PROVE  CallFollows(k)'
    <3>1. CASE k \in 1..n
      BY <2>1, <2>2, <2>3, <3>1 DEF CallFollows, Frames!IsMessage
    <3>2. CASE k \notin 1..n
      BY <2>1, <3>2 DEF CallFollows, Frames!IsMessage
    <3>. QED  BY <3>1, <3>2
  <2>. QED  BY <2>4, <2>5, EachInPlaceNext
<1>4. CASE Frames!ToolCallFrame
  <2>. DEFINE id == Len(tools) + 1
  <2>1. Wrote(accumulated, <<id>>, FALSE)
    BY <1>4, ToolCallWrites
  <2>2. tools'[id] = call /\ \A i \in 1..Len(tools) : tools'[i] = tools[i]
    BY <1>4, CallIsLast
  <2>3. Frames!ToSet(<<id>>) = {id}
    BY DEF Frames!ToSet
  <2>. HIDE DEF id
  <2>4. \A p \in Frames!ToSet(accumulated) : p.call = call
    <3>1. accumulated = <<>> \/ accumulated = Frames!Text(call, pieces)
      BY <1>4 DEF WrittenInv, TextIsOfCall, Frames!ToolCallFrame
    <3>2. call \in 1..MaxCalls /\ pieces \in 0..MaxPieces
      BY DEF WrittenInv, Frames!TypeOK
    <3>3. \A i \in DOMAIN accumulated : accumulated[i].call = call
      BY <3>1, <3>2 DEF Frames!Text
    <3>. QED  BY <3>3 DEF Frames!ToSet
  <2>5. \A e \in 1..Len(tools) : tools[e] <= call
    BY DEF WrittenInv, CallsSoFar
  <2>. QED  BY <2>1, <2>2, <2>3, <2>4, <2>5, WrittenInPlace
<1>5. CASE Frames!TurnCompleted \/ Frames!TurnBroken
  <2>1. PICK text \in Seq(Frames!Pieces) : Ended(text)
    BY <1>5, TurnsEnd
  <2>2. Wrote(text, <<>>, TRUE) /\ tools' = tools
    BY <2>1 DEF Ended
  <2>3. Frames!ToSet(<<>>) = {}
    BY DEF Frames!ToSet
  <2>. QED  BY <2>2, <2>3, WrittenInPlace
<1>. QED  BY <1>2, <1>3, <1>4, <1>5, WrittenSteps

LEMMA StaysUsageOnClosing ==
  ASSUME WrittenInv, [Frames!Next]_(Frames!vars)
  PROVE  Frames!UsageOnClosing'
<1>. USE DEF Frames!rendererVars, Frames!turnVars
<1>0. Frames!UsageOnClosing /\ (finished <=> stage = "over")
  BY DEF WrittenInv, CallsSoFar
<1>1. stage # "over" => \A m \in Frames!Messages : entries[m].usage = Frames!NoUsage
  BY <1>0 DEF Frames!UsageOnClosing
<1>2. ASSUME \A m \in Frames!Messages' : entries'[m].usage = Frames!NoUsage
      PROVE  Frames!UsageOnClosing'
  BY <1>2 DEF Frames!UsageOnClosing, Frames!NoUsage
<1>3. CASE UNCHANGED Frames!vars
  BY <1>0, <1>3 DEF Frames!UsageOnClosing, Frames!vars, Frames!Messages, Frames!IsMessage
<1>4. CASE \/ Frames!StreamStart \/ Frames!StreamDelta \/ Frames!LlmResponseReceived
           \/ Frames!NextCall
  <2>1. stage # "over" /\ entries' = entries
    BY <1>4
       DEF Frames!StreamStart, Frames!StreamDelta, Frames!LlmResponseReceived,
           Frames!NextCall
  <2>. QED  BY <1>1, <1>2, <2>1 DEF Frames!Messages, Frames!IsMessage
<1>5. ASSUME NEW i \in pending, Frames!ToolResultFrame(i)
      PROVE  Frames!UsageOnClosing'
  BY <1>1, <1>2, <1>5, MessagesBeforeResult DEF Frames!ToolResultFrame
<1>6. CASE Frames!ToolCallFrame
  <2>1. PICK calls, final : Wrote(accumulated, calls, final) /\ final = FALSE
    BY <1>6, ToolCallWrites
  <2>2. Frames!UsageOn(final) = Frames!NoUsage /\ stage # "over"
    BY <1>6, <2>1 DEF Frames!UsageOn, Frames!ToolCallFrame
  <2>3. /\ \A m \in Frames!Messages : entries'[m] = entries[m]
        /\ \A m \in Frames!Messages' :
             m \in Frames!Messages \/ entries'[m].usage = Frames!UsageOn(final)
    BY <2>1, MessagesWritten
  <2>. QED  BY <1>1, <1>2, <2>2, <2>3
<1>7. CASE Frames!TurnCompleted \/ Frames!TurnBroken
  <2>1. PICK text \in Seq(Frames!Pieces) : Ended(text)
    BY <1>7, TurnsEnd
  <2>2. Wrote(text, <<>>, TRUE) /\ stage # "over" /\ finished' = TRUE /\ usage' = usage
    BY <2>1 DEF Ended
  <2>3. Frames!UsageOn(TRUE) = usage
    BY DEF Frames!UsageOn
  <2>4. /\ Len(entries) \in Nat
        /\ \A m \in Frames!Messages : m \in 1..Len(entries) /\ entries'[m] = entries[m]
        /\ \A m \in Frames!Messages' :
             \/ m \in Frames!Messages
             \/ m = Len(entries) + 1 /\ entries'[m].usage = usage
    BY <2>2, <2>3, MessagesWritten
  <2>5. ASSUME NEW m \in Frames!Messages', entries'[m].usage # Frames!NoUsage
        PROVE  entries'[m].usage = usage /\ \A j \in Frames!Messages' : j <= m
    <3>1. m = Len(entries) + 1 /\ entries'[m].usage = usage
      BY <1>1, <2>2, <2>4, <2>5
    <3>2. \A j \in Frames!Messages' : j <= Len(entries) + 1
      BY <2>4
    <3>. QED  BY <3>1, <3>2
  <2>. QED  BY <2>2, <2>5 DEF Frames!UsageOnClosing, Frames!NoUsage
<1>. QED  BY <1>3, <1>4, <1>5, <1>6, <1>7, WrittenSteps

LEMMA WrittenPreserved == WrittenInv /\ [Frames!Next]_(Frames!vars) => WrittenInv'
  BY WrittenTypes, StaysCallsSoFar, StaysTextIsOfCall, StaysTextIsKept, StaysBlockIsPending,
     StaysCallsInPlace, StaysUsageOnClosing DEF WrittenInv

LEMMA WrittenMeansIt == WrittenInv => TurnIsWritten
<1>. SUFFICES ASSUME WrittenInv
              PROVE  TurnIsWritten
  OBVIOUS
<1>1. Frames!FlattenSeq(TextsOf(entries)) = turnText
  BY FlattenedIs DEF WrittenInv, TextIsKept
<1>2. TextsOf(entries)
        = [i \in 1..Len(entries) |-> IF Frames!IsMessage(i) THEN entries[i].text ELSE <<>>]
  BY DEF TextsOf, Frames!IsMessage
<1>3. Frames!Written = turnText
  BY <1>1, <1>2 DEF Frames!Written
<1>4. Frames!TextOnce
  BY <1>3 DEF Frames!TextOnce, WrittenInv, TextIsKept
<1>. QED  BY <1>4 DEF TurnIsWritten, WrittenInv

\* Whatever a turn runs and wherever it breaks off, the text its frames carried is in the
\* messages once and in order, or still in the streaming block; a tool call is on a message
\* before its result and after its text; the turn's accounting is on its last message.
THEOREM TurnsAreWritten == Frames!Spec => []TurnIsWritten
<1>. QED  BY WrittenInit, WrittenPreserved, WrittenMeansIt, PTL DEF Frames!Spec
=============================================================================
