----------------------- MODULE ApprovalsView_proofs -----------------------
(***************************************************************************)
(* Proofs about ApprovalsView for every set of asks, streams and requests. *)
(***************************************************************************)
EXTENDS ApprovalsView, SequenceTheorems, TLAPS

USE DEF readVars

LEMMA NoRowsType == NoRows \in RowMap
  BY DEF NoRows, RowMap, Status

\* The empty queue is a queue.
LEMMA EmptyNotices == << >> \in Seq(Notice)
  OBVIOUS

\* Starting a read, where it does anything, keeps the requests well-typed.
LEMMA StartReadType ==
  ASSUME TypeOK, StartRead
  PROVE  reads' \in [Reads -> Read] /\ raced' \in BOOLEAN
<1>1. CASE InFlight = {}
  <2>1. /\ reads' = [reads EXCEPT ![FreeRead] = [IdleRead EXCEPT !.phase = "sent"]]
        /\ raced' = FALSE
    BY <1>1 DEF StartRead
  <2>2. [IdleRead EXCEPT !.phase = "sent"] \in Read
    BY NoRowsType DEF IdleRead, Read
  <2>. QED  BY <2>1, <2>2 DEF TypeOK
<1>2. CASE InFlight # {}
  BY <1>2 DEF StartRead, TypeOK, readVars
<1>. QED  BY <1>1, <1>2

\* Opening a stream keeps the wire and the opening handle well-typed.
LEMMA OpenStreamType ==
  ASSUME TypeOK, NEW b \in BOOLEAN, OpenStream(b)
  PROVE  /\ wire' \in [Streams -> {"free", "requested", "attached", "broken"}]
         /\ opening' \in Streams \cup {NoStream}
  BY DEF OpenStream, TypeOK

\* Every variable keeps its type.
THEOREM TypeCorrect == Spec => []TypeOK
<1>1. Init => TypeOK
  <2>1. IdleRead \in Read
    BY NoRowsType DEF IdleRead, Read
  <2>. QED  BY <2>1, NoRowsType, EmptyNotices DEF Init, TypeOK
<1>2. ASSUME TypeOK, [Next]_vars
      PROVE  TypeOK'
  <2>. USE <1>2
  <2>1. ASSUME NEW a \in Asks, NEW status \in Status, Transition(a, status)
        PROVE  TypeOK'
    <3>1. record' \in RowMap
      BY <2>1 DEF Transition, TypeOK, RowMap
    <3>2. [ask |-> a, status |-> status] \in Notice
      BY <2>1 DEF Notice
    <3>3. notices' \in [Streams -> Seq(Notice)]
      BY <2>1, <3>2 DEF Transition, TypeOK
    <3>. QED  BY <2>1, <3>1, <3>3 DEF Transition, TypeOK, panelVars, modeVars
  <2>2. CASE LinkDrops
    BY <2>2 DEF LinkDrops, TypeOK, panelVars, modeVars
  <2>3. CASE LinkReturns
    BY <2>3 DEF LinkReturns, TypeOK, panelVars, modeVars, streamVars
  <2>4. ASSUME NEW r \in Reads, AnswerList(r)
        PROVE  TypeOK'
    <3>1. [phase |-> "answered", rows |-> record] \in Read
      BY DEF TypeOK, Read
    <3>2. reads' \in [Reads -> Read]
      BY <2>4, <3>1 DEF AnswerList, TypeOK
    <3>. QED  BY <2>4, <3>2
              DEF AnswerList, TypeOK, daemonVars, panelVars, modeVars, streamVars
  <2>5. ASSUME NEW r \in Reads, ReplyLands(r)
        PROVE  TypeOK'
    <3>1. reads[r].rows \in RowMap
      BY DEF TypeOK, Read
    <3>2. hostRows' \in RowMap
      BY <2>5, <3>1 DEF ReplyLands, ReadableRows, RowMap, Status
    <3>3. hostReason' \in {"none", "unreadable"}
      BY <2>5 DEF ReplyLands, ReplyReason
    <3>4. reads' \in [Reads -> Read]
      BY <2>5, NoRowsType DEF ReplyLands, TypeOK, IdleRead, Read
    <3>. QED  BY <2>5, <3>2, <3>3, <3>4
              DEF ReplyLands, TypeOK, daemonVars, streamVars, modeVars
  <2>6. ASSUME NEW r \in Reads, ReadFails(r)
        PROVE  TypeOK'
    <3>1. reads' \in [Reads -> Read]
      BY <2>6, NoRowsType DEF ReadFails, TypeOK, IdleRead, Read
    <3>. QED  BY <2>6, <3>1, NoRowsType
              DEF ReadFails, TypeOK, daemonVars, streamVars, modeVars
  <2>7. ASSUME NEW s \in Streams, AttachStream(s)
        PROVE  TypeOK'
    BY <2>7 DEF AttachStream, TypeOK, daemonVars, panelVars, modeVars
  <2>8. ASSUME NEW s \in Streams, OnUpdate(s)
        PROVE  TypeOK'
    <3>1. /\ notices[s] \in Seq(Notice)
          /\ Head(notices[s]) \in Notice
          /\ Tail(notices[s]) \in Seq(Notice)
      BY <2>8 DEF OnUpdate, TypeOK
    <3>2. notices' \in [Streams -> Seq(Notice)]
      BY <2>8, <3>1 DEF OnUpdate, TypeOK
    <3>3. hostRows' \in RowMap
      BY <2>8, <3>1
      DEF OnUpdate, TypeOK, ApplyApprovalUpdate, RowMap, Notice, Status, panelVars
    <3>4. hostReason' \in {"none", "unread", "failed", "unreadable"}
      BY <2>8 DEF OnUpdate, TypeOK, panelVars
    <3>. QED  BY <2>8, <3>2, <3>3, <3>4
              DEF OnUpdate, TypeOK, daemonVars, modeVars
  <2>9. CASE OpenLands
    BY <2>9, EmptyNotices
    DEF OpenLands, TypeOK, Cadence, daemonVars, streamVars, panelVars
  <2>10. CASE OpenFails
    BY <2>10 DEF OpenFails, TypeOK, daemonVars, panelVars
  <2>11. CASE OnTerminate
    BY <2>11, EmptyNotices DEF OnTerminate, TypeOK, Cadence, daemonVars, panelVars
  <2>12. CASE Refresh
    BY <2>12, StartReadType
    DEF Refresh, TypeOK, daemonVars, streamVars, panelVars, modeVars
  <2>13. CASE Tick
    <3>1. reads' \in [Reads -> Read] /\ raced' \in BOOLEAN
      BY <2>13, StartReadType DEF Tick
    <3>2. /\ wire' \in [Streams -> {"free", "requested", "attached", "broken"}]
          /\ opening' \in Streams \cup {NoStream}
      BY <2>13, OpenStreamType DEF Tick, TypeOK
    <3>. QED  BY <2>13, <3>1, <3>2 DEF Tick, TypeOK, daemonVars, panelVars
  <2>14. CASE Start
    <3>1. reads' \in [Reads -> Read] /\ raced' \in BOOLEAN
      BY <2>14, StartReadType DEF Start
    <3>2. /\ wire' \in [Streams -> {"free", "requested", "attached", "broken"}]
          /\ opening' \in Streams \cup {NoStream}
      BY <2>14, OpenStreamType DEF Start
    <3>. QED  BY <2>14, <3>1, <3>2
              DEF Start, TypeOK, Cadence, daemonVars, panelVars
  <2>15. CASE Stop
    BY <2>15, EmptyNotices DEF Stop, TypeOK, daemonVars, panelVars
  <2>16. CASE UNCHANGED vars
    BY <2>16 DEF vars, TypeOK, daemonVars, streamVars, panelVars, modeVars
  <2>. QED
    BY <2>1, <2>2, <2>3, <2>4, <2>5, <2>6, <2>7, <2>8, <2>9, <2>10, <2>11,
       <2>12, <2>13, <2>14, <2>15, <2>16 DEF Next
<1>. QED  BY <1>1, <1>2, PTL DEF Spec

----------------------------------------------------------------------------
\* The mode, the handles and the daemon's streams support each other: that the
\* panel is live only with a subscription is what lets onTerminate relax the
\* timer, and that nothing is held while opening is what lets OpenLands adopt.
StreamInv == TypeOK /\ ModeAgrees /\ NoOrphanStream

\* openStream() takes a free stream only when none is held or being opened.
LEMMA OpenStreamKeepsOne ==
  ASSUME StreamInv, NEW b \in BOOLEAN, OpenStream(b),
         UNCHANGED subscription
  PROVE  NoOrphanStream'
<1>1. CASE MayOpen(b)
  <2>1. \A s \in Streams : wire[s] = "free"
    BY <1>1, ConstantsAssumption DEF MayOpen, StreamInv, NoOrphanStream
  <2>2. PICK s \in Streams :
          opening' = s /\ wire' = [wire EXCEPT ![s] = "requested"]
    BY <1>1 DEF OpenStream
  <2>3. subscription' = NoStream
    BY <1>1 DEF MayOpen
  <2>. QED  BY <2>1, <2>2, <2>3 DEF StreamInv, TypeOK, NoOrphanStream
<1>2. CASE ~MayOpen(b)
  BY <1>2 DEF OpenStream, StreamInv, NoOrphanStream
<1>. QED  BY <1>1, <1>2

\* The panel is live exactly while it holds a subscription, its timer runs at
\* that cadence, and every stream open on the daemon is held or being opened.
THEOREM StreamsAccountedFor == Spec => []StreamsAccounted
<1>1. Init => ModeAgrees /\ NoOrphanStream
  BY DEF Init, ModeAgrees, NoOrphanStream
<1>2. ASSUME StreamInv, [Next]_vars
      PROVE  (ModeAgrees /\ NoOrphanStream)'
  <2>. USE <1>2 DEF StreamInv
  <2>1. ASSUME NEW a \in Asks, NEW status \in Status, Transition(a, status)
        PROVE  (ModeAgrees /\ NoOrphanStream)'
    BY <2>1 DEF Transition, ModeAgrees, NoOrphanStream, modeVars, Cadence
  <2>2. CASE LinkDrops
    BY <2>2 DEF LinkDrops, TypeOK, ModeAgrees, NoOrphanStream, modeVars
  <2>3. CASE LinkReturns
    BY <2>3 DEF LinkReturns, ModeAgrees, NoOrphanStream, modeVars, streamVars
  <2>4. ASSUME NEW r \in Reads, AnswerList(r) \/ ReplyLands(r) \/ ReadFails(r)
        PROVE  (ModeAgrees /\ NoOrphanStream)'
    BY <2>4 DEF AnswerList, ReplyLands, ReadFails, ModeAgrees, NoOrphanStream,
                modeVars, streamVars
  <2>5. ASSUME NEW s \in Streams, AttachStream(s)
        PROVE  (ModeAgrees /\ NoOrphanStream)'
    BY <2>5 DEF AttachStream, TypeOK, ModeAgrees, NoOrphanStream, modeVars
  <2>6. ASSUME NEW s \in Streams, OnUpdate(s)
        PROVE  (ModeAgrees /\ NoOrphanStream)'
    BY <2>6 DEF OnUpdate, ModeAgrees, NoOrphanStream, modeVars
  <2>7. CASE OpenLands
    <3>1. subscription = NoStream
      BY <2>7 DEF OpenLands, NoOrphanStream
    <3>2. CASE started
      BY <2>7, <3>1, <3>2, ConstantsAssumption
      DEF OpenLands, Adopts, Cadence, TypeOK, ModeAgrees, NoOrphanStream, streamVars
    <3>3. CASE ~started
      BY <2>7, <3>1, <3>3
      DEF OpenLands, Adopts, TypeOK, ModeAgrees, NoOrphanStream
    <3>. QED  BY <3>2, <3>3
  <2>8. CASE OpenFails
    BY <2>8 DEF OpenFails, TypeOK, ModeAgrees, NoOrphanStream
  <2>9. CASE OnTerminate
    BY <2>9, ConstantsAssumption
    DEF OnTerminate, Cadence, TypeOK, ModeAgrees, NoOrphanStream
  <2>10. CASE Refresh
    BY <2>10 DEF Refresh, ModeAgrees, NoOrphanStream, modeVars, streamVars
  <2>11. CASE Tick
    <3>1. ModeAgrees'
      BY <2>11 DEF Tick, ModeAgrees
    <3>2. CASE liveUpdates
      BY <2>11, <3>1, <3>2 DEF Tick, NoOrphanStream
    <3>3. CASE ~liveUpdates
      <4>1. OpenStream(started) /\ started \in BOOLEAN /\ UNCHANGED subscription
        BY <2>11, <3>3 DEF Tick, TypeOK
      <4>. QED  BY <3>1, <4>1, OpenStreamKeepsOne
    <3>. QED  BY <3>1, <3>2, <3>3
  <2>12. CASE Start
    <3>1. ModeAgrees'
      BY <2>12 DEF Start, ModeAgrees, Cadence
    <3>2. OpenStream(TRUE) /\ UNCHANGED subscription
      BY <2>12 DEF Start
    <3>. QED  BY <3>1, <3>2, OpenStreamKeepsOne
  <2>13. CASE Stop
    BY <2>13 DEF Stop, TypeOK, ModeAgrees, NoOrphanStream
  <2>14. CASE UNCHANGED vars
    BY <2>14 DEF vars, ModeAgrees, NoOrphanStream, modeVars, streamVars
  <2>. QED
    BY <2>1, <2>2, <2>3, <2>4, <2>5, <2>6, <2>7, <2>8, <2>9, <2>10, <2>11,
       <2>12, <2>13, <2>14 DEF Next
<1>. QED  BY <1>1, <1>2, TypeCorrect, PTL DEF Spec, StreamInv, StreamsAccounted

----------------------------------------------------------------------------
\* A status is comparable with every other.
LEMMA RankType == \A status \in Status : Rank[status] \in 0..3
  BY DEF Rank, Status

\* What an ask's row, its reply on the wire or its queued frame may show.
Behind(status, a) == status \in Status /\ Rank[status] <= Rank[record[a]]

\* Nothing shown is behind nothing recorded: "absent" is behind everything.
LEMMA AbsentBehind ==
  ASSUME TypeOK, NEW a \in Asks
  PROVE  Behind("absent", a)
  BY RankType DEF TypeOK, Behind, RowMap, Rank, Status

\* No copy of the record - row, reply or frame - shows a status the daemon has
\* not reached.
THEOREM CopiesLag == Spec => []NeverAhead
<1>1. Init => NeverAhead
  <2>1. Rank["absent"] <= Rank["absent"]
    BY RankType DEF Status
  <2>2. SUFFICES ASSUME Init, NEW a \in Asks
                 PROVE  NeverAhead!(a)
    BY DEF NeverAhead
  <2>3. /\ record[a] = "absent" /\ hostRows[a] = "absent"
        /\ \A r \in Reads : reads[r].rows[a] = "absent"
        /\ \A s \in Streams : notices[s] = << >>
    BY <2>2 DEF Init, NoRows, IdleRead
  <2>. QED  BY <2>1, <2>3
<1>2. ASSUME TypeOK, TypeOK', NeverAhead, [Next]_vars
      PROVE  NeverAhead'
  <2>. USE <1>2
  <2>1. ASSUME NEW a \in Asks, NEW status \in Status, Transition(a, status)
        PROVE  NeverAhead'
    <3>1. \A b \in Asks : Rank[record[b]] <= Rank[record'[b]]
      BY <2>1, RankType DEF Transition, TypeOK, RowMap, Rank, Status, Waiting
    <3>2. /\ \A b \in Asks : Rank[record[b]] \in 0..3 /\ Rank[record'[b]] \in 0..3
          /\ \A b \in Asks : Rank[hostRows[b]] \in 0..3
          /\ \A r \in Reads, b \in Asks : Rank[reads[r].rows[b]] \in 0..3
      BY RankType DEF TypeOK, RowMap, Read
    <3>3. ASSUME NEW b \in Asks, NEW s \in Streams, NEW i \in 1..Len(notices'[s]),
                 notices'[s][i].ask = b
          PROVE  Rank[notices'[s][i].status] <= Rank[record'[b]]
      <4>1. CASE i \in 1..Len(notices[s]) /\ notices'[s][i] = notices[s][i]
        <5>1. notices[s][i] \in Notice
          BY <4>1 DEF TypeOK
        <5>2. Rank[notices[s][i].status] \in 0..3
          BY <5>1, RankType DEF Notice
        <5>3. Rank[notices[s][i].status] <= Rank[record[b]]
          BY <4>1, <3>3 DEF NeverAhead
        <5>. QED  BY <4>1, <5>2, <5>3, <3>1, <3>2
      <4>2. CASE notices'[s][i] = [ask |-> a, status |-> status]
        <5>1. b = a /\ record'[a] = status
          BY <4>2, <3>3, <2>1 DEF Transition, TypeOK, RowMap
        <5>. QED  BY <4>2, <5>1, <3>2
      <4>3. \/ i \in 1..Len(notices[s]) /\ notices'[s][i] = notices[s][i]
            \/ notices'[s][i] = [ask |-> a, status |-> status]
        <5>1. notices[s] \in Seq(Notice)
          BY DEF TypeOK
        <5>2. \/ notices'[s] = notices[s]
              \/ notices'[s] = Append(notices[s], [ask |-> a, status |-> status])
          BY <2>1 DEF Transition
        <5>. QED  BY <5>1, <5>2, <3>3
      <4>. QED  BY <4>1, <4>2, <4>3
    <3>4. UNCHANGED <<hostRows, reads>>
      BY <2>1 DEF Transition, panelVars
    <3>. QED  BY <3>1, <3>2, <3>3, <3>4 DEF NeverAhead
  <2>2. CASE LinkDrops \/ LinkReturns \/ UNCHANGED vars
    BY <2>2 DEF LinkDrops, LinkReturns, vars, NeverAhead, daemonVars, streamVars,
                panelVars
  <2>3. ASSUME NEW r \in Reads, AnswerList(r)
        PROVE  NeverAhead'
    <3>1. \A q \in Reads : reads'[q].rows = record \/ reads'[q] = reads[q]
      BY <2>3 DEF AnswerList, TypeOK
    <3>2. \A b \in Asks : Rank[record[b]] <= Rank[record[b]]
      <4>1. \A b \in Asks : Rank[record[b]] \in 0..3
        BY RankType DEF TypeOK, RowMap
      <4>. QED  BY <4>1
    <3>. QED  BY <2>3, <3>1, <3>2
              DEF AnswerList, NeverAhead, daemonVars, streamVars, panelVars
  <2>4. ASSUME NEW r \in Reads, ReplyLands(r) \/ ReadFails(r)
        PROVE  NeverAhead'
    <3>1. UNCHANGED <<record, notices>>
      BY <2>4 DEF ReplyLands, ReadFails, daemonVars, streamVars
    <3>2. \A b \in Asks : hostRows'[b] \in {reads[r].rows[b], "absent"}
      BY <2>4 DEF ReplyLands, ReadFails, ReadableRows, NoRows
    <3>3. \A q \in Reads : reads'[q] = reads[q] \/ reads'[q].rows = NoRows
      BY <2>4 DEF ReplyLands, ReadFails, TypeOK, IdleRead
    <3>. QED  BY <3>1, <3>2, <3>3, AbsentBehind DEF NeverAhead, NoRows, Behind
  <2>5. ASSUME NEW s \in Streams, AttachStream(s)
        PROVE  NeverAhead'
    BY <2>5 DEF AttachStream, NeverAhead, daemonVars, panelVars
  <2>6. ASSUME NEW s \in Streams, OnUpdate(s)
        PROVE  NeverAhead'
    <3>1. /\ notices[s] \in Seq(Notice) /\ notices[s] # << >>
          /\ notices' = [notices EXCEPT ![s] = Tail(@)]
          /\ UNCHANGED <<record, reads>>
      BY <2>6 DEF OnUpdate, TypeOK, daemonVars
    <3>2. \A b \in Asks : Rank[hostRows'[b]] <= Rank[record'[b]]
      <4>1. CASE UNCHANGED panelVars
        BY <4>1, <3>1 DEF NeverAhead, panelVars
      <4>2. CASE hostRows' = ApplyApprovalUpdate(hostRows, Head(notices[s]).ask,
                                                 Head(notices[s]).status)
        <5>1. /\ Head(notices[s]) = notices[s][1] /\ 1 \in 1..Len(notices[s])
              /\ Head(notices[s]) \in Notice
          BY <3>1
        <5>2. Rank[Head(notices[s]).status] <= Rank[record[Head(notices[s]).ask]]
          BY <5>1 DEF NeverAhead, Notice
        <5>. QED  BY <4>2, <5>1, <5>2, <3>1, AbsentBehind
                  DEF ApplyApprovalUpdate, NeverAhead, Behind, TypeOK, RowMap, Notice
      <4>. QED  BY <2>6, <4>1, <4>2 DEF OnUpdate
    <3>3. ASSUME NEW t \in Streams, NEW i \in 1..Len(notices'[t])
          PROVE  \E j \in 1..Len(notices[t]) : notices'[t][i] = notices[t][j]
      <4>1. CASE t = s
        <5>1. notices'[t] = Tail(notices[s])
          BY <4>1, <3>1 DEF TypeOK
        <5>2. i + 1 \in 1..Len(notices[s]) /\ Tail(notices[s])[i] = notices[s][i + 1]
          BY <5>1, <3>1
        <5>. QED  BY <4>1, <5>1, <5>2
      <4>2. CASE t # s
        BY <4>2, <3>1 DEF TypeOK
      <4>. QED  BY <4>1, <4>2
    <3>. QED  BY <3>1, <3>2, <3>3 DEF NeverAhead
  <2>7. CASE OpenLands \/ OpenFails \/ OnTerminate \/ Stop
    <3>1. UNCHANGED <<record, hostRows, reads>>
      BY <2>7 DEF OpenLands, OpenFails, OnTerminate, Stop, daemonVars, panelVars
    <3>2. \A s \in Streams : notices'[s] = notices[s] \/ notices'[s] = << >>
      BY <2>7 DEF OpenLands, OpenFails, OnTerminate, Stop, TypeOK, streamVars
    <3>. QED  BY <3>1, <3>2 DEF NeverAhead
  <2>8. CASE Refresh \/ Tick \/ Start
    <3>1. StartRead /\ UNCHANGED <<record, hostRows, notices>>
      BY <2>8 DEF Refresh, Tick, Start, daemonVars, streamVars, panelVars
    <3>2. \A r \in Reads : reads'[r].rows = reads[r].rows \/ reads'[r].rows = NoRows
      BY <3>1 DEF StartRead, TypeOK, IdleRead
    <3>. QED  BY <3>1, <3>2, AbsentBehind DEF NeverAhead, NoRows, Behind
  <2>. QED
    BY <2>1, <2>2, <2>3, <2>4, <2>5, <2>6, <2>7, <2>8 DEF Next
<1>. QED  BY <1>1, <1>2, TypeCorrect, PTL DEF Spec

----------------------------------------------------------------------------
\* One read is in flight at most, and until a frame is applied over it its
\* answer shows nothing older than the panel does.  The answer is computed from
\* the record, which no row leads: that is where NeverAhead comes in.
OneRead == \A q, r \in Reads : q \in InFlight /\ r \in InFlight => q = r

AnswerIsNewer ==
    ~raced => \A r \in Reads, a \in Asks :
                reads[r].phase = "answered"
                  => Rank[hostRows[a]] <= Rank[reads[r].rows[a]]

ReadInv == OneRead /\ AnswerIsNewer

\* A row map ranks every ask.
LEMMA RowMapRank ==
  ASSUME NEW rows \in RowMap, NEW a \in Asks
  PROVE  rows[a] \in Status /\ Rank[rows[a]] \in 0..3
  BY RankType DEF RowMap

\* A read starts when none is in flight, so it is the only one, and unanswered.
LEMMA StartReadKeeps ==
  ASSUME TypeOK, ReadInv, StartRead, UNCHANGED hostRows
  PROVE  ReadInv'
<1>1. CASE InFlight = {}
  <2>1. \A r \in Reads : r # FreeRead => reads'[r].phase = "idle"
    BY <1>1 DEF StartRead, InFlight, TypeOK
  <2>2. \A r \in Reads : reads'[r].phase # "answered"
    BY <1>1 DEF StartRead, InFlight, TypeOK, IdleRead
  <2>. QED  BY <2>1, <2>2 DEF ReadInv, OneRead, AnswerIsNewer, InFlight
<1>2. CASE InFlight # {}
  BY <1>2 DEF StartRead, ReadInv, OneRead, AnswerIsNewer, InFlight
<1>. QED  BY <1>1, <1>2

\* While no frame is applied over the read in flight, its answer is as new as
\* what the panel shows.
LEMMA ReadsInTurn == Spec => []ReadInv
<1>1. Init => ReadInv
  BY DEF Init, ReadInv, OneRead, AnswerIsNewer, InFlight, IdleRead
<1>2. ASSUME TypeOK, TypeOK', NeverAhead, ReadInv, [Next]_vars
      PROVE  ReadInv'
  <2>. USE <1>2
  <2>1. ASSUME UNCHANGED <<reads, raced, hostRows>>
        PROVE  ReadInv'
    BY <2>1 DEF ReadInv, OneRead, AnswerIsNewer, InFlight
  <2>2. ASSUME NEW r \in Reads, AnswerList(r)
        PROVE  ReadInv'
    <3>1. /\ r \in InFlight /\ UNCHANGED <<raced, hostRows>>
          /\ reads' = [reads EXCEPT ![r] = [phase |-> "answered", rows |-> record]]
      BY <2>2 DEF AnswerList, InFlight, panelVars
    <3>2. \A q \in Reads : q # r => reads'[q] = reads[q] /\ q \notin InFlight
      BY <3>1 DEF ReadInv, OneRead, TypeOK
    <3>3. reads'[r].rows = record
      BY <3>1 DEF TypeOK
    <3>4. OneRead'
      BY <3>2 DEF OneRead, InFlight
    <3>5. AnswerIsNewer'
      BY <3>1, <3>2, <3>3 DEF AnswerIsNewer, InFlight, NeverAhead
    <3>. QED  BY <3>4, <3>5 DEF ReadInv
  <2>3. ASSUME NEW r \in Reads, ReplyLands(r) \/ ReadFails(r)
        PROVE  ReadInv'
    <3>1. /\ r \in InFlight
          /\ reads' = [reads EXCEPT ![r] = IdleRead]
      BY <2>3 DEF ReplyLands, ReadFails, InFlight
    <3>2. \A q \in Reads : reads'[q].phase = "idle"
      BY <3>1 DEF ReadInv, OneRead, InFlight, TypeOK, IdleRead
    <3>. QED  BY <3>2 DEF ReadInv, OneRead, AnswerIsNewer, InFlight
  <2>4. ASSUME NEW s \in Streams, OnUpdate(s)
        PROVE  ReadInv'
    <3>1. UNCHANGED reads /\ raced' = (raced \/ InFlight # {})
      BY <2>4 DEF OnUpdate
    <3>. QED  BY <3>1 DEF ReadInv, OneRead, AnswerIsNewer, InFlight
  <2>5. CASE Refresh \/ Tick \/ Start
    BY <2>5, StartReadKeeps DEF Refresh, Tick, Start, panelVars
  <2>6. CASE \/ \E a \in Asks, status \in Status : Transition(a, status)
             \/ LinkDrops \/ LinkReturns
             \/ \E s \in Streams : AttachStream(s)
             \/ OpenLands \/ OpenFails \/ OnTerminate \/ Stop
             \/ UNCHANGED vars
    BY <2>1, <2>6
    DEF Transition, LinkDrops, LinkReturns, AttachStream, OpenLands, OpenFails,
        OnTerminate, Stop, vars, panelVars
  <2>. QED  BY <2>2, <2>3, <2>4, <2>5, <2>6 DEF Next
<1>. QED  BY <1>1, <1>2, TypeCorrect, CopiesLag, PTL DEF Spec

\* A reply swaps the panel back to an older state of an ask only when a frame
\* was applied while its read was in flight: the single flight of refresh()
\* leaves no other way.
THEOREM RepliesSwapOnlyIfRaced == Spec => ReplySwapsOnlyIfRaced
<1>1. ASSUME TypeOK, TypeOK', ReadInv, [Next]_vars,
             NEW r \in Reads, NEW a \in Asks,
             reads[r].phase = "answered", reads'[r].phase = "idle", SwappedBack(a)
      PROVE  raced
  <2>. USE <1>1
  <2>1. PICK q \in Reads : ReplyLands(q)
    <3>1. SUFFICES ASSUME \A q \in Reads : ~ReplyLands(q)  PROVE FALSE
      OBVIOUS
    <3>2. reads'[r] # reads[r]
      OBVIOUS
    <3>3. r \in InFlight
      BY DEF InFlight
    <3>4. ~StartRead
      BY <3>2, <3>3 DEF StartRead
    <3>5. ASSUME NEW q \in Reads, AnswerList(q)  PROVE FALSE
      BY <3>2, <3>5 DEF AnswerList, TypeOK
    <3>6. ASSUME NEW q \in Reads, ReadFails(q)  PROVE FALSE
      BY <3>6 DEF ReadFails, SwappedBack
    <3>7. CASE UNCHANGED reads
      BY <3>2, <3>7
    <3>. QED
      BY <3>1, <3>4, <3>5, <3>6, <3>7
      DEF Next, Transition, LinkDrops, LinkReturns, AttachStream, OnUpdate,
          OpenLands, OpenFails, OnTerminate, Refresh, Tick, Start, Stop, vars
  <2>2. q = r
    <3>1. q \in InFlight /\ r \in InFlight
      BY <2>1 DEF ReplyLands, InFlight
    <3>. QED  BY <3>1 DEF ReadInv, OneRead
  <2>3. hostRows' = reads[r].rows
    BY <2>1, <2>2 DEF ReplyLands, ReplyReason, SwappedBack
  <2>4. /\ Rank[hostRows[a]] \in 0..3 /\ Rank[hostRows'[a]] \in 0..3
        /\ hostRows[a] \in Status
    BY RowMapRank DEF TypeOK
  <2>5. ~(Rank[hostRows[a]] <= Rank[hostRows'[a]])
    <3>1. CASE hostRows[a] \in Waiting /\ hostRows'[a] = "absent"
      BY <3>1, <2>4 DEF Rank, Waiting
    <3>2. CASE Rank[hostRows'[a]] < Rank[hostRows[a]]
      BY <3>2, <2>4
    <3>. QED  BY <3>1, <3>2 DEF SwappedBack
  <2>. QED  BY <2>3, <2>5 DEF ReadInv, AnswerIsNewer
<1>2. TypeOK /\ TypeOK' /\ ReadInv /\ [Next]_vars
        => [\A r \in Reads, a \in Asks :
              reads[r].phase = "answered" /\ reads'[r].phase = "idle" /\ SwappedBack(a)
                => raced]_vars
  BY <1>1
<1>. QED  BY <1>2, TypeCorrect, ReadsInTurn, PTL DEF Spec, ReplySwapsOnlyIfRaced

============================================================================
