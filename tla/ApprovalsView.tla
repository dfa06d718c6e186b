--------------------------- MODULE ApprovalsView ---------------------------
(***************************************************************************)
(* The approvals panel of runtime/client/approvals-view.ts: a copy of the  *)
(* daemon's approval record that is fed from two connections at once, a    *)
(* periodic approvals.list read and the control.approval_update stream.    *)
(*                                                                         *)
(* The daemon (record, linkUp, wire, notices) is external and is modelled  *)
(* from how the view uses it.  A row map holds a status per ask, "absent"  *)
(* standing for no row; the order of the rows and the rest of a record are *)
(* abstracted.                                                             *)
(***************************************************************************)
EXTENDS Naturals, Sequences

CONSTANTS
    Asks,          \* approval records the daemon may hold
    Unreadable,    \* those whose record fails isApprovalRecord in this build
    Streams,       \* identities of event streams, reused once closed
    NoStream,      \* null for subscription and opening
    Reads,         \* identities of approvals.list requests, reused
    Subscribes     \* whether options.subscribe is wired

ASSUME ConstantsAssumption ==
    /\ Unreadable \subseteq Asks
    /\ NoStream \notin Streams
    /\ Subscribes \in BOOLEAN

VARIABLES
    record,        \* the daemon's own status of each ask
    linkUp,        \* whether the daemon can be reached
    wire,          \* daemon side of each stream
    notices,       \* frames written to a stream and not yet read
    raced,         \* was a frame applied since the read in flight was sent?
    started, timer, reads, hostRows, hostReason,
    subscription, opening, liveUpdates

daemonVars == <<record, linkUp>>
streamVars == <<wire, notices>>
panelVars  == <<hostRows, hostReason>>
modeVars   == <<started, timer, subscription, opening, liveUpdates>>
readVars   == <<reads, raced>>
vars == <<daemonVars, streamVars, panelVars, modeVars, readVars>>

Status  == {"absent", "pending", "claimed", "decided"}
Waiting == {"pending", "claimed"}
RowMap  == [Asks -> Status]
NoRows  == [a \in Asks |-> "absent"]
Notice  == [ask: Asks, status: Status]
Read    == [phase: {"idle", "sent", "answered"}, rows: RowMap]
IdleRead == [phase |-> "idle", rows |-> NoRows]

TypeOK ==
    /\ record \in RowMap
    /\ linkUp \in BOOLEAN
    /\ wire \in [Streams -> {"free", "requested", "attached", "broken"}]
    /\ notices \in [Streams -> Seq(Notice)]
    /\ started \in BOOLEAN
    /\ timer \in {"off", "poll", "live"}
    /\ reads \in [Reads -> Read]
    /\ raced \in BOOLEAN
    /\ hostRows \in RowMap
    /\ hostReason \in {"none", "unread", "failed", "unreadable"}
    /\ subscription \in Streams \cup {NoStream}
    /\ opening \in Streams \cup {NoStream}
    /\ liveUpdates \in BOOLEAN

Init ==
    /\ record = NoRows
    /\ linkUp \in BOOLEAN
    /\ wire = [s \in Streams |-> "free"]
    /\ notices = [s \in Streams |-> << >>]
    /\ started = FALSE
    /\ timer = "off"
    /\ reads = [r \in Reads |-> IdleRead]
    /\ raced = FALSE
    /\ hostRows = NoRows
    /\ hostReason = "unread"
    /\ subscription = NoStream
    /\ opening = NoStream
    /\ liveUpdates = FALSE

----------------------------------------------------------------------------
(* The daemon and the connection to it (external). *)

\* A surface raises, claims or decides an ask; every attached stream gets it.
Transition(a, status) ==
    /\ linkUp
    /\ \/ record[a] = "absent" /\ status = "pending"
       \/ record[a] = "pending" /\ status = "claimed"
       \/ record[a] \in Waiting /\ status = "decided"
    /\ record' = [record EXCEPT ![a] = status]
    /\ notices' = [s \in Streams |->
         IF wire[s] = "attached"
         THEN Append(notices[s], [ask |-> a, status |-> status])
         ELSE notices[s]]
    /\ UNCHANGED <<linkUp, wire, panelVars, modeVars, readVars>>

LinkDrops ==
    /\ linkUp
    /\ linkUp' = FALSE
    /\ wire' = [s \in Streams |->
         IF wire[s] = "attached" THEN "broken" ELSE wire[s]]
    /\ UNCHANGED <<record, notices, panelVars, modeVars, readVars>>

LinkReturns ==
    /\ ~linkUp
    /\ linkUp' = TRUE
    /\ UNCHANGED <<record, streamVars, panelVars, modeVars, readVars>>

\* The daemon computes an approvals.list reply; it is still on the wire.
AnswerList(r) ==
    /\ linkUp
    /\ reads[r].phase = "sent"
    /\ reads' = [reads EXCEPT ![r] = [phase |-> "answered", rows |-> record]]
    /\ UNCHANGED <<daemonVars, streamVars, panelVars, modeVars, raced>>

\* The daemon starts writing transitions to a requested stream.
AttachStream(s) ==
    /\ linkUp
    /\ wire[s] = "requested"
    /\ wire' = [wire EXCEPT ![s] = "attached"]
    /\ UNCHANGED <<daemonVars, notices, panelVars, modeVars, readVars>>

----------------------------------------------------------------------------
(* refresh(): single-flight read of approvals.list. *)

InFlight_Stacked == {}
InFlight == {r \in Reads : reads[r].phase # "idle"}

\* The identity the next read takes: a free one, while there is any.
FreeRead ==
    CHOOSE r \in Reads :
      (\E q \in Reads : reads[q].phase = "idle") => reads[r].phase = "idle"

StartRead ==
    IF InFlight = {}
    THEN /\ reads' = [reads EXCEPT ![FreeRead] = [IdleRead EXCEPT !.phase = "sent"]]
         /\ raced' = FALSE
    ELSE UNCHANGED readVars

\* An on-demand refresh(): /health approvals, with or without start().
Refresh ==
    /\ StartRead
    /\ UNCHANGED <<daemonVars, streamVars, panelVars, modeVars>>

\* The rows of a reply this build can read.
ReadableRows(rows) ==
    [a \in Asks |-> IF a \in Unreadable THEN "absent" ELSE rows[a]]

ReplyReason_Unset(rows) == "unset"
ReplyReason(rows) ==
    IF ReadableRows(rows) = rows THEN "none" ELSE "unreadable"

ReplyLands(r) ==
    /\ reads[r].phase = "answered"
    /\ hostRows' = ReadableRows(reads[r].rows)
    /\ hostReason' = ReplyReason(reads[r].rows)
    /\ reads' = [reads EXCEPT ![r] = IdleRead]
    /\ UNCHANGED <<daemonVars, streamVars, modeVars, raced>>

\* The probe finds no host, or the verb throws: no rows, and the reason why.
ReadFails(r) ==
    /\ ~linkUp
    /\ reads[r].phase # "idle"
    /\ hostRows' = NoRows
    /\ hostReason' = "failed"
    /\ reads' = [reads EXCEPT ![r] = IdleRead]
    /\ UNCHANGED <<daemonVars, streamVars, modeVars, raced>>

----------------------------------------------------------------------------
(* The push stream. *)

Cadence(live) == IF live THEN "live" ELSE "poll"

\* openStream()'s guards, with the value of started at the call.
MayOpen_NoOpeningGuard(isStarted) ==
    Subscribes /\ subscription = NoStream /\ isStarted
MayOpen_OnlyAtStart(isStarted) ==
    Subscribes /\ subscription = NoStream /\ opening = NoStream /\ ~started
MayOpen(isStarted) ==
    Subscribes /\ subscription = NoStream /\ opening = NoStream /\ isStarted

OpenStream(isStarted) ==
    IF MayOpen(isStarted)
    THEN \E s \in Streams :
           /\ wire[s] = "free"
           /\ opening' = s
           /\ wire' = [wire EXCEPT ![s] = "requested"]
    ELSE UNCHANGED <<opening, wire>>

\* subscribe() resolved with a handle: adopt it, or close it after a stop().
Adopts == started

OpenLands ==
    /\ opening # NoStream
    /\ wire[opening] \in {"attached", "broken"}
    /\ opening' = NoStream
    /\ IF Adopts
       THEN /\ subscription' = opening
            /\ liveUpdates' = TRUE
            /\ timer' = Cadence(TRUE)
            /\ UNCHANGED streamVars
       ELSE /\ wire' = [wire EXCEPT ![opening] = "free"]
            /\ notices' = [notices EXCEPT ![opening] = << >>]
            /\ UNCHANGED <<subscription, liveUpdates, timer>>
    /\ UNCHANGED <<daemonVars, panelVars, started, readVars>>

\* subscribe() resolved to null, or threw.
OpenFails ==
    /\ opening # NoStream
    /\ wire[opening] = "requested"
    /\ ~linkUp
    /\ wire' = [wire EXCEPT ![opening] = "free"]
    /\ opening' = NoStream
    /\ IF started THEN subscription' = NoStream ELSE UNCHANGED subscription
    /\ UNCHANGED <<daemonVars, notices, panelVars, started, timer, liveUpdates,
                   readVars>>

ApplyApprovalUpdate_Claims(rows, ask, status) ==
    [rows EXCEPT ![ask] = IF status \in Waiting THEN "claimed" ELSE "absent"]
ApplyApprovalUpdate(rows, ask, status) ==
    [rows EXCEPT ![ask] = IF status \in Waiting THEN status ELSE "absent"]

\* onUpdate: one frame read from a stream, adopted or still opening.
OnUpdate(s) ==
    /\ s \in {subscription, opening}
    /\ notices[s] # << >>
    /\ LET notice == Head(notices[s])
       IN IF notice.ask \in Unreadable
          THEN UNCHANGED panelVars
          ELSE /\ hostRows' = ApplyApprovalUpdate(hostRows, notice.ask,
                                                  notice.status)
               /\ hostReason' = "none"
    /\ notices' = [notices EXCEPT ![s] = Tail(@)]
    /\ raced' = (raced \/ InFlight # {})
    /\ UNCHANGED <<daemonVars, wire, modeVars, reads>>

\* onTerminate: the adopted stream ended; unread frames are lost with it.
OnTerminate ==
    /\ subscription # NoStream
    /\ wire[subscription] = "broken"
    /\ wire' = [wire EXCEPT ![subscription] = "free"]
    /\ notices' = [notices EXCEPT ![subscription] = << >>]
    /\ subscription' = NoStream
    /\ liveUpdates' = FALSE
    /\ timer' = IF liveUpdates /\ started THEN Cadence(FALSE) ELSE timer
    /\ UNCHANGED <<daemonVars, panelVars, started, opening, readVars>>

----------------------------------------------------------------------------
(* The cadence and the view's lifetime. *)

Tick ==
    /\ timer # "off"
    /\ StartRead
    /\ IF liveUpdates THEN UNCHANGED <<opening, wire>> ELSE OpenStream(started)
    /\ UNCHANGED <<daemonVars, notices, panelVars, started, timer, subscription,
                   liveUpdates>>

Start ==
    /\ ~started
    /\ started' = TRUE
    /\ StartRead
    /\ OpenStream(TRUE)
    /\ timer' = Cadence(liveUpdates)
    /\ UNCHANGED <<daemonVars, notices, panelVars, subscription, liveUpdates>>

Stop ==
    /\ started' = FALSE
    /\ timer' = "off"
    /\ wire' = [s \in Streams |-> IF s = subscription THEN "free" ELSE wire[s]]
    /\ notices' = [s \in Streams |->
         IF s = subscription THEN << >> ELSE notices[s]]
    /\ subscription' = NoStream
    /\ liveUpdates' = FALSE
    /\ UNCHANGED <<daemonVars, panelVars, opening, readVars>>

----------------------------------------------------------------------------
Next ==
    \/ \E a \in Asks, status \in Status : Transition(a, status)
    \/ LinkDrops \/ LinkReturns
    \/ \E r \in Reads : AnswerList(r) \/ ReplyLands(r) \/ ReadFails(r)
    \/ \E s \in Streams : AttachStream(s) \/ OnUpdate(s)
    \/ OpenLands \/ OpenFails \/ OnTerminate
    \/ Refresh \/ Tick \/ Start \/ Stop

Spec == Init /\ [][Next]_vars

\* A running timer fires, frames are read, and a request to the daemon settles,
\* one way or the other.  Nothing makes a surface act on an ask, the link move,
\* or start() and stop() happen.
Fairness ==
    /\ \A r \in Reads : WF_vars(AnswerList(r) \/ ReplyLands(r) \/ ReadFails(r))
    /\ WF_vars((\E s \in Streams : AttachStream(s)) \/ OpenLands \/ OpenFails)
    /\ \A s \in Streams : WF_vars(OnUpdate(s))
    /\ WF_vars(OnTerminate)
    /\ WF_vars(Tick)

FairSpec == Spec /\ Fairness

----------------------------------------------------------------------------
(* What the panel promises. *)

\* The panel says it is live exactly while it holds a subscription, and the
\* timer runs at the cadence of that mode for as long as the view is started
\* (approvals-view.ts armTimer, onTerminate, openStream, stop).
ModeAgrees ==
    /\ liveUpdates <=> subscription # NoStream
    /\ timer = IF ~started THEN "off" ELSE IF liveUpdates THEN "live" ELSE "poll"

\* No event stream is left on the daemon that this process neither holds nor
\* is about to receive: stop() during an open, a reconnect after a drop and a
\* restart never leak one (openStream's guards, the !started close, stop()).
NoOrphanStream ==
    /\ \A s \in Streams : wire[s] # "free" => s \in {subscription, opening}
    /\ subscription = NoStream \/ opening = NoStream

\* Both together: what the panel says of its stream, and what streams there are.
StreamsAccounted == ModeAgrees /\ NoOrphanStream

\* Every copy of the record lags it and never leads: a row, a reply on the wire
\* and a queued frame each show a status the ask has really reached.
Rank == [absent |-> 0, pending |-> 1, claimed |-> 2, decided |-> 3]
NeverAhead ==
    \A a \in Asks :
      /\ Rank[hostRows[a]] <= Rank[record[a]]
      /\ \A r \in Reads : Rank[reads[r].rows[a]] <= Rank[record[a]]
      /\ \A s \in Streams : \A i \in 1..Len(notices[s]) :
           notices[s][i].ask = a => Rank[notices[s][i].status] <= Rank[record[a]]

\* No step swaps the panel back to an older state of an ask: a waiting ask it
\* shows does not vanish while it still waits, and a status never goes back.
\* A read that failed shows nothing and says so; it does not count.
SwappedBack(a) ==
    /\ hostReason = "none" /\ hostReason' = "none"
    /\ \/ /\ hostRows[a] \in Waiting /\ hostRows'[a] = "absent"
          /\ record[a] \in Waiting
       \/ hostRows'[a] # "absent" /\ Rank[hostRows'[a]] < Rank[hostRows[a]]
NeverSwappedBack == [][\A a \in Asks : ~SwappedBack(a)]_vars

\* What the single flight does buy: a reply swaps the panel back only if a frame
\* was applied while its read was in flight.
ReplySwapsOnlyIfRaced ==
    [][\A r \in Reads, a \in Asks :
         reads[r].phase = "answered" /\ reads'[r].phase = "idle" /\ SwappedBack(a)
           => raced]_vars

\* The asks the panel shows as waiting are those waiting on the daemon.
PanelIsRecord ==
    \A a \in Asks \ Unreadable :
      hostRows[a] # record[a] => {hostRows[a], record[a]} \cap Waiting = {}

----------------------------------------------------------------------------
(* What must eventually happen. *)

\* While the view runs against a daemon that stays reachable, the panel ends up
\* showing the daemon's record, whatever was missed, raced or lost before
\* (the periodic re-read underneath the stream).
EventuallyCurrent == <>[](started /\ linkUp) => <>[]PanelIsRecord

\* A stream that dropped or was refused is re-attempted on the cadence, so a
\* running view with a reachable daemon goes live and stays live (tick).
EventuallyLive == <>[](started /\ linkUp) => <>[]liveUpdates

\* A stopped view ends up holding no stream on the daemon.
StoppedReleases ==
    <>[]~started => <>[](\A s \in Streams : wire[s] = "free")

\* All three: a view that runs against a reachable daemon becomes true and live, and one
\* that is stopped lets go of it.
Converges == EventuallyCurrent /\ EventuallyLive /\ StoppedReleases
============================================================================
