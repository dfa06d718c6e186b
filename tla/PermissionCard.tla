--------------------------- MODULE PermissionCard ---------------------------
(***************************************************************************)
(* The one permission card of the terminal, pendingPermission of main.ts,  *)
(* and its three writers: an ask raised here opens its own card            *)
(* (shell/command-context-ui.ts requestPermission), a change of the local  *)
(* approval broker closes a card or opens one                              *)
(* (permissions/broker-approval.ts), and a key answers it                  *)
(* (shell/blocking-input.ts).                                              *)
(*                                                                         *)
(* The broker is external: it records a change and publishes it later, in  *)
(* order, and any surface, a clock included, may decide an ask.  An ask    *)
(* raised here is also on the daemon, where a phone may answer it first.   *)
(***************************************************************************)
EXTENDS Naturals, Sequences

CONSTANTS
    Local,     \* asks this process raises, recorded on the daemon
    Brokered,  \* asks handed to the local broker, with no prompt of their own
    NoAsk      \* null for pendingPermission

Asks == Local \cup Brokered

ASSUME ConstantsAssumption ==
    /\ Local \cap Brokered = {}
    /\ NoAsk \notin Asks

VARIABLES
    record,     \* where each ask is recorded: what has become of it
    changes,    \* broker changes published and not yet handled
    opens,      \* opens deferred to a microtask, oldest first
    card,       \* pendingPermission
    answering,  \* asks whose resolveApproval call has not settled
    turn,       \* is the main conversation in a turn?
    crowded,    \* asks that found another card up, or whose card was replaced
    dropped     \* asks whose answer was given here and failed to be recorded

vars == <<record, changes, opens, card, answering, turn, crowded, dropped>>

Status == {"absent", "pending", "claimed", "decided"}
Change == [ask: Brokered, status: Status]

TypeOK ==
    /\ record \in [Asks -> Status]
    /\ changes \in Seq(Change)
    /\ opens \in Seq(Brokered)
    /\ card \in Asks \cup {NoAsk}
    /\ answering \subseteq Brokered
    /\ turn \in BOOLEAN
    /\ crowded \subseteq Asks
    /\ dropped \subseteq Brokered

Init ==
    /\ record = [a \in Asks |-> "absent"]
    /\ changes = << >>
    /\ opens = << >>
    /\ card = NoAsk
    /\ answering = {}
    /\ turn = FALSE
    /\ crowded = {}
    /\ dropped = {}

isActiveStatus(status) == status \in {"pending", "claimed"}
Active(a) == isActiveStatus(record[a])

----------------------------------------------------------------------------
(* The broker, the daemon and the conversation (external) *)

Publish(a, status) ==
    /\ record' = [record EXCEPT ![a] = status]
    /\ changes' = Append(changes, [ask |-> a, status |-> status])

\* An ask is handed over, claimed by a surface, or decided by one or by its expiry.
BrokerChanges(a, status) ==
    /\ \/ record[a] = "absent" /\ status = "pending"
       \/ record[a] = "pending" /\ status = "claimed"
       \/ Active(a) /\ status = "decided"
    /\ Publish(a, status)
    /\ UNCHANGED <<opens, card, answering, turn, crowded, dropped>>

\* resolveApproval settles: recorded, unless another surface was first.
AnswerRecorded(a) ==
    /\ a \in answering
    /\ answering' = answering \ {a}
    /\ IF Active(a) THEN Publish(a, "decided") ELSE UNCHANGED <<record, changes>>
    /\ UNCHANGED <<opens, card, turn, crowded, dropped>>

\* It rejects, and the card's resolve swallows the error.
AnswerFails(a) ==
    /\ a \in answering
    /\ answering' = answering \ {a}
    /\ dropped' = dropped \cup {a}
    /\ UNCHANGED <<record, changes, opens, card, turn, crowded>>

AnsweredElsewhere(a) ==
    /\ Active(a)
    /\ record' = [record EXCEPT ![a] = "decided"]
    /\ UNCHANGED <<changes, opens, card, answering, turn, crowded, dropped>>

TurnStarts ==
    /\ turn' = TRUE
    /\ UNCHANGED <<record, changes, opens, card, answering, crowded, dropped>>

----------------------------------------------------------------------------
(* requestPermission() *)

\* Its card goes up whatever is there.
RequestPermission(a) ==
    /\ record[a] = "absent"
    /\ record' = [record EXCEPT ![a] = "pending"]
    /\ card' = a
    /\ crowded' = crowded \cup ({card} \ {NoAsk})
    /\ UNCHANGED <<changes, opens, answering, turn, dropped>>

----------------------------------------------------------------------------
(* handleBrokerApprovalChange() *)

IsThisCard(a) == card = a

HandleChange ==
    /\ changes # << >>
    /\ changes' = Tail(changes)
    /\ LET change == Head(changes) IN
         /\ card' = IF IsThisCard(change.ask) /\ ~isActiveStatus(change.status)
                    THEN NoAsk ELSE card
         /\ opens' = IF ~IsThisCard(change.ask) /\ isActiveStatus(change.status)
                     THEN Append(opens, change.ask) ELSE opens
    /\ UNCHANGED <<record, answering, turn, crowded, dropped>>

\* The deferred callback looks again at the card and at the broker.
StillWaits_AsPublished(a) == TRUE
StillWaits(a) == Active(a)

DeferredOpen ==
    /\ opens # << >>
    /\ opens' = Tail(opens)
    /\ IF card = NoAsk
       THEN /\ card' = IF StillWaits(Head(opens)) THEN Head(opens) ELSE NoAsk
            /\ UNCHANGED crowded
       ELSE /\ crowded' = crowded \cup {Head(opens)}
            /\ UNCHANGED card
    /\ UNCHANGED <<record, changes, answering, turn, dropped>>

----------------------------------------------------------------------------
(* handleBlockingShellInput(): y, a, n, escape and ctrl-c *)

LeftUp == NoAsk

\* A key is an event of its own: no microtask is left when it is read.  A local
\* ask takes the answer at once, a brokered one when the broker has recorded it.
Key(approves) ==
    /\ card # NoAsk
    /\ opens = << >>
    /\ IF card \in Local
       THEN /\ record' = [record EXCEPT ![card] = "decided"]
            /\ UNCHANGED answering
       ELSE /\ answering' = answering \cup {card}
            /\ UNCHANGED record
    /\ turn' = (turn /\ approves)
    /\ card' = LeftUp
    /\ UNCHANGED <<changes, opens, crowded, dropped>>

----------------------------------------------------------------------------
Next ==
    \/ \E a \in Brokered :
         \/ \E status \in Status : BrokerChanges(a, status)
         \/ AnswerRecorded(a) \/ AnswerFails(a)
    \/ \E a \in Local : RequestPermission(a) \/ AnsweredElsewhere(a)
    \/ HandleChange \/ DeferredOpen
    \/ \E approves \in BOOLEAN : Key(approves)
    \/ TurnStarts

Spec == Init /\ [][Next]_vars

----------------------------------------------------------------------------
(* Properties *)

\* "No stale prompt": a card for a brokered ask that has been decided, here,
\* elsewhere or by expiry, is about to be closed by the change that says so.
NoStaleCard ==
    card \in Brokered /\ ~Active(card) =>
      \E i \in 1 .. Len(changes) :
        changes[i].ask = card /\ ~isActiveStatus(changes[i].status)

\* An ask handed to the broker does not sit "pending with no surface to answer it
\* here": it is on the card or on its way to it, or being answered, unless
\* it met another card or its answer failed to be recorded.
OnItsWay(a) ==
    \/ \E i \in 1 .. Len(opens) : opens[i] = a
    \/ \E i \in 1 .. Len(changes) :
         changes[i].ask = a /\ isActiveStatus(changes[i].status)
NoHiddenAsk ==
    \A a \in Brokered :
      Active(a) => a = card \/ OnItsWay(a) \/ a \in answering \cup crowded \cup dropped

\* The card tells the truth: what is on it waits, and what waits is on it.
CardIsTrue == NoStaleCard /\ NoHiddenAsk
=============================================================================
