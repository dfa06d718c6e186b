----------------------------- MODULE Shell_proofs -----------------------------
(***************************************************************************)
(* What parts of the shell promise, for any number of asks, messages,      *)
(* streams, colours and sessions; and that all parts, with those of        *)
(* Turn_proofs and Screen_proofs, keep it when they are run as one.        *)
(*                                                                         *)
(* The card: what closes cards is queued only once the broker has decided. *)
(* The indicator: who holds the flag can be told from the messages.  The   *)
(* nudge: what was said is remembered in the state it is in, unless an     *)
(* answer is known to be stale.  The palette: what is published is settled,*)
(* and a settled reader does not ask.  The session: what a save over the   *)
(* session in use would lose is on screen or in another file.              *)
(***************************************************************************)
EXTENDS MCShell, Turn_proofs, Screen_proofs, SequenceTheorems, TLAPS

----------------------------------------------------------------------------
(* The permission card. *)

USE DEF Asks, Active

\* Every variable keeps its type.
THEOREM TypeCorrect == Spec => []TypeOK
<1>1. Init => TypeOK
  <2>1. << >> \in Seq(Change) /\ << >> \in Seq(Brokered)
    OBVIOUS
  <2>. QED  BY <2>1 DEF Init, TypeOK, Status
<1>2. ASSUME TypeOK, [Next]_vars
      PROVE  TypeOK'
  <2>. USE <1>2 DEF TypeOK
  <2>1. ASSUME NEW a \in Brokered, NEW status \in Status, Publish(a, status)
        PROVE  record' \in [Asks -> Status] /\ changes' \in Seq(Change)
    <3>1. [ask |-> a, status |-> status] \in Change
      BY DEF Change
    <3>. QED  BY <2>1, <3>1 DEF Publish
  <2>2. ASSUME NEW a \in Brokered, NEW status \in Status, BrokerChanges(a, status)
        PROVE  TypeOK'
    BY <2>1, <2>2 DEF BrokerChanges
  <2>3. ASSUME NEW a \in Brokered, AnswerRecorded(a)
        PROVE  TypeOK'
    <3>1. "decided" \in Status
      BY DEF Status
    <3>. QED  BY <2>1, <2>3, <3>1 DEF AnswerRecorded
  <2>4. ASSUME NEW a \in Brokered, AnswerFails(a)
        PROVE  TypeOK'
    BY <2>4 DEF AnswerFails
  <2>5. ASSUME NEW a \in Local, RequestPermission(a) \/ AnsweredElsewhere(a)
        PROVE  TypeOK'
    BY <2>5 DEF RequestPermission, AnsweredElsewhere, Status
  <2>6. CASE HandleChange
    <3>1. Head(changes) \in Change /\ Tail(changes) \in Seq(Change)
      BY <2>6 DEF HandleChange
    <3>2. Head(changes).ask \in Brokered
      BY <3>1 DEF Change
    <3>3. opens' \in Seq(Brokered)
      BY <2>6, <3>2 DEF HandleChange
    <3>. QED  BY <2>6, <3>1, <3>3 DEF HandleChange
  <2>7. CASE DeferredOpen
    <3>1. Head(opens) \in Brokered /\ Tail(opens) \in Seq(Brokered)
      BY <2>7 DEF DeferredOpen
    <3>. QED  BY <2>7, <3>1 DEF DeferredOpen
  <2>8. ASSUME NEW approves \in BOOLEAN, Key(approves)
        PROVE  TypeOK'
    BY <2>8 DEF Key, LeftUp, Status
  <2>9. CASE TurnStarts \/ UNCHANGED vars
    BY <2>9 DEF TurnStarts, vars
  <2>. QED
    BY <2>2, <2>3, <2>4, <2>5, <2>6, <2>7, <2>8, <2>9 DEF Next
<1>. QED  BY <1>1, <1>2, PTL DEF Spec

----------------------------------------------------------------------------
\* Every queued change is one.
LEMMA QueuedChanges ==
  ASSUME TypeOK
  PROVE  /\ Len(changes) \in Nat
         /\ \A i \in 1 .. Len(changes) :
              changes[i].ask \in Brokered /\ changes[i].status \in Status
<1>1. changes \in Seq(Change)
  BY DEF TypeOK
<1>2. \A i \in 1 .. Len(changes) : changes[i] \in Change
  BY <1>1
<1>. QED  BY <1>1, <1>2 DEF Change

\* Publishing adds a change behind those that are queued.
LEMMA PublishAdds ==
  ASSUME TypeOK, NEW a \in Brokered, NEW status \in Status, Publish(a, status)
  PROVE  /\ Len(changes') = Len(changes) + 1
         /\ \A i \in 1 .. Len(changes) : changes'[i] = changes[i]
         /\ changes'[Len(changes) + 1].ask = a
         /\ changes'[Len(changes) + 1].status = status
         /\ record'[a] = status
         /\ \A b \in Asks \ {a} : record'[b] = record[b]
         /\ Len(changes) \in Nat
<1>1. changes \in Seq(Change) /\ changes' = Append(changes, [ask |-> a, status |-> status])
  BY DEF Publish, TypeOK
<1>2. record \in [Asks -> Status] /\ record' = [record EXCEPT ![a] = status]
  BY DEF Publish, TypeOK
<1>3. changes'[Len(changes) + 1] = [ask |-> a, status |-> status]
  BY <1>1
<1>. QED  BY <1>1, <1>2, <1>3

\* Handling a change takes the oldest and keeps the others in their order.
LEMMA HandlingTakesOne ==
  ASSUME TypeOK, HandleChange
  PROVE  /\ Len(changes) \in Nat \ {0}
         /\ Len(changes') = Len(changes) - 1
         /\ \A i \in 2 .. Len(changes) : changes'[i - 1] = changes[i]
         /\ changes[1] = Head(changes)
         /\ Head(changes) \in Change
<1>1. changes \in Seq(Change) /\ changes # << >> /\ changes' = Tail(changes)
  BY DEF HandleChange, TypeOK
<1>. QED  BY <1>1

----------------------------------------------------------------------------
\* A change that closes cards is queued only once the broker has decided.
DecidedFirst ==
    \A i \in 1 .. Len(changes) :
      ~isActiveStatus(changes[i].status) => record[changes[i].ask] = "decided"

\* DecidedFirst is what stops a card from closing, and an open from being skipped,
\* while its ask waits; with it, the two properties are inductive.
CardInv == DecidedFirst /\ NoStaleCard /\ NoHiddenAsk

\* A step that publishes, whoever asked for it, disturbs no other ask.
LEMMA PublishKeepsCardInv ==
  ASSUME TypeOK, CardInv, NEW a \in Brokered, NEW status \in Status,
         Publish(a, status), status # "absent", record[a] # "decided",
         UNCHANGED <<opens, card, crowded, dropped>>,
         answering \ {a} \subseteq answering'
  PROVE  CardInv'
<1>. USE DEF CardInv
<1>0. /\ Len(changes) \in Nat
      /\ Len(changes') = Len(changes) + 1
      /\ \A i \in 1 .. Len(changes) : changes'[i] = changes[i]
      /\ changes'[Len(changes) + 1].ask = a
      /\ changes'[Len(changes) + 1].status = status
      /\ record'[a] = status
      /\ \A b \in Asks \ {a} : record'[b] = record[b]
  BY PublishAdds
<1>. USE <1>0
<1>1. Len(changes) + 1 \in 1 .. Len(changes')
  OBVIOUS
<1>2. DecidedFirst'
  <2>1. SUFFICES ASSUME NEW i \in 1 .. Len(changes'), ~isActiveStatus(changes'[i].status)
                 PROVE  record'[changes'[i].ask] = "decided"
    BY DEF DecidedFirst
  <2>2. CASE i \in 1 .. Len(changes)
    <3>1. record[changes[i].ask] = "decided"
      BY <2>1, <2>2 DEF DecidedFirst
    <3>2. changes[i].ask \in Asks
      BY <2>2, QueuedChanges
    <3>. QED  BY <2>2, <3>1, <3>2
  <2>3. CASE i = Len(changes) + 1
    BY <2>1, <2>3 DEF isActiveStatus, Status
  <2>. QED  BY <2>2, <2>3
<1>3. NoStaleCard'
  <2>1. SUFFICES ASSUME card \in Brokered, ~isActiveStatus(record'[card])
                 PROVE  \E i \in 1 .. Len(changes') :
                          changes'[i].ask = card /\ ~isActiveStatus(changes'[i].status)
    BY DEF NoStaleCard
  <2>2. CASE card = a
    BY <1>1, <2>1, <2>2
  <2>3. CASE card # a
    <3>1. PICK i \in 1 .. Len(changes) :
            changes[i].ask = card /\ ~isActiveStatus(changes[i].status)
      BY <2>1, <2>3 DEF NoStaleCard
    <3>. QED  BY <3>1
  <2>. QED  BY <2>2, <2>3
<1>4. NoHiddenAsk'
  <2>1. SUFFICES ASSUME NEW b \in Brokered, isActiveStatus(record'[b])
                 PROVE  b = card \/ OnItsWay(b)' \/ b \in answering' \cup crowded \cup dropped
    BY DEF NoHiddenAsk
  <2>2. CASE b = a
    <3>1. isActiveStatus(changes'[Len(changes) + 1].status)
      BY <2>1, <2>2
    <3>. QED  BY <1>1, <2>2, <3>1 DEF OnItsWay
  <2>3. CASE b # a
    <3>1. b = card \/ OnItsWay(b) \/ b \in answering \cup crowded \cup dropped
      BY <2>1, <2>3 DEF NoHiddenAsk
    <3>2. CASE OnItsWay(b)
      <4>1. CASE \E i \in 1 .. Len(opens) : opens[i] = b
        BY <4>1 DEF OnItsWay
      <4>2. CASE \E i \in 1 .. Len(changes) :
                   changes[i].ask = b /\ isActiveStatus(changes[i].status)
        <5>1. PICK i \in 1 .. Len(changes) :
                changes[i].ask = b /\ isActiveStatus(changes[i].status)
          BY <4>2
        <5>2. i \in 1 .. Len(changes') /\ changes'[i] = changes[i]
          OBVIOUS
        <5>. QED  BY <5>1, <5>2 DEF OnItsWay
      <4>. QED  BY <3>2, <4>1, <4>2 DEF OnItsWay
    <3>. QED  BY <2>3, <3>1, <3>2
  <2>. QED  BY <2>2, <2>3
<1>. QED  BY <1>2, <1>3, <1>4

\* Handling a change closes the card only of an ask that is decided, and defers
\* an open for every other that waits.
LEMMA HandleKeepsCardInv ==
  ASSUME TypeOK, CardInv, HandleChange
  PROVE  CardInv'
<1>. USE DEF CardInv
<1>. DEFINE change == Head(changes)
<1>0. /\ Len(changes) \in Nat \ {0}
      /\ Len(changes') = Len(changes) - 1
      /\ \A i \in 2 .. Len(changes) : changes'[i - 1] = changes[i]
      /\ changes[1] = change
      /\ change.ask \in Brokered
  BY HandlingTakesOne DEF Change
<1>. USE <1>0
<1>. HIDE DEF change
<1>1. /\ UNCHANGED <<record, answering, crowded, dropped>>
      /\ card' = IF card = change.ask /\ ~isActiveStatus(change.status) THEN NoAsk ELSE card
      /\ opens' = IF card # change.ask /\ isActiveStatus(change.status)
                  THEN Append(opens, change.ask) ELSE opens
  BY DEF HandleChange, IsThisCard, change
<1>2. ASSUME NEW i \in 1 .. Len(changes')
      PROVE  i + 1 \in 2 .. Len(changes) /\ changes'[i] = changes[i + 1]
  OBVIOUS
<1>3. ASSUME NEW i \in 1 .. Len(changes), i # 1
      PROVE  i - 1 \in 1 .. Len(changes') /\ changes'[i - 1] = changes[i]
  BY <1>3
<1>4. DecidedFirst'
  <2>1. \A i \in 2 .. Len(changes) :
          ~isActiveStatus(changes[i].status) => record[changes[i].ask] = "decided"
    BY DEF DecidedFirst
  <2>. QED  BY <1>1, <1>2, <2>1 DEF DecidedFirst
<1>5. NoStaleCard'
  <2>1. SUFFICES ASSUME card' \in Brokered, ~isActiveStatus(record[card'])
                 PROVE  \E i \in 1 .. Len(changes') :
                          changes'[i].ask = card' /\ ~isActiveStatus(changes'[i].status)
    BY <1>1 DEF NoStaleCard
  <2>2. card' = card
    BY <1>1, <2>1, ConstantsAssumption
  <2>3. PICK i \in 1 .. Len(changes) :
          changes[i].ask = card /\ ~isActiveStatus(changes[i].status)
    BY <2>1, <2>2 DEF NoStaleCard
  <2>4. i # 1
    BY <1>1, <2>1, <2>2, <2>3, ConstantsAssumption
  <2>. QED  BY <1>3, <2>2, <2>3, <2>4
<1>6. NoHiddenAsk'
  <2>1. SUFFICES ASSUME NEW b \in Brokered, isActiveStatus(record[b]),
                        b \notin answering \cup crowded \cup dropped
                 PROVE  b = card' \/ OnItsWay(b)'
    BY <1>1 DEF NoHiddenAsk
  <2>2. ASSUME b = card
        PROVE  b = card'
    <3>1. ~(change.ask = b /\ ~isActiveStatus(change.status))
      <4>1. 1 \in 1 .. Len(changes)
        OBVIOUS
      <4>2. ~isActiveStatus("decided")
        BY DEF isActiveStatus
      <4>. QED  BY <2>1, <4>1, <4>2 DEF DecidedFirst
    <3>. QED  BY <1>1, <2>2, <3>1
  <2>3. /\ \A i \in 1 .. Len(opens) : i \in 1 .. Len(opens') /\ opens'[i] = opens[i]
        /\ card # change.ask /\ isActiveStatus(change.status) =>
             Len(opens') \in 1 .. Len(opens') /\ opens'[Len(opens')] = change.ask
    <3>1. opens \in Seq(Brokered) /\ change.ask \in Brokered
      BY DEF TypeOK
    <3>2. CASE card # change.ask /\ isActiveStatus(change.status)
      <4>1. opens' = Append(opens, change.ask)
        BY <1>1, <3>2
      <4>. QED  BY <3>1, <3>2, <4>1
    <3>3. CASE ~(card # change.ask /\ isActiveStatus(change.status))
      <4>1. opens' = opens
        BY <1>1, <3>3
      <4>. QED  BY <3>3, <4>1
    <3>. QED  BY <3>2, <3>3
  <2>4. ASSUME \E i \in 1 .. Len(opens) : opens[i] = b
        PROVE  OnItsWay(b)'
    BY <2>3, <2>4 DEF OnItsWay
  <2>5. ASSUME NEW i \in 1 .. Len(changes),
               changes[i].ask = b, isActiveStatus(changes[i].status)
        PROVE  b = card' \/ OnItsWay(b)'
    <3>1. CASE i = 1
      BY <2>2, <2>3, <2>5, <3>1 DEF OnItsWay
    <3>2. CASE i # 1
      BY <1>3, <2>5, <3>2 DEF OnItsWay
    <3>. QED  BY <3>1, <3>2
  <2>6. b = card \/ OnItsWay(b)
    BY <2>1 DEF NoHiddenAsk
  <2>. QED  BY <2>2, <2>4, <2>5, <2>6 DEF OnItsWay
<1>. QED  BY <1>4, <1>5, <1>6

\* A deferred open shows the ask if it still waits and nothing else is up.
LEMMA OpenKeepsCardInv ==
  ASSUME TypeOK, CardInv, DeferredOpen
  PROVE  CardInv'
<1>. USE DEF CardInv
<1>1. /\ UNCHANGED <<record, changes, answering, dropped>>
      /\ \/ /\ card = NoAsk /\ crowded' = crowded
            /\ card' = IF isActiveStatus(record[Head(opens)]) THEN Head(opens) ELSE NoAsk
         \/ card # NoAsk /\ card' = card /\ crowded' = crowded \cup {Head(opens)}
  BY DEF DeferredOpen, StillWaits
<1>2. DecidedFirst'
  BY <1>1 DEF DecidedFirst
<1>3. NoStaleCard'
  BY <1>1, ConstantsAssumption DEF NoStaleCard
<1>4. NoHiddenAsk'
  <2>1. SUFFICES ASSUME NEW b \in Brokered, isActiveStatus(record[b]),
                        b \notin answering \cup crowded \cup dropped
                 PROVE  b = card' \/ OnItsWay(b)' \/ b \in crowded'
    BY <1>1 DEF NoHiddenAsk
  <2>2. CASE b = card
    BY <1>1, <2>2, ConstantsAssumption
  <2>3. ASSUME NEW i \in 1 .. Len(opens), opens[i] = b
        PROVE  b = card' \/ OnItsWay(b)' \/ b \in crowded'
    <3>1. opens \in Seq(Brokered) /\ opens # << >> /\ opens' = Tail(opens)
      BY DEF DeferredOpen, TypeOK
    <3>2. CASE i = 1
      BY <1>1, <2>1, <2>3, <3>1, <3>2
    <3>3. CASE i # 1
      <4>1. i - 1 \in 1 .. Len(opens') /\ opens'[i - 1] = b
        BY <2>3, <3>1, <3>3
      <4>. QED  BY <4>1 DEF OnItsWay
    <3>. QED  BY <3>2, <3>3
  <2>4. CASE \E i \in 1 .. Len(changes) :
               changes[i].ask = b /\ isActiveStatus(changes[i].status)
    BY <1>1, <2>4 DEF OnItsWay
  <2>. QED  BY <2>1, <2>2, <2>3, <2>4 DEF NoHiddenAsk, OnItsWay
<1>. QED  BY <1>2, <1>3, <1>4

\* A decided ask's card is about to close, and an ask handed to the broker is
\* shown, on its way, being answered, or met another card.
THEOREM CardTellsTruth == Spec => []CardIsTrue
<1>1. Init => CardInv
  BY ConstantsAssumption
  DEF Init, CardInv, DecidedFirst, NoStaleCard, NoHiddenAsk, isActiveStatus
<1>2. ASSUME TypeOK, CardInv, [Next]_vars
      PROVE  CardInv'
  <2>. USE <1>2
  <2>1. ASSUME NEW a \in Brokered, NEW status \in Status, BrokerChanges(a, status)
        PROVE  CardInv'
    <3>1. status # "absent" /\ record[a] # "decided"
      BY <2>1 DEF BrokerChanges, isActiveStatus
    <3>. QED  BY <2>1, <3>1, PublishKeepsCardInv DEF BrokerChanges
  <2>2. ASSUME NEW a \in Brokered, AnswerRecorded(a)
        PROVE  CardInv'
    <3>1. CASE Active(a)
      <4>1. record[a] # "decided" /\ "decided" \in Status
        BY <3>1 DEF isActiveStatus, Status
      <4>. QED  BY <2>2, <3>1, <4>1, PublishKeepsCardInv DEF AnswerRecorded
    <3>2. CASE ~Active(a)
      BY <2>2, <3>2
      DEF AnswerRecorded, CardInv, DecidedFirst, NoStaleCard, NoHiddenAsk, OnItsWay
    <3>. QED  BY <3>1, <3>2
  <2>3. ASSUME NEW a \in Brokered, AnswerFails(a)
        PROVE  CardInv'
    BY <2>3 DEF AnswerFails, CardInv, DecidedFirst, NoStaleCard, NoHiddenAsk, OnItsWay
  <2>4. ASSUME NEW a \in Local, RequestPermission(a) \/ AnsweredElsewhere(a)
        PROVE  CardInv'
    <3>1. /\ \A b \in Brokered : record'[b] = record[b]
          /\ UNCHANGED <<changes, opens, answering, dropped>>
          /\ card' \in Local \/ card' = card
          /\ crowded \cup ({card} \ {card'}) \subseteq crowded' \cup {NoAsk}
      BY <2>4, ConstantsAssumption DEF RequestPermission, AnsweredElsewhere, TypeOK
    <3>2. \A i \in 1 .. Len(changes) : changes[i].ask \in Brokered
      BY QueuedChanges
    <3>. QED  BY <3>1, <3>2, ConstantsAssumption
              DEF CardInv, DecidedFirst, NoStaleCard, NoHiddenAsk, OnItsWay
  <2>5. CASE HandleChange
    BY <2>5, HandleKeepsCardInv
  <2>6. CASE DeferredOpen
    BY <2>6, OpenKeepsCardInv
  <2>7. ASSUME NEW approves \in BOOLEAN, Key(approves)
        PROVE  CardInv'
    <3>1. /\ \A b \in Brokered : record'[b] = record[b]
          /\ UNCHANGED <<changes, opens, crowded, dropped>>
          /\ card' = NoAsk
          /\ answering \cup ({card} \cap Brokered) \subseteq answering'
      BY <2>7, ConstantsAssumption DEF Key, LeftUp, TypeOK
    <3>2. \A i \in 1 .. Len(changes) : changes[i].ask \in Brokered
      BY QueuedChanges
    <3>. QED  BY <3>1, <3>2, ConstantsAssumption
              DEF CardInv, DecidedFirst, NoStaleCard, NoHiddenAsk, OnItsWay
  <2>8. CASE TurnStarts \/ UNCHANGED vars
    BY <2>8
    DEF TurnStarts, vars, CardInv, DecidedFirst, NoStaleCard, NoHiddenAsk, OnItsWay
  <2>. QED
    BY <2>1, <2>2, <2>3, <2>4, <2>5, <2>6, <2>7, <2>8 DEF Next
<1>. QED  BY <1>1, <1>2, TypeCorrect, PTL DEF Spec, CardInv, CardIsTrue

HIDE DEF Asks, Active

----------------------------------------------------------------------------
(* The indicator. *)

ActiveHere(m)   == m \notin interrupted /\ place[m] \in {"routing", "hosted"}
LocalExists     == \E m \in Submissions : place[m] = "local"

\* Local turns hold the flag, and whenever the controller does not, they alone do.
\* It owns the flag only while a message it was not interrupted in is away.
FlagIsHeld ==
    /\ LocalExists <=> isThinking /\ ~owned
    /\ owned => isThinking
    /\ owned => \E m \in Submissions : ActiveHere(m)

UnsentIsFresh == \A m \in Submissions : place[m] = "unsent" => m \notin interrupted

\* Messages sent one after the other: one is away at a time, and none that was not
\* interrupted while a local turn runs.
OneAway ==
    /\ \A m, n \in Submissions :
         place[m] \in {"routing", "hosted"} /\ place[n] \in {"routing", "hosted"} => m = n
    /\ \A m \in Submissions : ActiveHere(m) => isThinking /\ ~LocalExists
    /\ LocalExists => \A m \in Submissions : place[m] # "routing"

ActivityInv ==
    /\ Activity!TypeOK
    /\ FlagIsHeld
    /\ UnsentIsFresh
    /\ ~overlapping => OneAway


LEMMA ActivityInit == Activity!Init => ActivityInv
  BY DEF Activity!Init, ActivityInv, Activity!TypeOK, FlagIsHeld, LocalExists,
     UnsentIsFresh,
         OneAway, ActiveHere

LEMMA ActivityTypePreserved ==
  ASSUME Activity!TypeOK, [Activity!Next]_(Activity!vars)
  PROVE  Activity!TypeOK'
<1>. USE DEF Activity!TypeOK
<1>1. ASSUME NEW m \in Submissions, Activity!Send(m)
      PROVE  Activity!TypeOK'
  BY <1>1
  DEF Activity!Send, Activity!Submitted, Activity!Begin, Activity!MayOwn, Activity!Unwatch
<1>2. ASSUME NEW m \in Submissions, Activity!RefusedUpFront(m) \/ Activity!Refused(m)
      PROVE  Activity!TypeOK'
  BY <1>2
  DEF Activity!RefusedUpFront, Activity!Refused, Activity!Submitted, Activity!RunsLocally
<1>3. ASSUME NEW m \in Submissions,
             Activity!Routed(m) \/ Activity!Completed(m) \/ Activity!LocalEnds(m)
      PROVE  Activity!TypeOK'
  BY <1>3
  DEF Activity!Routed, Activity!Completed, Activity!LocalEnds, Activity!End,
      Activity!Released
<1>4. CASE Activity!Interrupt
  BY <1>4 DEF Activity!Interrupt, Activity!In
<1>5. CASE UNCHANGED Activity!vars
  BY <1>5 DEF Activity!vars
<1>. QED  BY <1>1, <1>2, <1>3, <1>4, <1>5 DEF Activity!Next

LEMMA FlagPreserved ==
  ASSUME ActivityInv, [Activity!Next]_(Activity!vars), Activity!TypeOK'
  PROVE  FlagIsHeld' /\ UnsentIsFresh'
<1>. USE DEF ActivityInv, Activity!TypeOK, FlagIsHeld, LocalExists, UnsentIsFresh, ActiveHere
<1>1. ASSUME NEW m \in Submissions, Activity!Send(m)
      PROVE  FlagIsHeld' /\ UnsentIsFresh'
  BY <1>1
  DEF Activity!Send, Activity!Submitted, Activity!Begin, Activity!MayOwn, Activity!Unwatch
<1>2. ASSUME NEW m \in Submissions, Activity!RefusedUpFront(m) \/ Activity!Refused(m)
      PROVE  FlagIsHeld' /\ UnsentIsFresh'
  BY <1>2
  DEF Activity!RefusedUpFront, Activity!Refused, Activity!Submitted, Activity!RunsLocally
<1>3. ASSUME NEW m \in Submissions, Activity!Routed(m)
      PROVE  FlagIsHeld' /\ UnsentIsFresh'
  BY <1>3 DEF Activity!Routed
<1>4. ASSUME NEW m \in Submissions, Activity!Completed(m)
      PROVE  FlagIsHeld' /\ UnsentIsFresh'
  BY <1>4 DEF Activity!Completed, Activity!End, Activity!Released
<1>5. ASSUME NEW m \in Submissions, Activity!LocalEnds(m)
      PROVE  FlagIsHeld' /\ UnsentIsFresh'
  <2>1. isThinking' <=> \E n \in Submissions : n # m /\ place[n] = "local"
    BY <1>5 DEF Activity!LocalEnds, Activity!In
  <2>. QED  BY <1>5, <2>1 DEF Activity!LocalEnds
<1>6. CASE Activity!Interrupt
  BY <1>6 DEF Activity!Interrupt, Activity!In
<1>7. CASE UNCHANGED Activity!vars
  BY <1>7 DEF Activity!vars
<1>. QED  BY <1>1, <1>2, <1>3, <1>4, <1>5, <1>6, <1>7 DEF Activity!Next

LEMMA OneAwayPreserved ==
  ASSUME ActivityInv, [Activity!Next]_(Activity!vars), ~overlapping'
  PROVE  OneAway'
<1>. USE DEF ActivityInv, Activity!TypeOK, FlagIsHeld, LocalExists, UnsentIsFresh, ActiveHere
<1>1. ASSUME NEW m \in Submissions, Activity!Submitted(m)
      PROVE  /\ OneAway /\ ~LocalExists
             /\ \A n \in Submissions : place[n] # "routing" /\ ~ActiveHere(n)
  BY <1>1 DEF Activity!Submitted, Activity!In
<1>2. ASSUME NEW m \in Submissions, Activity!Send(m)
      PROVE  OneAway'
  <2>1. Activity!Submitted(m)
    BY <1>2 DEF Activity!Send
  <2>. QED
    BY <1>1, <1>2, <2>1
    DEF Activity!Send, Activity!Begin, Activity!MayOwn, Activity!Unwatch, OneAway
<1>3. ASSUME NEW m \in Submissions, Activity!RefusedUpFront(m)
      PROVE  OneAway'
  <2>1. Activity!Submitted(m)
    BY <1>3 DEF Activity!RefusedUpFront
  <2>. QED
    BY <1>1, <1>3, <2>1 DEF Activity!RefusedUpFront, Activity!RunsLocally, OneAway
<1>4. ASSUME NEW m \in Submissions, Activity!Refused(m)
      PROVE  OneAway'
  BY <1>4 DEF Activity!Refused, Activity!RunsLocally, OneAway
<1>5. ASSUME NEW m \in Submissions, Activity!Routed(m)
      PROVE  OneAway'
  BY <1>5 DEF Activity!Routed, OneAway
<1>6. ASSUME NEW m \in Submissions, Activity!Completed(m)
      PROVE  OneAway'
  BY <1>6 DEF Activity!Completed, Activity!End, OneAway
<1>7. ASSUME NEW m \in Submissions, Activity!LocalEnds(m)
      PROVE  OneAway'
  BY <1>7 DEF Activity!LocalEnds, OneAway
<1>8. CASE Activity!Interrupt
  BY <1>8 DEF Activity!Interrupt, Activity!In, OneAway
<1>9. CASE UNCHANGED Activity!vars
  BY <1>9 DEF Activity!vars, OneAway
<1>. QED  BY <1>2, <1>3, <1>4, <1>5, <1>6, <1>7, <1>8, <1>9 DEF Activity!Next

LEMMA ActivityPreserved ==
  ASSUME ActivityInv, [Activity!Next]_(Activity!vars)
  PROVE  ActivityInv'
<1>1. Activity!TypeOK'
  BY ActivityTypePreserved DEF ActivityInv
<1>2. FlagIsHeld' /\ UnsentIsFresh'
  BY <1>1, FlagPreserved
<1>3. ~overlapping' => OneAway'
  BY OneAwayPreserved
<1>. QED  BY <1>1, <1>2, <1>3 DEF ActivityInv

\* The indicator turns over work and over all the work there is: a flag that nobody
\* owns is held by a local turn, an owned one by a message that is away, and of those
\* sent one after the other there is no second one whose end could clear it.
THEOREM IndicatorStaysTrue == Activity!Spec => []IndicatorTellsTruth
<1>1. ActivityInv => IndicatorTellsTruth
  BY DEF ActivityInv, Activity!TypeOK, FlagIsHeld, LocalExists, OneAway, ActiveHere,
         IndicatorTellsTruth, Activity!SpinnerMeansWork, Activity!WaitingWhileTurnRuns,
         Activity!Watched, Activity!In
<1>. QED  BY <1>1, ActivityInit, ActivityPreserved, PTL DEF Activity!Spec

\* "It never clears another's": while a local turn goes on, no step of the controller
\* or of another local turn clears the flag.
THEOREM ClearsItsOwn == Activity!Spec => NeverClearsAnothers
<1>1. ASSUME ActivityInv, [Activity!Next]_(Activity!vars)
      PROVE  [\A m \in Submissions : place[m] = "local" /\ place'[m] = "local" /\ isThinking
                => isThinking']_(Activity!vars)
  <2>1. ActivityInv'
    BY <1>1, ActivityPreserved
  <2>. QED  BY <2>1 DEF ActivityInv, FlagIsHeld, LocalExists
<1>. QED
  BY <1>1, ActivityInit, ActivityPreserved, PTL
  DEF Activity!Spec, NeverClearsAnothers, Activity!NeverClearsAnothers


----------------------------------------------------------------------------
(* The nudge. *)

\* An answer says of a stream that has not moved since what the daemon has open.
AnswersAsOffered ==
    \A i \in 1..Len(answers) : \A s \in Occasions \ answers[i].moved :
        answers[i].open[s] = offered[s]

\* What has moved since an answer has moved since every earlier one.
MovedInOrder ==
    \A i, j \in 1..Len(answers) : i < j => answers[j].moved \subseteq answers[i].moved

PullsApart ==
    \A i \in 1..Len(answers) :
        /\ answers[i].pull \notin asked
        /\ \A j \in 1..Len(answers) : answers[i].pull = answers[j].pull => i = j

\* A stream that was said is remembered at the state it is in, and whichever answer
\* still tells of an earlier one is known to be stale.
ToldIsRemembered ==
    \A s \in told :
        /\ ledger[s] = offered[s]
        /\ \A i \in 1..Len(answers) : s \in answers[i].moved => answers[i].pull \in stale

NudgeInv ==
    /\ Nudge!TypeOK
    /\ AnswersAsOffered /\ MovedInOrder /\ PullsApart
    /\ ~crosswise => ~repeated /\ ToldIsRemembered


LEMMA RemoveAtShifts ==
  ASSUME NEW S, NEW s \in Seq(S), NEW i \in 1..Len(s)
  PROVE  /\ Nudge!RemoveAt(s, i) \in Seq(S)
         /\ Len(Nudge!RemoveAt(s, i)) = Len(s) - 1
         /\ \A j \in 1..(Len(s) - 1) :
              Nudge!RemoveAt(s, i)[j] = s[IF j < i THEN j ELSE j + 1]
<1>. DEFINE before == SubSeq(s, 1, i - 1)
            after  == SubSeq(s, i + 1, Len(s))
<1>1. Nudge!RemoveAt(s, i) = before \o after
  BY DEF Nudge!RemoveAt
<1>2. /\ before \in Seq(S) /\ Len(before) = i - 1
      /\ \A j \in 1..(i - 1) : before[j] = s[j]
  OBVIOUS
<1>3. /\ after \in Seq(S) /\ Len(after) = Len(s) - i
      /\ \A j \in 1..(Len(s) - i) : after[j] = s[i + j]
  OBVIOUS
<1>. HIDE DEF before, after
<1>4. /\ before \o after \in Seq(S)
      /\ Len(before \o after) = Len(s) - 1
  BY <1>2, <1>3
<1>5. ASSUME NEW j \in 1..(Len(s) - 1)
      PROVE  (before \o after)[j] = s[IF j < i THEN j ELSE j + 1]
  <2>1. CASE j < i
    BY <1>2, <1>3, <2>1
  <2>2. CASE ~(j < i)
    <3>1. (before \o after)[j] = after[j - (i - 1)]
      BY <1>2, <1>3, <2>2
    <3>2. j - (i - 1) \in 1..(Len(s) - i) /\ i + (j - (i - 1)) = j + 1
      BY <2>2
    <3>. QED  BY <1>3, <2>2, <3>1, <3>2
  <2>. QED  BY <2>1, <2>2
<1>. QED  BY <1>1, <1>4, <1>5

AnswerKind == [pull : Pulls, open : Nudge!Answer, moved : SUBSET Occasions]

LEMMA NudgeInit == Nudge!Init => NudgeInv
<1>. SUFFICES ASSUME Nudge!Init
              PROVE  NudgeInv
  OBVIOUS
<1>1. answers = <<>> /\ answers \in Seq(AnswerKind) /\ Len(answers) = 0
  BY DEF Nudge!Init
<1>2. ledger \in Nudge!Answer /\ moves \in 0..MaxChanges
  BY RoomAssumption DEF Nudge!Init, Nudge!Answer
<1>3. Nudge!TypeOK
  BY <1>1, <1>2 DEF Nudge!Init, Nudge!TypeOK, AnswerKind
<1>. QED
  BY <1>1, <1>3
  DEF Nudge!Init, NudgeInv, AnswersAsOffered, MovedInOrder, PullsApart, ToldIsRemembered

\* An answer that lands leaves the others as they were, in their order.
LEMMA OthersStay ==
  ASSUME Nudge!TypeOK, NEW i \in 1..Len(answers), Nudge!Lands(i)
  PROVE  /\ answers' \in Seq(AnswerKind)
         /\ Len(answers') = Len(answers) - 1
         /\ \A j \in 1..Len(answers') :
              /\ (IF j < i THEN j ELSE j + 1) \in 1..Len(answers) \ {i}
              /\ answers'[j] = answers[IF j < i THEN j ELSE j + 1]
<1>1. answers \in Seq(AnswerKind) /\ Len(answers) \in Nat
  BY DEF Nudge!TypeOK, AnswerKind
<1>2. answers' = Nudge!RemoveAt(answers, i)
  BY DEF Nudge!Lands
<1>3. /\ answers' \in Seq(AnswerKind) /\ Len(answers') = Len(answers) - 1
      /\ \A j \in 1..(Len(answers) - 1) :
           answers'[j] = answers[IF j < i THEN j ELSE j + 1]
  BY <1>1, <1>2, RemoveAtShifts
<1>4. ASSUME NEW j \in 1..(Len(answers) - 1)
      PROVE  (IF j < i THEN j ELSE j + 1) \in 1..Len(answers) \ {i}
  BY <1>1
<1>. QED  BY <1>3, <1>4

LEMMA AnswersMove ==
  ASSUME Nudge!TypeOK, NEW s \in Occasions, Nudge!Change(s)
  PROVE  /\ answers' \in Seq(AnswerKind)
         /\ Len(answers') = Len(answers)
         /\ \A i \in 1..Len(answers) :
              /\ answers'[i].pull = answers[i].pull
              /\ answers'[i].open = answers[i].open
              /\ answers'[i].moved = answers[i].moved \cup {s}
<1>1. answers \in Seq(AnswerKind) /\ Len(answers) \in Nat
  BY DEF Nudge!TypeOK, AnswerKind
<1>. DEFINE since(i) == [answers[i] EXCEPT !.moved = @ \cup {s}]
<1>2. answers' = [i \in 1..Len(answers) |-> since(i)]
  BY DEF Nudge!Change
<1>3. ASSUME NEW i \in 1..Len(answers)
      PROVE  /\ since(i) \in AnswerKind
             /\ since(i).pull = answers[i].pull
             /\ since(i).open = answers[i].open
             /\ since(i).moved = answers[i].moved \cup {s}
  <2>1. answers[i] \in AnswerKind
    BY <1>1
  <2>. QED  BY <2>1 DEF AnswerKind
<1>. HIDE DEF since
<1>4. answers' \in Seq(AnswerKind) /\ Len(answers') = Len(answers)
  BY <1>1, <1>2, <1>3
<1>5. \A i \in 1..Len(answers) : answers'[i] = since(i)
  BY <1>2
<1>. QED  BY <1>3, <1>4, <1>5

LEMMA AnswerGiven ==
  ASSUME Nudge!TypeOK, NEW p \in Pulls, Nudge!Answers(p)
  PROVE  /\ answers' \in Seq(AnswerKind)
         /\ Len(answers') = Len(answers) + 1
         /\ \A i \in 1..Len(answers) : answers'[i] = answers[i]
         /\ answers'[Len(answers) + 1].pull = p
         /\ answers'[Len(answers) + 1].open = offered
         /\ answers'[Len(answers) + 1].moved = {}
<1>. DEFINE new == [pull |-> p, open |-> offered, moved |-> {}]
<1>1. answers \in Seq(AnswerKind) /\ Len(answers) \in Nat
  BY DEF Nudge!TypeOK, AnswerKind
<1>2. new \in AnswerKind /\ new.pull = p /\ new.open = offered /\ new.moved = {}
  BY DEF Nudge!TypeOK, AnswerKind
<1>3. answers' = Append(answers, new)
  BY DEF Nudge!Answers
<1>. HIDE DEF new
<1>. QED  BY <1>1, <1>2, <1>3

LEMMA NudgeTypePreserved ==
  ASSUME Nudge!TypeOK, [Nudge!Next]_(Nudge!vars)
  PROVE  Nudge!TypeOK'
<1>1. ASSUME answers' \in Seq(AnswerKind)
      PROVE  answers' \in Seq([pull : Pulls, open : Nudge!Answer, moved : SUBSET Occasions])
  BY <1>1 DEF AnswerKind
<1>2. CASE Nudge!TurnCompletes \/ Nudge!Toggle \/ UNCHANGED Nudge!vars
  BY <1>2 DEF Nudge!TurnCompletes, Nudge!Toggle, Nudge!vars, Nudge!TypeOK, Nudge!Answer
<1>3. ASSUME NEW s \in Occasions, Nudge!Change(s)
      PROVE  Nudge!TypeOK'
  <2>1. offered' \in Nudge!Answer
    BY <1>3 DEF Nudge!Change, Nudge!TypeOK, Nudge!Answer
  <2>2. moves' \in 0..MaxChanges
    <3>1. MaxChanges \in Nat
      BY RoomAssumption
    <3>2. moves \in 0..MaxChanges /\ moves < MaxChanges /\ moves' = moves + 1
      BY <1>3 DEF Nudge!Change, Nudge!TypeOK
    <3>. QED  BY <3>1, <3>2
  <2>. QED
    BY <1>1, <1>3, <2>1, <2>2, AnswersMove DEF Nudge!Change, Nudge!TypeOK
<1>4. ASSUME NEW p \in Pulls, Nudge!Answers(p)
      PROVE  Nudge!TypeOK'
  BY <1>1, <1>4, AnswerGiven DEF Nudge!Answers, Nudge!TypeOK
<1>5. ASSUME NEW p \in Pulls, Nudge!PullFails(p)
      PROVE  Nudge!TypeOK'
  BY <1>5 DEF Nudge!PullFails, Nudge!TypeOK
<1>6. ASSUME NEW i \in 1..Len(answers), Nudge!Lands(i)
      PROVE  Nudge!TypeOK'
  <2>0. answers \in Seq(AnswerKind) /\ Len(answers) \in Nat
    BY DEF Nudge!TypeOK, AnswerKind
  <2>1. answers[i] \in AnswerKind /\ \A j \in 1..(i - 1) : answers[j] \in AnswerKind
    BY <2>0
  <2>2. ledger' \in Nudge!Answer
    BY <1>6, <2>1 DEF Nudge!Lands, Nudge!LedgerAfter, AnswerKind
  <2>3. told' \subseteq Occasions
    BY <1>6 DEF Nudge!Lands, Nudge!Raises, Nudge!TypeOK
  <2>4. stale' \subseteq Pulls
    BY <1>6, <2>1 DEF Nudge!Lands, Nudge!TypeOK, AnswerKind
  <2>5. crosswise' \in BOOLEAN /\ repeated' \in BOOLEAN
    BY <1>6, Zenon DEF Nudge!Lands, Nudge!TypeOK
  <2>. QED
    BY <1>1, <1>6, <2>2, <2>3, <2>4, <2>5, OthersStay DEF Nudge!Lands, Nudge!TypeOK
<1>. QED  BY <1>2, <1>3, <1>4, <1>5, <1>6 DEF Nudge!Next

LEMMA AnswersPreserved ==
  ASSUME NudgeInv, [Nudge!Next]_(Nudge!vars), Nudge!TypeOK'
  PROVE  AnswersAsOffered' /\ MovedInOrder' /\ PullsApart'
<1>. USE DEF NudgeInv, AnswersAsOffered, MovedInOrder, PullsApart
<1>0. Len(answers) \in Nat /\ Nudge!TypeOK
  BY DEF Nudge!TypeOK
<1>1. CASE Nudge!Toggle \/ UNCHANGED Nudge!vars
  BY <1>1 DEF Nudge!Toggle, Nudge!vars
<1>2. CASE Nudge!TurnCompletes
  BY <1>2 DEF Nudge!TurnCompletes, Nudge!Out
<1>3. ASSUME NEW s \in Occasions, Nudge!Change(s)
      PROVE  AnswersAsOffered' /\ MovedInOrder' /\ PullsApart'
  <2>1. asked' = asked /\ \A t \in Occasions \ {s} : offered'[t] = offered[t]
    BY <1>0, <1>3 DEF Nudge!Change, Nudge!TypeOK, Nudge!Answer
  <2>. QED  BY <1>0, <1>3, <2>1, AnswersMove
<1>4. ASSUME NEW p \in Pulls, Nudge!Answers(p)
      PROVE  AnswersAsOffered' /\ MovedInOrder' /\ PullsApart'
  <2>1. asked' = asked \ {p} /\ offered' = offered /\ p \in asked
    BY <1>4 DEF Nudge!Answers
  <2>2. 1..Len(answers') = 1..Len(answers) \cup {Len(answers) + 1}
    BY <1>0, <1>4, AnswerGiven
  <2>. QED  BY <1>0, <1>4, <2>1, <2>2, AnswerGiven
<1>5. ASSUME NEW p \in Pulls, Nudge!PullFails(p)
      PROVE  AnswersAsOffered' /\ MovedInOrder' /\ PullsApart'
  BY <1>5 DEF Nudge!PullFails
<1>6. ASSUME NEW i \in 1..Len(answers), Nudge!Lands(i)
      PROVE  AnswersAsOffered' /\ MovedInOrder' /\ PullsApart'
  <2>1. asked' = asked /\ offered' = offered
    BY <1>6 DEF Nudge!Lands
  <2>. DEFINE old(j) == IF j < i THEN j ELSE j + 1
  <2>2. \A j \in 1..Len(answers') :
          old(j) \in 1..Len(answers) /\ answers'[j] = answers[old(j)]
    BY <1>0, <1>6, OthersStay
  <2>3. \A j, k \in 1..Len(answers') : (j < k => old(j) < old(k)) /\ (old(j) = old(k) => j = k)
    BY <1>0, <1>6, OthersStay
  <2>. HIDE DEF old
  <2>4. AnswersAsOffered'
    BY <2>1, <2>2
  <2>5. MovedInOrder'
    <3>. SUFFICES ASSUME NEW j \in 1..Len(answers'), NEW k \in 1..Len(answers'), j < k
                  PROVE  answers'[k].moved \subseteq answers'[j].moved
      OBVIOUS
    <3>. QED  BY <2>2, <2>3
  <2>6. PullsApart'
    <3>. SUFFICES ASSUME NEW j \in 1..Len(answers')
                  PROVE  /\ answers'[j].pull \notin asked
                         /\ \A k \in 1..Len(answers') : answers'[j].pull = answers'[k].pull => j = k
      BY <2>1
    <3>. QED  BY <2>2, <2>3
  <2>. QED  BY <2>4, <2>5, <2>6
<1>. QED  BY <1>1, <1>2, <1>3, <1>4, <1>5, <1>6 DEF Nudge!Next

LEMMA ToldPreserved ==
  ASSUME NudgeInv, [Nudge!Next]_(Nudge!vars), ~crosswise'
  PROVE  ~repeated' /\ ToldIsRemembered'
<1>. USE DEF NudgeInv, ToldIsRemembered
<1>0. Len(answers) \in Nat /\ Nudge!TypeOK /\ told \subseteq Occasions
  BY DEF Nudge!TypeOK
<1>1. CASE Nudge!TurnCompletes \/ Nudge!Toggle \/ UNCHANGED Nudge!vars
  BY <1>1 DEF Nudge!TurnCompletes, Nudge!Toggle, Nudge!vars
<1>2. ASSUME NEW s \in Occasions, Nudge!Change(s)
      PROVE  ~repeated' /\ ToldIsRemembered'
  <2>1. /\ told' = told \ {s} /\ ledger' = ledger /\ stale' = stale
        /\ repeated' = repeated /\ crosswise' = crosswise
        /\ \A t \in Occasions \ {s} : offered'[t] = offered[t]
    BY <1>0, <1>2 DEF Nudge!Change, Nudge!TypeOK, Nudge!Answer
  <2>. QED  BY <1>0, <1>2, <2>1, AnswersMove
<1>3. ASSUME NEW p \in Pulls, Nudge!Answers(p)
      PROVE  ~repeated' /\ ToldIsRemembered'
  <2>1. UNCHANGED <<offered, ledger, told, stale, crosswise, repeated>>
    BY <1>3 DEF Nudge!Answers
  <2>2. 1..Len(answers') = 1..Len(answers) \cup {Len(answers) + 1}
    BY <1>0, <1>3, AnswerGiven
  <2>. QED  BY <1>0, <1>3, <2>1, <2>2, AnswerGiven
<1>4. ASSUME NEW p \in Pulls, Nudge!PullFails(p)
      PROVE  ~repeated' /\ ToldIsRemembered'
  BY <1>4 DEF Nudge!PullFails
<1>5. ASSUME NEW i \in 1..Len(answers), Nudge!Lands(i)
      PROVE  ~repeated' /\ ToldIsRemembered'
  <2>. DEFINE anew == Nudge!Raises(answers[i].open) \ answers[i].moved
  <2>1. /\ ledger' = answers[i].open
        /\ told' = told \cup anew
        /\ stale' = (stale \cup {answers[j].pull : j \in 1..(i - 1)}) \ {answers[i].pull}
        /\ crosswise' = (crosswise \/ answers[i].pull \in stale)
        /\ repeated' = (repeated \/ anew \cap told # {})
        /\ offered' = offered
    BY <1>5, Zenon DEF Nudge!Lands, Nudge!LedgerAfter
  <2>2. ~crosswise /\ answers[i].pull \notin stale /\ ~repeated /\ ToldIsRemembered
    BY <2>1
  <2>3. \A s \in told' : s \in Occasions /\ s \notin answers[i].moved
    BY <1>0, <2>1, <2>2 DEF Nudge!Raises
  <2>4. \A s \in told' : ledger'[s] = offered'[s]
    BY <2>1, <2>3 DEF AnswersAsOffered
  <2>5. ~repeated'
    <3>1. \A s \in told : answers[i].open[s] = ledger[s]
      BY <2>1, <2>2, <2>4
    <3>. QED  BY <2>1, <2>2, <3>1 DEF Nudge!Raises
  <2>6. ASSUME NEW s \in told', NEW j \in 1..Len(answers'), s \in answers'[j].moved
        PROVE  answers'[j].pull \in stale'
    <3>. DEFINE k == IF j < i THEN j ELSE j + 1
    <3>1. k \in 1..Len(answers) \ {i} /\ answers'[j] = answers[k]
      BY <1>0, <1>5, OthersStay
    <3>. HIDE DEF k
    <3>2. answers[k].pull # answers[i].pull
      BY <3>1 DEF PullsApart
    <3>3. CASE k < i
      BY <2>1, <3>1, <3>2, <3>3
    <3>4. CASE i < k
      BY <2>3, <2>6, <3>1, <3>4 DEF MovedInOrder
    <3>. QED  BY <3>1, <3>3, <3>4
  <2>. QED  BY <2>4, <2>5, <2>6
<1>. QED  BY <1>1, <1>2, <1>3, <1>4, <1>5 DEF Nudge!Next

LEMMA NudgePreserved ==
  ASSUME NudgeInv, [Nudge!Next]_(Nudge!vars)
  PROVE  NudgeInv'
<1>1. Nudge!TypeOK'
  BY NudgeTypePreserved DEF NudgeInv
<1>2. AnswersAsOffered' /\ MovedInOrder' /\ PullsApart'
  BY <1>1, AnswersPreserved
<1>3. ~crosswise' => ~repeated' /\ ToldIsRemembered'
  BY ToldPreserved
<1>. QED  BY <1>1, <1>2, <1>3 DEF NudgeInv

\* "Said once per session, not once per turn": while no answer lands after a later one,
\* what was said is remembered in the state it is in, so no answer raises it again.
THEOREM NudgesAreSaidOnce == Nudge!Spec => []SaidOnce
<1>1. NudgeInv => SaidOnce
  BY DEF NudgeInv, SaidOnce, Nudge!SaidOnce
<1>. QED  BY <1>1, NudgeInit, NudgePreserved, PTL DEF Nudge!Spec


----------------------------------------------------------------------------
(* The palette. *)

ReaderKind == [rounds : Nat, active : BOOLEAN, answered : SUBSET Slots, colours : SUBSET Slots,
               settled : BOOLEAN, shown : BOOLEAN, published : SUBSET Slots, timer : BOOLEAN,
               spaced : BOOLEAN]

\* Nothing is published but by a settled reader, and a settled reader does not ask.
Sound(r) ==
    /\ r \in ReaderKind
    /\ r.published # {} => r.settled
    /\ r.settled => ~r.active

PaletteInv ==
    /\ Sound(reader)
    /\ reader.rounds = 0 => ~reader.settled /\ ~reader.active /\ ~reader.timer
    /\ replies \subseteq Slots

\* What a method of the reader makes of a sound one.
Follows(r, next) ==
    /\ Sound(next)
    /\ r.published \subseteq next.published
    /\ next.rounds >= r.rounds

LEMMA RoundBegins ==
  ASSUME NEW r, Sound(r), r.settled = FALSE
  PROVE  Follows(r, Palette!BeginRound(r)) /\ Palette!BeginRound(r).rounds > 0
<1>. DEFINE next == Palette!BeginRound(r)
<1>1. r \in ReaderKind
  BY DEF Sound
<1>2. r.rounds \in Nat /\ r.rounds + 1 \in Nat
  BY <1>1 DEF ReaderKind
<1>3. next \in ReaderKind
  BY <1>1, <1>2 DEF Palette!BeginRound, ReaderKind
<1>4. /\ next.rounds = r.rounds + 1
      /\ next.settled = r.settled /\ next.published = r.published
  BY <1>1 DEF Palette!BeginRound, ReaderKind
<1>5. r.published = {}
  BY DEF Sound
<1>. HIDE DEF next
<1>6. next.settled = FALSE /\ next.published = {}
  BY <1>4, <1>5
<1>7. Sound(next)
  BY <1>3, <1>6 DEF Sound
<1>. QED  BY <1>2, <1>4, <1>5, <1>7 DEF next, Follows

LEMMA RetryFollows ==
  ASSUME NEW r, Sound(r)
  PROVE  Follows(r, Palette!Retry(r))
<1>1. CASE Palette!MayAskAgain(r) /\ r.spaced
  <2>1. r \in ReaderKind
    BY DEF Sound
  <2>2. r.settled = FALSE
    BY <1>1, <2>1 DEF Palette!MayAskAgain, ReaderKind
  <2>. QED  BY <1>1, <2>2, RoundBegins DEF Palette!Retry
<1>2. CASE ~(Palette!MayAskAgain(r) /\ r.spaced)
  BY <1>2 DEF Palette!Retry, Follows, Sound, ReaderKind
<1>. QED  BY <1>1, <1>2

LEMMA RoundEnds ==
  ASSUME NEW r, Sound(r), r.active = TRUE
  PROVE  Follows(r, Palette!RoundResolved(r))
<1>. DEFINE next == Palette!RoundResolved(r)
<1>1. r \in ReaderKind
  BY DEF Sound
<1>2. next \in ReaderKind
  BY <1>1 DEF Palette!RoundResolved, ReaderKind
<1>3. /\ next.rounds = r.rounds /\ next.active = FALSE
      /\ next.published = IF r.colours # {} THEN r.colours ELSE r.published
      /\ next.settled = (r.settled \/ r.colours # {})
  BY <1>1 DEF Palette!RoundResolved, ReaderKind
<1>4. r.published = {} /\ r.rounds \in Nat
  BY <1>1 DEF Sound, ReaderKind
<1>. HIDE DEF next
<1>5. Sound(next)
  BY <1>2, <1>3, <1>4 DEF Sound
<1>. QED  BY <1>3, <1>4, <1>5 DEF next, Follows

LEMMA LateIsAccepted ==
  ASSUME NEW r, Sound(r), r.active = FALSE, NEW colours \in SUBSET Slots
  PROVE  Follows(r, Palette!AcceptLate(r, colours))
<1>. DEFINE next == [r EXCEPT !.settled = TRUE, !.published = @ \cup colours, !.shown = TRUE]
<1>1. r \in ReaderKind
  BY DEF Sound
<1>2. next \in ReaderKind
  BY <1>1 DEF ReaderKind
<1>3. /\ next.rounds = r.rounds /\ next.active = r.active
      /\ next.published = r.published \cup colours /\ next.settled = TRUE
  BY <1>1 DEF ReaderKind
<1>4. r.rounds \in Nat
  BY <1>1 DEF ReaderKind
<1>5. Palette!AcceptLate(r, colours) \in {r, next}
  BY DEF Palette!AcceptLate
<1>. HIDE DEF next
<1>. QED  BY <1>2, <1>3, <1>4, <1>5 DEF Follows, Sound

LEMMA RepliesAreFed ==
  ASSUME NEW r, Sound(r), NEW chunk \in SUBSET Slots, NEW colours \in SUBSET chunk
  PROVE  Follows(r, Palette!Feed(r, chunk, colours))
<1>1. CASE r.active
  <2>. DEFINE now == [r EXCEPT !.answered = @ \cup chunk, !.colours = (@ \ chunk) \cup colours]
  <2>1. /\ Sound(now) /\ now.active
        /\ now.published = r.published /\ now.rounds = r.rounds
    BY <1>1 DEF Sound, ReaderKind
  <2>2. Palette!Feed(r, chunk, colours) =
            IF now.answered = Slots THEN Palette!RoundResolved(now) ELSE now
    BY <1>1 DEF Palette!Feed, Palette!Collect
  <2>. HIDE DEF now
  <2>3. Follows(now, Palette!RoundResolved(now))
    BY <2>1, RoundEnds
  <2>4. now.rounds \in Nat
    BY <2>1 DEF Sound, ReaderKind
  <2>. QED  BY <2>1, <2>2, <2>3, <2>4 DEF Follows
<1>2. CASE ~r.active
  <2>1. r \in ReaderKind
    BY DEF Sound
  <2>2. r.active = FALSE
    BY <1>2, <2>1 DEF ReaderKind
  <2>. QED  BY <1>2, <2>2, LateIsAccepted DEF Palette!Feed
<1>. QED  BY <1>1, <1>2

LEMMA PaletteInit == Palette!Init => PaletteInv
  BY DEF Palette!Init, PaletteInv, Sound, ReaderKind

\* A step of the reader leaves it sound and keeps what it has published.
LEMMA PaletteStep ==
  ASSUME PaletteInv, [Palette!Next]_(Palette!vars)
  PROVE  PaletteInv' /\ reader.published \subseteq reader'.published
<1>. USE DEF PaletteInv
<1>0. reader.rounds \in Nat
  BY DEF Sound, ReaderKind
<1>1. ASSUME NEW next, NEW left, Palette!Step(next, left), left \subseteq Slots,
             Follows(reader, next), next.rounds > 0
      PROVE  PaletteInv' /\ reader.published \subseteq reader'.published
  BY <1>1 DEF Palette!Step, Follows
<1>2. CASE Palette!Start
  <2>1. reader \in ReaderKind
    BY DEF Sound
  <2>2. reader.settled = FALSE
    BY <1>2, <2>1 DEF Palette!Start, ReaderKind
  <2>. QED  BY <1>1, <1>2, <2>2, RoundBegins DEF Palette!Start
<1>3. CASE Palette!Input
  <2>. DEFINE after(chunk, other, colours) ==
                  IF other THEN Palette!Retry(Palette!Feed(reader, chunk, colours))
                  ELSE Palette!Feed(reader, chunk, colours)
  <2>1. PICK chunk \in SUBSET replies, other \in BOOLEAN :
          \E colours \in SUBSET chunk :
             Palette!Step(after(chunk, other, colours), replies \ chunk)
    BY <1>3 DEF Palette!Input
  <2>2. PICK colours \in SUBSET chunk :
          Palette!Step(after(chunk, other, colours), replies \ chunk)
    BY <2>1
  <2>. DEFINE fed == Palette!Feed(reader, chunk, colours)
  <2>3. Follows(reader, fed)
    BY RepliesAreFed
  <2>4. Follows(fed, Palette!Retry(fed))
    BY <2>3, RetryFollows DEF Follows
  <2>5. reader.rounds > 0 /\ fed.rounds \in Nat /\ Palette!Retry(fed).rounds \in Nat
    BY <1>3, <2>3, <2>4 DEF Palette!Input, Follows, Sound, ReaderKind
  <2>6. Palette!Step(IF other THEN Palette!Retry(fed) ELSE fed, replies \ chunk)
    BY <2>2
  <2>. HIDE DEF fed, after
  <2>. DEFINE next == IF other THEN Palette!Retry(fed) ELSE fed
  <2>7. Follows(reader, next) /\ next.rounds > 0
    BY <1>0, <2>3, <2>4, <2>5 DEF Follows
  <2>. HIDE DEF next
  <2>. QED  BY <1>1, <2>6, <2>7 DEF next
<1>4. CASE Palette!Resize
  <2>1. Follows(reader, Palette!Retry(reader))
    BY RetryFollows
  <2>2. reader.rounds > 0 /\ Palette!Retry(reader).rounds \in Nat
    BY <1>4, <2>1 DEF Palette!Resize, Follows, Sound, ReaderKind
  <2>. QED  BY <1>0, <1>1, <1>4, <2>1, <2>2 DEF Palette!Resize, Follows
<1>5. CASE Palette!WindowCloses
  <2>1. Follows(reader, Palette!RoundResolved(reader))
    BY <1>5, RoundEnds DEF Palette!WindowCloses
  <2>2. reader.rounds > 0 /\ Palette!RoundResolved(reader).rounds \in Nat
    BY <1>0, <1>5, <2>1 DEF Palette!WindowCloses, Follows, Sound, ReaderKind
  <2>. QED  BY <1>0, <1>1, <1>5, <2>1, <2>2 DEF Palette!WindowCloses, Follows
<1>6. CASE Palette!TimerFires
  <2>. DEFINE fired == [reader EXCEPT !.timer = FALSE]
              again == [fired EXCEPT !.timer = TRUE]
              retried == Palette!Retry(fired)
  <2>0. reader \in ReaderKind
    BY DEF Sound
  <2>1. Follows(reader, fired) /\ Follows(fired, again)
    <3>1. fired \in ReaderKind
      BY <2>0 DEF ReaderKind
    <3>2. again \in ReaderKind
      BY <2>0 DEF ReaderKind
    <3>3. /\ fired.rounds = reader.rounds /\ again.rounds = reader.rounds
          /\ fired.published = reader.published /\ again.published = reader.published
          /\ fired.settled = reader.settled /\ again.settled = reader.settled
          /\ fired.active = reader.active /\ again.active = reader.active
      BY <2>0 DEF ReaderKind
    <3>. HIDE DEF fired, again
    <3>. QED  BY <1>0, <3>1, <3>2, <3>3 DEF Follows, Sound
  <2>2. Follows(fired, retried)
    BY <2>1, RetryFollows DEF Follows
  <2>3. /\ reader.rounds > 0 /\ fired.rounds \in Nat
        /\ again.rounds \in Nat /\ retried.rounds \in Nat
    BY <1>0, <1>6, <2>1, <2>2 DEF Palette!TimerFires, Follows, Sound, ReaderKind
  <2>4. Palette!Step(IF retried = fired /\ Palette!MayAskAgain(fired) THEN again ELSE retried,
                     replies)
    BY <1>6 DEF Palette!TimerFires
  <2>. HIDE DEF fired, again, retried
  <2>. DEFINE next == IF retried = fired /\ Palette!MayAskAgain(fired) THEN again ELSE retried
  <2>5. Follows(reader, next) /\ next.rounds > 0
    BY <1>0, <2>1, <2>2, <2>3 DEF Follows
  <2>. HIDE DEF next
  <2>. QED  BY <1>1, <2>4, <2>5 DEF next
<1>7. CASE Palette!SpacingElapses
  <2>. DEFINE next == [reader EXCEPT !.spaced = TRUE]
  <2>1. Follows(reader, next) /\ next.rounds > 0
    <3>1. reader \in ReaderKind
      BY DEF Sound
    <3>2. next \in ReaderKind
      BY <3>1 DEF ReaderKind
    <3>3. /\ next.rounds = reader.rounds /\ next.published = reader.published
          /\ next.settled = reader.settled /\ next.active = reader.active
      BY <3>1 DEF ReaderKind
    <3>4. reader.rounds > 0
      BY <1>7 DEF Palette!SpacingElapses
    <3>. HIDE DEF next
    <3>. QED  BY <1>0, <3>2, <3>3, <3>4 DEF Follows, Sound
  <2>2. Palette!Step(next, replies)
    BY <1>7 DEF Palette!SpacingElapses
  <2>. HIDE DEF next
  <2>. QED  BY <1>1, <2>1, <2>2
<1>8. CASE Palette!Attach \/ Palette!Lost \/ UNCHANGED Palette!vars
  BY <1>8 DEF Palette!Attach, Palette!Lost, Palette!vars, Sound
<1>. QED  BY <1>2, <1>3, <1>4, <1>5, <1>6, <1>7, <1>8 DEF Palette!Next

\* A colour that was published is never taken back, whether or not timers fire: a round
\* that reads fewer, or none, ends only in a reader that had published nothing.
THEOREM ColoursStayKept == Palette!Init /\ [][Palette!Next]_(Palette!vars) => ColoursKept
<1>1. ASSUME PaletteInv, [Palette!Next]_(Palette!vars)
      PROVE  [reader.published \subseteq reader'.published]_(Palette!vars)
  BY <1>1, PaletteStep
<1>2. ASSUME PaletteInv, [Palette!Next]_(Palette!vars)
      PROVE  PaletteInv'
  BY <1>2, PaletteStep
<1>. QED  BY <1>1, <1>2, PaletteInit, PTL DEF ColoursKept, Palette!ColoursKept


----------------------------------------------------------------------------
(* The session. *)

NoFile(s) == files[s] = {}

\* Ids are numbered as they are made, and one that was not made has no file.
IdsAreNew ==
    /\ home <= ids /\ boot <= ids /\ pointer <= ids
    /\ \A s \in Session!Ids : s > ids => NoFile(s)

\* The turn that runs is on screen until the transcript is replaced, and none runs
\* while a recovery is offered.
RunningIsShown ==
    /\ asking <= turns
    /\ asking # 0 /\ ~replaced => asking \in screen
    /\ ~misplaced
    /\ offer # {} => asking = 0 /\ NoFile(home)
    /\ \A t \in Session!Turns : t > turns => madeIn[t] = 0

Kept == Session!Completed \ discarded

\* Saving what is on screen over the session in use costs no turn: the file of that
\* session has it on screen too, or another file has it.
SafeToSave ==
    \A t \in Kept : \/ t \in screen /\ t \in files[home]
                    \/ \E s \in Session!Ids \ {home} : t \in files[s]

\* The last session holds what is on screen, what the session in use has saved, and
\* what a recovery would bring back.
PointerIsAhead ==
    \A t \in Kept : t \in screen \/ t \in files[home] \/ t \in offer => t \in files[pointer]

SessionInv ==
    /\ Session!TypeOK
    /\ IdsAreNew /\ RunningIsShown
    /\ ~strayed => SafeToSave /\ PointerIsAhead


LEMMA SessionInit == Session!Init => SessionInv
<1>. SUFFICES ASSUME Session!Init
              PROVE  SessionInv
  OBVIOUS
<1>. USE DEF Session!Ids, Session!Turns, Session!Nothing
<1>1. /\ home = 2 /\ boot = 2 /\ ids = 2 /\ pointer = 1
      /\ screen = {} /\ asking = 0 /\ turns = 1 /\ offer = {}
      /\ ~strayed /\ ~misplaced
  BY DEF Session!Init
<1>2. /\ \A s \in Session!Ids : files[s] = IF s = 1 THEN {1} ELSE {}
      /\ \A t \in Session!Turns : madeIn[t] = IF t = 1 THEN 1 ELSE 0
  BY DEF Session!Init
<1>3. Session!TypeOK
  <2>1. /\ home \in Session!Ids /\ boot \in Session!Ids /\ ids \in Session!Ids
        /\ pointer \in Session!Ids /\ turns \in Session!Turns
        /\ launches \in 1..MaxLaunches /\ commands \in 0..MaxCommands
    BY RoomAssumption DEF Session!Init
  <2>2. 1 \in Session!Ids /\ 1 \in Session!Turns
    BY RoomAssumption
  <2>3. /\ files \in [Session!Ids -> SUBSET Session!Turns]
        /\ anchors \in [Session!Ids -> SUBSET Session!Turns]
        /\ madeIn \in [Session!Turns -> Session!Ids \cup {Session!Nothing}]
    BY <2>2 DEF Session!Init
  <2>. QED  BY <2>1, <2>3 DEF Session!Init, Session!TypeOK
<1>4. IdsAreNew /\ RunningIsShown
  BY <1>1, <1>2 DEF IdsAreNew, RunningIsShown, NoFile
<1>5. 1 \in Session!Ids /\ 1 # home
  BY <1>1, RoomAssumption
<1>6. \A t \in Kept : t \in files[1] /\ t \in files[pointer]
  BY <1>1, <1>2, <1>5 DEF Kept, Session!Completed
<1>. QED  BY <1>1, <1>3, <1>4, <1>5, <1>6 DEF SessionInv, SafeToSave, PointerIsAhead

LEMMA NextIdIsId ==
  ASSUME Session!TypeOK, Session!HasRoom
  PROVE  ids + 1 \in Session!Ids
  BY RoomAssumption DEF Session!TypeOK, Session!Ids, Session!HasRoom

LEMMA SessionTypePreserved ==
  ASSUME Session!TypeOK, [Session!Next]_(Session!vars)
  PROVE  Session!TypeOK'
<1>. USE DEF Session!TypeOK
<1>1. CASE Session!Submit
  <2>1. /\ home' \in Session!Ids /\ boot' \in Session!Ids /\ ids' \in Session!Ids
        /\ pointer' \in Session!Ids /\ turns' \in Session!Turns
        /\ asking' \in Session!Turns \cup {Session!Nothing}
        /\ launches' \in 1..MaxLaunches /\ commands' \in 0..MaxCommands
    BY <1>1, RoomAssumption
    DEF Session!Submit, Session!Turns, Session!Nothing
  <2>2. /\ screen' \subseteq Session!Turns /\ offer' \subseteq Session!Turns
        /\ discarded' \subseteq Session!Turns
    BY <1>1, <2>1
    DEF Session!Submit, Session!Nothing
  <2>3. /\ files' \in [Session!Ids -> SUBSET Session!Turns]
        /\ anchors' \in [Session!Ids -> SUBSET Session!Turns]
        /\ madeIn' \in [Session!Turns -> Session!Ids \cup {Session!Nothing}]
    BY <1>1, <2>2
    DEF Session!Submit
  <2>4. strayed' \in BOOLEAN /\ replaced' \in BOOLEAN /\ misplaced' \in BOOLEAN
    BY <1>1
    DEF Session!Submit
  <2>. QED  BY <2>1, <2>2, <2>3, <2>4
<1>2. CASE Session!TurnCompletes
  <2>1. /\ home' \in Session!Ids /\ boot' \in Session!Ids /\ ids' \in Session!Ids
        /\ pointer' \in Session!Ids /\ turns' \in Session!Turns
        /\ asking' \in Session!Turns \cup {Session!Nothing}
        /\ launches' \in 1..MaxLaunches /\ commands' \in 0..MaxCommands
    BY <1>2, RoomAssumption
    DEF Session!TurnCompletes, Session!AnchoredIn, Session!counts, Session!Turns,
        Session!Nothing
  <2>2. /\ screen' \subseteq Session!Turns /\ offer' \subseteq Session!Turns
        /\ discarded' \subseteq Session!Turns
    BY <1>2, <2>1
    DEF Session!TurnCompletes, Session!AnchoredIn, Session!counts, Session!Nothing
  <2>3. /\ files' \in [Session!Ids -> SUBSET Session!Turns]
        /\ anchors' \in [Session!Ids -> SUBSET Session!Turns]
        /\ madeIn' \in [Session!Turns -> Session!Ids \cup {Session!Nothing}]
    BY <1>2, <2>2
    DEF Session!TurnCompletes, Session!AnchoredIn, Session!counts
  <2>4. strayed' \in BOOLEAN /\ replaced' \in BOOLEAN /\ misplaced' \in BOOLEAN
    BY <1>2
    DEF Session!TurnCompletes, Session!AnchoredIn, Session!counts
  <2>. QED  BY <2>1, <2>2, <2>3, <2>4
<1>3. CASE Session!TurnBreaks
  <2>1. /\ home' \in Session!Ids /\ boot' \in Session!Ids /\ ids' \in Session!Ids
        /\ pointer' \in Session!Ids /\ turns' \in Session!Turns
        /\ asking' \in Session!Turns \cup {Session!Nothing}
        /\ launches' \in 1..MaxLaunches /\ commands' \in 0..MaxCommands
    BY <1>3, RoomAssumption
    DEF Session!TurnBreaks, Session!counts, Session!histories, Session!Turns,
        Session!Nothing
  <2>2. /\ screen' \subseteq Session!Turns /\ offer' \subseteq Session!Turns
        /\ discarded' \subseteq Session!Turns
    BY <1>3, <2>1
    DEF Session!TurnBreaks, Session!counts, Session!histories, Session!Nothing
  <2>3. /\ files' \in [Session!Ids -> SUBSET Session!Turns]
        /\ anchors' \in [Session!Ids -> SUBSET Session!Turns]
        /\ madeIn' \in [Session!Turns -> Session!Ids \cup {Session!Nothing}]
    BY <1>3, <2>2
    DEF Session!TurnBreaks, Session!counts, Session!histories
  <2>4. strayed' \in BOOLEAN /\ replaced' \in BOOLEAN /\ misplaced' \in BOOLEAN
    BY <1>3
    DEF Session!TurnBreaks, Session!counts, Session!histories
  <2>. QED  BY <2>1, <2>2, <2>3, <2>4
<1>4. CASE Session!Fork
  <2>0. ids + 1 \in Session!Ids
    BY <1>4, NextIdIsId DEF Session!Fork
  <2>1. /\ home' \in Session!Ids /\ boot' \in Session!Ids /\ ids' \in Session!Ids
        /\ pointer' \in Session!Ids /\ turns' \in Session!Turns
        /\ asking' \in Session!Turns \cup {Session!Nothing}
        /\ launches' \in 1..MaxLaunches /\ commands' \in 0..MaxCommands
    BY <1>4, <2>0, RoomAssumption
    DEF Session!Fork, Session!Command, Session!Fresh, Session!histories, Session!Turns,
        Session!Nothing
  <2>2. /\ screen' \subseteq Session!Turns /\ offer' \subseteq Session!Turns
        /\ discarded' \subseteq Session!Turns
    BY <1>4, <2>0, <2>1
    DEF Session!Fork, Session!Command, Session!Fresh, Session!histories, Session!Nothing
  <2>3. /\ files' \in [Session!Ids -> SUBSET Session!Turns]
        /\ anchors' \in [Session!Ids -> SUBSET Session!Turns]
        /\ madeIn' \in [Session!Turns -> Session!Ids \cup {Session!Nothing}]
    BY <1>4, <2>0, <2>2
    DEF Session!Fork, Session!Command, Session!Fresh, Session!histories
  <2>4. strayed' \in BOOLEAN /\ replaced' \in BOOLEAN /\ misplaced' \in BOOLEAN
    BY <1>4
    DEF Session!Fork, Session!Command, Session!Fresh, Session!histories
  <2>. QED  BY <2>1, <2>2, <2>3, <2>4
<1>5. CASE Session!Rename
  <2>1. /\ home' \in Session!Ids /\ boot' \in Session!Ids /\ ids' \in Session!Ids
        /\ pointer' \in Session!Ids /\ turns' \in Session!Turns
        /\ asking' \in Session!Turns \cup {Session!Nothing}
        /\ launches' \in 1..MaxLaunches /\ commands' \in 0..MaxCommands
    BY <1>5, RoomAssumption
    DEF Session!Rename, Session!Command, Session!histories, Session!Turns, Session!Nothing
  <2>2. /\ screen' \subseteq Session!Turns /\ offer' \subseteq Session!Turns
        /\ discarded' \subseteq Session!Turns
    BY <1>5, <2>1
    DEF Session!Rename, Session!Command, Session!histories, Session!Nothing
  <2>3. /\ files' \in [Session!Ids -> SUBSET Session!Turns]
        /\ anchors' \in [Session!Ids -> SUBSET Session!Turns]
        /\ madeIn' \in [Session!Turns -> Session!Ids \cup {Session!Nothing}]
    BY <1>5, <2>2
    DEF Session!Rename, Session!Command, Session!histories
  <2>4. strayed' \in BOOLEAN /\ replaced' \in BOOLEAN /\ misplaced' \in BOOLEAN
    BY <1>5
    DEF Session!Rename, Session!Command, Session!histories
  <2>. QED  BY <2>1, <2>2, <2>3, <2>4
<1>6. CASE Session!Clear /\ screen = {}
  <2>1. /\ home' \in Session!Ids /\ boot' \in Session!Ids /\ ids' \in Session!Ids
        /\ pointer' \in Session!Ids /\ turns' \in Session!Turns
        /\ asking' \in Session!Turns \cup {Session!Nothing}
        /\ launches' \in 1..MaxLaunches /\ commands' \in 0..MaxCommands
    BY <1>6, RoomAssumption
    DEF Session!Clear, Session!Command, Session!histories, Session!Turns, Session!Nothing
  <2>2. /\ screen' \subseteq Session!Turns /\ offer' \subseteq Session!Turns
        /\ discarded' \subseteq Session!Turns
    BY <1>6, <2>1
    DEF Session!Clear, Session!Command, Session!histories, Session!Nothing
  <2>3. /\ files' \in [Session!Ids -> SUBSET Session!Turns]
        /\ anchors' \in [Session!Ids -> SUBSET Session!Turns]
        /\ madeIn' \in [Session!Turns -> Session!Ids \cup {Session!Nothing}]
    BY <1>6, <2>2
    DEF Session!Clear, Session!Command, Session!histories
  <2>4. strayed' \in BOOLEAN /\ replaced' \in BOOLEAN /\ misplaced' \in BOOLEAN
    BY <1>6
    DEF Session!Clear, Session!Command, Session!histories
  <2>. QED  BY <2>1, <2>2, <2>3, <2>4
<1>7. CASE Session!Clear /\ screen # {}
  <2>0. ids + 1 \in Session!Ids
    BY <1>7, NextIdIsId DEF Session!Clear
  <2>1. /\ home' \in Session!Ids /\ boot' \in Session!Ids /\ ids' \in Session!Ids
        /\ pointer' \in Session!Ids /\ turns' \in Session!Turns
        /\ asking' \in Session!Turns \cup {Session!Nothing}
        /\ launches' \in 1..MaxLaunches /\ commands' \in 0..MaxCommands
    BY <1>7, <2>0, RoomAssumption
    DEF Session!Clear, Session!Command, Session!Fresh, Session!Copy, Session!histories,
        Session!Turns, Session!Nothing
  <2>2. /\ screen' \subseteq Session!Turns /\ offer' \subseteq Session!Turns
        /\ discarded' \subseteq Session!Turns
    BY <1>7, <2>0, <2>1
    DEF Session!Clear, Session!Command, Session!Fresh, Session!Copy, Session!histories,
        Session!Nothing
  <2>3. /\ files' \in [Session!Ids -> SUBSET Session!Turns]
        /\ anchors' \in [Session!Ids -> SUBSET Session!Turns]
        /\ madeIn' \in [Session!Turns -> Session!Ids \cup {Session!Nothing}]
    BY <1>7, <2>0, <2>2
    DEF Session!Clear, Session!Command, Session!Fresh, Session!Copy, Session!histories
  <2>4. strayed' \in BOOLEAN /\ replaced' \in BOOLEAN /\ misplaced' \in BOOLEAN
    BY <1>7
    DEF Session!Clear, Session!Command, Session!Fresh, Session!Copy, Session!histories
  <2>. QED  BY <2>1, <2>2, <2>3, <2>4
<1>8. CASE Session!Reset
  <2>1. /\ home' \in Session!Ids /\ boot' \in Session!Ids /\ ids' \in Session!Ids
        /\ pointer' \in Session!Ids /\ turns' \in Session!Turns
        /\ asking' \in Session!Turns \cup {Session!Nothing}
        /\ launches' \in 1..MaxLaunches /\ commands' \in 0..MaxCommands
    BY <1>8, RoomAssumption
    DEF Session!Reset, Session!Command, Session!Replace, Session!Turns, Session!Nothing
  <2>2. /\ screen' \subseteq Session!Turns /\ offer' \subseteq Session!Turns
        /\ discarded' \subseteq Session!Turns
    BY <1>8, <2>1
    DEF Session!Reset, Session!Command, Session!Replace, Session!Nothing
  <2>3. /\ files' \in [Session!Ids -> SUBSET Session!Turns]
        /\ anchors' \in [Session!Ids -> SUBSET Session!Turns]
        /\ madeIn' \in [Session!Turns -> Session!Ids \cup {Session!Nothing}]
    BY <1>8, <2>2
    DEF Session!Reset, Session!Command, Session!Replace
  <2>4. strayed' \in BOOLEAN /\ replaced' \in BOOLEAN /\ misplaced' \in BOOLEAN
    BY <1>8
    DEF Session!Reset, Session!Command, Session!Replace
  <2>. QED  BY <2>1, <2>2, <2>3, <2>4
<1>9. ASSUME NEW s \in Session!Ids, Session!Resume(s)
      PROVE  Session!TypeOK'
  <2>1. /\ home' \in Session!Ids /\ boot' \in Session!Ids /\ ids' \in Session!Ids
        /\ pointer' \in Session!Ids /\ turns' \in Session!Turns
        /\ asking' \in Session!Turns \cup {Session!Nothing}
        /\ launches' \in 1..MaxLaunches /\ commands' \in 0..MaxCommands
    BY <1>9, RoomAssumption
    DEF Session!Resume, Session!Command, Session!Replace, Session!Turns, Session!Nothing
  <2>2. /\ screen' \subseteq Session!Turns /\ offer' \subseteq Session!Turns
        /\ discarded' \subseteq Session!Turns
    BY <1>9, <2>1
    DEF Session!Resume, Session!Command, Session!Replace, Session!Nothing
  <2>3. /\ files' \in [Session!Ids -> SUBSET Session!Turns]
        /\ anchors' \in [Session!Ids -> SUBSET Session!Turns]
        /\ madeIn' \in [Session!Turns -> Session!Ids \cup {Session!Nothing}]
    BY <1>9, <2>2
    DEF Session!Resume, Session!Command, Session!Replace
  <2>4. strayed' \in BOOLEAN /\ replaced' \in BOOLEAN /\ misplaced' \in BOOLEAN
    BY <1>9
    DEF Session!Resume, Session!Command, Session!Replace
  <2>. QED  BY <2>1, <2>2, <2>3, <2>4
<1>10. ASSUME NEW s \in Session!Ids, Session!Load(s)
       PROVE  Session!TypeOK'
  <2>1. /\ home' \in Session!Ids /\ boot' \in Session!Ids /\ ids' \in Session!Ids
        /\ pointer' \in Session!Ids /\ turns' \in Session!Turns
        /\ asking' \in Session!Turns \cup {Session!Nothing}
        /\ launches' \in 1..MaxLaunches /\ commands' \in 0..MaxCommands
    BY <1>10, RoomAssumption
    DEF Session!Load, Session!Command, Session!Replace, Session!Turns, Session!Nothing
  <2>2. /\ screen' \subseteq Session!Turns /\ offer' \subseteq Session!Turns
        /\ discarded' \subseteq Session!Turns
    BY <1>10, <2>1
    DEF Session!Load, Session!Command, Session!Replace, Session!Nothing
  <2>3. /\ files' \in [Session!Ids -> SUBSET Session!Turns]
        /\ anchors' \in [Session!Ids -> SUBSET Session!Turns]
        /\ madeIn' \in [Session!Turns -> Session!Ids \cup {Session!Nothing}]
    BY <1>10, <2>2
    DEF Session!Load, Session!Command, Session!Replace
  <2>4. strayed' \in BOOLEAN /\ replaced' \in BOOLEAN /\ misplaced' \in BOOLEAN
    BY <1>10
    DEF Session!Load, Session!Command, Session!Replace
  <2>. QED  BY <2>1, <2>2, <2>3, <2>4
<1>11. ASSUME NEW s \in Session!Ids, Session!SaveAs(s)
       PROVE  Session!TypeOK'
  <2>1. /\ home' \in Session!Ids /\ boot' \in Session!Ids /\ ids' \in Session!Ids
        /\ pointer' \in Session!Ids /\ turns' \in Session!Turns
        /\ asking' \in Session!Turns \cup {Session!Nothing}
        /\ launches' \in 1..MaxLaunches /\ commands' \in 0..MaxCommands
    BY <1>11, RoomAssumption
    DEF Session!SaveAs, Session!Write, Session!Command, Session!Fresh, Session!Turns,
        Session!Nothing
  <2>2. /\ screen' \subseteq Session!Turns /\ offer' \subseteq Session!Turns
        /\ discarded' \subseteq Session!Turns
    BY <1>11, <2>1
    DEF Session!SaveAs, Session!Write, Session!Command, Session!Fresh, Session!Nothing
  <2>3. /\ files' \in [Session!Ids -> SUBSET Session!Turns]
        /\ anchors' \in [Session!Ids -> SUBSET Session!Turns]
        /\ madeIn' \in [Session!Turns -> Session!Ids \cup {Session!Nothing}]
    BY <1>11, <2>2
    DEF Session!SaveAs, Session!Write, Session!Command, Session!Fresh
  <2>4. strayed' \in BOOLEAN /\ replaced' \in BOOLEAN /\ misplaced' \in BOOLEAN
    BY <1>11
    DEF Session!SaveAs, Session!Write, Session!Command, Session!Fresh
  <2>. QED  BY <2>1, <2>2, <2>3, <2>4
<1>12. ASSUME NEW s \in Session!Ids, Session!Save(s)
       PROVE  Session!TypeOK'
  <2>1. /\ home' \in Session!Ids /\ boot' \in Session!Ids /\ ids' \in Session!Ids
        /\ pointer' \in Session!Ids /\ turns' \in Session!Turns
        /\ asking' \in Session!Turns \cup {Session!Nothing}
        /\ launches' \in 1..MaxLaunches /\ commands' \in 0..MaxCommands
    BY <1>12, RoomAssumption
    DEF Session!Save, Session!Write, Session!Command, Session!Fresh, Session!Turns,
        Session!Nothing
  <2>2. /\ screen' \subseteq Session!Turns /\ offer' \subseteq Session!Turns
        /\ discarded' \subseteq Session!Turns
    BY <1>12, <2>1
    DEF Session!Save, Session!Write, Session!Command, Session!Fresh, Session!Nothing
  <2>3. /\ files' \in [Session!Ids -> SUBSET Session!Turns]
        /\ anchors' \in [Session!Ids -> SUBSET Session!Turns]
        /\ madeIn' \in [Session!Turns -> Session!Ids \cup {Session!Nothing}]
    BY <1>12, <2>2
    DEF Session!Save, Session!Write, Session!Command, Session!Fresh
  <2>4. strayed' \in BOOLEAN /\ replaced' \in BOOLEAN /\ misplaced' \in BOOLEAN
    BY <1>12
    DEF Session!Save, Session!Write, Session!Command, Session!Fresh
  <2>. QED  BY <2>1, <2>2, <2>3, <2>4
<1>13. ASSUME NEW s \in Session!Ids, Session!Delete(s)
       PROVE  Session!TypeOK'
  <2>1. /\ home' \in Session!Ids /\ boot' \in Session!Ids /\ ids' \in Session!Ids
        /\ pointer' \in Session!Ids /\ turns' \in Session!Turns
        /\ asking' \in Session!Turns \cup {Session!Nothing}
        /\ launches' \in 1..MaxLaunches /\ commands' \in 0..MaxCommands
    BY <1>13, RoomAssumption
    DEF Session!Delete, Session!Command, Session!Turns, Session!Nothing
  <2>2. /\ screen' \subseteq Session!Turns /\ offer' \subseteq Session!Turns
        /\ discarded' \subseteq Session!Turns
    BY <1>13, <2>1
    DEF Session!Delete, Session!Command, Session!Nothing
  <2>3. /\ files' \in [Session!Ids -> SUBSET Session!Turns]
        /\ anchors' \in [Session!Ids -> SUBSET Session!Turns]
        /\ madeIn' \in [Session!Turns -> Session!Ids \cup {Session!Nothing}]
    BY <1>13, <2>2
    DEF Session!Delete, Session!Command
  <2>4. strayed' \in BOOLEAN /\ replaced' \in BOOLEAN /\ misplaced' \in BOOLEAN
    BY <1>13
    DEF Session!Delete, Session!Command
  <2>. QED  BY <2>1, <2>2, <2>3, <2>4
<1>14. CASE Session!Killed
  <2>0. ids + 1 \in Session!Ids
    BY <1>14, NextIdIsId DEF Session!Killed, Session!Relaunch
  <2>1. /\ home' \in Session!Ids /\ boot' \in Session!Ids /\ ids' \in Session!Ids
        /\ pointer' \in Session!Ids /\ turns' \in Session!Turns
        /\ asking' \in Session!Turns \cup {Session!Nothing}
        /\ launches' \in 1..MaxLaunches /\ commands' \in 0..MaxCommands
    BY <1>14, <2>0, RoomAssumption
    DEF Session!Killed, Session!Relaunch, Session!Fresh, Session!Turns, Session!Nothing
  <2>2. /\ screen' \subseteq Session!Turns /\ offer' \subseteq Session!Turns
        /\ discarded' \subseteq Session!Turns
    BY <1>14, <2>0, <2>1
    DEF Session!Killed, Session!Relaunch, Session!Fresh, Session!Nothing
  <2>3. /\ files' \in [Session!Ids -> SUBSET Session!Turns]
        /\ anchors' \in [Session!Ids -> SUBSET Session!Turns]
        /\ madeIn' \in [Session!Turns -> Session!Ids \cup {Session!Nothing}]
    BY <1>14, <2>0, <2>2
    DEF Session!Killed, Session!Relaunch, Session!Fresh
  <2>4. strayed' \in BOOLEAN /\ replaced' \in BOOLEAN /\ misplaced' \in BOOLEAN
    BY <1>14
    DEF Session!Killed, Session!Relaunch, Session!Fresh
  <2>. QED  BY <2>1, <2>2, <2>3, <2>4
<1>15. CASE Session!Exit
  <2>0. ids + 1 \in Session!Ids
    BY <1>15, NextIdIsId DEF Session!Exit, Session!Relaunch
  <2>1. /\ home' \in Session!Ids /\ boot' \in Session!Ids /\ ids' \in Session!Ids
        /\ pointer' \in Session!Ids /\ turns' \in Session!Turns
        /\ asking' \in Session!Turns \cup {Session!Nothing}
        /\ launches' \in 1..MaxLaunches /\ commands' \in 0..MaxCommands
    BY <1>15, <2>0, RoomAssumption
    DEF Session!Exit, Session!Relaunch, Session!Fresh, Session!Turns, Session!Nothing
  <2>2. /\ screen' \subseteq Session!Turns /\ offer' \subseteq Session!Turns
        /\ discarded' \subseteq Session!Turns
    BY <1>15, <2>0, <2>1
    DEF Session!Exit, Session!Relaunch, Session!Fresh, Session!Nothing
  <2>3. /\ files' \in [Session!Ids -> SUBSET Session!Turns]
        /\ anchors' \in [Session!Ids -> SUBSET Session!Turns]
        /\ madeIn' \in [Session!Turns -> Session!Ids \cup {Session!Nothing}]
    BY <1>15, <2>0, <2>2
    DEF Session!Exit, Session!Relaunch, Session!Fresh
  <2>4. strayed' \in BOOLEAN /\ replaced' \in BOOLEAN /\ misplaced' \in BOOLEAN
    BY <1>15
    DEF Session!Exit, Session!Relaunch, Session!Fresh
  <2>. QED  BY <2>1, <2>2, <2>3, <2>4
<1>16. CASE Session!Restore \/ Session!Discard
  <2>1. /\ home' \in Session!Ids /\ boot' \in Session!Ids /\ ids' \in Session!Ids
        /\ pointer' \in Session!Ids /\ turns' \in Session!Turns
        /\ asking' \in Session!Turns \cup {Session!Nothing}
        /\ launches' \in 1..MaxLaunches /\ commands' \in 0..MaxCommands
    BY <1>16, RoomAssumption
    DEF Session!Restore, Session!Discard, Session!counts, Session!histories, Session!Turns,
        Session!Nothing
  <2>2. /\ screen' \subseteq Session!Turns /\ offer' \subseteq Session!Turns
        /\ discarded' \subseteq Session!Turns
    BY <1>16, <2>1
    DEF Session!Restore, Session!Discard, Session!counts, Session!histories, Session!Nothing
  <2>3. /\ files' \in [Session!Ids -> SUBSET Session!Turns]
        /\ anchors' \in [Session!Ids -> SUBSET Session!Turns]
        /\ madeIn' \in [Session!Turns -> Session!Ids \cup {Session!Nothing}]
    BY <1>16, <2>2
    DEF Session!Restore, Session!Discard, Session!counts, Session!histories
  <2>4. strayed' \in BOOLEAN /\ replaced' \in BOOLEAN /\ misplaced' \in BOOLEAN
    BY <1>16
    DEF Session!Restore, Session!Discard, Session!counts, Session!histories
  <2>. QED  BY <2>1, <2>2, <2>3, <2>4
<1>17. CASE UNCHANGED Session!vars
  <2>1. /\ home' \in Session!Ids /\ boot' \in Session!Ids /\ ids' \in Session!Ids
        /\ pointer' \in Session!Ids /\ turns' \in Session!Turns
        /\ asking' \in Session!Turns \cup {Session!Nothing}
        /\ launches' \in 1..MaxLaunches /\ commands' \in 0..MaxCommands
    BY <1>17, RoomAssumption
    DEF Session!vars, Session!Turns, Session!Nothing
  <2>2. /\ screen' \subseteq Session!Turns /\ offer' \subseteq Session!Turns
        /\ discarded' \subseteq Session!Turns
    BY <1>17, <2>1
    DEF Session!vars, Session!Nothing
  <2>3. /\ files' \in [Session!Ids -> SUBSET Session!Turns]
        /\ anchors' \in [Session!Ids -> SUBSET Session!Turns]
        /\ madeIn' \in [Session!Turns -> Session!Ids \cup {Session!Nothing}]
    BY <1>17, <2>2
    DEF Session!vars
  <2>4. strayed' \in BOOLEAN /\ replaced' \in BOOLEAN /\ misplaced' \in BOOLEAN
    BY <1>17
    DEF Session!vars
  <2>. QED  BY <2>1, <2>2, <2>3, <2>4
<1>. QED
  BY <1>1, <1>2, <1>3, <1>4, <1>5, <1>6, <1>7, <1>8, <1>9, <1>10, <1>11, <1>12, <1>13,
     <1>14, <1>15, <1>16, <1>17
  DEF Session!Next

\* /clear leaves a copy of what was on screen under the next id.
CopyMade ==
  /\ ids' = ids + 1 /\ ids + 1 \in Session!Ids
  /\ \A s \in Session!Ids : files'[s] = IF s = ids + 1 THEN screen ELSE files[s]
  /\ screen' = {} /\ asking = 0 /\ offer = {}
  /\ UNCHANGED <<home, boot, asking, pointer, offer, turns, madeIn, discarded, strayed, replaced,
                 misplaced>>

LEMMA ClearCopies ==
  ASSUME SessionInv, Session!Clear, screen # {}
  PROVE  CopyMade
<1>1. Session!TypeOK
  BY DEF SessionInv
<1>2. ids + 1 \in Session!Ids
  BY <1>1, NextIdIsId DEF Session!Clear
<1>. QED
  BY <1>1, <1>2
  DEF Session!Clear, Session!Command, Session!MayClear, Session!Nothing, Session!Fresh,
      Session!Copy, Session!histories, Session!TypeOK, CopyMade

\* A launch has an id of its own, and is offered what was on screen or nothing; of the
\* exit before it nothing is saved, or what was on screen under that launch's id.
NewLaunch ==
  /\ ids' = ids + 1 /\ ids + 1 \in Session!Ids
  /\ home' = ids + 1 /\ boot' = ids + 1
  /\ screen' = {} /\ asking' = 0
  /\ offer = {} /\ offer' \in {{}, screen}
  /\ UNCHANGED <<turns, madeIn, discarded, replaced, misplaced>>
  /\ \/ UNCHANGED <<files, pointer, strayed>>
     \/ /\ \A s \in Session!Ids : files'[s] = IF s = boot THEN screen ELSE files[s]
        /\ pointer' = boot
        /\ strayed' = (strayed \/ home # boot)
        /\ offer' = {}

LEMMA LaunchBegins ==
  ASSUME SessionInv, Session!Killed \/ Session!Exit
  PROVE  NewLaunch
<1>1. Session!TypeOK
  BY DEF SessionInv
<1>2. ids + 1 \in Session!Ids
  BY <1>1, NextIdIsId DEF Session!Killed, Session!Exit, Session!Relaunch
<1>3. CASE Session!Killed
  BY <1>1, <1>2, <1>3
  DEF Session!Killed, Session!Relaunch, Session!Nothing, Session!Fresh, Session!TypeOK,
      NewLaunch
<1>4. CASE Session!Exit
  BY <1>1, <1>2, <1>4
  DEF Session!Exit, Session!Relaunch, Session!Nothing, Session!Fresh, Session!TypeOK,
      NewLaunch
<1>. QED  BY <1>3, <1>4

LEMMA IdsStayNew ==
  ASSUME SessionInv, [Session!Next]_(Session!vars)
  PROVE  IdsAreNew'
<1>a. Session!Clear /\ screen # {} => CopyMade
  BY ClearCopies
<1>b. Session!Killed \/ Session!Exit => NewLaunch
  BY LaunchBegins
<1>. USE DEF SessionInv, Session!TypeOK, Session!Ids, IdsAreNew, NoFile
<1>1. CASE Session!Submit
  BY <1>1 DEF Session!Submit
<1>2. CASE Session!TurnCompletes
  BY <1>2 DEF Session!TurnCompletes, Session!AnchoredIn, Session!counts
<1>3. CASE Session!TurnBreaks
  BY <1>3 DEF Session!TurnBreaks, Session!counts, Session!histories
<1>4. CASE Session!Fork
  BY <1>4 DEF Session!Fork, Session!Command, Session!Fresh, Session!histories
<1>5. CASE Session!Rename
  BY <1>5 DEF Session!Rename, Session!Command, Session!histories
<1>6. CASE Session!Clear /\ screen = {}
  BY <1>6 DEF Session!Clear, Session!Command, Session!histories
<1>7. CASE Session!Clear /\ screen # {}
  BY <1>7, <1>a DEF CopyMade
<1>8. CASE Session!Reset
  BY <1>8 DEF Session!Reset, Session!Command, Session!Replace
<1>9. ASSUME NEW s \in Session!Ids, Session!Resume(s)
      PROVE  IdsAreNew'
  BY <1>9 DEF Session!Resume, Session!Command, Session!Replace
<1>10. ASSUME NEW s \in Session!Ids, Session!Load(s)
       PROVE  IdsAreNew'
  BY <1>10 DEF Session!Load, Session!Command, Session!Replace
<1>11. ASSUME NEW s \in Session!Ids, Session!SaveAs(s)
       PROVE  IdsAreNew'
  BY <1>11 DEF Session!SaveAs, Session!Write, Session!Command, Session!Fresh
<1>12. ASSUME NEW s \in Session!Ids, Session!Save(s)
       PROVE  IdsAreNew'
  BY <1>12 DEF Session!Save, Session!Write, Session!Command, Session!Fresh
<1>13. ASSUME NEW s \in Session!Ids, Session!Delete(s)
       PROVE  IdsAreNew'
  BY <1>13 DEF Session!Delete, Session!Command
<1>14. CASE Session!Killed \/ Session!Exit
  <2>1. NewLaunch
    BY <1>14, <1>b
  <2>2. home' <= ids' /\ boot' <= ids' /\ pointer' <= ids'
    BY <2>1 DEF NewLaunch
  <2>3. ASSUME NEW s \in Session!Ids, s > ids'
        PROVE  files'[s] = {}
    <3>1. s > ids /\ s # boot
      BY <2>1, <2>3 DEF NewLaunch
    <3>2. files'[s] = files[s]
      BY <2>1, <3>1 DEF NewLaunch
    <3>. QED  BY <3>1, <3>2
  <2>. QED  BY <2>2, <2>3
<1>15. CASE Session!Restore \/ Session!Discard
  BY <1>15 DEF Session!Restore, Session!Discard, Session!counts, Session!histories
<1>16. CASE UNCHANGED Session!vars
  BY <1>16 DEF Session!vars
<1>. QED
  BY <1>1, <1>2, <1>3, <1>4, <1>5, <1>6, <1>7, <1>8, <1>9, <1>10, <1>11, <1>12, <1>13,
     <1>14, <1>15, <1>16
  DEF Session!Next

LEMMA RunningStaysShown ==
  ASSUME SessionInv, [Session!Next]_(Session!vars)
  PROVE  RunningIsShown'
<1>a. Session!Clear /\ screen # {} => CopyMade
  BY ClearCopies
<1>b. Session!Killed \/ Session!Exit => NewLaunch
  BY LaunchBegins
<1>. USE DEF SessionInv, Session!TypeOK, Session!Ids, Session!Turns, Session!Nothing, IdsAreNew,
            RunningIsShown, NoFile
<1>1. CASE Session!Submit
  BY <1>1 DEF Session!Submit
<1>2. CASE Session!TurnCompletes
  BY <1>2 DEF Session!TurnCompletes, Session!AnchoredIn, Session!counts
<1>3. CASE Session!TurnBreaks
  BY <1>3 DEF Session!TurnBreaks, Session!counts, Session!histories
<1>4. CASE Session!Fork
  BY <1>4 DEF Session!Fork, Session!Command, Session!Fresh, Session!histories
<1>5. CASE Session!Rename
  BY <1>5 DEF Session!Rename, Session!Command, Session!histories
<1>6. CASE Session!Clear /\ screen = {}
  BY <1>6 DEF Session!Clear, Session!Command, Session!histories
<1>7. CASE Session!Clear /\ screen # {}
  <2>1. turns' = turns /\ asking' = asking /\ asking <= turns
    BY <1>7, <1>a DEF CopyMade
  <2>2. asking' # 0 /\ ~replaced' => asking' \in screen'
    BY <1>7, <1>a DEF CopyMade
  <2>3. ~misplaced'
    BY <1>7, <1>a DEF CopyMade
  <2>4. offer' # {} => asking' = 0 /\ NoFile(home)'
    BY <1>7, <1>a DEF CopyMade
  <2>5. \A t \in Session!Turns : t > turns' => madeIn'[t] = 0
    BY <1>7, <1>a DEF CopyMade
  <2>. QED  BY <2>1, <2>2, <2>3, <2>4, <2>5
<1>8. CASE Session!Reset
  BY <1>8 DEF Session!Reset, Session!Command, Session!Replace
<1>9. ASSUME NEW s \in Session!Ids, Session!Resume(s)
      PROVE  RunningIsShown'
  BY <1>9 DEF Session!Resume, Session!Command, Session!Replace
<1>10. ASSUME NEW s \in Session!Ids, Session!Load(s)
       PROVE  RunningIsShown'
  BY <1>10 DEF Session!Load, Session!Command, Session!Replace
<1>11. ASSUME NEW s \in Session!Ids, Session!SaveAs(s)
       PROVE  RunningIsShown'
  BY <1>11 DEF Session!SaveAs, Session!Write, Session!Command, Session!Fresh
<1>12. ASSUME NEW s \in Session!Ids, Session!Save(s)
       PROVE  RunningIsShown'
  BY <1>12 DEF Session!Save, Session!Write, Session!Command, Session!Fresh
<1>13. ASSUME NEW s \in Session!Ids, Session!Delete(s)
       PROVE  RunningIsShown'
  BY <1>13 DEF Session!Delete, Session!Command
<1>14. CASE Session!Killed \/ Session!Exit
  <2>1. NewLaunch
    BY <1>14, <1>b
  <2>2. turns' = turns /\ asking' = 0 /\ asking' <= turns'
    BY <2>1 DEF NewLaunch
  <2>3. ~misplaced'
    BY <2>1 DEF NewLaunch
  <2>4. files'[home'] = {}
    <3>1. home' \in Session!Ids /\ home' > ids /\ home' # boot
      BY <2>1 DEF NewLaunch
    <3>2. files'[home'] = files[home']
      BY <2>1, <3>1 DEF NewLaunch
    <3>. QED  BY <3>1, <3>2
  <2>5. \A t \in Session!Turns : t > turns' => madeIn'[t] = 0
    BY <2>1 DEF NewLaunch
  <2>. QED  BY <2>2, <2>3, <2>4, <2>5
<1>15. CASE Session!Restore \/ Session!Discard
  <2>1. asking = 0 /\ asking' = asking /\ offer' = {} /\ turns' = turns
    BY <1>15 DEF Session!Restore, Session!Discard, Session!counts
  <2>2. madeIn' = madeIn /\ misplaced' = misplaced
    BY <1>15 DEF Session!Restore, Session!Discard, Session!histories
  <2>. QED  BY <2>1, <2>2
<1>16. CASE UNCHANGED Session!vars
  BY <1>16 DEF Session!vars
<1>. QED
  BY <1>1, <1>2, <1>3, <1>4, <1>5, <1>6, <1>7, <1>8, <1>9, <1>10, <1>11, <1>12, <1>13,
     <1>14, <1>15, <1>16
  DEF Session!Next

LEMMA StaysSafeToSave ==
  ASSUME SessionInv, [Session!Next]_(Session!vars), ~strayed'
  PROVE  SafeToSave'
<1>a. Session!Clear /\ screen # {} => CopyMade
  BY ClearCopies
<1>b. Session!Killed \/ Session!Exit => NewLaunch
  BY LaunchBegins
<1>. USE DEF SessionInv, Session!TypeOK, Session!Ids, Session!Turns, Session!Nothing, IdsAreNew,
            RunningIsShown, NoFile, SafeToSave, Kept, Session!Completed
<1>1. CASE Session!Submit
  BY <1>1 DEF Session!Submit
<1>2. CASE Session!TurnCompletes
  BY <1>2 DEF Session!TurnCompletes, Session!AnchoredIn, Session!counts
<1>3. CASE Session!TurnBreaks
  BY <1>3 DEF Session!TurnBreaks, Session!counts, Session!histories
<1>4. CASE Session!Fork
  BY <1>4 DEF Session!Fork, Session!Command, Session!Fresh, Session!histories
<1>5. CASE Session!Rename
  BY <1>5 DEF Session!Rename, Session!Command, Session!histories
<1>6. CASE Session!Clear /\ screen = {}
  BY <1>6 DEF Session!Clear, Session!Command, Session!histories
<1>7. CASE Session!Clear /\ screen # {}
  <2>1. CopyMade
    BY <1>7, <1>a
  <2>2. Kept' = Kept /\ ~strayed
    BY <2>1 DEF CopyMade
  <2>3. ids + 1 \in Session!Ids /\ ids + 1 # home /\ home' = home
    BY <2>1 DEF CopyMade
  <2>. SUFFICES ASSUME NEW t \in Kept
                PROVE  \E s \in Session!Ids \ {home} : t \in files'[s]
    BY <2>2, <2>3 DEF SafeToSave
  <2>4. CASE t \in screen
    BY <2>1, <2>3, <2>4 DEF CopyMade
  <2>5. CASE t \notin screen
    <3>1. PICK s \in Session!Ids \ {home} : t \in files[s]
      BY <2>2, <2>5 DEF SafeToSave
    <3>2. files'[s] = files[s]
      BY <2>1, <3>1 DEF CopyMade
    <3>. QED  BY <3>1, <3>2
  <2>. QED  BY <2>4, <2>5
<1>8. CASE Session!Reset
  BY <1>8 DEF Session!Reset, Session!Command, Session!Replace
<1>9. ASSUME NEW s \in Session!Ids, Session!Resume(s)
      PROVE  SafeToSave'
  BY <1>9 DEF Session!Resume, Session!Command, Session!Replace
<1>10. ASSUME NEW s \in Session!Ids, Session!Load(s)
       PROVE  SafeToSave'
  BY <1>10 DEF Session!Load, Session!Command, Session!Replace
<1>11. ASSUME NEW s \in Session!Ids, Session!SaveAs(s)
       PROVE  SafeToSave'
  BY <1>11 DEF Session!SaveAs, Session!Write, Session!Command, Session!Fresh
<1>12. ASSUME NEW s \in Session!Ids, Session!Save(s)
       PROVE  SafeToSave'
  BY <1>12 DEF Session!Save, Session!Write, Session!Command, Session!Fresh
<1>13. ASSUME NEW s \in Session!Ids, Session!Delete(s)
       PROVE  SafeToSave'
  BY <1>13 DEF Session!Delete, Session!Command
<1>14. CASE Session!Killed \/ Session!Exit
  <2>1. NewLaunch
    BY <1>14, <1>b
  <2>2. Kept' = Kept /\ ~strayed
    BY <2>1 DEF NewLaunch
  <2>3. home' \in Session!Ids /\ home' > ids
    BY <2>1 DEF NewLaunch
  <2>. SUFFICES ASSUME NEW t \in Kept
                PROVE  \E s \in Session!Ids \ {home'} : t \in files'[s]
    BY <2>2 DEF SafeToSave
  <2>4. PICK s \in Session!Ids : t \in files[s] /\ (s = home => t \in screen)
    BY <2>2 DEF SafeToSave
  <2>5. s # home'
    BY <2>3, <2>4
  <2>6. CASE s # boot \/ UNCHANGED files
    BY <2>1, <2>4, <2>5, <2>6 DEF NewLaunch
  <2>7. CASE s = boot /\ home = boot
    BY <2>1, <2>4, <2>5, <2>7 DEF NewLaunch
  <2>. QED  BY <2>1, <2>6, <2>7 DEF NewLaunch
<1>15. CASE Session!Restore \/ Session!Discard
  BY <1>15 DEF Session!Restore, Session!Discard, Session!counts, Session!histories
<1>16. CASE UNCHANGED Session!vars
  BY <1>16 DEF Session!vars
<1>. QED
  BY <1>1, <1>2, <1>3, <1>4, <1>5, <1>6, <1>7, <1>8, <1>9, <1>10, <1>11, <1>12, <1>13,
     <1>14, <1>15, <1>16
  DEF Session!Next

LEMMA PointerStaysAhead ==
  ASSUME SessionInv, [Session!Next]_(Session!vars), ~strayed'
  PROVE  PointerIsAhead'
<1>a. Session!Clear /\ screen # {} => CopyMade
  BY ClearCopies
<1>b. Session!Killed \/ Session!Exit => NewLaunch
  BY LaunchBegins
<1>. USE DEF SessionInv, Session!TypeOK, Session!Ids, Session!Turns, Session!Nothing, IdsAreNew,
            RunningIsShown, NoFile, PointerIsAhead, Kept, Session!Completed
<1>1. CASE Session!Submit
  BY <1>1 DEF Session!Submit
<1>2. CASE Session!TurnCompletes
  BY <1>2 DEF Session!TurnCompletes, Session!AnchoredIn, Session!counts
<1>3. CASE Session!TurnBreaks
  BY <1>3 DEF Session!TurnBreaks, Session!counts, Session!histories
<1>4. CASE Session!Fork
  <2>1. /\ pointer' = ids + 1 /\ home' = ids + 1 /\ ids + 1 \in Session!Ids
        /\ files'[ids + 1] = screen /\ screen' = screen /\ offer = {} /\ offer' = {}
    <3>1. ids + 1 \in Session!Ids
      BY <1>4, NextIdIsId DEF Session!Fork
    <3>. QED  BY <1>4, <3>1 DEF Session!Fork, Session!Command, Session!Fresh
  <2>. QED  BY <2>1
<1>5. CASE Session!Rename
  BY <1>5 DEF Session!Rename, Session!Command, Session!histories
<1>6. CASE Session!Clear /\ screen = {}
  BY <1>6 DEF Session!Clear, Session!Command, Session!histories
<1>7. CASE Session!Clear /\ screen # {}
  <2>1. CopyMade
    BY <1>7, <1>a
  <2>2. Kept' = Kept /\ ~strayed /\ home' = home /\ pointer' = pointer
    BY <2>1 DEF CopyMade
  <2>3. files'[home] = files[home] /\ files'[pointer] = files[pointer]
    BY <2>1 DEF CopyMade
  <2>4. screen' = {} /\ offer' = {}
    BY <2>1 DEF CopyMade
  <2>. QED  BY <2>2, <2>3, <2>4 DEF PointerIsAhead
<1>8. CASE Session!Reset
  BY <1>8 DEF Session!Reset, Session!Command, Session!Replace
<1>9. ASSUME NEW s \in Session!Ids, Session!Resume(s)
      PROVE  PointerIsAhead'
  BY <1>9 DEF Session!Resume, Session!Command, Session!Replace
<1>10. ASSUME NEW s \in Session!Ids, Session!Load(s)
       PROVE  PointerIsAhead'
  BY <1>10 DEF Session!Load, Session!Command, Session!Replace
<1>11. ASSUME NEW s \in Session!Ids, Session!SaveAs(s)
       PROVE  PointerIsAhead'
  BY <1>11 DEF Session!SaveAs, Session!Write, Session!Command, Session!Fresh
<1>12. ASSUME NEW s \in Session!Ids, Session!Save(s)
       PROVE  PointerIsAhead'
  BY <1>12 DEF Session!Save, Session!Write, Session!Command, Session!Fresh
<1>13. ASSUME NEW s \in Session!Ids, Session!Delete(s)
       PROVE  PointerIsAhead'
  BY <1>13 DEF Session!Delete, Session!Command
<1>14. CASE Session!Killed \/ Session!Exit
  <2>1. NewLaunch
    BY <1>14, <1>b
  <2>2. Kept' = Kept /\ ~strayed
    BY <2>1 DEF NewLaunch
  <2>3. files'[home'] = {}
    <3>1. home' \in Session!Ids /\ home' > ids /\ home' # boot
      BY <2>1 DEF NewLaunch
    <3>2. files'[home'] = files[home']
      BY <2>1, <3>1 DEF NewLaunch
    <3>. QED  BY <3>1, <3>2
  <2>. SUFFICES ASSUME NEW t \in Kept, t \in offer'
                PROVE  t \in files'[pointer']
    BY <2>1, <2>2, <2>3 DEF NewLaunch, PointerIsAhead
  <2>4. t \in screen /\ UNCHANGED <<files, pointer>>
    BY <2>1 DEF NewLaunch
  <2>. QED  BY <2>2, <2>4 DEF PointerIsAhead
<1>15. CASE Session!Restore \/ Session!Discard
  BY <1>15 DEF Session!Restore, Session!Discard, Session!counts, Session!histories
<1>16. CASE UNCHANGED Session!vars
  BY <1>16 DEF Session!vars
<1>. QED
  BY <1>1, <1>2, <1>3, <1>4, <1>5, <1>6, <1>7, <1>8, <1>9, <1>10, <1>11, <1>12, <1>13,
     <1>14, <1>15, <1>16
  DEF Session!Next

LEMMA SessionPreserved ==
  ASSUME SessionInv, [Session!Next]_(Session!vars)
  PROVE  SessionInv'
<1>1. Session!TypeOK'
  BY SessionTypePreserved DEF SessionInv
<1>2. IdsAreNew' /\ RunningIsShown'
  BY IdsStayNew, RunningStaysShown
<1>3. ~strayed' => SafeToSave' /\ PointerIsAhead'
  BY StaysSafeToSave, PointerStaysAhead
<1>. QED  BY <1>1, <1>2, <1>3 DEF SessionInv

\* Every completed turn is in a saved session from then on, the pointer names one that
\* has those on screen, and a reply lands where its question was asked: a save over the
\* session in use, its only way to lose a turn, never has one to lose.
THEOREM SessionsStayKept == Session!Spec => []SessionsAreKept
<1>1. SessionInv => SessionsAreKept
  <2>. SUFFICES ASSUME SessionInv
                PROVE  Session!NothingLost /\ Session!PointerReaches /\ Session!RepliesLandHome
    BY DEF SessionsAreKept
  <2>1. home \in Session!Ids
    BY DEF SessionInv, Session!TypeOK
  <2>2. Session!NothingLost
    BY <2>1 DEF SessionInv, SafeToSave, Kept, Session!NothingLost
  <2>3. Session!PointerReaches
    BY DEF SessionInv, PointerIsAhead, Kept, Session!PointerReaches
  <2>4. Session!RepliesLandHome
    BY DEF SessionInv, RunningIsShown, Session!RepliesLandHome
  <2>. QED  BY <2>2, <2>3, <2>4
<1>. QED  BY <1>1, SessionInit, SessionPreserved, PTL DEF Session!Spec

----------------------------------------------------------------------------
(* The parts in one run. *)

\* The parts of the shell stand still while one moves: each behaves as its own
\* specification says, so that what is proved of a part holds when they are run as one.
THEOREM ShellPartsAreTheirOwn ==
  PartsSpec => /\ Spec /\ Activity!Spec /\ Frames!Spec /\ Stream!Spec /\ Nudge!Spec
               /\ Palette!Init /\ [][Palette!Next]_(Palette!vars)
               /\ Session!Spec /\ Tree!Spec /\ Screen!Spec
<1>1. PartsInit => /\ Init /\ Activity!Init /\ Frames!Init /\ Stream!Init /\ Nudge!Init
                   /\ Palette!Init /\ Session!Init /\ Tree!Init /\ Screen!Init
  BY Zenon DEF PartsInit
<1>. USE DEF allVars, otherThanCard, otherThanActivity, otherThanFrames, otherThanStream,
             otherThanNudge, otherThanPalette, otherThanSession, otherThanTree, otherThanScreen
<1>2. [PartsNext]_allVars => [Next]_vars
  BY DEF PartsNext, cardVars
<1>3. [PartsNext]_allVars => [Activity!Next]_(Activity!vars)
  BY DEF PartsNext, activityVars, Activity!vars
<1>4. [PartsNext]_allVars => [Frames!Next]_(Frames!vars)
  BY DEF PartsNext, framesVars, Frames!vars, Frames!turnVars, Frames!rendererVars
<1>5. [PartsNext]_allVars => [Stream!Next]_(Stream!vars)
  BY DEF PartsNext, streamVars, Stream!vars
<1>6. [PartsNext]_allVars => [Nudge!Next]_(Nudge!vars)
  BY DEF PartsNext, nudgeVars, Nudge!vars
<1>7. [PartsNext]_allVars => [Palette!Next]_(Palette!vars)
  BY DEF PartsNext, paletteVars, Palette!vars
<1>8. [PartsNext]_allVars => [Session!Next]_(Session!vars)
  BY DEF PartsNext, sessionVars, Session!vars
<1>9. [PartsNext]_allVars => [Tree!Next]_(Tree!vars)
  BY DEF PartsNext, treeVars, Tree!vars
<1>10. [PartsNext]_allVars => [Screen!Next]_(Screen!vars)
  BY DEF PartsNext, screenVars, Screen!vars
<1>. QED  BY <1>1, <1>2, <1>3, <1>4, <1>5, <1>6, <1>7, <1>8, <1>9, <1>10, PTL
          DEF PartsSpec, Spec, Activity!Spec, Frames!Spec, Stream!Spec, Nudge!Spec,
              Session!Spec, Tree!Spec, Screen!Spec

\* No method of the reader counts a round beyond the last.
LEMMA RoundsAreCounted ==
  ASSUME NEW r \in ReaderKind, r.rounds <= MaxRounds
  PROVE  /\ Palette!Retry(r).rounds <= MaxRounds
         /\ Palette!RoundResolved(r).rounds = r.rounds
         /\ \A chunk, colours : Palette!Feed(r, chunk, colours).rounds = r.rounds
<1>1. r.rounds \in Nat /\ MaxRounds \in Nat
  BY RoomAssumption DEF ReaderKind
<1>2. Palette!Retry(r).rounds <= MaxRounds
  <2>1. CASE Palette!MayAskAgain(r) /\ r.spaced
    <3>1. Palette!Retry(r).rounds = r.rounds + 1
      BY <2>1 DEF Palette!Retry, Palette!BeginRound, ReaderKind
    <3>2. r.rounds < MaxRounds
      BY <2>1 DEF Palette!MayAskAgain
    <3>. QED  BY <1>1, <3>1, <3>2
  <2>2. CASE ~(Palette!MayAskAgain(r) /\ r.spaced)
    BY <2>2 DEF Palette!Retry
  <2>. QED  BY <2>1, <2>2
<1>3. Palette!RoundResolved(r).rounds = r.rounds
  BY DEF Palette!RoundResolved, ReaderKind
<1>4. ASSUME NEW chunk, NEW colours  PROVE Palette!Feed(r, chunk, colours).rounds = r.rounds
  <2>1. Palette!AcceptLate(r, colours).rounds = r.rounds
    BY DEF Palette!AcceptLate, ReaderKind
  <2>2. Palette!Collect(r, chunk, colours).rounds = r.rounds
    BY DEF Palette!Collect, Palette!RoundResolved, ReaderKind
  <2>. QED  BY <2>1, <2>2 DEF Palette!Feed
<1>. QED  BY <1>2, <1>3, <1>4

\* The rounds of the reader are counted up to their bound.
LEMMA PaletteTypes == Palette!Init /\ [][Palette!Next]_(Palette!vars) => []Palette!TypeOK
<1>. DEFINE Counted == reader.rounds <= MaxRounds /\ attached \in BOOLEAN
<1>1. Palette!Init => Counted
  BY RoomAssumption DEF Palette!Init
<1>2. ASSUME PaletteInv, Counted, [Palette!Next]_(Palette!vars)  PROVE Counted'
  <2>1. Sound(reader) /\ reader \in ReaderKind /\ reader.rounds \in Nat /\ replies \subseteq Slots
    BY <1>2 DEF PaletteInv, Sound, ReaderKind
  <2>2. ASSUME NEW next, NEW left, Palette!Step(next, left), next.rounds <= MaxRounds  PROVE Counted'
    BY <1>2, <2>2 DEF Palette!Step
  <2>3. CASE Palette!Start
    <3>1. Palette!BeginRound(reader).rounds = 1
      BY <2>1, <2>3 DEF Palette!Start, Palette!BeginRound, ReaderKind
    <3>. QED  BY <2>2, <2>3, <3>1, RoomAssumption DEF Palette!Start
  <2>4. CASE Palette!Input
    <3>1. PICK chunk \in SUBSET replies, other \in BOOLEAN : \E colours \in SUBSET chunk :
            Palette!Step(IF other THEN Palette!Retry(Palette!Feed(reader, chunk, colours))
                         ELSE Palette!Feed(reader, chunk, colours), replies \ chunk)
      BY <2>4 DEF Palette!Input
    <3>2. PICK colours \in SUBSET chunk :
            Palette!Step(IF other THEN Palette!Retry(Palette!Feed(reader, chunk, colours))
                         ELSE Palette!Feed(reader, chunk, colours), replies \ chunk)
      BY <3>1
    <3>3. PICK fed : fed = Palette!Feed(reader, chunk, colours)
      OBVIOUS
    <3>4. fed.rounds <= MaxRounds
      BY <1>2, <2>1, <3>3, RoundsAreCounted
    <3>5. fed \in ReaderKind
      <4>1. chunk \in SUBSET Slots
        BY <2>1
      <4>. QED  BY <2>1, <3>3, <4>1, RepliesAreFed DEF Follows, Sound
    <3>6. Palette!Retry(fed).rounds <= MaxRounds
      BY <3>4, <3>5, RoundsAreCounted
    <3>. QED  BY <2>2, <3>2, <3>3, <3>4, <3>6
  <2>5. CASE Palette!Resize
    BY <1>2, <2>1, <2>2, <2>5, RoundsAreCounted DEF Palette!Resize
  <2>6. CASE Palette!WindowCloses
    BY <1>2, <2>1, <2>2, <2>6, RoundsAreCounted DEF Palette!WindowCloses
  <2>7. CASE Palette!TimerFires
    <3>1. PICK fired : fired = [reader EXCEPT !.timer = FALSE]
      OBVIOUS
    <3>2. PICK again : again = [fired EXCEPT !.timer = TRUE]
      OBVIOUS
    <3>3. /\ fired \in ReaderKind /\ fired.rounds = reader.rounds
          /\ again.rounds = reader.rounds
      BY <2>1, <3>1, <3>2 DEF ReaderKind
    <3>4. Palette!Retry(fired).rounds <= MaxRounds
      BY <1>2, <3>3, RoundsAreCounted
    <3>5. PICK next : next = IF Palette!Retry(fired) = fired /\ Palette!MayAskAgain(fired)
                             THEN again ELSE Palette!Retry(fired)
      OBVIOUS
    <3>6. Palette!Step(next, replies)
      BY <2>7, <3>1, <3>2, <3>5 DEF Palette!TimerFires
    <3>. QED  BY <1>2, <2>2, <3>3, <3>4, <3>5, <3>6
  <2>8. CASE Palette!SpacingElapses
    <3>1. [reader EXCEPT !.spaced = TRUE].rounds = reader.rounds
      BY <2>1 DEF ReaderKind
    <3>. QED  BY <1>2, <2>2, <2>8, <3>1 DEF Palette!SpacingElapses
  <2>9. CASE Palette!Attach \/ Palette!Lost \/ UNCHANGED Palette!vars
    BY <1>2, <2>9 DEF Palette!Attach, Palette!Lost, Palette!vars
  <2>. QED  BY <1>2, <2>3, <2>4, <2>5, <2>6, <2>7, <2>8, <2>9 DEF Palette!Next
<1>3. PaletteInv /\ Counted => Palette!TypeOK
  BY RoomAssumption DEF PaletteInv, Sound, ReaderKind, Palette!TypeOK
<1>4. ASSUME PaletteInv, [Palette!Next]_(Palette!vars)  PROVE PaletteInv'
  BY <1>4, PaletteStep
<1>. QED  BY <1>1, <1>2, <1>3, <1>4, PaletteInit, PTL

\* Agents are started in the order of their numbers, and time goes on up to its bound.
LEMMA TreeTypes == Tree!Spec => []Tree!TypeOK
<1>1. Tree!Init => Tree!TypeOK
  BY RoomAssumption DEF Tree!Init, Tree!TypeOK, Tree!Lanes, Tree!Agents, Tree!Spine, Tree!Times, Tree!Items
<1>2. ASSUME Tree!TypeOK, [Tree!Next]_(Tree!vars)  PROVE Tree!TypeOK'
  <2>. USE RoomAssumption
  <2>0. Tree!Lanes = 0..NumAgents /\ Tree!Agents \subseteq Tree!Lanes
    BY DEF Tree!Lanes, Tree!Agents, Tree!Spine
  <2>1. ASSUME NEW l \in Tree!Lanes, NEW item \in Tree!Items, Tree!Write(l, item)  PROVE Tree!TypeOK'
    <3>1. items[l] \in Seq(Tree!Items)
      BY <1>2 DEF Tree!TypeOK
    <3>2. PICK calls \in Seq(Tree!Items) : calls = items[l]
      BY <3>1
    <3>3. Append(calls, item) \in Seq(Tree!Items)
      OBVIOUS
    <3>4. items' = [items EXCEPT ![l] = Append(calls, item)] /\ UNCHANGED <<agent, folded, clock>>
      BY <2>1, <3>2 DEF Tree!Write
    <3>. QED  BY <1>2, <3>3, <3>4 DEF Tree!TypeOK
  <2>2. CASE Tree!Narrate
    <3>1. [prose |-> TRUE, t |-> 0, starts |-> <<>>] \in Tree!Items
      BY DEF Tree!Items, Tree!Times
    <3>2. Tree!Spine \in Tree!Lanes
      BY DEF Tree!Lanes
    <3>. QED  BY <2>1, <2>2, <3>1, <3>2 DEF Tree!Narrate
  <2>3. CASE \E l \in Tree!Lanes : Tree!Call(l)
    <3>1. [prose |-> FALSE, t |-> 0, starts |-> <<>>] \in Tree!Items
      BY DEF Tree!Items, Tree!Times
    <3>. QED  BY <2>1, <2>3, <3>1 DEF Tree!Call
  <2>4. Tree!Tick => clock' \in Tree!Times
    BY <1>2 DEF Tree!TypeOK, Tree!Tick, Tree!Times
  <2>5. ASSUME NEW l \in Tree!Lanes, NEW i \in DOMAIN items[l], NEW item \in Tree!Items
        PROVE  [items EXCEPT ![l] = [@ EXCEPT ![i] = item]] \in [Tree!Lanes -> Seq(Tree!Items)]
    <3>1. PICK calls \in Seq(Tree!Items) : calls = items[l]
      BY <1>2 DEF Tree!TypeOK
    <3>2. PICK new \in Seq(Tree!Items) : new = [calls EXCEPT ![i] = item]
      <4>1. i \in 1..Len(calls)
        BY <3>1
      <4>. QED  BY <4>1, ExceptSeq
    <3>3. [items EXCEPT ![l] = new] \in [Tree!Lanes -> Seq(Tree!Items)]
      BY <1>2 DEF Tree!TypeOK
    <3>. QED  BY <3>1, <3>2, <3>3
  <2>6. ASSUME NEW l \in Tree!Lanes, NEW i \in DOMAIN items[l]
        PROVE  items[l][i] \in Tree!Items
    <3>1. items[l] \in Seq(Tree!Items)
      BY <1>2 DEF Tree!TypeOK
    <3>. QED  BY <3>1
  <2>7. ASSUME NEW l \in Tree!Lanes, NEW i, Tree!Start(l, i)  PROVE Tree!TypeOK'
    <3>1. i \in DOMAIN items[l] /\ clock' \in Tree!Times /\ UNCHANGED <<agent, folded>>
      BY <2>4, <2>7 DEF Tree!Start
    <3>2. PICK item : item = [items[l][i] EXCEPT !.t = clock']
      OBVIOUS
    <3>3. item \in Tree!Items
      BY <2>6, <3>1, <3>2 DEF Tree!Items
    <3>4. items' = [items EXCEPT ![l] = [@ EXCEPT ![i] = item]]
      BY <2>7, <3>2 DEF Tree!Start
    <3>5. items' \in [Tree!Lanes -> Seq(Tree!Items)]
      BY <2>5, <3>1, <3>3, <3>4
    <3>. QED  BY <1>2, <3>1, <3>5 DEF Tree!TypeOK
  <2>8. ASSUME NEW l \in Tree!Lanes, NEW i, NEW n \in 1..2, Tree!Spawn(l, i, n)  PROVE Tree!TypeOK'
    <3>1. i \in DOMAIN items[l] /\ clock' \in Tree!Times /\ UNCHANGED folded
      BY <2>4, <2>8 DEF Tree!Spawn
    <3>. DEFINE before == {a \in Tree!Agents : Tree!Known(a)}
    <3>2. PICK first : first = IF before = {} THEN 1 ELSE Tree!Max(before) + 1
      OBVIOUS
    <3>3. first \in Nat
      <4>1. ASSUME before # {}  PROVE Tree!Max(before) \in Nat
        <5>1. before \subseteq 0..NumAgents
          BY DEF Tree!Agents
        <5>2. Screen!Max(before) \in before
          <6>. HIDE DEF before
          <6>. QED  BY <4>1, <5>1, MaxOf
        <5>3. Tree!Max(before) = Screen!Max(before)
          BY DEF Tree!Max, Screen!Max
        <5>. QED  BY <5>1, <5>2, <5>3
      <4>. QED  BY <3>2, <4>1
    <3>4. PICK new : new = first..(first + n - 1)
      OBVIOUS
    <3>5. /\ new \subseteq Tree!Agents
          /\ items' = [items EXCEPT ![l][i].starts = [k \in 1..n |-> first + k - 1]]
          /\ agent' = [a \in Tree!Agents |->
                          IF a \in new THEN [status |-> "running", parent |-> l,
                                             since |-> clock', until |-> 0]
                                       ELSE agent[a]]
      BY <2>8, <3>2, <3>4 DEF Tree!Spawn
    <3>6. PICK starts : starts = [k \in 1..n |-> first + k - 1]
      OBVIOUS
    <3>7. starts \in Seq(Tree!Agents)
      <4>1. ASSUME NEW k \in 1..n  PROVE first + k - 1 \in new
        <5>1. n \in Nat /\ first <= first + k - 1 /\ first + k - 1 <= first + n - 1
          BY <3>3
        <5>. QED  BY <3>3, <3>4, <5>1
      <4>2. \A k \in 1..n : first + k - 1 \in Tree!Agents
        BY <3>5, <4>1
      <4>. QED  BY <3>6, <4>2
    <3>8. PICK item : item = [items[l][i] EXCEPT !.starts = starts]
      OBVIOUS
    <3>9. item \in Tree!Items
      BY <2>6, <3>1, <3>7, <3>8 DEF Tree!Items
    <3>10. items' = [items EXCEPT ![l] = [@ EXCEPT ![i] = item]]
      BY <3>5, <3>6, <3>8
    <3>11. items' \in [Tree!Lanes -> Seq(Tree!Items)]
      BY <2>5, <3>1, <3>9, <3>10
    <3>12. agent' \in [Tree!Agents -> [status : {"none", "running", "ended"}, parent : Tree!Lanes,
                                       since : Tree!Times, until : Tree!Times]]
      BY <1>2, <3>1, <3>5 DEF Tree!TypeOK, Tree!Times
    <3>. QED  BY <1>2, <3>1, <3>11, <3>12 DEF Tree!TypeOK
  <2>9. ASSUME NEW a \in Tree!Agents, Tree!End(a)  PROVE Tree!TypeOK'
    <3>1. clock' \in Tree!Times /\ UNCHANGED <<items, folded>>
      BY <2>4, <2>9 DEF Tree!End
    <3>2. agent' = [agent EXCEPT ![a] = [agent[a] EXCEPT !.status = "ended", !.until = clock']]
      BY <2>9 DEF Tree!End
    <3>3. PICK over : over = [agent[a] EXCEPT !.status = "ended", !.until = clock']
      OBVIOUS
    <3>4. over \in [status : {"none", "running", "ended"}, parent : Tree!Lanes,
                     since : Tree!Times, until : Tree!Times]
      BY <1>2, <3>1, <3>3 DEF Tree!TypeOK
    <3>. QED  BY <1>2, <3>1, <3>2, <3>3, <3>4 DEF Tree!TypeOK
  <2>10. ASSUME NEW a \in Tree!Agents, Tree!Fold(a)  PROVE Tree!TypeOK'
    BY <1>2, <2>10 DEF Tree!Fold, Tree!TypeOK
  <2>11. CASE UNCHANGED Tree!vars
    BY <1>2, <2>11 DEF Tree!vars, Tree!TypeOK
  <2>. QED  BY <1>2, <2>2, <2>3, <2>7, <2>8, <2>9, <2>10, <2>11 DEF Tree!Next
<1>. QED  BY <1>1, <1>2, PTL DEF Tree!Spec

\* The transcript and what was printed keep to their bounds, and the fields of the buffer
\* are what the operations make of them.
ViewTyped(v) ==
    /\ DOMAIN v = ViewFields
    /\ v.dirty \in BOOLEAN /\ v.splash \in BOOLEAN /\ v.streams \in BOOLEAN
    /\ v.width \in 0..2 /\ v.streamWidth \in 0..2
    /\ v.start \in Nat /\ v.trailLines \in Nat
    /\ v.trailFrom \in 1..Screen!Never
    /\ \A i \in DOMAIN v.cache : i \in 1..MaxMessages

ScreenBounds ==
    /\ Len(transcript) <= MaxMessages
    /\ kept \in Seq(0..MaxMessages)
    /\ mixed \in BOOLEAN /\ shortened \in BOOLEAN
    /\ ViewTyped(view)

\* A marked buffer keeps its fields.
LEMMA MarkedTyped ==
  ASSUME ViewTyped(view)
  PROVE  ViewTyped(Screen!Marked)
<1>1. Screen!Never \in 1..Screen!Never /\ Screen!None \in 0..2
  BY RoomAssumption DEF Screen!Never, Screen!None
<1>. QED  BY <1>1 DEF ViewTyped, ViewFields, Screen!Marked

\* What is printed from a place on has a length.
LEMMA PrintedLength ==
  ASSUME NEW from \in 1..Screen!Never, NEW to \in Nat
  PROVE  Len(Screen!Printed(from, to)) \in Nat
<1>1. from \in Nat \ {0}
  BY RoomAssumption DEF Screen!Never
<1>2. CASE from <= to + 1
  BY <1>1, <1>2, PrintedType
<1>3. CASE ~(from <= to + 1)
  <2>1. 1..(to - from + 1) = {}
    BY <1>1, <1>3
  <2>2. Screen!Printed(from, to) = <<>>
    BY <2>1 DEF Screen!Printed
  <2>. QED  BY <2>2
<1>. QED  BY <1>2, <1>3

\* A rebuild types every field anew.
LEMMA RebuildTyped ==
  ASSUME NEW v, ViewTyped(v), CacheIsSound(v.cache), NEW msgs \in Texts, Len(msgs) <= MaxMessages,
         width \in {1, 2}, kept \in Seq(Nat), Len(kept) <= MaxPrints
  PROVE  ViewTyped(Screen!Rebuild(v, msgs))
<1>1. PICK at \in Nat : at = Screen!StreamingAt(v, msgs)
  BY StreamingPlace
<1>2. Placed(msgs, at) /\ Len(msgs) \in 0..Len(msgs) /\ DOMAIN msgs = 1..Len(msgs)
  BY <1>1, StreamingPlace DEF Texts
<1>3. PICK drawn : drawn = Screen!RenderInto(kept, v.cache, width, msgs, at)[Len(msgs)]
  OBVIOUS
<1>4. drawn \in Drawings(kept)
  <2>1. \A i \in 0..Len(msgs) : Screen!RenderInto(kept, v.cache, width, msgs, at)[i]
                               = Screen!RenderInto(kept, Screen!NoLines, width, msgs, at)[i]
    BY <1>2, RenderedAsCold
  <2>2. Screen!RenderInto(kept, Screen!NoLines, width, msgs, at)[Len(msgs)] \in Drawings(kept)
    BY <1>2, RenderType
  <2>. QED  BY <1>2, <1>3, <2>1, <2>2
<1>5. PICK rest : rest = Screen!Printed(drawn.next, Len(kept))
  OBVIOUS
<1>6. PICK cache : cache = [i \in Screen!Heads(msgs) |->
                              [key   |-> Screen!Key(width, msgs, i, at),
                               lines |-> Screen!UnitLines(v.cache, width, msgs, i, at)]]
  OBVIOUS
<1>7. \A i \in DOMAIN cache : i \in 1..MaxMessages
  <2>1. DOMAIN cache \subseteq 1..Len(msgs)
    BY <1>2, <1>6 DEF Screen!Heads
  <2>. QED  BY <1>2, <2>1, RoomAssumption
<1>8. /\ drawn.lines \in Seq(Lines) /\ rest \in Seq(Lines) /\ drawn.next \in Nat \ {0}
      /\ Len(rest) = Len(kept) - drawn.next + 1
  BY <1>2, <1>4, <1>5, PiecesType
<1>9. rest # <<>> => drawn.next \in 1..Screen!Never
  <2>1. rest # <<>> => Len(rest) \in Nat \ {0}
    BY <1>8
  <2>2. Len(kept) \in Nat /\ MaxPrints \in Nat
    BY RoomAssumption
  <2>. QED  BY <1>8, <2>1, <2>2 DEF Screen!Never
<1>10. Len(drawn.lines) \in Nat /\ Len(rest) \in Nat /\ Screen!Never \in 1..Screen!Never
  BY <1>8, RoomAssumption DEF Screen!Never
<1>11. PICK built : built = Screen!Rebuild(v, msgs)
  OBVIOUS
<1>12. PICK plain : plain = [v EXCEPT !.dirty = FALSE, !.width = width, !.splash = FALSE,
                                      !.trailFrom = Screen!Never, !.trailLines = 0]
  OBVIOUS
<1>13. ViewTyped(plain)
  BY <1>10, <1>12 DEF ViewTyped, ViewFields
<1>14. CASE Quiet(msgs, kept)
  <2>1. built = [plain EXCEPT !.splash = TRUE, !.lines = <<Screen!Line("splash", 0, 0)>>]
    BY <1>11, <1>12, <1>14 DEF Screen!Rebuild, Quiet
  <2>2. ViewTyped(built)
    BY <1>13, <2>1 DEF ViewTyped, ViewFields
  <2>. QED  BY <1>11, <2>2
<1>15. CASE ~Quiet(msgs, kept)
  <2>1. PICK lines : lines = drawn.lines \o (IF at # Screen!None THEN Screen!TextLines(width, at, msgs[at].text)
                                             ELSE <<>>) \o rest
    OBVIOUS
  <2>2. built = [plain EXCEPT
                   !.cache = cache,
                   !.lines = lines,
                   !.start       = IF at # Screen!None THEN Len(drawn.lines) ELSE @,
                   !.streamWidth = IF at # Screen!None THEN width ELSE @,
                   !.trailFrom   = IF at # Screen!None /\ rest # <<>> THEN drawn.next
                                   ELSE Screen!Never,
                   !.trailLines  = IF at # Screen!None THEN Len(rest) ELSE 0]
    BY <1>1, <1>3, <1>5, <1>6, <1>11, <1>12, <1>15, <2>1 DEF Screen!Rebuild, Quiet
  <2>3. /\ DOMAIN built = ViewFields /\ built.dirty = plain.dirty /\ built.splash = plain.splash
        /\ built.streams = plain.streams /\ built.width = plain.width /\ built.cache = cache
        /\ built.start \in {plain.start, Len(drawn.lines)}
        /\ built.streamWidth \in {plain.streamWidth, width}
        /\ built.trailFrom \in {Screen!Never} \cup (IF rest # <<>> THEN {drawn.next} ELSE {})
        /\ built.trailLines \in {0, Len(rest)}
    BY <1>13, <2>2 DEF ViewTyped, ViewFields
  <2>4. width \in 0..2
    OBVIOUS
  <2>5. built.trailFrom \in 1..Screen!Never
    BY <1>9, <1>10, <2>3
  <2>6. built.start \in Nat /\ built.streamWidth \in 0..2 /\ built.trailLines \in Nat
    BY <1>10, <1>13, <2>3, <2>4 DEF ViewTyped
  <2>7. ViewTyped(built)
    BY <1>7, <1>13, <2>3, <2>5, <2>6 DEF ViewTyped
  <2>. QED  BY <1>11, <2>7
<1>. QED  BY <1>14, <1>15

\* A streaming answer begins at a line.
LEMMA StartTyped ==
  ASSUME ScreenInv, ScreenBounds, Screen!StartStreamingBlock
  PROVE  ScreenBounds'
<1>. DEFINE answer == [role |-> "assistant", text |-> 0]
<1>1. /\ transcript \in Texts /\ width \in {1, 2} /\ kept \in Seq(Nat) /\ DOMAIN view = ViewFields
      /\ CacheIsSound(view.cache) /\ Len(kept) <= MaxPrints /\ ViewTyped(view)
  BY DEF ScreenInv, ScreenTypes, ScreenBounds
<1>2. transcript' = Append(transcript, answer) /\ answer \in Screen!Messages
  BY RoomAssumption DEF Screen!StartStreamingBlock, Screen!Messages
<1>3. PICK msgs \in Texts : msgs = transcript'
  <2>. HIDE DEF answer
  <2>1. transcript' \in Texts
    BY <1>1, <1>2 DEF Texts
  <2>. QED  BY <2>1
<1>4. /\ msgs # <<>> /\ Len(msgs) # 0 /\ msgs[Len(msgs)] = answer
      /\ Len(msgs) = Len(transcript) + 1 /\ Len(msgs) <= MaxMessages
  <2>. HIDE DEF answer
  <2>1. Len(transcript) < MaxMessages
    BY DEF Screen!StartStreamingBlock
  <2>. QED  BY <1>1, <1>2, <1>3, <2>1, RoomAssumption DEF Texts
<1>5. /\ Screen!Is(msgs, Len(msgs), "assistant") /\ msgs[Len(msgs)].text = 0
  BY <1>4 DEF Screen!Is
<1>6. PICK old : old = [Screen!Marked EXCEPT !.streams = TRUE, !.start = 0]
  OBVIOUS
<1>7. ViewTyped(old) /\ CacheIsSound(old.cache) /\ old.streams = TRUE
  <2>1. ViewTyped(Screen!Marked) /\ Screen!Marked.cache = view.cache
    BY <1>1, MarkedTyped, MarkedIs
  <2>. QED  BY <1>1, <1>6, <2>1 DEF ViewTyped, ViewFields
<1>8. PICK built : built = Screen!Rebuild(old, msgs)
  OBVIOUS
<1>9. ViewTyped(built)
  BY <1>1, <1>4, <1>7, <1>8, RebuildTyped
<1>10. built.width = width /\ built.streams = TRUE /\ Shown(built, msgs, kept)
  <2>1. DOMAIN old = ViewFields
    BY <1>7 DEF ViewTyped
  <2>. QED  BY <1>1, <1>7, <1>8, <2>1, RebuildShows
<1>11. PICK new : new = [built EXCEPT !.start = Screen!StartsAfter(built), !.streamWidth = width]
  OBVIOUS
<1>12. view' = new
  BY <1>3, <1>6, <1>8, <1>11 DEF Screen!StartStreamingBlock
<1>13. PICK at : at = Screen!StreamingAt(built, msgs)
  OBVIOUS
<1>14. at = Len(msgs) /\ at # Screen!None
  BY <1>4, <1>5, <1>10, <1>13 DEF Screen!StreamingAt, Screen!None
<1>15. PICK w : w = width /\ w \in {1, 2}
  BY <1>1
<1>16. PICK outputs \in Seq(Nat) : outputs = kept
  BY <1>1
<1>17. Shown(new, msgs, outputs)
  <2>1. DOMAIN built = ViewFields
    BY <1>9 DEF ViewTyped
  <2>. QED  BY <1>5, <1>10, <1>11, <1>13, <1>14, <1>15, <1>16, <2>1, StartShows
<1>18. /\ new.streams = TRUE /\ new.width = width /\ DOMAIN new = ViewFields
       /\ new.dirty = built.dirty /\ new.splash = built.splash /\ new.trailLines = built.trailLines
       /\ new.trailFrom = built.trailFrom /\ new.cache = built.cache /\ new.streamWidth = width
  BY <1>9, <1>10, <1>11 DEF ViewTyped, ViewFields
<1>19. Screen!StreamingAt(new, msgs) = at
  BY <1>10, <1>13, <1>18 DEF Screen!StreamingAt
<1>20. PICK drawn : drawn = Cold(outputs, w, msgs, at)
  OBVIOUS
<1>21. new.start = Len(drawn.lines)
  <2>1. at \in Nat /\ Placed(msgs, at)
    BY <1>13, StreamingPlace
  <2>2. ~Quiet(msgs, outputs)
    BY <1>14, <2>1 DEF Quiet, Placed, Screen!Is
  <2>. QED  BY <1>14, <1>15, <1>17, <1>18, <1>19, <1>20, <2>2 DEF Shown, Stacked
<1>22. Len(drawn.lines) \in Nat
  <2>1. at \in Nat /\ Len(msgs) \in 0..Len(msgs)
    BY <1>13, StreamingPlace DEF Texts
  <2>2. drawn \in Drawings(outputs)
    BY <1>15, <1>20, <2>1, RenderType DEF Cold
  <2>. QED  BY <2>2 DEF Drawings
<1>23. ViewTyped(new)
  <2>1. width \in 0..2
    BY <1>1
  <2>. QED  BY <1>9, <1>18, <1>21, <1>22, <2>1 DEF ViewTyped
<1>24. UNCHANGED <<kept, mixed, shortened>>
  BY DEF Screen!StartStreamingBlock
<1>. QED  BY <1>3, <1>4, <1>12, <1>23, <1>24 DEF ScreenBounds

\* The text that streams keeps the length of the transcript.
LEMMA UpdateTyped ==
  ASSUME ScreenInv, ScreenInv', ScreenBounds, NEW text \in 1..MaxLines,
         Screen!UpdateStreamingBlock(text)
  PROVE  ScreenBounds'
<1>1. /\ transcript \in Texts /\ width \in {1, 2} /\ kept \in Seq(Nat) /\ CacheIsSound(view.cache)
      /\ Len(kept) <= MaxPrints /\ ViewTyped(view) /\ Len(transcript) <= MaxMessages
  BY DEF ScreenInv, ScreenTypes, ScreenBounds
<1>2. PICK msgs \in Texts : msgs = transcript'
  BY DEF ScreenInv, ScreenTypes
<1>3. PICK at : at = Screen!Placeholder(transcript)
  OBVIOUS
<1>4. Len(msgs) = Len(transcript)
  <2>1. msgs = IF at = Screen!None THEN transcript ELSE [transcript EXCEPT ![at].text = text]
    BY <1>2, <1>3 DEF Screen!UpdateStreamingBlock
  <2>2. DOMAIN msgs = DOMAIN transcript
    BY <2>1
  <2>. QED  BY <1>1, <2>2 DEF Texts
<1>5. PICK v : v = IF width = view.streamWidth THEN view ELSE Screen!Flushed(view, msgs)
  OBVIOUS
<1>6. PICK built : built = Screen!Rebuild(view, msgs)
  OBVIOUS
<1>7. ViewTyped(built)
  BY <1>1, <1>4, <1>6, RebuildTyped
<1>8. ViewTyped(v)
  BY <1>1, <1>5, <1>6, <1>7 DEF Screen!Flushed
<1>9. PICK trail : trail = Screen!Printed(v.trailFrom, Len(kept))
  OBVIOUS
<1>10. Len(trail) \in Nat
  <2>1. Len(kept) \in Nat /\ v.trailFrom \in 1..Screen!Never
    BY <1>1, <1>8 DEF ViewTyped
  <2>. QED  BY <1>9, <2>1, PrintedLength
<1>11. PICK lines : lines = Screen!TextLines(width, at, text)
  OBVIOUS
<1>12. PICK u : u = Updated(v, lines, trail)
  OBVIOUS
<1>13. view' = IF ~view.streams THEN view ELSE IF v.dirty THEN v ELSE u
  BY <1>2, <1>3, <1>5, <1>9, <1>11, <1>12
  DEF Screen!UpdateStreamingBlock, Screen!DrawStreamed, Updated
<1>14. ViewTyped(u)
  BY <1>8, <1>10, <1>12 DEF Updated, ViewTyped, ViewFields
<1>15. ViewTyped(view')
  BY <1>1, <1>8, <1>13, <1>14
<1>16. UNCHANGED <<kept, mixed, shortened>>
  BY DEF Screen!UpdateStreamingBlock
<1>. QED  BY <1>1, <1>2, <1>4, <1>15, <1>16 DEF ScreenBounds

\* An answer takes the place of the placeholder, or comes if there is room.
LEMMA FinalizeTyped ==
  ASSUME ScreenInv, ScreenBounds, NEW answer \in BOOLEAN, Screen!FinalizeStreamingBlock(answer)
  PROVE  ScreenBounds'
<1>1. transcript \in Texts /\ Len(transcript) <= MaxMessages /\ ViewTyped(view)
  BY DEF ScreenInv, ScreenTypes, ScreenBounds
<1>2. PICK at, rest, last :
        /\ rest = IF at = Screen!None THEN transcript ELSE Screen!RemoveAt(transcript, at)
        /\ last = IF answer THEN <<[role |-> "assistant", text |-> MaxLines]>> ELSE <<>>
        /\ at # Screen!None => at \in 1..Len(transcript)
        /\ answer => Len(rest) < MaxMessages
        /\ transcript' = rest \o last
  BY FinalizeIs
<1>3. PICK m : m = [role |-> "assistant", text |-> MaxLines]
  OBVIOUS
<1>4. m \in Screen!Messages
  BY <1>3, RoomAssumption DEF Screen!Messages
<1>5. last \in Texts /\ Len(last) = IF answer THEN 1 ELSE 0
  BY <1>2, <1>3, <1>4 DEF Texts
<1>6. rest \in Texts /\ Len(rest) <= Len(transcript)
  <2>1. CASE at = Screen!None
    BY <1>1, <1>2, <2>1 DEF Texts
  <2>2. CASE at # Screen!None
    <3>1. rest \in Seq(Screen!Messages) /\ Len(rest) = Len(transcript) - 1
      BY <1>1, <1>2, <2>2, OneLess DEF Texts
    <3>. QED  BY <1>1, <3>1 DEF Texts
  <2>. QED  BY <2>1, <2>2
<1>7. Len(transcript') = Len(rest) + Len(last) /\ Len(rest) \in Nat /\ Len(transcript) \in Nat
  BY <1>1, <1>2, <1>5, <1>6 DEF Texts
<1>8. Len(transcript') <= MaxMessages
  <2>1. CASE answer
    BY <1>2, <1>5, <1>7, <2>1, RoomAssumption
  <2>2. CASE ~answer
    BY <1>1, <1>5, <1>6, <1>7, <2>2, RoomAssumption
  <2>. QED  BY <2>1, <2>2
<1>9. ViewTyped(Screen!Marked)
  BY <1>1, MarkedTyped
<1>10. view' = [Screen!Marked EXCEPT !.streams = FALSE, !.start = 0, !.streamWidth = Screen!None]
  BY DEF Screen!FinalizeStreamingBlock
<1>11. ViewTyped(view')
  <2>1. Screen!None \in 0..2
    BY DEF Screen!None
  <2>. QED  BY <1>9, <1>10, <2>1 DEF ViewTyped, ViewFields
<1>12. mixed' \in BOOLEAN /\ shortened' \in BOOLEAN /\ UNCHANGED kept
  BY DEF Screen!FinalizeStreamingBlock, Screen!Shorter, ScreenBounds
<1>. QED  BY <1>8, <1>11, <1>12 DEF ScreenBounds

\* What is printed is printed below the messages there are.
LEMMA LogTyped ==
  ASSUME ScreenInv, ScreenBounds, Screen!Log
  PROVE  ScreenBounds'
<1>1. /\ transcript \in Texts /\ Len(transcript) \in 0..MaxMessages /\ ViewTyped(view)
      /\ kept \in Seq(0..MaxMessages) /\ Len(kept) < MaxPrints /\ Len(kept) \in Nat
      /\ UNCHANGED <<transcript, mixed, shortened>>
  <2>1. transcript \in Texts /\ Len(transcript) <= MaxMessages /\ kept \in Seq(0..MaxMessages)
        /\ ViewTyped(view)
    BY DEF ScreenInv, ScreenTypes, ScreenBounds
  <2>2. Len(transcript) \in Nat /\ Len(kept) \in Nat
    BY <2>1 DEF Texts
  <2>3. Len(kept) < MaxPrints /\ UNCHANGED <<transcript, mixed, shortened>>
    BY DEF Screen!Log
  <2>. QED  BY <2>1, <2>2, <2>3, RoomAssumption
<1>2. kept' \in Seq(0..MaxMessages)
  BY <1>1 DEF Screen!Log
<1>3. PICK seq : seq = Len(kept) + 1
  OBVIOUS
<1>4. PICK u : u = Logged(view, seq)
  OBVIOUS
<1>5. view' = IF view.splash THEN Screen!Marked ELSE IF view.dirty THEN view ELSE u
  BY <1>3, <1>4 DEF Screen!Log, Logged
<1>6. seq \in 1..Screen!Never
  BY <1>1, <1>3, RoomAssumption DEF Screen!Never
<1>7. ViewTyped(u)
  <2>1. /\ DOMAIN u = ViewFields /\ u.dirty = view.dirty /\ u.splash = view.splash
        /\ u.streams = view.streams /\ u.width = view.width
        /\ u.streamWidth = view.streamWidth /\ u.start = view.start /\ u.cache = view.cache
        /\ u.trailLines \in {view.trailLines, view.trailLines + 1}
        /\ u.trailFrom \in {view.trailFrom, seq}
    BY <1>1, <1>4 DEF Logged, ViewTyped, ViewFields
  <2>2. view.trailLines \in Nat /\ view.trailLines + 1 \in Nat
    BY <1>1 DEF ViewTyped
  <2>. QED  BY <1>1, <1>6, <2>1, <2>2 DEF ViewTyped
<1>8. ViewTyped(view')
  BY <1>1, <1>5, <1>7, MarkedTyped
<1>. QED  BY <1>1, <1>2, <1>8 DEF ScreenBounds

\* Every operation of the conversation keeps to the bounds.
LEMMA ScreenBoundsStay ==
  ASSUME ScreenInv, ScreenInv', ScreenBounds, [Screen!Next]_(Screen!vars)
  PROVE  ScreenBounds'
<1>1. /\ transcript \in Texts /\ Len(transcript) \in Nat /\ Len(transcript) <= MaxMessages
      /\ ViewTyped(view) /\ width \in {1, 2} /\ kept \in Seq(Nat) /\ Len(kept) <= MaxPrints
      /\ CacheIsSound(view.cache)
  BY DEF ScreenInv, ScreenTypes, ScreenBounds, Texts
<1>2. ASSUME NEW role \in {"user", "assistant", "notice"}, NEW text \in 0..MaxLines, Screen!Add(role, text)
      PROVE  ScreenBounds'
  <2>1. transcript' = Append(transcript, [role |-> role, text |-> text]) /\ Len(transcript) < MaxMessages
    BY <1>2 DEF Screen!Add
  <2>2. Len(transcript') <= MaxMessages
    <3>1. [role |-> role, text |-> text] \in Screen!Messages
      BY DEF Screen!Messages
    <3>2. PICK message : message = [role |-> role, text |-> text] /\ message \in Screen!Messages
      BY <3>1
    <3>3. transcript' = Append(transcript, message)
      BY <2>1, <3>2
    <3>4. Len(transcript') = Len(transcript) + 1
      BY <1>1, <3>2, <3>3 DEF Texts
    <3>. QED  BY <1>1, <2>1, <3>4, RoomAssumption
  <2>3. ViewTyped(view')
    BY <1>1, <1>2, MarkedTyped DEF Screen!Add
  <2>4. mixed' \in BOOLEAN /\ UNCHANGED <<kept, shortened>>
    BY <1>2 DEF Screen!Add, ScreenInv, ScreenTypes, ScreenBounds
  <2>. QED  BY <2>2, <2>3, <2>4 DEF ScreenBounds
<1>3. CASE Screen!AddUserMessage \/ Screen!AddAssistantMessage \/ Screen!AddSystemMessage
  BY <1>2, <1>3, RoomAssumption
  DEF Screen!AddUserMessage, Screen!AddAssistantMessage, Screen!AddSystemMessage
<1>4. CASE Screen!StartStreamingBlock
  BY <1>4, StartTyped
<1>5. CASE \E text \in 1..MaxLines : Screen!UpdateStreamingBlock(text)
  BY <1>5, UpdateTyped
<1>6. CASE \E answer \in BOOLEAN : Screen!FinalizeStreamingBlock(answer)
  BY <1>6, FinalizeTyped
<1>7. CASE Screen!Log
  BY <1>7, LogTyped
<1>8. CASE Screen!Flush
  <2>1. ViewTyped(Screen!Rebuild(view, transcript))
    BY <1>1, RebuildTyped
  <2>. QED  BY <1>8, <2>1 DEF Screen!Flush, ScreenBounds
<1>9. CASE Screen!Resize \/ UNCHANGED Screen!vars
  BY <1>9 DEF Screen!Resize, Screen!vars, ScreenBounds
<1>10. ASSUME NEW count \in 0..MaxMessages, Screen!RemoveMessagesAfter(count)
       PROVE  ScreenBounds'
  <2>1. count \in 0..Len(transcript) /\ transcript' = SubSeq(transcript, 1, count) /\ view' = Screen!Marked
    BY <1>1, <1>10, RoomAssumption DEF Screen!RemoveMessagesAfter
  <2>2. Len(transcript') = count
    BY <1>1, <2>1 DEF Texts
  <2>3. ViewTyped(view')
    BY <1>1, <2>1, MarkedTyped
  <2>4. shortened' \in BOOLEAN /\ mixed' \in BOOLEAN /\ UNCHANGED kept
    BY <1>10 DEF Screen!RemoveMessagesAfter, Screen!Shorter, ScreenInv, ScreenTypes, ScreenBounds
  <2>. QED  BY <1>1, <2>1, <2>2, <2>3, <2>4, RoomAssumption DEF ScreenBounds
<1>11. CASE Screen!ResetAll
  <2>1. Screen!Never \in 1..Screen!Never /\ Screen!None \in 0..2 /\ DOMAIN Screen!NoLines = {}
    BY RoomAssumption DEF Screen!Never, Screen!None, Screen!NoLines
  <2>2. ViewTyped(view')
    <3>1. ViewTyped(Screen!Marked)
      BY <1>1, MarkedTyped
    <3>. QED  BY <1>11, <2>1, <3>1 DEF Screen!ResetAll, ViewTyped, ViewFields
  <2>3. transcript' = <<>> /\ kept' = <<>> /\ mixed' \in BOOLEAN /\ shortened' = FALSE
    BY <1>11 DEF Screen!ResetAll, ScreenInv, ScreenTypes
  <2>4. <<>> \in Seq(0..MaxMessages) /\ Len(<<>>) = 0
    OBVIOUS
  <2>5. Len(transcript') <= MaxMessages
    BY <2>3, <2>4, RoomAssumption
  <2>6. kept' \in Seq(0..MaxMessages) /\ mixed' \in BOOLEAN /\ shortened' \in BOOLEAN
    BY <2>3, <2>4
  <2>. QED  BY <2>2, <2>5, <2>6 DEF ScreenBounds
<1>. QED  BY <1>3, <1>4, <1>5, <1>6, <1>7, <1>8, <1>9, <1>10, <1>11 DEF Screen!Next

\* The transcript, what was printed and the buffer keep to their types.
LEMMA ScreenTyped == Screen!Spec => []Screen!TypeOK
<1>1. Screen!Init => ScreenBounds
  <2>. SUFFICES ASSUME Screen!Init  PROVE ScreenBounds
    OBVIOUS
  <2>1. Screen!Never \in 1..Screen!Never /\ Screen!None \in 0..2 /\ DOMAIN Screen!NoLines = {}
    BY RoomAssumption DEF Screen!Never, Screen!None, Screen!NoLines
  <2>2. ViewTyped(view)
    BY <2>1 DEF Screen!Init, ViewTyped, ViewFields
  <2>3. transcript = <<>> /\ kept = <<>> /\ mixed = FALSE /\ shortened = FALSE
    BY DEF Screen!Init
  <2>4. <<>> \in Seq(0..MaxMessages) /\ Len(<<>>) = 0
    OBVIOUS
  <2>5. Len(transcript) <= MaxMessages
    BY <2>3, <2>4, RoomAssumption
  <2>6. kept \in Seq(0..MaxMessages) /\ mixed \in BOOLEAN /\ shortened \in BOOLEAN
    BY <2>3, <2>4
  <2>. QED  BY <2>2, <2>5, <2>6 DEF ScreenBounds
<1>2. ScreenInv /\ ScreenBounds => Screen!TypeOK
  BY DEF ScreenInv, ScreenTypes, ScreenBounds, ViewTyped, Texts, Screen!TypeOK
<1>3. ScreenInv /\ ScreenInv' /\ ScreenBounds /\ [Screen!Next]_(Screen!vars) => ScreenBounds'
  BY ScreenBoundsStay
<1>. QED  BY <1>1, <1>2, <1>3, ScreenHolds, PTL DEF Screen!Spec

\* Every part of the shell stays within its types, whichever moves: rounds, prints, agents
\* and messages keep to their bounds, and no field of the buffer of lines is left behind.
THEOREM ShellPartsAreTyped == PartsSpec => []PartsTypeOK
<1>1. Spec => []TypeOK
  BY TypeCorrect
<1>2. Activity!Spec => []Activity!TypeOK
  <2>1. ActivityInv => Activity!TypeOK
    BY DEF ActivityInv
  <2>. QED  BY <2>1, ActivityInit, ActivityPreserved, PTL DEF Activity!Spec
<1>3. Frames!Spec => []Frames!TypeOK
  <2>1. WrittenInv => Frames!TypeOK
    BY DEF WrittenInv
  <2>. QED  BY <2>1, WrittenInit, WrittenPreserved, PTL DEF Frames!Spec
<1>4. Stream!Spec => []Stream!TypeOK
  <2>1. StreamInv => Stream!TypeOK
    BY DEF StreamInv
  <2>. QED  BY <2>1, StreamInit, StreamPreserved, PTL DEF Stream!Spec
<1>5. Nudge!Spec => []Nudge!TypeOK
  <2>1. NudgeInv => Nudge!TypeOK
    BY DEF NudgeInv
  <2>. QED  BY <2>1, NudgeInit, NudgePreserved, PTL DEF Nudge!Spec
<1>6. Session!Spec => []Session!TypeOK
  <2>1. SessionInv => Session!TypeOK
    BY DEF SessionInv
  <2>. QED  BY <2>1, SessionInit, SessionPreserved, PTL DEF Session!Spec
<1>7. /\ TypeOK /\ Activity!TypeOK /\ Frames!TypeOK /\ Stream!TypeOK /\ Nudge!TypeOK
      /\ Palette!TypeOK /\ Session!TypeOK /\ Tree!TypeOK /\ Screen!TypeOK
      => PartsTypeOK
  BY Zenon DEF PartsTypeOK
<1>. QED  BY <1>1, <1>2, <1>3, <1>4, <1>5, <1>6, <1>7, PaletteTypes, TreeTypes, ScreenTyped,
             ShellPartsAreTheirOwn, PTL

\* Whichever part of the shell moves, each keeps what it promises: cards and the indicator
\* tell the truth, turns are written whole and by their own, nudges are said once, colours
\* and sessions are kept, and the screen is the transcript, but while a block is open and,
\* since it began, a message came in behind its placeholder or messages were taken back.
THEOREM ShellKeepsItsPromises ==
  PartsSpec => /\ [](/\ CardIsTrue /\ IndicatorTellsTruth /\ TurnIsWritten /\ TurnReachesItsOwn
                     /\ SaidOnce /\ SessionsAreKept /\ ScreenIsTranscript)
               /\ NeverClearsAnothers /\ ColoursKept
  BY ShellPartsAreTheirOwn, CardTellsTruth, IndicatorStaysTrue, TurnsAreWritten, TurnsReachTheirOwn,
     NudgesAreSaidOnce, SessionsStayKept, ScreenStaysTheTranscript, ClearsItsOwn, ColoursStayKept, PTL
=============================================================================
