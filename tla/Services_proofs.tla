-------------------------- MODULE Services_proofs --------------------------
(***************************************************************************)
(* What five parts of Services promise, for any number of refreshes,       *)
(* messages, sessions, reconciliations, turns and operations.              *)
(*                                                                         *)
(* Wake detection: a listener on its way to its device is the held one, or *)
(* was told to stop.  The hand-off: the stage of a message tells where it  *)
(* runs, and one on its way tells of its conversation's session.  Adoption:*)
(* the stage of a reconciliation tells of the routing and of the receipts. *)
(* The mirror: a session that is not in doubt has one mirror at a time,    *)
(* which carries its transcript as it stands.  Onboarding: the oldest      *)
(* rollback of a place has what was there before.                          *)
(***************************************************************************)
EXTENDS Services, Sequences, FiniteSetTheorems, TLAPS

----------------------------------------------------------------------------
(* Wake detection. *)

\* The held listener, when nothing came late.
ListenerIsHeld ==
    /\ open \subseteq listener
    /\ \A r \in open : wakePc[r] = "done"
    /\ \A r \in Refreshes : wakePc[r] = "opening" => listener = {r} \/ r \in stopped
    /\ ~wanted \/ torn => listener = {}

WakeInv == Wake!TypeOK /\ (lateFetch \/ lateRefusal \/ ListenerIsHeld)

LEMMA WakeInit == Wake!Init => WakeInv
  BY DEF Wake!Init, WakeInv, Wake!TypeOK, ListenerIsHeld

LEMMA WakeTypePreserved ==
  ASSUME Wake!TypeOK, [Wake!Next]_(Wake!vars)
  PROVE  Wake!TypeOK'
<1>1. ASSUME NEW r \in Refreshes, Wake!Configure(r)
      PROVE  Wake!TypeOK'
  BY <1>1 DEF Wake!Configure, Wake!Refresh, Wake!Stop, Wake!StartListener, Wake!Goto, Wake!TypeOK
<1>2. ASSUME NEW r \in Refreshes, Wake!Settles(r)
      PROVE  Wake!TypeOK'
  BY <1>2
  DEF Wake!Settles, Wake!FetchFails, Wake!FetchEnds, Wake!DeviceOpens, Wake!DeviceRefused,
      Wake!StartListener, Wake!Goto, Wake!TypeOK
<1>3. ASSUME NEW r \in Refreshes, Wake!Latch(r)
      PROVE  Wake!TypeOK'
  BY <1>3 DEF Wake!Latch, Wake!TypeOK
<1>4. CASE Wake!TearDown
  BY <1>4 DEF Wake!TearDown, Wake!Stop, Wake!TypeOK
<1>5. CASE UNCHANGED Wake!vars
  BY <1>5 DEF Wake!vars, Wake!TypeOK
<1>. QED  BY <1>1, <1>2, <1>3, <1>4, <1>5 DEF Wake!Next

LEMMA ListenerPreserved ==
  ASSUME WakeInv, [Wake!Next]_(Wake!vars), ~lateFetch', ~lateRefusal'
  PROVE  ListenerIsHeld'
<1>. USE DEF WakeInv
<1>1. ASSUME NEW r \in Refreshes, Wake!Configure(r)
      PROVE  ListenerIsHeld'
  <2>1. ListenerIsHeld
    BY <1>1 DEF Wake!Configure
  <2>2. CASE ~wanted'
    BY <1>1, <2>1, <2>2
    DEF Wake!Configure, Wake!Refresh, Wake!Stop, Wake!Goto, Wake!TypeOK, ListenerIsHeld
  <2>3. CASE wanted'
    BY <1>1, <2>1, <2>3
    DEF Wake!Configure, Wake!Refresh, Wake!StartListener, Wake!Goto, Wake!TypeOK, ListenerIsHeld
  <2>. QED  BY <2>2, <2>3
<1>2. ASSUME NEW r \in Refreshes, Wake!FetchFails(r)
      PROVE  ListenerIsHeld'
  BY <1>2 DEF Wake!FetchFails, Wake!Goto, Wake!TypeOK, ListenerIsHeld
<1>3. ASSUME NEW r \in Refreshes, Wake!FetchEnds(r)
      PROVE  ListenerIsHeld'
  BY <1>3 DEF Wake!FetchEnds, Wake!StartListener, Wake!Goto, Wake!TypeOK, ListenerIsHeld
<1>4. ASSUME NEW r \in Refreshes, Wake!DeviceOpens(r)
      PROVE  ListenerIsHeld'
  BY <1>4 DEF Wake!DeviceOpens, Wake!Goto, Wake!TypeOK, ListenerIsHeld
<1>5. ASSUME NEW r \in Refreshes, Wake!DeviceRefused(r)
      PROVE  ListenerIsHeld'
  BY <1>5 DEF Wake!DeviceRefused, Wake!Goto, Wake!TypeOK, ListenerIsHeld
<1>6. ASSUME NEW r \in Refreshes, Wake!Latch(r)
      PROVE  ListenerIsHeld'
  BY <1>6 DEF Wake!Latch, Wake!TypeOK, ListenerIsHeld
<1>7. CASE Wake!TearDown
  BY <1>7 DEF Wake!TearDown, Wake!Stop, Wake!TypeOK, ListenerIsHeld
<1>8. CASE UNCHANGED Wake!vars
  BY <1>8 DEF Wake!vars, ListenerIsHeld
<1>. QED
  BY <1>1, <1>2, <1>3, <1>4, <1>5, <1>6, <1>7, <1>8 DEF Wake!Next, Wake!Settles

\* An open microphone is the held listener's, and none is open once detection is
\* off or the shell is gone, however refreshes, fetches and starts interleave; but
\* for a fetch or a refusal that came after its listener was replaced.
THEOREM MicrophoneStaysOurs == Wake!Spec => []MicrophoneIsOurs
<1>1. WakeInv /\ [Wake!Next]_(Wake!vars) => WakeInv'
  BY WakeTypePreserved, ListenerPreserved DEF WakeInv
<1>2. WakeInv => MicrophoneIsOurs
  BY DEF WakeInv, ListenerIsHeld, MicrophoneIsOurs, Wake!MicrophoneIsHeld, Wake!OffMeansSilent
<1>. QED  BY <1>1, <1>2, WakeInit, PTL DEF Wake!Spec

----------------------------------------------------------------------------
(* The hand-off. *)

LEMMA HandoffInit == Handoff!Init => Handoff!TypeOK
  BY DEF Handoff!Init, Handoff!TypeOK, Handoff!Awaits, Handoff!Settled

LEMMA HandoffTypePreserved ==
  ASSUME Handoff!TypeOK, [Handoff!Next]_(Handoff!vars)
  PROVE  Handoff!TypeOK'
<1>. USE DEF Handoff!TypeOK, Handoff!Awaits, Handoff!Settled, Handoff!Goto
<1>1. ASSUME NEW m \in Messages, Handoff!Starts(m)
      PROVE  Handoff!TypeOK'
  <2>1. CASE Handoff!Decline(m)
    BY <2>1 DEF Handoff!Decline
  <2>2. CASE Handoff!Refuse(m)
    BY <2>2 DEF Handoff!Refuse, Handoff!RunHere
  <2>3. CASE Handoff!Promote(m)
    <3>. DEFINE c == ConversationOf[m]
    <3>1. c \in Handoff!Conversations
      BY DEF Handoff!Conversations
    <3>2. /\ UNCHANGED <<enabled, outdated, alive, opened, ran, here, promoted>>
          /\ overlapped' = (overlapped \/ Handoff!InFlight(c))
          /\ \/ Handoff!Goto(m, "creating") /\ UNCHANGED target
             \/ Handoff!Goto(m, "steering") /\ target' = [target EXCEPT ![m] = promoted[c]]
      BY <2>3 DEF Handoff!Promote
    <3>3. overlapped' \in BOOLEAN
      BY <3>2 DEF Handoff!InFlight
    <3>. QED  BY <3>1, <3>2, <3>3
  <2>. QED  BY <1>1, <2>1, <2>2, <2>3 DEF Handoff!Starts
<1>2. ASSUME NEW m \in Messages, Handoff!CreateSession(m)
      PROVE  Handoff!TypeOK'
  BY <1>2 DEF Handoff!CreateSession, Handoff!Conversations
<1>3. ASSUME NEW m \in Messages, Handoff!AcceptSteer(m)
      PROVE  Handoff!TypeOK'
  BY <1>3 DEF Handoff!AcceptSteer
<1>4. ASSUME NEW m \in Messages, Handoff!Settles(m)
      PROVE  Handoff!TypeOK'
  BY <1>4
  DEF Handoff!Settles, Handoff!Created, Handoff!Steered, Handoff!CallFails,
      Handoff!SessionGone, Handoff!Bind, Handoff!RunHere
<1>5. ASSUME NEW s \in Sessions, Handoff!SessionEnds(s)
      PROVE  Handoff!TypeOK'
  BY <1>5 DEF Handoff!SessionEnds
<1>6. CASE Handoff!Setting
  BY <1>6 DEF Handoff!Setting
<1>7. CASE UNCHANGED Handoff!vars
  BY <1>7 DEF Handoff!vars
<1>. QED  BY <1>1, <1>2, <1>3, <1>4, <1>5, <1>6, <1>7 DEF Handoff!Next

\* The stage of a message and the two machines agree.
StageTellsPlace ==
    \A m \in Messages :
      /\ m \in here <=> messagePc[m] = "local"
      /\ ran[m] # NoSession <=> messagePc[m] \in {"created", "steered", "promoted"}

LEMMA StagePreserved ==
  ASSUME LossyReplies = FALSE, Handoff!TypeOK, StageTellsPlace, [Handoff!Next]_(Handoff!vars)
  PROVE  StageTellsPlace'
<1>. USE DEF Handoff!TypeOK, StageTellsPlace, Handoff!Goto, Handoff!RunHere
<1>1. ASSUME NEW m \in Messages, Handoff!Starts(m)
      PROVE  StageTellsPlace'
  BY <1>1 DEF Handoff!Starts, Handoff!Decline, Handoff!Refuse, Handoff!Promote
<1>2. ASSUME NEW m \in Messages, Handoff!CreateSession(m)
      PROVE  StageTellsPlace'
  BY <1>2, HandoffAssumption DEF Handoff!CreateSession
<1>3. ASSUME NEW m \in Messages, Handoff!AcceptSteer(m)
      PROVE  StageTellsPlace'
  <2>1. target[m] # NoSession
    BY <1>3, HandoffAssumption DEF Handoff!AcceptSteer
  <2>. QED  BY <1>3, <2>1 DEF Handoff!AcceptSteer
<1>4. ASSUME NEW m \in Messages, Handoff!Settles(m)
      PROVE  StageTellsPlace'
  BY <1>4
  DEF Handoff!Settles, Handoff!Created, Handoff!Steered, Handoff!CallFails, Handoff!SessionGone
<1>5. ASSUME NEW s \in Sessions, Handoff!SessionEnds(s)
      PROVE  StageTellsPlace'
  BY <1>5 DEF Handoff!SessionEnds
<1>6. CASE Handoff!Setting
  BY <1>6 DEF Handoff!Setting
<1>7. CASE UNCHANGED Handoff!vars
  BY <1>7 DEF Handoff!vars
<1>. QED  BY <1>1, <1>2, <1>3, <1>4, <1>5, <1>6, <1>7 DEF Handoff!Next

\* The sessions the daemon runs for the conversation of a message.
Hosts(m) == {s \in alive : opened[s] = ConversationOf[m]}

\* A conversation whose messages never overlapped: a message on its way is the
\* only one, and knows the conversation's session.
AloneOnItsWay ==
    \A m, n \in Messages :
      messagePc[m] \in Handoff!Awaits /\ messagePc[n] \in Handoff!Awaits
      /\ ConversationOf[m] = ConversationOf[n] => m = n

KnowsItsHost ==
    \A m \in Messages :
      /\ messagePc[m] = "creating" => Hosts(m) = {}
      /\ messagePc[m] \in {"created", "steering", "steered"} => Hosts(m) \subseteq {target[m]}
      /\ messagePc[m] \in {"steering", "steered"} => promoted[ConversationOf[m]] = target[m]

HostInv ==
    /\ AloneOnItsWay /\ KnowsItsHost
    /\ \A s \in alive : opened[s] # "none"
    /\ Handoff!OneHost /\ Handoff!MappingIsCurrent

HandoffInv ==
    /\ Handoff!TypeOK /\ StageTellsPlace
    /\ overlapped \/ HostInv

LEMMA HostPreserved ==
  ASSUME LossyReplies = FALSE, HandoffInv, [Handoff!Next]_(Handoff!vars), ~overlapped'
  PROVE  HostInv'
<1>. USE DEF Handoff!TypeOK, Handoff!Awaits, Handoff!Settled, Handoff!Goto
<1>. Handoff!TypeOK
  BY DEF HandoffInv
<1>1. HostInv
  BY DEF HandoffInv, Handoff!Next, Handoff!Starts, Handoff!Decline, Handoff!Refuse,
         Handoff!Promote, Handoff!CreateSession, Handoff!AcceptSteer, Handoff!Settles,
         Handoff!Created, Handoff!Steered, Handoff!CallFails, Handoff!SessionGone,
         Handoff!SessionEnds, Handoff!Setting, Handoff!vars
<1>. USE <1>1 DEF HostInv
<1>2. ASSUME NEW m \in Messages, Handoff!Decline(m) \/ Handoff!Refuse(m)
      PROVE  HostInv'
  BY <1>2
  DEF Handoff!Decline, Handoff!Refuse, Handoff!RunHere, AloneOnItsWay, KnowsItsHost, Hosts,
      Handoff!OneHost, Handoff!MappingIsCurrent, Handoff!InFlight
<1>3. ASSUME NEW m \in Messages, Handoff!Promote(m)
      PROVE  HostInv'
  <2>. DEFINE c == ConversationOf[m]
  <2>1. /\ UNCHANGED <<alive, opened, promoted>>
        /\ messagePc[m] = "new"
        /\ \/ promoted[c] = NoSession /\ Handoff!Goto(m, "creating") /\ UNCHANGED target
           \/ /\ Handoff!Goto(m, "steering")
              /\ target' = [target EXCEPT ![m] = promoted[c]]
    BY <1>3 DEF Handoff!Promote
  <2>2. ~overlapped /\ ~Handoff!InFlight(c)
    BY <1>3 DEF Handoff!Promote
  <2>3. Hosts(m) \subseteq {promoted[c]} /\ Hosts(m) \subseteq Sessions
    BY <2>2 DEF Hosts, Handoff!MappingIsCurrent
  <2>4. AloneOnItsWay'
    BY <2>1, <2>2 DEF AloneOnItsWay, Handoff!InFlight
  <2>5. KnowsItsHost'
    BY <2>1, <2>3, HandoffAssumption DEF KnowsItsHost, Hosts
  <2>6. Handoff!MappingIsCurrent'
    BY <2>1, <1>3 DEF Handoff!Promote, Handoff!MappingIsCurrent, Handoff!InFlight
  <2>7. (\A s \in alive : opened[s] # "none")' /\ Handoff!OneHost'
    BY <2>1, <2>2 DEF Handoff!OneHost
  <2>. QED  BY <2>4, <2>5, <2>6, <2>7
<1>4. ASSUME NEW m \in Messages, Handoff!CreateSession(m)
      PROVE  HostInv'
  BY <1>4, HandoffAssumption
  DEF Handoff!CreateSession, Handoff!Conversations, AloneOnItsWay, KnowsItsHost, Hosts,
      Handoff!OneHost, Handoff!MappingIsCurrent, Handoff!InFlight
<1>5. ASSUME NEW m \in Messages, Handoff!AcceptSteer(m)
      PROVE  HostInv'
  BY <1>5
  DEF Handoff!AcceptSteer, AloneOnItsWay, KnowsItsHost, Hosts,
      Handoff!OneHost, Handoff!MappingIsCurrent, Handoff!InFlight
<1>6. ASSUME NEW m \in Messages, Handoff!Created(m)
      PROVE  HostInv'
  BY <1>6, HandoffAssumption
  DEF Handoff!Created, Handoff!Bind, Handoff!Conversations, AloneOnItsWay, KnowsItsHost, Hosts,
      Handoff!OneHost, Handoff!MappingIsCurrent, Handoff!InFlight
<1>7. ASSUME NEW m \in Messages, Handoff!Steered(m)
      PROVE  HostInv'
  BY <1>7, HandoffAssumption
  DEF Handoff!Steered, AloneOnItsWay, KnowsItsHost, Hosts,
      Handoff!OneHost, Handoff!MappingIsCurrent, Handoff!InFlight
<1>8. ASSUME NEW m \in Messages, Handoff!CallFails(m)
      PROVE  HostInv'
  BY <1>8, HandoffAssumption
  DEF Handoff!CallFails, Handoff!RunHere, AloneOnItsWay, KnowsItsHost, Hosts,
      Handoff!OneHost, Handoff!MappingIsCurrent, Handoff!InFlight
<1>9. ASSUME NEW m \in Messages, Handoff!SessionGone(m)
      PROVE  HostInv'
  BY <1>9, HandoffAssumption
  DEF Handoff!SessionGone, Handoff!Bind, Handoff!Conversations, AloneOnItsWay, KnowsItsHost, Hosts,
      Handoff!OneHost, Handoff!MappingIsCurrent, Handoff!InFlight
<1>10. ASSUME NEW s \in Sessions, Handoff!SessionEnds(s)
      PROVE  HostInv'
  BY <1>10
  DEF Handoff!SessionEnds, AloneOnItsWay, KnowsItsHost, Hosts,
      Handoff!OneHost, Handoff!MappingIsCurrent, Handoff!InFlight
<1>11. CASE Handoff!Setting \/ UNCHANGED Handoff!vars
  BY <1>11
  DEF Handoff!Setting, Handoff!vars, AloneOnItsWay, KnowsItsHost, Hosts,
      Handoff!OneHost, Handoff!MappingIsCurrent, Handoff!InFlight
<1>. QED
  BY <1>2, <1>3, <1>4, <1>5, <1>6, <1>7, <1>8, <1>9, <1>10, <1>11
  DEF Handoff!Next, Handoff!Starts, Handoff!Settles

LEMMA HandoffInvHolds ==
  ASSUME LossyReplies = FALSE
  PROVE  Handoff!Spec => []HandoffInv
<1>1. Handoff!Init => HandoffInv
  BY HandoffInit
  DEF Handoff!Init, HandoffInv, StageTellsPlace, HostInv, AloneOnItsWay, KnowsItsHost, Hosts,
      Handoff!Awaits, Handoff!OneHost, Handoff!MappingIsCurrent
<1>2. HandoffInv /\ [Handoff!Next]_(Handoff!vars) => HandoffInv'
  BY HandoffTypePreserved, StagePreserved, HostPreserved DEF HandoffInv
<1>. QED  BY <1>1, <1>2, PTL DEF Handoff!Spec

\* Without lost replies an inbound message that was handed over is not answered here
\* as well; and while the messages of a conversation take their turns, one session
\* hosts it, the one it is mapped to.  For any messages, conversations and sessions.
THEOREM OneAnswererHolds ==
  ASSUME LossyReplies = FALSE
  PROVE  Handoff!Spec => []OneAnswerer
<1>1. HandoffInv => OneAnswerer
  BY DEF HandoffInv, StageTellsPlace, HostInv, OneAnswerer, Handoff!AnsweredOnce,
         Handoff!OneHost, Handoff!MappingIsCurrent
<1>. QED  BY <1>1, HandoffInvHolds, PTL

Placed == [m \in Messages |-> Handoff!Place(m)]

\* Where a message runs is decided once: a step of the hand-off is a step of
\* TurnPlacement, or leaves every message where it is.
LEMMA StepPlaces ==
  ASSUME LossyReplies = FALSE, HandoffInv, HandoffInv', [Handoff!Next]_(Handoff!vars)
  PROVE  [Handoff!Placement!Next]_Placed
<1>. USE DEF HandoffInv, Handoff!Goto, Handoff!RunHere, Handoff!TypeOK
<1>1. ASSUME NEW m \in Messages,
             \A n \in Messages \ {m} : UNCHANGED <<messagePc[n], ran[n]>>,
             messagePc[m] \notin {"local", "created", "steered", "promoted"}
      PROVE  [Handoff!Placement!Next]_Placed
  <2>1. \A n \in Messages \ {m} : Placed'[n] = Placed[n]
    BY <1>1 DEF Placed, Handoff!Place, StageTellsPlace
  <2>2. Placed[m] = "nowhere"
    BY <1>1 DEF Placed, Handoff!Place, StageTellsPlace
  <2>3. Placed' = [Placed EXCEPT ![m] = Placed'[m]]
    BY <2>1 DEF Placed
  <2>4. CASE Placed'[m] = "nowhere"
    BY <2>2, <2>3, <2>4 DEF Placed
  <2>5. CASE Placed'[m] \in {"here", "daemon"}
    BY <2>2, <2>3, <2>5 DEF Handoff!Placement!Next, Handoff!Placement!Place, Placed
  <2>. QED  BY <2>4, <2>5 DEF Placed, Handoff!Place
<1>2. ASSUME NEW m \in Messages,
             Handoff!Starts(m) \/ Handoff!CreateSession(m) \/ Handoff!AcceptSteer(m)
             \/ Handoff!CallFails(m) \/ Handoff!SessionGone(m)
      PROVE  [Handoff!Placement!Next]_Placed
  <2>1. /\ \A n \in Messages \ {m} : UNCHANGED <<messagePc[n], ran[n]>>
        /\ messagePc[m] \notin {"local", "created", "steered", "promoted"}
    BY <1>2
    DEF Handoff!Starts, Handoff!Decline, Handoff!Refuse, Handoff!Promote,
        Handoff!CreateSession, Handoff!AcceptSteer, Handoff!CallFails, Handoff!SessionGone
  <2>. QED  BY <1>1, <2>1
<1>3. ASSUME UNCHANGED <<ran, here>>
      PROVE  UNCHANGED Placed
  BY <1>3 DEF Placed, Handoff!Place
<1>. QED
  BY <1>2, <1>3
  DEF Handoff!Next, Handoff!Settles, Handoff!Created, Handoff!Steered, Handoff!SessionEnds,
      Handoff!Setting, Handoff!vars

\* Handing over implements TurnPlacement when no reply is lost: a message runs on
\* one machine, and where it runs is never taken back.
THEOREM HandoffImplementsPlacement ==
  ASSUME LossyReplies = FALSE
  PROVE  Handoff!Spec => PlacedOnce
<1>1. Handoff!Init => Handoff!Placement!Init
  BY DEF Handoff!Init, Handoff!Placement!Init, Handoff!Place
<1>2. HandoffInv /\ HandoffInv' /\ [Handoff!Next]_(Handoff!vars)
        => [Handoff!Placement!Next]_Placed
  BY StepPlaces
<1>. QED
  BY <1>1, <1>2, HandoffInvHolds, PTL
  DEF Handoff!Spec, PlacedOnce, Handoff!PlacedOnce, Handoff!Placement!Spec, Placed

----------------------------------------------------------------------------
(* Adoption. *)

LEMMA AdoptionInit == Adoption!Init => Adoption!TypeOK
<1>1. 0 \in 0..MaxChanges /\ 0 \in Nat
  BY BoundsAssumption
<1>. QED  BY <1>1, Zenon DEF Adoption!Init, Adoption!TypeOK

\* What is pushed is shown, or kept for the sink.
LEMMA PushType ==
  ASSUME Adoption!TypeOK, NEW receipts \in SUBSET Adoption!Receipts, Adoption!Push(receipts)
  PROVE  {taken', buffer', shown'} \subseteq SUBSET Adoption!Receipts
  BY DEF Adoption!TypeOK, Adoption!Push

LEMMA RefuseType ==
  ASSUME Adoption!TypeOK, Adoption!Refuse
  PROVE  /\ refused' = TRUE /\ announced' = TRUE
         /\ {taken', buffer', shown'} \subseteq SUBSET Adoption!Receipts
<1>1. {0} \in SUBSET Adoption!Receipts
  BY BoundsAssumption DEF Adoption!Receipts
<1>2. CASE announced
  BY <1>2 DEF Adoption!Refuse, Adoption!TypeOK, Adoption!feed
<1>3. CASE ~announced
  BY <1>1, <1>3, PushType DEF Adoption!Refuse
<1>. QED  BY <1>2, <1>3 DEF Adoption!Refuse

LEMMA AdoptionTypePreserved ==
  ASSUME Adoption!TypeOK, [Adoption!Next]_(Adoption!vars)
  PROVE  Adoption!TypeOK'
<1>. USE BoundsAssumption
     DEF Adoption!TypeOK, Adoption!Goto, Adoption!world, Adoption!guard, Adoption!feed
<1>1. CASE Adoption!Change
  <2>1. changes' \in 0..MaxChanges /\ changes' \in Adoption!Receipts
    BY <1>1 DEF Adoption!Change, Adoption!Receipts
  <2>2. swapped' \in BOOLEAN
    BY <1>1 DEF Adoption!Change
  <2>. QED  BY <1>1, <2>1, <2>2 DEF Adoption!Change
<1>2. CASE Adoption!AttachSink
  BY <1>2 DEF Adoption!AttachSink
<1>3. ASSUME NEW r \in Reconciles, Adoption!Start(r)
      PROVE  Adoption!TypeOK'
  <2>1. overlapping' \in BOOLEAN
    BY <1>3 DEF Adoption!Start
  <2>. QED  BY <1>3, <2>1 DEF Adoption!Start
<1>4. ASSUME NEW r \in Reconciles, Adoption!Probed(r)
      PROVE  Adoption!TypeOK'
  <2>1. {active', dispatch', booted', swapped'} \subseteq BOOLEAN
    BY <1>4, Zenon DEF Adoption!Probed, Adoption!Release
  <2>2. attaches' \in Nat /\ \E next \in {"judging", "idle"} : Adoption!Goto(r, next)
    BY <1>4 DEF Adoption!Probed, Adoption!Release
  <2>. QED  BY <1>4, <2>1, <2>2 DEF Adoption!Probed
<1>5. ASSUME NEW r \in Reconciles, Adoption!Judged(r)
      PROVE  Adoption!TypeOK'
  <2>1. CASE Adoption!Refuse /\ Adoption!Goto(r, "idle") /\ booted' = TRUE
             /\ UNCHANGED <<active, dispatch, attaches>>
    BY <1>5, <2>1, RefuseType DEF Adoption!Judged
  <2>2. CASE Adoption!Adopt(r) /\ {refused', announced'} \subseteq BOOLEAN
             /\ UNCHANGED <<booted, taken, buffer, shown>>
    BY <1>5, <2>2 DEF Adoption!Judged, Adoption!Adopt
  <2>. QED  BY <1>5, <2>1, <2>2 DEF Adoption!Judged
<1>6. ASSUME NEW r \in Reconciles, Adoption!Observed(r)
      PROVE  Adoption!TypeOK'
  <2>1. /\ {refused', announced'} \subseteq BOOLEAN
        /\ {taken', buffer', shown'} \subseteq SUBSET Adoption!Receipts
    BY <1>6, RefuseType DEF Adoption!Observed
  <2>. QED  BY <1>6, <2>1 DEF Adoption!Observed
<1>7. ASSUME NEW r \in Reconciles, Adoption!Consume(r)
      PROVE  Adoption!TypeOK'
  BY <1>7 DEF Adoption!Consume
<1>8. ASSUME NEW r \in Reconciles, Adoption!Land(r)
      PROVE  Adoption!TypeOK'
  <2>1. {taken', buffer', shown'} \subseteq SUBSET Adoption!Receipts
    BY <1>8, PushType DEF Adoption!Land
  <2>. QED  BY <1>8, <2>1 DEF Adoption!Land
<1>9. CASE UNCHANGED Adoption!vars
  BY <1>9 DEF Adoption!vars
<1>. QED
  BY <1>1, <1>2, <1>3, <1>4, <1>5, <1>6, <1>7, <1>8, <1>9 DEF Adoption!Next, Adoption!Step

\* The routing is attached once to the daemon it is switched to; where no two
\* reconciliations overlapped, one that judges it finds it switched off.
RoutingIsTold ==
    /\ ~active => attaches = 0
    /\ \/ overlapping
       \/ /\ \A r, q \in Adoption!Busy : r = q
          /\ \A r \in Reconciles : at[r] = "judging" => ~active
          /\ attaches <= 1

LEMMA RoutingPreserved ==
  ASSUME Adoption!TypeOK, RoutingIsTold, Adoption!OldIsNotUsed, [Adoption!Next]_(Adoption!vars)
  PROVE  RoutingIsTold' /\ Adoption!OldIsNotUsed'
<1>. USE DEF Adoption!TypeOK, RoutingIsTold, Adoption!OldIsNotUsed, Adoption!Busy, Adoption!Goto,
             Adoption!world
<1>. DEFINE Goal == RoutingIsTold' /\ Adoption!OldIsNotUsed'
<1>1. CASE Adoption!Change
  BY <1>1 DEF Adoption!Change
<1>2. CASE Adoption!AttachSink
  BY <1>2 DEF Adoption!AttachSink
<1>3. ASSUME NEW r \in Reconciles, Adoption!Start(r)
      PROVE  Goal
  BY <1>3 DEF Adoption!Start
<1>4. ASSUME NEW r \in Reconciles, Adoption!Probed(r)
      PROVE  Goal
  BY <1>4 DEF Adoption!Probed, Adoption!Release
<1>5. ASSUME NEW r \in Reconciles, Adoption!Judged(r)
      PROVE  Goal
  BY <1>5 DEF Adoption!Judged, Adoption!Adopt
<1>6. ASSUME NEW r \in Reconciles, Adoption!Observed(r)
      PROVE  Goal
  BY <1>6 DEF Adoption!Observed
<1>7. ASSUME NEW r \in Reconciles, Adoption!Consume(r)
      PROVE  Goal
  BY <1>7 DEF Adoption!Consume
<1>8. ASSUME NEW r \in Reconciles, Adoption!Land(r)
      PROVE  Goal
  BY <1>8 DEF Adoption!Land
<1>9. CASE UNCHANGED Adoption!vars
  BY <1>9 DEF Adoption!vars
<1>. QED
  BY <1>1, <1>2, <1>3, <1>4, <1>5, <1>6, <1>7, <1>8, <1>9 DEF Adoption!Next, Adoption!Step

\* Where each receipt is, and what the feed and the guard remember of it.
Carried == UNION {carried[r] : r \in Reconciles}

ReceiptsAreKept ==
    /\ taken = buffer \cup shown
    /\ \A r \in Reconciles : at[r] # "landing" => carried[r] = {}
    /\ refused = announced
    /\ refused => 0 \in taken
    /\ 1..changes = (owed \cup Carried \cup taken) \ {0}
    /\ buffer \cap shown = {}
    /\ sink => buffer = {}

\* What is pushed is kept or shown once.
LEMMA PushKeeps ==
  ASSUME NEW receipts, Adoption!Push(receipts), UNCHANGED sink,
         taken = buffer \cup shown, buffer \cap shown = {}, sink => buffer = {}
  PROVE  /\ taken' = taken \cup receipts
         /\ taken' = buffer' \cup shown'
         /\ buffer' \cap shown' = {}
         /\ sink' => buffer' = {}
  BY DEF Adoption!Push

LEMMA ReceiptsPreserved ==
  ASSUME Adoption!TypeOK, ReceiptsAreKept, [Adoption!Next]_(Adoption!vars)
  PROVE  ReceiptsAreKept'
<1>. USE DEF Adoption!TypeOK, ReceiptsAreKept, Adoption!Goto, Adoption!world, Adoption!guard,
             Adoption!feed
<1>1. CASE Adoption!Change
  <2>1. 1..changes' = (1..changes) \cup {changes'} /\ changes' # 0
    BY <1>1 DEF Adoption!Change
  <2>. QED  BY <1>1, <2>1 DEF Adoption!Change, Carried
<1>2. CASE Adoption!AttachSink
  BY <1>2 DEF Adoption!AttachSink, Carried
<1>3. ASSUME NEW r \in Reconciles, Adoption!Start(r) \/ Adoption!Probed(r)
      PROVE  ReceiptsAreKept'
  BY <1>3 DEF Adoption!Start, Adoption!Probed, Carried
<1>4. ASSUME NEW r \in Reconciles, Adoption!Judged(r) \/ Adoption!Observed(r)
      PROVE  ReceiptsAreKept'
  <2>1. /\ UNCHANGED <<changes, owed, carried, sink>>
        /\ at[r] # "landing" /\ \A q \in Reconciles \ {r} : at'[q] = at[q]
    BY <1>4 DEF Adoption!Judged, Adoption!Observed, Adoption!Adopt
  <2>2. CASE Adoption!Refuse /\ ~announced
    <3>1. Adoption!Push({0}) /\ refused' = TRUE /\ announced' = TRUE
      BY <2>2 DEF Adoption!Refuse
    <3>2. /\ taken' = taken \cup {0} /\ taken' = buffer' \cup shown'
          /\ buffer' \cap shown' = {} /\ (sink' => buffer' = {})
      BY <2>1, <3>1, PushKeeps
    <3>3. Carried' = Carried
      BY <2>1 DEF Carried
    <3>4. 1..changes' = (owed' \cup Carried' \cup taken') \ {0}
      BY <2>1, <3>2, <3>3
    <3>5. 0 \in taken' /\ \A q \in Reconciles : at'[q] # "landing" => carried'[q] = {}
      BY <1>4, <2>1, <3>2 
    <3>. QED  BY <3>1, <3>2, <3>4, <3>5
  <2>3. CASE /\ UNCHANGED <<taken, buffer, shown>> /\ refused' = announced'
             /\ refused' => refused
    BY <2>1, <2>3 DEF Carried
  <2>. QED
    BY <1>4, <2>2, <2>3 DEF Adoption!Judged, Adoption!Observed, Adoption!Refuse
<1>5. ASSUME NEW r \in Reconciles, Adoption!Consume(r)
      PROVE  ReceiptsAreKept'
  <2>1. CASE daemon = "down"
    BY <1>5, <2>1 DEF Adoption!Consume, Carried
  <2>2. CASE daemon # "down"
    <3>1. /\ carried[r] = {} /\ carried' = [carried EXCEPT ![r] = owed] /\ owed' = {}
      BY <1>5, <2>2 DEF Adoption!Consume
    <3>2. owed' \cup Carried' = owed \cup Carried
      BY <3>1 DEF Carried
    <3>. QED  BY <1>5, <2>2, <3>1, <3>2 DEF Adoption!Consume, Carried
  <2>. QED  BY <2>1, <2>2
<1>6. ASSUME NEW r \in Reconciles, Adoption!Land(r)
      PROVE  ReceiptsAreKept'
  <2>1. /\ UNCHANGED <<changes, owed, sink, refused, announced>>
        /\ Adoption!Push(carried[r])
        /\ carried' = [carried EXCEPT ![r] = {}] /\ at' = [at EXCEPT ![r] = "idle"]
    BY <1>6 DEF Adoption!Land
  <2>2. /\ taken' = taken \cup carried[r] /\ taken' = buffer' \cup shown'
        /\ buffer' \cap shown' = {} /\ (sink' => buffer' = {})
    BY <2>1, PushKeeps
  <2>3. Carried' \cup taken' = Carried \cup taken
    BY <2>1, <2>2 DEF Carried
  <2>4. 1..changes' = (owed' \cup Carried' \cup taken') \ {0}
    BY <2>1, <2>3
  <2>5. 0 \in taken => 0 \in taken'
    BY <2>2
  <2>. QED  BY <2>1, <2>2, <2>4, <2>5
<1>7. CASE UNCHANGED Adoption!vars
  BY <1>7 DEF Adoption!vars, Carried
<1>. QED
  BY <1>1, <1>2, <1>3, <1>4, <1>5, <1>6, <1>7 DEF Adoption!Next, Adoption!Step

AdoptionInv == Adoption!TypeOK /\ RoutingIsTold /\ ReceiptsAreKept /\ Adoption!OldIsNotUsed

\* A daemon below the floor is used only where it replaced one that was; the routing
\* attaches to a daemon once, unless reconciliations overlapped; no receipt is lost or
\* shown twice, and a refusal is shown.  For any reconciliations and changes.
THEOREM AdoptionIsSoundHolds == Adoption!Spec => []AdoptionIsSound
<1>1. ASSUME Adoption!Init
      PROVE  AdoptionInv
  <2>1. RoutingIsTold /\ Adoption!OldIsNotUsed
    BY <1>1 DEF Adoption!Init, RoutingIsTold, Adoption!Busy, Adoption!OldIsNotUsed
  <2>2. Carried = {} /\ 1..changes = {}
    BY <1>1 DEF Adoption!Init, Carried
  <2>3. ReceiptsAreKept
    BY <1>1, <2>2 DEF Adoption!Init, ReceiptsAreKept
  <2>. QED  BY <1>1, <2>1, <2>3, AdoptionInit DEF AdoptionInv
<1>2. AdoptionInv /\ [Adoption!Next]_(Adoption!vars) => AdoptionInv'
  BY AdoptionTypePreserved, RoutingPreserved, ReceiptsPreserved DEF AdoptionInv
<1>3. ASSUME AdoptionInv
      PROVE  AdoptionIsSound
  <2>1. Adoption!NoReceiptLost
    <3>1. 1..changes = (owed \cup Carried \cup buffer \cup shown) \ {0}
      BY <1>3 DEF AdoptionInv, ReceiptsAreKept
    <3>2. buffer \cap shown = {} /\ (sink => buffer = {})
      BY <1>3 DEF AdoptionInv, ReceiptsAreKept
    <3>. QED  BY <3>1, <3>2 DEF Carried, Adoption!NoReceiptLost
  <2>. QED
    BY <1>3, <2>1
    DEF AdoptionInv, RoutingIsTold, ReceiptsAreKept, AdoptionIsSound, Adoption!OncePerAttach,
        Adoption!RefusalIsSaid
<1>. QED  BY <1>1, <1>2, <1>3, PTL DEF Adoption!Spec

----------------------------------------------------------------------------
(* Onboarding. *)

ApplyStages == {"checking", "building", "applying", "verifying", "ok"}

\* The operations so far are those reported, and the next is there while it is applied,
\* with what undoes it.
KeepsCount ==
    /\ phase \in ApplyStages => reported = 1..done
    /\ phase = "applying" =>
         /\ done < NumOperations
         /\ \E k \in DOMAIN rollbacks : rollbacks[k].place = placeOf[done + 1]
    /\ phase \in {"checking", "failed"} => rollbacks = <<>>
    /\ phase = "checking" => stuck = {}

\* What undoes the operations undoes them in the places they addressed, and the oldest
\* one of a place has what was there before; a place without one is as it was.
UndoneInPlace ==
    \A k \in DOMAIN rollbacks :
      \E i \in Apply!Operations : i <= done + 1 /\ rollbacks[k].place = placeOf[i]

NoneBefore(k) == \A j \in DOMAIN rollbacks : j < k => rollbacks[j].place # rollbacks[k].place

BeforeIsKnown ==
    /\ \A p \in Places \ (foreign \cup stuck) :
         (\A k \in DOMAIN rollbacks : rollbacks[k].place # p) => world[p] = before[p]
    /\ \A k \in DOMAIN rollbacks :
         rollbacks[k].place \notin foreign \cup stuck /\ NoneBefore(k) =>
           rollbacks[k].content = before[rollbacks[k].place]
    /\ phase \in ApplyStages \ {"checking"} =>
         \A i \in Apply!Operations :
           kindOf[i] = "make" => before[placeOf[i]] = {} \/ placeOf[i] \in foreign

\* What somebody else put down is there, unless an operation came to its place.
OthersOutlast ==
    \A p \in foreign :
      0 \in world[p] \/ \E i \in Apply!Operations : placeOf[i] = p /\ i <= done + 1

Undos == [place : Places, content : Apply!Marks]

ApplyInv ==
    /\ Apply!TypeOK /\ KeepsCount /\ UndoneInPlace /\ BeforeIsKnown /\ OthersOutlast
    /\ Apply!AppliedIsInForce

----------------------------------------------------------------------------
(* The mirror of hosted conversations. *)

\* One mirror of a session is under way, unless the session is in doubt, and it was
\* given the transcript as it stands; none is without the surface.
OneMirrorEach ==
    /\ \A m, n \in mirrors : m.session = n.session => m = n \/ m.session \in doubtful
    /\ \A m \in mirrors :
         m.session \notin doubtful => m.got \in {0, transcript[m.session]}
    /\ ~up => mirrors = {} /\ recovery = "off"

\* The store has nothing of a session, or all of it, or a mirror is on its way.
StoreIsBehind ==
    /\ \A m \in mirrors : m.got <= transcript[m.session]
    /\ \A s \in Mirror!Hosted :
         /\ store[s] <= transcript[s]
         /\ s \notin doubtful /\ store[s] \notin {0, transcript[s]} =>
              \E m \in mirrors : m.session = s

MirrorTypeOK ==
    /\ transcript \in [Mirror!Hosted -> 0..MaxTurns]
    /\ store \in [Mirror!Hosted -> 0..MaxTurns]
    /\ mirrors \subseteq Mirror!Mirrors /\ pending \subseteq Mirror!Hosted

MirrorInv == MirrorTypeOK /\ OneMirrorEach /\ StoreIsBehind

\* The later sessions that are home, or on their way in this boot's pass.
Brought(s) ==
    {t \in Mirror!Hosted : t > s /\ (\/ store[t] > 0 \/ t \in pending
                                    \/ \E m \in mirrors : m.session = t /\ m.turn = 0)}

\* A session the pass leaves out is not missing, or on its way, or has as many after it
\* as the pass brings.
PassBrings ==
    recovery \in {"running", "done"} =>
      \A s \in Mirror!Hosted :
        transcript[s] > 0 /\ store[s] = 0 /\ s \notin doubtful =>
          \/ s \in pending \/ \E m \in mirrors : m.session = s
          \/ Cardinality(Brought(s)) >= MaxRecovered

LEMMA MirrorInit == Mirror!Init => MirrorInv
<1>. SUFFICES ASSUME Mirror!Init PROVE MirrorInv
  OBVIOUS
<1>. QED
  BY BoundsAssumption
  DEF Mirror!Init, MirrorInv, MirrorTypeOK, OneMirrorEach, StoreIsBehind, Mirror!Hosted

\* A mirror that is begun: another one of its session puts the session in doubt.
LEMMA StartPreserved ==
  ASSUME MirrorTypeOK, NEW s \in Mirror!Hosted, NEW turn \in 0..MaxTurns,
         Mirror!StartMirror(s, turn), OneMirrorEach, up' = up, up, store' = store,
         \A t \in Mirror!Hosted : t # s => transcript'[t] = transcript[t],
         transcript[s] <= transcript'[s], transcript' \in [Mirror!Hosted -> 0..MaxTurns],
         StoreIsBehind, pending' \subseteq pending
  PROVE  MirrorInv'
<1>1. /\ mirrors' = mirrors \cup {[session |-> s, turn |-> turn, got |-> 0]}
      /\ doubtful \subseteq doubtful'
      /\ (\E m \in mirrors : m.session = s) => s \in doubtful'
      /\ doubtful' \subseteq doubtful \cup {s}
  BY DEF Mirror!StartMirror
<1>2. 0 \in 0..MaxTurns
  BY BoundsAssumption
<1>3. MirrorTypeOK'
  BY <1>1, <1>2 DEF MirrorTypeOK, Mirror!Mirrors
<1>4. \A t \in Mirror!Hosted : store[t] \in Nat /\ transcript[t] \in Nat /\ transcript'[t] \in Nat
  BY DEF MirrorTypeOK
<1>5. \A m \in mirrors : m.session \in Mirror!Hosted /\ m.got \in Nat
  BY DEF MirrorTypeOK, Mirror!Mirrors
<1>6. OneMirrorEach'
  BY <1>1, <1>5 DEF OneMirrorEach
<1>7. StoreIsBehind'
  <2>1. \A m \in mirrors : m.got <= transcript'[m.session]
    BY <1>4, <1>5 DEF StoreIsBehind
  <2>2. \A t \in Mirror!Hosted : store[t] <= transcript'[t]
    BY <1>4 DEF StoreIsBehind
  <2>. DEFINE new == [session |-> s, turn |-> turn, got |-> 0]
  <2>6. new.session = s /\ new.got = 0 /\ mirrors' = mirrors \cup {new}
    BY <1>1
  <2>. HIDE DEF new
  <2>3. \E m \in mirrors' : m.session = s
    BY <2>6
  <2>4. ASSUME NEW t \in Mirror!Hosted, t \notin doubtful', store[t] \notin {0, transcript'[t]}, t # s
        PROVE  \E m \in mirrors' : m.session = t
    BY <1>1, <2>4 DEF StoreIsBehind
  <2>5. \A m \in mirrors' : m \in mirrors \/ (m.got = 0 /\ m.session = s)
    BY <2>6
  <2>. QED  BY <1>4, <2>1, <2>2, <2>3, <2>4, <2>5 DEF StoreIsBehind
<1>. QED  BY <1>3, <1>6, <1>7 DEF MirrorInv

LEMMA MirrorPreserved ==
  ASSUME MirrorInv, [Mirror!Next]_(Mirror!vars)
  PROVE  MirrorInv'
<1>. USE DEF MirrorInv
<1>1. \A m \in mirrors : m.session \in Mirror!Hosted /\ m.got \in 0..MaxTurns
  BY DEF MirrorTypeOK, Mirror!Mirrors
<1>2. \A t \in Mirror!Hosted : store[t] \in 0..MaxTurns /\ transcript[t] \in 0..MaxTurns
  BY DEF MirrorTypeOK
<1>3. ASSUME NEW s \in Mirror!Hosted, Mirror!TurnEnds(s)
      PROVE  MirrorInv'
  <2>1. /\ transcript[s] < MaxTurns /\ transcript' = [transcript EXCEPT ![s] = transcript[s] + 1]
        /\ UNCHANGED <<store, up, pending, recovery>>
        /\ \/ up /\ Mirror!StartMirror(s, transcript[s] + 1)
           \/ /\ doubtful' = IF \/ store[s] > 0
                                \/ recovery \in {"running", "done", "failed"}
                                \/ \E m \in mirrors : m.session = s
                             THEN doubtful \cup {s} ELSE doubtful
              /\ mirrors' = mirrors
    BY <1>3, Zenon DEF Mirror!TurnEnds
  <2>2. /\ transcript' \in [Mirror!Hosted -> 0..MaxTurns] /\ transcript'[s] = transcript[s] + 1
        /\ \A t \in Mirror!Hosted : t # s => transcript'[t] = transcript[t]
        /\ transcript[s] + 1 \in 0..MaxTurns /\ transcript[s] <= transcript'[s]
    BY <1>2, <2>1, BoundsAssumption DEF MirrorTypeOK
  <2>3. CASE up /\ Mirror!StartMirror(s, transcript[s] + 1)
    BY <2>1, <2>2, <2>3, StartPreserved
  <2>4. CASE /\ doubtful' = IF \/ store[s] > 0
                               \/ recovery \in {"running", "done", "failed"}
                               \/ \E m \in mirrors : m.session = s
                            THEN doubtful \cup {s} ELSE doubtful
             /\ mirrors' = mirrors
    <3>1. /\ doubtful \subseteq doubtful' /\ doubtful' \subseteq doubtful \cup {s}
          /\ store[s] > 0 \/ (\E m \in mirrors : m.session = s) => s \in doubtful'
      BY <2>4
    <3>2. MirrorTypeOK'
      BY <2>1, <2>2, <2>4 DEF MirrorTypeOK
    <3>3. OneMirrorEach'
      BY <1>1, <2>1, <2>2, <2>4, <3>1 DEF OneMirrorEach
    <3>4. StoreIsBehind'
      BY <1>1, <1>2, <2>1, <2>2, <2>4, <3>1 DEF StoreIsBehind
    <3>. QED  BY <3>2, <3>3, <3>4
  <2>. QED  BY <2>1, <2>3, <2>4
<1>4. ASSUME NEW m \in mirrors, Mirror!Attach(m)
      PROVE  MirrorInv'
  <2>. DEFINE a == [m EXCEPT !.got = transcript[m.session]]
  <2>1. /\ mirrors' = (mirrors \ {m}) \cup {a}
        /\ UNCHANGED <<transcript, store, up, doubtful, pending, recovery>>
    BY <1>4 DEF Mirror!Attach
  <2>2. m \in Mirror!Mirrors
    BY DEF MirrorTypeOK
  <2>3. a \in Mirror!Mirrors /\ a.session = m.session /\ a.got = transcript[m.session]
    BY <1>1, <1>2, <2>2 DEF Mirror!Mirrors
  <2>. HIDE DEF a
  <2>4. MirrorTypeOK'
    BY <2>1, <2>3 DEF MirrorTypeOK
  <2>5. OneMirrorEach'
    BY <2>1, <2>3 DEF OneMirrorEach
  <2>6. StoreIsBehind'
    BY <1>1, <1>2, <2>1, <2>3 DEF StoreIsBehind
  <2>. QED  BY <2>4, <2>5, <2>6
<1>5. ASSUME NEW m \in mirrors, Mirror!MirrorFails(m)
      PROVE  MirrorInv'
  BY <1>1, <1>2, <1>5
  DEF Mirror!MirrorFails, MirrorTypeOK, OneMirrorEach, StoreIsBehind
<1>6. ASSUME NEW m \in mirrors, Mirror!Persist(m)
      PROVE  MirrorInv'
  <2>1. /\ m.got > 0 /\ store' = [store EXCEPT ![m.session] = m.got]
        /\ mirrors' = mirrors \ {m}
        /\ UNCHANGED <<transcript, up, doubtful, pending, recovery>>
    BY <1>6 DEF Mirror!Persist
  <2>2. /\ store' \in [Mirror!Hosted -> 0..MaxTurns] /\ store'[m.session] = m.got
        /\ \A t \in Mirror!Hosted : t # m.session => store'[t] = store[t]
    BY <1>1, <2>1 DEF MirrorTypeOK
  <2>3. MirrorTypeOK' /\ OneMirrorEach'
    BY <2>1, <2>2 DEF MirrorTypeOK, OneMirrorEach
  <2>4. StoreIsBehind'
    BY <1>1, <1>2, <2>1, <2>2 DEF StoreIsBehind, OneMirrorEach
  <2>. QED  BY <2>3, <2>4
<1>7. CASE Mirror!Crash
  BY <1>1, <1>2, <1>7 DEF Mirror!Crash, MirrorTypeOK, OneMirrorEach, StoreIsBehind
<1>8. CASE Mirror!Boot
  <2>1. mirrors = {} /\ mirrors' = {} /\ doubtful' = {s \in doubtful : store[s] > 0}
        /\ up' /\ UNCHANGED <<transcript, store, pending>>
    BY <1>8 DEF Mirror!Boot, OneMirrorEach
  <2>. QED  BY <1>1, <1>2, <2>1 DEF MirrorTypeOK, OneMirrorEach, StoreIsBehind
<1>9. CASE Mirror!List \/ Mirror!RecoverDone \/ UNCHANGED Mirror!vars
  <2>1. /\ UNCHANGED <<transcript, store, mirrors, up, doubtful>>
        /\ recovery = "off" => recovery' = "off"
    BY <1>9 DEF Mirror!List, Mirror!RecoverDone, Mirror!vars
  <2>2. pending' \subseteq Mirror!Hosted
    BY <1>9 DEF Mirror!List, Mirror!LastFew, Mirror!Orphans, Mirror!RecoverDone, Mirror!vars,
                MirrorTypeOK
  <2>. QED  BY <2>1, <2>2 DEF MirrorTypeOK, OneMirrorEach, StoreIsBehind
<1>10. CASE Mirror!RecoverNext
  <2>1. PICK s \in pending : Mirror!StartMirror(s, 0) /\ pending' = pending \ {s}
    BY <1>10 DEF Mirror!RecoverNext
  <2>2. s \in Mirror!Hosted /\ 0 \in 0..MaxTurns /\ transcript[s] <= transcript[s]
    BY <1>2, BoundsAssumption DEF MirrorTypeOK
  <2>3. recovery \in {"running", "failed"} /\ UNCHANGED <<transcript, store, up>>
    BY <1>10 DEF Mirror!RecoverNext
  <2>4. up
    BY <2>3 DEF OneMirrorEach
  <2>. QED  BY <2>1, <2>2, <2>3, <2>4, StartPreserved DEF MirrorTypeOK
<1>. QED
  BY <1>3, <1>4, <1>5, <1>6, <1>7, <1>8, <1>9, <1>10 DEF Mirror!Next, Mirror!Surface

LEMMA MirrorInvHolds == Mirror!Spec => []MirrorInv
  BY MirrorInit, MirrorPreserved, PTL DEF Mirror!Spec

\* A stored conversation never loses a turn, but where mirrors of it crossed or failed:
\* over every order in which turns end, mirrors are answered and written, the surface
\* stops and starts, and its recovery pass goes on.
THEOREM StoreNeverShrinks == Mirror!Spec => NeverShrinks
<1>1. ASSUME MirrorInv, [Mirror!Next]_(Mirror!vars)
      PROVE  [\A s \in Mirror!Hosted : store'[s] >= store[s] \/ s \in doubtful]_(Mirror!vars)
  <2>1. \A s \in Mirror!Hosted : store[s] \in Nat /\ transcript[s] \in Nat
    BY <1>1 DEF MirrorInv, MirrorTypeOK
  <2>2. CASE store' = store
    BY <2>1, <2>2
  <2>3. ASSUME NEW m \in mirrors, Mirror!Persist(m)
        PROVE  \A s \in Mirror!Hosted : store'[s] >= store[s] \/ s \in doubtful
    <3>1. m.got > 0 /\ store' = [store EXCEPT ![m.session] = m.got]
      BY <2>3 DEF Mirror!Persist
    <3>2. m.session \in Mirror!Hosted
      BY <1>1 DEF MirrorInv, MirrorTypeOK, Mirror!Mirrors
    <3>3. /\ m.session \notin doubtful => m.got \in {0, transcript[m.session]}
          /\ store[m.session] <= transcript[m.session]
      BY <1>1, <3>2 DEF MirrorInv, OneMirrorEach, StoreIsBehind
    <3>. QED  BY <1>1, <2>1, <3>1, <3>2, <3>3 DEF MirrorInv, MirrorTypeOK
  <2>4. ASSUME Mirror!Next, ~ \E m \in mirrors : Mirror!Persist(m)
        PROVE  store' = store
    BY <2>4
    DEF Mirror!Next, Mirror!Surface, Mirror!TurnEnds, Mirror!Attach, Mirror!MirrorFails,
        Mirror!Crash, Mirror!Boot, Mirror!List, Mirror!RecoverNext, Mirror!RecoverDone
  <2>. QED  BY <1>1, <2>2, <2>3, <2>4
<1>. QED  BY <1>1, MirrorInvHolds, PTL DEF Mirror!Spec, NeverShrinks, Mirror!NeverShrinks

\* The instance counts with an operator of its own, defined alike.
LEMMA CardinalityIsCardinality == \A S : Mirror!Cardinality(S) = Cardinality(S)
  BY DEF Mirror!Cardinality, Cardinality

LEMMA SessionsAreFinite ==
  \A S \in SUBSET Mirror!Hosted : IsFiniteSet(S) /\ Cardinality(S) \in Nat
<1>1. IsFiniteSet(Mirror!Hosted)
  BY BoundsAssumption, FS_Interval DEF Mirror!Hosted
<1>. QED  BY <1>1, FS_Subset, FS_CardinalityType

\* Sessions left out of a list have one that is the latest: finite sets are well ordered
\* by inclusion, so one of the sets of what comes after has none inside it.
LEMMA LatestLeftOut ==
  ASSUME NEW listed \in SUBSET Mirror!Hosted, NEW left \in SUBSET listed, left # {}
  PROVE  \E u \in left : \A d \in left : d <= u
<1>. DEFINE After(s) == {t \in listed : t > s}
            T        == {After(s) : s \in left}
<1>1. IsFiniteSet(Mirror!Hosted) /\ \A s \in Mirror!Hosted : s \in Int
  BY BoundsAssumption, FS_Interval DEF Mirror!Hosted
<1>2. IsWellFoundedOn(StrictSubsetOrdering(Mirror!Hosted), SUBSET Mirror!Hosted)
  BY <1>1, FS_StrictSubsetOrderingWellFounded, FS_FiniteSubsetsOfFinite
<1>3. T \subseteq SUBSET Mirror!Hosted /\ T # {}
  OBVIOUS
<1>4. PICK x \in T : \A y \in T : ~ (<<y, x>> \in StrictSubsetOrdering(Mirror!Hosted))
  BY <1>2, <1>3, WFMin
<1>5. PICK u \in left : x = After(u)
  BY <1>4
<1>6. ASSUME NEW d \in left, d > u
      PROVE  FALSE
  <2>1. After(d) \subseteq After(u) /\ d \in After(u) /\ d \notin After(d)
    BY <1>1, <1>6
  <2>2. <<After(d), After(u)>> \in StrictSubsetOrdering(Mirror!Hosted)
    BY <1>3, <1>4, <1>5, <2>1 DEF StrictSubsetOrdering
  <2>. QED  BY <1>4, <1>5, <2>2
<1>. QED  BY <1>1, <1>6

\* What was brought stays, and counts for no less.
LEMMA MoreBrought ==
  ASSUME NEW S \in SUBSET Mirror!Hosted, NEW T \in SUBSET S, Cardinality(T) >= MaxRecovered
  PROVE  Cardinality(S) >= MaxRecovered
<1>1. IsFiniteSet(S) /\ Cardinality(S) \in Nat /\ Cardinality(T) \in Nat
  BY SessionsAreFinite
<1>2. Cardinality(T) <= Cardinality(S)
  BY <1>1, FS_Subset
<1>. QED  BY <1>1, <1>2, BoundsAssumption

\* The pass takes the latest of those the store lacks: one it leaves out has enough after it.
LEMMA ListBrings ==
  ASSUME NEW listed \in SUBSET Mirror!Hosted, NEW s \in listed \ Mirror!LastFew(listed)
  PROVE  Cardinality({t \in Mirror!LastFew(listed) : t > s}) >= MaxRecovered
<1>. DEFINE few == Mirror!LastFew(listed)
<1>1. PICK u \in listed \ few : \A d \in listed \ few : d <= u
  BY LatestLeftOut
<1>2. \A t \in Mirror!Hosted : t \in Int
  BY BoundsAssumption DEF Mirror!Hosted
<1>3. Cardinality({t \in listed : t > u}) \in Nat
  BY SessionsAreFinite
<1>4. Cardinality({t \in listed : t > u}) >= MaxRecovered
  <2>1. ~(Cardinality({t \in listed : t > u}) < MaxRecovered)
    <3>1. few = {d \in listed : Cardinality({t \in listed : t > d}) < MaxRecovered}
      BY CardinalityIsCardinality DEF Mirror!LastFew
    <3>2. u \in listed /\ u \notin few
      BY <1>1
    <3>. HIDE DEF few
    <3>. QED  BY <3>1, <3>2, Zenon
  <2>. QED  BY <1>3, <2>1, BoundsAssumption
<1>5. {t \in listed : t > u} \subseteq {t \in few : t > s}
  BY <1>1, <1>2
<1>6. {t \in few : t > s} \subseteq Mirror!Hosted
  BY DEF Mirror!LastFew
<1>. QED  BY <1>4, <1>5, <1>6, MoreBrought

LEMMA PassPreserved ==
  ASSUME MirrorInv, PassBrings, [Mirror!Next]_(Mirror!vars)
  PROVE  PassBrings'
<1>1. \A m \in mirrors : m \in Mirror!Mirrors /\ m.session \in Mirror!Hosted
  BY DEF MirrorInv, MirrorTypeOK, Mirror!Mirrors
<1>2. \A t \in Mirror!Hosted : store[t] \in Nat /\ transcript[t] \in Nat
  BY DEF MirrorInv, MirrorTypeOK
<1>3. \A s : Brought(s) \in SUBSET Mirror!Hosted /\ Brought(s)' \in SUBSET Mirror!Hosted
  BY DEF Brought
<1>. DEFINE Missing(s) == transcript[s] > 0 /\ store[s] = 0 /\ s \notin doubtful
            Coming(s)  == s \in pending \/ \E m \in mirrors : m.session = s
\* It is enough that the pass goes on as it was, that what was brought stays, and that
\* whatever is missing was, and is on its way if it was.
<1>4. ASSUME recovery' \in {"running", "done"} => recovery \in {"running", "done"},
             recovery' \in {"running", "done"} =>
               \A s \in Mirror!Hosted :
                 /\ Brought(s) \subseteq Brought(s)'
                 /\ Missing(s)' => Coming(s)' \/ (Missing(s) /\ ~Coming(s))
      PROVE  PassBrings'
  <2>. SUFFICES ASSUME recovery' \in {"running", "done"}, NEW s \in Mirror!Hosted, Missing(s)',
                       ~Coming(s)'
                PROVE  Cardinality(Brought(s)') >= MaxRecovered
    BY DEF PassBrings
  <2>1. Missing(s) /\ ~Coming(s) /\ Brought(s) \subseteq Brought(s)'
    BY <1>4
  <2>2. Cardinality(Brought(s)) >= MaxRecovered
    BY <1>4, <2>1 DEF PassBrings
  <2>. QED  BY <1>3, <2>1, <2>2, MoreBrought
<1>5. ASSUME NEW s \in Mirror!Hosted, Mirror!TurnEnds(s)
      PROVE  PassBrings'
  <2>1. /\ transcript' = [transcript EXCEPT ![s] = transcript[s] + 1]
        /\ mirrors \subseteq mirrors' /\ doubtful \subseteq doubtful'
        /\ UNCHANGED <<store, recovery, pending>>
        /\ \/ \E m \in mirrors' : m.session = s
           \/ recovery \in {"running", "done", "failed"} => s \in doubtful'
    <3>1. CASE up /\ Mirror!StartMirror(s, transcript[s] + 1)
      <4>. DEFINE new == [session |-> s, turn |-> transcript[s] + 1, got |-> 0]
      <4>1. /\ mirrors' = mirrors \cup {new} /\ new.session = s
            /\ doubtful \subseteq doubtful'
        BY <3>1 DEF Mirror!StartMirror
      <4>. HIDE DEF new
      <4>2. /\ transcript' = [transcript EXCEPT ![s] = transcript[s] + 1]
            /\ UNCHANGED <<store, recovery, pending>>
        BY <1>5, Zenon DEF Mirror!TurnEnds
      <4>. QED  BY <4>1, <4>2
    <3>2. CASE ~(up /\ Mirror!StartMirror(s, transcript[s] + 1))
      <4>1. /\ transcript' = [transcript EXCEPT ![s] = transcript[s] + 1]
            /\ UNCHANGED <<store, recovery, pending>>
            /\ doubtful' = IF \/ store[s] > 0
                              \/ recovery \in {"running", "done", "failed"}
                              \/ \E m \in mirrors : m.session = s
                           THEN doubtful \cup {s} ELSE doubtful
            /\ mirrors' = mirrors
        BY <1>5, <3>2, Zenon DEF Mirror!TurnEnds
      <4>. QED  BY <4>1
    <3>. QED  BY <3>1, <3>2
  <2>2. \A t \in Mirror!Hosted : t # s => transcript'[t] = transcript[t]
    BY <2>1 DEF MirrorInv, MirrorTypeOK
  <2>3. \A t \in Mirror!Hosted : Brought(t) \subseteq Brought(t)'
    BY <2>1 DEF Brought
  <2>. QED  BY <1>4, <2>1, <2>2, <2>3
<1>6. ASSUME NEW m \in mirrors, Mirror!Attach(m)
      PROVE  PassBrings'
  <2>. DEFINE a == [m EXCEPT !.got = transcript[m.session]]
  <2>1. /\ mirrors' = (mirrors \ {m}) \cup {a}
        /\ UNCHANGED <<transcript, store, recovery, pending, doubtful>>
    BY <1>6 DEF Mirror!Attach
  <2>2. a.session = m.session /\ a.turn = m.turn
    BY <1>1 DEF Mirror!Mirrors
  <2>. HIDE DEF a
  <2>3. \A s \in Mirror!Hosted : Brought(s) \subseteq Brought(s)'
    BY <2>1, <2>2 DEF Brought
  <2>. QED  BY <1>4, <2>1, <2>2, <2>3
<1>7. ASSUME NEW m \in mirrors, Mirror!MirrorFails(m)
      PROVE  PassBrings'
  <2>1. /\ mirrors' = mirrors \ {m} /\ doubtful' = doubtful \cup {m.session}
        /\ recovery' = IF m.turn = 0 THEN "failed" ELSE recovery
        /\ UNCHANGED <<transcript, store, pending>>
    BY <1>7 DEF Mirror!MirrorFails
  <2>2. recovery' \in {"running", "done"} =>
          \A s \in Mirror!Hosted : Brought(s) \subseteq Brought(s)'
    BY <2>1 DEF Brought
  <2>. QED  BY <1>4, <2>1, <2>2
<1>8. ASSUME NEW m \in mirrors, Mirror!Persist(m)
      PROVE  PassBrings'
  <2>1. /\ m.got > 0 /\ store' = [store EXCEPT ![m.session] = m.got]
        /\ mirrors' = mirrors \ {m}
        /\ UNCHANGED <<transcript, doubtful, pending, recovery>>
    BY <1>8 DEF Mirror!Persist
  <2>2. /\ store'[m.session] = m.got
        /\ \A t \in Mirror!Hosted : t # m.session => store'[t] = store[t]
        /\ m.got \in Nat
    BY <1>1, <2>1 DEF MirrorInv, MirrorTypeOK, Mirror!Mirrors
  <2>3. \A s \in Mirror!Hosted : Brought(s) \subseteq Brought(s)'
    BY <2>1, <2>2 DEF Brought
  <2>. QED  BY <1>4, <2>1, <2>2, <2>3
<1>9. CASE Mirror!Crash \/ Mirror!Boot
  BY <1>9 DEF Mirror!Crash, Mirror!Boot, PassBrings
<1>10. CASE Mirror!List
  <2>1. \/ recovery' = "failed"
        \/ /\ pending' = Mirror!LastFew(Mirror!Orphans)
           /\ UNCHANGED <<transcript, store, doubtful>>
    BY <1>10 DEF Mirror!List
  <2>2. ASSUME pending' = Mirror!LastFew(Mirror!Orphans),
               UNCHANGED <<transcript, store, doubtful>>,
               NEW s \in Mirror!Hosted, Missing(s)', ~Coming(s)'
        PROVE  Cardinality(Brought(s)') >= MaxRecovered
    <3>1. Mirror!Orphans \in SUBSET Mirror!Hosted /\ s \in Mirror!Orphans
      BY <2>2 DEF Mirror!Orphans
    <3>2. Cardinality({t \in Mirror!LastFew(Mirror!Orphans) : t > s}) >= MaxRecovered
      BY <2>2, <3>1, ListBrings
    <3>3. {t \in Mirror!LastFew(Mirror!Orphans) : t > s} \subseteq Brought(s)'
      BY <2>2, <3>1 DEF Brought, Mirror!LastFew
    <3>. QED  BY <1>3, <3>2, <3>3, MoreBrought
  <2>. QED  BY <2>1, <2>2 DEF PassBrings
<1>11. CASE Mirror!RecoverNext
  <2>1. PICK s \in pending : Mirror!StartMirror(s, 0) /\ pending' = pending \ {s}
    BY <1>11 DEF Mirror!RecoverNext
  <2>. DEFINE new == [session |-> s, turn |-> 0, got |-> 0]
  <2>2. /\ mirrors' = mirrors \cup {new} /\ new.session = s /\ new.turn = 0
        /\ doubtful \subseteq doubtful'
    BY <2>1 DEF Mirror!StartMirror
  <2>. HIDE DEF new
  <2>3. UNCHANGED <<transcript, store, recovery>>
    BY <1>11 DEF Mirror!RecoverNext
  <2>4. \A t \in Mirror!Hosted : Brought(t) \subseteq Brought(t)'
    BY <2>1, <2>2, <2>3 DEF Brought
  <2>. QED  BY <1>4, <2>1, <2>2, <2>3, <2>4
<1>12. CASE Mirror!RecoverDone \/ UNCHANGED Mirror!vars
  <2>1. /\ UNCHANGED <<transcript, store, mirrors, pending, doubtful>>
        /\ recovery' \in {"running", "done"} => recovery \in {"running", "done"}
    BY <1>12 DEF Mirror!RecoverDone, Mirror!vars
  <2>2. \A t \in Mirror!Hosted : Brought(t) \subseteq Brought(t)'
    BY <2>1 DEF Brought
  <2>. QED  BY <1>4, <2>1, <2>2
<1>. QED
  BY <1>5, <1>6, <1>7, <1>8, <1>9, <1>10, <1>11, <1>12 DEF Mirror!Next, Mirror!Surface

\* Once a pass is over and quiet, what is missing here is older than as many as the pass
\* brings, and what is home is whole; unless its mirrors crossed or failed, or the daemon
\* went on with a conversation the store already knew.
THEOREM TranscriptComesHome == Mirror!Spec => []TranscriptIsHome
<1>1. Mirror!Init => PassBrings
  BY DEF Mirror!Init, PassBrings
<1>2. MirrorInv /\ PassBrings => TranscriptIsHome
  <2>. SUFFICES ASSUME MirrorInv, PassBrings, Mirror!Quiet, NEW s \in Mirror!Hosted
                PROVE  /\ \/ transcript[s] = 0 \/ store[s] > 0 \/ s \in doubtful
                          \/ Mirror!Cardinality({t \in Mirror!Hosted : t > s /\ store[t] > 0})
                               >= MaxRecovered
                       /\ store[s] \in {0, transcript[s]} \/ s \in doubtful
    BY DEF TranscriptIsHome, Mirror!Recovered, Mirror!HomeIsWhole
  <2>1. mirrors = {} /\ pending = {} /\ recovery = "done"
    BY DEF Mirror!Quiet
  <2>2. Brought(s) = {t \in Mirror!Hosted : t > s /\ store[t] > 0}
    BY <2>1 DEF Brought
  <2>3. store[s] \in Nat /\ transcript[s] \in Nat
    BY DEF MirrorInv, MirrorTypeOK
  <2>4. \/ transcript[s] = 0 \/ store[s] > 0 \/ s \in doubtful
        \/ Cardinality(Brought(s)) >= MaxRecovered
    BY <2>1, <2>3 DEF PassBrings
  <2>5. store[s] \in {0, transcript[s]} \/ s \in doubtful
    BY <2>1 DEF MirrorInv, StoreIsBehind
  <2>. QED  BY <2>2, <2>4, <2>5, CardinalityIsCardinality
<1>. QED  BY <1>1, <1>2, MirrorInvHolds, PassPreserved, PTL DEF Mirror!Spec

LEMMA ApplyInit == Apply!Init => ApplyInv
<1>. SUFFICES ASSUME Apply!Init PROVE ApplyInv
  OBVIOUS
<1>1. Apply!TypeOK
  <2>1. {{}, {0}} \subseteq Apply!Marks
    BY BoundsAssumption DEF Apply!Marks
  <2>2. world \in [Places -> Apply!Marks] /\ before \in [Places -> Apply!Marks]
    BY <2>1 DEF Apply!Init
  <2>. QED  BY <2>2, BoundsAssumption DEF Apply!Init, Apply!TypeOK, Apply!Phases
<1>. QED
  BY <1>1
  DEF Apply!Init, ApplyInv, ApplyStages, KeepsCount, UndoneInPlace, BeforeIsKnown, NoneBefore,
      OthersOutlast, Apply!AppliedIsInForce

LEMMA ApplyPreserved ==
  ASSUME ApplyInv, [Apply!Next]_(Apply!vars)
  PROVE  ApplyInv'
<1>. USE DEF ApplyInv
<1>1. /\ rollbacks \in Seq(Undos)
      /\ DOMAIN rollbacks = 1..Len(rollbacks) /\ Len(rollbacks) \in Nat
      /\ \A k \in DOMAIN rollbacks :
           rollbacks[k].place \in Places /\ rollbacks[k].content \in Apply!Marks
  <2>1. /\ rollbacks \in Seq(Undos)
        /\ DOMAIN rollbacks = 1..Len(rollbacks) /\ Len(rollbacks) \in Nat
    BY DEF Apply!TypeOK, Undos
  <2>2. \A k \in DOMAIN rollbacks : rollbacks[k] \in Undos
    BY <2>1
  <2>. QED  BY <2>1, <2>2 DEF Undos
<1>2. CASE Apply!Check \/ Apply!ApplyThrows \/ Apply!Verify
  <2>1. /\ UNCHANGED <<kindOf, placeOf, before, world, done, rollbacks, reported, foreign, stuck>>
        /\ \/ phase = "checking" /\ phase' = "failed"
           \/ /\ phase = "checking" /\ phase' = "building"
              /\ \A i \in Apply!Operations : kindOf[i] = "make" => world[placeOf[i]] = {}
           \/ phase \in {"applying", "building"} /\ phase' = "undoing"
           \/ /\ phase = "building" /\ phase' = "ok" /\ done = NumOperations
              /\ \A i \in Apply!Operations : i \in world[placeOf[i]]
    BY <1>2 DEF Apply!Check, Apply!ApplyThrows, Apply!Verify, Apply!request
  <2>2. Apply!TypeOK' /\ KeepsCount' /\ UndoneInPlace' /\ OthersOutlast'
    BY <2>1 DEF Apply!TypeOK, Apply!Phases, KeepsCount, ApplyStages, UndoneInPlace, OthersOutlast
  <2>3. Apply!AppliedIsInForce'
    BY <2>1 DEF Apply!AppliedIsInForce, KeepsCount, ApplyStages, Apply!Operations
  <2>4. BeforeIsKnown'
    BY <2>1 DEF BeforeIsKnown, NoneBefore, KeepsCount, ApplyStages, Apply!TypeOK
  <2>. QED  BY <2>2, <2>3, <2>4
<1>3. CASE Apply!Build
  <2>. DEFINE entry == Apply!Undo(done + 1)
  <2>1. /\ phase = "building" /\ done < NumOperations
        /\ UNCHANGED <<kindOf, placeOf, before, world, done, reported, foreign, stuck>>
        /\ \/ rollbacks' = Append(rollbacks, entry) /\ phase' = "applying"
           \/ rollbacks' = rollbacks /\ phase' = "undoing"
    BY <1>3 DEF Apply!Build, Apply!request, Apply!Current
  <2>2. done + 1 \in Apply!Operations /\ placeOf[done + 1] \in Places
    BY <2>1, BoundsAssumption DEF Apply!TypeOK, Apply!Operations
  <2>3. /\ entry.place = placeOf[done + 1]
        /\ entry.content = IF kindOf[done + 1] = "make" THEN {} ELSE world[placeOf[done + 1]]
        /\ entry \in Undos
    BY <2>2 DEF Apply!Undo, Apply!TypeOK, Apply!Marks, Undos
  <2>. HIDE DEF entry
  <2>4. CASE rollbacks' = rollbacks /\ phase' = "undoing"
    BY <2>1, <2>4
    DEF Apply!TypeOK, Apply!Phases, KeepsCount, ApplyStages, UndoneInPlace, OthersOutlast,
        Apply!AppliedIsInForce, BeforeIsKnown, NoneBefore
  <2>5. CASE rollbacks' = Append(rollbacks, entry) /\ phase' = "applying"
    <3>1. /\ rollbacks' \in Seq(Undos)
          /\ DOMAIN rollbacks' = 1..Len(rollbacks) + 1
          /\ \A k \in DOMAIN rollbacks : rollbacks'[k] = rollbacks[k]
          /\ rollbacks'[Len(rollbacks) + 1] = entry
      BY <1>1, <2>3, <2>5
    <3>2. Apply!TypeOK'
      BY <2>1, <2>5, <3>1 DEF Apply!TypeOK, Apply!Phases, Undos
    <3>3. KeepsCount' /\ OthersOutlast' /\ Apply!AppliedIsInForce'
      BY <1>1, <2>1, <2>3, <2>5, <3>1
      DEF KeepsCount, ApplyStages, OthersOutlast, Apply!AppliedIsInForce
    <3>4. UndoneInPlace'
      BY <1>1, <2>1, <2>2, <2>3, <3>1 DEF UndoneInPlace, Apply!TypeOK
    <3>5. BeforeIsKnown'
      <4>1. ASSUME NEW p \in Places \ (foreign \cup stuck),
                   \A k \in DOMAIN rollbacks' : rollbacks'[k].place # p
            PROVE  world[p] = before[p]
        BY <1>1, <3>1, <4>1 DEF BeforeIsKnown
      <4>2. ASSUME NEW k \in DOMAIN rollbacks', rollbacks'[k].place \notin foreign \cup stuck,
                   \A j \in DOMAIN rollbacks' : j < k => rollbacks'[j].place # rollbacks'[k].place
            PROVE  rollbacks'[k].content = before[rollbacks'[k].place]
        <5>1. CASE k \in DOMAIN rollbacks
          BY <1>1, <3>1, <4>2, <5>1 DEF BeforeIsKnown, NoneBefore
        <5>2. CASE k = Len(rollbacks) + 1
          <6>1. \A j \in DOMAIN rollbacks : rollbacks[j].place # entry.place
            BY <1>1, <3>1, <4>2, <5>2
          <6>2. world[entry.place] = before[entry.place]
            BY <2>2, <2>3, <3>1, <4>2, <5>2, <6>1 DEF BeforeIsKnown
          <6>3. kindOf[done + 1] = "make" => before[entry.place] = {}
            BY <2>1, <2>2, <2>3, <3>1, <4>2, <5>2 DEF BeforeIsKnown, ApplyStages
          <6>. QED  BY <2>3, <3>1, <5>2, <6>2, <6>3
        <5>. QED  BY <1>1, <3>1, <5>1, <5>2
      <4>3. \A i \in Apply!Operations :
              kindOf[i] = "make" => before[placeOf[i]] = {} \/ placeOf[i] \in foreign
        BY <2>1 DEF BeforeIsKnown, ApplyStages
      <4>. QED  BY <2>1, <4>1, <4>2, <4>3 DEF BeforeIsKnown, NoneBefore
    <3>. QED  BY <3>2, <3>3, <3>4, <3>5
  <2>. QED  BY <2>1, <2>4, <2>5
<1>4. CASE Apply!Apply
  <2>. DEFINE p == placeOf[done + 1]
  <2>1. /\ phase = "applying" /\ world' = [world EXCEPT ![p] = Apply!Mark(done + 1)]
        /\ UNCHANGED <<kindOf, placeOf, before, rollbacks, foreign, stuck>>
        /\ \/ done' = done + 1 /\ reported' = reported \cup {done + 1} /\ phase' = "building"
           \/ done' = done /\ reported' = reported /\ phase' = "undoing"
    BY <1>4 DEF Apply!Apply, Apply!request, Apply!Current, Apply!Here
  <2>2. /\ done < NumOperations /\ done \in Nat
        /\ \E k \in DOMAIN rollbacks : rollbacks[k].place = p
    BY <2>1, BoundsAssumption DEF KeepsCount, Apply!TypeOK
  <2>3. done + 1 \in Apply!Operations /\ p \in Places
    BY <2>2, BoundsAssumption DEF Apply!TypeOK, Apply!Operations
  <2>4. Apply!Mark(done + 1) \in Apply!Marks
    BY <2>2, <2>3, BoundsAssumption DEF Apply!Mark, Apply!Marks, Apply!TypeOK
  <2>. HIDE DEF p
  <2>5. world' \in [Places -> Apply!Marks] /\ \A q \in Places \ {p} : world'[q] = world[q]
    BY <2>1, <2>3, <2>4 DEF Apply!TypeOK
  <2>6. Apply!TypeOK'
    <3>1. done' \in 0..NumOperations
      BY <2>1, <2>2, BoundsAssumption DEF Apply!TypeOK
    <3>2. reported' \subseteq Apply!Operations
      BY <2>1, <2>3 DEF Apply!TypeOK
    <3>3. phase' \in Apply!Phases
      BY <2>1 DEF Apply!Phases
    <3>. QED  BY <2>1, <2>5, <3>1, <3>2, <3>3 DEF Apply!TypeOK
  <2>7. KeepsCount' /\ Apply!AppliedIsInForce'
    <3>1. reported = 1..done
      BY <2>1 DEF KeepsCount, ApplyStages
    <3>2. phase' = "building" => reported' = 1..done'
      <4>1. (1..done) \cup {done + 1} = 1..(done + 1)
        BY <2>2
      <4>. QED  BY <2>1, <3>1, <4>1
    <3>. QED  BY <2>1, <3>2 DEF KeepsCount, ApplyStages, Apply!AppliedIsInForce
  <2>8. UndoneInPlace'
    BY <2>1, <2>2 DEF UndoneInPlace, Apply!Operations
  <2>9. BeforeIsKnown'
    BY <2>1, <2>2, <2>5 DEF BeforeIsKnown, NoneBefore, ApplyStages
  <2>10. OthersOutlast'
    <3>1. \A i \in Apply!Operations : i <= done + 1 => i <= done' + 1
      BY <2>1, <2>2 DEF Apply!Operations
    <3>2. foreign \subseteq Places
      BY DEF Apply!TypeOK
    <3>. QED  BY <2>1, <2>3, <2>5, <3>1, <3>2 DEF OthersOutlast, p, Apply!Operations
  <2>. QED  BY <2>6, <2>7, <2>8, <2>9, <2>10
<1>5. CASE Apply!RollBack
  <2>. DEFINE n == Len(rollbacks)
              entry == rollbacks[n]
  <2>1. /\ phase = "undoing" /\ rollbacks # <<>>
        /\ rollbacks' = SubSeq(rollbacks, 1, n - 1)
        /\ UNCHANGED <<kindOf, placeOf, before, phase, done, reported, foreign>>
        /\ \/ world' = [world EXCEPT ![entry.place] = entry.content] /\ stuck' = stuck
           \/ stuck' = stuck \cup {entry.place} /\ world' = world
    BY <1>5 DEF Apply!RollBack, Apply!Restore, Apply!request
  <2>2. n \in DOMAIN rollbacks /\ n \in Nat \ {0} /\ DOMAIN rollbacks = 1..n
    BY <1>1, <2>1
  <2>3. entry.place \in Places /\ entry.content \in Apply!Marks
    BY <1>1, <2>2
  <2>4. /\ rollbacks' \in Seq(Undos)
        /\ DOMAIN rollbacks' = 1..(n - 1)
        /\ \A k \in DOMAIN rollbacks' : k \in DOMAIN rollbacks /\ rollbacks'[k] = rollbacks[k]
    BY <1>1, <2>1, <2>2
  <2>5. /\ \A k \in DOMAIN rollbacks : k \in DOMAIN rollbacks' \/ k = n
        /\ \A k \in DOMAIN rollbacks' : k < n
    BY <2>2, <2>4
  <2>. HIDE DEF n
  <2>6. /\ \A p \in Places : p # entry.place => world'[p] = world[p]
        /\ world' \in [Places -> Apply!Marks] /\ stuck \subseteq stuck'
        /\ entry.place \notin stuck' => world'[entry.place] = entry.content
    BY <2>1, <2>3 DEF Apply!TypeOK
  <2>7. Apply!TypeOK'
    BY <2>1, <2>3, <2>4, <2>6 DEF Apply!TypeOK, Undos
  <2>8. KeepsCount' /\ Apply!AppliedIsInForce'
    BY <2>1 DEF KeepsCount, ApplyStages, Apply!AppliedIsInForce
  <2>9. UndoneInPlace'
    BY <2>1, <2>4 DEF UndoneInPlace
  <2>10. BeforeIsKnown'
    <3>1. ASSUME NEW p \in Places \ (foreign \cup stuck'),
                 \A k \in DOMAIN rollbacks' : rollbacks'[k].place # p
          PROVE  world'[p] = before[p]
      <4>1. CASE entry.place = p
        <5>1. NoneBefore(n)
          BY <2>2, <2>4, <2>5, <3>1, <4>1 DEF NoneBefore
        <5>. QED  BY <2>2, <2>6, <3>1, <4>1, <5>1 DEF BeforeIsKnown
      <4>2. CASE entry.place # p
        BY <2>4, <2>5, <2>6, <3>1, <4>2 DEF BeforeIsKnown
      <4>. QED  BY <4>1, <4>2
    <3>2. ASSUME NEW k \in DOMAIN rollbacks', rollbacks'[k].place \notin foreign \cup stuck',
                 \A j \in DOMAIN rollbacks' : j < k => rollbacks'[j].place # rollbacks'[k].place
          PROVE  rollbacks'[k].content = before[rollbacks'[k].place]
      <4>1. NoneBefore(k)
        BY <1>1, <2>2, <2>4, <2>5, <3>2 DEF NoneBefore
      <4>. QED  BY <2>4, <2>6, <3>2, <4>1 DEF BeforeIsKnown
    <3>. QED  BY <2>1, <3>1, <3>2 DEF BeforeIsKnown, NoneBefore, ApplyStages
  <2>11. OthersOutlast'
    <3>1. \E i \in Apply!Operations : i <= done + 1 /\ entry.place = placeOf[i]
      BY <2>2 DEF UndoneInPlace
    <3>. QED  BY <2>1, <2>6, <3>1 DEF OthersOutlast, Apply!TypeOK
  <2>. QED  BY <2>7, <2>8, <2>9, <2>10, <2>11
<1>6. CASE Apply!Fail
  BY <1>6
  DEF Apply!Fail, Apply!request, Apply!TypeOK, Apply!Phases, KeepsCount, ApplyStages,
      UndoneInPlace, OthersOutlast, Apply!AppliedIsInForce, BeforeIsKnown, NoneBefore
<1>7. ASSUME NEW p \in Places, Apply!Interfere(p)
      PROVE  ApplyInv'
  <2>1. /\ phase \notin {"ok", "failed"} /\ foreign' = foreign \cup {p}
        /\ world' = [world EXCEPT ![p] = world[p] \cup {0}]
        /\ UNCHANGED <<kindOf, placeOf, before, phase, done, rollbacks, reported, stuck>>
    BY <1>7 DEF Apply!Interfere, Apply!request, Apply!Phases
  <2>2. world[p] \cup {0} \in Apply!Marks
    BY BoundsAssumption DEF Apply!TypeOK, Apply!Marks
  <2>3. /\ \A q \in Places : q # p => world'[q] = world[q]
        /\ world' \in [Places -> Apply!Marks] /\ 0 \in world'[p]
    BY <2>1, <2>2 DEF Apply!TypeOK
  <2>4. Apply!TypeOK' /\ KeepsCount' /\ UndoneInPlace' /\ Apply!AppliedIsInForce'
    BY <2>1, <2>3
    DEF Apply!TypeOK, KeepsCount, UndoneInPlace, Apply!AppliedIsInForce
  <2>5. BeforeIsKnown' /\ OthersOutlast'
    BY <2>1, <2>3 DEF BeforeIsKnown, NoneBefore, OthersOutlast, Apply!TypeOK
  <2>. QED  BY <2>4, <2>5
<1>8. CASE UNCHANGED Apply!vars
  BY <1>8
  DEF Apply!vars, Apply!request, Apply!TypeOK, KeepsCount, UndoneInPlace, OthersOutlast,
      Apply!AppliedIsInForce, BeforeIsKnown, NoneBefore
<1>. QED
  BY <1>2, <1>3, <1>4, <1>5, <1>6, <1>7, <1>8 DEF Apply!Next, Apply!Proceed

\* A failed request leaves no trace, one that succeeded is in force whole, and what others
\* put down survives outside the places it came to: wherever an operation throws, whatever
\* others change meanwhile, and whichever rollbacks fail.
THEOREM AppliedAsAWholeHolds == Apply!Spec => []AppliedAsAWhole
<1>1. ApplyInv => AppliedAsAWhole
  BY DEF ApplyInv, KeepsCount, BeforeIsKnown, OthersOutlast, AppliedAsAWhole,
         Apply!FailedLeavesNoTrace, Apply!OthersAreKept
<1>. QED  BY <1>1, ApplyInit, ApplyPreserved, PTL DEF Apply!Spec
=============================================================================
