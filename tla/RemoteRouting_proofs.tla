------------------------ MODULE RemoteRouting_proofs ------------------------
(***************************************************************************)
(* When no reply is lost, a message runs once whatever the interleaving of *)
(* submissions, and routing implements TurnPlacement: the stage a          *)
(* submission is at tells where it ran.  When besides submissions take     *)
(* their turns, one conversation has one live session and one stream: a    *)
(* submission on its way tells of the binding and of what is watched.      *)
(***************************************************************************)
EXTENDS RemoteRouting, TLAPS

\* The stage of a submission and the two machines agree.
StageTellsPlace ==
    \A m \in Messages :
      /\ m \in here <=> pc[m] = "local"
      /\ ran[m] # NoSession <=> pc[m] \in {"accepted", "routed"}

RoutingInv == TypeOK /\ StageTellsPlace

LEMMA InitInv == Init => RoutingInv
  BY DEF Init, RoutingInv, TypeOK, StageTellsPlace, Stages, Settled

\* Running a message here keeps the types of what it touches.
LEMMA RunHereType ==
  ASSUME TypeOK, NEW m \in Messages, RunHere(m)
  PROVE  /\ here' \subseteq Messages
         /\ pc' \in [Messages -> Stages]
  BY DEF TypeOK, RunHere, Goto, Stages, Settled

\* Closing the held stream keeps the types of the streams.
LEMMA StopWatchingType ==
  ASSUME TypeOK, StopWatching
  PROVE  streams' \subseteq Messages /\ held' \in Messages \cup {NoWatch}
  BY DEF TypeOK, StopWatching

\* Every variable keeps its type.
LEMMA TypePreserved ==
  ASSUME TypeOK, [Next]_vars
  PROVE  TypeOK'
<1>1. ASSUME NEW m \in Messages, RefuseUpFront(m)
      PROVE  TypeOK'
  BY <1>1, RunHereType DEF RefuseUpFront, TypeOK, daemonVars, routerVars
<1>2. ASSUME NEW m \in Messages, SubmitFirst(m)
      PROVE  TypeOK'
  BY <1>2 DEF SubmitFirst, Submitted, TypeOK, Goto, Stages, daemonVars, routerVars
<1>3. ASSUME NEW m \in Messages, SubmitNext(m)
      PROVE  TypeOK'
  BY <1>3, StopWatchingType DEF SubmitNext, Submitted, Watch, TypeOK, Goto, Stages, daemonVars
<1>4. ASSUME NEW m \in Messages, CreateSession(m)
      PROVE  TypeOK'
  BY <1>4 DEF CreateSession, TypeOK, Goto, Stages, routerVars
<1>5. ASSUME NEW m \in Messages, CreateFails(m)
      PROVE  TypeOK'
  BY <1>5, RunHereType DEF CreateFails, TypeOK, daemonVars, routerVars
<1>6. ASSUME NEW m \in Messages, CreateLands(m)
      PROVE  TypeOK'
  BY <1>6, StopWatchingType
  DEF CreateLands, Binds, Watch, TypeOK, Goto, Stages, daemonVars
<1>7. ASSUME NEW m \in Messages, OpenLands(m)
      PROVE  TypeOK'
  BY <1>7 DEF OpenLands, TypeOK, Goto, Stages, daemonVars
<1>8. ASSUME NEW m \in Messages, OpenFails(m)
      PROVE  TypeOK'
  BY <1>8, RunHereType, StopWatchingType DEF OpenFails, TypeOK, daemonVars
<1>9. ASSUME NEW m \in Messages, AcceptSteer(m)
      PROVE  TypeOK'
  BY <1>9 DEF AcceptSteer, TypeOK, Goto, Stages, routerVars
<1>10. ASSUME NEW m \in Messages, SteerLands(m)
       PROVE  TypeOK'
  BY <1>10 DEF SteerLands, TypeOK, Goto, Stages, Settled, daemonVars, routerVars
<1>11. ASSUME NEW m \in Messages, SteerFails(m)
       PROVE  TypeOK'
  BY <1>11, RunHereType, StopWatchingType DEF SteerFails, TypeOK, daemonVars
<1>12. ASSUME NEW m \in Messages, Recreate(m)
       PROVE  TypeOK'
  BY <1>12, StopWatchingType DEF Recreate, TypeOK, Goto, Stages, daemonVars
<1>13. ASSUME NEW m \in Messages, StreamEnds(m)
       PROVE  TypeOK'
  BY <1>13 DEF StreamEnds, TypeOK, daemonVars
<1>14. ASSUME NEW s \in Sessions, SessionEnds(s)
       PROVE  TypeOK'
  BY <1>14 DEF SessionEnds, TypeOK, routerVars
<1>15. CASE UNCHANGED vars
  BY <1>15 DEF vars, TypeOK, daemonVars, routerVars
<1>. QED
  BY <1>1, <1>2, <1>3, <1>4, <1>5, <1>6, <1>7, <1>8, <1>9, <1>10, <1>11, <1>12,
     <1>13, <1>14, <1>15 DEF Next, Step

\* Without lost replies a step of a submission changes where its message runs
\* exactly as its stage says.
LEMMA StagePreserved ==
  ASSUME LossyReplies = FALSE, RoutingInv, [Next]_vars
  PROVE  StageTellsPlace'
<1>. USE DEF RoutingInv
<1>1. ASSUME NEW m \in Messages, RefuseUpFront(m)
      PROVE  StageTellsPlace'
  BY <1>1
  DEF RefuseUpFront, RunHere, Goto, TypeOK, StageTellsPlace, daemonVars
<1>2. ASSUME NEW m \in Messages, SubmitFirst(m) \/ SubmitNext(m)
      PROVE  StageTellsPlace'
  BY <1>2
  DEF SubmitFirst, SubmitNext, Submitted, Watch, Goto, TypeOK, StageTellsPlace,
      daemonVars
<1>3. ASSUME NEW m \in Messages, CreateSession(m) \/ CreateLands(m) \/ OpenLands(m)
      PROVE  StageTellsPlace'
  BY <1>3
  DEF CreateSession, CreateLands, OpenLands, Watch, Goto, TypeOK, StageTellsPlace,
      daemonVars
<1>4. ASSUME NEW m \in Messages, CreateFails(m) \/ OpenFails(m)
      PROVE  StageTellsPlace'
  <2>1. pc[m] \in {"creating", "created", "opening"} /\ UNCHANGED ran
    BY <1>4 DEF CreateFails, OpenFails, daemonVars
  <2>2. here' = here \cup {m} /\ pc' = [pc EXCEPT ![m] = "local"]
    BY <1>4 DEF CreateFails, OpenFails, RunHere, Goto
  <2>. QED  BY <2>1, <2>2 DEF TypeOK, StageTellsPlace
<1>5. ASSUME NEW m \in Messages, AcceptSteer(m)
      PROVE  StageTellsPlace'
  <2>1. target[m] # NoSession
    BY <1>5, ConstantsAssumption DEF AcceptSteer, TypeOK
  <2>. QED  BY <1>5, <2>1 DEF AcceptSteer, Goto, TypeOK, StageTellsPlace
<1>6. ASSUME NEW m \in Messages, SteerLands(m) \/ Recreate(m)
      PROVE  StageTellsPlace'
  BY <1>6
  DEF SteerLands, Recreate, Goto, TypeOK, StageTellsPlace, daemonVars
<1>7. ASSUME NEW m \in Messages, SteerFails(m)
      PROVE  StageTellsPlace'
  BY <1>7
  DEF SteerFails, SteerFailed, RunHere, Goto, TypeOK, StageTellsPlace, daemonVars
<1>8. ASSUME NEW m \in Messages, StreamEnds(m)
      PROVE  StageTellsPlace'
  BY <1>8 DEF StreamEnds, StageTellsPlace, daemonVars
<1>9. ASSUME NEW s \in Sessions, SessionEnds(s)
      PROVE  StageTellsPlace'
  BY <1>9 DEF SessionEnds, StageTellsPlace
<1>10. CASE UNCHANGED vars
  BY <1>10 DEF vars, StageTellsPlace, daemonVars
<1>. QED
  BY <1>1, <1>2, <1>3, <1>4, <1>5, <1>6, <1>7, <1>8, <1>9, <1>10 DEF Next, Step

LEMMA InvHolds ==
  ASSUME LossyReplies = FALSE
  PROVE  Spec => []RoutingInv
<1>1. RoutingInv /\ [Next]_vars => RoutingInv'
  BY TypePreserved, StagePreserved DEF RoutingInv
<1>. QED  BY <1>1, InitInv, PTL DEF Spec

\* Without lost replies, no message runs on both machines and every message
\* reported as routed ran on the daemon, for any messages and sessions and
\* whether or not submissions overlap.
THEOREM RunsOnceHolds ==
  ASSUME LossyReplies = FALSE
  PROVE  Spec => []RunsOnce
<1>1. RoutingInv => RunsOnce
  BY DEF RoutingInv, StageTellsPlace, RunsOnce
<1>. QED  BY <1>1, InvHolds, PTL

\* Without lost replies routing implements TurnPlacement: each step places one
\* message that was nowhere, or moves none.
THEOREM ImplementsPlacement ==
  ASSUME LossyReplies = FALSE
  PROVE  Spec => PlacedOnce
<1>1. Init => Placement!Init
  BY DEF Init, Placement!Init, place
<1>2. ASSUME RoutingInv, RoutingInv', [Next]_vars
      PROVE  [Placement!Next]_place
  <2>. USE <1>2 DEF RoutingInv
  <2>1. ASSUME NEW m \in Messages,
               \A n \in Messages \ {m} : UNCHANGED <<pc[n], ran[n]>>,
               pc[m] \notin {"local", "accepted", "routed"}
        PROVE  [Placement!Next]_place
    <3>1. \A n \in Messages \ {m} : place'[n] = place[n]
      BY <2>1 DEF place, StageTellsPlace
    <3>2. place[m] = "nowhere"
      BY <2>1 DEF place, StageTellsPlace
    <3>3. place' = [place EXCEPT ![m] = place'[m]]
      BY <3>1 DEF place
    <3>4. CASE place'[m] = "nowhere"
      BY <3>2, <3>3, <3>4 DEF place
    <3>5. CASE place'[m] \in {"here", "daemon"}
      BY <3>2, <3>3, <3>5 DEF Placement!Next, Placement!Place
    <3>. QED  BY <3>4, <3>5 DEF place
  <2>2. ASSUME UNCHANGED <<here, ran>>
        PROVE  [Placement!Next]_place
    BY <2>2 DEF place
  <2>3. ASSUME NEW m \in Messages,
               \/ RefuseUpFront(m) \/ CreateFails(m) \/ OpenFails(m)
               \/ AcceptSteer(m) \/ SteerFails(m)
        PROVE  [Placement!Next]_place
    <3>1. pc[m] \notin {"local", "accepted", "routed"}
      BY <2>3 DEF RefuseUpFront, CreateFails, OpenFails, AcceptSteer,
                  SteerFails, SteerFailed
    <3>2. \A n \in Messages \ {m} : UNCHANGED <<pc[n], ran[n]>>
      BY <2>3 DEF RefuseUpFront, CreateFails, OpenFails, AcceptSteer, SteerFails,
                  RunHere, Goto, TypeOK, daemonVars
    <3>. QED  BY <3>1, <3>2, <2>1
  <2>4. ASSUME NEW m \in Messages,
               \/ SubmitFirst(m) \/ SubmitNext(m) \/ CreateSession(m)
               \/ CreateLands(m) \/ OpenLands(m) \/ SteerLands(m) \/ Recreate(m)
               \/ StreamEnds(m)
        PROVE  [Placement!Next]_place
    BY <2>4, <2>2 DEF SubmitFirst, SubmitNext, CreateSession, CreateLands, OpenLands,
                      SteerLands, Recreate, StreamEnds, daemonVars
  <2>5. ASSUME NEW s \in Sessions, SessionEnds(s)
        PROVE  [Placement!Next]_place
    BY <2>5, <2>2 DEF SessionEnds
  <2>6. CASE UNCHANGED vars
    BY <2>6, <2>2 DEF vars, daemonVars
  <2>. QED  BY <2>3, <2>4, <2>5, <2>6 DEF Next, Step
<1>. QED  BY <1>1, <1>2, InvHolds, PTL DEF Spec, PlacedOnce, Placement!Spec

----------------------------------------------------------------------------
\* Every variable keeps its type, lost replies or not.
THEOREM TypeCorrect == Spec => []TypeOK
<1>1. Init => TypeOK
  BY InitInv DEF RoutingInv
<1>. QED  BY <1>1, TypePreserved, PTL DEF Spec

\* What a submission on its way tells of the binding, of the sessions messages ran
\* in and of the streams, as long as it is the only one.
InFlight(m) == pc[m] \notin Settled \cup {"unsent"}

OneAtATime == \A m, n \in Messages : InFlight(m) /\ InFlight(n) => m = n

RanIsBound ==
    /\ alive \subseteq born
    /\ \A m \in Messages : ran[m] \in born \cup {NoSession}
    /\ \A m \in Messages : ran[m] \in alive => ran[m] = hostedId
    /\ \A m \in Messages :
         /\ pc[m] = "unsent" => ~fresh[m]
         /\ pc[m] \in {"creating", "created"} => fresh[m] /\ hostedId = NoSession
         /\ pc[m] \in {"opening", "steering", "accepted"} => target[m] = hostedId
         /\ pc[m] \in {"opening", "steering"} /\ fresh[m] => \A n \in Messages : ran[n] \notin alive

StreamIsHeld ==
    /\ streams \subseteq {held}
    /\ \A m \in Messages :
         /\ pc[m] = "opening" => streams = {}
         /\ pc[m] \in {"steering", "accepted"} => held = m

ConversationInv == ~overlapped => OneAtATime /\ RanIsBound /\ StreamIsHeld

\* The stages between a submission and its outcome.
OnTheWay == {"creating", "created", "opening", "steering", "accepted"}

\* The only submission on its way leaves the stages of all others settled or unsent.
LEMMA AloneInFlight ==
  ASSUME TypeOK, OneAtATime, NEW m \in Messages, pc[m] \in OnTheWay
  PROVE  \A n \in Messages \ {m} : pc[n] \notin OnTheWay
  BY DEF OneAtATime, InFlight, OnTheWay, Settled

\* A submission that runs here instead is on its way no more.
LEMMA RunHereKeepsConversation ==
  ASSUME TypeOK, OneAtATime, RanIsBound, StreamIsHeld, NEW m \in Messages, RunHere(m),
         UNCHANGED <<daemonVars, fresh, target>>,
         \/ UNCHANGED routerVars
         \/ InFlight(m) /\ StopWatching /\ hostedId' = hostedId
         \/ /\ InFlight(m) /\ StopWatching /\ hostedId' = NoSession
            /\ \A n \in Messages : ran[n] \notin alive
  PROVE  OneAtATime' /\ RanIsBound' /\ StreamIsHeld'
<1>1. /\ pc'[m] = "local" /\ \A n \in Messages \ {m} : pc'[n] = pc[n]
      /\ ~InFlight(m)'
  BY DEF RunHere, Goto, TypeOK, InFlight, Settled
<1>2. OneAtATime'
  BY <1>1 DEF OneAtATime, InFlight
<1>3. CASE UNCHANGED routerVars
  BY <1>1, <1>2, <1>3 DEF RanIsBound, StreamIsHeld, daemonVars, routerVars
<1>4. CASE InFlight(m) /\ StopWatching /\ (hostedId' = hostedId \/ \A n \in Messages : ran[n] \notin alive)
  <2>1. \A n \in Messages \ {m} : pc'[n] \notin OnTheWay
    BY <1>1, <1>4, AloneInFlight DEF InFlight, OnTheWay, Settled, TypeOK, Stages
  <2>2. RanIsBound'
    BY <1>1, <1>4, <2>1 DEF RanIsBound, OnTheWay, daemonVars
  <2>3. StreamIsHeld'
    BY <1>1, <1>4, <2>1 DEF StreamIsHeld, StopWatching, OnTheWay
  <2>. QED  BY <1>2, <2>2, <2>3
<1>. QED  BY <1>3, <1>4

\* While submissions take their turns and no reply is lost, each step keeps the
\* binding, the sessions messages ran in and the held stream together.
LEMMA ConversationKept ==
  ASSUME LossyReplies = FALSE, RoutingInv, ConversationInv, [Next]_vars
  PROVE  ConversationInv'
<1>. USE DEF RoutingInv
<1>1. UNCHANGED overlapped \/ \E m \in Messages : Submitted(m)
  BY DEF Next, Step, RefuseUpFront, SubmitFirst, SubmitNext, CreateSession, CreateFails, CreateLands,
     OpenLands, OpenFails, AcceptSteer, SteerLands, SteerFails, Recreate, StreamEnds, SessionEnds, vars
<1>. SUFFICES ASSUME ~overlapped'
              PROVE  OneAtATime' /\ RanIsBound' /\ StreamIsHeld'
  BY DEF ConversationInv
<1>2. OneAtATime /\ RanIsBound /\ StreamIsHeld
  BY <1>1 DEF ConversationInv, Submitted, TypeOK
<1>3. NoSession \notin alive
  BY ConstantsAssumption DEF TypeOK
<1>. USE <1>2
<1>4. ASSUME NEW m \in Messages, RefuseUpFront(m) \/ CreateFails(m)
      PROVE  OneAtATime' /\ RanIsBound' /\ StreamIsHeld'
  BY <1>4, RunHereKeepsConversation DEF RefuseUpFront, CreateFails
<1>5. ASSUME NEW m \in Messages, OpenFails(m)
      PROVE  OneAtATime' /\ RanIsBound' /\ StreamIsHeld'
  BY <1>5, RunHereKeepsConversation DEF OpenFails, InFlight, Settled, routerVars
<1>6. ASSUME NEW m \in Messages, SteerFails(m)
      PROVE  OneAtATime' /\ RanIsBound' /\ StreamIsHeld'
  <2>1. pc[m] = "steering"
    BY <1>6 DEF SteerFails, SteerFailed
  <2>2. fresh[m] => \A n \in Messages : ran[n] \notin alive
    BY <2>1 DEF RanIsBound
  <2>. QED  BY <1>6, <2>1, <2>2, RunHereKeepsConversation DEF SteerFails, InFlight, Settled
<1>7. ASSUME NEW m \in Messages, SubmitFirst(m)
      PROVE  OneAtATime' /\ RanIsBound' /\ StreamIsHeld'
  <2>1. \A n \in Messages : pc[n] \in Settled \cup {"unsent"}
    BY <1>7 DEF SubmitFirst, Submitted, TypeOK
  <2>2. pc' = [pc EXCEPT ![m] = "creating"] /\ fresh' = [fresh EXCEPT ![m] = TRUE]
    BY <1>7 DEF SubmitFirst, Goto
  <2>3. OneAtATime'
    BY <2>1, <2>2 DEF OneAtATime, InFlight, OnTheWay, TypeOK, Stages
  <2>4. \A n \in Messages \ {m} : pc'[n] \notin OnTheWay
    BY <2>1, <2>2 DEF TypeOK, Settled, OnTheWay
  <2>. QED  BY <1>7, <2>2, <2>3, <2>4 DEF SubmitFirst, RanIsBound, StreamIsHeld, OnTheWay, TypeOK, daemonVars,
            routerVars
<1>8. ASSUME NEW m \in Messages, SubmitNext(m)
      PROVE  OneAtATime' /\ RanIsBound' /\ StreamIsHeld'
  <2>1. \A n \in Messages : pc[n] \in Settled \cup {"unsent"}
    BY <1>8 DEF SubmitNext, Submitted, TypeOK
  <2>2. /\ pc' = [pc EXCEPT ![m] = "opening"] /\ target' = [target EXCEPT ![m] = hostedId]
        /\ streams' = streams \ {held} /\ UNCHANGED <<fresh, hostedId, alive, born, ran>>
    BY <1>8 DEF SubmitNext, Watch, StopWatching, Goto, daemonVars
  <2>3. OneAtATime'
    BY <2>1, <2>2 DEF OneAtATime, InFlight, OnTheWay, TypeOK, Stages
  <2>4. \A n \in Messages \ {m} : pc'[n] \notin OnTheWay
    BY <2>1, <2>2 DEF TypeOK, Settled, OnTheWay
  <2>5. pc'[m] = "opening" /\ target'[m] = hostedId /\ streams' = {}
    BY <2>2 DEF TypeOK, StreamIsHeld
  <2>6. ~fresh[m]
    BY <1>8 DEF SubmitNext, Submitted, RanIsBound
  <2>. QED  BY <2>2, <2>3, <2>4, <2>5, <2>6 DEF RanIsBound, StreamIsHeld, OnTheWay
<1>9. ASSUME NEW m \in Messages, CreateSession(m)
      PROVE  OneAtATime' /\ RanIsBound' /\ StreamIsHeld'
  <2>1. PICK s \in Sessions \ born :
          /\ born' = born \cup {s} /\ alive' = alive \cup {s}
          /\ target' = [target EXCEPT ![m] = s]
    BY <1>9 DEF CreateSession
  <2>2. /\ pc' = [pc EXCEPT ![m] = "created"] /\ pc[m] = "creating"
        /\ UNCHANGED <<ran, hostedId, streams, held, fresh>>
    BY <1>9 DEF CreateSession, Goto, routerVars
  <2>3. \A n \in Messages \ {m} : pc[n] \notin OnTheWay
    BY <2>2, AloneInFlight DEF OnTheWay
  <2>4. OneAtATime'
    BY <2>2, <2>3 DEF OneAtATime, InFlight, OnTheWay, TypeOK, Stages
  <2>5. s # NoSession /\ \A n \in Messages : ran[n] # s
    BY <2>1, ConstantsAssumption DEF RanIsBound
  <2>. QED  BY <2>1, <2>2, <2>3, <2>4, <2>5 DEF RanIsBound, StreamIsHeld, OnTheWay, TypeOK
<1>10. ASSUME NEW m \in Messages, CreateLands(m)
       PROVE  OneAtATime' /\ RanIsBound' /\ StreamIsHeld'
  <2>1. /\ pc[m] = "created" /\ pc' = [pc EXCEPT ![m] = "opening"]
        /\ hostedId' = target[m] /\ target' = [target EXCEPT ![m] = target[m]]
        /\ streams' = streams \ {held} /\ UNCHANGED <<fresh, alive, born, ran>>
    BY <1>10 DEF CreateLands, Binds, Watch, StopWatching, Goto, daemonVars
  <2>2. \A n \in Messages \ {m} : pc[n] \notin OnTheWay
    BY <2>1, AloneInFlight DEF OnTheWay
  <2>3. OneAtATime'
    BY <2>1, <2>2 DEF OneAtATime, InFlight, OnTheWay, TypeOK, Stages
  <2>4. \A n \in Messages : ran[n] \notin alive
    BY <1>3, <2>1 DEF RanIsBound
  <2>5. streams' = {} /\ target' = target
    BY <2>1 DEF StreamIsHeld, TypeOK
  <2>. QED  BY <2>1, <2>2, <2>3, <2>4, <2>5 DEF RanIsBound, StreamIsHeld, OnTheWay, TypeOK
<1>11. ASSUME NEW m \in Messages, OpenLands(m)
       PROVE  OneAtATime' /\ RanIsBound' /\ StreamIsHeld'
  <2>1. /\ pc[m] = "opening" /\ pc' = [pc EXCEPT ![m] = "steering"]
        /\ streams' = streams \cup {m} /\ held' = m
        /\ UNCHANGED <<alive, born, ran, hostedId, fresh, target>>
    BY <1>11 DEF OpenLands, Goto, daemonVars
  <2>2. \A n \in Messages \ {m} : pc[n] \notin OnTheWay
    BY <2>1, AloneInFlight DEF OnTheWay
  <2>3. OneAtATime'
    BY <2>1, <2>2 DEF OneAtATime, InFlight, OnTheWay, TypeOK, Stages
  <2>. QED  BY <2>1, <2>2, <2>3 DEF RanIsBound, StreamIsHeld, OnTheWay, TypeOK
<1>12. ASSUME NEW m \in Messages, AcceptSteer(m) \/ SteerLands(m)
       PROVE  OneAtATime' /\ RanIsBound' /\ StreamIsHeld'
  <2>1. /\ pc[m] \in {"steering", "accepted"}
        /\ pc' = [pc EXCEPT ![m] = "accepted"] \/ pc' = [pc EXCEPT ![m] = "routed"]
        /\ ran' = ran \/ (ran' = [ran EXCEPT ![m] = target[m]] /\ target[m] \in alive)
        /\ UNCHANGED <<alive, born, hostedId, streams, held, fresh, target>>
    BY <1>12 DEF AcceptSteer, SteerLands, Goto, daemonVars, routerVars
  <2>2. \A n \in Messages \ {m} : pc[n] \notin OnTheWay
    BY <2>1, AloneInFlight DEF OnTheWay
  <2>3. OneAtATime'
    BY <2>1, <2>2 DEF OneAtATime, InFlight, OnTheWay, TypeOK, Stages
  <2>4. \A n \in Messages : ran'[n] = ran[n] \/ (ran'[n] \in alive /\ ran'[n] = hostedId)
    BY <2>1 DEF RanIsBound, TypeOK
  <2>. QED  BY <2>1, <2>2, <2>3, <2>4 DEF RanIsBound, StreamIsHeld, OnTheWay, TypeOK
<1>13. ASSUME NEW m \in Messages, Recreate(m)
       PROVE  OneAtATime' /\ RanIsBound' /\ StreamIsHeld'
  <2>1. /\ pc[m] = "steering" /\ pc' = [pc EXCEPT ![m] = "creating"]
        /\ hostedId' = NoSession /\ fresh' = [fresh EXCEPT ![m] = TRUE]
        /\ streams' = streams \ {held} /\ target[m] \notin alive
        /\ UNCHANGED <<alive, born, ran, target>>
    BY <1>13 DEF Recreate, StopWatching, Goto, daemonVars
  <2>2. \A n \in Messages \ {m} : pc[n] \notin OnTheWay
    BY <2>1, AloneInFlight DEF OnTheWay
  <2>3. OneAtATime'
    BY <2>1, <2>2 DEF OneAtATime, InFlight, OnTheWay, TypeOK, Stages
  <2>4. \A n \in Messages : ran[n] \notin alive
    BY <2>1 DEF RanIsBound
  <2>5. streams' = {}
    BY <2>1 DEF StreamIsHeld
  <2>. QED  BY <2>1, <2>2, <2>3, <2>4, <2>5 DEF RanIsBound, StreamIsHeld, OnTheWay, TypeOK
<1>14. ASSUME NEW m \in Messages, StreamEnds(m)
       PROVE  OneAtATime' /\ RanIsBound' /\ StreamIsHeld'
  BY <1>14 DEF StreamEnds, OneAtATime, InFlight, RanIsBound, StreamIsHeld, daemonVars
<1>15. ASSUME NEW s \in Sessions, SessionEnds(s)
       PROVE  OneAtATime' /\ RanIsBound' /\ StreamIsHeld'
  BY <1>15 DEF SessionEnds, OneAtATime, InFlight, RanIsBound, StreamIsHeld, routerVars
<1>16. CASE UNCHANGED vars
  BY <1>16 DEF vars, OneAtATime, InFlight, RanIsBound, StreamIsHeld, daemonVars, routerVars
<1>. QED
  BY <1>4, <1>5, <1>6, <1>7, <1>8, <1>9, <1>10, <1>11, <1>12, <1>13, <1>14, <1>15, <1>16
  DEF Next, Step

\* Without lost replies, messages submitted one after the other's hand-off run in one
\* live session, and the one open stream is that of the message being handed over.
THEOREM OneConversationHolds ==
  ASSUME LossyReplies = FALSE
  PROVE  Spec => []OneWatchedConversation
<1>1. Init => ConversationInv
  BY DEF Init, ConversationInv, OneAtATime, InFlight, Settled, RanIsBound, StreamIsHeld
<1>2. RoutingInv /\ ConversationInv /\ [Next]_vars => ConversationInv'
  BY ConversationKept
<1>3. ConversationInv => OneWatchedConversation
  BY DEF ConversationInv, RanIsBound, StreamIsHeld, OneWatchedConversation, OneConversation,
     WatchedByOne
<1>. QED  BY <1>1, <1>2, <1>3, InvHolds, PTL DEF Spec
============================================================================
