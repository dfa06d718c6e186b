--------------------------- MODULE RemoteRouting ---------------------------
(***************************************************************************)
(* Which machine runs a submitted message: the router of                   *)
(* runtime/client/remote-conversation.ts and the fallback of main.ts and   *)
(* shell/remote-conversation-wiring.ts.  A message is routed by up to      *)
(* three awaited calls - sessions.hosted.create, the event stream, then    *)
(* sessions.steer - and any of them failing runs it in this process.       *)
(*                                                                         *)
(* Other submissions may run between two awaits of one submission: main.ts *)
(* starts each of them without waiting for the one before.  The daemon is  *)
(* external; what a turn renders is the subject of HostedTurnStream.       *)
(***************************************************************************)
EXTENDS Naturals, FiniteSets

CONSTANTS
    Messages,      \* what the person types
    Sessions,      \* hosted sessions the daemon may create
    NoSession,     \* null: no session
    NoWatch,       \* null: no stream handle
    LossyReplies   \* may the daemon act on a call and its reply be lost?

ASSUME ConstantsAssumption ==
    /\ NoSession \notin Sessions
    /\ NoWatch \notin Messages
    /\ LossyReplies \in BOOLEAN

VARIABLES
    alive,      \* sessions the daemon holds and that accept work
    born,       \* sessions ever created
    ran,        \* where the daemon ran each message
    here,       \* messages run by the orchestrator of this process
    pc,         \* the await each submission is at
    fresh,      \* is it inside createHosted?
    target,     \* the session it is addressing
    overlapped, \* was a message ever submitted before the last hand-off settled?
    hostedId,   \* the router's binding
    streams,    \* watches whose event stream is open
    held        \* whose handle is in closeStream

daemonVars == <<alive, born, ran>>
routerVars == <<hostedId, streams, held>>
vars == <<daemonVars, routerVars, here, pc, fresh, target, overlapped>>

Settled == {"routed", "local"}
Stages  == {"unsent", "creating", "created", "opening", "steering", "accepted"}
           \cup Settled

TypeOK ==
    /\ alive \subseteq Sessions /\ born \subseteq Sessions
    /\ ran \in [Messages -> Sessions \cup {NoSession}]
    /\ here \subseteq Messages
    /\ pc \in [Messages -> Stages]
    /\ fresh \in [Messages -> BOOLEAN]
    /\ target \in [Messages -> Sessions \cup {NoSession}]
    /\ overlapped \in BOOLEAN
    /\ hostedId \in Sessions \cup {NoSession}
    /\ streams \subseteq Messages
    /\ held \in Messages \cup {NoWatch}

Init ==
    /\ alive = {} /\ born = {}
    /\ ran = [m \in Messages |-> NoSession]
    /\ here = {}
    /\ pc = [m \in Messages |-> "unsent"]
    /\ fresh = [m \in Messages |-> FALSE]
    /\ target = [m \in Messages |-> NoSession]
    /\ overlapped = FALSE
    /\ hostedId = NoSession
    /\ streams = {}
    /\ held = NoWatch

Goto(m, stage) == pc' = [pc EXCEPT ![m] = stage]

\* refuse(): the orchestrator takes over, with the reason in the transcript.
RunHere(m) ==
    /\ here' = here \cup {m}
    /\ Goto(m, "local")

StopWatching_KeepsOpen == streams' = streams /\ held' = NoWatch

\* stopWatching(): close the stream whose handle is held.
StopWatching ==
    /\ streams' = streams \ {held}
    /\ held' = NoWatch

\* watch(), up to its await.
Watch(m, s) ==
    /\ StopWatching
    /\ target' = [target EXCEPT ![m] = s]
    /\ Goto(m, "opening")

----------------------------------------------------------------------------
(* The daemon (external). *)

CreateSession(m) ==
    /\ pc[m] = "creating"
    /\ \E s \in Sessions \ born :
         /\ born' = born \cup {s}
         /\ alive' = alive \cup {s}
         /\ target' = [target EXCEPT ![m] = s]
    /\ Goto(m, "created")
    /\ UNCHANGED <<ran, routerVars, here, fresh, overlapped>>

AcceptSteer(m) ==
    /\ pc[m] = "steering"
    /\ target[m] \in alive
    /\ ran' = [ran EXCEPT ![m] = target[m]]
    /\ Goto(m, "accepted")
    /\ UNCHANGED <<alive, born, routerVars, here, fresh, target, overlapped>>

\* Killed, restarted, or past its retention.
SessionEnds(s) ==
    /\ s \in alive
    /\ alive' = alive \ {s}
    /\ UNCHANGED <<born, ran, routerVars, here, pc, fresh, target, overlapped>>

StreamEnds(m) ==
    /\ m \in streams
    /\ streams' = streams \ {m}
    /\ UNCHANGED <<daemonVars, hostedId, held, here, pc, fresh, target, overlapped>>

----------------------------------------------------------------------------
(* submit() *)

\* A keystroke away at any moment.
Submitted(m) ==
    /\ pc[m] = "unsent"
    /\ overlapped' = (overlapped \/ \E n \in Messages : pc[n] \notin Settled \cup {"unsent"})

\* Routing off, attachments, no connection, a relative workspace root.
RefuseUpFront(m) ==
    /\ pc[m] = "unsent"
    /\ RunHere(m)
    /\ UNCHANGED <<daemonVars, routerVars, fresh, target, overlapped>>

SubmitFirst(m) ==
    /\ Submitted(m)
    /\ hostedId = NoSession
    /\ fresh' = [fresh EXCEPT ![m] = TRUE]
    /\ Goto(m, "creating")
    /\ UNCHANGED <<daemonVars, routerVars, here, target>>

SubmitNext(m) ==
    /\ Submitted(m)
    /\ hostedId # NoSession
    /\ Watch(m, hostedId)
    /\ UNCHANGED <<daemonVars, hostedId, here, fresh>>

\* createHosted(): the create call threw, or its reply held no readable id.
CreateFails(m) ==
    /\ pc[m] = "creating" \/ (LossyReplies /\ pc[m] = "created")
    /\ RunHere(m)
    /\ UNCHANGED <<daemonVars, routerVars, fresh, target, overlapped>>

Binds_Object(s) == [id |-> s]
Binds(s) == s

CreateLands(m) ==
    /\ pc[m] = "created"
    /\ hostedId' = Binds(target[m])
    /\ Watch(m, target[m])
    /\ UNCHANGED <<daemonVars, here, fresh, overlapped>>

OpenLands(m) ==
    /\ pc[m] = "opening"
    /\ streams' = streams \cup {m}
    /\ held' = m
    /\ Goto(m, "steering")
    /\ UNCHANGED <<daemonVars, hostedId, here, fresh, target, overlapped>>

\* The stream could not be opened.  Both keep the binding; createHosted() leaves
\* what is held alone, submit() stops watching.
OpenFails(m) ==
    /\ pc[m] = "opening"
    /\ RunHere(m)
    /\ IF fresh[m] THEN UNCHANGED <<streams, held>> ELSE StopWatching
    /\ UNCHANGED <<daemonVars, hostedId, fresh, target, overlapped>>

SteerLands(m) ==
    /\ pc[m] = "accepted"
    /\ Goto(m, "routed")
    /\ UNCHANGED <<daemonVars, routerVars, here, fresh, target, overlapped>>

Recreate_SameSession(m) ==
    /\ pc[m] = "steering" /\ ~fresh[m] /\ target[m] \notin alive
    /\ Watch(m, hostedId)
    /\ UNCHANGED <<daemonVars, hostedId, here, fresh, overlapped>>

\* The bound session answered 404 or 409: forget it and open another.
Recreate(m) ==
    /\ pc[m] = "steering"
    /\ ~fresh[m]
    /\ target[m] \notin alive
    /\ hostedId' = NoSession
    /\ StopWatching
    /\ fresh' = [fresh EXCEPT ![m] = TRUE]
    /\ Goto(m, "creating")
    /\ UNCHANGED <<daemonVars, here, target, overlapped>>

SteerFailed_RetriesAccepted(m) == pc[m] \in {"steering", "accepted"}

\* Any other failure of the steer; in createHosted() any failure at all.
SteerFailed(m) ==
    \/ pc[m] = "steering" /\ (fresh[m] \/ target[m] \in alive)
    \/ pc[m] = "accepted" /\ LossyReplies

SteerFails(m) ==
    /\ SteerFailed(m)
    /\ hostedId' = IF fresh[m] THEN NoSession ELSE hostedId
    /\ StopWatching
    /\ RunHere(m)
    /\ UNCHANGED <<daemonVars, fresh, target, overlapped>>

----------------------------------------------------------------------------
Step(m) ==
    \/ CreateSession(m) \/ CreateFails(m) \/ CreateLands(m)
    \/ OpenLands(m) \/ OpenFails(m)
    \/ AcceptSteer(m) \/ SteerLands(m) \/ SteerFails(m) \/ Recreate(m)

Next ==
    \/ \E m \in Messages :
         RefuseUpFront(m) \/ SubmitFirst(m) \/ SubmitNext(m) \/ Step(m)
    \/ \E m \in Messages : StreamEnds(m)
    \/ \E s \in Sessions : SessionEnds(s)

Spec == Init /\ [][Next]_vars

\* Every awaited call settles, one way or the other.
FairSpec == Spec /\ \A m \in Messages : WF_vars(Step(m))

----------------------------------------------------------------------------
(* Properties *)

\* A message never runs on both machines ("would run the same message twice, on
\* two machines"), and one reported as routed did run on the daemon.
RunsOnce ==
    \A m \in Messages :
      /\ m \in here => ran[m] = NoSession
      /\ pc[m] = "routed" => ran[m] # NoSession

\* Where each message runs, for the abstract specification.
place == [m \in Messages |->
            IF m \in here THEN "here"
            ELSE IF ran[m] # NoSession THEN "daemon" ELSE "nowhere"]
Placement == INSTANCE TurnPlacement WITH Messages <- Messages, place <- place
PlacedOnce == Placement!Spec

\* One conversation, one hosted session: as long as no submission overlaps the
\* hand-off of another, two messages run in two sessions only if the daemon ended
\* one of them.
OneConversation ==
    ~overlapped =>
      \A m, n \in Messages :
        {ran[m], ran[n]} \subseteq alive => ran[m] = ran[n]

\* Likewise, the stream is open before the message is steered in, and no stream
\* but the held one is open: the turn's first frame has somewhere to land, and a
\* finished turn's stream is closed before the next one's is opened.
WatchedByOne ==
    ~overlapped =>
      /\ streams \subseteq {held}
      /\ \A m \in Messages : pc[m] \in {"steering", "accepted"} => held = m

\* Both together: one conversation, one session, one watcher at a time.
OneWatchedConversation == OneConversation /\ WatchedByOne

\* Every message that was submitted ends up running somewhere.
EventuallyRuns ==
    \A m \in Messages : pc[m] # "unsent" ~> (m \in here \/ ran[m] # NoSession)
============================================================================
