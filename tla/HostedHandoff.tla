--------------------------- MODULE HostedHandoff ---------------------------
(***************************************************************************)
(* Messages that arrive over a channel: the continuation runner of         *)
(* runtime/services.ts and the hand-off to a daemon-hosted session of      *)
(* runtime/client/hosted-handoff.ts.  A conversation keeps the session it  *)
(* was handed to; its later messages steer that session, and one that is   *)
(* gone is created again.  What cannot be handed over runs in this process.*)
(* The dispatch may deliver a message while another is being handed over.  *)
(***************************************************************************)
CONSTANTS
    Messages,
    Sessions,         \* hosted sessions the daemon may create
    NoSession,
    ConversationOf,   \* the shared session each message belongs to
    LossyReplies      \* may the daemon act on a call and its reply be lost?

Conversations == {ConversationOf[m] : m \in Messages}

VARIABLES
    enabled,    \* hostedSessions.promoteInboundConversations
    outdated,   \* has the client build guard latched?
    alive,      \* hosted sessions that accept work
    opened,     \* the conversation each session was created for, or "none"
    ran,        \* where the daemon ran each message
    here,       \* messages an agent of this process was spawned for
    pc,         \* the await each message is at
    target,     \* the session it is addressing
    promoted,   \* the session of each conversation
    overlapped  \* did two messages of one conversation ever overlap?

vars == <<enabled, outdated, alive, opened, ran, here, pc, target, promoted, overlapped>>

Awaits  == {"creating", "created", "steering", "steered"}
Settled == {"promoted", "local", "declined"}

TypeOK ==
    /\ {enabled, outdated, overlapped} \subseteq BOOLEAN
    /\ alive \subseteq Sessions
    /\ opened \in [Sessions -> Conversations \cup {"none"}]
    /\ ran \in [Messages -> Sessions \cup {NoSession}]
    /\ here \subseteq Messages
    /\ pc \in [Messages -> {"new"} \cup Awaits \cup Settled]
    /\ target \in [Messages -> Sessions \cup {NoSession}]
    /\ promoted \in [Conversations -> Sessions \cup {NoSession}]

Init ==
    /\ enabled \in BOOLEAN /\ outdated = FALSE /\ overlapped = FALSE
    /\ alive = {} /\ opened = [s \in Sessions |-> "none"]
    /\ ran = [m \in Messages |-> NoSession] /\ here = {}
    /\ pc = [m \in Messages |-> "new"]
    /\ target = [m \in Messages |-> NoSession]
    /\ promoted = [c \in Conversations |-> NoSession]

Goto(m, stage) == pc' = [pc EXCEPT ![m] = stage]
Bind(m, s)     == promoted' = [promoted EXCEPT ![ConversationOf[m]] = s]

\* Not promoted: agentManager.spawn().
RunHere(m) == here' = here \cup {m} /\ Goto(m, "local")

InFlight(c) == \E m \in Messages : ConversationOf[m] = c /\ pc[m] \in Awaits

----------------------------------------------------------------------------
(* The daemon, the settings (external). *)

CreateSession(m) ==
    /\ pc[m] = "creating"
    /\ \E s \in Sessions :
         /\ opened[s] = "none"
         /\ opened' = [opened EXCEPT ![s] = ConversationOf[m]]
         /\ alive' = alive \cup {s}
         /\ ran' = [ran EXCEPT ![m] = s]      \* initialPrompt
         /\ target' = [target EXCEPT ![m] = s]
    /\ Goto(m, "created")
    /\ UNCHANGED <<enabled, outdated, here, promoted, overlapped>>

AcceptSteer(m) ==
    /\ pc[m] = "steering" /\ target[m] \in alive
    /\ ran' = [ran EXCEPT ![m] = target[m]]
    /\ Goto(m, "steered")
    /\ UNCHANGED <<enabled, outdated, alive, opened, here, target, promoted, overlapped>>

SessionEnds(s) ==
    /\ s \in alive
    /\ alive' = alive \ {s}
    /\ UNCHANGED <<enabled, outdated, opened, ran, here, pc, target, promoted, overlapped>>

Setting ==
    /\ \/ enabled' = ~enabled /\ UNCHANGED outdated
       \/ ~outdated /\ outdated' = TRUE /\ UNCHANGED enabled
    /\ UNCHANGED <<alive, opened, ran, here, pc, target, promoted, overlapped>>

----------------------------------------------------------------------------
(* The runner and promote(). *)

Decline(m) ==
    /\ pc[m] = "new" /\ outdated
    /\ Goto(m, "declined")
    /\ UNCHANGED <<enabled, outdated, alive, opened, ran, here, target, promoted, overlapped>>

\* Off, no reachable host or no absolute root.
Refuse(m) ==
    /\ pc[m] = "new" /\ ~outdated
    /\ RunHere(m)
    /\ UNCHANGED <<enabled, outdated, alive, opened, ran, target, promoted, overlapped>>

\* Variant: the local agent is spawned before the daemon is asked.
Promote_SpawnsFirst(m) ==
    /\ pc[m] = "new" /\ ~outdated /\ enabled
    /\ here' = here \cup {m}
    /\ Goto(m, "creating")
    /\ UNCHANGED <<enabled, outdated, alive, opened, ran, target, promoted, overlapped>>

Promote(m) ==
    /\ pc[m] = "new" /\ ~outdated /\ enabled
    /\ LET existing == promoted[ConversationOf[m]] IN
         IF existing = NoSession
         THEN Goto(m, "creating") /\ UNCHANGED target
         ELSE Goto(m, "steering") /\ target' = [target EXCEPT ![m] = existing]
    /\ overlapped' = (overlapped \/ InFlight(ConversationOf[m]))
    /\ UNCHANGED <<enabled, outdated, alive, opened, ran, here, promoted>>

\* createHosted(), answered.
Created(m) ==
    /\ pc[m] = "created"
    /\ Bind(m, target[m])
    /\ Goto(m, "promoted")
    /\ UNCHANGED <<enabled, outdated, alive, opened, ran, here, target, overlapped>>

Steered(m) ==
    /\ pc[m] = "steered"
    /\ Goto(m, "promoted")
    /\ UNCHANGED <<enabled, outdated, alive, opened, ran, here, target, promoted, overlapped>>

\* Refused, unreachable, unreadable, or the reply is lost.
CallFails(m) ==
    /\ \/ pc[m] \in {"creating", "steering"}
       \/ LossyReplies /\ pc[m] \in {"created", "steered"}
    /\ RunHere(m)
    /\ UNCHANGED <<enabled, outdated, alive, opened, ran, target, promoted, overlapped>>

\* Variant: any failed steer drops the mapping and starts again.
SessionGone_Any(m) ==
    /\ pc[m] = "steering"
    /\ Bind(m, NoSession)
    /\ Goto(m, "creating")
    /\ UNCHANGED <<enabled, outdated, alive, opened, ran, here, target, overlapped>>

\* 404 or 409: the mapping goes and the conversation is started again.
SessionGone(m) ==
    /\ pc[m] = "steering" /\ target[m] \notin alive
    /\ Bind(m, NoSession)
    /\ Goto(m, "creating")
    /\ UNCHANGED <<enabled, outdated, alive, opened, ran, here, target, overlapped>>

Settles(m) == Created(m) \/ Steered(m) \/ CallFails(m) \/ SessionGone(m)
Starts(m)  == Decline(m) \/ Refuse(m) \/ Promote(m)

Next ==
    \/ \E m \in Messages : Starts(m) \/ CreateSession(m) \/ AcceptSteer(m) \/ Settles(m)
    \/ \E s \in Sessions : SessionEnds(s)
    \/ Setting

Spec == Init /\ [][Next]_vars

\* Delivered messages are run, and every call settles.
FairSpec == Spec /\ \A m \in Messages : WF_vars(Starts(m)) /\ WF_vars(Settles(m))

----------------------------------------------------------------------------
Place(m) == IF ran[m] # NoSession THEN "daemon"
            ELSE IF m \in here THEN "here" ELSE "nowhere"

(* A message is answered on one machine, and what was handed over is not   *)
(* answered here as well: the promise of TurnPlacement.                    *)
Placement == INSTANCE TurnPlacement WITH place <- [m \in Messages |-> Place(m)]

PlacedOnce == Placement!Spec
AnsweredOnce == \A m \in Messages : m \in here => ran[m] = NoSession

(* One conversation is hosted by one session at a time.  Two messages of   *)
(* it in flight together may each create one, and a 404 that lands late    *)
(* deletes the mapping of the session that replaced the missing one.       *)
OneHost ==
    overlapped \/ \A s, t \in alive : opened[s] = opened[t] => s = t

(* What was promoted went to a live conversation: the mapping, once no     *)
(* message of the conversation is in flight, is the session it ran in.     *)
MappingIsCurrent ==
    overlapped \/
    \A s \in alive : InFlight(opened[s]) \/ promoted[opened[s]] = s

(* No message is lost: each ends promoted, answered here or declined.      *)
EveryMessageSettles == <>(\A m \in Messages : pc[m] \in Settled)
============================================================================
