---------------------------- MODULE HostedMirror ----------------------------
(***************************************************************************)
(* Daemon-hosted conversations brought home: runtime/client/hosted-        *)
(* session-mirror.ts and its two callers in shell/remote-conversation-     *)
(* wiring.ts, the end of a hosted turn and the boot of the surface.  A     *)
(* mirror attaches to a session (an awaited call) and writes the           *)
(* transcript it is given to the session store, which also moves the       *)
(* last-session pointer; a boot first mirrors, one after the other, the    *)
(* sessions the store has never heard of.                                  *)
(*                                                                         *)
(* Sessions are numbered as the daemon lists them, oldest first.  A        *)
(* transcript is modelled by its number of turns.                          *)
(***************************************************************************)
EXTENDS Integers, FiniteSets

CONSTANTS
    NumSessions,
    MaxTurns,      \* bound: turns of one session
    MaxRecovered,  \* the code's limit on one recovery pass
    MaxBoots       \* bound: starts of the surface

Hosted == 1..NumSessions

VARIABLES
    transcript,  \* turns of each session, as the daemon has them
    store,       \* turns of each session in the agent's own store, 0 if none
    pointer,     \* last-session.json, 0 before the first write
    mirrors,     \* calls to mirrorHostedSessionToStore() in flight
    recovery,    \* the recovery pass: "off", "listing", "running", "done", "failed"
    pending,     \* the sessions it has yet to mirror
    up,          \* is the surface running?
    boots,       \* starts of the surface
    doubtful     \* sessions whose mirrors crossed, failed or were never called for

vars == <<transcript, store, pointer, mirrors, recovery, pending, up, boots, doubtful>>

\* A mirror: its session, the turn that called for it (0: the recovery pass)
\* and the transcript it was given (0: no answer yet).
Mirrors == [session : Hosted, turn : 0..MaxTurns, got : 0..MaxTurns]

TypeOK ==
    /\ transcript \in [Hosted -> 0..MaxTurns]
    /\ store \in [Hosted -> 0..MaxTurns]
    /\ pointer \in {0} \cup Hosted
    /\ mirrors \subseteq Mirrors
    /\ recovery \in {"off", "listing", "running", "done", "failed"}
    /\ pending \subseteq Hosted
    /\ up \in BOOLEAN /\ boots \in 0..MaxBoots
    /\ doubtful \subseteq Hosted

Init ==
    /\ transcript = [s \in Hosted |-> 0] /\ store = transcript
    /\ pointer = 0
    /\ mirrors = {} /\ recovery = "off" /\ pending = {}
    /\ up = FALSE /\ boots = 0
    /\ doubtful = {}

StartMirror(s, turn) ==
    /\ mirrors' = mirrors \cup {[session |-> s, turn |-> turn, got |-> 0]}
    /\ doubtful' = IF \E m \in mirrors : m.session = s THEN doubtful \cup {s} ELSE doubtful

\* Variant: only a session the store lacks is mirrored.
TurnEnds_OnceOnly(s) ==
    /\ transcript[s] < MaxTurns
    /\ s > 1 => transcript[s - 1] > 0
    /\ transcript' = [transcript EXCEPT ![s] = @ + 1]
    /\ IF up /\ store[s] = 0 THEN StartMirror(s, transcript[s] + 1) ELSE UNCHANGED <<mirrors, doubtful>>
    /\ UNCHANGED <<store, pointer, recovery, pending, up, boots>>

\* The daemon ends a turn.  The surface mirrors it if it is there to be told;
\* a turn ended without it is looked for only if the store has no such session.
TurnEnds(s) ==
    /\ transcript[s] < MaxTurns
    /\ s > 1 => transcript[s - 1] > 0
    /\ transcript' = [transcript EXCEPT ![s] = @ + 1]
    /\ \/ up /\ StartMirror(s, transcript[s] + 1)
       \/ /\ doubtful' = IF \/ store[s] > 0
                            \/ recovery \in {"running", "done", "failed"}
                            \/ \E m \in mirrors : m.session = s
                         THEN doubtful \cup {s} ELSE doubtful
          /\ UNCHANGED mirrors
    /\ UNCHANGED <<store, pointer, recovery, pending, up, boots>>

Crash ==
    /\ up
    /\ up' = FALSE /\ mirrors' = {} /\ recovery' = "off" /\ pending' = {}
    /\ doubtful' = doubtful \cup {m.session : m \in mirrors}
    /\ UNCHANGED <<transcript, store, pointer, boots>>

Boot ==
    /\ ~up /\ boots < MaxBoots
    /\ up' = TRUE /\ boots' = boots + 1
    /\ recovery' = "listing"
    /\ doubtful' = {s \in doubtful : store[s] > 0}
    /\ UNCHANGED <<transcript, store, pointer, mirrors, pending>>

\* sessions.hosted.attach is answered by the daemon ...
Attach(m) ==
    /\ m.got = 0
    /\ mirrors' = (mirrors \ {m}) \cup {[m EXCEPT !.got = transcript[m.session]]}
    /\ UNCHANGED <<transcript, store, pointer, recovery, pending, up, boots, doubtful>>

\* ... and the answer is written, unless there is nothing in it.
Persist(m) ==
    /\ m.got > 0
    /\ store' = [store EXCEPT ![m.session] = m.got]
    /\ pointer' = m.session
    /\ mirrors' = mirrors \ {m}
    /\ UNCHANGED <<transcript, recovery, pending, up, boots, doubtful>>

\* Variant: the empty transcript is written all the same.
MirrorFails_Writes(m) ==
    /\ mirrors' = mirrors \ {m}
    /\ recovery' = IF m.turn = 0 THEN "failed" ELSE recovery
    /\ store' = [store EXCEPT ![m.session] = 0]
    /\ UNCHANGED <<transcript, pointer, pending, up, boots, doubtful>>

\* A failure is logged and reported, never thrown.
MirrorFails(m) ==
    /\ mirrors' = mirrors \ {m}
    /\ recovery' = IF m.turn = 0 THEN "failed" ELSE recovery
    /\ doubtful' = doubtful \cup {m.session}
    /\ UNCHANGED <<transcript, store, pointer, pending, up, boots>>

----------------------------------------------------------------------------
(* recoverUnmirroredHostedSessions() *)

Orphans == {s \in Hosted : store[s] = 0 /\ transcript[s] > 0}

LastFew(sessions) ==
    {s \in sessions : Cardinality({t \in sessions : t > s}) < MaxRecovered}

List ==
    /\ recovery = "listing"
    /\ \/ pending' = LastFew(Orphans) /\ recovery' = "running"
       \/ UNCHANGED pending /\ recovery' = "failed"
    /\ UNCHANGED <<transcript, store, pointer, mirrors, up, boots, doubtful>>

RecoverNext ==
    /\ recovery \in {"running", "failed"}
    /\ ~ \E m \in mirrors : m.turn = 0
    /\ \E s \in pending :
         /\ \A t \in pending : s <= t              \* the oldest first
         /\ StartMirror(s, 0)
         /\ pending' = pending \ {s}
    /\ UNCHANGED <<transcript, store, pointer, recovery, up, boots>>

RecoverDone ==
    /\ recovery = "running" /\ pending = {} /\ ~ \E m \in mirrors : m.turn = 0
    /\ recovery' = "done"
    /\ UNCHANGED <<transcript, store, pointer, mirrors, pending, up, boots, doubtful>>

Surface == (\E m \in mirrors : Persist(m)) \/ List \/ RecoverNext \/ RecoverDone

Next ==
    \/ \E s \in Hosted : TurnEnds(s)
    \/ \E m \in mirrors : Attach(m) \/ MirrorFails(m)
    \/ Crash \/ Boot \/ Surface

Spec == Init /\ [][Next]_vars

FairSpec ==
    Spec /\ WF_vars(Boot) /\ WF_vars(Surface) /\ WF_vars(\E m \in mirrors : Attach(m))

----------------------------------------------------------------------------
Quiet == up /\ mirrors = {} /\ pending = {} /\ recovery = "done"

(* A conversation that went on without the surface comes home: after a    *)
(* boot's pass, those missing are older than as many as the pass brings.   *)
Recovered ==
    Quiet => \A s \in Hosted :
        \/ transcript[s] = 0 \/ store[s] > 0 \/ s \in doubtful
        \/ Cardinality({t \in Hosted : t > s /\ store[t] > 0}) >= MaxRecovered

(* What is home is whole, unless its mirrors crossed or failed, or the     *)
(* daemon went on with a conversation the store already knew.              *)
HomeIsWhole ==
    Quiet => \A s \in Hosted : store[s] \in {0, transcript[s]} \/ s \in doubtful

(* A stored conversation never loses a turn, but by two mirrors of it      *)
(* whose answers land in the wrong order.                                  *)
NeverShrinks ==
    [][\A s \in Hosted : store'[s] >= store[s] \/ s \in doubtful]_vars

(* Every boot ends its pass, whatever fails.                               *)
PassEnds == recovery = "listing" ~> ~up \/ (recovery \in {"done", "failed"} /\ pending = {})

(* "newest last so the last-session pointer ends up on the most recent     *)
(* conversation" (hosted-session-mirror.ts:170).  Does not hold: README, 8. *)
PointerMovesForward ==
    [][\A m \in mirrors : m.turn = 0 /\ m \notin mirrors' /\ store' # store
            => pointer' >= pointer]_vars
============================================================================
