--------------------------- MODULE DaemonAdoption ---------------------------
(***************************************************************************)
(* Whether this process routes its memory and its inbound work over the    *)
(* wire: runtime/memory-spine-adoption.ts with what bootstrap.ts and       *)
(* services.ts plug into it - the reachability probe, the judgement of the *)
(* daemon's build, the session dispatch, the one-shot receipts.  It is     *)
(* reconciled at boot and then on every heartbeat, which does not wait for *)
(* the reconciliation before.                                              *)
(*                                                                         *)
(* The daemon is external: absent, below the build floor, or usable.  A    *)
(* receipt is a number; 0 is the notice that the daemon is too old.        *)
(***************************************************************************)
EXTENDS Integers

CONSTANTS
    Reconciles,   \* reconciliations in flight; one that has ended starts anew
    MaxChanges    \* bound: changes of the daemon, each raising a receipt

VARIABLES
    daemon,       \* "down", "old" or "good"
    changes,      \* how often it changed
    owed,         \* receipts it has yet to deliver
    at,           \* where each reconciliation is
    carried,      \* the receipts each was handed
    booted,       \* has the boot's reconciliation ended?
    active,       \* is the memory spine routed over the wire?
    dispatch,     \* is the daemon polled for inbound work?
    refused,      \* the build guard's verdict
    announced,    \* has the guard announced it?
    taken,        \* ids the receipt feed has seen
    buffer,       \* receipts it keeps until the shell attaches its sink
    sink,         \* has it?
    shown,        \* receipts the person was shown
    attaches,     \* calls of onAttach since the last release
    overlapped,   \* did two reconciliations ever overlap?
    swapped       \* did an old daemon appear unprobed, behind an adoption?

world == <<daemon, changes>>
guard == <<refused, announced>>
feed  == <<taken, buffer, shown>>
vars  == <<world, owed, at, carried, booted, active, dispatch, guard, feed, sink,
           attaches, overlapped, swapped>>

Receipts == 0..MaxChanges

TypeOK ==
    /\ daemon \in {"down", "old", "good"} /\ changes \in 0..MaxChanges
    /\ owed \subseteq Receipts
    /\ at \in [Reconciles -> {"idle", "probing", "judging", "attached", "consuming", "landing"}]
    /\ carried \in [Reconciles -> SUBSET Receipts]
    /\ {booted, active, dispatch, refused, announced, sink, overlapped, swapped} \subseteq BOOLEAN
    /\ {taken, buffer, shown} \subseteq SUBSET Receipts
    /\ attaches \in Nat

Init ==
    /\ daemon \in {"down", "old", "good"} /\ changes = 0
    /\ owed = {}
    /\ at = [r \in Reconciles |-> "idle"]
    /\ carried = [r \in Reconciles |-> {}]
    /\ booted = FALSE /\ active = FALSE /\ dispatch = FALSE
    /\ refused = FALSE /\ announced = FALSE
    /\ taken = {} /\ buffer = {} /\ sink = FALSE /\ shown = {}
    /\ attaches = 0 /\ overlapped = FALSE /\ swapped = FALSE

Goto(r, stage) == at' = [at EXCEPT ![r] = stage]
Busy           == {r \in Reconciles : at[r] # "idle"}

\* AgentDaemonReceiptFeed.push()
Push(receipts) ==
    LET new == receipts \ taken IN
    /\ taken' = taken \cup new
    /\ IF sink THEN shown' = shown \cup new /\ UNCHANGED buffer
               ELSE buffer' = buffer \cup new /\ UNCHANGED shown

AttachSink ==
    /\ ~sink
    /\ sink' = TRUE
    /\ shown' = shown \cup buffer
    /\ buffer' = {}
    /\ UNCHANGED <<world, owed, at, carried, booted, active, dispatch, guard, taken,
                   attaches, overlapped, swapped>>

\* The daemon stops, starts, or is updated.
Change ==
    /\ changes < MaxChanges
    /\ changes' = changes + 1
    /\ daemon' \in {"down", "old", "good"} \ {daemon}
    /\ owed' = owed \cup {changes'}
    /\ swapped' = (swapped \/ (daemon' = "old" /\ (active \/ \E r \in Reconciles : at[r] = "judging")))
    /\ UNCHANGED <<at, carried, booted, active, dispatch, guard, feed, sink, attaches, overlapped>>

----------------------------------------------------------------------------
(* reconcileMemorySpineAdoption() *)

\* At boot, then on a heartbeat.
Start(r) ==
    /\ at[r] = "idle"
    /\ booted \/ Busy = {}
    /\ Goto(r, "probing")
    /\ overlapped' = (overlapped \/ Busy # {})
    /\ UNCHANGED <<world, owed, carried, booted, active, dispatch, guard, feed, sink,
                   attaches, swapped>>

Release ==
    /\ active' = FALSE /\ dispatch' = FALSE
    /\ attaches' = 0 /\ swapped' = FALSE

Probed(r) ==
    /\ at[r] = "probing"
    /\ \/ /\ daemon # "down" /\ ~active
          /\ Goto(r, "judging")
          /\ UNCHANGED <<booted, active, dispatch, attaches, swapped>>
       \/ /\ daemon = "down" /\ active
          /\ Release
          /\ Goto(r, "idle") /\ booted' = TRUE
       \/ /\ (daemon # "down") = active
          /\ Goto(r, "idle") /\ booted' = TRUE
          /\ UNCHANGED <<active, dispatch, attaches, swapped>>
    /\ UNCHANGED <<world, owed, carried, guard, feed, sink, overlapped>>

\* The verdict "daemon update required"; it is announced once while it lasts.
Refuse ==
    /\ refused' = TRUE /\ announced' = TRUE
    /\ IF announced THEN UNCHANGED feed ELSE Push({0})

\* activate(), and the synchronous part of onAttach.
Adopt(r) ==
    /\ active' = TRUE /\ dispatch' = TRUE
    /\ attaches' = attaches + 1
    /\ Goto(r, "attached")

\* Variant: a daemon is adopted because it answers, whatever its build.
Judged_ByReach(r) ==
    /\ at[r] = "judging"
    /\ Adopt(r)
    /\ UNCHANGED <<booted, guard, feed, world, owed, carried, sink, overlapped, swapped>>

\* mayAdoptDaemonBuild(): nothing read is nothing known.
Judged(r) ==
    /\ at[r] = "judging"
    /\ \/ /\ daemon = "old"
          /\ Refuse
          /\ Goto(r, "idle") /\ booted' = TRUE
          /\ UNCHANGED <<active, dispatch, attaches>>
       \/ /\ daemon = "good"
          /\ refused' = FALSE /\ announced' = FALSE
          /\ Adopt(r)
          /\ UNCHANGED <<booted, feed>>
       \/ /\ daemon = "down"
          /\ Adopt(r)
          /\ UNCHANGED <<booted, guard, feed>>
    /\ UNCHANGED <<world, owed, carried, sink, overlapped, swapped>>

\* consumeDaemonReceipts(): first a plain read for the latched verdict, ...
Observed(r) ==
    /\ at[r] = "attached"
    /\ Goto(r, "consuming")
    /\ IF daemon = "old" /\ ~refused THEN Refuse ELSE UNCHANGED <<guard, feed>>
    /\ UNCHANGED <<world, owed, carried, booted, active, dispatch, sink, attaches,
                   overlapped, swapped>>

\* ... then the read that the daemon delivers to, once.
Consume(r) ==
    /\ at[r] = "consuming"
    /\ IF daemon = "down" THEN UNCHANGED <<owed, carried>>
       ELSE carried' = [carried EXCEPT ![r] = owed] /\ owed' = {}
    /\ Goto(r, "landing")
    /\ UNCHANGED <<world, booted, active, dispatch, guard, feed, sink, attaches,
                   overlapped, swapped>>

Land(r) ==
    /\ at[r] = "landing"
    /\ Push(carried[r])
    /\ carried' = [carried EXCEPT ![r] = {}]
    /\ Goto(r, "idle") /\ booted' = TRUE
    /\ UNCHANGED <<world, owed, active, dispatch, guard, sink, attaches, overlapped, swapped>>

Step(r) == Start(r) \/ Probed(r) \/ Judged(r) \/ Observed(r) \/ Consume(r) \/ Land(r)

Next == Change \/ AttachSink \/ \E r \in Reconciles : Step(r)

Spec == Init /\ [][Next]_vars

\* The heartbeat goes on (watchers.enabled), and its calls settle.
FairSpec == Spec /\ \A r \in Reconciles : WF_vars(Step(r))

----------------------------------------------------------------------------
(* The spine and the dispatch follow the daemon: adopted if it stays       *)
(* usable, back on the local store if it stays away, whatever overlapped.  *)
Follows ==
    /\ <>[](daemon = "good") => <>[](active /\ dispatch)
    /\ <>[](daemon = "down") => <>[](~active /\ ~dispatch)

(* A daemon below the floor is not used, unless it took the place of one   *)
(* that was - between its probe and its judgement, or unseen by any probe: *)
(* a daemon that answers is not judged again.                              *)
OldIsNotUsed == active /\ daemon = "old" => swapped

(* onAttach is called once per adoption; reconciliations that overlap      *)
(* each adopt, since `active` is not looked at again after mayAdopt().     *)
OncePerAttach == attaches <= 1 \/ overlapped

(* A receipt is delivered to one reader only, and shown: it is owed, on    *)
(* its way, kept for the sink, or was shown once.                          *)
NoReceiptLost ==
    /\ 1..changes = (owed \cup (UNION {carried[r] : r \in Reconciles}) \cup buffer \cup shown) \ {0}
    /\ buffer \cap shown = {}
    /\ sink => buffer = {}

(* A refused daemon is not refused in silence.                             *)
RefusalIsSaid == refused /\ sink => 0 \in shown

(* "the next refusal gets to speak again" (daemon-build-compatibility.ts): *)
(* the notice has one id, so the receipt feed takes it only once, and this *)
(* does not hold: README, 8.                                               *)
EachRefusalIsSaid == [][refused' /\ ~refused => taken' # taken]_vars
============================================================================
