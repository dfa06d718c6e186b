-------------------------- MODULE SubscriptionList --------------------------
(***************************************************************************)
(* What the list of calendar subscriptions promises its callers: each call *)
(* takes effect at once and answers what it did.  Nothing but subscribe    *)
(* and unsubscribe changes who is on the list, so a refresh never brings   *)
(* back what was removed nor loses what was added.                         *)
(***************************************************************************)
CONSTANTS Names, Callers

VARIABLES
    listed,    \* the names subscribed to
    outcome    \* the answer to each call

Init == listed = {} /\ outcome = [c \in Callers |-> "none"]

Answer(c, what) ==
    /\ outcome[c] = "none"
    /\ outcome' = [outcome EXCEPT ![c] = what]

Subscribe(c, n) == n \notin listed /\ listed' = listed \cup {n} /\ Answer(c, "added")
Duplicate(c, n) == n \in listed /\ UNCHANGED listed /\ Answer(c, "duplicate")
Unsubscribe(c, n) == n \in listed /\ listed' = listed \ {n} /\ Answer(c, "removed")
Unknown(c, n) == n \notin listed /\ UNCHANGED listed /\ Answer(c, "unknown")
NoChange(c) == UNCHANGED listed /\ \E what \in {"failed", "refreshed"} : Answer(c, what)

Next ==
    \E c \in Callers :
        \/ \E n \in Names : Subscribe(c, n) \/ Duplicate(c, n) \/ Unsubscribe(c, n) \/ Unknown(c, n)
        \/ NoChange(c)

Spec == Init /\ [][Next]_<<listed, outcome>>
============================================================================
