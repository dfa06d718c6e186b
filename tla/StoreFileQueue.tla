--------------------------- MODULE StoreFileQueue ---------------------------
(***************************************************************************)
(* The queue of updates of one store file: runStoreFileUpdate() of         *)
(* utils/store-file.ts.  An update is chained behind the promise that the  *)
(* map holds for the path, and the map's entry is dropped once the update  *)
(* that made it has settled and is still the last.                         *)
(***************************************************************************)
EXTENDS Integers

CONSTANT Updates

VARIABLES
    stage,    \* of each update: "new", "queued", "running" or "settled"
    behind,   \* the update each was chained behind, as a set of at most one
    tail,     \* the entry of the map, as a set of at most one
    ticket,   \* the order in which they came (history)
    issued    \* tickets given

qvars == <<stage, behind, tail, ticket, issued>>

QTypeOK ==
    /\ stage \in [Updates -> {"new", "queued", "running", "settled"}]
    /\ behind \in [Updates -> SUBSET Updates]
    /\ tail \in SUBSET Updates
    /\ ticket \in [Updates -> Nat] /\ issued \in Nat

QInit ==
    /\ stage = [u \in Updates |-> "new"]
    /\ behind = [u \in Updates |-> {}]
    /\ tail = {}
    /\ ticket = [u \in Updates |-> 0] /\ issued = 0

\* runStoreFileUpdate(), called.
Enqueue(u) ==
    /\ stage[u] = "new"
    /\ stage' = [stage EXCEPT ![u] = "queued"]
    /\ behind' = [behind EXCEPT ![u] = tail]
    /\ tail' = {u}
    /\ issued' = issued + 1
    /\ ticket' = [ticket EXCEPT ![u] = issued + 1]

\* previous.then(update, update): whatever the previous update came to.
Run(u) ==
    /\ stage[u] = "queued"
    /\ \A p \in behind[u] : stage[p] = "settled"
    /\ stage' = [stage EXCEPT ![u] = "running"]
    /\ UNCHANGED <<behind, tail, ticket, issued>>

Settle(u) ==
    /\ stage[u] = "running"
    /\ stage' = [stage EXCEPT ![u] = "settled"]
    /\ UNCHANGED <<behind, tail, ticket, issued>>

\* Variant: any update that settles clears the path's entry.
Drop_Any(u) ==
    /\ stage[u] = "settled"
    /\ tail # {}
    /\ tail' = {}
    /\ UNCHANGED <<stage, behind, ticket, issued>>

\* The clean-up chained to the tail.
Drop(u) ==
    /\ stage[u] = "settled"
    /\ tail = {u}
    /\ tail' = {}
    /\ UNCHANGED <<stage, behind, ticket, issued>>

QNext == \E u \in Updates : Enqueue(u) \/ Run(u) \/ Settle(u) \/ Drop(u)

QSpec == QInit /\ [][QNext]_qvars

----------------------------------------------------------------------------
(* One update of a file at a time, also while the map's entry comes and    *)
(* goes: an entry dropped by any but the last update would let the next    *)
(* one start beside those still queued.                                    *)
OneAtATime ==
    \A u, v \in Updates : stage[u] = "running" /\ stage[v] = "running" => u = v

(* In the order they came.                                                 *)
InOrder ==
    \A u, v \in Updates :
        stage[u] \in {"running", "settled"} /\ stage[v] # "new" /\ ticket[v] < ticket[u]
            => stage[v] = "settled"
============================================================================
