-------------------------- MODULE OnboardingApply --------------------------
(***************************************************************************)
(* The onboarding wizard's changes are applied all or not at all:          *)
(* runtime/onboarding/apply.ts and verify.ts.  Each operation first builds *)
(* its rollback from what is there, then changes one place - a settings    *)
(* key, a secret file, a profile directory, a registry file.  The first    *)
(* failure, or a failed verification, runs the rollbacks back to front.    *)
(*                                                                         *)
(* A place holds the operations that left their mark on it, and 0 for what *)
(* this request did not put there.  "set" replaces the content, "make"     *)
(* wants the place empty and is undone by deleting it, "add" extends a     *)
(* whole file and is undone by restoring it.                               *)
(***************************************************************************)
EXTENDS Integers, FiniteSets, Sequences

CONSTANTS
    NumOperations,
    Places,
    MaxForeign      \* bound: changes by somebody else while a request is applied

Operations == 1..NumOperations       \* in the order of orderApplyOperations()
Marks      == SUBSET (0..NumOperations)

VARIABLES
    kindOf, placeOf,  \* what each operation does, and where
    world,            \* the content of each place
    before,           \* what it was when the request came (history)
    phase,            \* of the request
    done,             \* operations applied so far
    rollbacks,        \* what undoes them, oldest first
    reported,         \* operations the result names as applied
    foreign,          \* places changed by somebody else meanwhile
    stuck             \* places a rollback failed to restore

request == <<kindOf, placeOf, before>>
vars == <<request, world, phase, done, rollbacks, reported, foreign, stuck>>

Phases == {"checking", "building", "applying", "verifying", "undoing", "ok", "failed"}

TypeOK ==
    /\ kindOf \in [Operations -> {"set", "make", "add"}]
    /\ placeOf \in [Operations -> Places]
    /\ world \in [Places -> Marks] /\ before \in [Places -> Marks]
    /\ phase \in Phases
    /\ done \in 0..NumOperations
    /\ rollbacks \in Seq([place : Places, content : Marks])
    /\ reported \subseteq Operations
    /\ foreign \subseteq Places /\ stuck \subseteq Places

\* orderApplyOperations(): the profiles that are made come together.
Init ==
    /\ kindOf \in [Operations -> {"set", "make", "add"}]
    /\ \A i, j, k \in Operations :
         i < j /\ j < k /\ kindOf[i] = "make" /\ kindOf[k] = "make" => kindOf[j] = "make"
    /\ placeOf \in [Operations -> Places]
    /\ world \in [Places -> {{}, {0}}] /\ before = world
    /\ phase = "checking" /\ done = 0 /\ rollbacks = <<>>
    /\ reported = {} /\ foreign = {} /\ stuck = {}

Current == done + 1
Here    == placeOf[Current]

\* prevalidateApplyRequest(): nothing is applied unless every operation passes.
Check ==
    /\ phase = "checking"
    /\ \/ phase' = "failed"
       \/ /\ \A i \in Operations : kindOf[i] = "make" => world[placeOf[i]] = {}
          /\ phase' = "building"
    /\ UNCHANGED <<request, world, done, rollbacks, reported, foreign, stuck>>

\* buildRollbackAction(), which is awaited.
Undo(i) == [place   |-> placeOf[i],
            content |-> IF kindOf[i] = "make" THEN {} ELSE world[placeOf[i]]]

Build ==
    /\ phase = "building" /\ done < NumOperations
    /\ \/ /\ rollbacks' = Append(rollbacks, Undo(Current))
          /\ phase' = "applying"
       \/ /\ phase' = "undoing"              \* it throws: nothing to undo for this one
          /\ UNCHANGED rollbacks
    /\ UNCHANGED <<request, world, done, reported, foreign, stuck>>

\* The operation is applied, or throws before or after it has left its mark.
Mark(i) == IF kindOf[i] = "add" THEN world[placeOf[i]] \cup {i} ELSE {i}

Apply ==
    /\ phase = "applying"
    /\ kindOf[Current] = "make" => world[Here] = {}
    /\ world' = [world EXCEPT ![Here] = Mark(Current)]
    /\ \/ /\ done' = Current
          /\ reported' = reported \cup {Current}
          /\ phase' = "building"
       \/ /\ phase' = "undoing"
          /\ UNCHANGED <<done, reported>>
    /\ UNCHANGED <<request, rollbacks, foreign, stuck>>

ApplyThrows ==
    /\ phase = "applying"
    /\ phase' = "undoing"
    /\ UNCHANGED <<request, world, done, rollbacks, reported, foreign, stuck>>

\* verifyOnboardingRequest(): every operation's mark must still be there.
Verify ==
    /\ phase = "building" /\ done = NumOperations
    /\ phase' = IF \A i \in Operations : i \in world[placeOf[i]] THEN "ok" ELSE "undoing"
    /\ UNCHANGED <<request, world, done, rollbacks, reported, foreign, stuck>>

\* runRollbacks(), back to front; one that fails does not stop the others.
Restore(entry, rest) ==
    /\ \/ world' = [world EXCEPT ![entry.place] = entry.content] /\ UNCHANGED stuck
       \/ stuck' = stuck \cup {entry.place} /\ UNCHANGED world
    /\ rollbacks' = rest

\* Variant: the first operation is undone first.
RollBack_Forward ==
    /\ phase = "undoing" /\ rollbacks # <<>>
    /\ Restore(Head(rollbacks), Tail(rollbacks))
    /\ UNCHANGED <<request, phase, done, reported, foreign>>

RollBack ==
    /\ phase = "undoing" /\ rollbacks # <<>>
    /\ Restore(rollbacks[Len(rollbacks)], SubSeq(rollbacks, 1, Len(rollbacks) - 1))
    /\ UNCHANGED <<request, phase, done, reported, foreign>>

Fail ==
    /\ phase = "undoing" /\ rollbacks = <<>>
    /\ phase' = "failed"
    /\ reported' = {}
    /\ UNCHANGED <<request, world, done, rollbacks, foreign, stuck>>

\* Another process, or the person, changes a place between two awaits.
Interfere(p) ==
    /\ phase \in Phases \ {"ok", "failed"}
    /\ Cardinality(foreign) < MaxForeign
    /\ world' = [world EXCEPT ![p] = @ \cup {0}]
    /\ foreign' = foreign \cup {p}
    /\ UNCHANGED <<request, phase, done, rollbacks, reported, stuck>>

Proceed == Check \/ Build \/ Apply \/ ApplyThrows \/ Verify \/ RollBack \/ Fail

Next ==
    \/ Proceed
    \/ \E p \in Places : Interfere(p)

Spec == Init /\ [][Next]_vars

FairSpec == Spec /\ WF_vars(Proceed)

----------------------------------------------------------------------------
(* A failed request leaves no trace: every place is as the request found   *)
(* it, unless somebody else changed it or its rollback failed.  Operations *)
(* on one place nest, so the order of the rollbacks and the one of the     *)
(* operation that threw half-way both count.                               *)
FailedLeavesNoTrace ==
    phase = "failed" => \A p \in Places \ (foreign \cup stuck) : world[p] = before[p]

(* A request that succeeded is in force, whole.                            *)
AppliedIsInForce ==
    phase = "ok" => /\ reported = Operations
                    /\ \A i \in Operations : i \in world[placeOf[i]]

(* What somebody else put down survives a failed request in every place it *)
(* did not address: whole files are restored, so it may be lost there.     *)
OthersAreKept ==
    phase = "failed" =>
        \A p \in foreign : 0 \in world[p] \/ \E i \in Operations : placeOf[i] = p /\ i <= done + 1

(* Every request is answered, whatever throws on the way.                  *)
EveryRequestEnds == <>(phase \in {"ok", "failed"})
============================================================================
