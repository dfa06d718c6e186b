----------------------------- MODULE MCServices -----------------------------
(* The parts of Services, checked one at a time in one run: `part` says     *)
(* which of them moves.  README section 4 says why the constants are enough.*)
EXTENDS Services

CONSTANTS c1, c2, c3, c4, n1, m1, m2, m3, s1, s2, s3, h1, h2, w1, w2, w3, p1, p2,
          r1, r2, a1, a2, k1, k2

FourCalls       == {c1, c2, c3, c4}
OneName         == {n1}
OwnKey          == [n \in OneName |-> n]
ThreeMessages   == {m1, m2, m3}
OneConversation == [m \in ThreeMessages |-> n1]
ThreeSessions   == {s1, s2, s3}
TwoReconciles   == {h1, h2}
ThreeRefreshes  == {w1, w2, w3}
TwoPlaces       == {p1, p2}
\* One root of the agent's older list, and one only the other products may know.
TwoRoots        == {r1, r2}
TwoSlots        == {a1, a2}
TwoCallers      == {k1, k2}

calendarVars == vars
handoffVars  == <<enabled, outdated, alive, opened, ran, here, messagePc, target, promoted,
                  overlapped>>
mirrorVars   == <<transcript, store, pointer, mirrors, recovery, pending, up, boots, doubtful>>
adoptionVars == <<daemon, changes, owed, at, carried, booted, active, dispatch, refused,
                  announced, taken, buffer, sink, shown, attaches, overlapping, swapped>>
wakeVars     == <<wanted, provisioned, wakePc, listener, open, stopped, answered, torn,
                  lateFetch, lateRefusal>>
applyVars    == <<kindOf, placeOf, world, before, phase, done, rollbacks, reported, foreign, stuck>>
registerVars == <<legacy, register, migration, backfill, launches, job, root, atStep, snap, stale,
                  crossed, word>>
draftsVars   == <<mirror, held, calls, began, made, composed, arrived, kept, exposed, evicted,
                  revised, brokenOff, unheard>>

\* The calls are interchangeable: only one order of the same kinds is looked at.
Ordered     == <<c1, c2, c3, c4>>
KindRank(k) == CASE k = "subscribe" -> 1 [] k = "unsubscribe" -> 2 [] k = "refresh" -> 3

PartsInit ==
    /\ part \in {"calendar", "handoff", "mirror", "adoption", "wake", "apply", "register",
                 "drafts"}
    /\ Init
    /\ part # "calendar" => \A c \in Calls : kind[c] = "refresh"
    /\ \A i, j \in 1..4 : i < j => KindRank(kind[Ordered[i]]) <= KindRank(kind[Ordered[j]])
    /\ Handoff!Init
    /\ part # "handoff" => enabled
    /\ Mirror!Init
    /\ Adoption!Init
    /\ part # "adoption" => daemon = "down"
    /\ Wake!Init
    /\ part # "wake" => provisioned
    /\ Apply!Init
    /\ part # "apply" => /\ \A i \in Apply!Operations : kindOf[i] = "set" /\ placeOf[i] = p1
                        /\ \A p \in Places : world[p] = {}
    /\ Register!Init
    /\ IF part = "register" THEN r2 \notin legacy
                            ELSE legacy = {} /\ migration = "absent" /\ register[r1] = "absent"
    /\ register[r2] = "absent"
    /\ Drafts!Init

otherThanCalendar == <<part, handoffVars, mirrorVars, adoptionVars, wakeVars, applyVars, registerVars, draftsVars>>
otherThanHandoff  == <<part, calendarVars, mirrorVars, adoptionVars, wakeVars, applyVars, registerVars, draftsVars>>
otherThanMirror   == <<part, calendarVars, handoffVars, adoptionVars, wakeVars, applyVars, registerVars, draftsVars>>
otherThanAdoption == <<part, calendarVars, handoffVars, mirrorVars, wakeVars, applyVars, registerVars, draftsVars>>
otherThanWake     == <<part, calendarVars, handoffVars, mirrorVars, adoptionVars, applyVars, registerVars, draftsVars>>
otherThanApply    == <<part, calendarVars, handoffVars, mirrorVars, adoptionVars, wakeVars, registerVars, draftsVars>>
otherThanRegister == <<part, calendarVars, handoffVars, mirrorVars, adoptionVars, wakeVars, applyVars, draftsVars>>
otherThanDrafts   == <<part, calendarVars, handoffVars, mirrorVars, adoptionVars, wakeVars, applyVars, registerVars>>
allVars           == <<applyVars, otherThanApply>>

PartsNext ==
    \/ part = "calendar" /\ Next          /\ UNCHANGED otherThanCalendar
    \/ part = "handoff"  /\ Handoff!Next  /\ UNCHANGED otherThanHandoff
    \/ part = "mirror"   /\ Mirror!Next   /\ UNCHANGED otherThanMirror
    \/ part = "adoption" /\ Adoption!Next /\ UNCHANGED otherThanAdoption
    \/ part = "wake"     /\ Wake!Next     /\ UNCHANGED otherThanWake
    \/ part = "apply"    /\ Apply!Next    /\ UNCHANGED otherThanApply
    \/ part = "register" /\ Register!Next /\ UNCHANGED otherThanRegister
    \/ part = "drafts"   /\ Drafts!Next   /\ UNCHANGED otherThanDrafts

PartsSpec == PartsInit /\ [][PartsNext]_allVars

\* Each part's own fairness, while it is the one that moves.
PartsFairSpec ==
    /\ PartsSpec
    /\ \A c \in Calls : WF_calendarVars(part = "calendar" /\ Step(c))
    /\ \A m \in Messages :
         WF_handoffVars(part = "handoff" /\ (Handoff!Starts(m) \/ Handoff!Settles(m)))
    /\ WF_mirrorVars(part = "mirror" /\ (Mirror!Boot \/ Mirror!Surface
                                          \/ \E m \in mirrors : Mirror!Attach(m)))
    /\ \A h \in Reconciles : WF_adoptionVars(part = "adoption" /\ Adoption!Step(h))
    /\ \A w \in Refreshes : WF_wakeVars(part = "wake" /\ Wake!Settles(w))
    /\ WF_applyVars(part = "apply" /\ Apply!Proceed)

----------------------------------------------------------------------------
(* The properties of the parts, whose modules state and comment them.       *)

PartsTypeOK ==
    /\ part = "calendar" => TypeOK
    /\ part = "handoff" => Handoff!TypeOK
    /\ part = "mirror" => Mirror!TypeOK
    /\ part = "adoption" => Adoption!TypeOK
    /\ part = "wake" => Wake!TypeOK
    /\ part = "apply" => Apply!TypeOK
    /\ part = "register" => Register!TypeOK
    /\ part = "drafts" => Drafts!TypeOK

\* Whatever is begun ends, on its error paths too: a change of the registry, a
\* hand-off, a recovery pass, the pursuit of the daemon, a switch to on, a request.
EverythingEnds ==
    /\ part = "calendar" => EveryCallEnds
    /\ part = "handoff"  => Handoff!EveryMessageSettles
    /\ part = "mirror"   => Mirror!PassEnds
    /\ part = "adoption" => Adoption!Follows
    /\ part = "wake"     => Wake!OnIsAnswered
    /\ part = "apply"    => Apply!EveryRequestEnds
============================================================================
