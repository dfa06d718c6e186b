----------------------- MODULE CalendarSubscriptions -----------------------
(***************************************************************************)
(* The registry of calendar subscriptions, agent/calendar-subscription-    *)
(* registry.ts, over the update queue of its store file.  The feed of a    *)
(* subscription is fetched outside the queue; the list is read and written *)
(* inside it, where the URL goes to the secret manager (external).         *)
(*                                                                         *)
(* A feed is named by the subscribe call that brought its URL; a record is *)
(* modelled by the feed whose events and masked URL it holds.  A refresh   *)
(* takes one name: refreshing all of them is as many refreshes, whose      *)
(* writes the code does in one.                                            *)
(***************************************************************************)
EXTENDS StoreFileQueue

CONSTANTS
    Names,
    KeyOf,      \* secretKeyForName()
    NoFeed

ASSUME FeedsAssumption == NoFeed \notin Updates

Calls == Updates
Keys  == {KeyOf[n] : n \in Names}

VARIABLES
    kind,      \* what each call does
    name,      \* the name it is about
    pc,        \* where it is
    seen,      \* what it has read: the list, or a refresh's feed for its name
    file,      \* the store file: the record of each name
    secrets,   \* the secret manager: the URL under each key
    outcome,   \* the answer each call gave
    relisted   \* names subscribed to anew while a refresh of them was out

vars == <<qvars, kind, name, pc, seen, file, secrets, outcome, relisted>>

Feeds == Calls \cup {NoFeed}
Lists == [Names -> Feeds]

TypeOK ==
    /\ QTypeOK
    /\ kind \in [Calls -> {"subscribe", "unsubscribe", "refresh"}]
    /\ name \in [Calls -> Names]
    /\ pc \in [Calls -> {"start", "fetching", "queued", "section", "writing", "done"}]
    /\ seen \in [Calls -> Lists]
    /\ file \in Lists
    /\ secrets \in [Keys -> Feeds]
    /\ outcome \in [Calls -> {"none", "added", "duplicate", "removed", "unknown",
                              "failed", "refreshed"}]
    /\ relisted \subseteq Names

Empty == [n \in Names |-> NoFeed]

Init ==
    /\ QInit
    /\ kind \in [Calls -> {"subscribe", "unsubscribe", "refresh"}]
    /\ name \in [Calls -> Names]
    /\ pc = [c \in Calls |-> "start"]
    /\ seen = [c \in Calls |-> Empty]
    /\ file = Empty
    /\ secrets = [k \in Keys |-> NoFeed]
    /\ outcome = [c \in Calls |-> "none"]
    /\ relisted = {}

Key(c)         == KeyOf[name[c]]
Goto(c, stg)   == pc' = [pc EXCEPT ![c] = stg]
Answer(c, what) == outcome' = [outcome EXCEPT ![c] = what] /\ Goto(c, "done")
Saw(c, feed)   == [seen EXCEPT ![c] = [Empty EXCEPT ![name[c]] = feed]]

\* withMutationLock(): the rest of the call joins the queue.
Join(c) == Enqueue(c) /\ Goto(c, "queued")

----------------------------------------------------------------------------
(* Outside the queue. *)

\* subscribe(), to the end of its fetch.
FetchFeed(c) ==
    /\ pc[c] = "start" /\ kind[c] = "subscribe"
    /\ \/ Join(c) /\ UNCHANGED outcome
       \/ Answer(c, "failed") /\ UNCHANGED qvars
    /\ UNCHANGED <<kind, name, seen, file, secrets, relisted>>

CallUnsubscribe(c) ==
    /\ pc[c] = "start" /\ kind[c] = "unsubscribe"
    /\ Join(c)
    /\ UNCHANGED <<kind, name, seen, file, secrets, outcome, relisted>>

\* refresh(), to the read of the secret: its targets are read unlocked.
CallRefresh(c) ==
    /\ pc[c] = "start" /\ kind[c] = "refresh"
    /\ IF file[name[c]] # NoFeed THEN Goto(c, "fetching") /\ UNCHANGED outcome
                                 ELSE Answer(c, "refreshed")
    /\ UNCHANGED <<qvars, kind, name, seen, file, secrets, relisted>>

\* secrets.get() and the conditional fetch.
FetchAgain(c) ==
    /\ pc[c] = "fetching"
    /\ \/ /\ secrets[Key(c)] = NoFeed
          /\ Answer(c, "refreshed")
          /\ UNCHANGED <<qvars, seen>>
       \/ /\ secrets[Key(c)] # NoFeed
          /\ seen' = Saw(c, secrets[Key(c)])
          /\ Join(c)
          /\ UNCHANGED outcome
    /\ UNCHANGED <<kind, name, file, secrets, relisted>>

----------------------------------------------------------------------------
(* Inside it. *)

\* Variant: a failed update never settles its place in the queue.
EndSection_Wedges(c, what) ==
    (IF what = "failed" THEN UNCHANGED qvars ELSE Settle(c)) /\ Answer(c, what)

EndSection(c, what) == Settle(c) /\ Answer(c, what)

Enter(c) ==
    /\ pc[c] = "queued"
    /\ Run(c)
    /\ Goto(c, "section")
    /\ seen' = IF kind[c] = "refresh" THEN seen ELSE [seen EXCEPT ![c] = file]
    /\ UNCHANGED <<kind, name, file, secrets, outcome, relisted>>

\* subscribe(): the duplicate check, then the URL is stored.
StoreUrl(c) ==
    /\ pc[c] = "section" /\ kind[c] = "subscribe"
    /\ \/ /\ seen[c][name[c]] # NoFeed
          /\ EndSection(c, "duplicate")
          /\ UNCHANGED secrets
       \/ /\ seen[c][name[c]] = NoFeed
          /\ secrets' = [secrets EXCEPT ![Key(c)] = c]
          /\ Goto(c, "writing")
          /\ UNCHANGED <<qvars, outcome>>
       \/ /\ seen[c][name[c]] = NoFeed
          /\ EndSection(c, "failed")       \* secrets.set() rejects
          /\ UNCHANGED secrets
    /\ UNCHANGED <<kind, name, seen, file, relisted>>

WriteAdded(c) ==
    /\ pc[c] = "writing" /\ kind[c] = "subscribe"
    /\ file' = [seen[c] EXCEPT ![name[c]] = c]
    /\ relisted' = relisted \cup
         {n \in {name[c]} : \E r \in Calls : kind[r] = "refresh" /\ name[r] = n
                                             /\ pc[r] \in {"fetching", "queued"}}
    /\ EndSection(c, "added")
    /\ UNCHANGED <<kind, name, seen, secrets>>

\* unsubscribe(): a failed delete of the secret is ignored.
DropUrl(c) ==
    /\ pc[c] = "section" /\ kind[c] = "unsubscribe"
    /\ \/ /\ seen[c][name[c]] = NoFeed
          /\ EndSection(c, "unknown")
          /\ UNCHANGED secrets
       \/ /\ seen[c][name[c]] # NoFeed
          /\ secrets' \in {secrets, [secrets EXCEPT ![Key(c)] = NoFeed]}
          /\ Goto(c, "writing")
          /\ UNCHANGED <<qvars, outcome>>
    /\ UNCHANGED <<kind, name, seen, file, relisted>>

WriteRemoved(c) ==
    /\ pc[c] = "writing" /\ kind[c] = "unsubscribe"
    /\ file' = [seen[c] EXCEPT ![name[c]] = NoFeed]
    /\ EndSection(c, "removed")
    /\ UNCHANGED <<kind, name, seen, secrets, relisted>>

\* Variant: the record is written back whether or not it is still listed.
Merge_Resurrects(c) ==
    /\ pc[c] = "section" /\ kind[c] = "refresh"
    /\ file' = [file EXCEPT ![name[c]] = seen[c][name[c]]]
    /\ EndSection(c, "refreshed")
    /\ UNCHANGED <<kind, name, seen, secrets, relisted>>

\* refresh(): its record is merged into the list as it is now.
Merge(c) ==
    /\ pc[c] = "section" /\ kind[c] = "refresh"
    /\ file' = [n \in Names |-> IF n = name[c] /\ file[n] # NoFeed
                                THEN seen[c][n] ELSE file[n]]
    /\ EndSection(c, "refreshed")
    /\ UNCHANGED <<kind, name, seen, secrets, relisted>>

\* The entry of the queue's map.
CleanUp(c) ==
    /\ Drop(c)
    /\ UNCHANGED <<kind, name, pc, seen, file, secrets, outcome, relisted>>

Step(c) ==
    \/ FetchFeed(c) \/ CallUnsubscribe(c) \/ CallRefresh(c) \/ FetchAgain(c)
    \/ Enter(c) \/ StoreUrl(c) \/ WriteAdded(c) \/ DropUrl(c) \/ WriteRemoved(c)
    \/ Merge(c) \/ CleanUp(c)

Next == \E c \in Calls : Step(c)

Spec == Init /\ [][Next]_vars

\* Fetches and secret calls settle.
FairSpec == Spec /\ \A c \in Calls : WF_vars(Step(c))

----------------------------------------------------------------------------
(* Every call takes effect at once, in its section: unlocked fetches and   *)
(* the awaits inside a section do not show ("a record removed by a         *)
(* concurrent unsubscribe is never resurrected").                          *)
List == INSTANCE SubscriptionList
            WITH Callers <- Calls, listed <- {n \in Names : file[n] # NoFeed}

ActsAtOnce == List!Spec

(* A record on the list holds the events of the feed whose URL is stored   *)
(* for it, or its URL is gone, unless the name was subscribed to anew      *)
(* while a refresh was out - the merge goes by name - or shares its key.   *)
OneFeed ==
    \A n \in Names :
        \/ n \in relisted
        \/ \E m \in Names \ {n} : KeyOf[m] = KeyOf[n]
        \/ file[n] # NoFeed => secrets[KeyOf[n]] \in {file[n], NoFeed}

(* A failed or slow update never wedges the ones behind it.                *)
EveryCallEnds == <>(\A c \in Calls : pc[c] = "done")
============================================================================
