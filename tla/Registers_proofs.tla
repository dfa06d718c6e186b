-------------------------- MODULE Registers_proofs --------------------------
(***************************************************************************)
(* What the files of Services that several hold at once promise, for any   *)
(* number of callers, names, roots and processes.                          *)
(*                                                                         *)
(* The calendar subscriptions: the queue of their file lets one update in  *)
(* at a time, since an entry of its map is dropped only when nothing waits *)
(* behind it; so what a call read in its section is the list as it stands. *)
(* The workspace register and the drafts have no queue: what a launch or a *)
(* call read is the file while nobody wrote over it, which `crossed` and   *)
(* `exposed` tell.                                                         *)
(*                                                                         *)
(* At the end all parts, with those of Services_proofs, are run as one.    *)
(***************************************************************************)
EXTENDS MCServices, Services_proofs, SequenceTheorems, TLAPS

----------------------------------------------------------------------------
(* The queue of one store file. *)

\* The tickets given number the updates that came.
Ticketed ==
    /\ \A u \in Updates : stage[u] # "new" => ticket[u] \in 1..issued
    /\ \A u, v \in Updates :
         stage[u] # "new" /\ stage[v] # "new" /\ ticket[u] = ticket[v] => u = v

\* The map's entry is the last that came; without one, nothing waits or runs.
TailIsLast ==
    /\ \A u \in tail : stage[u] # "new" /\ ticket[u] = issued
    /\ tail = {} => \A u \in Updates : stage[u] \in {"new", "settled"}

\* Whatever came before a waiting update is settled, or before what it waits for.
WaitsForTheRest ==
    \A u, v \in Updates :
      stage[u] = "queued" /\ stage[v] # "new" /\ ticket[v] < ticket[u] =>
        \/ stage[v] = "settled"
        \/ \E p \in behind[u] : stage[p] # "new" /\ ticket[v] <= ticket[p] /\ ticket[p] < ticket[u]

QueueInv == QTypeOK /\ Ticketed /\ TailIsLast /\ WaitsForTheRest /\ InOrder

LEMMA QueueInit == QInit => QueueInv
  BY DEF QInit, QueueInv, QTypeOK, Ticketed, TailIsLast, WaitsForTheRest, InOrder

LEMMA QueuePreserved ==
  ASSUME QueueInv, [QNext]_qvars
  PROVE  QueueInv'
<1>. USE DEF QueueInv, QTypeOK, Ticketed, TailIsLast, WaitsForTheRest, InOrder
<1>1. ASSUME NEW u \in Updates, Enqueue(u)
      PROVE  QueueInv'
  <2>1. /\ stage[u] = "new" /\ stage' = [stage EXCEPT ![u] = "queued"]
        /\ behind' = [behind EXCEPT ![u] = tail] /\ tail' = {u}
        /\ issued' = issued + 1 /\ ticket' = [ticket EXCEPT ![u] = issued + 1]
    BY <1>1 DEF Enqueue
  <2>2. QTypeOK' /\ Ticketed' /\ TailIsLast'
    BY <2>1
  <2>3. InOrder'
    BY <2>1
  <2>4. WaitsForTheRest'
    BY <2>1
  <2>. QED  BY <2>2, <2>3, <2>4
<1>2. ASSUME NEW u \in Updates, Run(u)
      PROVE  QueueInv'
  <2>1. /\ stage[u] = "queued" /\ \A p \in behind[u] : stage[p] = "settled"
        /\ stage' = [stage EXCEPT ![u] = "running"]
        /\ UNCHANGED <<behind, tail, ticket, issued>>
    BY <1>2 DEF Run
  <2>2. ASSUME NEW v \in Updates, stage[v] # "new", ticket[v] < ticket[u]
        PROVE  stage[v] = "settled"
    BY <2>1, <2>2
  <2>3. QTypeOK' /\ Ticketed' /\ TailIsLast' /\ WaitsForTheRest'
    BY <2>1
  <2>4. InOrder'
    BY <2>1, <2>2
  <2>. QED  BY <2>3, <2>4
<1>3. ASSUME NEW u \in Updates, Settle(u)
      PROVE  QueueInv'
  BY <1>3 DEF Settle
<1>4. ASSUME NEW u \in Updates, Drop(u)
      PROVE  QueueInv'
  <2>1. \A v \in Updates : stage[v] \in {"new", "settled"}
    BY <1>4 DEF Drop
  <2>. QED  BY <1>4, <2>1 DEF Drop
<1>5. CASE UNCHANGED qvars
  BY <1>5 DEF qvars
<1>. QED  BY <1>1, <1>2, <1>3, <1>4, <1>5 DEF QNext

\* An update that runs is alone: of two, the one with the later ticket would have
\* waited for the other.
LEMMA RunsAlone == QueueInv => OneAtATime
  BY DEF QueueInv, QTypeOK, Ticketed, InOrder, OneAtATime

----------------------------------------------------------------------------
(* The registry of calendar subscriptions. *)

LEMMA CalendarInit == Init => TypeOK
  BY DEF Init, TypeOK, QInit, QTypeOK, Empty, Lists, Feeds

LEMMA QueueTypePreserved ==
  ASSUME QTypeOK, [QNext]_qvars
  PROVE  QTypeOK'
  BY DEF QTypeOK, QNext, Enqueue, Run, Settle, Drop, qvars

\* A step of a call steps the queue, or leaves it alone.
LEMMA StepsTheQueue ==
  ASSUME NEW c \in Calls, Step(c)
  PROVE  [QNext]_qvars
  BY DEF Calls, Step, FetchFeed, CallUnsubscribe, CallRefresh, FetchAgain, Enter, StoreUrl,
         WriteAdded, DropUrl, WriteRemoved, Merge, CleanUp, Join, EndSection, QNext

LEMMA CalendarTypePreserved ==
  ASSUME TypeOK, [Next]_vars
  PROVE  TypeOK'
<1>. USE DEF TypeOK, Goto, Answer, Join, EndSection
<1>1. QTypeOK'
  BY StepsTheQueue, QueueTypePreserved DEF Next, vars
<1>2. ASSUME NEW c \in Calls, FetchFeed(c) \/ CallUnsubscribe(c) \/ CallRefresh(c)
      PROVE  TypeOK'
  BY <1>1, <1>2 DEF FetchFeed, CallUnsubscribe, CallRefresh
<1>3. ASSUME NEW c \in Calls, FetchAgain(c)
      PROVE  TypeOK'
  <2>1. secrets[Key(c)] \in Feeds
    BY DEF Key, Keys
  <2>2. Saw(c, secrets[Key(c)]) \in [Calls -> Lists]
    <3>1. Empty \in Lists
      BY DEF Empty, Lists, Feeds
    <3>2. [Empty EXCEPT ![name[c]] = secrets[Key(c)]] \in Lists
      BY <2>1, <3>1 DEF Lists
    <3>. QED  BY <3>2 DEF Saw
  <2>. QED  BY <1>1, <1>3, <2>2 DEF FetchAgain
<1>4. ASSUME NEW c \in Calls, Enter(c)
      PROVE  TypeOK'
  <2>1. seen' \in [Calls -> Lists]
    BY <1>4 DEF Enter
  <2>. QED  BY <1>1, <1>4, <2>1 DEF Enter
<1>5. ASSUME NEW c \in Calls, StoreUrl(c) \/ DropUrl(c)
      PROVE  TypeOK'
  <2>1. Key(c) \in Keys /\ c \in Feeds /\ NoFeed \in Feeds
    BY DEF Key, Keys, Feeds
  <2>2. secrets' \in [Keys -> Feeds]
    BY <1>5, <2>1 DEF StoreUrl, DropUrl
  <2>. QED  BY <1>1, <1>5, <2>2 DEF StoreUrl, DropUrl
<1>6. ASSUME NEW c \in Calls, WriteAdded(c) \/ WriteRemoved(c)
      PROVE  TypeOK'
  <2>1. file' \in Lists
    <3>1. seen[c] \in Lists /\ c \in Feeds /\ NoFeed \in Feeds
      BY DEF Feeds
    <3>2. \E feed \in Feeds : file' = [seen[c] EXCEPT ![name[c]] = feed]
      BY <1>6, <3>1 DEF WriteAdded, WriteRemoved
    <3>. QED  BY <3>1, <3>2 DEF Lists
  <2>2. relisted' \subseteq Names
    BY <1>6 DEF WriteAdded, WriteRemoved
  <2>. QED  BY <1>1, <1>6, <2>1, <2>2 DEF WriteAdded, WriteRemoved
<1>7. ASSUME NEW c \in Calls, Merge(c)
      PROVE  TypeOK'
  BY <1>1, <1>7 DEF Merge, Lists
<1>8. ASSUME NEW c \in Calls, CleanUp(c)
      PROVE  TypeOK'
  BY <1>1, <1>8 DEF CleanUp
<1>9. CASE UNCHANGED vars
  BY <1>1, <1>9 DEF vars
<1>. QED  BY <1>2, <1>3, <1>4, <1>5, <1>6, <1>7, <1>8, <1>9 DEF Next, Step

InSection(c) == pc[c] \in {"section", "writing"}

\* Where a call is tells where its update is, and whether it has answered.
StageTellsCall ==
    \A c \in Calls :
      /\ stage[c] = "new" => pc[c] \in {"start", "fetching", "done"}
      /\ pc[c] \in {"start", "fetching"} => stage[c] = "new"
      /\ pc[c] = "queued" <=> stage[c] = "queued"
      /\ InSection(c) <=> stage[c] = "running"
      /\ pc[c] = "done" <=> outcome[c] # "none"
      /\ pc[c] = "fetching" => kind[c] = "refresh"

\* What a call read in its section is the list as it is, and the secret it stored
\* is the one there is.
SeenIsFile ==
    \A c \in Calls :
      InSection(c) /\ kind[c] # "refresh" =>
        /\ seen[c] = file
        /\ pc[c] = "writing" /\ kind[c] = "subscribe" =>
             seen[c][name[c]] = NoFeed /\ secrets[Key(c)] = c
        /\ pc[c] = "writing" /\ kind[c] = "unsubscribe" => seen[c][name[c]] # NoFeed

\* What a refresh brings is the feed its record is stored for, or the URL is gone.
Alone(n) == n \notin relisted /\ \A m \in Names \ {n} : KeyOf[m] # KeyOf[n]

BringsItsFeed ==
    \A c \in Calls :
      pc[c] \in {"queued", "section"} /\ kind[c] = "refresh" =>
        /\ seen[c][name[c]] # NoFeed
        /\ Alone(name[c]) /\ file[name[c]] # NoFeed =>
             secrets[Key(c)] \in {seen[c][name[c]], NoFeed}

CalendarInv ==
    TypeOK /\ QueueInv /\ StageTellsCall /\ SeenIsFile /\ BringsItsFeed /\ OneFeed


LEMMA StagesPreserved ==
  ASSUME TypeOK, StageTellsCall, [Next]_vars
  PROVE  StageTellsCall'
<1>. USE DEF TypeOK, QTypeOK, StageTellsCall, InSection, Goto, Answer, Calls
<1>1. ASSUME NEW c \in Calls, FetchFeed(c) \/ CallUnsubscribe(c) \/ CallRefresh(c) \/ FetchAgain(c)
      PROVE  StageTellsCall'
  BY <1>1 DEF FetchFeed, CallUnsubscribe, CallRefresh, FetchAgain, Join, Enqueue, qvars
<1>2. ASSUME NEW c \in Calls, Enter(c)
      PROVE  StageTellsCall'
  BY <1>2 DEF Enter, Run
<1>3. ASSUME NEW c \in Calls, StoreUrl(c) \/ DropUrl(c)
      PROVE  StageTellsCall'
  BY <1>3 DEF StoreUrl, DropUrl, EndSection, Settle, qvars
<1>4. ASSUME NEW c \in Calls, WriteAdded(c) \/ WriteRemoved(c) \/ Merge(c)
      PROVE  StageTellsCall'
  BY <1>4 DEF WriteAdded, WriteRemoved, Merge, EndSection, Settle
<1>5. ASSUME NEW c \in Calls, CleanUp(c)
      PROVE  StageTellsCall'
  BY <1>5 DEF CleanUp, Drop
<1>6. CASE UNCHANGED vars
  BY <1>6 DEF vars, qvars
<1>. QED  BY <1>1, <1>2, <1>3, <1>4, <1>5, <1>6 DEF Next, Step

\* A step that ends or changes a section is of the one call that has it.
LEMMA OthersAreOut ==
  ASSUME QueueInv, StageTellsCall, NEW c \in Calls, InSection(c),
         NEW d \in Calls \ {c}
  PROVE  ~InSection(d)
  BY RunsAlone DEF StageTellsCall, OneAtATime, Calls

LEMMA SeenPreserved ==
  ASSUME TypeOK, QueueInv, StageTellsCall, SeenIsFile, [Next]_vars
  PROVE  SeenIsFile'
<1>. USE DEF TypeOK, SeenIsFile, Goto, Answer
<1>1. ASSUME NEW c \in Calls, FetchFeed(c) \/ CallUnsubscribe(c) \/ CallRefresh(c) \/ FetchAgain(c)
      PROVE  SeenIsFile'
  BY <1>1
  DEF FetchFeed, CallUnsubscribe, CallRefresh, FetchAgain, Join, Saw, InSection, Key, StageTellsCall
<1>2. ASSUME NEW c \in Calls, Enter(c)
      PROVE  SeenIsFile'
  BY <1>2 DEF Enter, InSection, Key
<1>3. ASSUME NEW c \in Calls, StoreUrl(c)
      PROVE  SeenIsFile'
  <2>1. \A d \in Calls \ {c} : ~InSection(d) /\ pc'[d] = pc[d]
    BY <1>3, OthersAreOut DEF StoreUrl, InSection, EndSection
  <2>. QED  BY <1>3, <2>1 DEF StoreUrl, InSection, EndSection, Key, Keys
<1>4. ASSUME NEW c \in Calls, DropUrl(c)
      PROVE  SeenIsFile'
  <2>1. \A d \in Calls \ {c} : ~InSection(d) /\ pc'[d] = pc[d]
    BY <1>4, OthersAreOut DEF DropUrl, InSection, EndSection
  <2>. QED  BY <1>4, <2>1 DEF DropUrl, InSection, EndSection, Key, Keys
<1>5. ASSUME NEW c \in Calls, WriteAdded(c) \/ WriteRemoved(c) \/ Merge(c)
      PROVE  SeenIsFile'
  <2>1. \A d \in Calls \ {c} : ~InSection(d) /\ pc'[d] = pc[d]
    BY <1>5, OthersAreOut DEF WriteAdded, WriteRemoved, Merge, InSection, EndSection
  <2>. QED  BY <1>5, <2>1 DEF WriteAdded, WriteRemoved, Merge, InSection, EndSection
<1>6. CASE UNCHANGED vars \/ \E c \in Calls : CleanUp(c)
  BY <1>6 DEF vars, CleanUp, InSection, Key
<1>. QED  BY <1>1, <1>2, <1>3, <1>4, <1>5, <1>6 DEF Next, Step


LEMMA BringsPreserved ==
  ASSUME TypeOK, QueueInv, StageTellsCall, SeenIsFile, BringsItsFeed, [Next]_vars
  PROVE  BringsItsFeed'
<1>. USE DEF TypeOK, BringsItsFeed, Alone, Goto, Answer
<1>1. ASSUME NEW c \in Calls, FetchFeed(c) \/ CallUnsubscribe(c) \/ CallRefresh(c)
      PROVE  BringsItsFeed'
  BY <1>1 DEF FetchFeed, CallUnsubscribe, CallRefresh, Join, Key
<1>2. ASSUME NEW c \in Calls, FetchAgain(c)
      PROVE  BringsItsFeed'
  <2>1. CASE Answer(c, "refreshed") /\ UNCHANGED seen
    BY <1>2, <2>1 DEF FetchAgain, Key
  <2>2. CASE /\ secrets[Key(c)] # NoFeed
             /\ seen' = Saw(c, secrets[Key(c)])
             /\ Goto(c, "queued")
    <3>1. seen'[c][name[c]] = secrets[Key(c)]
      BY <2>2 DEF Saw, Empty
    <3>2. \A d \in Calls \ {c} : seen'[d] = seen[d] /\ pc'[d] = pc[d]
      BY <2>2 DEF Saw
    <3>. QED  BY <1>2, <2>2, <3>1, <3>2 DEF FetchAgain, Key
  <2>. QED  BY <1>2, <2>1, <2>2 DEF FetchAgain, Join
<1>3. ASSUME NEW c \in Calls, Enter(c)
      PROVE  BringsItsFeed'
  BY <1>3 DEF Enter, Key
<1>4. ASSUME NEW c \in Calls, StoreUrl(c)
      PROVE  BringsItsFeed'
  BY <1>4 DEF StoreUrl, EndSection, Key, Keys, SeenIsFile, InSection
<1>5. ASSUME NEW c \in Calls, DropUrl(c)
      PROVE  BringsItsFeed'
  BY <1>5 DEF DropUrl, EndSection, Key, Keys
<1>6. ASSUME NEW c \in Calls, WriteAdded(c)
      PROVE  BringsItsFeed'
  <2>1. /\ kind[c] = "subscribe" /\ seen[c] = file
        /\ file' = [file EXCEPT ![name[c]] = c]
        /\ UNCHANGED <<kind, name, seen, secrets>> /\ pc' = [pc EXCEPT ![c] = "done"]
        /\ relisted \subseteq relisted'
    BY <1>6 DEF WriteAdded, EndSection, SeenIsFile, InSection
  <2>2. ASSUME NEW d \in Calls, pc'[d] \in {"queued", "section"}, kind[d] = "refresh",
               name[d] = name[c]
        PROVE  name[d] \in relisted'
    <3>1. pc[d] = "queued"
      BY <1>6, <2>1, <2>2, OthersAreOut DEF WriteAdded, InSection
    <3>. QED  BY <1>6, <2>2, <3>1 DEF WriteAdded
  <2>. QED  BY <2>1, <2>2 DEF Key, Lists
<1>7. ASSUME NEW c \in Calls, WriteRemoved(c)
      PROVE  BringsItsFeed'
  BY <1>7 DEF WriteRemoved, EndSection, Key, Lists, SeenIsFile, InSection
<1>8. ASSUME NEW c \in Calls, Merge(c)
      PROVE  BringsItsFeed'
  BY <1>8 DEF Merge, EndSection, Key, Lists
<1>9. CASE UNCHANGED vars \/ \E c \in Calls : CleanUp(c)
  BY <1>9 DEF vars, CleanUp, Key
<1>. QED  BY <1>1, <1>2, <1>3, <1>4, <1>5, <1>6, <1>7, <1>8, <1>9 DEF Next, Step

LEMMA FeedPreserved ==
  ASSUME TypeOK, QueueInv, StageTellsCall, SeenIsFile, BringsItsFeed, OneFeed, [Next]_vars
  PROVE  OneFeed'
<1>. USE DEF TypeOK, OneFeed, Goto, Answer
<1>1. ASSUME NEW c \in Calls, StoreUrl(c)
      PROVE  OneFeed'
  BY <1>1 DEF StoreUrl, Key, Keys, SeenIsFile, InSection
<1>2. ASSUME NEW c \in Calls, DropUrl(c)
      PROVE  OneFeed'
  BY <1>2 DEF DropUrl, Key, Keys
<1>3. ASSUME NEW c \in Calls, WriteAdded(c)
      PROVE  OneFeed'
  BY <1>3 DEF WriteAdded, Key, Lists, SeenIsFile, InSection
<1>4. ASSUME NEW c \in Calls, WriteRemoved(c)
      PROVE  OneFeed'
  <2>1. file' = [file EXCEPT ![name[c]] = NoFeed] /\ UNCHANGED <<secrets, relisted>>
    BY <1>4 DEF WriteRemoved, SeenIsFile, InSection
  <2>. QED  BY <2>1 DEF Lists
<1>5. ASSUME NEW c \in Calls, Merge(c)
      PROVE  OneFeed'
  BY <1>5 DEF Merge, Key, Alone, Lists, BringsItsFeed
<1>6. CASE UNCHANGED <<file, secrets, relisted>>
  BY <1>6
<1>. QED
  BY <1>1, <1>2, <1>3, <1>4, <1>5, <1>6
  DEF Next, Step, FetchFeed, CallUnsubscribe, CallRefresh, FetchAgain, Enter, CleanUp, vars

LEMMA CalendarInvHolds == Spec => []CalendarInv
<1>1. Init => CalendarInv
  <2>1. Init => StageTellsCall /\ SeenIsFile /\ BringsItsFeed /\ OneFeed
    BY DEF Init, QInit, StageTellsCall, InSection, SeenIsFile, BringsItsFeed, OneFeed, Empty, Calls
  <2>. QED  BY <2>1, CalendarInit, QueueInit DEF Init, CalendarInv
<1>2. ASSUME CalendarInv, [Next]_vars
      PROVE  CalendarInv'
  <2>. USE <1>2 DEF CalendarInv
  <2>1. [QNext]_qvars
    BY StepsTheQueue DEF Next, vars
  <2>2. QueueInv'
    BY <2>1, QueuePreserved
  <2>. QED
    BY <2>2, CalendarTypePreserved, StagesPreserved, SeenPreserved, BringsPreserved,
       FeedPreserved
<1>. QED  BY <1>1, <1>2, PTL DEF Spec

\* The updates of the subscriptions' file run one at a time and in the order they
\* came, and a record holds the events of the feed whose URL is stored for it, or its
\* URL is gone; but for names subscribed to anew while a refresh was out, and names
\* that share a key.  For any calls and names.
THEOREM UpdatesTakeTurns == Spec => []UpdatesInTurn
<1>1. CalendarInv => UpdatesInTurn
  BY RunsAlone DEF CalendarInv, QueueInv, UpdatesInTurn
<1>. QED  BY <1>1, CalendarInvHolds, PTL


\* Each step of a call is a step of the list it promises, or leaves the list and every
\* answer as they are.
LEMMA StepActsAtOnce ==
  ASSUME CalendarInv, [Next]_vars
  PROVE  [List!Next]_<<{n \in Names : file[n] # NoFeed}, outcome>>
<1>. DEFINE listed == {n \in Names : file[n] # NoFeed}
<1>. USE DEF CalendarInv, TypeOK
<1>1. ASSUME NEW c \in Calls, pc[c] # "done", UNCHANGED listed,
             \E what \in {"failed", "refreshed"} : Answer(c, what)
      PROVE  List!Next
  <2>1. outcome[c] = "none"
    BY <1>1 DEF StageTellsCall
  <2>. QED  BY <1>1, <2>1 DEF List!Next, List!NoChange, List!Answer, Answer
<1>2. ASSUME NEW c \in Calls, FetchFeed(c) \/ CallRefresh(c) \/ FetchAgain(c)
      PROVE  List!Next \/ UNCHANGED <<file, outcome>>
  <2>1. pc[c] # "done" /\ UNCHANGED file
    BY <1>2 DEF FetchFeed, CallRefresh, FetchAgain
  <2>2. UNCHANGED outcome \/ \E what \in {"failed", "refreshed"} : Answer(c, what)
    BY <1>2 DEF FetchFeed, CallRefresh, FetchAgain
  <2>. QED  BY <1>1, <2>1, <2>2
<1>3. ASSUME NEW c \in Calls, InSection(c), kind[c] # "refresh"
      PROVE  /\ outcome[c] = "none" /\ seen[c] = file
             /\ name[c] \in listed <=> seen[c][name[c]] # NoFeed
  BY <1>3 DEF StageTellsCall, SeenIsFile, InSection
<1>4. ASSUME NEW c \in Calls, StoreUrl(c)
      PROVE  List!Next \/ UNCHANGED <<file, outcome>>
  <2>1. CASE seen[c][name[c]] # NoFeed /\ Answer(c, "duplicate")
    <3>1. List!Duplicate(c, name[c])
      BY <1>3, <1>4, <2>1 DEF StoreUrl, InSection, List!Duplicate, List!Answer, Answer
    <3>. QED  BY <3>1 DEF List!Next
  <2>2. CASE Answer(c, "failed")
    BY <1>1, <1>4, <2>2 DEF StoreUrl
  <2>. QED  BY <1>4, <2>1, <2>2 DEF StoreUrl, EndSection
<1>5. ASSUME NEW c \in Calls, DropUrl(c)
      PROVE  List!Next \/ UNCHANGED <<file, outcome>>
  <2>1. CASE seen[c][name[c]] = NoFeed /\ Answer(c, "unknown")
    <3>1. List!Unknown(c, name[c])
      BY <1>3, <1>5, <2>1 DEF DropUrl, InSection, List!Unknown, List!Answer, Answer
    <3>. QED  BY <3>1 DEF List!Next
  <2>. QED  BY <1>5, <2>1 DEF DropUrl, EndSection
<1>6. ASSUME NEW c \in Calls, WriteAdded(c)
      PROVE  List!Next
  <2>1. /\ file' = [file EXCEPT ![name[c]] = c] /\ c # NoFeed
        /\ name[c] \notin listed /\ outcome[c] = "none" /\ Answer(c, "added")
    BY <1>3, <1>6, FeedsAssumption DEF WriteAdded, EndSection, InSection, SeenIsFile, Calls
  <2>2. listed' = listed \cup {name[c]}
    BY <2>1 DEF Lists
  <2>3. \E n \in Names : List!Subscribe(c, n)
    BY <2>1, <2>2 DEF List!Subscribe, List!Answer, Answer
  <2>. QED  BY <2>3 DEF List!Next
<1>7. ASSUME NEW c \in Calls, WriteRemoved(c)
      PROVE  List!Next
  <2>1. /\ file' = [file EXCEPT ![name[c]] = NoFeed]
        /\ name[c] \in listed /\ outcome[c] = "none" /\ Answer(c, "removed")
    BY <1>3, <1>7 DEF WriteRemoved, EndSection, InSection, SeenIsFile
  <2>2. listed' = listed \ {name[c]}
    BY <2>1 DEF Lists
  <2>3. \E n \in Names : List!Unsubscribe(c, n)
    BY <2>1, <2>2 DEF List!Unsubscribe, List!Answer, Answer
  <2>. QED  BY <2>3 DEF List!Next
<1>8. ASSUME NEW c \in Calls, Merge(c)
      PROVE  List!Next
  <2>1. pc[c] # "done" /\ Answer(c, "refreshed")
    BY <1>8 DEF Merge, EndSection
  <2>2. listed' = listed
    BY <1>8 DEF Merge, BringsItsFeed, Lists
  <2>. QED  BY <1>1, <2>1, <2>2
<1>9. ASSUME UNCHANGED <<file, outcome>>
      PROVE  UNCHANGED <<listed, outcome>>
  BY <1>9
<1>. QED
  BY <1>2, <1>4, <1>5, <1>6, <1>7, <1>8, <1>9
  DEF Next, Step, CallUnsubscribe, Enter, CleanUp, vars

\* Every call on the subscriptions takes effect at once: the registry implements
\* SubscriptionList, so a refresh brings back nothing that was removed and loses
\* nothing that was added, whatever was fetched or read before.
THEOREM CallsActAtOnce == Spec => ActsAtOnce
<1>1. Init => List!Init
  BY DEF Init, List!Init, Empty
<1>2. CalendarInv /\ [Next]_vars => [List!Next]_<<{n \in Names : file[n] # NoFeed}, outcome>>
  BY StepActsAtOnce
<1>. QED  BY <1>1, <1>2, CalendarInvHolds, PTL DEF Spec, ActsAtOnce, List!Spec

----------------------------------------------------------------------------
(* The register of workspaces.  What follows is stated while no process     *)
(* wrote over what another had changed meanwhile.                           *)

\* A launch imports before it goes on, if there is something to import.
ImportsFirst ==
    \A l \in Slots :
      atStep[l] \in {"marking", "stamping", "marked", "loading", "saving"} =>
        migration # "absent" \/ legacy = {}

\* Until the import is done no root of the older list was removed, and one whose
\* import may still write finds it so.
NoneRemovedYet ==
    /\ migration = "absent" => \A r \in legacy : word[r] # "out"
    /\ \A l \in Slots : atStep[l] \in {"importing", "merging"} /\ ~stale[l] =>
         \A r \in legacy : word[r] # "out"

\* What a process read is the register as it is, unless another wrote meanwhile.
ReadIsCurrent ==
    \A l \in Slots : atStep[l] \in {"merging", "stamping", "saving"} /\ ~stale[l] =>
      snap[l] = register

\* A root the owner chose: of the older list, or marked; once the import is done it is
\* in the register; and what an import or a marking read of it, it read before.
ChosenIsKnown ==
    /\ \A r \in legacy : word[r] # "none"
    /\ \A r \in Roots \ legacy : word[r] = "in" => register[r] = "eligible"
    /\ migration # "absent" \/ legacy = {} \/ (\E l \in Slots : atStep[l] = "imported") =>
         \A r \in Roots : word[r] = "in" => register[r] # "absent"
    /\ \A l \in Slots, r \in Roots : word[r] = "in" =>
         /\ atStep[l] = "merging" /\ register[r] = "absent" => snap[l][r] = "absent"
         /\ atStep[l] = "stamping" /\ register[r] = "plain" => snap[l][r] = "plain"

\* Every choice is marked once a marking is over.
MarkedIsWhole ==
    backfill = "complete" \/ (\E l \in Slots : atStep[l] = "marked") =>
      \A r \in Roots : word[r] = "in" => register[r] = "eligible"

UncrossedInv ==
    /\ NoneRemovedYet /\ ReadIsCurrent /\ ChosenIsKnown /\ MarkedIsWhole
    /\ \A r \in Roots : word[r] = "out" => register[r] = "absent"
    /\ \A r \in Roots : register[r] = "eligible" =>
         word[r] = "in" \/ (word[r] = "seen" /\ r \in legacy)

RegisterInv == Register!TypeOK /\ ImportsFirst /\ (crossed \/ UncrossedInv)


LEMMA RegisterTypePreserved ==
  ASSUME Register!TypeOK, [Register!Next]_(Register!vars)
  PROVE  Register!TypeOK'
<1>. USE BoundsAssumption
     DEF Register!TypeOK, Register!Jobs, Register!Entries, Register!Receipts, Register!Stages,
         Register!GoTo, Register!Reads, Register!Forgets, Register!Ends, Register!Looks,
         Register!Writes, Register!Running, Register!Nothing, Register!AfterImport, Register!files
<1>1. ASSUME NEW l \in Slots, Register!Launch(l)
      PROVE  Register!TypeOK'
  <2>1. job' \in [Slots -> Register!Jobs] /\ root' \in [Slots -> SUBSET Roots]
    <3>1. \E j \in {"boot", "register", "unregister"} : job' = [job EXCEPT ![l] = j]
      BY <1>1 DEF Register!Launch
    <3>2. UNCHANGED root \/ \E r \in Roots : root' = [root EXCEPT ![l] = {r}]
      BY <1>1 DEF Register!Launch
    <3>. QED  BY <3>1, <3>2
  <2>2. \E s \in {"importing", "marking", "loading"} : atStep' = [atStep EXCEPT ![l] = s]
    BY <1>1 DEF Register!Launch
  <2>3. launches' \in 0..MaxLaunches
    BY <1>1 DEF Register!Launch
  <2>. QED  BY <1>1, <2>1, <2>2, <2>3 DEF Register!Launch
<1>2. ASSUME NEW l \in Slots, Register!ReadToImport(l)
      PROVE  Register!TypeOK'
  BY <1>2 DEF Register!ReadToImport
<1>3. ASSUME NEW l \in Slots, Register!WriteMerged(l)
      PROVE  Register!TypeOK'
  <2>1. register' \in [Roots -> Register!Entries]
    BY <1>3 DEF Register!WriteMerged, Register!Merged
  <2>2. stale' \in [Slots -> BOOLEAN] /\ crossed' \in BOOLEAN
    BY <1>3, Zenon DEF Register!WriteMerged
  <2>. QED  BY <1>3, <2>1, <2>2 DEF Register!WriteMerged
<1>4. ASSUME NEW l \in Slots, Register!WriteImportReceipt(l)
      PROVE  Register!TypeOK'
  BY <1>4 DEF Register!WriteImportReceipt
<1>5. ASSUME NEW l \in Slots, Register!ReadToMark(l)
      PROVE  Register!TypeOK'
  <2>1. CASE Register!GoTo(l, "stamping") /\ Register!Reads(l)
    BY <1>5, <2>1 DEF Register!ReadToMark
  <2>2. CASE Register!Ends(l)
    BY <1>5, <2>2 DEF Register!ReadToMark
  <2>. QED  BY <1>5, <2>1, <2>2 DEF Register!ReadToMark
<1>6. ASSUME NEW l \in Slots, Register!WriteStamped(l)
      PROVE  Register!TypeOK'
  <2>1. register' \in [Roots -> Register!Entries]
    BY <1>6 DEF Register!WriteStamped, Register!Stamped
  <2>2. stale' \in [Slots -> BOOLEAN] /\ crossed' \in BOOLEAN
    BY <1>6, Zenon DEF Register!WriteStamped
  <2>. QED  BY <1>6, <2>1, <2>2 DEF Register!WriteStamped
<1>7. ASSUME NEW l \in Slots, Register!WriteMarkReceipt(l)
      PROVE  Register!TypeOK'
  BY <1>7 DEF Register!WriteMarkReceipt
<1>8. ASSUME NEW l \in Slots, Register!Load(l)
      PROVE  Register!TypeOK'
  BY <1>8 DEF Register!Load
<1>9. ASSUME NEW l \in Slots, Register!Save(l)
      PROVE  Register!TypeOK'
  BY <1>9 DEF Register!Save
<1>10. ASSUME NEW l \in Slots, Register!Crash(l)
       PROVE  Register!TypeOK'
  BY <1>10 DEF Register!Crash
<1>11. ASSUME NEW r \in Roots, Register!OpenedElsewhere(r)
       PROVE  Register!TypeOK'
  BY <1>11 DEF Register!OpenedElsewhere
<1>12. CASE Register!ReceiptDamaged
  BY <1>12 DEF Register!ReceiptDamaged
<1>13. CASE UNCHANGED Register!vars
  BY <1>13 DEF Register!vars
<1>. QED
  BY <1>1, <1>2, <1>3, <1>4, <1>5, <1>6, <1>7, <1>8, <1>9, <1>10, <1>11, <1>12, <1>13
  DEF Register!Next, Register!Step


LEMMA ImportsFirstPreserved ==
  ASSUME Register!TypeOK, ImportsFirst, [Register!Next]_(Register!vars)
  PROVE  ImportsFirst'
<1>. USE DEF Register!TypeOK, Register!GoTo, Register!Reads, Register!Forgets, Register!Ends,
             Register!Looks, Register!files, ImportsFirst
<1>1. ASSUME NEW l \in Slots, Register!Launch(l)
      PROVE  ImportsFirst'
  BY <1>1 DEF Register!Launch, Register!ImportIsDue, Register!AfterImport, Register!Running
<1>2. ASSUME NEW l \in Slots, Register!ReadToImport(l)
      PROVE  ImportsFirst'
  BY <1>2 DEF Register!ReadToImport
<1>3. ASSUME NEW l \in Slots, Register!WriteMerged(l)
      PROVE  ImportsFirst'
  BY <1>3 DEF Register!WriteMerged, Register!Merged, Register!Writes, Register!Running
<1>4. ASSUME NEW l \in Slots, Register!WriteImportReceipt(l)
      PROVE  ImportsFirst'
  BY <1>4 DEF Register!WriteImportReceipt, Register!AfterImport
<1>5. ASSUME NEW l \in Slots, Register!ReadToMark(l)
      PROVE  ImportsFirst'
  BY <1>5 DEF Register!ReadToMark
<1>6. ASSUME NEW l \in Slots, Register!WriteStamped(l)
      PROVE  ImportsFirst'
  BY <1>6 DEF Register!WriteStamped, Register!Stamped, Register!Writes, Register!Running
<1>7. ASSUME NEW l \in Slots, Register!WriteMarkReceipt(l)
      PROVE  ImportsFirst'
  BY <1>7 DEF Register!WriteMarkReceipt
<1>8. ASSUME NEW l \in Slots, Register!Load(l)
      PROVE  ImportsFirst'
  BY <1>8 DEF Register!Load
<1>9. ASSUME NEW l \in Slots, Register!Save(l)
      PROVE  ImportsFirst'
  BY <1>9 DEF Register!Save, Register!Writes, Register!Running
<1>10. ASSUME NEW l \in Slots, Register!Crash(l)
      PROVE  ImportsFirst'
  BY <1>10 DEF Register!Crash
<1>11. ASSUME NEW r \in Roots, Register!OpenedElsewhere(r)
       PROVE  ImportsFirst'
  BY <1>11 DEF Register!OpenedElsewhere, Register!Running
<1>12. CASE Register!ReceiptDamaged
  BY <1>12 DEF Register!ReceiptDamaged
<1>13. CASE UNCHANGED Register!vars
  BY <1>13 DEF Register!vars
<1>. QED
  BY <1>1, <1>2, <1>3, <1>4, <1>5, <1>6, <1>7, <1>8, <1>9, <1>10, <1>11, <1>12, <1>13
  DEF Register!Next, Register!Step

\* What a write leaves when it crosses nobody's.
LEMMA SavesCurrent ==
  ASSUME RegisterInv, NEW l \in Slots, Register!Save(l), ~crossed'
  PROVE  /\ UncrossedInv /\ (migration # "absent" \/ legacy = {})
         /\ UNCHANGED <<legacy, migration, backfill>>
         /\ atStep[l] = "saving" /\ atStep' = [atStep EXCEPT ![l] = "idle"]
         /\ \A k \in Slots \ {l} : snap'[k] = snap[k] /\ stale'[k] = (atStep[k] # "idle")
         /\ \A r \in Roots :
              \/ register'[r] = register[r] /\ word'[r] = word[r]
              \/ register'[r] = "eligible" /\ word'[r] = "in"
              \/ register'[r] = "absent" /\ word'[r] = "out"
<1>. USE DEF RegisterInv, Register!TypeOK, Register!Save, Register!Ends, Register!Forgets,
             Register!Writes, Register!Running
<1>1. ~crossed /\ ~stale[l]
  OBVIOUS
<1>2. snap[l] = register
  BY <1>1 DEF UncrossedInv, ReadIsCurrent
<1>3. migration # "absent" \/ legacy = {}
  BY DEF ImportsFirst
<1>4. \A r \in Roots :
        \/ register'[r] = register[r] /\ word'[r] = word[r]
        \/ register'[r] = "eligible" /\ word'[r] = "in"
        \/ register'[r] = "absent" /\ word'[r] = "out"
  BY <1>2
<1>. QED  BY <1>1, <1>3, <1>4

LEMMA MergesCurrent ==
  ASSUME RegisterInv, NEW l \in Slots, Register!WriteMerged(l), ~crossed'
  PROVE  /\ UncrossedInv
         /\ UNCHANGED <<legacy, migration, backfill, word>>
         /\ atStep[l] = "merging" /\ atStep' = [atStep EXCEPT ![l] = "imported"]
         /\ \A k \in Slots \ {l} : snap'[k] = snap[k]
         /\ \A r \in Roots : \/ register'[r] = register[r]
                             \/ /\ r \in legacy /\ word[r] # "out"
                                /\ register[r] = "absent" /\ register'[r] = "plain"
         /\ \A r \in legacy : word[r] = "in" => register'[r] # "absent"
<1>. USE DEF RegisterInv, Register!TypeOK, Register!WriteMerged, Register!GoTo, Register!Forgets,
             Register!Merged
<1>1. CASE Register!Merged(snap[l]) = snap[l] /\ UNCHANGED <<register, stale, crossed>>
  <2>1. \A r \in legacy : snap[l][r] # "absent"
    BY <1>1
  <2>2. UncrossedInv
    BY <1>1
  <2>3. \A r \in legacy : word[r] = "in" => register[r] # "absent"
    BY <2>1, <2>2 DEF UncrossedInv, ChosenIsKnown
  <2>. QED  BY <1>1, <2>2, <2>3
<1>2. CASE register' = Register!Merged(snap[l]) /\ Register!Writes(l)
  <2>1. UncrossedInv /\ ~stale[l]
    BY <1>2 DEF Register!Writes
  <2>2. snap[l] = register
    BY <2>1 DEF UncrossedInv, ReadIsCurrent
  <2>3. \A r \in legacy : word[r] # "out"
    BY <2>1 DEF UncrossedInv, NoneRemovedYet
  <2>. QED  BY <1>2, <2>1, <2>2, <2>3
<1>. QED  BY <1>1, <1>2

LEMMA StampsCurrent ==
  ASSUME RegisterInv, NEW l \in Slots, Register!WriteStamped(l), ~crossed'
  PROVE  /\ UncrossedInv /\ (migration # "absent" \/ legacy = {})
         /\ UNCHANGED <<legacy, migration, backfill, word>>
         /\ atStep[l] = "stamping" /\ atStep' = [atStep EXCEPT ![l] = "marked"]
         /\ \A k \in Slots \ {l} : snap'[k] = snap[k]
         /\ \A r \in Roots : \/ register'[r] = register[r]
                             \/ r \in legacy /\ register[r] = "plain" /\ register'[r] = "eligible"
         /\ \A r \in legacy : word[r] = "in" => register'[r] # "plain"
<1>. USE DEF RegisterInv, Register!TypeOK, Register!WriteStamped, Register!GoTo, Register!Forgets,
             Register!Stamped
<1>1. migration # "absent" \/ legacy = {}
  BY DEF ImportsFirst
<1>2. CASE Register!Stamped(snap[l]) = snap[l] /\ UNCHANGED <<register, stale, crossed>>
  <2>1. \A r \in legacy : snap[l][r] # "plain"
    BY <1>2
  <2>2. UncrossedInv
    BY <1>2
  <2>3. \A r \in legacy : word[r] = "in" => register[r] # "plain"
    BY <2>1, <2>2 DEF UncrossedInv, ChosenIsKnown
  <2>. QED  BY <1>1, <1>2, <2>2, <2>3
<1>3. CASE register' = Register!Stamped(snap[l]) /\ Register!Writes(l)
  <2>1. UncrossedInv /\ ~stale[l]
    BY <1>3 DEF Register!Writes
  <2>2. snap[l] = register
    BY <2>1 DEF UncrossedInv, ReadIsCurrent
  <2>. QED  BY <1>1, <1>3, <2>1, <2>2
<1>. QED  BY <1>2, <1>3

LEMMA RemovalPreserved ==
  ASSUME RegisterInv, [Register!Next]_(Register!vars), ~crossed'
  PROVE  NoneRemovedYet'
<1>9. ASSUME NEW l \in Slots, Register!Save(l)
      PROVE  NoneRemovedYet'
  <2>1. /\ migration # "absent" \/ legacy = {}
        /\ UNCHANGED <<legacy, migration>>
        /\ \A k \in Slots : atStep'[k] \in {"importing", "merging"} => stale'[k]
    BY <1>9, SavesCurrent DEF RegisterInv, Register!TypeOK
  <2>. QED  BY <2>1 DEF NoneRemovedYet
<1>. USE DEF Register!TypeOK, Register!GoTo, Register!Reads, Register!Forgets, Register!Ends,
             Register!Looks, Register!files,
             RegisterInv, UncrossedInv, NoneRemovedYet
<1>1. ASSUME NEW l \in Slots, Register!Launch(l)
      PROVE  NoneRemovedYet'
  BY <1>1 DEF Register!Launch, Register!ImportIsDue, Register!AfterImport, Register!Running
<1>2. ASSUME NEW l \in Slots, Register!ReadToImport(l)
      PROVE  NoneRemovedYet'
  BY <1>2 DEF Register!ReadToImport
<1>3. ASSUME NEW l \in Slots, Register!WriteMerged(l)
      PROVE  NoneRemovedYet'
  BY <1>3 DEF Register!WriteMerged, Register!Merged, Register!Writes, Register!Running
<1>4. ASSUME NEW l \in Slots, Register!WriteImportReceipt(l)
      PROVE  NoneRemovedYet'
  BY <1>4 DEF Register!WriteImportReceipt, Register!AfterImport
<1>5. ASSUME NEW l \in Slots, Register!ReadToMark(l)
      PROVE  NoneRemovedYet'
  BY <1>5 DEF Register!ReadToMark
<1>6. ASSUME NEW l \in Slots, Register!WriteStamped(l)
      PROVE  NoneRemovedYet'
  BY <1>6 DEF Register!WriteStamped, Register!Stamped, Register!Writes, Register!Running
<1>7. ASSUME NEW l \in Slots, Register!WriteMarkReceipt(l)
      PROVE  NoneRemovedYet'
  BY <1>7 DEF Register!WriteMarkReceipt
<1>8. ASSUME NEW l \in Slots, Register!Load(l)
      PROVE  NoneRemovedYet'
  BY <1>8 DEF Register!Load
<1>10. ASSUME NEW l \in Slots, Register!Crash(l)
      PROVE  NoneRemovedYet'
  BY <1>10 DEF Register!Crash
<1>11. ASSUME NEW r \in Roots, Register!OpenedElsewhere(r)
       PROVE  NoneRemovedYet'
  BY <1>11 DEF Register!OpenedElsewhere, Register!Running
<1>12. CASE Register!ReceiptDamaged
  BY <1>12 DEF Register!ReceiptDamaged
<1>13. CASE UNCHANGED Register!vars
  BY <1>13 DEF Register!vars
<1>. QED
  BY <1>1, <1>2, <1>3, <1>4, <1>5, <1>6, <1>7, <1>8, <1>9, <1>10, <1>11, <1>12, <1>13
  DEF Register!Next, Register!Step

LEMMA ReadsPreserved ==
  ASSUME RegisterInv, [Register!Next]_(Register!vars), ~crossed'
  PROVE  ReadIsCurrent'
<1>. USE DEF Register!TypeOK, Register!GoTo, Register!Reads, Register!Forgets, Register!Ends,
             Register!Looks, Register!files,
             RegisterInv, UncrossedInv, ReadIsCurrent
<1>1. ASSUME NEW l \in Slots, Register!Launch(l)
      PROVE  ReadIsCurrent'
  BY <1>1 DEF Register!Launch, Register!ImportIsDue, Register!AfterImport, Register!Running
<1>2. ASSUME NEW l \in Slots, Register!ReadToImport(l)
      PROVE  ReadIsCurrent'
  BY <1>2 DEF Register!ReadToImport
<1>3. ASSUME NEW l \in Slots, Register!WriteMerged(l)
      PROVE  ReadIsCurrent'
  BY <1>3 DEF Register!WriteMerged, Register!Merged, Register!Writes, Register!Running
<1>4. ASSUME NEW l \in Slots, Register!WriteImportReceipt(l)
      PROVE  ReadIsCurrent'
  BY <1>4 DEF Register!WriteImportReceipt, Register!AfterImport
<1>5. ASSUME NEW l \in Slots, Register!ReadToMark(l)
      PROVE  ReadIsCurrent'
  BY <1>5 DEF Register!ReadToMark
<1>6. ASSUME NEW l \in Slots, Register!WriteStamped(l)
      PROVE  ReadIsCurrent'
  BY <1>6 DEF Register!WriteStamped, Register!Stamped, Register!Writes, Register!Running
<1>7. ASSUME NEW l \in Slots, Register!WriteMarkReceipt(l)
      PROVE  ReadIsCurrent'
  BY <1>7 DEF Register!WriteMarkReceipt
<1>8. ASSUME NEW l \in Slots, Register!Load(l)
      PROVE  ReadIsCurrent'
  BY <1>8 DEF Register!Load
<1>9. ASSUME NEW l \in Slots, Register!Save(l)
      PROVE  ReadIsCurrent'
  BY <1>9 DEF Register!Save, Register!Writes, Register!Running
<1>10. ASSUME NEW l \in Slots, Register!Crash(l)
      PROVE  ReadIsCurrent'
  BY <1>10 DEF Register!Crash
<1>11. ASSUME NEW r \in Roots, Register!OpenedElsewhere(r)
       PROVE  ReadIsCurrent'
  BY <1>11 DEF Register!OpenedElsewhere, Register!Running
<1>12. CASE Register!ReceiptDamaged
  BY <1>12 DEF Register!ReceiptDamaged
<1>13. CASE UNCHANGED Register!vars
  BY <1>13 DEF Register!vars
<1>. QED
  BY <1>1, <1>2, <1>3, <1>4, <1>5, <1>6, <1>7, <1>8, <1>9, <1>10, <1>11, <1>12, <1>13
  DEF Register!Next, Register!Step

LEMMA ChoicePreserved ==
  ASSUME RegisterInv, [Register!Next]_(Register!vars), ~crossed'
  PROVE  ChosenIsKnown'
<1>3. ASSUME NEW l \in Slots, Register!WriteMerged(l)
      PROVE  ChosenIsKnown'
  <2>. USE <1>3, MergesCurrent
  <2>1. ChosenIsKnown /\ ImportsFirst
    BY DEF UncrossedInv, RegisterInv
  <2>2. \A r \in Roots : word'[r] = "in" => register'[r] # "absent"
    BY <2>1 DEF ChosenIsKnown
  <2>3. ASSUME NEW k \in Slots, NEW r \in Roots, word'[r] = "in"
        PROVE  /\ ~(atStep'[k] = "merging" /\ register'[r] = "absent")
               /\ atStep'[k] = "stamping" /\ register'[r] = "plain" => snap'[k][r] = "plain"
    BY <2>1, <2>2, <2>3 DEF ChosenIsKnown, ImportsFirst, RegisterInv, Register!TypeOK
  <2>. QED  BY <2>1, <2>2, <2>3 DEF ChosenIsKnown
<1>9. ASSUME NEW l \in Slots, Register!Save(l)
      PROVE  ChosenIsKnown'
  <2>. USE <1>9, SavesCurrent
  <2>1. ChosenIsKnown /\ MarkedIsWhole
    BY DEF UncrossedInv
  <2>2. \A r \in Roots : word'[r] = "in" =>
          register'[r] = "eligible" \/ (word[r] = "in" /\ register'[r] = register[r])
    OBVIOUS
  <2>3. \A k \in Slots : atStep'[k] # "idle" => atStep'[k] = atStep[k] /\ snap'[k] = snap[k]
    BY DEF RegisterInv, Register!TypeOK
  <2>4. \A r \in legacy : word'[r] # "none"
    BY <2>1 DEF ChosenIsKnown, RegisterInv, Register!TypeOK
  <2>. QED  BY <2>1, <2>2, <2>3, <2>4 DEF ChosenIsKnown
<1>. USE DEF Register!TypeOK, Register!GoTo, Register!Reads, Register!Forgets, Register!Ends,
             Register!Looks, Register!files,
             RegisterInv, UncrossedInv, ChosenIsKnown
<1>1. ASSUME NEW l \in Slots, Register!Launch(l)
      PROVE  ChosenIsKnown'
  BY <1>1 DEF Register!Launch, Register!ImportIsDue, Register!AfterImport, Register!Running
<1>2. ASSUME NEW l \in Slots, Register!ReadToImport(l)
      PROVE  ChosenIsKnown'
  BY <1>2 DEF Register!ReadToImport
<1>4. ASSUME NEW l \in Slots, Register!WriteImportReceipt(l)
      PROVE  ChosenIsKnown'
  BY <1>4 DEF Register!WriteImportReceipt, Register!AfterImport
<1>5. ASSUME NEW l \in Slots, Register!ReadToMark(l)
      PROVE  ChosenIsKnown'
  BY <1>5 DEF Register!ReadToMark
<1>6. ASSUME NEW l \in Slots, Register!WriteStamped(l)
      PROVE  ChosenIsKnown'
  BY <1>6, StampsCurrent DEF ChosenIsKnown
<1>7. ASSUME NEW l \in Slots, Register!WriteMarkReceipt(l)
      PROVE  ChosenIsKnown'
  BY <1>7 DEF Register!WriteMarkReceipt
<1>8. ASSUME NEW l \in Slots, Register!Load(l)
      PROVE  ChosenIsKnown'
  BY <1>8 DEF Register!Load
<1>10. ASSUME NEW l \in Slots, Register!Crash(l)
      PROVE  ChosenIsKnown'
  BY <1>10 DEF Register!Crash
<1>11. ASSUME NEW r \in Roots, Register!OpenedElsewhere(r)
       PROVE  ChosenIsKnown'
  <2>1. /\ register[r] = "absent" /\ register' = [register EXCEPT ![r] = "plain"]
        /\ \A q \in Roots \ {r} : word'[q] = word[q]
        /\ word'[r] = IF word[r] = "in" THEN "in" ELSE "seen"
        /\ UNCHANGED <<legacy, migration, atStep, snap, crossed>>
    BY <1>11 DEF Register!OpenedElsewhere
  <2>2. \A k \in Slots : atStep[k] = "stamping" => word'[r] # "in"
    BY <2>1 DEF ImportsFirst
  <2>. QED  BY <2>1, <2>2
<1>12. CASE Register!ReceiptDamaged
  BY <1>12 DEF Register!ReceiptDamaged
<1>13. CASE UNCHANGED Register!vars
  BY <1>13 DEF Register!vars
<1>. QED
  BY <1>1, <1>2, <1>3, <1>4, <1>5, <1>6, <1>7, <1>8, <1>9, <1>10, <1>11, <1>12, <1>13
  DEF Register!Next, Register!Step

LEMMA MarksPreserved ==
  ASSUME RegisterInv, [Register!Next]_(Register!vars), ~crossed'
  PROVE  MarkedIsWhole'
<1>6. ASSUME NEW l \in Slots, Register!WriteStamped(l)
      PROVE  MarkedIsWhole'
  <2>. USE <1>6, StampsCurrent
  <2>1. ChosenIsKnown
    BY DEF UncrossedInv
  <2>2. ASSUME NEW r \in Roots, word'[r] = "in"
        PROVE  register'[r] = "eligible"
    BY <2>1, <2>2 DEF ChosenIsKnown, RegisterInv, Register!TypeOK, Register!Entries
  <2>. QED  BY <2>2 DEF MarkedIsWhole
<1>. USE DEF Register!TypeOK, Register!GoTo, Register!Reads, Register!Forgets, Register!Ends,
             Register!Looks, Register!files,
             RegisterInv, UncrossedInv, MarkedIsWhole
<1>1. ASSUME NEW l \in Slots, Register!Launch(l)
      PROVE  MarkedIsWhole'
  BY <1>1 DEF Register!Launch, Register!ImportIsDue, Register!AfterImport, Register!Running
<1>2. ASSUME NEW l \in Slots, Register!ReadToImport(l)
      PROVE  MarkedIsWhole'
  BY <1>2 DEF Register!ReadToImport
<1>3. ASSUME NEW l \in Slots, Register!WriteMerged(l)
      PROVE  MarkedIsWhole'
  BY <1>3, MergesCurrent
<1>4. ASSUME NEW l \in Slots, Register!WriteImportReceipt(l)
      PROVE  MarkedIsWhole'
  BY <1>4 DEF Register!WriteImportReceipt, Register!AfterImport
<1>5. ASSUME NEW l \in Slots, Register!ReadToMark(l)
      PROVE  MarkedIsWhole'
  BY <1>5 DEF Register!ReadToMark
<1>7. ASSUME NEW l \in Slots, Register!WriteMarkReceipt(l)
      PROVE  MarkedIsWhole'
  BY <1>7 DEF Register!WriteMarkReceipt
<1>8. ASSUME NEW l \in Slots, Register!Load(l)
      PROVE  MarkedIsWhole'
  BY <1>8 DEF Register!Load
<1>9. ASSUME NEW l \in Slots, Register!Save(l)
      PROVE  MarkedIsWhole'
  BY <1>9, SavesCurrent
<1>10. ASSUME NEW l \in Slots, Register!Crash(l)
      PROVE  MarkedIsWhole'
  BY <1>10 DEF Register!Crash
<1>11. ASSUME NEW r \in Roots, Register!OpenedElsewhere(r)
       PROVE  MarkedIsWhole'
  BY <1>11 DEF Register!OpenedElsewhere, Register!Running
<1>12. CASE Register!ReceiptDamaged
  BY <1>12 DEF Register!ReceiptDamaged
<1>13. CASE UNCHANGED Register!vars
  BY <1>13 DEF Register!vars
<1>. QED
  BY <1>1, <1>2, <1>3, <1>4, <1>5, <1>6, <1>7, <1>8, <1>9, <1>10, <1>11, <1>12, <1>13
  DEF Register!Next, Register!Step


\* A root that is out is not in the register, and a marked one was chosen, after each
\* step that crosses no other.
LEMMA WordsPreserved ==
  ASSUME RegisterInv, [Register!Next]_(Register!vars), ~crossed'
  PROVE  Register!RemovedStaysRemoved' /\ Register!BoundaryIsExplicit'
<1>. DEFINE Goal == Register!RemovedStaysRemoved' /\ Register!BoundaryIsExplicit'
<1>1. ASSUME NEW l \in Slots, Register!WriteMerged(l)
      PROVE  Goal
  BY <1>1, MergesCurrent
  DEF UncrossedInv, Register!RemovedStaysRemoved, Register!BoundaryIsExplicit
<1>2. ASSUME NEW l \in Slots, Register!WriteStamped(l)
      PROVE  Goal
  <2>. USE <1>2, StampsCurrent
  <2>1. UncrossedInv /\ \A r \in legacy : word[r] # "none"
    BY DEF UncrossedInv, ChosenIsKnown
  <2>. QED
    BY <2>1
    DEF UncrossedInv, Register!RemovedStaysRemoved, Register!BoundaryIsExplicit, RegisterInv,
        Register!TypeOK
<1>3. ASSUME NEW l \in Slots, Register!Save(l)
      PROVE  Goal
  BY <1>3, SavesCurrent
  DEF UncrossedInv, Register!RemovedStaysRemoved, Register!BoundaryIsExplicit
<1>4. ASSUME NEW r \in Roots, Register!OpenedElsewhere(r)
      PROVE  Goal
  BY <1>4
  DEF Register!OpenedElsewhere, Register!TypeOK, RegisterInv, UncrossedInv,
      Register!RemovedStaysRemoved, Register!BoundaryIsExplicit
<1>5. CASE UNCHANGED <<legacy, register, word, crossed>>
  BY <1>5
  DEF RegisterInv, UncrossedInv, Register!RemovedStaysRemoved, Register!BoundaryIsExplicit
<1>. QED
  BY <1>1, <1>2, <1>3, <1>4, <1>5
  DEF Register!Next, Register!Step, Register!vars, Register!files, Register!Launch,
      Register!ReadToImport, Register!WriteImportReceipt, Register!ReadToMark,
      Register!WriteMarkReceipt, Register!Load, Register!Crash, Register!ReceiptDamaged

LEMMA RegisterInit == Register!Init => RegisterInv
<1>. SUFFICES ASSUME Register!Init
              PROVE  RegisterInv
  OBVIOUS
<1>1. Register!TypeOK
  <2>1. launches \in 0..MaxLaunches /\ snap \in [Slots -> [Roots -> Register!Entries]]
    BY BoundsAssumption DEF Register!Init, Register!Nothing, Register!Entries
  <2>2. stale \in [Slots -> BOOLEAN] /\ crossed \in BOOLEAN
    BY Zenon DEF Register!Init
  <2>3. /\ job \in [Slots -> Register!Jobs] /\ root \in [Slots -> SUBSET Roots]
        /\ atStep \in [Slots -> Register!Stages]
    BY DEF Register!Init, Register!Jobs, Register!Stages
  <2>4. {migration, backfill} \subseteq Register!Receipts
    BY DEF Register!Init, Register!Receipts
  <2>. QED  BY <2>1, <2>2, <2>3, <2>4 DEF Register!Init, Register!TypeOK
<1>2. \A l \in Slots : atStep[l] = "idle"
  BY DEF Register!Init
<1>3. CASE Register!NotYetImported
  BY <1>1, <1>2, <1>3
  DEF Register!NotYetImported, Register!TypeOK, Register!Entries, RegisterInv, ImportsFirst,
      UncrossedInv, NoneRemovedYet, ReadIsCurrent, ChosenIsKnown, MarkedIsWhole
<1>4. CASE Register!ImportedBefore
  BY <1>1, <1>2, <1>4
  DEF Register!ImportedBefore, Register!TypeOK, Register!Entries, RegisterInv, ImportsFirst,
      UncrossedInv, NoneRemovedYet, ReadIsCurrent, ChosenIsKnown, MarkedIsWhole
<1>. QED  BY <1>3, <1>4 DEF Register!Init

LEMMA RegisterInvHolds == Register!Spec => []RegisterInv
<1>1. ASSUME RegisterInv, [Register!Next]_(Register!vars)
      PROVE  RegisterInv'
  <2>1. Register!TypeOK' /\ ImportsFirst'
    BY <1>1, RegisterTypePreserved, ImportsFirstPreserved DEF RegisterInv
  <2>2. ASSUME ~crossed'
        PROVE  UncrossedInv'
    <3>1. NoneRemovedYet' /\ ReadIsCurrent' /\ ChosenIsKnown' /\ MarkedIsWhole'
      BY <1>1, <2>2, RemovalPreserved, ReadsPreserved, ChoicePreserved, MarksPreserved
    <3>2. Register!RemovedStaysRemoved' /\ Register!BoundaryIsExplicit'
      BY <1>1, <2>2, WordsPreserved
    <3>. QED
      BY <2>2, <3>1, <3>2
      DEF UncrossedInv, Register!RemovedStaysRemoved, Register!BoundaryIsExplicit
  <2>. QED  BY <2>1, <2>2 DEF RegisterInv
<1>. QED  BY <1>1, RegisterInit, PTL DEF Register!Spec

\* A workspace the owner removed stays out, one whose checkpoints are on is one the owner
\* chose, and no earlier choice is lost once the marking is done: over every interleaving
\* and crash of any number of launches, damaged receipts and directories opened
\* elsewhere, while no launch writes over what another changed meanwhile.
THEOREM RegisterStaysTheOwners == Register!Spec => []RegisterIsTheOwners
<1>1. RegisterInv => RegisterIsTheOwners
  BY DEF RegisterInv, UncrossedInv, MarkedIsWhole, RegisterIsTheOwners,
         Register!RegisterIsTheOwners, Register!RemovedStaysRemoved,
         Register!BoundaryIsExplicit, Register!OptInsKept
<1>. QED  BY <1>1, RegisterInvHolds, PTL

----------------------------------------------------------------------------
(* Drafts of channel messages. *)

\* A file holds one draft of each id, with a text composed for it.
Composed(id, text) == text \in DOMAIN composed /\ composed[text] = id

IsFile(rows) ==
    /\ rows \in Seq(Drafts!Drafts)
    /\ \A i, j \in DOMAIN rows : rows[i].id = rows[j].id => i = j
    /\ \A i \in DOMAIN rows : Composed(rows[i].id, rows[i].text)

Has(rows, draft) == \E i \in DOMAIN rows : rows[i] = draft

Saving == {"offering", "taken", "refused"}
DraftCalls ==
    [stage : Drafts!Stages, id : Drafts!Ids, text : Drafts!Texts,
     status : Drafts!Statuses, sends : BOOLEAN, base : Seq(Drafts!Drafts)]

DraftsTypeOK ==
    /\ calls \in [Callers -> DraftCalls \cup {Drafts!Idle}]
    /\ held \in [Drafts!Ids -> 0..MaxCalls]
    /\ made \in 0..NumIds /\ began \in 0..MaxCalls
    /\ composed \in Seq(Drafts!Ids) /\ Len(composed) <= began
    /\ arrived \in [Drafts!Texts -> 0..2] /\ kept \in [Drafts!Ids -> 0..MaxCalls]

\* Each call has a draft of its own, or shares one that is counted as exposed; it read
\* a file, and works on a text composed for its draft.
CallsAreSound ==
    \A c \in Callers : calls[c] # Drafts!Idle =>
      /\ Composed(calls[c].id, calls[c].text)
      /\ IsFile(calls[c].base)
      /\ \A k \in Callers \ {c} : calls[k].id = calls[c].id => calls[c].id \in exposed
      /\ calls[c].status = "sent" => calls[c].id \in revised
      /\ calls[c].sends => calls[c].status = "queued"

\* What the daemon has of a draft, while nobody is saving it.
HeldIsKnown ==
    /\ \A c \in Callers : calls[c].stage = "taken" /\ calls[c].id \notin exposed =>
         held[calls[c].id] = calls[c].text
    /\ \A i \in DOMAIN mirror :
         mirror[i].synced /\ mirror[i].id \notin exposed \cup brokenOff
         /\ (\A c \in Callers : calls[c].id = mirror[i].id => calls[c].stage \notin Saving)
           => held[mirror[i].id] = mirror[i].text

\* A text on its way, or in the file and not called sent, has not arrived, unless
\* nobody was told; one that was delivered has.
Fresh(text) == arrived[text] = 0 \/ text \in unheard

ArrivalIsKnown ==
    /\ \A t \in Drafts!Texts \ DOMAIN composed : arrived[t] = 0
    /\ \A c \in Callers :
         /\ calls[c].stage \in Saving \cup {"delivering"} /\ calls[c].id \notin exposed =>
              Fresh(calls[c].text)
         /\ calls[c].stage = "delivered" => arrived[calls[c].text] # 0
         /\ calls[c].stage \in {"delivering", "delivered"} /\ calls[c].id \notin exposed =>
              \A i \in DOMAIN mirror : mirror[i].id = calls[c].id =>
                mirror[i].text = calls[c].text /\ mirror[i].status = "queued"
    /\ \A i \in DOMAIN mirror :
         mirror[i].id \notin exposed /\ mirror[i].status # "sent"
         /\ (\A c \in Callers : calls[c].id = mirror[i].id => calls[c].stage # "delivered")
           => Fresh(mirror[i].text)

SentArrived ==
    \A i \in DOMAIN mirror :
      mirror[i].id \notin exposed \cup revised /\ mirror[i].status = "sent" =>
        arrived[mirror[i].text] # 0

DraftsInv ==
    /\ DraftsTypeOK /\ IsFile(mirror) /\ CallsAreSound /\ HeldIsKnown /\ ArrivalIsKnown
    /\ SentArrived /\ Drafts!CompositionKept /\ Drafts!SentOnce

LEMMA DraftsInit == Drafts!Init => DraftsInv
<1>. SUFFICES ASSUME Drafts!Init PROVE DraftsInv
  OBVIOUS
<1>1. DraftsTypeOK
  BY BoundsAssumption DEF Drafts!Init, DraftsTypeOK, Drafts!Texts, Drafts!Ids
<1>. QED
  BY <1>1
  DEF Drafts!Init, DraftsInv, DraftsTypeOK, IsFile, CallsAreSound, HeldIsKnown, ArrivalIsKnown,
      SentArrived, Drafts!CompositionKept, Drafts!SentOnce, Drafts!Idle, Saving, Drafts!Texts,
      Drafts!Ids

LEMMA RowFacts ==
  ASSUME NEW rows, IsFile(rows), NEW i \in DOMAIN rows
  PROVE  /\ rows[i].id \in Drafts!Ids /\ rows[i].text \in Drafts!Texts
         /\ rows[i].status \in Drafts!Statuses
<1>1. rows \in Seq(Drafts!Drafts) /\ DOMAIN rows = 1..Len(rows)
  BY DEF IsFile
<1>2. rows[i] \in Drafts!Drafts
  BY <1>1
<1>. QED  BY <1>2 DEF Drafts!Drafts

\* A draft put into a file takes the place of the one with its id and leaves the others
\* alone.
LEMMA PlacedFacts ==
  ASSUME NEW c \in Callers, IsFile(calls[c].base), calls[c] \in DraftCalls,
         Composed(calls[c].id, calls[c].text), Drafts!Saved(c) \in Drafts!Drafts
  PROVE  /\ IsFile(Drafts!Placed(c)) /\ Has(Drafts!Placed(c), Drafts!Saved(c))
         /\ \A i \in DOMAIN Drafts!Placed(c) :
              \/ Drafts!Placed(c)[i] = Drafts!Saved(c)
              \/ /\ Drafts!Placed(c)[i].id # calls[c].id
                 /\ Has(calls[c].base, Drafts!Placed(c)[i])
         /\ \A i \in DOMAIN calls[c].base :
              calls[c].base[i].id # calls[c].id => Has(Drafts!Placed(c), calls[c].base[i])
<1>. DEFINE base == calls[c].base
            d    == Drafts!Saved(c)
            rows == Drafts!Placed(c)
<1>1. d.id = calls[c].id /\ d.text = calls[c].text
  BY DEF Drafts!Saved
<1>2. base \in Seq(Drafts!Drafts) /\ DOMAIN base = 1..Len(base) /\ Len(base) \in Nat
  BY DEF IsFile
<1>3. CASE calls[c].id \in Drafts!Held(base)
  <2>1. rows = [i \in DOMAIN base |-> IF base[i].id = calls[c].id THEN d ELSE base[i]]
    BY <1>3 DEF Drafts!Placed
  <2>2. PICK p \in DOMAIN base : base[p].id = calls[c].id
    BY <1>3 DEF Drafts!Held
  <2>20. d \in Drafts!Drafts
    OBVIOUS
  <2>. HIDE DEF rows, d, base
  <2>3. \A i \in DOMAIN rows : rows[i] \in Drafts!Drafts
    BY <2>1, <2>20, <1>2
  <2>4. rows \in Seq(Drafts!Drafts)
    BY <2>1, <2>3, <1>2
  <2>5. \A i \in DOMAIN rows : rows[i].id = base[i].id
    BY <2>1, <1>1
  <2>6. IsFile(rows)
    BY <2>1, <2>4, <2>5, <1>1 DEF IsFile, base
  <2>7. Has(rows, d)
    BY <2>1, <2>2 DEF Has
  <2>8. /\ \A i \in DOMAIN rows : rows[i] = d \/ (rows[i].id # calls[c].id /\ Has(base, rows[i]))
        /\ \A i \in DOMAIN base : base[i].id # calls[c].id => Has(rows, base[i])
    BY <2>1 DEF Has
  <2>. QED  BY <2>6, <2>7, <2>8 DEF rows, d, base
<1>4. CASE calls[c].id \notin Drafts!Held(base)
  <2>1. rows = <<d>> \o base
    BY <1>4 DEF Drafts!Placed
  <2>2. \A i \in DOMAIN base : base[i].id # calls[c].id
    BY <1>4 DEF Drafts!Held
  <2>3. d \in Drafts!Drafts
    OBVIOUS
  <2>. HIDE DEF rows, d, base
  <2>4. /\ rows \in Seq(Drafts!Drafts) /\ Len(rows) = Len(base) + 1 /\ DOMAIN rows = 1..Len(rows)
        /\ rows[1] = d /\ \A i \in 1..Len(base) : rows[i + 1] = base[i]
    BY <2>1, <2>3, <1>2
  <2>5. \A i \in DOMAIN rows : i = 1 \/ (i - 1 \in DOMAIN base /\ rows[i] = base[i - 1])
    BY <2>4, <1>2
  <2>6. ASSUME NEW i \in DOMAIN rows, NEW j \in DOMAIN rows, rows[i].id = rows[j].id
        PROVE  i = j
    <3>1. i \in Int /\ j \in Int
      BY <2>4
    <3>2. i # 1 /\ j # 1 => i - 1 = j - 1
      BY <2>5, <2>6 DEF IsFile, base
    <3>. QED  BY <3>1, <3>2, <2>2, <2>4, <2>5, <2>6, <1>1
  <2>7. \A i \in DOMAIN rows : Composed(rows[i].id, rows[i].text)
    BY <2>4, <2>5, <1>1 DEF IsFile, base
  <2>8. IsFile(rows)
    BY <2>4, <2>6, <2>7 DEF IsFile
  <2>9. Has(rows, d)
    BY <2>4, <1>2 DEF Has
  <2>10. \A i \in DOMAIN rows : rows[i] = d \/ (rows[i].id # calls[c].id /\ Has(base, rows[i]))
    BY <2>2, <2>4, <2>5 DEF Has
  <2>11. \A i \in DOMAIN base : base[i].id # calls[c].id => Has(rows, base[i])
    <3>1. \A i \in DOMAIN base : i + 1 \in DOMAIN rows /\ rows[i + 1] = base[i]
      BY <2>4, <1>2
    <3>. QED  BY <3>1 DEF Has
  <2>. QED  BY <2>8, <2>9, <2>10, <2>11 DEF rows, d, base
<1>. QED  BY <1>3, <1>4

\* The front of a file is a file.
LEMMA FrontFacts ==
  ASSUME NEW rows, IsFile(rows), NEW n \in 0..Len(rows)
  PROVE  /\ IsFile(SubSeq(rows, 1, n)) /\ DOMAIN SubSeq(rows, 1, n) \subseteq DOMAIN rows
         /\ \A i \in DOMAIN SubSeq(rows, 1, n) : SubSeq(rows, 1, n)[i] = rows[i]
<1>1. rows \in Seq(Drafts!Drafts) /\ DOMAIN rows = 1..Len(rows) /\ Len(rows) \in Nat
  BY DEF IsFile
<1>2. /\ SubSeq(rows, 1, n) \in Seq(Drafts!Drafts)
      /\ DOMAIN SubSeq(rows, 1, n) = 1..n
      /\ \A i \in 1..n : SubSeq(rows, 1, n)[i] = rows[i]
  BY <1>1
<1>. QED  BY <1>1, <1>2 DEF IsFile

\* What a write leaves in the file: the draft it saved and what its call had read, where
\* two rows have no id in common, and which of them are as they stood.
LEMMA WriteFacts ==
  ASSUME DraftsInv, NEW c \in Callers, Drafts!Write(c)
  PROVE  /\ IsFile(mirror') /\ calls[c] \in DraftCalls /\ calls[c].stage \in {"taken", "refused"}
         /\ \A i \in DOMAIN mirror' :
              \/ mirror'[i] = Drafts!Saved(c)
              \/ /\ mirror'[i].id # calls[c].id
                 /\ mirror'[i].id \notin exposed' => Has(mirror, mirror'[i])
         /\ calls[c].id \notin evicted' => Has(mirror', Drafts!Saved(c))
         /\ \A i \in DOMAIN mirror :
              mirror[i].id # calls[c].id /\ mirror[i].id \notin exposed' \cup evicted' =>
                Has(mirror', mirror[i])
<1>. DEFINE base == calls[c].base
            rows == Drafts!Placed(c)
            n    == IF Len(rows) > DraftLimit THEN DraftLimit ELSE Len(rows)
<1>1. /\ calls[c].stage \in {"taken", "refused"}
      /\ mirror' = SubSeq(rows, 1, n)
      /\ exposed' = exposed \cup {id \in Drafts!Ids : Drafts!Entry(base, id) # Drafts!Entry(mirror, id)}
      /\ evicted' = evicted \cup (Drafts!Held(rows) \ Drafts!Held(mirror'))
  BY Zenon DEF Drafts!Write, Drafts!AtStage
<1>2. calls[c] \in DraftCalls /\ calls[c] # Drafts!Idle
  BY <1>1 DEF DraftsInv, DraftsTypeOK, Drafts!Idle
<1>3. IsFile(base) /\ Composed(calls[c].id, calls[c].text)
  BY <1>2 DEF DraftsInv, CallsAreSound
<1>4. Drafts!Saved(c) \in Drafts!Drafts
  <2>1. Drafts!Outcome(c) \in BOOLEAN
    BY Zenon DEF Drafts!Outcome, Drafts!AtStage
  <2>. QED  BY <1>2, <2>1 DEF Drafts!Saved, DraftCalls, Drafts!Drafts
<1>5. /\ IsFile(rows) /\ Has(rows, Drafts!Saved(c))
      /\ \A i \in DOMAIN rows :
           rows[i] = Drafts!Saved(c) \/ (rows[i].id # calls[c].id /\ Has(base, rows[i]))
      /\ \A i \in DOMAIN base : base[i].id # calls[c].id => Has(rows, base[i])
  BY <1>2, <1>3, <1>4, PlacedFacts
<1>6. n \in 0..Len(rows)
  BY <1>5, BoundsAssumption DEF IsFile
<1>7. /\ IsFile(mirror') /\ DOMAIN mirror' \subseteq DOMAIN rows
      /\ \A i \in DOMAIN mirror' : mirror'[i] = rows[i]
  BY <1>1, <1>5, <1>6, FrontFacts
<1>8. IsFile(mirror)
  BY DEF DraftsInv
\* A row of the one file with an id that is not exposed is a row of the other.
<1>9. ASSUME NEW d, d.id \in Drafts!Ids, d.id \notin exposed'
      PROVE  Has(base, d) <=> Has(mirror, d)
  <2>1. Drafts!Entry(base, d.id) = Drafts!Entry(mirror, d.id)
    BY <1>1, <1>9
  <2>2. Has(base, d) <=> d \in Drafts!Entry(base, d.id)
    BY DEF Has, Drafts!Entry
  <2>3. Has(mirror, d) <=> d \in Drafts!Entry(mirror, d.id)
    BY DEF Has, Drafts!Entry
  <2>. QED  BY <2>1, <2>2, <2>3
\* A row of the new file put together is in it, unless it fell off.
<1>10. ASSUME NEW d, Has(rows, d), d.id \notin evicted'
       PROVE  Has(mirror', d)
  <2>1. PICK i \in DOMAIN rows : rows[i] = d
    BY <1>10 DEF Has
  <2>2. d.id \in Drafts!Held(rows)
    BY <2>1 DEF Drafts!Held
  <2>3. d.id \in Drafts!Held(mirror')
    BY <1>1, <1>10, <2>2
  <2>4. PICK k \in DOMAIN mirror' : mirror'[k].id = d.id
    BY <2>3 DEF Drafts!Held
  <2>5. k \in DOMAIN rows /\ rows[k].id = rows[i].id
    BY <2>1, <2>4, <1>7
  <2>6. k = i
    BY <2>1, <2>5, <1>5 DEF IsFile
  <2>. QED  BY <2>1, <2>4, <2>6, <1>7 DEF Has
<1>11. \A i \in DOMAIN mirror' :
         \/ mirror'[i] = Drafts!Saved(c)
         \/ /\ mirror'[i].id # calls[c].id
            /\ mirror'[i].id \notin exposed' => Has(mirror, mirror'[i])
  <2>. SUFFICES ASSUME NEW i \in DOMAIN mirror', mirror'[i] # Drafts!Saved(c)
                PROVE  /\ mirror'[i].id # calls[c].id
                       /\ mirror'[i].id \notin exposed' => Has(mirror, mirror'[i])
    OBVIOUS
  <2>1. mirror'[i].id # calls[c].id /\ Has(base, mirror'[i])
    BY <1>5, <1>7
  <2>2. mirror'[i].id \in Drafts!Ids
    BY <1>7, RowFacts
  <2>. QED  BY <2>1, <2>2, <1>9
<1>12. calls[c].id \notin evicted' => Has(mirror', Drafts!Saved(c))
  <2>1. Drafts!Saved(c).id = calls[c].id
    BY DEF Drafts!Saved
  <2>. QED  BY <2>1, <1>5, <1>10
<1>13. ASSUME NEW i \in DOMAIN mirror, mirror[i].id # calls[c].id,
              mirror[i].id \notin exposed' \cup evicted'
       PROVE  Has(mirror', mirror[i])
  <2>1. mirror[i].id \in Drafts!Ids
    BY <1>8, RowFacts
  <2>2. Has(mirror, mirror[i])
    BY DEF Has
  <2>3. Has(base, mirror[i])
    BY <1>9, <1>13, <2>1, <2>2
  <2>4. PICK j \in DOMAIN base : base[j] = mirror[i]
    BY <2>3 DEF Has
  <2>5. Has(rows, mirror[i])
    BY <2>4, <1>5, <1>13
  <2>. QED  BY <2>5, <1>10, <1>13
<1>. QED  BY <1>1, <1>2, <1>7, <1>11, <1>12, <1>13

LEMMA WritePreserved ==
  ASSUME DraftsInv, NEW c \in Callers, Drafts!Write(c)
  PROVE  DraftsInv'
<1>1. /\ IsFile(mirror') /\ calls[c] \in DraftCalls /\ calls[c].stage \in {"taken", "refused"}
      /\ \A i \in DOMAIN mirror' :
           \/ mirror'[i] = Drafts!Saved(c)
           \/ /\ mirror'[i].id # calls[c].id
              /\ mirror'[i].id \notin exposed' => Has(mirror, mirror'[i])
      /\ calls[c].id \notin evicted' => Has(mirror', Drafts!Saved(c))
      /\ \A i \in DOMAIN mirror :
           mirror[i].id # calls[c].id /\ mirror[i].id \notin exposed' \cup evicted' =>
             Has(mirror', mirror[i])
  BY WriteFacts
<1>2. DraftsTypeOK /\ calls[c] # Drafts!Idle
  BY <1>1 DEF DraftsInv, Drafts!Idle
<1>3. /\ kept' = [kept EXCEPT ![calls[c].id] = calls[c].text]
      /\ calls' = [calls EXCEPT ![c] = IF calls[c].sends
                                       THEN [calls[c] EXCEPT !.stage = "delivering", !.base = <<>>]
                                       ELSE Drafts!Idle]
      /\ exposed \subseteq exposed' /\ evicted \subseteq evicted'
      /\ UNCHANGED <<held, began, made, composed, arrived, revised, brokenOff, unheard>>
  BY Zenon DEF Drafts!Write
<1>4. Drafts!Saved(c).id = calls[c].id /\ Drafts!Saved(c).text = calls[c].text
      /\ Drafts!Saved(c).status = calls[c].status
      /\ (Drafts!Saved(c).synced <=> calls[c].stage = "taken")
  BY DEF Drafts!Saved, Drafts!Outcome, Drafts!AtStage
<1>5. DOMAIN calls = Callers /\ calls[c].id \in Drafts!Ids /\ calls[c].text \in Drafts!Texts
  BY <1>1, <1>2 DEF DraftsTypeOK, DraftCalls
\* The call delivers what it saved, or is over; the others are as they were.
<1>6. /\ \/ calls'[c] = Drafts!Idle
         \/ /\ calls[c].sends /\ calls'[c] \in DraftCalls
            /\ calls'[c].stage = "delivering" /\ calls'[c].base = <<>>
            /\ calls'[c].id = calls[c].id /\ calls'[c].text = calls[c].text
            /\ calls'[c].status = calls[c].status /\ calls'[c].sends = calls[c].sends
      /\ \A k \in Callers \ {c} : calls'[k] = calls[k]
  <2>1. \A k \in Callers \ {c} : calls'[k] = calls[k]
    BY <1>3, <1>5
  <2>2. CASE calls[c].sends
    <3>1. calls'[c] = [calls[c] EXCEPT !.stage = "delivering", !.base = <<>>]
      BY <1>3, <1>5, <2>2
    <3>2. <<>> \in Seq(Drafts!Drafts)
      OBVIOUS
    <3>3. calls'[c] \in DraftCalls
      BY <1>1, <3>1, <3>2, Zenon DEF DraftCalls, Drafts!Stages
    <3>4. DOMAIN calls[c] = {"stage", "id", "text", "status", "sends", "base"}
      BY <1>1 DEF DraftCalls
    <3>5. /\ calls'[c].stage = "delivering" /\ calls'[c].base = <<>>
          /\ calls'[c].id = calls[c].id /\ calls'[c].text = calls[c].text
          /\ calls'[c].status = calls[c].status /\ calls'[c].sends = calls[c].sends
      BY <3>1, <3>4
    <3>. QED  BY <2>1, <2>2, <3>3, <3>5
  <2>3. CASE ~calls[c].sends
    BY <1>3, <1>5, <2>1, <2>3
  <2>. QED  BY <2>2, <2>3
<1>7. \A k \in Callers \ {c} : calls[k].id = calls[c].id => calls[c].id \in exposed
  BY <1>2 DEF DraftsInv, CallsAreSound
<1>8. DraftsTypeOK'
  <2>1. calls' \in [Callers -> DraftCalls \cup {Drafts!Idle}]
    BY <1>2, <1>3, <1>6 DEF DraftsTypeOK
  <2>2. kept' \in [Drafts!Ids -> 0..MaxCalls]
    BY <1>2, <1>3, <1>5, BoundsAssumption DEF DraftsTypeOK, Drafts!Texts
  <2>. QED  BY <1>2, <1>3, <2>1, <2>2 DEF DraftsTypeOK
<1>9. IsFile(mirror)'
  BY <1>1, <1>3 DEF IsFile, Composed
<1>10. CallsAreSound'
  <2>. SUFFICES ASSUME NEW k \in Callers, calls'[k] # Drafts!Idle
                PROVE  /\ Composed(calls[k].id, calls[k].text)'
                       /\ IsFile(calls[k].base)'
                       /\ \A m \in Callers \ {k} :
                            calls'[m].id = calls'[k].id => calls'[k].id \in exposed'
                       /\ calls'[k].status = "sent" => calls'[k].id \in revised'
                       /\ calls'[k].sends => calls'[k].status = "queued"
    BY DEF CallsAreSound
  <2>1. /\ Composed(calls[k].id, calls[k].text)
        /\ IsFile(calls[k].base)
        /\ \A m \in Callers \ {k} : calls[m].id = calls[k].id => calls[k].id \in exposed
        /\ calls[k].status = "sent" => calls[k].id \in revised
        /\ calls[k].sends => calls[k].status = "queued"
    BY <1>2, <1>6 DEF DraftsInv, CallsAreSound
  <2>2. \A m \in Callers : calls'[m].id = calls[m].id \/ calls'[m].id = 0
    BY <1>6 DEF Drafts!Idle
  <2>3. calls[k].id # 0 /\ calls'[k].id = calls[k].id /\ calls'[k].text = calls[k].text
        /\ calls'[k].status = calls[k].status /\ calls'[k].sends = calls[k].sends
    BY <1>2, <1>5, <1>6 DEF DraftsTypeOK, DraftCalls, Drafts!Ids
  <2>4. IsFile(calls[k].base)'
    BY <1>3, <1>6, <2>1 DEF IsFile, Composed
  <2>. QED  BY <1>3, <2>1, <2>2, <2>3, <2>4 DEF Composed
<1>11. HeldIsKnown'
  BY <1>1, <1>3, <1>4, <1>5, <1>6, <1>7 DEF DraftsInv, HeldIsKnown, Has, Saving, Drafts!Idle
<1>12. ArrivalIsKnown'
  <2>1. \A t \in Drafts!Texts \ DOMAIN composed' : arrived'[t] = 0
    BY <1>3 DEF DraftsInv, ArrivalIsKnown
  <2>2. ASSUME NEW k \in Callers \ {c}
        PROVE  /\ calls'[k].stage \in Saving \cup {"delivering"} /\ calls'[k].id \notin exposed' =>
                    Fresh(calls'[k].text)
               /\ calls'[k].stage = "delivered" => arrived'[calls'[k].text] # 0
               /\ calls'[k].stage \in {"delivering", "delivered"} /\ calls'[k].id \notin exposed' =>
                    \A i \in DOMAIN mirror' : mirror'[i].id = calls'[k].id =>
                      mirror'[i].text = calls'[k].text /\ mirror'[i].status = "queued"
    BY <1>1, <1>3, <1>4, <1>6, <1>7, <2>2 DEF DraftsInv, ArrivalIsKnown, Has
  <2>3. /\ calls[c].id \notin exposed => Fresh(calls[c].text)
        /\ calls[c].sends => calls[c].status = "queued"
    BY <1>1, <1>2 DEF DraftsInv, ArrivalIsKnown, CallsAreSound, Saving
  <2>4. /\ calls'[c].stage \in Saving \cup {"delivering"} /\ calls'[c].id \notin exposed' =>
             Fresh(calls'[c].text)
        /\ calls'[c].stage # "delivered"
        /\ calls'[c].stage \in {"delivering", "delivered"} /\ calls'[c].id \notin exposed' =>
             \A i \in DOMAIN mirror' : mirror'[i].id = calls'[c].id =>
               mirror'[i].text = calls'[c].text /\ mirror'[i].status = "queued"
    BY <1>1, <1>3, <1>4, <1>6, <2>3 DEF Saving, Drafts!Idle
  <2>5. ASSUME NEW i \in DOMAIN mirror', mirror'[i].id \notin exposed', mirror'[i].status # "sent",
               \A k \in Callers : calls'[k].id = mirror'[i].id => calls'[k].stage # "delivered"
        PROVE  Fresh(mirror'[i].text)
    <3>1. CASE mirror'[i] = Drafts!Saved(c)
      BY <1>3, <1>4, <2>3, <2>5, <3>1
    <3>2. CASE mirror'[i].id # calls[c].id /\ Has(mirror, mirror'[i])
      <4>1. PICK j \in DOMAIN mirror : mirror[j] = mirror'[i]
        BY <3>2 DEF Has
      <4>2. \A k \in Callers : calls[k].id = mirror[j].id => calls[k].stage # "delivered"
        BY <1>6, <2>5, <3>2, <4>1
      <4>. QED  BY <1>3, <2>5, <4>1, <4>2 DEF DraftsInv, ArrivalIsKnown
    <3>. QED  BY <1>1, <2>5, <3>1, <3>2
  <2>. QED  BY <1>3, <2>1, <2>2, <2>4, <2>5 DEF ArrivalIsKnown, Fresh
<1>13. SentArrived'
  BY <1>1, <1>2, <1>3, <1>4 DEF DraftsInv, SentArrived, CallsAreSound, Has
<1>14. Drafts!CompositionKept'
  <2>. SUFFICES ASSUME NEW id \in Drafts!Ids \ (exposed' \cup evicted'), kept'[id] # 0
                PROVE  \E i \in DOMAIN mirror' : mirror'[i].id = id /\ mirror'[i].text = kept'[id]
    BY DEF Drafts!CompositionKept, Drafts!Entry
  <2>1. CASE id = calls[c].id
    BY <1>1, <1>2, <1>3, <1>4, <2>1 DEF DraftsTypeOK, Has
  <2>2. CASE id # calls[c].id
    <3>1. kept'[id] = kept[id]
      BY <1>2, <1>3, <2>2 DEF DraftsTypeOK
    <3>2. PICK i \in DOMAIN mirror : mirror[i].id = id /\ mirror[i].text = kept[id]
      BY <1>3, <3>1 DEF DraftsInv, Drafts!CompositionKept, Drafts!Entry
    <3>. QED  BY <1>1, <2>2, <3>1, <3>2 DEF Has
  <2>. QED  BY <2>1, <2>2
<1>15. Drafts!SentOnce'
  BY <1>3 DEF DraftsInv, Drafts!SentOnce
<1>. QED
  BY <1>8, <1>9, <1>10, <1>11, <1>12, <1>13, <1>14, <1>15 DEF DraftsInv

\* A call that begins: its text is composed for its draft, and has not arrived unless
\* another call works on that draft.
LEMMA OfferPreserved ==
  ASSUME DraftsInv, NEW c \in Callers, NEW id \in Drafts!Ids, NEW text, NEW status \in Drafts!Statuses,
         NEW sends \in BOOLEAN, Drafts!Offer(c, id, text, status, sends),
         composed' \in Seq(Drafts!Ids), Len(composed') <= Len(composed) + 1,
         \A t \in DOMAIN composed : t \in DOMAIN composed' /\ composed'[t] = composed[t],
         text \in DOMAIN composed', composed'[text] = id, made' \in 0..NumIds, revised \subseteq revised',
         status = "sent" => id \in revised', sends => status = "queued",
         id \notin exposed' => Fresh(text)
  PROVE  DraftsInv'
<1>1. DraftsTypeOK /\ IsFile(mirror) /\ CallsAreSound
  BY DEF DraftsInv
<1>2. /\ calls[c].stage = "idle" /\ began < MaxCalls /\ began' = began + 1
      /\ calls' = [calls EXCEPT ![c] = [stage |-> "offering", id |-> id, text |-> text,
                                        status |-> status, sends |-> sends, base |-> mirror]]
      /\ exposed \subseteq exposed'
      /\ (\E k \in Callers \ {c} : calls[k].id = id) => id \in exposed'
      /\ UNCHANGED <<mirror, held, arrived, kept, evicted, brokenOff, unheard>>
  BY Zenon DEF Drafts!Offer, Drafts!Busy, Drafts!Shared
<1>3. DOMAIN calls = Callers /\ calls[c] = Drafts!Idle
  BY <1>1, <1>2 DEF DraftsTypeOK, DraftCalls, Drafts!Stages
<1>4. /\ calls'[c] = [stage |-> "offering", id |-> id, text |-> text, status |-> status,
                      sends |-> sends, base |-> mirror]
      /\ \A k \in Callers \ {c} : calls'[k] = calls[k]
  BY <1>2, <1>3
<1>5. Len(composed) \in Nat /\ Len(composed') \in Nat /\ began \in Nat /\ Len(composed') <= began'
  BY <1>1, <1>2, BoundsAssumption DEF DraftsTypeOK
<1>6. text \in Drafts!Texts
  <2>1. text \in 1..Len(composed')
    BY DEF Composed
  <2>. QED  BY <1>2, <1>5, <2>1, BoundsAssumption DEF Drafts!Texts
<1>7. DraftsTypeOK'
  <2>1. calls'[c] \in DraftCalls
    <3>1. mirror \in Seq(Drafts!Drafts) /\ "offering" \in Drafts!Stages
      BY <1>1 DEF IsFile, Drafts!Stages
    <3>2. [stage |-> "offering", id |-> id, text |-> text, status |-> status,
           sends |-> sends, base |-> mirror] \in DraftCalls
      BY <1>6, <3>1 DEF DraftCalls
    <3>. QED  BY <1>4, <3>2
  <2>2. calls' \in [Callers -> DraftCalls \cup {Drafts!Idle}]
    BY <1>1, <1>2, <1>4, <2>1 DEF DraftsTypeOK
  <2>3. began' \in 0..MaxCalls
    BY <1>1, <1>2, BoundsAssumption DEF DraftsTypeOK
  <2>. QED  BY <1>1, <1>2, <1>5, <2>2, <2>3 DEF DraftsTypeOK
<1>8. ASSUME NEW rows, IsFile(rows) PROVE IsFile(rows)'
  BY <1>8 DEF IsFile, Composed
<1>9. IsFile(mirror)'
  BY <1>1, <1>2, <1>8 DEF IsFile, Composed
<1>10. CallsAreSound'
  <2>1. ASSUME NEW k \in Callers, calls'[k] # Drafts!Idle, k # c
        PROVE  /\ Composed(calls[k].id, calls[k].text)' /\ IsFile(calls[k].base)'
               /\ \A m \in Callers \ {k} :
                    calls'[m].id = calls'[k].id => calls'[k].id \in exposed'
               /\ calls'[k].status = "sent" => calls'[k].id \in revised'
               /\ calls'[k].sends => calls'[k].status = "queued"
    <3>1. calls'[k] = calls[k]
      BY <1>4, <2>1
    <3>2. /\ Composed(calls[k].id, calls[k].text)
          /\ IsFile(calls[k].base)
          /\ \A m \in Callers \ {k} : calls[m].id = calls[k].id => calls[k].id \in exposed
          /\ calls[k].status = "sent" => calls[k].id \in revised
          /\ calls[k].sends => calls[k].status = "queued"
      BY <1>1, <2>1, <3>1 DEF CallsAreSound
    <3>3. IsFile(calls[k].base)'
      BY <3>1, <3>2 DEF IsFile, Composed
    <3>4. \A m \in Callers \ {k} : calls'[m].id = calls'[k].id => calls'[k].id \in exposed'
      BY <1>2, <1>4, <2>1, <3>1, <3>2
    <3>5. Composed(calls[k].id, calls[k].text)'
      BY <3>1, <3>2 DEF Composed
    <3>. QED  BY <3>1, <3>2, <3>3, <3>4, <3>5
  <2>2. /\ Composed(calls[c].id, calls[c].text)' /\ IsFile(calls[c].base)'
        /\ \A m \in Callers \ {c} : calls'[m].id = calls'[c].id => calls'[c].id \in exposed'
        /\ calls'[c].status = "sent" => calls'[c].id \in revised'
        /\ calls'[c].sends => calls'[c].status = "queued"
    <3>1. IsFile(calls[c].base)'
      BY <1>2, <1>4, <1>9 DEF IsFile, Composed
    <3>2. Composed(calls[c].id, calls[c].text)'
      BY <1>4 DEF Composed
    <3>. QED  BY <1>2, <1>4, <3>1, <3>2
  <2>. QED  BY <2>1, <2>2 DEF CallsAreSound
<1>11. HeldIsKnown'
  BY <1>1, <1>2, <1>3, <1>4 DEF DraftsInv, HeldIsKnown, Saving, Drafts!Idle
<1>13. ArrivalIsKnown'
  <2>1. \A k \in Callers : calls[k].stage = "delivered" => calls'[k] = calls[k]
    BY <1>3, <1>4 DEF Drafts!Idle
  <2>2. \A t \in Drafts!Texts \ DOMAIN composed' : arrived'[t] = 0
    BY <1>2 DEF DraftsInv, ArrivalIsKnown
  <2>3. \A k \in Callers :
          /\ calls'[k].stage \in Saving \cup {"delivering"} /\ calls'[k].id \notin exposed' =>
               Fresh(calls[k].text)'
          /\ calls'[k].stage = "delivered" => arrived'[calls'[k].text] # 0
          /\ calls'[k].stage \in {"delivering", "delivered"} /\ calls'[k].id \notin exposed' =>
               \A i \in DOMAIN mirror' : mirror'[i].id = calls'[k].id =>
                 mirror'[i].text = calls'[k].text /\ mirror'[i].status = "queued"
    BY <1>2, <1>4 DEF DraftsInv, ArrivalIsKnown, Fresh
  <2>4. \A i \in DOMAIN mirror' :
          mirror'[i].id \notin exposed' /\ mirror'[i].status # "sent"
          /\ (\A k \in Callers : calls'[k].id = mirror'[i].id => calls'[k].stage # "delivered")
            => Fresh(mirror[i].text)'
    BY <1>2, <2>1 DEF DraftsInv, ArrivalIsKnown, Fresh
  <2>. QED  BY <2>2, <2>3, <2>4 DEF ArrivalIsKnown
<1>14. SentArrived'
  BY <1>2 DEF DraftsInv, SentArrived
<1>15. Drafts!CompositionKept'
  BY <1>2 DEF DraftsInv, Drafts!CompositionKept, Drafts!Entry
<1>16. Drafts!SentOnce'
  <2>1. \A t \in DOMAIN composed' \ DOMAIN composed : t \in Drafts!Texts
    BY <1>2, <1>5, BoundsAssumption DEF Drafts!Texts
  <2>. QED  BY <1>2, <2>1 DEF DraftsInv, Drafts!SentOnce, ArrivalIsKnown
<1>. QED
  BY <1>7, <1>9, <1>10, <1>11, <1>13, <1>14, <1>15, <1>16 DEF DraftsInv

LEMMA BeginPreserved ==
  ASSUME DraftsInv, NEW c \in Callers,
         Drafts!ComposeNew(c) \/ Drafts!ComposeAgain(c) \/ Drafts!Queue(c)
  PROVE  DraftsInv'
<1>1. DraftsTypeOK /\ IsFile(mirror) /\ CallsAreSound
  BY DEF DraftsInv
<1>2. composed \in Seq(Drafts!Ids) /\ Len(composed) \in Nat /\ DOMAIN composed = 1..Len(composed)
      /\ Len(composed) <= began /\ made \in 0..NumIds
  BY <1>1 DEF DraftsTypeOK
\* One more text is one that has not arrived.
<1>3. ASSUME NEW id \in Drafts!Ids, composed' = Append(composed, id), began < MaxCalls,
             arrived' = arrived, unheard' = unheard
      PROVE  /\ composed' \in Seq(Drafts!Ids) /\ Len(composed') = Len(composed) + 1
             /\ \A t \in DOMAIN composed : t \in DOMAIN composed' /\ composed'[t] = composed[t]
             /\ Len(composed') \in DOMAIN composed' /\ composed'[Len(composed')] = id
             /\ arrived[Len(composed')] = 0
  <2>1. /\ composed' \in Seq(Drafts!Ids) /\ Len(composed') = Len(composed) + 1
        /\ \A t \in 1..Len(composed) : composed'[t] = composed[t]
        /\ composed'[Len(composed) + 1] = id
    BY <1>2, <1>3, AppendProperties
  <2>2. DOMAIN composed' = 1..Len(composed')
    BY <2>1
  <2>3. Len(composed') \in Drafts!Texts \ DOMAIN composed
    BY <1>1, <1>2, <1>3, <2>1, BoundsAssumption DEF DraftsTypeOK, Drafts!Texts
  <2>4. arrived[Len(composed')] = 0
    BY <2>3 DEF DraftsInv, ArrivalIsKnown
  <2>. QED  BY <1>2, <1>3, <2>1, <2>2, <2>4
<1>4. CASE Drafts!ComposeNew(c)
  <2>1. /\ made < NumIds /\ made' = made + 1 /\ composed' = Append(composed, made')
        /\ Drafts!Offer(c, made', Len(composed'), "draft", FALSE) /\ revised' = revised
    BY <1>4, Zenon DEF Drafts!ComposeNew
  <2>2. began < MaxCalls /\ arrived' = arrived /\ unheard' = unheard
    BY <2>1, Zenon DEF Drafts!Offer
  <2>3. made' \in Drafts!Ids /\ made' \in 0..NumIds
    BY <1>2, <2>1, BoundsAssumption DEF Drafts!Ids
  <2>4. "draft" \in Drafts!Statuses /\ "draft" # "sent" /\ FALSE \in BOOLEAN
    BY DEF Drafts!Statuses
  <2>5. /\ composed' \in Seq(Drafts!Ids) /\ Len(composed') <= Len(composed) + 1
        /\ \A t \in DOMAIN composed : t \in DOMAIN composed' /\ composed'[t] = composed[t]
        /\ Len(composed') \in DOMAIN composed' /\ composed'[Len(composed')] = made'
        /\ arrived[Len(composed')] = 0
    BY <1>2, <1>3, <2>1, <2>2, <2>3
  <2>. QED  BY <2>1, <2>3, <2>4, <2>5, OfferPreserved DEF Fresh
<1>5. CASE Drafts!ComposeAgain(c)
  <2>1. PICK i \in DOMAIN mirror :
          /\ composed' = Append(composed, mirror[i].id)
          /\ Drafts!Offer(c, mirror[i].id, Len(composed'), mirror[i].status, FALSE)
          /\ revised' = IF mirror[i].status = "sent" THEN revised \cup {mirror[i].id} ELSE revised
    BY <1>5, Zenon DEF Drafts!ComposeAgain
  <2>2. made' = made
    BY <1>5, Zenon DEF Drafts!ComposeAgain
  <2>3. mirror[i].id \in Drafts!Ids /\ mirror[i].status \in Drafts!Statuses
    BY <1>1, RowFacts
  <2>4. began < MaxCalls /\ arrived' = arrived /\ unheard' = unheard
    BY <2>1, Zenon DEF Drafts!Offer
  <2>5. /\ composed' \in Seq(Drafts!Ids) /\ Len(composed') <= Len(composed) + 1
        /\ \A t \in DOMAIN composed : t \in DOMAIN composed' /\ composed'[t] = composed[t]
        /\ Len(composed') \in DOMAIN composed' /\ composed'[Len(composed')] = mirror[i].id
        /\ arrived[Len(composed')] = 0
    BY <1>2, <1>3, <2>1, <2>3, <2>4
  <2>6. /\ made' \in 0..NumIds /\ FALSE \in BOOLEAN /\ revised \subseteq revised'
        /\ mirror[i].status = "sent" => mirror[i].id \in revised'
    BY <1>2, <2>1, <2>2
  <2>. QED  BY <2>1, <2>3, <2>5, <2>6, OfferPreserved DEF Fresh
<1>6. CASE Drafts!Queue(c)
  <2>1. PICK i \in DOMAIN mirror :
          /\ mirror[i].status # "sent"
          /\ Drafts!Offer(c, mirror[i].id, mirror[i].text, "queued", TRUE)
    BY <1>6, Zenon DEF Drafts!Queue, Drafts!MaySend
  <2>2. made' = made /\ composed' = composed /\ revised' = revised
    BY <1>6, Zenon DEF Drafts!Queue
  <2>3. /\ mirror[i].id \in Drafts!Ids
        /\ mirror[i].text \in DOMAIN composed /\ composed[mirror[i].text] = mirror[i].id
    BY <1>1, RowFacts DEF IsFile, Composed
  <2>4. mirror[i].id \notin exposed' => Fresh(mirror[i].text)
    <3>1. /\ calls[c].stage = "idle" /\ exposed \subseteq exposed'
          /\ (\E k \in Callers \ {c} : calls[k].id = mirror[i].id) => mirror[i].id \in exposed'
      BY <2>1, Zenon DEF Drafts!Offer, Drafts!Busy, Drafts!Shared
    <3>. QED  BY <2>1, <3>1 DEF DraftsInv, ArrivalIsKnown
  <2>5. "queued" \in Drafts!Statuses /\ TRUE \in BOOLEAN /\ "queued" # "sent"
    BY DEF Drafts!Statuses
  <2>6. /\ composed' \in Seq(Drafts!Ids) /\ Len(composed') <= Len(composed) + 1
        /\ \A t \in DOMAIN composed : t \in DOMAIN composed' /\ composed'[t] = composed[t]
        /\ mirror[i].text \in DOMAIN composed' /\ composed'[mirror[i].text] = mirror[i].id
        /\ made' \in 0..NumIds /\ revised \subseteq revised'
    BY <1>2, <2>2, <2>3
  <2>. QED  BY <2>1, <2>3, <2>4, <2>5, <2>6, OfferPreserved
<1>. QED  BY <1>4, <1>5, <1>6

\* Where the drafts composed and the file are as they were, and each call is either as
\* it was, at another stage, or over, the calls stay sound.
LEMMA CallsStaySound ==
  ASSUME DraftsInv, NEW c \in Callers, calls' = [calls EXCEPT ![c] = calls'[c]],
         UNCHANGED <<composed, exposed, revised>>,
         \/ calls'[c] = Drafts!Idle
         \/ \E s \in Drafts!Stages : calls'[c] = [calls[c] EXCEPT !.stage = s],
         calls[c].stage # "idle"
  PROVE  /\ calls' \in [Callers -> DraftCalls \cup {Drafts!Idle}]
         /\ CallsAreSound'
         /\ \/ calls'[c] = Drafts!Idle
            \/ calls'[c].id = calls[c].id /\ calls'[c].text = calls[c].text
<1>1. DraftsTypeOK /\ CallsAreSound
  BY DEF DraftsInv
<1>2. calls[c] \in DraftCalls /\ calls[c] # Drafts!Idle
  BY <1>1 DEF DraftsTypeOK, Drafts!Idle
<1>3. DOMAIN calls[c] = {"stage", "id", "text", "status", "sends", "base"}
  BY <1>2 DEF DraftCalls
<1>4. \/ calls'[c] = Drafts!Idle
      \/ /\ calls'[c] \in DraftCalls
         /\ calls'[c].id = calls[c].id /\ calls'[c].text = calls[c].text
         /\ calls'[c].status = calls[c].status /\ calls'[c].sends = calls[c].sends
         /\ calls'[c].base = calls[c].base
  <2>. SUFFICES ASSUME NEW s \in Drafts!Stages, calls'[c] = [calls[c] EXCEPT !.stage = s]
                PROVE  /\ calls'[c] \in DraftCalls
                       /\ calls'[c].id = calls[c].id /\ calls'[c].text = calls[c].text
                       /\ calls'[c].status = calls[c].status /\ calls'[c].sends = calls[c].sends
                       /\ calls'[c].base = calls[c].base
    OBVIOUS
  <2>1. calls'[c] \in DraftCalls
    BY <1>2, Zenon DEF DraftCalls
  <2>. QED  BY <1>3, <2>1
<1>5. DOMAIN calls = Callers /\ \A k \in Callers \ {c} : calls'[k] = calls[k]
  BY <1>1 DEF DraftsTypeOK
<1>6. calls' \in [Callers -> DraftCalls \cup {Drafts!Idle}]
  BY <1>1, <1>4 DEF DraftsTypeOK
<1>7. ASSUME NEW k \in Callers, calls'[k] # Drafts!Idle
      PROVE  /\ Composed(calls[k].id, calls[k].text)' /\ IsFile(calls[k].base)'
             /\ \A m \in Callers \ {k} :
                  calls'[m].id = calls'[k].id => calls'[k].id \in exposed'
             /\ calls'[k].status = "sent" => calls'[k].id \in revised'
             /\ calls'[k].sends => calls'[k].status = "queued"
  <2>1. /\ calls[k] # Drafts!Idle
        /\ calls'[k].id = calls[k].id /\ calls'[k].text = calls[k].text
        /\ calls'[k].status = calls[k].status /\ calls'[k].sends = calls[k].sends
        /\ calls'[k].base = calls[k].base
    BY <1>2, <1>4, <1>5, <1>7
  <2>2. /\ Composed(calls[k].id, calls[k].text)
        /\ IsFile(calls[k].base)
        /\ \A m \in Callers \ {k} : calls[m].id = calls[k].id => calls[k].id \in exposed
        /\ calls[k].status = "sent" => calls[k].id \in revised
        /\ calls[k].sends => calls[k].status = "queued"
    BY <1>1, <2>1 DEF CallsAreSound
  <2>3. calls[k].id # 0
    BY <1>1, <2>1 DEF DraftsTypeOK, DraftCalls, Drafts!Ids
  <2>4. \A m \in Callers : calls'[m].id = calls[m].id \/ calls'[m].id = 0
    BY <1>4, <1>5 DEF Drafts!Idle
  <2>5. IsFile(calls[k].base)' /\ Composed(calls[k].id, calls[k].text)'
    BY <2>1, <2>2 DEF IsFile, Composed
  <2>. QED  BY <2>1, <2>2, <2>3, <2>4, <2>5
<1>. QED  BY <1>4, <1>6, <1>7 DEF CallsAreSound

LEMMA DaemonPreserved ==
  ASSUME DraftsInv, NEW c \in Callers, Drafts!Takes(c) \/ Drafts!Refuses(c)
  PROVE  DraftsInv'
<1>1. /\ calls[c].stage = "offering"
      /\ \/ /\ held' = [held EXCEPT ![calls[c].id] = calls[c].text]
            /\ \/ calls' = [calls EXCEPT ![c].stage = "taken"]
               \/ calls' = [calls EXCEPT ![c].stage = "refused"]
         \/ held' = held /\ calls' = [calls EXCEPT ![c].stage = "refused"]
      /\ UNCHANGED <<mirror, began, made, composed, arrived, kept, exposed, evicted, revised,
                     brokenOff, unheard>>
  BY Zenon DEF Drafts!Takes, Drafts!Refuses, Drafts!Becomes, Drafts!AtStage, Drafts!histories
<1>2. DraftsTypeOK /\ calls[c] \in DraftCalls /\ DOMAIN calls = Callers
  BY <1>1 DEF DraftsInv, DraftsTypeOK, Drafts!Idle
<1>3. /\ calls' = [calls EXCEPT ![c] = calls'[c]]
      /\ \A k \in Callers \ {c} : calls'[k] = calls[k]
      /\ \E s \in {"taken", "refused"} : calls'[c] = [calls[c] EXCEPT !.stage = s]
      /\ calls'[c].stage \in {"taken", "refused"}
      /\ calls'[c].stage = "taken" => held' = [held EXCEPT ![calls[c].id] = calls[c].text]
  <2>1. DOMAIN calls[c] = {"stage", "id", "text", "status", "sends", "base"}
    BY <1>2 DEF DraftCalls
  <2>. QED  BY <1>1, <1>2, <2>1
<1>4. /\ calls' \in [Callers -> DraftCalls \cup {Drafts!Idle}] /\ CallsAreSound'
      /\ calls'[c].id = calls[c].id /\ calls'[c].text = calls[c].text
  BY <1>1, <1>3, CallsStaySound DEF Drafts!Stages, Drafts!Idle
<1>5. \A k \in Callers \ {c} : calls[k].id = calls[c].id => calls[c].id \in exposed
  BY <1>1, <1>2 DEF DraftsInv, CallsAreSound, Drafts!Idle
<1>6. calls[c].id \in Drafts!Ids /\ calls[c].text \in 0..MaxCalls
  BY <1>2, BoundsAssumption DEF DraftCalls, Drafts!Texts
<1>7. DraftsTypeOK'
  BY <1>1, <1>2, <1>4, <1>6 DEF DraftsTypeOK
<1>8. IsFile(mirror)'
  BY <1>1 DEF DraftsInv, IsFile, Composed
<1>9. \A id \in Drafts!Ids : id # calls[c].id => held'[id] = held[id]
  BY <1>1, <1>2 DEF DraftsTypeOK
<1>10. calls'[c].stage = "taken" => held'[calls[c].id] = calls[c].text
  BY <1>2, <1>3, <1>6 DEF DraftsTypeOK
<1>11. HeldIsKnown'
  <2>1. ASSUME NEW k \in Callers, calls'[k].stage = "taken", calls'[k].id \notin exposed
        PROVE  held'[calls'[k].id] = calls'[k].text
    <3>1. CASE k = c
      BY <1>4, <1>10, <2>1, <3>1
    <3>2. CASE k # c
      <4>1. calls'[k] = calls[k] /\ calls[k].id # calls[c].id
        BY <1>3, <1>5, <2>1, <3>2
      <4>2. calls[k].id \in Drafts!Ids
        BY <1>2, <2>1, <4>1 DEF DraftsTypeOK, DraftCalls, Drafts!Idle
      <4>. QED  BY <1>9, <2>1, <4>1, <4>2 DEF DraftsInv, HeldIsKnown
    <3>. QED  BY <3>1, <3>2
  <2>2. ASSUME NEW i \in DOMAIN mirror, mirror[i].synced, mirror[i].id \notin exposed \cup brokenOff,
               \A k \in Callers : calls'[k].id = mirror[i].id => calls'[k].stage \notin Saving
        PROVE  held'[mirror[i].id] = mirror[i].text
    <3>1. mirror[i].id # calls[c].id
      BY <1>3, <1>4, <2>2 DEF Saving
    <3>2. \A k \in Callers : calls[k].id = mirror[i].id => calls[k].stage \notin Saving
      BY <1>3, <2>2, <3>1
    <3>3. mirror[i].id \in Drafts!Ids
      BY RowFacts DEF DraftsInv
    <3>. QED  BY <1>9, <2>2, <3>1, <3>2, <3>3 DEF DraftsInv, HeldIsKnown
  <2>. QED  BY <1>1, <2>1, <2>2 DEF HeldIsKnown
<1>12. ArrivalIsKnown'
  <2>1. \A k \in Callers :
          /\ calls'[k].id = calls[k].id /\ calls'[k].text = calls[k].text
          /\ \/ calls'[k].stage = calls[k].stage
             \/ calls[k].stage \in Saving /\ calls'[k].stage \in Saving
    BY <1>1, <1>3, <1>4 DEF Saving
  <2>2. \A k \in Callers : calls'[k].stage = "delivered" <=> calls[k].stage = "delivered"
    BY <2>1 DEF Saving
  <2>3. \A t \in Drafts!Texts \ DOMAIN composed : arrived[t] = 0
    BY DEF DraftsInv, ArrivalIsKnown
  <2>4. ASSUME NEW k \in Callers
        PROVE  /\ calls'[k].stage \in Saving \cup {"delivering"} /\ calls'[k].id \notin exposed =>
                    Fresh(calls[k].text)
               /\ calls'[k].stage = "delivered" => arrived[calls'[k].text] # 0
               /\ calls'[k].stage \in {"delivering", "delivered"} /\ calls'[k].id \notin exposed =>
                    \A i \in DOMAIN mirror : mirror[i].id = calls'[k].id =>
                      mirror[i].text = calls'[k].text /\ mirror[i].status = "queued"
    BY <2>1 DEF DraftsInv, ArrivalIsKnown, Saving
  <2>5. ASSUME NEW i \in DOMAIN mirror, mirror[i].id \notin exposed, mirror[i].status # "sent",
               \A k \in Callers : calls'[k].id = mirror[i].id => calls'[k].stage # "delivered"
        PROVE  Fresh(mirror[i].text)
    BY <2>1, <2>2, <2>5 DEF DraftsInv, ArrivalIsKnown
  <2>. QED  BY <1>1, <2>1, <2>3, <2>4, <2>5 DEF ArrivalIsKnown, Fresh
<1>13. SentArrived' /\ Drafts!CompositionKept' /\ Drafts!SentOnce'
  BY <1>1 DEF DraftsInv, SentArrived, Drafts!CompositionKept, Drafts!Entry, Drafts!SentOnce
<1>. QED  BY <1>4, <1>7, <1>8, <1>11, <1>12, <1>13 DEF DraftsInv

LEMMA MarkPreserved ==
  ASSUME DraftsInv, NEW c \in Callers,
         Drafts!Confirmed(c) \/ Drafts!Unconfirmed(c) \/ Drafts!DeliveryFails(c)
  PROVE  DraftsInv'
<1>1. PICK status \in {"sent", "failed"} :
        /\ \/ calls[c].stage = "delivered" /\ status = "sent" /\ unheard' = unheard
           \/ /\ calls[c].stage = "delivered" /\ status = "failed"
              /\ unheard' = unheard \cup {calls[c].text}
           \/ calls[c].stage = "delivering" /\ status = "failed" /\ unheard' = unheard
        /\ mirror' = [i \in DOMAIN mirror |-> IF mirror[i].id = calls[c].id
                                              THEN [mirror[i] EXCEPT !.status = status]
                                              ELSE mirror[i]]
        /\ calls' = [calls EXCEPT ![c] = Drafts!Idle]
        /\ UNCHANGED <<held, began, made, composed, arrived, kept, exposed, evicted, revised,
                       brokenOff>>
  BY Zenon DEF Drafts!Confirmed, Drafts!Unconfirmed, Drafts!DeliveryFails, Drafts!Mark, Drafts!AtStage
<1>2. DraftsTypeOK /\ IsFile(mirror) /\ DOMAIN calls = Callers /\ calls[c] # Drafts!Idle
  BY <1>1 DEF DraftsInv, DraftsTypeOK, Drafts!Idle
<1>3. /\ calls'[c] = Drafts!Idle /\ calls' = [calls EXCEPT ![c] = calls'[c]]
      /\ \A k \in Callers \ {c} : calls'[k] = calls[k]
  BY <1>1, <1>2
<1>4. calls' \in [Callers -> DraftCalls \cup {Drafts!Idle}] /\ CallsAreSound'
  BY <1>1, <1>3, CallsStaySound DEF Drafts!Idle
<1>5. DraftsTypeOK'
  BY <1>1, <1>2, <1>4 DEF DraftsTypeOK
<1>6. mirror \in Seq(Drafts!Drafts) /\ DOMAIN mirror = 1..Len(mirror) /\ Len(mirror) \in Nat
  BY <1>2 DEF IsFile
<1>7. \A i \in DOMAIN mirror : mirror[i] \in Drafts!Drafts
  BY <1>6
\* Only what a row of the draft says of its sending changes.
<1>8. /\ DOMAIN mirror' = DOMAIN mirror
      /\ \A i \in DOMAIN mirror :
           /\ mirror'[i] \in Drafts!Drafts
           /\ mirror'[i].id = mirror[i].id /\ mirror'[i].text = mirror[i].text
           /\ mirror'[i].synced = mirror[i].synced
           /\ IF mirror[i].id = calls[c].id THEN mirror'[i].status = status
              ELSE mirror'[i].status = mirror[i].status
  <2>1. ASSUME NEW i \in DOMAIN mirror, mirror[i].id = calls[c].id
        PROVE  /\ mirror'[i] \in Drafts!Drafts
               /\ mirror'[i].id = mirror[i].id /\ mirror'[i].text = mirror[i].text
               /\ mirror'[i].synced = mirror[i].synced /\ mirror'[i].status = status
    <3>1. mirror'[i] = [mirror[i] EXCEPT !.status = status]
      BY <1>1, <2>1
    <3>2. DOMAIN mirror[i] = {"id", "text", "status", "synced"}
      BY <1>7 DEF Drafts!Drafts
    <3>3. status \in Drafts!Statuses
      BY DEF Drafts!Statuses
    <3>4. mirror'[i] \in Drafts!Drafts
      BY <1>7, <3>1, <3>3, Zenon DEF Drafts!Drafts
    <3>. QED  BY <3>1, <3>2, <3>4
  <2>2. ASSUME NEW i \in DOMAIN mirror, mirror[i].id # calls[c].id
        PROVE  mirror'[i] = mirror[i]
    BY <1>1, <2>2
  <2>3. DOMAIN mirror' = DOMAIN mirror
    BY <1>1
  <2>. QED  BY <1>7, <2>1, <2>2, <2>3
<1>9. IsFile(mirror)'
  <2>1. mirror' = [i \in 1..Len(mirror) |-> mirror'[i]]
    BY <1>1, <1>6
  <2>2. mirror' \in Seq(Drafts!Drafts)
    BY <1>6, <1>8, <2>1
  <2>. QED  BY <1>1, <1>2, <1>8, <2>2 DEF IsFile, Composed
<1>10. \A k \in Callers \ {c} : calls[k].id = calls[c].id => calls[c].id \in exposed
  BY <1>2 DEF DraftsInv, CallsAreSound
<1>12. HeldIsKnown'
  BY <1>1, <1>3, <1>8 DEF DraftsInv, HeldIsKnown, Saving, Drafts!Idle
\* The rows of the draft carry the text that was delivered, or was to be.
<1>13. calls[c].id \notin exposed =>
         \A i \in DOMAIN mirror : mirror[i].id = calls[c].id => mirror[i].text = calls[c].text
  BY <1>1 DEF DraftsInv, ArrivalIsKnown
<1>14. /\ calls[c].stage = "delivered" => arrived[calls[c].text] # 0
       /\ calls[c].stage = "delivering" /\ calls[c].id \notin exposed => Fresh(calls[c].text)
  BY DEF DraftsInv, ArrivalIsKnown
<1>15. ArrivalIsKnown'
  <2>1. \A t \in Drafts!Texts \ DOMAIN composed' : arrived'[t] = 0
    BY <1>1 DEF DraftsInv, ArrivalIsKnown
  <2>2. \A k \in Callers :
          /\ calls'[k].stage \in Saving \cup {"delivering"} /\ calls'[k].id \notin exposed' =>
               Fresh(calls[k].text)'
          /\ calls'[k].stage = "delivered" => arrived'[calls'[k].text] # 0
          /\ calls'[k].stage \in {"delivering", "delivered"} /\ calls'[k].id \notin exposed' =>
               \A i \in DOMAIN mirror' : mirror'[i].id = calls'[k].id =>
                 mirror'[i].text = calls'[k].text /\ mirror'[i].status = "queued"
    <3>1. ASSUME NEW k \in Callers, calls'[k].stage \in Saving \cup {"delivering", "delivered"}
          PROVE  k # c /\ calls'[k] = calls[k]
      BY <1>3, <3>1 DEF Saving, Drafts!Idle
    <3>3. \A k \in Callers :
            /\ calls[k].stage \in Saving \cup {"delivering"} /\ calls[k].id \notin exposed =>
                 Fresh(calls[k].text)
            /\ calls[k].stage = "delivered" => arrived[calls[k].text] # 0
            /\ calls[k].stage \in {"delivering", "delivered"} /\ calls[k].id \notin exposed =>
                 \A i \in DOMAIN mirror : mirror[i].id = calls[k].id =>
                   mirror[i].text = calls[k].text /\ mirror[i].status = "queued"
      BY DEF DraftsInv, ArrivalIsKnown
    <3>4. ASSUME NEW k \in Callers, calls'[k].stage \in {"delivering", "delivered"},
                 calls'[k].id \notin exposed', NEW i \in DOMAIN mirror',
                 mirror'[i].id = calls'[k].id
          PROVE  mirror'[i].text = calls'[k].text /\ mirror'[i].status = "queued"
      <4>1. k # c /\ calls'[k] = calls[k] /\ mirror'[i].id # calls[c].id
        BY <1>1, <1>10, <3>1, <3>4
      <4>. QED  BY <1>1, <1>8, <3>3, <3>4, <4>1
    <3>. QED  BY <1>1, <3>1, <3>3, <3>4 DEF Fresh
  <2>3. ASSUME NEW i \in DOMAIN mirror, mirror[i].id \notin exposed, mirror'[i].status # "sent",
               \A k \in Callers : calls'[k].id = mirror[i].id => calls'[k].stage # "delivered"
        PROVE  Fresh(mirror[i].text)'
    <3>1. CASE mirror[i].id = calls[c].id
      BY <1>1, <1>8, <1>13, <1>14, <2>3, <3>1 DEF Fresh
    <3>2. CASE mirror[i].id # calls[c].id
      <4>1. \A k \in Callers : calls[k].id = mirror[i].id => calls[k].stage # "delivered"
        BY <1>3, <2>3, <3>2
      <4>2. Fresh(mirror[i].text)
        BY <1>8, <2>3, <3>2, <4>1 DEF DraftsInv, ArrivalIsKnown
      <4>. QED  BY <1>1, <4>2 DEF Fresh
    <3>. QED  BY <3>1, <3>2
  <2>. QED  BY <1>1, <1>8, <2>1, <2>2, <2>3 DEF ArrivalIsKnown, Fresh
<1>16. SentArrived'
  <2>1. ASSUME NEW i \in DOMAIN mirror, mirror[i].id \notin exposed \cup revised,
               mirror'[i].status = "sent"
        PROVE  arrived[mirror[i].text] # 0
    BY <1>1, <1>8, <1>13, <1>14, <2>1 DEF DraftsInv, SentArrived
  <2>. QED  BY <1>1, <1>8, <2>1 DEF SentArrived
<1>17. Drafts!CompositionKept'
  <2>. SUFFICES ASSUME NEW id \in Drafts!Ids \ (exposed' \cup evicted'), kept'[id] # 0
                PROVE  \E i \in DOMAIN mirror' : mirror'[i].id = id /\ mirror'[i].text = kept'[id]
    BY DEF Drafts!CompositionKept, Drafts!Entry
  <2>1. PICK i \in DOMAIN mirror : mirror[i].id = id /\ mirror[i].text = kept[id]
    BY <1>1 DEF DraftsInv, Drafts!CompositionKept, Drafts!Entry
  <2>. QED  BY <1>1, <1>8, <2>1
<1>18. Drafts!SentOnce'
  BY <1>1 DEF DraftsInv, Drafts!SentOnce
<1>. QED
  BY <1>4, <1>5, <1>9, <1>12, <1>15, <1>16, <1>17, <1>18 DEF DraftsInv

LEMMA DeliveryPreserved ==
  ASSUME DraftsInv, NEW c \in Callers, Drafts!Delivers(c)
  PROVE  DraftsInv'
<1>1. /\ calls[c].stage = "delivering" /\ calls' = [calls EXCEPT ![c].stage = "delivered"]
      /\ arrived' = [arrived EXCEPT ![calls[c].text] = IF arrived[calls[c].text] = 0 THEN 1 ELSE 2]
      /\ UNCHANGED <<mirror, held, began, made, composed, kept, exposed, evicted, revised,
                     brokenOff, unheard>>
  BY Zenon DEF Drafts!Delivers, Drafts!AtStage, Drafts!Becomes, Drafts!histories
<1>2. DraftsTypeOK /\ calls[c] \in DraftCalls /\ calls[c] # Drafts!Idle /\ DOMAIN calls = Callers
  BY <1>1 DEF DraftsInv, DraftsTypeOK, Drafts!Idle
<1>3. /\ calls' = [calls EXCEPT ![c] = calls'[c]]
      /\ \A k \in Callers \ {c} : calls'[k] = calls[k]
      /\ calls'[c] = [calls[c] EXCEPT !.stage = "delivered"] /\ calls'[c].stage = "delivered"
  <2>1. DOMAIN calls[c] = {"stage", "id", "text", "status", "sends", "base"}
    BY <1>2 DEF DraftCalls
  <2>. QED  BY <1>1, <1>2, <2>1
<1>4. /\ calls' \in [Callers -> DraftCalls \cup {Drafts!Idle}] /\ CallsAreSound'
      /\ calls'[c].id = calls[c].id /\ calls'[c].text = calls[c].text
  BY <1>1, <1>3, CallsStaySound DEF Drafts!Stages, Drafts!Idle
<1>5. calls[c].id \in Drafts!Ids /\ calls[c].text \in Drafts!Texts
  BY <1>2 DEF DraftCalls
<1>6. /\ \A t \in Drafts!Texts : t # calls[c].text => arrived'[t] = arrived[t]
      /\ arrived'[calls[c].text] = IF arrived[calls[c].text] = 0 THEN 1 ELSE 2
      /\ \A t \in Drafts!Texts : arrived[t] # 0 => arrived'[t] # 0
  BY <1>1, <1>2, <1>5 DEF DraftsTypeOK
<1>7. DraftsTypeOK'
  <2>1. arrived' \in [Drafts!Texts -> 0..2]
    <3>1. (IF arrived[calls[c].text] = 0 THEN 1 ELSE 2) \in 0..2
      OBVIOUS
    <3>. QED  BY <1>1, <1>2, <3>1 DEF DraftsTypeOK
  <2>. QED  BY <1>1, <1>2, <1>4, <2>1 DEF DraftsTypeOK
<1>8. IsFile(mirror) /\ IsFile(mirror)'
  BY <1>1 DEF DraftsInv, IsFile, Composed
<1>9. HeldIsKnown'
  <2>1. \A k \in Callers :
          /\ calls'[k].id = calls[k].id /\ calls'[k].text = calls[k].text
          /\ calls'[k].stage \in Saving => calls'[k].stage = calls[k].stage
          /\ calls[k].stage \in Saving => calls'[k].stage = calls[k].stage
    BY <1>1, <1>3, <1>4 DEF Saving
  <2>2. \A k \in Callers : calls'[k].stage = "taken" => calls[k].stage = "taken"
    BY <2>1 DEF Saving
  <2>. QED  BY <1>1, <2>1, <2>2 DEF DraftsInv, HeldIsKnown
\* Its text belongs to its draft, which no other call works on, and had not arrived.
<1>10. /\ calls[c].text \in DOMAIN composed /\ composed[calls[c].text] = calls[c].id
       /\ \A k \in Callers \ {c} : calls[k].id = calls[c].id => calls[c].id \in exposed
  BY <1>2 DEF DraftsInv, CallsAreSound, Composed
<1>11. calls[c].id \notin exposed => Fresh(calls[c].text)
  BY <1>1 DEF DraftsInv, ArrivalIsKnown
<1>12. ASSUME NEW t \in Drafts!Texts, t \notin DOMAIN composed \/ composed[t] # calls[c].id
       PROVE  arrived'[t] = arrived[t]
  BY <1>6, <1>10, <1>12
<1>13. ArrivalIsKnown'
  <2>1. \A t \in Drafts!Texts \ DOMAIN composed' : arrived'[t] = 0
    BY <1>1, <1>12 DEF DraftsInv, ArrivalIsKnown
  <2>2. ASSUME NEW k \in Callers \ {c}, calls[k] # Drafts!Idle
        PROVE  /\ calls[k].stage \in Saving \cup {"delivering"} /\ calls[k].id \notin exposed =>
                    arrived'[calls[k].text] = 0 \/ calls[k].text \in unheard
               /\ calls[k].stage = "delivered" => arrived'[calls[k].text] # 0
               /\ calls[k].stage \in {"delivering", "delivered"} /\ calls[k].id \notin exposed =>
                    \A i \in DOMAIN mirror : mirror[i].id = calls[k].id =>
                      mirror[i].text = calls[k].text /\ mirror[i].status = "queued"
    <3>1. calls[k].text \in Drafts!Texts /\ Composed(calls[k].id, calls[k].text)
      BY <1>2, <2>2 DEF DraftsInv, DraftsTypeOK, DraftCalls, CallsAreSound
    <3>2. calls[k].id \notin exposed => arrived'[calls[k].text] = arrived[calls[k].text]
      BY <1>10, <1>12, <3>1 DEF Composed
    <3>. QED  BY <1>6, <3>1, <3>2 DEF DraftsInv, ArrivalIsKnown, Fresh
  <2>3. /\ arrived'[calls[c].text] # 0
        /\ calls[c].id \notin exposed =>
             \A i \in DOMAIN mirror : mirror[i].id = calls[c].id =>
               mirror[i].text = calls[c].text /\ mirror[i].status = "queued"
    BY <1>1, <1>6 DEF DraftsInv, ArrivalIsKnown
  <2>4. \A k \in Callers :
          /\ calls'[k].stage \in Saving \cup {"delivering"} /\ calls'[k].id \notin exposed' =>
               Fresh(calls[k].text)'
          /\ calls'[k].stage = "delivered" => arrived'[calls'[k].text] # 0
          /\ calls'[k].stage \in {"delivering", "delivered"} /\ calls'[k].id \notin exposed' =>
               \A i \in DOMAIN mirror' : mirror'[i].id = calls'[k].id =>
                 mirror'[i].text = calls'[k].text /\ mirror'[i].status = "queued"
    BY <1>1, <1>3, <1>4, <2>2, <2>3 DEF Fresh, Saving, Drafts!Idle
  <2>5. ASSUME NEW i \in DOMAIN mirror, mirror[i].id \notin exposed, mirror[i].status # "sent",
               \A k \in Callers : calls'[k].id = mirror[i].id => calls'[k].stage # "delivered"
        PROVE  Fresh(mirror[i].text)'
    <3>1. mirror[i].id # calls[c].id
      BY <1>3, <1>4, <2>5
    <3>2. \A k \in Callers : calls[k].id = mirror[i].id => calls[k].stage # "delivered"
      BY <1>3, <2>5, <3>1
    <3>3. mirror[i].text \in Drafts!Texts /\ Composed(mirror[i].id, mirror[i].text)
      BY <1>8, RowFacts DEF IsFile
    <3>4. arrived'[mirror[i].text] = arrived[mirror[i].text]
      BY <1>12, <3>1, <3>3 DEF Composed
    <3>5. Fresh(mirror[i].text)
      BY <2>5, <3>2 DEF DraftsInv, ArrivalIsKnown
    <3>. QED  BY <1>1, <3>4, <3>5 DEF Fresh
  <2>. QED  BY <1>1, <2>1, <2>4, <2>5 DEF ArrivalIsKnown, Fresh
<1>14. SentArrived'
  BY <1>1, <1>6, <1>8, RowFacts DEF DraftsInv, SentArrived
<1>15. Drafts!CompositionKept'
  BY <1>1 DEF DraftsInv, Drafts!CompositionKept, Drafts!Entry
<1>16. Drafts!SentOnce'
  <2>. SUFFICES ASSUME NEW t \in DOMAIN composed, t \notin unheard, composed[t] \notin exposed
                PROVE  arrived'[t] <= 1
    BY <1>1 DEF Drafts!SentOnce
  <2>1. t \in Drafts!Texts
    <3>1. t \in 1..Len(composed) /\ Len(composed) <= began /\ began <= MaxCalls
          /\ began \in Nat /\ Len(composed) \in Nat
      BY <1>2, BoundsAssumption DEF DraftsTypeOK
    <3>. QED  BY <3>1, BoundsAssumption DEF Drafts!Texts
  <2>2. arrived[t] <= 1
    BY DEF DraftsInv, Drafts!SentOnce
  <2>3. t = calls[c].text => arrived[t] = 0
    BY <1>10, <1>11 DEF Fresh
  <2>. QED  BY <1>6, <2>1, <2>2, <2>3
<1>. QED
  BY <1>4, <1>7, <1>8, <1>9, <1>13, <1>14, <1>15, <1>16 DEF DraftsInv

LEMMA CrashPreserved ==
  ASSUME DraftsInv, NEW c \in Callers, Drafts!Crash(c)
  PROVE  DraftsInv'
<1>1. /\ calls[c].stage # "idle" /\ calls' = [calls EXCEPT ![c] = Drafts!Idle]
      /\ brokenOff' = brokenOff \cup {calls[c].id}
      /\ unheard' = IF calls[c].stage = "delivered" THEN unheard \cup {calls[c].text} ELSE unheard
      /\ UNCHANGED <<mirror, held, began, made, composed, arrived, kept, exposed, evicted, revised>>
  BY Zenon DEF Drafts!Crash, Drafts!Busy, Drafts!AtStage
<1>2. DraftsTypeOK /\ IsFile(mirror) /\ DOMAIN calls = Callers
  BY DEF DraftsInv, DraftsTypeOK
<1>3. /\ calls'[c] = Drafts!Idle /\ calls' = [calls EXCEPT ![c] = calls'[c]]
      /\ \A k \in Callers \ {c} : calls'[k] = calls[k]
  BY <1>1, <1>2
<1>4. calls' \in [Callers -> DraftCalls \cup {Drafts!Idle}] /\ CallsAreSound'
  BY <1>1, <1>3, CallsStaySound
<1>5. DraftsTypeOK' /\ IsFile(mirror)'
  BY <1>1, <1>2, <1>4 DEF DraftsTypeOK, IsFile, Composed
<1>6. HeldIsKnown'
  <2>1. \A k \in Callers : calls'[k].stage = "taken" => calls'[k] = calls[k]
    BY <1>3 DEF Drafts!Idle
  <2>2. ASSUME NEW i \in DOMAIN mirror, mirror[i].id # calls[c].id,
               \A k \in Callers : calls'[k].id = mirror[i].id => calls'[k].stage \notin Saving
        PROVE  \A k \in Callers : calls[k].id = mirror[i].id => calls[k].stage \notin Saving
    BY <1>3, <2>2
  <2>. QED  BY <1>1, <2>1, <2>2 DEF DraftsInv, HeldIsKnown
<1>7. unheard \subseteq unheard'
  BY <1>1
<1>8. ArrivalIsKnown'
  <2>1. ASSUME NEW k \in Callers, calls'[k].stage \in Saving \cup {"delivering", "delivered"}
        PROVE  calls'[k] = calls[k]
    BY <1>3, <2>1 DEF Saving, Drafts!Idle
  <2>2. \A k \in Callers :
          /\ calls'[k].stage \in Saving \cup {"delivering"} /\ calls'[k].id \notin exposed' =>
               Fresh(calls[k].text)'
          /\ calls'[k].stage = "delivered" => arrived'[calls'[k].text] # 0
          /\ calls'[k].stage \in {"delivering", "delivered"} /\ calls'[k].id \notin exposed' =>
               \A i \in DOMAIN mirror' : mirror'[i].id = calls'[k].id =>
                 mirror'[i].text = calls'[k].text /\ mirror'[i].status = "queued"
    BY <1>1, <1>7, <2>1 DEF DraftsInv, ArrivalIsKnown, Fresh
  <2>3. ASSUME NEW i \in DOMAIN mirror, mirror[i].id \notin exposed, mirror[i].status # "sent",
               \A k \in Callers : calls'[k].id = mirror[i].id => calls'[k].stage # "delivered"
        PROVE  Fresh(mirror[i].text)'
    <3>1. CASE mirror[i].id = calls[c].id /\ calls[c].stage = "delivered"
      BY <1>1, <3>1, <2>3 DEF DraftsInv, ArrivalIsKnown, Fresh
    <3>2. CASE ~(mirror[i].id = calls[c].id /\ calls[c].stage = "delivered")
      <4>1. \A k \in Callers : calls[k].id = mirror[i].id => calls[k].stage # "delivered"
        BY <1>3, <2>3, <3>2
      <4>2. Fresh(mirror[i].text)
        BY <2>3, <4>1 DEF DraftsInv, ArrivalIsKnown
      <4>. QED  BY <1>1, <1>7, <4>2 DEF Fresh
    <3>. QED  BY <3>1, <3>2
  <2>4. \A t \in Drafts!Texts \ DOMAIN composed' : arrived'[t] = 0
    BY <1>1 DEF DraftsInv, ArrivalIsKnown
  <2>. QED  BY <1>1, <2>2, <2>3, <2>4 DEF ArrivalIsKnown, Fresh
<1>9. SentArrived' /\ Drafts!CompositionKept'
  BY <1>1 DEF DraftsInv, SentArrived, Drafts!CompositionKept, Drafts!Entry
<1>10. Drafts!SentOnce'
  BY <1>1, <1>7 DEF DraftsInv, Drafts!SentOnce
<1>. QED  BY <1>4, <1>5, <1>6, <1>8, <1>9, <1>10 DEF DraftsInv

LEMMA DraftsInvHolds == Drafts!Spec => []DraftsInv
<1>1. ASSUME DraftsInv, [Drafts!Next]_(Drafts!vars)
      PROVE  DraftsInv'
  <2>1. ASSUME NEW c \in Callers,
               \/ Drafts!ComposeNew(c) \/ Drafts!ComposeAgain(c) \/ Drafts!Queue(c)
               \/ Drafts!Takes(c) \/ Drafts!Refuses(c) \/ Drafts!Write(c)
               \/ Drafts!Delivers(c) \/ Drafts!Confirmed(c) \/ Drafts!Unconfirmed(c)
               \/ Drafts!DeliveryFails(c) \/ Drafts!Crash(c)
        PROVE  DraftsInv'
    <3>. USE <1>1
    <3>1. CASE Drafts!ComposeNew(c) \/ Drafts!ComposeAgain(c) \/ Drafts!Queue(c)
      BY <3>1, BeginPreserved
    <3>2. CASE Drafts!Takes(c) \/ Drafts!Refuses(c)
      BY <3>2, DaemonPreserved
    <3>3. CASE Drafts!Write(c)
      BY <3>3, WritePreserved
    <3>4. CASE Drafts!Delivers(c)
      BY <3>4, DeliveryPreserved
    <3>5. CASE Drafts!Confirmed(c) \/ Drafts!Unconfirmed(c) \/ Drafts!DeliveryFails(c)
      BY <3>5, MarkPreserved
    <3>6. CASE Drafts!Crash(c)
      BY <3>6, CrashPreserved
    <3>. QED  BY <2>1, <3>1, <3>2, <3>3, <3>4, <3>5, <3>6
  <2>2. CASE UNCHANGED Drafts!vars
    BY <1>1, <2>2
    DEF Drafts!vars, Drafts!histories, DraftsInv, DraftsTypeOK, IsFile, Composed, CallsAreSound,
        HeldIsKnown, ArrivalIsKnown, Fresh, SentArrived, Drafts!CompositionKept, Drafts!Entry,
        Drafts!SentOnce
  <2>. QED  BY <1>1, <2>1, <2>2 DEF Drafts!Next
<1>. QED  BY <1>1, DraftsInit, PTL DEF Drafts!Spec

\* A composition whose save was reported stays in the file, what the file calls synced is
\* what the daemon has, a message reaches its channel once, and sent and failed are true:
\* whatever the daemon takes or refuses and whichever delivery fails, breaks off or is
\* tried again, for a draft no two calls worked on at once.
THEOREM DraftsStayKept == Drafts!Spec => []DraftsAreKept
<1>1. DraftsInv => DraftsAreKept
  <2>. SUFFICES ASSUME DraftsInv PROVE Drafts!DraftsAreKept
    BY DEF DraftsAreKept
  <2>2. Drafts!SyncedIsHeld
    BY DEF DraftsInv, HeldIsKnown, Drafts!SyncedIsHeld
  <2>3. Drafts!StatusIsTrue
    BY DEF DraftsInv, SentArrived, ArrivalIsKnown, Fresh, Drafts!StatusIsTrue
  <2>. QED  BY <2>2, <2>3 DEF DraftsInv, Drafts!DraftsAreKept
<1>. QED  BY <1>1, DraftsInvHolds, PTL

----------------------------------------------------------------------------
(* The parts in one run. *)

\* The parts stand still while one moves: each behaves as its own specification says, so
\* that what is proved of a part holds when they are run as one.
THEOREM PartsAreTheirOwn ==
  PartsSpec => /\ Spec /\ Handoff!Spec /\ Mirror!Spec /\ Adoption!Spec
               /\ Wake!Spec /\ Apply!Spec /\ Register!Spec /\ Drafts!Spec
<1>1. PartsInit => /\ Init /\ Handoff!Init /\ Mirror!Init /\ Adoption!Init
                   /\ Wake!Init /\ Apply!Init /\ Register!Init /\ Drafts!Init
  BY Zenon DEF PartsInit
<1>. USE DEF allVars, otherThanCalendar, otherThanHandoff, otherThanMirror, otherThanAdoption,
             otherThanWake, otherThanApply, otherThanRegister, otherThanDrafts
<1>2. [PartsNext]_allVars => [Next]_vars
  BY DEF PartsNext, calendarVars
<1>3. [PartsNext]_allVars => [Handoff!Next]_(Handoff!vars)
  BY DEF PartsNext, handoffVars, Handoff!vars
<1>4. [PartsNext]_allVars => [Mirror!Next]_(Mirror!vars)
  BY DEF PartsNext, mirrorVars, Mirror!vars
<1>5. [PartsNext]_allVars => [Adoption!Next]_(Adoption!vars)
  BY DEF PartsNext, adoptionVars, Adoption!vars, Adoption!world, Adoption!guard, Adoption!feed
<1>6. [PartsNext]_allVars => [Wake!Next]_(Wake!vars)
  BY DEF PartsNext, wakeVars, Wake!vars
<1>7. [PartsNext]_allVars => [Apply!Next]_(Apply!vars)
  BY DEF PartsNext, applyVars, Apply!vars, Apply!request
<1>8. [PartsNext]_allVars => [Register!Next]_(Register!vars)
  BY DEF PartsNext, registerVars, Register!vars, Register!files
<1>9. [PartsNext]_allVars => [Drafts!Next]_(Drafts!vars)
  BY DEF PartsNext, draftsVars, Drafts!vars, Drafts!histories
<1>. QED  BY <1>1, <1>2, <1>3, <1>4, <1>5, <1>6, <1>7, <1>8, <1>9, PTL
          DEF PartsSpec, Spec, Handoff!Spec, Mirror!Spec, Adoption!Spec, Wake!Spec, Apply!Spec,
              Register!Spec, Drafts!Spec

\* A mirror's pointer, pass and boots are what the code can make them.
LEMMA MirrorTypes == Mirror!Spec => []Mirror!TypeOK
<1>1. ASSUME Mirror!Init  PROVE Mirror!TypeOK
  <2>1. MirrorTypeOK
    BY <1>1, MirrorInit DEF MirrorInv
  <2>2. pointer = 0 /\ recovery = "off" /\ up = FALSE /\ boots = 0 /\ doubtful = {}
    BY <1>1 DEF Mirror!Init
  <2>3. 0 \in 0..MaxBoots /\ FALSE \in BOOLEAN
    BY BoundsAssumption
  <2>. QED  BY <2>1, <2>2, <2>3 DEF MirrorTypeOK, Mirror!TypeOK
<1>2. ASSUME Mirror!TypeOK, MirrorInv, MirrorInv', [Mirror!Next]_(Mirror!vars)
      PROVE  Mirror!TypeOK'
  <2>. USE DEF Mirror!TypeOK
  <2>1. MirrorTypeOK'
    BY <1>2 DEF MirrorInv
  <2>2. \A m \in mirrors : m.session \in Mirror!Hosted
    BY <1>2 DEF Mirror!Mirrors
  <2>3. \A s \in Mirror!Hosted : \A t : Mirror!StartMirror(s, t) => doubtful' \subseteq Mirror!Hosted
    BY <1>2 DEF Mirror!StartMirror
  <2>4. CASE \E s \in Mirror!Hosted : Mirror!TurnEnds(s)
    BY <1>2, <2>1, <2>3, <2>4 DEF Mirror!TurnEnds, MirrorTypeOK
  <2>5. CASE \E m \in mirrors : Mirror!Attach(m) \/ Mirror!MirrorFails(m)
    BY <1>2, <2>1, <2>2, <2>5 DEF Mirror!Attach, Mirror!MirrorFails, MirrorTypeOK
  <2>6. CASE Mirror!Crash
    BY <1>2, <2>1, <2>2, <2>6 DEF Mirror!Crash, MirrorTypeOK
  <2>7. CASE Mirror!Boot
    BY <1>2, <2>1, <2>7, BoundsAssumption DEF Mirror!Boot, MirrorTypeOK
  <2>8. CASE \E m \in mirrors : Mirror!Persist(m)
    BY <1>2, <2>1, <2>2, <2>8 DEF Mirror!Persist, MirrorTypeOK
  <2>9. CASE Mirror!List
    BY <1>2, <2>1, <2>9 DEF Mirror!List, MirrorTypeOK
  <2>10. CASE Mirror!RecoverNext
    BY <1>2, <2>1, <2>3, <2>10 DEF Mirror!RecoverNext, MirrorTypeOK
  <2>11. CASE Mirror!RecoverDone
    BY <1>2, <2>1, <2>11 DEF Mirror!RecoverDone, MirrorTypeOK
  <2>12. CASE UNCHANGED Mirror!vars
    BY <1>2, <2>12 DEF Mirror!vars
  <2>. QED  BY <1>2, <2>4, <2>5, <2>6, <2>7, <2>8, <2>9, <2>10, <2>11, <2>12 DEF Mirror!Next, Mirror!Surface
<1>. QED  BY <1>1, <1>2, MirrorInvHolds, PTL DEF Mirror!Spec

\* What is in the file of the drafts fits its limit, and what is remembered of the drafts
\* is of drafts and texts there are.
DraftHistories ==
    /\ Len(mirror) <= DraftLimit
    /\ exposed \cup evicted \cup revised \cup brokenOff \subseteq Drafts!Ids
    /\ unheard \subseteq Drafts!Texts

LEMMA DraftTypes == Drafts!Spec => []Drafts!TypeOK
<1>1. Drafts!Init => DraftHistories
  BY BoundsAssumption DEF Drafts!Init, DraftHistories
<1>2. ASSUME DraftHistories, DraftsInv, DraftsInv', [Drafts!Next]_(Drafts!vars)
      PROVE  DraftHistories'
  <2>. USE DEF DraftHistories
  <2>1. \A c \in Callers : calls[c] # Drafts!Idle =>
          calls[c].id \in Drafts!Ids /\ calls[c].text \in Drafts!Texts /\ IsFile(calls[c].base)
    BY <1>2 DEF DraftsInv, DraftsTypeOK, CallsAreSound, DraftCalls
  <2>2. IsFile(mirror) /\ IsFile(mirror)' /\ made' \in 0..NumIds /\ made \in 0..NumIds
    BY <1>2 DEF DraftsInv, DraftsTypeOK
  <2>3. \A i \in DOMAIN mirror : mirror[i].id \in Drafts!Ids
    BY <2>2, RowFacts
  <2>4. ASSUME NEW c \in Callers, Drafts!ComposeNew(c)  PROVE DraftHistories'
    <3>1. made' \in Drafts!Ids
      BY <2>2, <2>4, BoundsAssumption DEF Drafts!ComposeNew, Drafts!Ids
    <3>. QED  BY <1>2, <2>4, <3>1 DEF Drafts!ComposeNew, Drafts!Offer
  <2>5. ASSUME NEW c \in Callers, Drafts!ComposeAgain(c) \/ Drafts!Queue(c)  PROVE DraftHistories'
    BY <1>2, <2>3, <2>5 DEF Drafts!ComposeAgain, Drafts!Queue, Drafts!Offer
  <2>6. ASSUME NEW c \in Callers, Drafts!Takes(c) \/ Drafts!Refuses(c) \/ Drafts!Delivers(c)
        PROVE  DraftHistories'
    BY <1>2, <2>6 DEF Drafts!Takes, Drafts!Refuses, Drafts!Delivers, Drafts!histories
  <2>7. ASSUME NEW c \in Callers, Drafts!Write(c)  PROVE DraftHistories'
    <3>1. calls[c] # Drafts!Idle
      BY <2>7 DEF Drafts!Write, Drafts!AtStage, Drafts!Idle
    <3>2. PICK rows : rows = Drafts!Placed(c)
      OBVIOUS
    <3>3. IsFile(rows)
      <4>1. calls[c] \in DraftCalls /\ Composed(calls[c].id, calls[c].text)
        BY <1>2, <3>1 DEF DraftsInv, DraftsTypeOK, CallsAreSound
      <4>2. Drafts!Outcome(c) \in BOOLEAN
        BY Zenon DEF Drafts!Outcome, Drafts!AtStage
      <4>3. Drafts!Saved(c) \in Drafts!Drafts
        BY <4>1, <4>2 DEF Drafts!Saved, DraftCalls, Drafts!Drafts
      <4>. QED  BY <2>1, <3>1, <3>2, <4>1, <4>3, PlacedFacts
    <3>4. Drafts!Held(rows) \subseteq Drafts!Ids
      BY <3>3, RowFacts DEF Drafts!Held
    <3>5. PICK n \in 0..Len(rows) : n <= DraftLimit /\ mirror' = SubSeq(rows, 1, n)
      <4>1. Len(rows) \in Nat
        BY <3>3 DEF IsFile
      <4>. QED  BY <2>7, <3>2, <4>1, BoundsAssumption DEF Drafts!Write
    <3>6. Len(mirror') = n
      BY <3>3, <3>5 DEF IsFile
    <3>7. /\ exposed' \subseteq exposed \cup Drafts!Ids
          /\ evicted' \subseteq evicted \cup Drafts!Held(rows)
          /\ UNCHANGED <<revised, brokenOff, unheard>>
      BY <2>7, <3>2, Zenon DEF Drafts!Write
    <3>. QED  BY <1>2, <3>4, <3>5, <3>6, <3>7
  <2>8. ASSUME NEW c \in Callers, NEW status, Drafts!Mark(c, status),
               unheard' \subseteq unheard \cup {calls[c].text}, calls[c] # Drafts!Idle
        PROVE  DraftHistories'
    <3>1. Len(mirror') = Len(mirror)
      BY <2>2, <2>8 DEF Drafts!Mark, IsFile
    <3>. QED  BY <1>2, <2>1, <2>8, <3>1 DEF Drafts!Mark
  <2>9. ASSUME NEW c \in Callers, Drafts!Confirmed(c) \/ Drafts!Unconfirmed(c) \/ Drafts!DeliveryFails(c)
        PROVE  DraftHistories'
    <3>1. calls[c] # Drafts!Idle
      BY <2>9 DEF Drafts!Confirmed, Drafts!Unconfirmed, Drafts!DeliveryFails, Drafts!AtStage, Drafts!Idle
    <3>. QED  BY <2>8, <2>9, <3>1 DEF Drafts!Confirmed, Drafts!Unconfirmed, Drafts!DeliveryFails
  <2>10. ASSUME NEW c \in Callers, Drafts!Crash(c)  PROVE DraftHistories'
    <3>1. calls[c] # Drafts!Idle
      BY <2>10 DEF Drafts!Crash, Drafts!Busy, Drafts!Idle
    <3>. QED  BY <1>2, <2>1, <2>10, <3>1 DEF Drafts!Crash
  <2>11. CASE UNCHANGED Drafts!vars
    BY <1>2, <2>11 DEF Drafts!vars, Drafts!histories
  <2>. QED  BY <1>2, <2>4, <2>5, <2>6, <2>7, <2>9, <2>10, <2>11 DEF Drafts!Next
<1>3. DraftsInv /\ DraftHistories => Drafts!TypeOK
  BY DEF DraftsInv, DraftHistories, DraftsTypeOK, DraftCalls, IsFile, Drafts!TypeOK
<1>. QED  BY <1>1, <1>2, <1>3, DraftsInvHolds, PTL DEF Drafts!Spec

\* Every part stays within its types, whichever moves: boots and drafts keep to their
\* bounds, and what is remembered of sessions, drafts and texts is of such as there are.
THEOREM ServicesAreTyped == PartsSpec => []PartsTypeOK
<1>1. Spec => []TypeOK
  <2>1. CalendarInv => TypeOK
    BY DEF CalendarInv
  <2>. QED  BY <2>1, CalendarInvHolds, PTL
<1>2. Handoff!Spec => []Handoff!TypeOK
  BY HandoffInit, HandoffTypePreserved, PTL DEF Handoff!Spec
<1>3. Adoption!Spec => []Adoption!TypeOK
  BY AdoptionInit, AdoptionTypePreserved, PTL DEF Adoption!Spec
<1>4. Wake!Spec => []Wake!TypeOK
  <2>1. Wake!Init => Wake!TypeOK
    BY WakeInit DEF WakeInv
  <2>. QED  BY <2>1, WakeTypePreserved, PTL DEF Wake!Spec
<1>5. Apply!Spec => []Apply!TypeOK
  <2>1. ApplyInv => Apply!TypeOK
    BY DEF ApplyInv
  <2>. QED  BY <2>1, ApplyInit, ApplyPreserved, PTL DEF Apply!Spec
<1>6. Register!Spec => []Register!TypeOK
  <2>1. RegisterInv => Register!TypeOK
    BY DEF RegisterInv
  <2>. QED  BY <2>1, RegisterInvHolds, PTL
<1>7. /\ TypeOK /\ Handoff!TypeOK /\ Mirror!TypeOK /\ Adoption!TypeOK
      /\ Wake!TypeOK /\ Apply!TypeOK /\ Register!TypeOK /\ Drafts!TypeOK
      => PartsTypeOK
  BY Zenon DEF PartsTypeOK
<1>. QED  BY <1>1, <1>2, <1>3, <1>4, <1>5, <1>6, <1>7, MirrorTypes, DraftTypes, PartsAreTheirOwn, PTL

\* Whichever part moves, each keeps what it promises: what several hold at once is updated
\* in turn, one host answers as long as no reply is lost, transcripts come home, and what
\* is applied or composed is there as a whole.
THEOREM ServicesKeepTheirPromises ==
  ASSUME LossyReplies = FALSE
  PROVE  PartsSpec =>
           /\ [](/\ UpdatesInTurn /\ OneAnswerer /\ TranscriptIsHome /\ AdoptionIsSound
                 /\ MicrophoneIsOurs /\ AppliedAsAWhole /\ RegisterIsTheOwners /\ DraftsAreKept)
           /\ ActsAtOnce /\ PlacedOnce /\ NeverShrinks
<1>1. (Handoff!Spec => []OneAnswerer) /\ (Handoff!Spec => PlacedOnce)
  BY OneAnswererHolds, HandoffImplementsPlacement
<1>. QED  BY <1>1, PartsAreTheirOwn, UpdatesTakeTurns, TranscriptComesHome, AdoptionIsSoundHolds,
             MicrophoneStaysOurs, AppliedAsAWholeHolds, RegisterStaysTheOwners, DraftsStayKept,
             CallsActAtOnce, StoreNeverShrinks, PTL
=============================================================================
