---------------------------- MODULE WorkTreeRows ----------------------------
(***************************************************************************)
(* The rows of one turn's lane graph: core/work-tree-model.ts, which puts  *)
(* the calls of the turn and of the agents it started in one order, and    *)
(* renderer/lane-graph/layout.ts, which draws a lane from its spawn to its *)
(* merge.  The rows are a function of a transcript that grows and of the   *)
(* times its calls started; they are computed anew for every frame.        *)
(*                                                                         *)
(* An agent has the number of its lane, in the order agents are started;   *)
(* lane 0 is the spine.  Time 0 stands for a time nobody recorded.  What a *)
(* call was, said or returned is left out, and so are the lanes of WRFC    *)
(* chains, whose phases are calls that start no agent.                     *)
(***************************************************************************)
EXTENDS Integers, Sequences, FiniteSets, SequencesExt

CONSTANTS
    NumAgents,
    MaxNest,     \* the code's ceiling on nesting
    MaxItems,    \* bound: calls and narrations of the spine
    MaxCalls,    \* bound: calls of one agent
    MaxTime      \* bound: starts, spawns and ends

Spine  == 0
Agents == 1..NumAgents
Lanes  == Agents \cup {Spine}
Times  == 0..MaxTime

VARIABLES
    items,    \* the transcript of each lane
    agent,    \* each agent: what it is doing, who started it, when, and until when
    folded,   \* agents whose lane the person folded
    clock

vars == <<items, agent, folded, clock>>

\* Narration, or a call with the time it started and the agents it started.
Items == [prose : BOOLEAN, t : Times, starts : Seq(Agents)]

TypeOK ==
    /\ items \in [Lanes -> Seq(Items)]
    /\ agent \in [Agents -> [status : {"none", "running", "ended"}, parent : Lanes,
                             since : Times, until : Times]]
    /\ folded \subseteq Agents
    /\ clock \in Times

Init ==
    /\ items = [l \in Lanes |-> <<>>]
    /\ agent = [a \in Agents |-> [status |-> "none", parent |-> Spine, since |-> 0, until |-> 0]]
    /\ folded = {}
    /\ clock = 0

Known(a)  == agent[a].status # "none"
Open(l)   == l \in {Spine} \cup {a \in Agents : agent[a].status = "running"}

----------------------------------------------------------------------------
(* The turn (external)                                                      *)

Write(l, item) ==
    /\ Open(l) /\ Len(items[l]) < (IF l = Spine THEN MaxItems ELSE MaxCalls)
    /\ items' = [items EXCEPT ![l] = Append(@, item)]
    /\ UNCHANGED <<agent, folded, clock>>

Call(l)  == Write(l, [prose |-> FALSE, t |-> 0, starts |-> <<>>])
Narrate  == Write(Spine, [prose |-> TRUE, t |-> 0, starts |-> <<>>])

Tick == clock < MaxTime /\ clock' = clock + 1

\* TOOL_EXECUTING; calls of one message may start in any order.
Start(l, i) ==
    /\ Tick
    /\ Open(l) /\ i \in DOMAIN items[l] /\ ~items[l][i].prose /\ items[l][i].t = 0
    /\ items' = [items EXCEPT ![l][i].t = clock']
    /\ UNCHANGED <<agent, folded>>

\* A result that names the agents the call started, one or several.
Spawn(l, i, n) ==
    /\ Tick
    /\ Open(l) /\ i \in DOMAIN items[l] /\ items[l][i].t # 0 /\ items[l][i].starts = <<>>
    /\ LET before == {a \in Agents : Known(a)}
           first  == IF before = {} THEN 1 ELSE Max(before) + 1
           new    == first..(first + n - 1)
       IN  /\ new \subseteq Agents
           /\ items' = [items EXCEPT ![l][i].starts = [k \in 1..n |-> first + k - 1]]
           /\ agent' = [a \in Agents |->
                          IF a \in new THEN [status |-> "running", parent |-> l,
                                             since |-> clock', until |-> 0]
                                       ELSE agent[a]]
    /\ UNCHANGED folded

End(a) ==
    /\ Tick
    /\ agent[a].status = "running"
    /\ agent' = [agent EXCEPT ![a].status = "ended", ![a].until = clock']
    /\ UNCHANGED <<items, folded>>

\* A key or a click on the lane's row.
Fold(a) ==
    /\ Known(a)
    /\ folded' = IF a \in folded THEN folded \ {a} ELSE folded \cup {a}
    /\ UNCHANGED <<items, agent, clock>>

Next ==
    \/ Narrate
    \/ \E l \in Lanes : Call(l)
    \/ \E l \in Lanes, i \in 1..MaxItems : Start(l, i) \/ \E n \in 1..2 : Spawn(l, i, n)
    \/ \E a \in Agents : End(a) \/ Fold(a)

Spec == Init /\ [][Next]_vars

----------------------------------------------------------------------------
(* The rows                                                                 *)

Row(kind, lane, at, child, t) == [kind |-> kind, lane |-> lane, at |-> at, child |-> child, t |-> t]

First(t, otherwise) == IF t # 0 THEN t ELSE otherwise

\* inheritTimes(): a row without a time keeps its place after the one before.
InheritTimes(rows, start) ==
    [i \in DOMAIN rows |->
        LET timed == {j \in 1..i : rows[j].t # 0}
        IN  [rows[i] EXCEPT !.t = IF timed = {} THEN start ELSE rows[Max(timed)].t]]

\* interleave(): without both times the child's row comes first.
InterleaveRows(parent, child) ==
    LET from[p \in 0..Len(parent), c \in 0..Len(child)] ==
            IF c = Len(child) THEN SubSeq(parent, p + 1, Len(parent))
            ELSE IF p = Len(parent) THEN SubSeq(child, c + 1, Len(child))
            ELSE LET mine == parent[p + 1]
                     its  == child[c + 1]
                 IN  IF mine.t # 0 /\ its.t # 0 /\ mine.t < its.t
                     THEN <<mine>> \o from[p + 1, c]
                     ELSE <<its>> \o from[p, c + 1]
    IN  from[0, 0]

\* resolvePending(): each spawn, then its lane's rows among those that follow.
ResolvePending(pending) ==
    FoldRight(LAMBDA item, rest : <<item.row>> \o InterleaveRows(rest, item.child),
              pending, <<>>)

Depth[l \in Lanes] == IF l = Spine THEN 0 ELSE 1 + Depth[agent[l].parent]

Truncated(a) == Depth[a] > MaxNest

\* The answer is the last message, when it calls nothing.
Answered == items[Spine] # <<>> /\ Last(items[Spine]).prose

Shown(l) == IF l = Spine /\ Answered THEN Front(items[l]) ELSE items[l]

\* An agent's lane, from its spawn to its merge, or folded to one row; `inner` are the
\* rows of its own.
SpawnRows(l, i, a, inner) ==
    LET t    == First(items[l][i].t, agent[a].since)
        own  == InheritTimes(inner, t)
        last == IF own = <<>> THEN t ELSE Last(own).t
        end  == IF agent[a].status = "running" THEN <<>>
                ELSE <<Row("merge", l, 0, a, First(agent[a].until, last))>>
    IN  IF Truncated(a) \/ a \in folded
        THEN [row |-> Row("folded", l, i, a, t), child |-> <<>>]
        ELSE [row |-> Row("spawn", l, i, a, t), child |-> own \o end]

\* callRows(), with the rows of each lane.
CallRows(l, i, rows) ==
    LET item == items[l][i]
    IN  IF item.starts = <<>>
        THEN <<[row |-> Row(IF item.prose THEN "prose" ELSE "bead", l, i, 0, item.t), child |-> <<>>]>>
        ELSE [k \in DOMAIN item.starts |-> SpawnRows(l, i, item.starts[k], rows[item.starts[k]])]

\* agentLaneRows(), and the same for the spine.
LaneRows[l \in Lanes] ==
    InheritTimes(ResolvePending(FlattenSeq([i \in DOMAIN Shown(l) |-> CallRows(l, i, LaneRows)])),
                 IF l = Spine THEN 0 ELSE agent[l].since)

\* Variant: a merge into the spine is taken for a row of the lane that ends.
AnswerAt_AboveMerges(rows) ==
    IF \E k \in DOMAIN rows : rows[k].kind = "spawn" /\ agent[rows[k].child].status = "running"
    THEN SelectLastInSeq(rows, LAMBDA r : r.lane = Spine /\ r.kind # "merge")
    ELSE Len(rows)

\* While a lane runs the answer is drawn under the last row of the spine, merges into
\* it included, and the lane goes on below.
AnswerAt(rows) ==
    IF \E k \in DOMAIN rows : rows[k].kind = "spawn" /\ agent[rows[k].child].status = "running"
    THEN SelectLastInSeq(rows, LAMBDA r : r.lane = Spine)
    ELSE Len(rows)

Rows ==
    LET rows == LaneRows[Spine]
    IN  IF Answered THEN InsertAt(rows, AnswerAt(rows) + 1, Row("answer", Spine, Len(items[Spine]), 0, 0))
                    ELSE rows

----------------------------------------------------------------------------
(* The lanes                                                                *)

\* layoutLaneGraph(): the lanes that are live after the rows, those it had to open
\* because a row named a lane that was not, and those that merged elsewhere than where
\* they came from.
Draw(graph, row) ==
    LET Ensure(g, l) == IF l \in g.live THEN g
                        ELSE [g EXCEPT !.live = @ \cup {l}, !.forced = @ \cup {l}]
    IN  CASE row.kind = "prose"  -> graph
          [] row.kind = "answer" -> [graph EXCEPT !.live = @ \ {Spine}]
          [] row.kind \in {"bead", "folded"} -> Ensure(graph, row.lane)
          [] row.kind = "spawn"  -> [Ensure(graph, row.lane) EXCEPT !.live = @ \cup {row.child}]
          [] row.kind = "merge"  -> [graph EXCEPT !.live = @ \ {row.child},
                                        !.astray = IF {row.lane, row.child} \subseteq graph.live
                                                   THEN @ ELSE @ \cup {row.child}]

Layout == FoldLeft(Draw, [live |-> {Spine}, forced |-> {}, astray |-> {}], Rows)

----------------------------------------------------------------------------
(* "it MERGES back into exactly the lane it came from" (layout.ts): every   *)
(* row sits on a lane that is live there, every lane that ends merges into  *)
(* its parent while that is live, and what is live under the last row is    *)
(* the lanes still running and, until it is answered, the spine.            *)
LanesHold ==
    LET graph == Layout
    IN  /\ graph.forced = {} /\ graph.astray = {}
        /\ \A a \in graph.live \ {Spine} : agent[a].status = "running"
        /\ (Spine \in graph.live) = ~Answered

Calls(rows)   == {k \in DOMAIN rows : rows[k].kind \in {"bead", "spawn", "folded"}}
Started(row)  == items[row.lane][row.at].t
StartedInTurn == \A l \in Lanes : \A i, j \in DOMAIN items[l] :
                     i < j /\ items[l][j].t # 0 => items[l][i].prose \/ items[l][i].t \in 1..items[l][j].t

(* "lanes that ran at the same time interleave by start time" (work-tree-   *)
(* model.test.ts): calls are drawn in the order they started, if the calls  *)
(* of each lane start in the order they were written and no narration       *)
(* stands between the two.                                                  *)
DrawnByStart ==
    LET rows == Rows
    IN  StartedInTurn =>
            \A j, k \in Calls(rows) :
                j < k /\ Started(rows[j]) > Started(rows[k]) /\ Started(rows[k]) # 0
                    => \E i \in j..k : rows[i].kind = "prose"

\* Lanes that are drawn as lanes, and not inside one that is folded.
Visible[l \in Lanes] ==
    \/ l = Spine
    \/ Known(l) /\ l \notin folded /\ ~Truncated(l) /\ Visible[agent[l].parent]

(* Every call of a lane that is drawn has its one row, or one for each of   *)
(* the agents it started, in the order the calls were written; a lane folds *)
(* away with all that is in it.                                             *)
EveryCallOnce ==
    LET rows == Rows
        At(l) == {k \in Calls(rows) : rows[k].lane = l}
    IN  \A l \in Lanes :
            /\ \A j, k \in At(l) : j < k => rows[j].at <= rows[k].at
            /\ IF ~Visible[l] THEN At(l) = {}
               ELSE \A i \in DOMAIN items[l] : ~items[l][i].prose =>
                       Cardinality({k \in At(l) : rows[k].at = i}) = Max({1, Len(items[l][i].starts)})
=============================================================================
