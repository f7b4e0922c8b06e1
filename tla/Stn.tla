-------------------------------- MODULE Stn ---------------------------------
(***************************************************************************)
(* The simple temporal network of v0alpha3/kernel.ts: difference           *)
(* constraints as weighted edges, consistency, shortest paths, schedules   *)
(* and relation cases.                                                     *)
(*                                                                         *)
(* An edge from x to y of weight w says y - x =< w. Nodes are numbers in   *)
(* the order of the code's node names: the schedule zero, then the origin  *)
(* of each axis (a negative number that stands for the axis), then points. *)
(***************************************************************************)
EXTENDS Integers, FiniteSets, FiniteSetsExt, Sequences, TLC

CONSTANTS
    SafeMax,        \* Number.MAX_SAFE_INTEGER
    Missing         \* undefined or null: no edge, no distance

ScheduleZero == -100

IsOrigin(node) == ScheduleZero < node /\ node < 0

Safe(n) == -SafeMax =< n /\ n =< SafeMax

----------------------------------------------------------------------------
(* Graphs: a set of nodes and the edges in the order of compareEdges       *)

\* compareEdges. A source is a pair of numbers: the kind of name, and a number.
EdgeBefore(e, f) ==
    \/ e.from < f.from
    \/ e.from = f.from
       /\ \/ e.to < f.to
          \/ e.to = f.to
             /\ \/ e.weight < f.weight
                \/ e.weight = f.weight
                   /\ \/ e.source[1] < f.source[1]
                      \/ e.source[1] = f.source[1] /\ e.source[2] < f.source[2]

\* The list s with e after the edges that come before it.
Inserted(e, s) ==
    LET k == Cardinality({i \in DOMAIN s : EdgeBefore(s[i], e)})
    IN SubSeq(s, 1, k) \o <<e>> \o SubSeq(s, k + 1, Len(s))

Sorted(edges) == FoldSet(Inserted, <<>>, edges)

Edge == [from : Int, to : Int, weight : Int, source : Int \X Int]

EdgesOf(graph) == {graph.edges[i] : i \in DOMAIN graph.edges}

\* addDifferenceEdges, for minimum =< to - from =< maximum.
DifferenceEdges(from, to, minimum, maximum, source) ==
    {e \in {[from |-> from, to |-> to, weight |-> maximum, source |-> source],
            [from |-> to, to |-> from, weight |-> IF minimum = Missing THEN Missing ELSE -minimum,
             source |-> source]} : e.weight # Missing}

\* connectedScope: the nodes that edges, in either direction, join to the seeds.
ConnectedScope(graph, seeds) ==
    LET Neighbours(S) ==
            {e.from : e \in {f \in EdgesOf(graph) : f.to \in S}}
            \cup {e.to : e \in {f \in EdgesOf(graph) : f.from \in S}}
        reached[n \in 0..Cardinality(graph.nodes)] ==
            IF n = 0 THEN seeds
            ELSE LET before == reached[n - 1] IN before \cup Neighbours(before)
        included == reached[Cardinality(graph.nodes)]
    IN [nodes |-> included,
        edges |-> Sorted({e \in EdgesOf(graph) : e.from \in included /\ e.to \in included})]

----------------------------------------------------------------------------
(* Bellman-Ford                                                            *)

\* One edge: the body of the loops of checkConsistency and shortestPath.
Relax(state, e) ==
    IF state.distance[e.from] = Missing THEN state
    ELSE LET candidate == state.distance[e.from] + e.weight
             current == state.distance[e.to]
         IN IF current # Missing /\ candidate >= current THEN state
            ELSE [distance |-> [state.distance EXCEPT ![e.to] = candidate],
                  predecessor |-> [state.predecessor EXCEPT ![e.to] = e],
                  updated |-> e.to]

\* One pass over the edges.
Pass(edges, state) ==
    LET relaxed[i \in 0..Len(edges)] ==
            IF i = 0 THEN [state EXCEPT !.updated = Missing]
            ELSE Relax(relaxed[i - 1], edges[i])
    IN relaxed[Len(edges)]

\* At most n passes, until one changes nothing.
Passes(graph, start, n) ==
    LET state[i \in 0..n] ==
            IF i = 0 THEN start
            ELSE LET before == state[i - 1]
                 IN IF i > 1 /\ before.updated = Missing THEN before
                    ELSE Pass(graph.edges, before)
    IN state[n]

Unvisited(graph) == [n \in graph.nodes |-> Missing]

\* The node reached from a node by n predecessors; Missing where one has none.
Ancestor(predecessor, node, n) ==
    LET walk[i \in 0..n] ==
            IF i = 0 THEN node
            ELSE LET here == walk[i - 1]
                 IN IF here = Missing \/ predecessor[here] = Missing THEN Missing
                    ELSE predecessor[here].from
    IN walk[n]

\* The edges of the walk from a node by n predecessors, in the direction of the edges.
WalkTo(predecessor, node, n) ==
    [i \in 1..n |-> predecessor[Ancestor(predecessor, node, n - i)]]

Rotations(cycle) ==
    {[i \in DOMAIN cycle |-> cycle[((i + k) % Len(cycle)) + 1]] : k \in DOMAIN cycle}

\* canonicalCycle
CanonicalCycle(cycle) ==
    LET Before(c, d) ==
            \E i \in DOMAIN c :
                /\ EdgeBefore(c[i], d[i])
                /\ \A j \in 1..(i - 1) : c[j] = d[j]
    IN CHOOSE c \in Rotations(cycle) : \A d \in Rotations(cycle) : ~Before(d, c)

\* The cycle the predecessors of a node lead to, after n steps back: Missing where
\* the code throws "could not reconstruct" or "invalid negative cycle".
NegativeCycle(predecessor, node, n) ==
    LET start == Ancestor(predecessor, node, n)
        lengths == IF start = Missing THEN {}
                   ELSE {k \in 1..(n + 1) : Ancestor(predecessor, start, k) = start}
    IN IF lengths = {} THEN Missing
       ELSE CanonicalCycle(WalkTo(predecessor, start, Min(lengths)))

\* checkConsistency
CheckConsistency(graph) ==
    LET n == Cardinality(graph.nodes)
        end == Passes(graph, [distance |-> [x \in graph.nodes |-> 0],
                              predecessor |-> Unvisited(graph), updated |-> Missing], n)
    IN IF end.updated = Missing
       THEN [consistent |-> TRUE, distances |-> end.distance]
       ELSE [consistent |-> FALSE, edges |-> NegativeCycle(end.predecessor, end.updated, n)]

\* shortestPath: a distance, Missing if there is no path, and the edges of a path,
\* Missing where the code throws because it cannot reconstruct one.
ShortestPath(graph, source, target) ==
    LET n == Cardinality(graph.nodes)
        end == Passes(graph, [distance |-> [Unvisited(graph) EXCEPT ![source] = 0],
                              predecessor |-> Unvisited(graph), updated |-> Missing], n - 1)
        steps == {k \in 0..n : Ancestor(end.predecessor, target, k) = source}
    IN IF source = target THEN [distance |-> 0, edges |-> <<>>]
       ELSE IF end.distance[target] = Missing THEN [distance |-> Missing, edges |-> <<>>]
       ELSE [distance |-> end.distance[target],
             edges |-> IF steps = {} THEN Missing
                       ELSE WalkTo(end.predecessor, target, Min(steps))]

----------------------------------------------------------------------------
(* Schedules                                                               *)

PointNodes(graph) == {n \in graph.nodes : n > 0}

\* Mutation of BoundedScheduleGraph: origins are not held at zero.
FreeOrigins(graph) ==
    LET edges == UNION {{[from |-> ScheduleZero, to |-> n, weight |-> SafeMax, source |-> <<2, n>>],
                         [from |-> n, to |-> ScheduleZero, weight |-> SafeMax, source |-> <<2, n>>]}
                        : n \in PointNodes(graph)}
    IN [nodes |-> graph.nodes \cup {ScheduleZero}, edges |-> Sorted(EdgesOf(graph) \cup edges)]

\* boundedScheduleGraph
BoundedScheduleGraph(graph) ==
    LET Domain(n) == IF n > 0 THEN SafeMax ELSE 0
        edges == UNION {{[from |-> ScheduleZero, to |-> n, weight |-> Domain(n), source |-> <<2, n>>],
                         [from |-> n, to |-> ScheduleZero, weight |-> Domain(n), source |-> <<2, n>>]}
                        : n \in graph.nodes}
    IN [nodes |-> graph.nodes \cup {ScheduleZero}, edges |-> Sorted(EdgesOf(graph) \cup edges)]

\* scheduleProof: a safe coordinate for each point, Missing where the code throws
\* temporal.arithmetic.overflow.
ScheduleProof(graph) ==
    LET found == CheckConsistency(BoundedScheduleGraph(graph))
    IN IF ~found.consistent THEN Missing
       ELSE [p \in PointNodes(graph) |-> found.distances[p] - found.distances[ScheduleZero]]

----------------------------------------------------------------------------
(* Relations                                                               *)

LessThan(x, y) == [from |-> x, to |-> y, minimum |-> 1, maximum |-> Missing]

EqualTo(x, y) == [from |-> x, to |-> y, minimum |-> 0, maximum |-> 0]

PointRelations == <<"before", "equal", "after">>

\* pointRelationSpecs
PointRelationSpecs(left, right, relation) ==
    CASE relation = "before" -> <<LessThan(left, right)>>
      [] relation = "equal" -> <<EqualTo(left, right)>>
      [] relation = "after" -> <<LessThan(right, left)>>

IntervalRelations ==
    <<"before", "meets", "overlaps", "starts", "during", "finishes", "equal",
      "finished-by", "contains", "started-by", "overlapped-by", "met-by", "after">>

\* intervalRelationSpecs; an interval has its points start and end.
IntervalRelationSpecs(left, right, relation) ==
    LET ls == left.start
        le == left.end
        rs == right.start
        re == right.end
    IN CASE relation = "before" -> <<LessThan(le, rs)>>
         [] relation = "meets" -> <<EqualTo(le, rs)>>
         [] relation = "overlaps" -> <<LessThan(ls, rs), LessThan(rs, le), LessThan(le, re)>>
         [] relation = "starts" -> <<EqualTo(ls, rs), LessThan(le, re)>>
         [] relation = "during" -> <<LessThan(rs, ls), LessThan(le, re)>>
         [] relation = "finishes" -> <<LessThan(rs, ls), EqualTo(le, re)>>
         [] relation = "equal" -> <<EqualTo(ls, rs), EqualTo(le, re)>>
         [] relation = "finished-by" -> <<LessThan(ls, rs), EqualTo(le, re)>>
         [] relation = "contains" -> <<LessThan(ls, rs), LessThan(re, le)>>
         [] relation = "started-by" -> <<EqualTo(ls, rs), LessThan(re, le)>>
         [] relation = "overlapped-by" -> <<LessThan(rs, ls), LessThan(ls, re), LessThan(re, le)>>
         [] relation = "met-by" -> <<EqualTo(ls, re)>>
         [] relation = "after" -> <<LessThan(re, ls)>>

\* extendGraph
ExtendGraph(graph, specs) ==
    [graph EXCEPT !.edges =
        Sorted(EdgesOf(graph) \cup
               UNION {DifferenceEdges(specs[i].from, specs[i].to, specs[i].minimum,
                                      specs[i].maximum, <<1, i>>) : i \in DOMAIN specs})]

=============================================================================
