----------------------------- MODULE Schedules ------------------------------
(***************************************************************************)
(* What the answers of Reasoner mean. The constraints of a context are     *)
(* inequalities over the integer coordinates of its points; a schedule is  *)
(* an assignment that satisfies them, with every origin at zero. An answer *)
(* is true or false of the set of schedules, whatever algorithm found it.  *)
(***************************************************************************)
EXTENDS Reasoner

Satisfies(s, graph) == \A e \in EdgesOf(graph) : s[e.to] - s[e.from] =< e.weight

\* A bound of this definition, not of the code: n nodes with constraints of at most
\* w have a schedule if and only if they have one in which every node is within
\* n * w of any node of its component.
Width(graph) ==
    Cardinality(graph.nodes)
    * Max({1} \cup {IF e.weight < 0 THEN -e.weight ELSE e.weight : e \in EdgesOf(graph)})

\* The assignments that extend a given one, within a width.
Assignments(graph, fixed, width) ==
    {fixed @@ s : s \in [graph.nodes \ DOMAIN fixed -> -width..width]}

Origins(graph) == [n \in {m \in graph.nodes : IsOrigin(m)} |-> 0]

\* One node of a graph without origins may be put anywhere.
Pinned(graph) ==
    IF DOMAIN Origins(graph) # {} \/ graph.nodes = {} THEN Origins(graph)
    ELSE Min(graph.nodes) :> 0

SchedulesOf(graph) == {s \in Assignments(graph, Pinned(graph), Width(graph)) : Satisfies(s, graph)}

\* Some schedule fits the integers a receipt can hold and satisfies the specs.
SafelySchedulable(graph, Holds(_)) ==
    \E s \in Assignments(graph, Origins(graph), SafeMax) : Satisfies(s, graph) /\ Holds(s)

Sign(x, y) == IF x < y THEN -1 ELSE IF x = y THEN 0 ELSE 1

\* Allen's relations by the order of the four endpoints: left start against right
\* start and right end, left end against right start and right end.
AllenSigns ==
    ("before" :> <<-1, -1, -1, -1>>) @@ ("meets" :> <<-1, -1, 0, -1>>)
    @@ ("overlaps" :> <<-1, -1, 1, -1>>) @@ ("starts" :> <<0, -1, 1, -1>>)
    @@ ("during" :> <<1, -1, 1, -1>>) @@ ("finishes" :> <<1, -1, 1, 0>>)
    @@ ("equal" :> <<0, -1, 1, 0>>) @@ ("finished-by" :> <<-1, -1, 1, 0>>)
    @@ ("contains" :> <<-1, -1, 1, 1>>) @@ ("started-by" :> <<0, -1, 1, 1>>)
    @@ ("overlapped-by" :> <<1, -1, 1, 1>>) @@ ("met-by" :> <<1, 0, 1, 1>>)
    @@ ("after" :> <<1, 1, 1, 1>>)

PointSigns == ("before" :> -1) @@ ("equal" :> 0) @@ ("after" :> 1)

\* The relation between the left and the right of a query in a schedule.
Realises(run, q, s, relation) ==
    IF q.type = "point.relations" THEN Sign(s[q.left], s[q.right]) = PointSigns[relation]
    ELSE LET l == IntervalWith(run, q.left)
             r == IntervalWith(run, q.right)
         IN AllenSigns[relation] =
                <<Sign(s[l.start], s[r.start]), Sign(s[l.start], s[r.end]),
                  Sign(s[l.end], s[r.start]), Sign(s[l.end], s[r.end])>>

----------------------------------------------------------------------------
(* Answers that are true                                                   *)

\* The constraints that edges in either direction join to the seeds: those of the
\* smallest set of nodes that no edge leaves.
Component(graph, seeds) ==
    LET Closed(S) == \A e \in EdgesOf(graph) : e.from \in S <=> e.to \in S
        sets == {S \in SUBSET graph.nodes : seeds \subseteq S /\ Closed(S)}
        smallest == CHOOSE S \in sets : \A T \in sets : S \subseteq T
    IN [nodes |-> smallest,
        edges |-> SelectSeq(graph.edges, LAMBDA e : e.from \in smallest)]

\* The constraints a query is about. Their compilation is that of the code.
Constraints(run, q) ==
    LET graph == BuildGraph(ProjectionOf(run, q.cut, q.context))
    IN IF q.type = "context.consistency" THEN graph
       ELSE Component(graph, Seeds(run, q))

\* Some schedule puts to at distance d from from.
Reaches(graph, from, to, d) ==
    LET fixed == IF from = to THEN from :> 0 ELSE (from :> 0) @@ (to :> d)
    IN /\ from = to => d = 0
       /\ \E s \in Assignments(graph, fixed, 2 * Width(graph)) : Satisfies(s, graph)

\* bound is the greatest distance, or Null if there is none.
IsMaximum(graph, from, to, bound) ==
    IF bound = Null THEN Reaches(graph, from, to, Width(graph))
    ELSE Reaches(graph, from, to, bound) /\ ~Reaches(graph, from, to, bound + 1)

Negated(d) == IF d = Null THEN Null ELSE -d

TrueConsistency(graph, reply) ==
    CASE reply.error # Null ->
             SchedulesOf(graph) # {} /\ ~SafelySchedulable(graph, LAMBDA s : TRUE)
      [] OTHER -> reply.result.status = "consistent" <=> SchedulesOf(graph) # {}

TrueBounds(graph, from, to, reply) ==
    CASE reply.error # Null ->
             \E d \in (SafeMax + 1)..Width(graph) :
                 IsMaximum(graph, from, to, d) \/ IsMaximum(graph, to, from, d)
                 \/ IsMaximum(graph, from, to, -d) \/ IsMaximum(graph, to, from, -d)
      [] reply.error = Null /\ SchedulesOf(graph) = {} -> reply.result.status = "inconsistent"
      [] OTHER ->
             LET r == reply.result
             IN /\ r.status # "inconsistent"
                /\ IsMaximum(graph, from, to, r.maximum)
                /\ IsMaximum(graph, to, from, Negated(r.minimum))
                /\ r.status = "bounded" <=> r.minimum # Null /\ r.maximum # Null
                /\ r.status = "unbounded" <=> r.minimum = Null /\ r.maximum = Null

TrueRelations(run, q, graph, reply) ==
    LET schedules == SchedulesOf(graph)
        relations == {Relations(q)[i] : i \in DOMAIN Relations(q)}
        realised == {r \in relations : \E s \in schedules : Realises(run, q, s, r)}
    IN CASE reply.error # Null ->
                \E r \in realised :
                    ~SafelySchedulable(graph, LAMBDA s : Realises(run, q, s, r))
         [] OTHER ->
                /\ {reply.result.possible[i] : i \in DOMAIN reply.result.possible} = realised
                /\ reply.result.status = "inconsistent" <=> schedules = {}
                /\ reply.result.status = "resolved" <=> Cardinality(realised) = 1

IsTrue(run, conclusion) ==
    LET q == conclusion.query
        reply == conclusion.reply
        graph == Constraints(run, q)
    IN /\ reply.error \in {Null, Overflow.error}
       /\ CASE q.type = "context.consistency" -> TrueConsistency(graph, reply)
            [] q.type = "difference.bounds" -> TrueBounds(graph, q.left, q.right, reply)
            [] OTHER -> TrueRelations(run, q, graph, reply)

----------------------------------------------------------------------------
(* Properties                                                              *)

\* An answer is true of all schedules over the integers: consistency, the least
\* and the greatest difference, and the relations that remain possible. The only
\* failure is an overflow, and it happens exactly when something the answer must
\* show has no safe representation (spec/v0alpha3/reasoning.md: a representation
\* boundary, not an implicit bound).
AnswersTrue ==
    [][answer = Null /\ answer' # Null => IsTrue(events, answer')]_vars

\* An answer verifies, at once and after the run has grown.
AnswersVerify ==
    answer # Null =>
        \/ answer.reply.error # Null
        \/ Verify(events, answer.query, answer)

\* No witness of a few edges or of small coordinates makes the verifier accept a
\* statement on consistency that is false, and none of the cases of a proof stands
\* in for another.
SoundOnConsistency(graph) ==
    LET schedulable == SchedulesOf(graph) # {}
        schedules == {ScheduleWitness(s) : s \in [PointNodes(graph) -> -1..1]}
        cycles == UNION {{CycleWitness(c) : c \in [1..k -> EdgesOf(graph)]} : k \in 1..2}
    IN \A proof \in schedules \cup cycles :
           /\ VerifyConsistency([status |-> "consistent"], proof, graph) => schedulable
           /\ VerifyConsistency([status |-> "inconsistent"], proof, graph) => ~schedulable

SoundOnRelations(run, q, graph, reply) ==
    \A i, j \in DOMAIN reply.proof.cases :
        LET cases == [reply.proof.cases EXCEPT
                          ![i] = [reply.proof.cases[j] EXCEPT !.relation = Relations(q)[i]]]
            possible == SelectSeq(Relations(q), LAMBDA r : \E k \in DOMAIN cases :
                                                              cases[k].relation = r
                                                              /\ cases[k].possible)
            result == [status |-> IF Len(possible) = 1 THEN "resolved" ELSE "indeterminate",
                       possible |-> possible]
        IN VerifyRelations(result, [kind |-> "relation-cases", cases |-> cases], graph,
                           Relations(q), SpecsOf(run, q))
           => result = reply.result

NothingFalseVerifies ==
    [][answer = Null /\ answer' # Null =>
           LET q == answer'.query
               graph == QueryGraph(events, q)
           IN CASE q.type = "context.consistency" -> SoundOnConsistency(graph)
                [] q.type = "point.relations" /\ answer'.reply.error = Null ->
                       answer'.reply.proof.kind = "relation-cases" =>
                           SoundOnRelations(events, q, graph, answer'.reply)
                [] OTHER -> TRUE]_vars

=============================================================================
