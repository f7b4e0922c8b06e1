------------------------------ MODULE Reasoner ------------------------------
(***************************************************************************)
(* Questions about a run and the verification of their answers:            *)
(* reasonTemporalQueryV0Alpha3 and verifyTemporalConclusionV0Alpha3 of     *)
(* v0alpha3/kernel.ts.                                                     *)
(*                                                                         *)
(* A caller asks about one context at one cut, keeps the answer, and       *)
(* verifies it later, when the run may have grown.                         *)
(***************************************************************************)
EXTENDS Projection, Stn

ASSUME ReasonerConstants ==
    /\ Axes \subseteq {n \in (ScheduleZero + 1)..(-1) : TRUE}
    /\ ObjectIds \subseteq Nat \ {0}
    /\ SafeMax \in Nat
    /\ \A r \in BoundChoices : {r.minimum, r.maximum} \subseteq -SafeMax..SafeMax \cup {Null}
    /\ Missing = Null

\* undefined and null are no codes of errors, objects or arrays.
ASSUME NullIsNoValue ==
    /\ Null \notin {"temporal.arithmetic.overflow", "temporal.input.invalid"}
    /\ \A points \in SUBSET ObjectIds : Null \notin [points -> Int]
    /\ Null \notin Edge \cup Seq(Edge)

VARIABLE answer     \* the answer the caller holds, or Null

vars == <<events, answer>>

----------------------------------------------------------------------------
(* The graph of a query                                                    *)

\* buildGraph
BuildGraph(state) ==
    LET AxisOf(p) == (CHOOSE q \in state.points : q.id = p).axis
        edges ==
            UNION ({DifferenceEdges(AxisOf(a.point), a.point, a.bounds.minimum,
                                    a.bounds.maximum, <<3, a.id>>) : a \in state.coordinates}
                   \cup
                   {DifferenceEdges(i.start, i.end, 1, Missing, <<0, i.id>>) : i \in state.intervals}
                   \cup
                   {DifferenceEdges(a.from, a.to, a.bounds.minimum, a.bounds.maximum,
                                    <<3, a.id>>) : a \in state.constraints})
    IN [nodes |-> Ids(state.points) \cup {AxisOf(a.point) : a \in state.coordinates},
        edges |-> Sorted(edges)]

IntervalWith(run, i) == CHOOSE j \in Intervals(run) : j.id = i

\* validateQueryV0Alpha3, requirePoint, requireInterval, requireSameAxis. left and
\* right are points or intervals, or Null in a question about consistency.
ValidQuery(run, q) ==
    LET prefix == SubSeq(run, 1, q.cut)
    IN /\ q.cut =< Len(run)
       /\ q.type \in {"difference.bounds", "point.relations"} =>
              /\ PointIn(prefix, q.left, q.context)
              /\ PointIn(prefix, q.right, q.context)
              /\ SameAxis(prefix, q.left, q.right)
       /\ q.type = "interval.relations" =>
              /\ IntervalIn(prefix, q.left, q.context)
              /\ IntervalIn(prefix, q.right, q.context)
              /\ SameAxis(prefix, IntervalWith(prefix, q.left).start,
                          IntervalWith(prefix, q.right).start)

Seeds(run, q) ==
    IF q.type = "interval.relations"
    THEN UNION {{IntervalWith(run, i).start, IntervalWith(run, i).end} : i \in {q.left, q.right}}
    ELSE {q.left, q.right}

\* The graph that a query is evaluated on.
QueryGraph(run, q) ==
    LET graph == BuildGraph(ProjectionOf(run, q.cut, q.context))
    IN IF q.type = "context.consistency" THEN graph
       ELSE ConnectedScope(graph, Seeds(run, q))

Relations(q) == IF q.type = "point.relations" THEN PointRelations ELSE IntervalRelations

RelationSpecs(run, q, relation) ==
    IF q.type = "point.relations"
    THEN PointRelationSpecs(q.left, q.right, relation)
    ELSE IntervalRelationSpecs(IntervalWith(run, q.left), IntervalWith(run, q.right), relation)

SpecsOf(run, q) == [i \in DOMAIN Relations(q) |-> RelationSpecs(run, q, Relations(q)[i])]

----------------------------------------------------------------------------
(* Answers                                                                 *)

Failed(code) == [error |-> code]

\* safeNumber
Overflow == Failed("temporal.arithmetic.overflow")

Invalid == Failed("temporal.input.invalid")

Reply(result, proof) == [error |-> Null, result |-> result, proof |-> proof]

ScheduleWitness(s) == [kind |-> "schedule", coordinates |-> s]

CycleWitness(edges) == [kind |-> "negative-cycle", edges |-> edges]

Inconsistent(result, found) ==
    IF found.edges = Missing THEN Invalid ELSE Reply(result, CycleWitness(found.edges))

\* Mutation of ReasonConsistency: a schedule that is not safe counts as none.
UnsafeIsInconsistent(graph) ==
    LET found == CheckConsistency(BoundedScheduleGraph(graph))
        schedule == ScheduleProof(graph)
    IN IF ~found.consistent THEN Inconsistent([status |-> "inconsistent"], found)
       ELSE Reply([status |-> "consistent"], ScheduleWitness(schedule))

\* context.consistency
ReasonConsistency(graph) ==
    LET found == CheckConsistency(graph)
        schedule == ScheduleProof(graph)
    IN IF ~found.consistent THEN Inconsistent([status |-> "inconsistent"], found)
       ELSE IF schedule = Missing THEN Overflow
       ELSE Reply([status |-> "consistent"], ScheduleWitness(schedule))

Bounds(upper, reverse) ==
    LET minimum == IF reverse = Missing THEN Missing ELSE -reverse
        absent == {b \in {1, 2} : <<minimum, upper>>[b] = Missing}
    IN [status |-> IF absent = {} THEN "bounded"
                   ELSE IF absent = {1, 2} THEN "unbounded"
                   ELSE "partially-bounded",
        minimum |-> minimum, maximum |-> upper]

\* difference.bounds
ReasonBounds(graph, from, to) ==
    LET found == CheckConsistency(graph)
        upper == ShortestPath(graph, from, to)
        reverse == ShortestPath(graph, to, from)
        distances == {upper.distance, reverse.distance} \ {Missing}
    IN IF ~found.consistent
       THEN Inconsistent([Bounds(Missing, Missing) EXCEPT !.status = "inconsistent"], found)
       ELSE IF Missing \in {upper.edges, reverse.edges} THEN Invalid
       ELSE IF \E d \in distances : ~Safe(d) THEN Overflow
       ELSE Reply(Bounds(upper.distance, reverse.distance),
                  [kind |-> "bounds", lower |-> reverse.edges, upper |-> upper.edges])

\* evaluateRelations: one case.
RelationCase(graph, relation, specs) ==
    LET candidate == ExtendGraph(graph, specs)
        found == CheckConsistency(candidate)
    IN IF found.consistent
       THEN LET schedule == ScheduleProof(candidate)
            IN IF schedule = Missing THEN Overflow
               ELSE [error |-> Null, relation |-> relation, possible |-> TRUE,
                     witness |-> ScheduleWitness(schedule)]
       ELSE IF found.edges = Missing THEN Invalid
       ELSE [error |-> Null, relation |-> relation, possible |-> FALSE,
             witness |-> CycleWitness(found.edges)]

\* The relations of the cases that are possible, in their order.
PossibleOf(relations, cases) ==
    LET possible[i \in 0..Len(relations)] ==
            IF i = 0 THEN <<>>
            ELSE IF cases[i].possible THEN Append(possible[i - 1], relations[i])
            ELSE possible[i - 1]
    IN possible[Len(relations)]

\* point.relations, interval.relations
ReasonRelations(graph, relations, specs) ==
    LET found == CheckConsistency(graph)
        cases == [i \in DOMAIN relations |->
                     RelationCase(graph, relations[i], specs[i])]
        failures == {i \in DOMAIN cases : cases[i].error # Null}
        possible == PossibleOf(relations, cases)
    IN IF ~found.consistent
       THEN Inconsistent([status |-> "inconsistent", possible |-> <<>>], found)
       ELSE IF failures # {} THEN Failed(cases[Min(failures)].error)
       ELSE Reply([status |-> IF Len(possible) = 1 THEN "resolved" ELSE "indeterminate",
                   possible |-> possible],
                  [kind |-> "relation-cases", cases |-> cases])

\* reasonTemporalQueryV0Alpha3
Reason(run, q) ==
    LET graph == QueryGraph(run, q)
        reply == CASE q.type = "context.consistency" -> ReasonConsistency(graph)
                   [] q.type = "difference.bounds" -> ReasonBounds(graph, q.left, q.right)
                   [] OTHER -> ReasonRelations(graph, Relations(q), SpecsOf(run, q))
    IN [query |-> q, digest |-> ProjectionOf(run, q.cut, q.context).digest, reply |-> reply]

----------------------------------------------------------------------------
(* Verification                                                            *)

\* validateScheduleProof
VerifySchedule(proof, graph) ==
    /\ proof.kind = "schedule"
    /\ DOMAIN proof.coordinates = PointNodes(graph)
    /\ \A p \in PointNodes(graph) : Safe(proof.coordinates[p])
    /\ LET At(n) == IF IsOrigin(n) THEN 0 ELSE proof.coordinates[n]
       IN \A e \in EdgesOf(graph) : At(e.to) - At(e.from) =< e.weight

\* What the verifier adds up, edge by edge.
Weight(edges) ==
    LET sum[i \in 0..Len(edges)] == IF i = 0 THEN 0 ELSE sum[i - 1] + edges[i].weight
    IN sum[Len(edges)]

\* Mutation of VerifyCycle: the last edge need not lead back to the first.
VerifyWalk(proof, graph) ==
    /\ proof.kind = "negative-cycle"
    /\ proof.edges # <<>>
    /\ \A i \in DOMAIN proof.edges :
           /\ proof.edges[i] \in EdgesOf(graph)
           /\ i > 1 => proof.edges[i - 1].to = proof.edges[i].from
    /\ Weight(proof.edges) < 0

\* validateNegativeCycleProof
VerifyCycle(proof, graph) ==
    /\ proof.kind = "negative-cycle"
    /\ proof.edges # <<>>
    /\ \A i \in DOMAIN proof.edges :
           /\ proof.edges[i] \in EdgesOf(graph)
           /\ proof.edges[i].to = proof.edges[(i % Len(proof.edges)) + 1].from
    /\ Weight(proof.edges) < 0

\* validateBoundPath
VerifyPath(edges, graph, source, target, expected) ==
    IF expected = Missing THEN edges = <<>>
    ELSE IF edges = <<>> THEN source = target /\ expected = 0
    ELSE /\ edges[1].from = source
         /\ edges[Len(edges)].to = target
         /\ \A i \in DOMAIN edges :
                /\ edges[i] \in EdgesOf(graph)
                /\ i > 1 => edges[i - 1].to = edges[i].from
         /\ Weight(edges) = expected

\* verifyConsistencyConclusion
VerifyConsistency(result, proof, graph) ==
    \/ result.status = "consistent" /\ VerifySchedule(proof, graph)
    \/ result.status = "inconsistent" /\ VerifyCycle(proof, graph)

\* verifyBoundsConclusion
VerifyBounds(result, proof, graph, from, to) ==
    IF result.status = "inconsistent"
    THEN result.minimum = Null /\ result.maximum = Null /\ VerifyCycle(proof, graph)
    ELSE LET upper == ShortestPath(graph, from, to)
             reverse == ShortestPath(graph, to, from)
         IN /\ CheckConsistency(graph).consistent
            /\ \A d \in {upper.distance, reverse.distance} \ {Missing} : Safe(d)
            /\ result = Bounds(upper.distance, reverse.distance)
            /\ proof.kind = "bounds"
            /\ VerifyPath(proof.lower, graph, to, from, reverse.distance)
            /\ VerifyPath(proof.upper, graph, from, to, upper.distance)

\* verifyRelationConclusion, validateRelationCases
VerifyRelations(result, proof, graph, relations, specs) ==
    IF ~CheckConsistency(graph).consistent
    THEN result.status = "inconsistent" /\ result.possible = <<>> /\ VerifyCycle(proof, graph)
    ELSE /\ proof.kind = "relation-cases"
         /\ DOMAIN proof.cases = DOMAIN relations
         /\ \A i \in DOMAIN relations :
                LET candidate == ExtendGraph(graph, specs[i])
                    case == proof.cases[i]
                IN /\ case.relation = relations[i]
                   /\ IF case.possible THEN VerifySchedule(case.witness, candidate)
                      ELSE VerifyCycle(case.witness, candidate)
         /\ result.possible # <<>>
         /\ result.possible = PossibleOf(relations, proof.cases)
         /\ result.status = IF Len(result.possible) = 1 THEN "resolved" ELSE "indeterminate"

\* verifyTemporalConclusionV0Alpha3, validateConclusionEnvelope
Verify(run, q, conclusion) ==
    /\ ValidQuery(run, q)
    /\ conclusion.query = q
    /\ conclusion.digest = ProjectionOf(run, q.cut, q.context).digest
    /\ LET graph == QueryGraph(run, q)
           result == conclusion.reply.result
           proof == conclusion.reply.proof
       IN CASE q.type = "context.consistency" -> VerifyConsistency(result, proof, graph)
            [] q.type = "difference.bounds" -> VerifyBounds(result, proof, graph, q.left, q.right)
            [] OTHER -> VerifyRelations(result, proof, graph, Relations(q), SpecsOf(run, q))

----------------------------------------------------------------------------
(* The caller                                                              *)

QueryTypes == {"context.consistency", "difference.bounds", "point.relations", "interval.relations"}

Query ==
    [type : QueryTypes, context : Contexts, cut : 0..MaxEvents,
     left : ObjectIds \cup {Null}, right : ObjectIds \cup {Null}]

Ask(q) ==
    /\ answer = Null
    /\ ValidQuery(events, q)
    /\ q.type = "context.consistency" <=> q.left = Null
    /\ q.left = Null <=> q.right = Null
    /\ answer' = Reason(events, q)
    /\ UNCHANGED events

ReasonerInit == Init /\ answer = Null

ReasonerNext ==
    \/ Next /\ UNCHANGED answer
    \/ \E q \in Query : Ask(q)

ReasonerSpec == ReasonerInit /\ [][ReasonerNext]_vars

=============================================================================
