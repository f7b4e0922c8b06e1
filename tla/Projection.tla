----------------------------- MODULE Projection -----------------------------
(***************************************************************************)
(* Runs and projections of v0alpha3: v0alpha3/kernel.ts and                *)
(* v0alpha3/document.ts.                                                   *)
(*                                                                         *)
(* A run is a stream of events that declare points and intervals, assert   *)
(* coordinates, constraints and facts, and retract assertions, each in     *)
(* one context. A projection is what one context holds after a prefix of   *)
(* the stream: its declarations and the assertions that are still active.  *)
(* An event is appended only if the longer run is valid.                   *)
(***************************************************************************)
EXTENDS Integers, Sequences

CONSTANTS
    Contexts,       \* temporal contexts of the contract
    Axes,           \* temporal axes of the contract
    ObjectIds,      \* identifiers of points, intervals and assertions
    BoundChoices,   \* minima and maxima a caller may give, valid or not
    Null,           \* an absent value
    MaxEvents       \* limit on the events of a run

Kinds == {"coordinate", "constraint", "fact"}

ASSUME ProjectionConstants ==
    /\ \A r \in BoundChoices :
           /\ r = [minimum |-> r.minimum, maximum |-> r.maximum]
           /\ {r.minimum, r.maximum} \subseteq Int \cup {Null}
    /\ Null \notin Int \cup ObjectIds
    /\ MaxEvents \in Nat

VARIABLE events     \* the run's events, in sequence

----------------------------------------------------------------------------
(* What a run says                                                         *)

Events(run) == {run[i] : i \in DOMAIN run}

Points(run) == {e \in Events(run) : e.type = "point"}

Intervals(run) == {e \in Events(run) : e.type = "interval"}

Assertions(run) == {e \in Events(run) : e.type \in Kinds}

Retractions(run) == {e \in Events(run) : e.type = "retraction"}

TemporalIds(run) == {e.id : e \in Events(run) \ Retractions(run)}

Retracted(run) == {e.assertion : e \in Retractions(run)}

\* Mutation of Superseded: a replacement that is retracted gives its targets back.
SupersededByLive(run) ==
    UNION {a.supersedes : a \in {x \in Assertions(run) : x.id \notin Retracted(run)}}

Superseded(run) == UNION {a.supersedes : a \in Assertions(run)}

\* resolveActiveAssertions
Active(run) == {a \in Assertions(run) : a.id \notin Retracted(run) \cup Superseded(run)}

\* The context an event belongs to: a retraction belongs to that of its target.
BelongsTo(run, e, c) ==
    IF e.type = "retraction"
    THEN \E a \in Assertions(run) : a.id = e.assertion /\ a.context = c
    ELSE e.context = c

ContextEvents(run, c) == SelectSeq(run, LAMBDA e : BelongsTo(run, e, c))

\* projectInternal. A cut is the number of events the query knows of: 0 for
\* recordedThrough null, else recordedThrough + 1. The state digest is the value
\* it digests.
ProjectionOf(run, cut, c) ==
    LET prefix == SubSeq(run, 1, cut)
        In(S) == {e \in S : e.context = c}
        active == In(Active(prefix))
    IN [points |-> In(Points(prefix)),
        intervals |-> In(Intervals(prefix)),
        coordinates |-> {a \in active : a.type = "coordinate"},
        constraints |-> {a \in active : a.type = "constraint"},
        facts |-> {a \in active : a.type = "fact"},
        digest |-> [context |-> c, cut |-> cut, events |-> ContextEvents(prefix, c)]]

----------------------------------------------------------------------------
(* Validation                                                              *)

\* Mutation of PointIn: a point of another context will do.
PointAnywhere(run, p, c) == \E q \in Points(run) : q.id = p

PointIn(run, p, c) == \E q \in Points(run) : q.id = p /\ q.context = c

IntervalIn(run, i, c) == \E j \in Intervals(run) : j.id = i /\ j.context = c

\* requireSameAxis
SameAxis(run, p, q) ==
    \A x, y \in Points(run) : x.id = p /\ y.id = q => x.axis = y.axis

\* validateBounds
ValidBounds(r) ==
    /\ r.minimum # Null \/ r.maximum # Null
    /\ r.minimum # Null /\ r.maximum # Null => r.minimum =< r.maximum

\* Mutation of MaySupersede: a target may be of another context.
MaySupersedeAnywhere(run, kind, c, targets) ==
    \A t \in targets : \E a \in Assertions(run) : a.id = t /\ a.type = kind

\* validateAssertionBase: every target is an earlier assertion of the kind and context.
MaySupersede(run, kind, c, targets) ==
    \A t \in targets :
        \E a \in Assertions(run) : a.id = t /\ a.type = kind /\ a.context = c

----------------------------------------------------------------------------
(* The run grows                                                           *)

Init == events = <<>>

Record(event) ==
    /\ Len(events) < MaxEvents
    /\ events' = Append(events, event)

DeclarePoint(id, c, axis) ==
    /\ id \notin TemporalIds(events)
    /\ Record([type |-> "point", id |-> id, context |-> c, axis |-> axis])

DeclareInterval(id, c, start, end) ==
    /\ id \notin TemporalIds(events)
    /\ PointIn(events, start, c)
    /\ PointIn(events, end, c)
    /\ SameAxis(events, start, end)
    /\ Record([type |-> "interval", id |-> id, context |-> c,
               start |-> start, end |-> end])

AssertCoordinate(id, c, point, bounds, targets) ==
    /\ id \notin TemporalIds(events)
    /\ PointIn(events, point, c)
    /\ ValidBounds(bounds)
    /\ MaySupersede(events, "coordinate", c, targets)
    /\ \A a \in Assertions(events) : a.id \in targets => a.point = point
    /\ Record([type |-> "coordinate", id |-> id, context |-> c, point |-> point,
               bounds |-> bounds, supersedes |-> targets])

AssertConstraint(id, c, from, to, bounds, targets) ==
    /\ id \notin TemporalIds(events)
    /\ PointIn(events, from, c)
    /\ PointIn(events, to, c)
    /\ SameAxis(events, from, to)
    /\ ValidBounds(bounds)
    /\ MaySupersede(events, "constraint", c, targets)
    /\ Record([type |-> "constraint", id |-> id, context |-> c, from |-> from, to |-> to,
               bounds |-> bounds, supersedes |-> targets])

\* during is an interval or Null; observed and asserted are points or Null.
AssertFact(id, c, during, observed, asserted, targets) ==
    /\ id \notin TemporalIds(events)
    /\ during # Null => IntervalIn(events, during, c)
    /\ observed # Null => PointIn(events, observed, c)
    /\ asserted # Null => PointIn(events, asserted, c)
    /\ MaySupersede(events, "fact", c, targets)
    /\ Record([type |-> "fact", id |-> id, context |-> c, during |-> during,
               observed |-> observed, asserted |-> asserted, supersedes |-> targets])

\* A retraction may be repeated.
Retract(assertion) ==
    /\ \E a \in Assertions(events) : a.id = assertion
    /\ Record([type |-> "retraction", assertion |-> assertion])

\* The kernel refuses a reference to what is not declared, so inputs name declared
\* objects, of any context.
Ids(S) == {x.id : x \in S}

Declare(id, c) ==
    \/ \E axis \in Axes : DeclarePoint(id, c, axis)
    \/ \E start, end \in Ids(Points(events)) : DeclareInterval(id, c, start, end)

AddAssertion(id, c, targets) ==
    \/ \E p \in Ids(Points(events)), r \in BoundChoices :
           AssertCoordinate(id, c, p, r, targets)
    \/ \E p, q \in Ids(Points(events)), r \in BoundChoices :
           AssertConstraint(id, c, p, q, r, targets)
    \/ \E i \in Ids(Intervals(events)) \cup {Null}, p, q \in Ids(Points(events)) \cup {Null} :
           AssertFact(id, c, i, p, q, targets)

Add(id, c) ==
    \/ Declare(id, c)
    \/ \E targets \in SUBSET Ids(Assertions(events)) : AddAssertion(id, c, targets)

Next ==
    \/ \E id \in ObjectIds, c \in Contexts : Add(id, c)
    \/ \E id \in Ids(Assertions(events)) : Retract(id)

Spec == Init /\ [][Next]_events

----------------------------------------------------------------------------
(* Properties                                                              *)

PointEvent == [type : {"point"}, id : ObjectIds, context : Contexts, axis : Axes]

IntervalEvent ==
    [type : {"interval"}, id : ObjectIds, context : Contexts,
     start : ObjectIds, end : ObjectIds]

CoordinateEvent ==
    [type : {"coordinate"}, id : ObjectIds, context : Contexts, point : ObjectIds,
     bounds : BoundChoices, supersedes : SUBSET ObjectIds]

ConstraintEvent ==
    [type : {"constraint"}, id : ObjectIds, context : Contexts, from : ObjectIds,
     to : ObjectIds, bounds : BoundChoices, supersedes : SUBSET ObjectIds]

FactEvent ==
    [type : {"fact"}, id : ObjectIds, context : Contexts, during : ObjectIds \cup {Null},
     observed : ObjectIds \cup {Null}, asserted : ObjectIds \cup {Null},
     supersedes : SUBSET ObjectIds]

AssertionEvent == CoordinateEvent \cup ConstraintEvent \cup FactEvent

RetractionEvent == [type : {"retraction"}, assertion : ObjectIds]

Event == PointEvent \cup IntervalEvent \cup AssertionEvent \cup RetractionEvent

\* A run is a sequence of events, no longer than its limit (document.ts, the
\* shapes appendEventIssues accepts).
TypeOK == events \in Seq(Event) /\ Len(events) =< MaxEvents

\* What a context holds can be compiled to a graph: an active coordinate is about
\* a point of the projection, an interval and an active constraint join two
\* points of the projection on one axis, and an active fact refers to its
\* intervals and points. buildGraph relies on it (points.get(...)!).
ReferencesResolve ==
    \A cut \in 0..Len(events), c \in Contexts :
        LET state == ProjectionOf(events, cut, c)
            Holds(id) == \E p \in state.points : p.id = id
            Joined(x, y) ==
                \E p, q \in state.points : p.id = x /\ q.id = y /\ p.axis = q.axis
        IN /\ \A i \in state.intervals : Joined(i.start, i.end)
           /\ \A a \in state.coordinates : Holds(a.point)
           /\ \A a \in state.constraints : Joined(a.from, a.to)
           /\ \A a \in state.facts :
                  /\ a.during # Null => \E i \in state.intervals : i.id = a.during
                  /\ a.observed # Null => Holds(a.observed)
                  /\ a.asserted # Null => Holds(a.asserted)

\* What one context holds does not depend on the others: an event of another
\* context changes nothing in its projection (spec/v0alpha3/reasoning.md: a pure
\* function of one context).
Held(run, c) == [ProjectionOf(run, Len(run), c) EXCEPT !.digest = Null]

ContextsIsolated ==
    [][\A c \in Contexts :
           \/ BelongsTo(events', events'[Len(events')], c)
           \/ Held(events', c) = Held(events, c)]_events

\* An assertion that was superseded or retracted never comes back, although its
\* replacement may be retracted later (spec/v0alpha3/reasoning.md: stale
\* assertions never reactivate implicitly).
StaleStaysOut ==
    [][\A a \in Assertions(events) : a \in Active(events') => a \in Active(events)]_events

=============================================================================
