-------------------------- MODULE ProjectionProofs --------------------------
(***************************************************************************)
(* Proofs about Projection for every set of contexts, axes and identifiers *)
(* and every length of a run.                                              *)
(***************************************************************************)
EXTENDS Projection, SequenceTheorems, FiniteSetTheorems, TLAPS

----------------------------------------------------------------------------
(* The events of a run                                                     *)

\* The type of an event tells its shape.
LEMMA EventShapes ==
    ASSUME NEW e \in Event
    PROVE  /\ e.type = "point" => e \in PointEvent
           /\ e.type = "interval" => e \in IntervalEvent
           /\ e.type = "coordinate" => e \in CoordinateEvent
           /\ e.type = "constraint" => e \in ConstraintEvent
           /\ e.type = "fact" => e \in FactEvent
           /\ e.type = "retraction" => e \in RetractionEvent
           /\ e.type \in Kinds => e \in AssertionEvent
           /\ e.type \in {"point", "interval", "retraction"} \cup Kinds
  BY DEF Event, PointEvent, IntervalEvent, AssertionEvent, CoordinateEvent,
         ConstraintEvent, FactEvent, RetractionEvent, Kinds

\* The events of a run are events.
LEMMA EventsAreEvents ==
    ASSUME NEW run \in Seq(Event)
    PROVE  Events(run) \subseteq Event
  BY ElementOfSeq DEF Events

\* The identifiers that a run declares are identifiers.
LEMMA IdsTyped ==
    ASSUME NEW run \in Seq(Event)
    PROVE  /\ Ids(Points(run)) \subseteq ObjectIds
           /\ Ids(Intervals(run)) \subseteq ObjectIds
           /\ Ids(Assertions(run)) \subseteq ObjectIds
  <1>1. \A e \in Events(run) : e.type = "point" => e.id \in ObjectIds
    BY EventsAreEvents, EventShapes DEF PointEvent
  <1>2. \A e \in Events(run) : e.type = "interval" => e.id \in ObjectIds
    BY EventsAreEvents, EventShapes DEF IntervalEvent
  <1>3. \A e \in AssertionEvent : e.id \in ObjectIds
    BY DEF AssertionEvent, CoordinateEvent, ConstraintEvent, FactEvent
  <1>4. \A e \in Events(run) : e.type \in Kinds => e.id \in ObjectIds
    BY <1>3, EventsAreEvents, EventShapes
  <1>. QED
    BY <1>1, <1>2, <1>4 DEF Ids, Points, Intervals, Assertions

\* Appending an event adds it to the events of the run.
LEMMA EventsOfAppend ==
    ASSUME NEW run \in Seq(Event), NEW e
    PROVE  Events(Append(run, e)) = Events(run) \cup {e}
  <1>1. DOMAIN run = 1..Len(run) /\ Len(run) \in Nat
    BY LenProperties
  <1>2. run \in Seq(Event \cup {e}) /\ e \in Event \cup {e}
    BY SeqMonotonic
  <1>3. DOMAIN Append(run, e) = 1..(Len(run) + 1)
    BY <1>2, AppendProperties, LenProperties
  <1>4. \A i \in 1..Len(run) : Append(run, e)[i] = run[i]
    BY <1>1, <1>2, AppendProperties
  <1>5. Append(run, e)[Len(run) + 1] = e
    BY <1>2, AppendProperties
  <1>6. 1..(Len(run) + 1) = 1..Len(run) \cup {Len(run) + 1}
    BY <1>1
  <1>. QED
    BY <1>1, <1>3, <1>4, <1>5, <1>6 DEF Events

----------------------------------------------------------------------------
(* What the guards accept                                                  *)

\* The references of an event are to declared points and intervals of its context.
Refers(run, e) ==
    /\ e.type = "interval" =>
           /\ PointIn(run, e.start, e.context)
           /\ PointIn(run, e.end, e.context)
           /\ SameAxis(run, e.start, e.end)
    /\ e.type = "coordinate" => PointIn(run, e.point, e.context)
    /\ e.type = "constraint" =>
           /\ PointIn(run, e.from, e.context)
           /\ PointIn(run, e.to, e.context)
           /\ SameAxis(run, e.from, e.to)
    /\ e.type = "fact" =>
           /\ e.during # Null => IntervalIn(run, e.during, e.context)
           /\ e.observed # Null => PointIn(run, e.observed, e.context)
           /\ e.asserted # Null => PointIn(run, e.asserted, e.context)

Accepts(run, e) ==
    /\ e \in Event
    /\ e.type # "retraction" => e.id \notin TemporalIds(run)
    /\ e.type \in Kinds => MaySupersede(run, e.type, e.context, e.supersedes)
    /\ Refers(run, e)

Accepted(e) ==
    /\ Accepts(events, e)
    /\ Len(events) < MaxEvents
    /\ events' = Append(events, e)

\* Every step appends an event that the run accepts: one step for each action.
LEMMA NextAccepts ==
    ASSUME TypeOK, Next
    PROVE  \E e : Accepted(e)
  <1>. USE DEF Accepted, Accepts, Refers, Kinds, Record
  <1>1. events \in Seq(Event)
    BY DEF TypeOK
  <1>2. CASE \E id \in Ids(Assertions(events)) : Retract(id)
    <2>1. PICK id \in Ids(Assertions(events)) : Retract(id)
      BY <1>2
    <2>2. [type |-> "retraction", assertion |-> id] \in Event
      BY <1>1, IdsTyped DEF Event, RetractionEvent
    <2>. QED
      BY <2>1, <2>2 DEF Retract
  <1>3. ASSUME NEW id \in ObjectIds, NEW c \in Contexts, Add(id, c)
        PROVE  \E e : Accepted(e)
    <2>1. ASSUME NEW axis \in Axes, DeclarePoint(id, c, axis)
          PROVE  \E e : Accepted(e)
      <3>1. [type |-> "point", id |-> id, context |-> c, axis |-> axis] \in Event
        BY DEF Event, PointEvent
      <3>. QED
        BY <2>1, <3>1 DEF DeclarePoint
    <2>2. ASSUME NEW start \in Ids(Points(events)), NEW end \in Ids(Points(events)),
                 DeclareInterval(id, c, start, end)
          PROVE  \E e : Accepted(e)
      <3>1. [type |-> "interval", id |-> id, context |-> c, start |-> start, end |-> end]
                \in Event
        BY <1>1, IdsTyped DEF Event, IntervalEvent
      <3>. QED
        BY <2>2, <3>1 DEF DeclareInterval
    <2>3. ASSUME NEW targets \in SUBSET Ids(Assertions(events)),
                 NEW p \in Ids(Points(events)), NEW r \in BoundChoices,
                 AssertCoordinate(id, c, p, r, targets)
          PROVE  \E e : Accepted(e)
      <3>1. [type |-> "coordinate", id |-> id, context |-> c, point |-> p,
             bounds |-> r, supersedes |-> targets] \in Event
        BY <1>1, IdsTyped DEF Event, AssertionEvent, CoordinateEvent
      <3>. QED
        BY <2>3, <3>1 DEF AssertCoordinate
    <2>4. ASSUME NEW targets \in SUBSET Ids(Assertions(events)),
                 NEW p \in Ids(Points(events)), NEW q \in Ids(Points(events)),
                 NEW r \in BoundChoices, AssertConstraint(id, c, p, q, r, targets)
          PROVE  \E e : Accepted(e)
      <3>1. [type |-> "constraint", id |-> id, context |-> c, from |-> p, to |-> q,
             bounds |-> r, supersedes |-> targets] \in Event
        BY <1>1, IdsTyped DEF Event, AssertionEvent, ConstraintEvent
      <3>. QED
        BY <2>4, <3>1 DEF AssertConstraint
    <2>5. ASSUME NEW targets \in SUBSET Ids(Assertions(events)),
                 NEW i \in Ids(Intervals(events)) \cup {Null},
                 NEW p \in Ids(Points(events)) \cup {Null},
                 NEW q \in Ids(Points(events)) \cup {Null},
                 AssertFact(id, c, i, p, q, targets)
          PROVE  \E e : Accepted(e)
      <3>1. [type |-> "fact", id |-> id, context |-> c, during |-> i, observed |-> p,
             asserted |-> q, supersedes |-> targets] \in Event
        BY <1>1, IdsTyped DEF Event, AssertionEvent, FactEvent
      <3>. QED
        BY <2>5, <3>1 DEF AssertFact
    <2>. QED
      BY <1>3, <2>1, <2>2, <2>3, <2>4, <2>5 DEF Add, Declare, AddAssertion
  <1>. QED
    BY <1>2, <1>3 DEF Next

\* Each run is a sequence of well-formed events within its limit.
THEOREM RunTyped == Spec => []TypeOK
  <1>1. Init => TypeOK
    BY EmptySeq, ProjectionConstants DEF Init, TypeOK
  <1>2. TypeOK /\ [Next]_events => TypeOK'
    <2>1. ASSUME TypeOK, Next PROVE TypeOK'
      <3>1. PICK e : Accepted(e)
        BY <2>1, NextAccepts
      <3>2. events \in Seq(Event) /\ e \in Event /\ Len(events) < MaxEvents
        BY <2>1, <3>1 DEF TypeOK, Accepted, Accepts
      <3>3. events' \in Seq(Event) /\ Len(events') = Len(events) + 1 /\ Len(events) \in Nat
        BY <3>1, <3>2, AppendProperties, LenProperties DEF Accepted
      <3>. QED
        BY <3>2, <3>3, ProjectionConstants DEF TypeOK
    <2>. QED
      BY <2>1 DEF TypeOK
  <1>. QED
    BY <1>1, <1>2, PTL DEF Spec

----------------------------------------------------------------------------
(* What an accepted event adds                                             *)

\* An accepted event adds itself to the declarations, to the assertions or to the
\* retractions; what was retracted or superseded stays so.
LEMMA Growth ==
    ASSUME NEW run \in Seq(Event), NEW e \in Event
    PROVE  /\ Points(Append(run, e)) = Points(run) \cup {x \in {e} : x.type = "point"}
           /\ Intervals(Append(run, e)) = Intervals(run) \cup {x \in {e} : x.type = "interval"}
           /\ Assertions(Append(run, e)) = Assertions(run) \cup {x \in {e} : x.type \in Kinds}
           /\ Retractions(Append(run, e)) =
                  Retractions(run) \cup {x \in {e} : x.type = "retraction"}
           /\ Retracted(Append(run, e)) =
                  Retracted(run)
                  \cup {x.assertion : x \in {y \in {e} : y.type = "retraction"}}
           /\ Superseded(Append(run, e)) =
                  Superseded(run) \cup UNION {x.supersedes : x \in {y \in {e} : y.type \in Kinds}}
  <1>1. Events(Append(run, e)) = Events(run) \cup {e}
    BY EventsOfAppend
  <1>2. /\ Points(Append(run, e)) = Points(run) \cup {x \in {e} : x.type = "point"}
        /\ Intervals(Append(run, e)) = Intervals(run) \cup {x \in {e} : x.type = "interval"}
        /\ Assertions(Append(run, e)) = Assertions(run) \cup {x \in {e} : x.type \in Kinds}
        /\ Retractions(Append(run, e)) =
               Retractions(run) \cup {x \in {e} : x.type = "retraction"}
    BY <1>1 DEF Points, Intervals, Assertions, Retractions
  <1>3. Retracted(Append(run, e)) =
            Retracted(run) \cup {x.assertion : x \in {y \in {e} : y.type = "retraction"}}
    BY <1>2 DEF Retracted
  <1>4. Superseded(Append(run, e)) =
            Superseded(run) \cup UNION {x.supersedes : x \in {y \in {e} : y.type \in Kinds}}
    BY <1>2 DEF Superseded
  <1>. QED
    BY <1>2, <1>3, <1>4

\* An assertion that was superseded or retracted stays out.
THEOREM StaleOut == Spec => StaleStaysOut
  <1>1. ASSUME TypeOK, Next, NEW a \in Assertions(events), a \in Active(events')
        PROVE  a \in Active(events)
    <2>1. PICK e : Accepted(e)
      BY <1>1, NextAccepts
    <2>2. events \in Seq(Event) /\ e \in Event /\ events' = Append(events, e)
      BY <1>1, <2>1 DEF TypeOK, Accepted, Accepts
    <2>3. Retracted(events) \cup Superseded(events) \subseteq
              Retracted(events') \cup Superseded(events')
      BY <2>2, Growth
    <2>4. a.id \notin Retracted(events') \cup Superseded(events')
      BY <1>1 DEF Active
    <2>. QED
      BY <1>1, <2>3, <2>4 DEF Active
  <1>2. TypeOK /\ [Next]_events =>
            [\A a \in Assertions(events) : a \in Active(events') => a \in Active(events)]_events
    BY <1>1
  <1>. QED
    BY <1>2, RunTyped, PTL DEF Spec, StaleStaysOut

----------------------------------------------------------------------------
(* Identifiers                                                             *)

\* No two declarations or assertions share an identifier.
UniqueIds ==
    \A x, y \in Events(events) \ Retractions(events) : x.id = y.id => x = y

LEMMA UniqueIdsCorrect == Spec => []UniqueIds
  <1>1. Init => UniqueIds
    <2>1. Events(<<>>) = {}
      BY EmptySeq DEF Events
    <2>. QED
      BY <2>1 DEF Init, UniqueIds
  <1>2. TypeOK /\ UniqueIds /\ [Next]_events => UniqueIds'
    <2>1. ASSUME TypeOK, UniqueIds, Next,
                 NEW x \in Events(events') \ Retractions(events'),
                 NEW y \in Events(events') \ Retractions(events'), x.id = y.id
          PROVE  x = y
      <3>1. PICK e : Accepted(e)
        BY <2>1, NextAccepts
      <3>2. events \in Seq(Event) /\ e \in Event /\ events' = Append(events, e)
        BY <2>1, <3>1 DEF TypeOK, Accepted, Accepts
      <3>3. Events(events') = Events(events) \cup {e}
        BY <3>2, EventsOfAppend
      <3>4. e.type # "retraction" =>
                \A z \in Events(events) \ Retractions(events) : z.id # e.id
        BY <3>1 DEF Accepted, Accepts, TemporalIds
      <3>. QED
        BY <2>1, <3>3, <3>4 DEF UniqueIds, Retractions
    <2>. QED
      BY <2>1 DEF UniqueIds
  <1>. QED
    BY <1>1, <1>2, RunTyped, PTL DEF Spec

----------------------------------------------------------------------------
(* Contexts                                                                *)

\* What a context holds is determined by its points, its intervals and its active
\* assertions.
LEMMA HeldIs ==
    ASSUME NEW run \in Seq(Event), NEW other \in Seq(Event), NEW c,
           {e \in Points(run) : e.context = c} = {e \in Points(other) : e.context = c},
           {e \in Intervals(run) : e.context = c} = {e \in Intervals(other) : e.context = c},
           {a \in Active(run) : a.context = c} = {a \in Active(other) : a.context = c}
    PROVE  Held(run, c) = Held(other, c)
  <1> DEFINE Only(active, kind) == {a \in active : a.type = kind}
             State(points, intervals, active, digest) ==
                 [points |-> points, intervals |-> intervals,
                  coordinates |-> Only(active, "coordinate"),
                  constraints |-> Only(active, "constraint"),
                  facts |-> Only(active, "fact"), digest |-> digest]
             Of(r, digest) == State({e \in Points(r) : e.context = c},
                                    {e \in Intervals(r) : e.context = c},
                                    {a \in Active(r) : a.context = c}, digest)
             Digest(r, n) == [context |-> c, cut |-> n, events |-> ContextEvents(r, c)]
  <1>1. ASSUME NEW r \in Seq(Event) PROVE Held(r, c) = Of(r, Null)
    <2>1. SubSeq(r, 1, Len(r)) = r
      BY SubSeqFull
    <2>2. ProjectionOf(r, Len(r), c) =
              Of(SubSeq(r, 1, Len(r)), Digest(SubSeq(r, 1, Len(r)), Len(r)))
      BY DEF ProjectionOf
    <2>3. ProjectionOf(r, Len(r), c) = Of(r, Digest(r, Len(r)))
      <3>. HIDE DEF Of, Digest
      <3>. QED
        BY <2>1, <2>2
    <2>4. \A points, intervals, active, digest :
              [State(points, intervals, active, digest) EXCEPT !.digest = Null] =
              State(points, intervals, active, Null)
      <3>. HIDE DEF Only
      <3>. QED
        OBVIOUS
    <2>5. \A digest : [Of(r, digest) EXCEPT !.digest = Null] = Of(r, Null)
      <3>. HIDE DEF State
      <3>. QED
        BY <2>4
    <2>. HIDE DEF Of
    <2>. QED
      BY <2>3, <2>5 DEF Held
  <1>2. Of(run, Null) = Of(other, Null)
    <2>. HIDE DEF State
    <2>. QED
      OBVIOUS
  <1>. HIDE DEF Of
  <1>. QED
    BY <1>1, <1>2

\* An accepted event of another context leaves the active assertions of a context.
LEMMA ActiveElsewhere ==
    ASSUME NEW run \in Seq(Event), NEW e, NEW c, Accepts(run, e),
           \A x, y \in Events(run) \ Retractions(run) : x.id = y.id => x = y,
           ~BelongsTo(Append(run, e), e, c)
    PROVE  {a \in Active(Append(run, e)) : a.context = c} = {a \in Active(run) : a.context = c}
  <1>1. e \in Event
    BY DEF Accepts
  <1>2. Assertions(run) \subseteq Events(run) \ Retractions(run)
    BY DEF Assertions, Retractions, Kinds
  <1>3. e.type \in Kinds => e.type # "retraction"
    BY DEF Kinds
  <1>4. \A a \in Assertions(Append(run, e)) : a.context = c => a \in Assertions(run)
    BY <1>1, <1>3, Growth DEF BelongsTo
  <1>5. ASSUME NEW a \in Assertions(run), a.context = c, e.type = "retraction"
        PROVE  a.id # e.assertion
    BY <1>1, <1>5, Growth DEF BelongsTo
  <1>6. ASSUME NEW a \in Assertions(run), a.context = c, e.type \in Kinds
        PROVE  a.id \notin e.supersedes
    <2>1. e.context # c
      BY <1>3, <1>6 DEF BelongsTo
    <2>2. SUFFICES ASSUME a.id \in e.supersedes PROVE FALSE
      OBVIOUS
    <2>3. PICK b \in Assertions(run) : b.id = a.id /\ b.context = e.context
      BY <1>6, <2>2 DEF Accepts, MaySupersede
    <2>. QED
      BY <1>2, <1>6, <2>1, <2>3
  <1>7. \A a \in Assertions(run) : a.context = c =>
            (a.id \in Retracted(Append(run, e)) \cup Superseded(Append(run, e))
             <=> a.id \in Retracted(run) \cup Superseded(run))
    BY <1>1, <1>5, <1>6, Growth
  <1>8. Assertions(run) \subseteq Assertions(Append(run, e))
    BY <1>1, Growth
  <1>. QED
    BY <1>4, <1>7, <1>8 DEF Active

\* What a context holds changes only by its own events.
THEOREM Isolated == Spec => ContextsIsolated
  <1>1. ASSUME TypeOK, UniqueIds, Next, NEW c \in Contexts,
               ~BelongsTo(events', events'[Len(events')], c)
        PROVE  Held(events', c) = Held(events, c)
    <2>1. PICK e : Accepted(e)
      BY <1>1, NextAccepts
    <2>2. /\ events \in Seq(Event) /\ e \in Event /\ events' = Append(events, e)
          /\ Accepts(events, e)
      BY <1>1, <2>1 DEF TypeOK, Accepted, Accepts
    <2>3. events' \in Seq(Event) /\ events'[Len(events')] = e
      BY <2>2, AppendProperties
    <2>4. {a \in Active(events') : a.context = c} = {a \in Active(events) : a.context = c}
      BY <1>1, <2>2, <2>3, ActiveElsewhere DEF UniqueIds
    <2>5. e.type \in {"point", "interval"} => e.context # c
      BY <1>1, <2>3 DEF BelongsTo
    <2>6. /\ {x \in Points(events') : x.context = c} = {x \in Points(events) : x.context = c}
          /\ {x \in Intervals(events') : x.context = c} =
                 {x \in Intervals(events) : x.context = c}
      BY <2>2, <2>5, Growth
    <2>. QED
      BY <2>2, <2>3, <2>4, <2>6, HeldIs
  <1>2. TypeOK /\ UniqueIds /\ [Next]_events =>
            [\A c \in Contexts :
                \/ BelongsTo(events', events'[Len(events')], c)
                \/ Held(events', c) = Held(events, c)]_events
    BY <1>1
  <1>. QED
    BY <1>2, RunTyped, UniqueIdsCorrect, PTL DEF Spec, ContextsIsolated

----------------------------------------------------------------------------
(* References                                                              *)

\* Two points of one context on one axis.
JoinedIn(run, x, y, c) ==
    \E p, q \in Points(run) :
        /\ p.id = x /\ p.context = c
        /\ q.id = y /\ q.context = c
        /\ p.axis = q.axis

\* Every declaration and every assertion, active or not, refers to what the run
\* declares in its context.
AllResolve(run) ==
    /\ \A i \in Intervals(run) : JoinedIn(run, i.start, i.end, i.context)
    /\ \A a \in Assertions(run) :
           /\ a.type = "coordinate" => PointIn(run, a.point, a.context)
           /\ a.type = "constraint" => JoinedIn(run, a.from, a.to, a.context)
           /\ a.type = "fact" =>
                  /\ a.during # Null => IntervalIn(run, a.during, a.context)
                  /\ a.observed # Null => PointIn(run, a.observed, a.context)
                  /\ a.asserted # Null => PointIn(run, a.asserted, a.context)

PrefixesResolve == \A cut \in 0..Len(events) : AllResolve(SubSeq(events, 1, cut))

\* An accepted event refers to what is there already.
LEMMA AcceptedResolves ==
    ASSUME NEW run \in Seq(Event), NEW e, Accepts(run, e), AllResolve(run)
    PROVE  AllResolve(Append(run, e))
  <1> DEFINE after == Append(run, e)
  <1>1. e \in Event
    BY DEF Accepts
  <1>2. Points(run) \subseteq Points(after) /\ Intervals(run) \subseteq Intervals(after)
    BY <1>1, Growth
  <1>3. /\ \A x, c : PointIn(run, x, c) => PointIn(after, x, c)
        /\ \A x, c : IntervalIn(run, x, c) => IntervalIn(after, x, c)
        /\ \A x, y, c : JoinedIn(run, x, y, c) => JoinedIn(after, x, y, c)
    BY <1>2 DEF PointIn, IntervalIn, JoinedIn
  <1>4. \A x, y, c : PointIn(run, x, c) /\ PointIn(run, y, c) /\ SameAxis(run, x, y)
                         => JoinedIn(run, x, y, c)
    BY DEF PointIn, SameAxis, JoinedIn
  <1>5. ASSUME NEW i \in Intervals(after)
        PROVE  JoinedIn(after, i.start, i.end, i.context)
    <2>1. CASE i \in Intervals(run)
      BY <1>3, <2>1 DEF AllResolve
    <2>2. CASE i = e /\ e.type = "interval"
      BY <1>3, <1>4, <2>2 DEF Accepts, Refers
    <2>. QED
      BY <1>1, <1>5, <2>1, <2>2, Growth
  <1>6. ASSUME NEW a \in Assertions(after)
        PROVE  /\ a.type = "coordinate" => PointIn(after, a.point, a.context)
               /\ a.type = "constraint" => JoinedIn(after, a.from, a.to, a.context)
               /\ a.type = "fact" =>
                      /\ a.during # Null => IntervalIn(after, a.during, a.context)
                      /\ a.observed # Null => PointIn(after, a.observed, a.context)
                      /\ a.asserted # Null => PointIn(after, a.asserted, a.context)
    <2>1. CASE a \in Assertions(run)
      BY <1>3, <2>1 DEF AllResolve
    <2>2. CASE a = e
      BY <1>3, <1>4, <2>2 DEF Accepts, Refers
    <2>. QED
      BY <1>1, <1>6, <2>1, <2>2, Growth
  <1>. QED
    BY <1>5, <1>6 DEF AllResolve

LEMMA PrefixesCorrect == Spec => []PrefixesResolve
  <1>1. Init => PrefixesResolve
    <2>1. ASSUME Init PROVE AllResolve(SubSeq(events, 1, 0))
      <3>1. SubSeq(events, 1, 0) = <<>>
        BY <2>1, SubSeqEmpty, EmptySeq DEF Init
      <3>2. Events(<<>>) = {}
        BY EmptySeq DEF Events
      <3>. QED
        BY <3>1, <3>2 DEF AllResolve, Intervals, Assertions
    <2>2. Init => Len(events) = 0
      BY EmptySeq DEF Init
    <2>3. 0..0 = {0}
      OBVIOUS
    <2>. QED
      BY <2>1, <2>2, <2>3 DEF PrefixesResolve
  <1>2. TypeOK /\ PrefixesResolve /\ [Next]_events => PrefixesResolve'
    <2>1. ASSUME TypeOK, PrefixesResolve, Next, NEW cut \in 0..Len(events')
          PROVE  AllResolve(SubSeq(events', 1, cut))
      <3>1. PICK e : Accepted(e)
        BY <2>1, NextAccepts
      <3>2. /\ events \in Seq(Event) /\ e \in Event /\ events' = Append(events, e)
            /\ Accepts(events, e)
        BY <2>1, <3>1 DEF TypeOK, Accepted, Accepts
      <3>3. Len(events) \in Nat /\ Len(events') = Len(events) + 1 /\ events' \in Seq(Event)
        BY <3>2, AppendProperties, LenProperties
      <3>4. CASE cut \in 0..Len(events)
        <4>1. SubSeq(events', 1, cut) = SubSeq(events, 1, cut)
          <5>1. events' = events \o <<e>> /\ <<e>> \in Seq(Event)
            BY <3>2, AppendIsConcat
          <5>2. CASE cut = 0
            BY <5>2, SubSeqEmpty
          <5>3. CASE cut > 0
            <6>1. 1 \in 1..Len(events) /\ cut \in 1..Len(events)
              BY <3>3, <3>4, <5>3
            <6>. QED
              BY <3>2, <5>1, <6>1, SubSeqOfConcat1
          <5>. QED
            BY <3>3, <3>4, <5>2, <5>3
        <4>. QED
          BY <2>1, <3>4, <4>1 DEF PrefixesResolve
      <3>5. CASE cut = Len(events) + 1
        <4>1. SubSeq(events', 1, cut) = events' /\ SubSeq(events, 1, Len(events)) = events
          BY <3>2, <3>3, <3>5, SubSeqFull
        <4>2. AllResolve(events)
          <5>1. Len(events) \in 0..Len(events)
            BY <3>3
          <5>2. AllResolve(SubSeq(events, 1, Len(events)))
            BY <2>1, <5>1 DEF PrefixesResolve
          <5>. QED
            BY <4>1, <5>2
        <4>. QED
          BY <3>2, <4>1, <4>2, AcceptedResolves
      <3>. QED
        BY <2>1, <3>3, <3>4, <3>5
    <2>. QED
      BY <2>1 DEF PrefixesResolve
  <1>. QED
    BY <1>1, <1>2, RunTyped, PTL DEF Spec

\* What a context holds refers to what it holds: a graph can be built.
THEOREM ContextsResolve == Spec => []ReferencesResolve
  <1>1. PrefixesResolve => ReferencesResolve
    <2>1. ASSUME PrefixesResolve, NEW cut \in 0..Len(events), NEW c \in Contexts
          PROVE  LET state == ProjectionOf(events, cut, c)
                     Holds(id) == \E p \in state.points : p.id = id
                     Joined(x, y) ==
                         \E p, q \in state.points : p.id = x /\ q.id = y /\ p.axis = q.axis
                 IN /\ \A i \in state.intervals : Joined(i.start, i.end)
                    /\ \A a \in state.coordinates : Holds(a.point)
                    /\ \A a \in state.constraints : Joined(a.from, a.to)
                    /\ \A a \in state.facts :
                           /\ a.during # Null => \E i \in state.intervals : i.id = a.during
                           /\ a.observed # Null => Holds(a.observed)
                           /\ a.asserted # Null => Holds(a.asserted)
      <3> DEFINE prefix == SubSeq(events, 1, cut)
                 state == ProjectionOf(events, cut, c)
      <3>1. AllResolve(prefix)
        BY <2>1 DEF PrefixesResolve
      <3>2. /\ state.points = {e \in Points(prefix) : e.context = c}
            /\ state.intervals = {e \in Intervals(prefix) : e.context = c}
            /\ \A a \in state.coordinates :
                   a \in Assertions(prefix) /\ a.context = c /\ a.type = "coordinate"
            /\ \A a \in state.constraints :
                   a \in Assertions(prefix) /\ a.context = c /\ a.type = "constraint"
            /\ \A a \in state.facts :
                   a \in Assertions(prefix) /\ a.context = c /\ a.type = "fact"
        BY DEF ProjectionOf, Active
      <3>. HIDE DEF prefix, state
      <3>. QED
        BY <3>1, <3>2 DEF AllResolve, PointIn, IntervalIn, JoinedIn, state
    <2>. QED
      BY <2>1 DEF ReferencesResolve
  <1>. QED
    BY <1>1, PrefixesCorrect, PTL

=============================================================================
