----------------------------- MODULE MCReasoner -----------------------------
(***************************************************************************)
(* The temporal kernel on small instances.  "subject" says which of them a *)
(* behaviour explores: the projection of any run of two contexts, or the   *)
(* reasoner on runs that begin with given declarations and grow by         *)
(* assertions of a menu.  Identifiers are numbers in order of declaration, *)
(* since a projection only compares them.                                  *)
(***************************************************************************)
EXTENDS Schedules

CONSTANTS ContextA, ContextB

VARIABLE subject

TwoAxes == {-1, -2}

SmallBounds == {[minimum |-> 1, maximum |-> Null], [minimum |-> 1, maximum |-> 0]}

Point(id) == [type |-> "point", id |-> id, context |-> ContextA, axis |-> -1]

IntervalOf(id, start, end) ==
    [type |-> "interval", id |-> id, context |-> ContextA, start |-> start, end |-> end]

AtLeast(n) == [minimum |-> n, maximum |-> Null]

Between(m, n) == [minimum |-> m, maximum |-> n]

----------------------------------------------------------------------------

\* What a run begins with, how long it grows, what it may assert and what is asked.
Instances ==
    [projection |->
        [declared |-> <<>>, room |-> 5, coordinates |-> {}, constraints |-> {}, asked |-> {}],
     metric |->
        [declared |-> <<Point(1), Point(2), Point(3)>>, room |-> 6,
         coordinates |-> {<<1, Between(1, 2)>>, <<3, AtLeast(2)>>},
         constraints |-> {<<1, 2, AtLeast(2)>>, <<2, 3, Between(1, 2)>>, <<3, 1, AtLeast(-1)>>,
                          <<2, 1, Between(0, 0)>>},
         asked |-> {"context.consistency", "difference.bounds", "point.relations"}],
     intervals |->
        [declared |-> <<Point(1), Point(2), Point(3), Point(4), IntervalOf(5, 1, 2),
                        IntervalOf(6, 3, 4)>>, room |-> 9,
         coordinates |-> {},
         constraints |-> {<<1, 3, Between(0, 0)>>, <<2, 3, AtLeast(1)>>, <<4, 2, AtLeast(1)>>,
                          <<1, 3, AtLeast(1)>>, <<2, 4, Between(0, 0)>>, <<3, 2, AtLeast(1)>>},
         asked |-> {"interval.relations"}]]

Explored == Instances[subject]

Fresh == Min(ObjectIds \ TemporalIds(events))

GrowFreely ==
    /\ subject = "projection"
    /\ \/ \E c \in Contexts : Add(Fresh, c)
       \/ \E id \in Ids(Assertions(events)) : Retract(id)

GrowFromMenu ==
    /\ subject # "projection"
    /\ \/ \E m \in Explored.coordinates : AssertCoordinate(Fresh, ContextA, m[1], m[2], {})
       \/ \E m \in Explored.constraints : AssertConstraint(Fresh, ContextA, m[1], m[2], m[3], {})
       \/ \E id \in Ids(Assertions(events)) : Retract(id)

Grow ==
    /\ Len(events) < Explored.room
    /\ GrowFreely \/ GrowFromMenu
    /\ UNCHANGED answer

\* One of the two orders of a pair, since the other order mirrors the answer.
AskFromMenu ==
    /\ subject # "projection"
    /\ LET asked == TemporalIds(events) \cup {Null}
       IN \E q \in [type : Explored.asked, context : {ContextA}, cut : 0..Len(events),
                    left : asked, right : asked] :
              /\ q.left # Null /\ q.right # Null => q.left =< q.right
              /\ Ask(q)

KernelInit ==
    /\ subject \in DOMAIN Instances
    /\ events = Explored.declared /\ answer = Null

KernelSpec == KernelInit /\ [][(Grow \/ AskFromMenu) /\ UNCHANGED subject]_<<vars, subject>>

=============================================================================
