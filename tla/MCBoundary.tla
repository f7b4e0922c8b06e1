----------------------------- MODULE MCBoundary -----------------------------
(***************************************************************************)
(* A case with two contexts, three points, an interval and an assertion,   *)
(* answered at three cuts.                                                   *)
(***************************************************************************)
EXTENDS ProposalBoundary, TLC

CONSTANTS ContextA, ContextB, AxisT

Point(id, c) == [type |-> "point", id |-> id, context |-> c, axis |-> AxisT]

MCBounds == {[minimum |-> 1, maximum |-> Null], [minimum |-> 1, maximum |-> 0]}

MCSetups ==
    {<<Point(<<"p">>, ContextA), Point(<<"q">>, ContextA), Point(<<"r">>, ContextB),
       [type |-> "interval", id |-> <<"i">>, context |-> ContextA,
        start |-> <<"p">>, end |-> <<"q">>],
       [type |-> "coordinate", id |-> <<"a">>, context |-> ContextA, point |-> <<"p">>,
        bounds |-> [minimum |-> 1, maximum |-> Null], supersedes |-> {}]>>}

\* "once" and "too" are in both texts, "often" is repeated in the first and only
\* the second has "also".
MCOccurrences ==
    [e \in {"first", "second"} |->
        [q \in {"once", "too", "also", "often"} |->
            CASE q \in {"once", "too"} -> 1
              [] q = "often" -> IF e = "first" THEN 2 ELSE 0
              [] q = "also" -> IF e = "first" THEN 0 ELSE 1]]

From(e, q) == [evidence |-> e, quote |-> q]

\* None, one of each evidence, one that is not quoted once, one twice, and more than
\* a schema allows for.
MCSupportLists ==
    {<<>>, <<From("first", "once")>>, <<From("second", "once")>>, <<From("first", "often")>>,
     <<From("second", "once"), From("second", "once")>>,
     <<From("second", "once"), From("second", "too"), From("second", "also")>>}

\* The third cut brings the text of the first again.
MCEvidenceAt == <<{"first"}, {"second"}, {"first"}>>

MCOddReferences ==
    {[type |-> "difference", left |-> <<"p">>, right |-> <<"r">>],
     [type |-> "point", left |-> <<"unknown">>, right |-> Null]}
=============================================================================
