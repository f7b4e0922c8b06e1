---------------------------- MODULE MCEvaluation ----------------------------
(***************************************************************************)
(* The two benchmarks, each explored by itself.  The case has two points   *)
(* and an assertion about one of them; the adapter fails in every way, and *)
(* a model proposes one of a few changes.                                   *)
(***************************************************************************)
EXTENDS ProposalEval, InterfaceEval

CONSTANTS
    ContextA, AxisT,
    Messages    \* what an error may say: "plain", "control" or "unpaired" characters

VARIABLE benchmark

evaluationVars == <<benchmark, evalVars, interfaceVars>>

Open == [minimum |-> 1, maximum |-> Null]
Closed == [minimum |-> 1, maximum |-> 3]
Early == [minimum |-> Null, maximum |-> -3]

MCSafe == 3

MCBounds == {Open, Closed}

Setup ==
    <<[type |-> "point", id |-> <<"p">>, context |-> ContextA, axis |-> AxisT],
      [type |-> "coordinate", id |-> <<"a">>, context |-> ContextA, point |-> <<"p">>,
       bounds |-> Open, supersedes |-> {}]>>

MCSetups == {Setup}

AskAt(cut) ==
    [type |-> "context", target |-> [type |-> "context", left |-> ContextA, right |-> Null],
     cut |-> cut]

----------------------------------------------------------------------------
(* The proposal benchmark                                                  *)

MCOccurrences ==
    [e \in {"first", "second"} |-> [q \in {"once", "often"} |-> IF q = "once" THEN 1 ELSE 2]]

MCEvidenceAt == <<{"first"}, {"first"}, {"first"}>>

Change(type, assertion, quote, bounds) ==
    [type |-> type, bounds |-> bounds, assertion |-> assertion,
     target |-> IF type = "retraction" THEN Null
                ELSE [type |-> "point", left |-> <<"p">>, right |-> Null],
     supports |-> <<[evidence |-> "first", quote |-> quote]>>]

MCSupportLists == {<<[evidence |-> "first", quote |-> q]>> : q \in {"once", "often"}}

\* One that applies once, one that never compiles, one that revises what may be
\* gone, one that takes something back, one too many, and none.
MCProposals ==
    {[changes |-> cs, query |-> AskAt(Null)] :
        cs \in {<<Change("coordinate", Null, "once", Open)>>,
                <<Change("coordinate", Null, "often", Open)>>,
                <<Change("coordinate", <<"a">>, "once", Open)>>,
                <<Change("retraction", <<"a">>, "once", Null)>>,
                <<Change("coordinate", Null, "once", Open), Change("coordinate", Null, "once", Closed)>>,
                <<>>}}

Envelopes ==
    [kind : {"error"}, usage : {"absent", "good", "bad"}, exact : BOOLEAN, request : BOOLEAN,
     formed : BOOLEAN, scope : {"run", "observation"}, code : {"provider.http-429"},
     message : Messages]

\* Envelopes with more than one thing wrong are left out, and a message that is not kept
\* comes with nothing else.
MCAnswers ==
    [kind : {"process"}, code : {"adapter.start", "adapter.timeout"}]
    \cup {[kind |-> "text"], [kind |-> "value"]}
    \cup {e \in Envelopes :
             /\ Cardinality({f \in {"exact", "request", "formed"} : ~e[f]}) =< 1
             /\ e.message # "plain" =>
                    e.exact /\ e.request /\ e.formed /\ e.scope = "observation" /\ e.usage = "absent"
             /\ e.scope = "run" => e.exact /\ e.request /\ e.formed /\ e.usage # "good"}
    \cup [kind : {"proposal"}, usage : {"good"}, proposal : MCProposals \cup {Null}]
    \cup {[kind |-> "proposal", usage |-> u, proposal |-> p] :
             u \in {"absent", "bad"}, p \in {q \in MCProposals : q.changes = <<>>}}

----------------------------------------------------------------------------
(* The interface benchmark                                                 *)

MCCutOf == [e \in {"first", "second"} |-> IF e = "first" THEN 1 ELSE 2]

Says(id, refs) ==
    [event |-> [type |-> "coordinate", id |-> <<id>>, context |-> ContextA, point |-> <<"p">>,
                bounds |-> Open, supersedes |-> {}],
     refs |-> refs]

TakesBack == [event |-> [type |-> "retraction", assertion |-> <<"a">>], refs |-> {"first"}]

Declares ==
    [event |-> [type |-> "point", id |-> <<"r">>, context |-> ContextA, axis |-> AxisT], refs |-> {}]

\* The other point ends so early that its difference from one after 1 is no safe integer.
FarAway ==
    [event |-> [type |-> "coordinate", id |-> <<"f">>, context |-> ContextA, point |-> <<"q">>,
                bounds |-> Early, supersedes |-> {}],
     refs |-> {"first"}]

\* The setup of the interface benchmark has a second point.
InterfaceSetup ==
    Setup \o <<[type |-> "point", id |-> <<"q">>, context |-> ContextA, axis |-> AxisT]>>

\* What should be recorded is too far apart at the last cut.
MCGold == << <<TakesBack.event>>, <<Says("g", {"second"}).event>>, <<FarAway.event>> >>

\* safeNumber, for the difference of two points of which one has only least and the other
\* only greatest coordinates.
MCOverflows(run, query) ==
    /\ query.target.type = "difference"
    /\ \E a, b \in Active(SubSeq(run, 1, query.cut)) :
           /\ a.point = query.target.left /\ b.point = query.target.right
           /\ a.bounds.minimum # Null /\ b.bounds.maximum # Null
           /\ b.bounds.maximum - a.bounds.minimum < -MCSafe

\* Nothing, something of each cut, something back, a declaration first or after evidence of
\* the second cut, evidence out of order, one claim twice, points too far apart, for good or
\* for one cut, and more events than the continuity budget.
MCDeltas ==
    {<<>>, <<Says("b", {"first"})>>, <<Says("d", {"second"})>>, <<TakesBack>>, <<Declares>>,
     <<FarAway>>,
     <<Says("b", {"second"}), Declares>>,
     <<Says("b", {"second"}), Says("c", {"first"})>>, <<Says("b", {"first"}), Says("c", {"first"})>>,
     <<FarAway, TakesBack>>}

Between ==
    [type |-> "difference",
     target |-> [type |-> "difference", left |-> <<"p">>, right |-> <<"q">>], cut |-> 4]

MCInterfaceAnswers ==
    [kind : {"process"}, code : {"adapter.start", "adapter.timeout"}]
    \cup [kind : {"error"}, scope : {"run"}, code : {"provider.http-429"}, message : {"plain"}]
    \cup {e \in [kind : {"error"}, scope : {"observation"},
                  code : {"provider.http-429", "state.over-budget"}, message : Messages] :
              e.code = "state.over-budget" => e.message = "plain"}
    \cup {[kind |-> "junk"], [kind |-> "answer"]}
    \cup {[kind |-> "memory", memory |-> "short", fits |-> TRUE],
          [kind |-> "memory", memory |-> "long", fits |-> FALSE]}
    \cup [kind : {"delta"}, delta : MCDeltas, query : {AskAt(2)}]
    \cup [kind : {"delta"}, delta : {<<>>, <<Says("b", {"first"})>>}, query : {AskAt(9)}]
    \cup [kind : {"delta"}, delta : {<<FarAway>>, <<FarAway, TakesBack>>}, query : {Between}]

----------------------------------------------------------------------------

\* A benchmark that is not explored has ended before it began.
ProposalRests ==
    /\ BoundaryInit
    /\ lines = <<>> /\ phase = "aborted" /\ damage = 0
    /\ score = [cut |-> 1, at |-> Trajectory, continuous |-> TRUE, counted |-> {}]

InterfaceRests ==
    /\ arm = "direct" /\ forced = FALSE
    /\ carried = [memory |-> "", events |-> SetupEvents, cuts |-> <<>>]
    /\ records = <<>> /\ verdict = "aborted"

EvaluationInit ==
    \/ benchmark = "proposal" /\ EvalInit /\ InterfaceRests
    \/ benchmark = "interface" /\ InterfaceInit /\ ProposalRests

EvaluationNext ==
    /\ UNCHANGED benchmark
    /\ \/ benchmark = "proposal" /\ EvalNext /\ UNCHANGED interfaceVars
       \/ benchmark = "interface" /\ InterfaceNext /\ UNCHANGED evalVars

EvaluationSpec == EvaluationInit /\ [][EvaluationNext]_evaluationVars

\* Neither scorer counts what a line merely claims: of all lines with the same request and
\* answer it takes those that claim what the runner found. (score-model-proposal-eval.mjs and
\* score-model-interface-eval.mjs replay the answers.)
OnlyReproducedCounts == OnlyTheOutcomeScores /\ OnlyReproducedScores
=============================================================================
