---------------------------- MODULE MCProcedures ----------------------------
(***************************************************************************)
(* Components that share nothing, each explored by itself: a release, with *)
(* a package that stays published; the formal attempts of a benchmark,     *)
(* with requests that were paid for; an archive that hosts save, a         *)
(* workflow that hosts signal, and a run catalog that a client pages       *)
(* through.                                                                *)
(***************************************************************************)
EXTENDS Release, EvalAttempts, ArchiveStore, TimelineWorkflow, McpCatalog

CONSTANTS c1, c2, candidate, same, drifted, broken, e1, e2

\* Two final commits that may pack to the same archive, and a candidate.
MCBuilds == c1 :> {same, drifted} @@ c2 :> {same, broken} @@ candidate :> {same}

\* Two events that a state digest cannot tell apart.
MCEffect == e1 :> "one" @@ e2 :> "one"

VARIABLE procedure

proceduresVars ==
    <<procedure, releaseVars, attemptVars, archiveVars, workflowVars, catalogVars>>

\* The first attempt of the benchmark has ended without a decision.
AfterFirst ==
    \E p \in Paths :
        LET first == [attempt |-> 1, claim |-> 0, path |-> p, formal |-> TRUE, over |-> FALSE,
                      checkout |-> Frozen, codes |-> <<"provider.transport">>,
                      events |-> <<"no connection">>]
            decided == Decision(first.codes)
        IN /\ ledger = <<[status |-> "complete", path |-> p, claim |-> first.claim,
                         decision |-> decided, codes |-> first.codes]>>
           /\ files = [q \in Paths |-> IF q = p THEN first ELSE None]
           /\ gates = {[attempt |-> 1, decision |-> decided, events |-> first.events,
                        authoritative |-> FALSE]}
           /\ locked = FALSE /\ checkout = Frozen
           /\ command = [o \in Operators |-> Resting]
           /\ started = 1 /\ moves = 0

\* An attempt is prepared, and nobody has claimed it.
Prepared ==
    /\ ledger = PreparedIn(<<>>) /\ files = [p \in Paths |-> None] /\ gates = {}
    /\ locked = FALSE /\ checkout = Frozen
    /\ command = [o \in Operators |-> Resting]
    /\ started = 1 /\ moves = 0

\* A release that is not explored has nothing to do.
ReleaseRests == ReleaseInit /\ profile = "core" /\ pushes = <<candidate>>

ProceduresInit ==
    /\ ArchiveInit /\ WorkflowInit /\ CatalogInit
    /\ \/ procedure = "release" /\ ReleaseInit /\ AttemptInit
       \/ procedure = "attempts" /\ ReleaseRests /\ (Prepared \/ AfterFirst)
       \/ procedure \in {"archive", "workflow", "catalog"} /\ ReleaseRests /\ AttemptInit

\* The others rest.
Only(name) ==
    /\ procedure = name /\ UNCHANGED procedure
    /\ name = "release" \/ UNCHANGED releaseVars
    /\ name = "attempts" \/ UNCHANGED attemptVars
    /\ name = "archive" \/ UNCHANGED archiveVars
    /\ name = "workflow" \/ UNCHANGED workflowVars
    /\ name = "catalog" \/ UNCHANGED catalogVars

ProceduresNext ==
    \/ Only("release") /\ ReleaseNext
    \/ Only("attempts") /\ AttemptNext
    \/ Only("archive") /\ ArchiveNext
    \/ Only("workflow") /\ WorkflowNext
    \/ Only("catalog") /\ CatalogNext

ProceduresSpec == ProceduresInit /\ [][ProceduresNext]_proceduresVars

\* Operators and paths have no names of their own.
ProceduresSymmetry == Permutations(Operators) \cup Permutations(Paths)
=============================================================================
