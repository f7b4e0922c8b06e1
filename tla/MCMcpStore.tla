----------------------------- MODULE MCMcpStore -----------------------------
(***************************************************************************)
(* Instances of McpStore and of its refinement of RunLog for TLC.          *)
(***************************************************************************)
EXTENDS McpStoreRefinement, TLC

CONSTANTS idA, idB, v, w, single, pair, none, relabelled, contract1, contract2, d1, r1

\* Two event IDs; idA with two different bodies.
MCDrafts == {[id |-> idA, body |-> v], [id |-> idA, body |-> w], [id |-> idB, body |-> v]}

OneBody == {d \in MCDrafts : d.body = v}

OneDraft == {[id |-> idA, body |-> v]}

\* The candidate events of the proposals: one event, the same event from another proposal, a
\* batch of two, and none.
MCCompiled ==
    [m \in Proposals |->
        CASE m = pair -> <<[id |-> idA, body |-> v], [id |-> idB, body |-> v]>>
          [] m = none -> <<>>
          [] OTHER -> <<[id |-> idA, body |-> v]>>]

Symmetry == Permutations(Procs)

----------------------------------------------------------------------------
\* What the calls of a behaviour are: "race", two processes append, admit and retry one event
\* or a batch on one run; "retry", one call at a time of every content and decision; "catalog",
\* two processes create different and equal runs in a store with room for one.
VARIABLE scenario

ScenarioVars == <<vars, scenario>>

OneRun(r) == /\ \A s \in Runs \ {r} : file[s] = NoRun /\ s \notin locks
             /\ \A p \in Procs : At(p, "idle") \/ Of(p).run = r

\* The requests of two racing processes: little content, so that every order is reached. After
\* a fault, one event and one batch.
Racing(q) ==
    CASE q.kind = "append" ->
            /\ q.draft \in IF faults = 0 THEN OneBody ELSE OneDraft
            /\ q.decision = d1
      [] q.kind = "admit" -> q.proposal = pair /\ q.reviewed = pair /\ q.decision = d1
      [] OTHER -> TRUE

InScenario ==
    CASE scenario = "race" ->
            /\ OneRun(r1) /\ faults <= 1
            /\ \A p \in Procs : At(p, "idle") \/ Racing(Of(p))
            /\ \A p \in Procs : Creating(p) => Of(p).contract = contract1
      [] scenario = "retry" ->
            /\ OneRun(r1) /\ faults = 0
            /\ \A p, q \in Procs : At(p, "idle") \/ At(q, "idle") \/ p = q
            /\ \A p \in Procs : Creating(p) => Of(p).contract = contract1
      [] scenario = "catalog" ->
            /\ faults <= 1
            /\ \A p \in Procs : At(p, "idle") \/ Creating(p)

ScenarioInit == Init /\ scenario \in {"race", "retry", "catalog"}

ScenarioNext == Next /\ UNCHANGED scenario /\ InScenario'

StoreSpec == ScenarioInit /\ [][ScenarioNext]_ScenarioVars

\* FairSpec: any call of the instance.
FaultInit == Init /\ scenario = "faults"

FaultNext == Next /\ UNCHANGED scenario

FaultSpec ==
    /\ FaultInit
    /\ [][FaultNext]_ScenarioVars
    /\ \A p \in Procs : WF_vars(Step(p))

============================================================================
