----------------------------- MODULE MCReducer -----------------------------
(***************************************************************************)
(* Instances of Reducer and Migration for TLC.                             *)
(***************************************************************************)
EXTENDS Migration

CONSTANTS build, deploy, unlisted, passed, approved, ci, review, constructor, label

\* Two bindings under one reference.
P == [ref |-> label, digest |-> 1]
Q == [ref |-> label, digest |-> 2]
MCPolicies == {P, Q}

\* The first contract emits a command for both checkpoints, of which deploy needs more claims.
Emitting(requirements, policy) ==
    [requirements |-> requirements, policy |-> policy, emits |-> TRUE]
Silent(requirements, policy) ==
    [requirements |-> requirements, policy |-> policy, emits |-> FALSE]
TwoEmit ==
    [c \in {build, deploy} |-> IF c = build THEN Emitting({passed}, P)
                              ELSE Emitting({passed, approved}, P)]
OneEmits ==
    [c \in {build, deploy} |-> IF c = build THEN Emitting({approved}, P) ELSE Silent({passed}, Q)]
MCContracts == {TwoEmit, OneEmits}

\* Evidence with one claim, with both, and a second record under the same ID.
Ev(id, claims, policy) == [id |-> id, claims |-> claims, policy |-> policy]
MCEvidence ==
    {Ev(ci, {passed}, P), Ev(ci, {approved}, P),
     Ev(review, {passed, approved}, P), Ev(review, {approved}, Q)}
TwoEvidence == {Ev(ci, {passed}, P), Ev(review, {passed, approved}, P)}

Asking(c, refs) == [checkpoint |-> c, refs |-> refs, policyRef |-> label]
MCEvaluations ==
    {Asking(build, <<ci>>), Asking(build, <<review>>),
     Asking(deploy, <<ci, review>>), Asking(deploy, <<review>>),
     Asking(build, <<constructor, ci>>), Asking(unlisted, <<>>)}
FewEvaluations == {Asking(build, <<ci>>), Asking(deploy, <<ci>>), Asking(deploy, <<review>>)}

\* Receipt IDs are only compared.
ReceiptSymmetry == Permutations(ReceiptIds)

----------------------------------------------------------------------------
\* What the runs go through: short streams of either version with a repeated ID, or longer
\* streams, of two commands and their receipts.
VARIABLE scenario

ScenarioVars == <<vars, scenario>>

\* The runs' receipts differ in whether they say the command succeeded.
Statuses ==
    {log[i].receipt.status : i \in {j \in DOMAIN log : log[j].type = "receipt.recorded"}}

Short ==
    /\ Len(log) <= 4
    /\ Statuses \subseteq {"succeeded"}

\* The longer streams have distinct IDs and little else than receipts to choose.
Plain ==
    /\ Repeats = 0
    /\ bound.version = "v0alpha2"
    /\ \A i \in DOMAIN log :
          CASE log[i].type = "evidence.recorded" -> log[i].evidence \in TwoEvidence
            [] log[i].type = "checkpoint.evaluated" ->
                  Asking(log[i].checkpoint, log[i].refs) \in FewEvaluations
            [] OTHER -> log[i].receipt.status # "indeterminate"

InScenario == IF scenario = "short" THEN Short ELSE Plain

ScenarioInit == Init /\ scenario \in {"short", "receipts"} /\ InScenario

ScenarioNext == Next /\ UNCHANGED scenario /\ InScenario'

ReducerSpec == ScenarioInit /\ [][ScenarioNext]_ScenarioVars

============================================================================
