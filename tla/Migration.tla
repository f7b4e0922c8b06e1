----------------------------- MODULE Migration -----------------------------
(***************************************************************************)
(* migrateRunV0Alpha1ToV0Alpha2: a v0alpha1 run document is rewritten for  *)
(* v0alpha2 under an explicit policy for each checkpoint. The policy of a  *)
(* piece of evidence is that of the checkpoints which refer to it anywhere *)
(* in the document, also later.                                            *)
(***************************************************************************)
EXTENDS Reducer, FiniteSets

CONSTANT NoPolicy   \* no fallback for unreferenced evidence

ASSUME MigrationConstants == NoPolicy \notin Policies

\* The evaluations of a document that refer to a piece of evidence.
Referring(doc, id) ==
    {i \in DOMAIN doc : doc[i].type = "checkpoint.evaluated" /\ id \in Range(doc[i].refs)}

\* bindCheckpointPolicies: every evaluation is of a checkpoint of the contract, under the label
\* of the policy chosen for it.
BindsCheckpoints(doc, policies) ==
    \A i \in DOMAIN doc :
        doc[i].type = "checkpoint.evaluated" =>
            /\ doc[i].checkpoint \in DOMAIN policies
            /\ doc[i].policyRef = policies[doc[i].checkpoint].ref

\* Recorded evidence that nothing refers to needs a fallback.
FallbackGiven(doc, fallback) ==
    \A i \in DOMAIN doc :
        doc[i].type = "evidence.recorded" /\ Referring(doc, doc[i].evidence.id) = {}
            => fallback # NoPolicy

\* Mutation of BindsEvidence: references under several policies are not refused.
BindsAnyEvidence(doc, policies, fallback) == FallbackGiven(doc, fallback)

\* bindEvidencePolicies: no evidence is referred to under two policies.
BindsEvidence(doc, policies, fallback) ==
    /\ \A id \in EvidenceIds : \A i, j \in Referring(doc, id) :
          policies[doc[i].checkpoint] = policies[doc[j].checkpoint]
    /\ FallbackGiven(doc, fallback)

\* The last evaluation that refers to it binds the evidence.
EvidencePolicy(doc, policies, fallback, id) ==
    LET referring == Referring(doc, id)
    IN IF referring = {} THEN fallback ELSE policies[doc[Max(referring)].checkpoint]

MigrateEvent(doc, policies, fallback, e) ==
    IF e.type = "evidence.recorded"
    THEN [e EXCEPT !.evidence.policy = EvidencePolicy(doc, policies, fallback, e.evidence.id)]
    ELSE e

Migrated(doc, policies, fallback) ==
    [i \in DOMAIN doc |-> MigrateEvent(doc, policies, fallback, doc[i])]

MigratedContract(contract, policies) ==
    [c \in DOMAIN contract |-> [contract[c] EXCEPT !.policy = policies[c]]]

----------------------------------------------------------------------------
\* A decision of the migrated run repeats the one it was made from, under the policy whose
\* reference the event gave.
SameDecision(d, m) ==
    /\ d.status = m.status
    /\ d.status # "pending" =>
          d.refs = m.refs /\ d.missing = m.missing /\ d.policy = m.policy.ref

\* The states agree in everything but where the policies come from.
SameHistory(s, t) ==
    /\ s.nextSequence = t.nextSequence /\ s.eventIds = t.eventIds
    /\ s.findings = t.findings
    /\ s.commands = t.commands /\ s.receipts = t.receipts
    /\ DOMAIN s.evidence = DOMAIN t.evidence
    /\ \A id \in DOMAIN s.evidence : s.evidence[id].claims = t.evidence[id].claims
    /\ \A c \in DOMAIN s.checkpoints : SameDecision(s.checkpoints[c], t.checkpoints[c])

\* No evaluation names an inherited ID: with one, the migrated run may not replay at all.
PlainNames(doc) == \A id \in Inherited : Referring(doc, id) = {}

\* A v0alpha1 document (its event IDs are unique) that migrates, under whatever policies,
\* replays to the same decisions, commands, receipts and findings.
MigrationKeepsHistory ==
    bound.version = "v0alpha1" /\ Repeats = 0 /\ PlainNames(log) =>
        \A policies \in [DOMAIN bound.contract -> Policies], fallback \in Policies \cup {NoPolicy} :
            BindsCheckpoints(log, policies) /\ BindsEvidence(log, policies, fallback) =>
                SameHistory(run, Replay([version |-> "v0alpha2",
                                         contract |-> MigratedContract(bound.contract, policies)],
                                        Migrated(log, policies, fallback)))

============================================================================
