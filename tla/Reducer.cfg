\* Both versions over streams of four events, one of them with a repeated ID, and v0alpha2 over
\* streams of six: two commands and their receipts.
SPECIFICATION ReducerSpec
CONSTANTS
    build = build  deploy = deploy  unlisted = unlisted
    passed = passed  approved = approved  ci = ci  review = review
    constructor = constructor  label = label
CONSTANTS
    Checkpoints = {build, deploy, unlisted}
    Claims = {passed, approved}
    Policies <- MCPolicies
    EvidenceIds = {ci, review, constructor}
    Contracts <- MCContracts
    Inherited = {constructor}
    NoPolicy = NoPolicy
    ReceiptIds = {r1, r2}
    Evidence <- MCEvidence
    Evaluations <- MCEvaluations
    Versions = {"v0alpha1", "v0alpha2"}
    MaxEvents = 6
    MaxRepeats = 1
SYMMETRY ReceiptSymmetry
CHECK_DEADLOCK FALSE
INVARIANTS StateMatchesLog MigrationKeepsHistory ReceiptsJoin OkMeansClean
