\* The same benchmarks against what the documentation says of a published file.
SPECIFICATION EvaluationSpec
CONSTANTS
    ContextA = ContextA
    AxisT = AxisT
    Messages = {"plain"}
    Contexts = {ContextA}
    Axes = {AxisT}
    ObjectIds = {}
    BoundChoices <- MCBounds
    Null = Null
    MaxEvents = 8
    Evidence = {"first", "second"}
    Quotes = {"once", "often"}
    Occurrences <- MCOccurrences
    MaxChanges = 2
    MaxSupports = 2
    ChangesCap = 2
    SupportsCap = 2
    SupportLists <- MCSupportLists
CONSTANTS
    Setups <- MCSetups
    EvidenceAt <- MCEvidenceAt
    OddReferences = {}
    Answers <- MCAnswers
    ContinuityLimit = 2
    MaxDamage = 1
CONSTANTS
    Arms = {"direct", "narrative-memory", "structured-extraction", "timeline"}
    SetupEvents <- InterfaceSetup
    GoldDeltas <- MCGold
    CutOf <- MCCutOf
    InterfaceAnswers <- MCInterfaceAnswers
    MaxDelta = 2
    StateBudget = 2
    Overflows <- MCOverflows
CHECK_DEADLOCK FALSE
INVARIANT PublishedScores
