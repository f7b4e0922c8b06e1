\* Three cuts over every answer of the adapter, with one line lost or doubled.
SPECIFICATION EvaluationSpec
CONSTANTS
    ContextA = ContextA
    AxisT = AxisT
    Messages = {"plain", "control", "unpaired"}
    Contexts = {ContextA}
    Axes = {AxisT}
    ObjectIds = {}
    BoundChoices <- MCBounds
    Null = Null
    MaxEvents = 8
    Evidence = {"first", "second"}
    Quotes = {"once", "often"}
    Occurrences <- MCOccurrences
    MaxChanges = 2
    MaxSupports = 2
    ChangesCap = 2
    SupportsCap = 2
    SupportLists <- MCSupportLists
CONSTANTS
    Setups <- MCSetups
    EvidenceAt <- MCEvidenceAt
    OddReferences = {}
    Answers <- MCAnswers
    ContinuityLimit = 2
    MaxDamage = 1
CONSTANTS
    Arms = {"direct", "narrative-memory", "structured-extraction", "timeline"}
    SetupEvents <- InterfaceSetup
    GoldDeltas <- MCGold
    CutOf <- MCCutOf
    InterfaceAnswers <- MCInterfaceAnswers
    MaxDelta = 2
    StateBudget = 2
    Overflows <- MCOverflows
CHECK_DEADLOCK FALSE
INVARIANTS RefusedExactly TurnedAwayExactly OnlyReproducedCounts
