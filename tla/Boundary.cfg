\* Three cuts with up to two changes each, over every proposal.
SPECIFICATION BoundarySpec
CONSTANTS
    ContextA = ContextA
    ContextB = ContextB
    AxisT = AxisT
    Contexts = {ContextA, ContextB}
    Axes = {AxisT}
    ObjectIds = {}
    BoundChoices <- MCBounds
    Null = Null
    MaxEvents = 8
    Evidence = {"first", "second"}
    Quotes = {"once", "too", "also", "often"}
    Occurrences <- MCOccurrences
    MaxChanges = 3
    MaxSupports = 3
    ChangesCap = 2
    SupportsCap = 2
    SupportLists <- MCSupportLists
    Setups <- MCSetups
    EvidenceAt <- MCEvidenceAt
    OddReferences <- MCOddReferences
CHECK_DEADLOCK FALSE
INVARIANTS SchemaAdmitsCompiled 
PROPERTIES EveryChangeCounts
