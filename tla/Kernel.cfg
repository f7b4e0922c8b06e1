\* Every run of five events in two contexts on two axes; questions about three
\* points and up to three more events, and about two intervals and three more.
SPECIFICATION KernelSpec
CONSTANTS
    ContextA = ContextA
    ContextB = ContextB
    Contexts = {ContextA, ContextB}
    Axes <- TwoAxes
    ObjectIds = {1, 2, 3, 4, 5, 6, 7, 8, 9}
    BoundChoices <- SmallBounds
    Null = Null
    Missing = Null
    MaxEvents = 9
    SafeMax = 2
CHECK_DEADLOCK FALSE
INVARIANTS ReferencesResolve AnswersVerify
PROPERTIES ContextsIsolated StaleStaysOut AnswersTrue NothingFalseVerifies
