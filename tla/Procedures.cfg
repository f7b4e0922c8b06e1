\* Three release attempts over two pushes of three commits with a verification
\* meanwhile, and three benchmark commands of two operators on two paths,
\* after the one that the initial states stand for;
\* two archive clients with one fault, five signals from two clients, and a
\* listing with a room of four runs.
SPECIFICATION ProceduresSpec
CONSTANTS
    c1 = c1  c2 = c2  candidate = candidate
    same = same  drifted = drifted  broken = broken
    e1 = e1  e2 = e2
CONSTANTS
    Commits = {c1, c2, candidate}
    Builds <- MCBuilds
    Finalized = {c1, c2}
    Installable = {same, drifted}
    MaxPushes = 2
    MaxAttempts = 3
    Nothing = Nothing
CONSTANTS
    Operators = {o1, o2}
    Paths = {path1, path2}
    Checkouts = {"frozen", "changed"}
    Frozen = "frozen"
    ProviderEvents = {"no connection", "status 401", "answer"}
    RunObservations = 1
    MaxFailures = 0
    MaxCommands = 4
    MaxCheckouts = 1
    None = None
CONSTANTS
    Savers = {p1, p2}
    ArchiveEvents = {e1, e2}
    Effect <- MCEffect
    MaxBytes = 2
    MaxArchiveFaults = 1
    NoArchive = NoArchive
    TornArchive = TornArchive
CONSTANTS
    SignalClients = {p1, p2}
    InitialEvents = 1
    MaxSignals = 5
    NoReport = NoReport
CONSTANTS
    Pagers = {p1}
    FileNames = {1, 2, 3, 4, 5}
    PageLimits = {1, 2}
    MaxListedRuns = 4
    MaxTornReads = 1
    NoCursor = NoCursor
SYMMETRY ProceduresSymmetry
CHECK_DEADLOCK FALSE
INVARIANTS ReportIsDelivered OrderlyRunsReport PagesAreOneCatalog VerifiedIsReleased SuccessIsVerifiable DecidedByClaimant
PROPERTIES GuardedSavesSwap LedgerMovesForward
