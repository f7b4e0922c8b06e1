\* One phase of two processes with three faults, and both publications with two
\* attempts, of three processes with two interruptions and of three with one.
SPECIFICATION PilotSpec
CONSTANTS
    attempt1 = attempt1  attempt2 = attempt2  p3 = p3
CONSTANTS
    Processes = {p1, p2}
    Null = Null
    MaxFaults = 3
    MaxOutside = 1
CONSTANTS
    Publishers = {p1, p2, p3}
    AttemptOf <- MCAttemptOf
    MaxClaims = 4
    MaxInterruptions = 2
    Nobody = Nobody
CONSTANTS
    Exporters = {p1, p2, p3}
    FailedAttempt <- MCFailedAttempt
    ArtifactFiles = {1, 2}
    MaxExportClaims = 4
    MaxKills = 1
    NoOne = NoOne
CHECK_DEADLOCK FALSE
INVARIANTS WritesAreOwned OutcomeMatchesRun StagingIsKept ReportedIsStable RunningStagingIsKept
PROPERTIES CaptureIsDecided SomethingIsPublished
