\* Two exports of one failed attempt with one kill, against what the
\* documentation says of a published directory.
SPECIFICATION ExportSpec
CONSTANTS
    attempt1 = attempt1  attempt2 = attempt2  p3 = p3
CONSTANTS
    Publishers = {p1}
    AttemptOf <- MCAttemptOf
    MaxClaims = 0
    MaxInterruptions = 0
    Nobody = Nobody
CONSTANTS
    Exporters = {p1, p2}
    FailedAttempt <- MCFailedAttempt
    ArtifactFiles = {1, 2}
    MaxExportClaims = 3
    MaxKills = 1
    NoOne = NoOne
CHECK_DEADLOCK FALSE
INVARIANT ReportedStays
