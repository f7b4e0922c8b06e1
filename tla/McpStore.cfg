\* Two processes race, retry and create, through one fault.
SPECIFICATION StoreSpec
CONSTANTS
    idA = idA  idB = idB  v = v  w = w
    single = single  pair = pair  none = none  relabelled = relabelled
    contract1 = contract1  contract2 = contract2  d1 = d1  r1 = r1
CONSTANTS
    Contracts = {contract1, contract2}
    Drafts <- MCDrafts
    Proposals = {single, relabelled, pair, none}
    CompiledEvents <- MCCompiled
    Decisions = {d1, d2}
    Procs = {p1, p2}
    Operators = {p1, p2}
    Writers = {p1, p2}
    Runs = {r1, r2}
    MaxEvents = 2
    MaxRuns = 1
    MaxFaults = 1
    NoProposal = NoProposal
    Foreign = Foreign
    Torn = Torn
    NoRun = NoRun
    Catalog = Catalog
SYMMETRY Symmetry
INVARIANTS LoadedIsCurrent StoreReadable AcknowledgedSurvive AlreadyIsTrue RunLimit
PROPERTIES RetriesRecognised ImplementsRunLog
