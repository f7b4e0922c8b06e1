\* Two operators append one event through any two faults; every call returns.
SPECIFICATION FaultSpec
CONSTANTS
    idA = idA  idB = idB  v = v  w = w
    single = single  pair = pair  none = none  relabelled = relabelled
    contract1 = contract1  contract2 = contract2  d1 = d1  r1 = r1
CONSTANTS
    Contracts = {contract1}
    Drafts <- OneDraft
    Proposals = {}
    CompiledEvents <- MCCompiled
    Decisions = {d1}
    Procs = {p1, p2}
    Operators = {p1, p2}
    Writers = {p1, p2}
    Runs = {r1}
    MaxEvents = 1
    MaxRuns = 1
    MaxFaults = 2
    NoProposal = NoProposal
    Foreign = Foreign
    Torn = Torn
    NoRun = NoRun
    Catalog = Catalog
INVARIANTS DefiniteErrorsWroteNothing
PROPERTIES CallsReturn
