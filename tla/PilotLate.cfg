\* Two processes resume one phase, with one fault and nobody else at the run.
SPECIFICATION Spec
CONSTANTS
    Processes = {p1, p2}
    Null = Null
    MaxFaults = 1
    MaxOutside = 0
CHECK_DEADLOCK FALSE
INVARIANTS AdmissionIsRecovered
