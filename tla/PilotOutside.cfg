\* Two processes resume one phase, with one fault and one append from outside.
SPECIFICATION FairSpec
CONSTANTS
    Processes = {p1, p2}
    Null = Null
    MaxFaults = 1
    MaxOutside = 1
PROPERTIES BundleIsCompleted
