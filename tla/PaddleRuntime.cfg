SPECIFICATION FairSpec
CONSTANTS
    Parses = {p1, p2, p3, p4}
    FileCalls = {f1}
    MaxRuns = 2
    MaxInference = 2
    Workers = 3
INVARIANTS
    SlotsConserved
    OnePipeline
PROPERTIES
    FileCallsStart
