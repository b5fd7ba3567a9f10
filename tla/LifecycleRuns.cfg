SPECIFICATION Spec
CONSTANTS
    Runs = {r1, r2}
    MaxConcurrency = 1
    Clients = {c1}
    NoRequest = NoRequest
    Env <- Interruptions
SYMMETRY RunSymmetry
INVARIANTS
    RunningIsOwned
PROPERTIES
    ParseSurvivesDeid
