SPECIFICATION Spec
CONSTANTS
    Runs = {r1}
    MaxConcurrency = 1
    Clients = {c1, c2}
    NoRequest = NoRequest
    Env <- Everything
SYMMETRY ClientSymmetry
INVARIANTS
    RequestedStageKept
PROPERTIES
    ClaimKeepsOutcome
