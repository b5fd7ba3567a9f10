SPECIFICATION FairSpec
CONSTANTS
    Runs = {r1, r2}
    MaxConcurrency = 1
    Clients = {}
    NoRequest = NoRequest
    Env <- NoDbFault
PROPERTIES
    PollingStopsForGood
    RunningEnds
    ShutdownCompletes
    ExperimentSettles
