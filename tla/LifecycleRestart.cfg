SPECIFICATION Spec
CONSTANTS
    Runs = {r1}
    MaxConcurrency = 1
    Clients = {}
    NoRequest = NoRequest
    Env <- StopOnly
PROPERTY RestartInterrupts
