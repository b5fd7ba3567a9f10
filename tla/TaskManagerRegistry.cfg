SPECIFICATION Spec
CONSTANTS
    Runs = {r1, r2}
    MaxConcurrency = 1
INVARIANT RegistryReleased
