SPECIFICATION FairSpec
CONSTANTS
    Runs = {r1, r2, r3, r4}
    MaxConcurrency = 2
INVARIANTS
    PermitsConserved
    NoLostWakeup
PROPERTIES
    NoOvertaking
    EveryWaiterLeaves
