CONSTANTS
    g1 = g1
    g2 = g2
    Gateways = {g1, g2}
    Dispatch = Dispatch
    Fallback = Fallback
    Unavailable = Unavailable
    Garbage = Garbage
    Deployments <- MCDeployments
    TTL = 5
    Interval = 1
SPECIFICATION FairSpec
INVARIANTS
    RegistryTypeOK
    DeadLeaveInTime
    KeyOutlivesMisses
PROPERTIES
    FoundAgain
