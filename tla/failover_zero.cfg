\* retries = 0: the deferred-connect cascade, with one stop() and two drops.
CONSTANTS
    N <- MCN
    Retries = 0
    Reachable <- MCAllPools
    Failing <- MCAllPools
    MaxDrops = 2
    MaxStops = 1
SPECIFICATION Spec
INVARIANT TypeOK
INVARIANT ExclusiveActive
INVARIANT ActiveIsCurrent
