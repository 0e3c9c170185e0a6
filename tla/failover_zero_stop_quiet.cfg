\* retries = 0 with stop(): does the strategy stay quiet after stop()?
CONSTANTS
    N <- MCN
    Retries = 0
    Reachable <- MCAllPools
    Failing <- MCAllPools
    MaxDrops = 2
    MaxStops = 1
SPECIFICATION Spec
INVARIANT StoppedStaysQuiet
