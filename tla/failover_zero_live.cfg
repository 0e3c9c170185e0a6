\* retries = 0, four pools, only pool 1 can log in, no stop(): the cascade
\* reaches pool 1 and, after each drop, wraps through pools 2, 3, 0 to it.
CONSTANTS
    N <- MCN4
    Retries = 0
    Reachable <- MCMiddleReachable
    Failing <- MCOuterFailing4
    MaxDrops = 4
    MaxStops = 0
SPECIFICATION FairSpec
PROPERTY ConnectLeadsToActive
