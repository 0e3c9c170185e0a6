\* retries = 2, four pools, only pool 1 can log in and it never fails, with
\* three drops and one stop(): pool 0 is retried in place, the strategy
\* advances synchronously, and it must get to pool 1 again after a drop or a
\* stop() and connect(), while staying safe and quiet after stop().
CONSTANTS
    N <- MCN4
    Retries = 2
    Reachable <- MCMiddleReachable
    Failing <- MCOuterFailing4
    MaxDrops = 3
    MaxStops = 1
SPECIFICATION FairSpec
INVARIANT TypeOK
INVARIANT ExclusiveActive
INVARIANT ActiveIsCurrent
INVARIANT StoppedStaysQuiet
PROPERTY ConnectLeadsToActive
PROPERTY ImplementsActivePool
