\* Every interleaving of the donation cycle, nested pool events, the proxy
\* and one owner stop(), with every pool able to fail and to log in.
CONSTANTS
    N <- MCN
    Reachable <- MCAllPools
    Failing <- MCAllPools
    MaxDrops = 1
    MaxStops = 1
    ProxyDonate = "AUTO"
    MaxProxyDrops = 1
SPECIFICATION Spec
INVARIANTS DonateTypeOK IdleIsQuiet TimerOnlyWhenScheduled
