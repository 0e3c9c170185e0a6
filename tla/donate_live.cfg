\* Every donation window ends, with the proxy, drops of the nested pools
\* and of the proxy, and no owner stop().
CONSTANTS
    N <- MCN
    Reachable <- MCAllPools
    Failing <- MCAllPools
    MaxDrops = 1
    MaxStops = 0
    ProxyDonate = "AUTO"
    MaxProxyDrops = 1
SPECIFICATION FairSpec
PROPERTY DonationEnds
