\* Every donation pool always logs in; a drop during the WAIT grace still
\* leaves the next cycle stuck in CONNECT.
CONSTANTS
    N <- MCN
    Reachable <- MCAllPools
    Failing <- MCNoPools
    MaxDrops = 1
    MaxStops = 0
    ProxyDonate = "NONE"
    MaxProxyDrops = 0
SPECIFICATION FairSpec
PROPERTY DonationResumes
