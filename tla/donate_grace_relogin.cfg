\* The spec's transition table enters ACTIVE only from CONNECT; a nested
\* pool that drops and is replaced during the WAIT grace re-enters it.
CONSTANTS
    N <- MCN
    Reachable <- MCAllPools
    Failing <- MCAllPools
    MaxDrops = 1
    MaxStops = 0
    ProxyDonate = "NONE"
    MaxProxyDrops = 0
SPECIFICATION Spec
PROPERTY DonationStartsFromConnect
