\* The notebooks of a marked day go, the ones whose id was lost too.
SPECIFICATION FairSpec
CONSTANTS
    long = long
    short = short
    u1 = u1
    u2 = u2
    Flows <- BothFlows
    Branded = {long}
    Urls <- OneUrl
    LastDay = 2
    MaxFaults = 2
CHECK_DEADLOCK FALSE
PROPERTIES EventuallyClean
