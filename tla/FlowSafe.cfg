\* One channel's two flows over two days, three faults anywhere.
SPECIFICATION Spec
CONSTANTS
    long = long
    short = short
    u1 = u1
    u2 = u2
    Flows <- BothFlows
    Branded = {long}
    Urls <- TwoUrls
    LastDay = 2
    MaxFaults = 3
CHECK_DEADLOCK FALSE
SYMMETRY Symm
INVARIANTS OwnVideos OneNotebookADay
PROPERTIES NeededNotebookKept
