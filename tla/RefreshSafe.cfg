\* Two callers of one process and one of another, one fault.
SPECIFICATION FairSpec
CONSTANTS
    here = here
    there = there
    a1 = a1
    a2 = a2
    b1 = b1
    Processes <- TwoProcesses
    Callers <- ThreeCallers
    ProcessOf <- TwoAndOne
    MaxFollowRetries = 2
    MaxFaults = 1
    NoOne = NoOne
CHECK_DEADLOCK FALSE
INVARIANTS SingleFlight NoRedundantRefresh ReturnIsBacked CancelSettles NobodyIsLeftBehind
PROPERTIES EveryCallEnds
