\* A call, an artifact with two waiters, one fault, a second session.
SPECIFICATION FairSpec
CONSTANTS
    call = call
    audio = audio
    video = video
    first = first
    second = second
    Ops = {call}
    Artifacts = {audio}
    Waiters = {first, second}
    MaxRetries = 1
    MaxOpens = 2
    MaxFaults = 1
INVARIANTS ClosedInv DrainedIsIdle OnlyCloseCancels NobodyIsLeftBehind
PROPERTIES EverybodyReturns
CHECK_DEADLOCK FALSE
