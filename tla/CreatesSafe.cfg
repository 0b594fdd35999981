\* Two calls of any two kinds, a resource of somebody else.
SPECIFICATION FairSpec
CONSTANTS
    ann = ann
    bob = bob
    other = other
    Callers = {ann, bob}
    Asked <- Pairs
    Other = other
    MaxForeign = 1
    RateMax = 1
    ServerMax = 1
INVARIANTS Bounded  OwnWhenThere OldIsNotTaken
PROPERTIES EveryCallEnds
CHECK_DEADLOCK FALSE
