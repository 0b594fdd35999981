\* Three stories over three days, a window of two, two faults, one rebuild.
SPECIFICATION FairSpec
CONSTANTS
    rust = rust
    arm = arm
    risc = risc
    one = one
    two = two
    three = three
    four = four
    Items <- Stories
    Untitled = untitled
    Redirects <- GoogleNews
    Titled <- Echoed
    HistoryDays = 2
    LastDay = 3
    MaxFaults = 2
    MaxBackfills = 1
    CarefulRebuild = TRUE
INVARIANTS HistoryInv NoRepeat
PROPERTIES DayIsServed
CHECK_DEADLOCK FALSE
