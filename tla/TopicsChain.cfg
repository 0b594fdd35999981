\* Three listings in a chain, one fault, no rebuild.
SPECIFICATION Spec
CONSTANTS
    rust = rust
    arm = arm
    risc = risc
    one = one
    two = two
    three = three
    four = four
    Items <- Chain
    Untitled = untitled
    Redirects <- GoogleNews
    Titled <- Echoed
    HistoryDays = 2
    LastDay = 2
    MaxFaults = 1
    MaxBackfills = 0
    CarefulRebuild = TRUE
INVARIANTS NoRepeat
CHECK_DEADLOCK FALSE
