\* Two channels over two days, two faults anywhere.
SPECIFICATION FairSpec
CONSTANTS
    embedded = embedded
    tech = tech
    t1 = t1
    t2 = t2
    Channels <- TwoChannels
    ShortsCh = tech
    Titles <- TwoTitles
    LastDay = 2
    MaxFaults = 2
    AbsentFile = AbsentFile
    ZeroBytes = ZeroBytes
    NoTopic = NoTopic
    FileName = FileName
CHECK_DEADLOCK FALSE
INVARIANTS MarkIsTrue TitleTellsTheStory VideoIsFresh OneStoryADay
PROPERTIES ImplementsDaily EventuallyMarked
