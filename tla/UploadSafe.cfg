\* Two files of one channel, cron and catch-up behind the flock, one --force, two faults.
SPECIFICATION FairSpec
CONSTANTS
    Files = {long, shorts}
    Procs = {cron, catchup}
    Manual = {}
    Sessions = {s1, s2, s3, s4}
    Size = 2
    MaxForce = 1
    MaxFaults = 2
    NoFile = NoFile
    NoSession = NoSession
    NoProc = NoProc
CHECK_DEADLOCK FALSE
INVARIANTS RecordsInv NoDuplicate SentIsRecorded
PROPERTIES DoneIsKept ImplementsAbstract EventuallyDone
