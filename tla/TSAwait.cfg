SPECIFICATION FairSpec
CONSTANTS
    Threads = {h1, h2}
    NoThread = NoThread
    Kinds = {"await", "repeat", "restart", "pre_reboot"}
    Calls = {"reschedule"}
    Delays = {1}
    Intervals = {1}
    Offsets = {0}
    UnitsPerMinute = 2
    MaxTaskId = 3
    MaxTime = 1
    MaxReschedules = 1
INVARIANT AwaitSafe
PROPERTY AwaitIsRemoteCall
PROPERTY AwaitReturns
PROPERTY DueTaskRuns
CHECK_DEADLOCK FALSE
