SPECIFICATION Spec
CONSTANTS
    Threads = {h1}
    NoThread = NoThread
    Kinds = {"await"}
    Calls = {}
    Delays = {0}
    Intervals = {1}
    Offsets = {0}
    UnitsPerMinute = 2
    MaxTaskId = 4
    MaxTime = 0
    MaxReschedules = 0
INVARIANT AwaitGuarantee
CHECK_DEADLOCK FALSE
