SPECIFICATION Spec
CONSTANTS
    Threads = {}
    NoThread = NoThread
    Kinds = {"wall", "sync", "uncancelable"}
    Calls = {"cancel", "reschedule"}
    Delays = {2}
    Intervals = {1}
    Offsets = {0, 1}
    UnitsPerMinute = 2
    MaxTaskId = 3
    MaxTime = 4
    MaxReschedules = 0
INVARIANT TypeOK
INVARIANT TasksOwned
INVARIANT AtMostOnce
PROPERTY RetiredNeverRuns
CHECK_DEADLOCK FALSE
