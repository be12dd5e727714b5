SPECIFICATION Spec
CONSTANTS
    Threads = {h1}
    NoThread = NoThread
    Kinds = {"await", "repeat"}
    Calls = {"reschedule", "update"}
    Delays = {1}
    Intervals = {1}
    Offsets = {0}
    UnitsPerMinute = 2
    MaxTaskId = 3
    MaxTime = 1
    MaxReschedules = 3
INVARIANT ReverseExecution
CHECK_DEADLOCK FALSE
