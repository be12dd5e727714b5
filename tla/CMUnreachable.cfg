SPECIFICATION Spec
CONSTANTS
    Chargers = {c1, c2}
    First = c1
    MaxCurrent = 1
    Limit = 1
    ClientTimeout = 3
    ForgetTimeout = 6
    UnreachableTimeout = 3
    StaleTimeout = 1
    Window = 5
    Flaky = {c2}
    MaxFaults = 0
INVARIANT OnlyUnreachableOff
