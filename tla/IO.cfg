SPECIFICATION FairSpec
CONSTANTS
    Rounds = {r1, r2}
    Main = Main
    Threads = {h1}
    None = None
    LateNotification = TRUE
    MaxAwaits = 3
INVARIANT RoundsSafe
INVARIANT IoAwaitSafe
PROPERTY IoAwaitIsRemoteCall
PROPERTY RoundEnds
PROPERTY IoAwaitReturns
CHECK_DEADLOCK FALSE
