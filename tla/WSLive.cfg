SPECIFICATION LiveSpec
CONSTANTS
    Fds = {f1, f2}
    Conns = {c1, c2}
    NStates = 1
    MaxVersion = 2
    MaxClients = 2
    QueueLimit = 2
    MaxExtra = 1
    MaxStops = 0
    NoConn = NoConn
    Cleared = Cleared
    Broadcast = Broadcast
    Unicast = FALSE
INVARIANT NoUpdateLost
PROPERTY ClientsCatchUp
PROPERTY SilentClientLeaves
