SPECIFICATION Spec
CONSTANTS
    Fds = {f1, f2}
    Conns = {c1, c2, c3}
    NStates = 1
    MaxVersion = 1
    MaxClients = 1
    QueueLimit = 2
    MaxExtra = 1
    MaxStops = 1
    NoConn = NoConn
    Cleared = Cleared
    Broadcast = Broadcast
    Unicast = TRUE
SYMMETRY Symmetry
INVARIANT TypeOK
INVARIANT ClientListOK
INVARIANT UnicastIsPrivate
INVARIANT WorkerNotStuck
