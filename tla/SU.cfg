SPECIFICATION LiveSpec
CONSTANTS
    N = 2
    Period = 2
    Members = {a, b}
    Root = root
    LowLatency = {1}
    OwnUpdates = FALSE
    MaxUpdates = 1
    MaxRegistrations = 2
    MaxLinkEvents = 2
INVARIANT TypeOK
INVARIANT NoEventMissed
INVARIANT BrokerIsCurrent
PROPERTY NothingTwice
PROPERTY EventsArrive
PROPERTY BrokerCatchesUp
