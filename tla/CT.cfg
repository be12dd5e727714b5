SPECIFICATION Spec
CONSTANTS
    Local = Local
    Remote = {r1}
    Users = {u1}
    None = None
    FILE_RECORDS = 2
    FILE_COUNT = 3
    ListedBefore <- NameBefore
    MaxCharges = 9
    MaxCrashes = 1
INVARIANT LocalLogInOrder
INVARIANT CountersCorrect
INVARIANT NextChargeAccepted
PROPERTY LogIsKept
CHECK_DEADLOCK FALSE
