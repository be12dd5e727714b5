SPECIFICATION LiveSpec
CONSTANTS
    Users = 2
    MaxUploads = 2
    MaxManual = 1
    MaxNet = 1
CHECK_DEADLOCK FALSE
INVARIANT LockHasOneHolder
INVARIANT OneSender
 
PROPERTY MonthlyRoundEnds
