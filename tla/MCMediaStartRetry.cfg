CONSTANTS
    start = start
    end = end
    recover = recover
    cancel = cancel
    start1 = start1
    start2 = start2
    end1 = end1
    end2 = end2
    recover1 = recover1
    cancel1 = cancel1
    NoSID = NoSID
    Keys <- MCKeys
    KeyOp <- MCKeyOp
    CallKey <- MCCallKey
    Calls = {start1, start2, recover1}
    Reconcilers = {}
    Users = {}
    SIDs = {s1, s2, s3}
    MaxRooms = 2
    MaxVersion = 0
    MaxFaults = 0
SPECIFICATION Spec
PROPERTY RetryConverges
CHECK_DEADLOCK FALSE
