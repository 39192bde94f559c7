CONSTANTS
    start = start
    end = end
    recover = recover
    cancel = cancel
    start1 = start1
    start2 = start2
    end1 = end1
    end2 = end2
    recover1 = recover1
    cancel1 = cancel1
    NoSID = NoSID
    Keys <- MCKeys
    KeyOp <- MCKeyOp
    CallKey <- MCCallKey
    Calls = {start1, start2, recover1, end1, cancel1}
    Reconcilers = {rec1}
    Users = {ana}
    SIDs = {s1, s2, s3}
    MaxRooms = 2
    MaxVersion = 3
    MaxFaults = 1
SYMMETRY SIDSymmetry
SPECIFICATION Spec
INVARIANT OneRunningRoom
INVARIANT SessionsOnlyInRunningRoom
PROPERTY BindingStable
PROPERTY LifecycleSpec
CHECK_DEADLOCK FALSE
INVARIANT OneCommitPerVersion
CONSTRAINTS
    CancelOrRecover
    FaultsApart
