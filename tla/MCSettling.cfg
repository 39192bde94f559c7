CONSTANTS
    start = start
    end = end
    recover = recover
    cancel = cancel
    start1 = start1
    start2 = start2
    end1 = end1
    end2 = end2
    recover1 = recover1
    cancel1 = cancel1
    NoSID = NoSID
    Keys <- MCCommandKeys
    KeyOp <- MCCommandOp
    CallKey <- MCCallKey
    Calls = {start1, end1, end2}
    Reconcilers = {rec1}
    Users = {}
    SIDs = {s1}
    MaxRooms = 1
    MaxVersion = 0
    MaxFaults = 2
    w1 = w1
    w2 = w2
    OutboxEvents = {o1}
    Workers = {w1, w2}
    NoOwner = NoOwner
    Allowlist <- AllowAll
    MaxAttempts <- RolloutAttempts
    BatchSize = 1
    Concurrency = 1
    LeaseDuration = 2
    HandlerTimeout = 1
    RetryBase = 1
    RetryMax = 2
    JitterPercent = 50
    MaxOutboxFaults = 2
SPECIFICATION MCFairSpec
INVARIANTS
    AppliedMeansGone
    ClaimUndisturbed
    ChecksHold
    RetriesWithinLimits
PROPERTIES
    SettledForGood
    EffectSettles
    EventuallySettled
    HandlerUndisturbed
    DeliverySpec
CHECK_DEADLOCK FALSE
