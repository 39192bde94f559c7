CONSTANTS
    Users = {"teacher", "helper", "ann"}
    Schedulers = {"teacher", "helper"}
    SessionIds = {"s1"}
    SeriesIds = {"r1", "r2"}
    MeetingIds = {"m1"}
    MaxSlot = 3
    Counts = {2, 3}
    MaxSeries = 2
    MaxSequence = 3
    Guests = {"guest"}
    Answers = {"yes"}
    Capabilities = {"c1"}
    PollOwner = "teacher"
    Invitees = {"ann"}
    AccessRows = {"a1", "a2"}
    SessionRows = {"t1", "t2"}
    ResponseLimit = 2
    MaxStructures = 2
    Nil = "nil"
SPECIFICATION MCSpec
INVARIANTS
    CancelledIsClosed
    AnswersKeepTheirMeaning
PROPERTIES
    NoNewDoubleBooking
    ClassTimeIsExclusive
    SequenceIncreases
    CancellationAnnouncedUnlessSplit
CONSTRAINT Bounded
CHECK_DEADLOCK FALSE
