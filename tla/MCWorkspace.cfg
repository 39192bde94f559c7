CONSTANTS
    Emails = {"ann", "bob"}
    Subjects = {"i1", "i2"}
    SignIns = {"x1", "x2"}
    Tenants = {"t1", "t2"}
    Invitations = {"v1"}
    Flows = {"f1", "f2"}
    GrantableRoles = {"student"}
    MemberLimit = 2
    Nobody = "nobody"
    Members = {"ann", "bob"}
    Pair = {"ann", "bob"}
    Sends = {"d1", "d2"}
    ClientIds = {"m1"}
    RoomOfClass = FALSE
    MessageLimit = 2
    UnreadCap = 1
    MaxEdits = 1
    Commands = {"s1", "r1", "r2"}
    KindOf <- MCKindOf
    BoardWorkers = {"w1", "w2"}
    MaxTries = 2
    MaxGeneration = 2
    MaxFence = 3
    MaxEdit = 1
    None = None
    Sockets = {"k1", "k2"}
    SocketLimit = 2
    Runtimes = {"x", "y"}
    Free = "free"
    SafetyWindow = 3
    Freshness = 2
    QueryTimeout = 3
    Horizon = 9
SPECIFICATION MCSpec
INVARIANTS
    AccountsStayReachable
    OverlapsOnlyByLateAnswers
PROPERTIES
    MessagesArriveOnceAndUnread
    ArtifactsLandOnce
    FencesAdvance
    RuntimeFailsClosed
CONSTRAINT Bounded
CHECK_DEADLOCK FALSE
