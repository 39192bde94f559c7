CONSTANTS
    host = host
    ann = ann
    admin = admin
    jh = jh
    ja1 = ja1
    ja2 = ja2
    k1 = k1
    k2 = k2
    Users = {host, ann, admin}
    Owner = host
    SafetyAdmins = {admin}
    Attempts = {jh, ja1, ja2}
    AttemptUser <- MCAttemptUser
    Keys = {k1, k2}
    KeyOps <- MCKeyOps
    Events = {e1, e2}
    Capacities = {1, 2}
    LobbyEnabled = TRUE
    MaxClaims = 2
    None = None
SPECIFICATION LobbySpec
SYMMETRY Interchangeable
INVARIANTS
    SeatsAccounted
    AttemptRowsAgree
    BarredStaysOut
PROPERTY RosterVersioned
CHECK_DEADLOCK FALSE
