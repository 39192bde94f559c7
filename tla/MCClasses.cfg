CONSTANTS
    c1 = c1
    c2 = c2
    Users = {"admin", "teacher", "ann", "bob"}
    OrgRole <- MCOrgRole
    ClassIds = {c1, c2}
    Codes = {k1}
    UsageLimits = {1, 2}
    Limits = {1, 2}
    MaxVersion = 5
    NoUpdate = NoUpdate
    DayLength = 12
    ProbeStep = 3
    MaxAdjustment = 2
    HorizonDays = 4
    Agendas <- MCAgendas
    TenantHours <- MCTenantHours
    Dates = {0, 1, 2, 3}
    MaxIntervals = 2
    MaxScheduleVersion = 1
    MaxStarts = 19
    Course = c1
    Guests = {"guest"}
    ScheduleInputs <- MCScheduleInputs
    Queries <- MCQueries
SPECIFICATION MCSpec
INVARIANTS
    ReadsTruthful
    RosterIsTruthful
PROPERTIES
    ActiveWithinQuota
    CodeSpentOnce
    BarredUntilReinstated
CONSTRAINT Bounded
CHECK_DEADLOCK FALSE
