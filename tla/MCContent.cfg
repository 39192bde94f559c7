CONSTANTS
    f1 = f1
    f2 = f2
    m1 = m1
    m2 = m2
    c1 = c1
    c2 = c2
    Features = {"file_uploads"}
    Quotas <- MCQuotas
    RateQuotas = {"file_upload_intents_per_hour"}
    DefaultOn = {"file_uploads"}
    ForcedOff = {}
    NotAllowed = {}
    DefaultLimit <- MCDefaultLimit
    Ceiling <- MCCeiling
    LimitRange = {1}
    Editable = {"file_uploads", "files_per_tenant"}
    Admins = {a1, a2}
    MaxRevision = 2
    NoOverride = NoOverride
    Files = {f1, f2}
    Size <- MCSize
    Multis = {m1, m2}
    MultiFile <- MCMultiFile
    Calls = {c1, c2}
    MaxVersions = 2
    MaxParts = 1
    MaxBytes = 100
SPECIFICATION Spec
INVARIANTS
    UsageAccounted
    UploadedIsStored
    MultipartFenced
PROPERTIES
    GrowsWithinQuota
    NoLostOverride
CONSTRAINT Bounded
SYMMETRY Symmetric
CHECK_DEADLOCK FALSE
