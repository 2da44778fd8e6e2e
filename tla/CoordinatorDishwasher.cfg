\* A dishwasher that pushes, sleeps, answers nothing or garbage and loses requests.
CONSTANTS
    Candidates = {"dishwasher"}
    ProtocolVersion = 3
    Enrolled = TRUE
    Fields <- MCFields
    IdleVersions = {0}
    Changing = {"Status", "Door", "ident"}
    MaxVersion = 1
    IdentReplies <- FullIdent
    HoursReplies = {}
    ContextReplies = {"ok", "empty", "garbled", "asleep", "refused"}
    FilterReplies <- BothGrades
    Lossy = {"state", "context"}
    MaxMissCycles = 2
    MaxIdentAttempts = 1
    SetupRetries = 0
    FailureTolerance = 1
    None = None
SPECIFICATION Spec
INVARIANTS
    DoorIsFromThisPoll
    ShownIsData
PROPERTY MirrorsAppliance
