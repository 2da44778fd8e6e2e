\* A dishwasher whose door was read, and then a poll that fails.
CONSTANTS
    Candidates = {"dishwasher"}
    ProtocolVersion = 3
    Enrolled = FALSE
    Fields <- MCFields
    IdleVersions = {0}
    Changing = {}
    MaxVersion = 0
    IdentReplies <- FullIdent
    HoursReplies = {}
    ContextReplies = {"ok"}
    FilterReplies <- BothGrades
    Lossy = {"state"}
    MaxMissCycles = 2
    MaxIdentAttempts = 1
    SetupRetries = 0
    FailureTolerance = 1
    None = None
SPECIFICATION Spec
INVARIANT DoorIsOfLatestPoll
