\* An appliance that changes, then rests, on a network that loses pushes and polls.
CONSTANTS
    Candidates = {"other"}
    ProtocolVersion = 3
    Enrolled = TRUE
    Fields <- MCFields
    IdleVersions = {0}
    Changing = {"Status", "Door"}
    MaxVersion = 2
    IdentReplies <- FullIdent
    HoursReplies = {}
    ContextReplies = {"ok"}
    FilterReplies <- BothGrades
    Lossy = {"state"}
    MaxMissCycles = 2
    MaxIdentAttempts = 1
    SetupRetries = 0
    FailureTolerance = 1
    None = None
SPECIFICATION FairSpec
PROPERTIES
    ReconcilesDrift
