\* A hood, an oven or a washer on a booting XKM, whose leaves fail in every way.
CONSTANTS
    Candidates = {"hood", "oven", "laundry"}
    ProtocolVersion = 2
    Enrolled = FALSE
    Fields <- MCFields
    IdleVersions = {0}
    Changing = {}
    MaxVersion = 0
    IdentReplies <- PatchyIdent
    HoursReplies = {"ok", "garbled"}
    ContextReplies = {"asleep"}
    FilterReplies <- AnyGrades
    Lossy = {"state", "wlan", "hours", "context", "wake", "filters"}
    MaxMissCycles = 3
    MaxIdentAttempts = 3
    SetupRetries = 2
    FailureTolerance = 1
    None = None
SPECIFICATION FairSpec
INVARIANTS
    HoodControlsUnlessExhausted
PROPERTIES
    IdentKept
    HoursArrive
    DeadLeafIsLatched
