\* Two households, loaded beside each other, whose operations fail at every step.
CONSTANTS
    cloud = cloud
    direct = direct
    d1 = d1
    d2 = d2
    d3 = d3
    Entries <- BothEntries
    Appliances <- TwoAndOne
    Port <- OwnPorts
    Rotating <- CloudOnly
    Faults = {"zeroconf", "startup", "bind", "enroll", "refresh", "platforms"}
SPECIFICATION FairSpec
INVARIANTS
    NothingButMdnsLeaks
    LoadedServes
    IssueIsCurrent
PROPERTIES
    LeaksOnlyAtBind
    OperationsEnd
