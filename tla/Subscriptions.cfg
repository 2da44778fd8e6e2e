\* Two installations enrol with, sweep and leave one appliance; requests are lost.
CONSTANTS
    here = here
    there = there
    Instances = {here, there}
    Static = {here}
    Resources = {"state"}
    MaxSlots = 4
    FirstSlots = 1
    ScanEnd = 3
    MaxMisses = 2
    Lossy = TRUE
    Free = Free
    Cloud = Cloud
    Former = Former
SPECIFICATION Spec
INVARIANTS
    SweptClean
    RemovedClean
    SoleKeepsReported
PROPERTIES
    FreedRightly
