CONSTANTS
    d1 = d1
    d2 = d2
    p1 = p1
    Jobs = {1, 2}
    Need <- OneEach
    Devices = {d1}
    Allowed = {d1}
    Static = {}
    Procs = {p1}
    Avoid = TRUE
    MaxFailures = 1
    MaxLaunches = 0
SPECIFICATION FairSpec
INVARIANTS
    EveryResetAnswered
PROPERTIES
    KnownFreeOnly
    JobsGetDevices
