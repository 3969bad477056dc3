CONSTANTS
    array = array
    g1 = g1
    g2 = g2
    c1 = c1
    c2 = c2
    c3 = c3
    NoJob = NoJob
    NoArray = NoArray
    Jobs = {1, 2, 3}
    Arrays = {array}
    Parent <- SubjobsFirst
    Limit <- OneByOne
    Deps <- NoDeps
    Devices = {g1, g2}
    Protection = TRUE
    Affinity = TRUE
    Wishes <- MixedWishes
    Capacities <- LargeOrSmall
    Views <- AnyDevices
    AvoidForeign = TRUE
    Requests = {"qsub", "qdel", "qalter", "qhold", "qrls"}
    Ends = {"COMPLETED", "rerun"}
    MaxCrashes = 1
SYMMETRY Symmetry
SPECIFICATION Spec
INVARIANTS
    PlanAdmitted
    CPUsExclusive
PROPERTIES
    WithinLimits
    WorkConserving
