CONSTANTS
    array = array
    g1 = g1
    g2 = g2
    c1 = c1
    c2 = c2
    c3 = c3
    NoJob = NoJob
    NoArray = NoArray
    Jobs = {1, 2, 3, 4}
    Arrays = {array}
    Parent <- SubjobsFirst
    Limit <- AnyNumber
    Deps <- LastAfterArray
    Devices = {}
    Protection = TRUE
    Affinity = FALSE
    Wishes <- OneWantsAll
    Capacities <- OneHost
    Views <- AllDevices
    AvoidForeign = TRUE
    Requests = {"qsub"}
    Ends = {"COMPLETED", "FAILED", "rerun"}
    MaxCrashes = 0
SPECIFICATION FairSpec
INVARIANTS
    DependenciesRespected
PROPERTIES
    FailedOnlyByDependency
    DependentsResolved
    NoStarvation
