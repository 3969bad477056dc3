CONSTANTS
    j1 = j1
    j2 = j2
    g1 = g1
    Jobs = {j1, j2}
    GPUs = {g1}
    Need <- OneDeviceEach
    NoJob = NoJob
    MaxAttempts = 1
    MaxFaults = 1
    Requests = {"qdel"}
    Faults = {"daemon", "reboot"}
SPECIFICATION Spec
INVARIANTS
    RowsMatchJobs
SYMMETRY Symmetry
PROPERTIES
    ContractKept
