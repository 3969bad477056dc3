CONSTANTS
    j1 = j1
    j2 = j2
    g1 = g1
    Jobs = {j1}
    GPUs = {g1}
    Need <- OneDeviceEach
    NoJob = NoJob
    MaxAttempts = 2
    MaxFaults = 1
    Requests = {"qdel", "qrerun", "qhold", "qrls"}
    Faults = {"daemon", "runner", "reboot"}
SPECIFICATION Spec
INVARIANTS
    TypeOK
    NoSilentReexecution
    ReleasedOnlyWhenGoneOrUnseen
    ExecutedImpliesAuthorized
    SupersededRunnerRevoked
PROPERTIES
    CancelSticks
    ContractKeptSupervised
