\* The IDs run out, a command and a value are limited: every behaviour ends
CHECK_DEADLOCK FALSE
CONSTANTS
    MaxID = 6
    Subjobs = {1, 2}
    MaxFaults = 3
    Menu <- FewArguments
    MaxArguments = 3
    Variables <- Names
    Managed = {"PBS_JOBID"}
    Baseline = {"HOME", "PATH"}
    Submitted <- SubmissionEnvironment
    Shell = 4
    DefaultPath = 5
    MaxInt = 8191
    PerSecond = 3
    Factors = {1, 4, 16, 64, 256}
    Amounts = {0, 1, 2, 3, 31, 32, 33, 40, 59, 60, 127, 128, 136, 137, 511, 512, 8150, 8191, 8192, 9000}
    MaxMembers = 4
    MaxIndex = 7
    Indices = {0, 1, 2, 3, 5, 7, 8}
    MaxSegments = 2
SPECIFICATION PartsSpec
INVARIANTS
    SnapshotKept
    NeverInTheWay
    ReadAlike
    AskedIsGranted
    ValuesExact
    MembersExact
PROPERTIES
    CommittedKept
