\* When every hook is recorded nothing is left to do
CHECK_DEADLOCK FALSE
CONSTANTS
    j1 = j1
    Jobs = {j1}
    MaxAttempts = 2
    NoAttempt = NoAttempt
    MaxFaults = 2
SPECIFICATION UnattendedSpec
INVARIANTS
    HookAtMostOnce
    RecordTrue
PROPERTIES
    HooksHandled
