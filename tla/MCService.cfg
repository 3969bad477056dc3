\* When every command has ended nothing is left to do
CHECK_DEADLOCK FALSE
CONSTANTS
    c1 = c1
    c2 = c2
    d1 = d1
    d2 = d2
    d3 = d3
    Clients = {c1, c2}
    Daemons = {d1, d2}
    Nobody = Nobody
    MaxConnections = 2
    MaxFaults = 2
SPECIFICATION FairSpec
INVARIANTS
    OneDaemon
    AtMostOnce
    NobodyLeftOut
PROPERTIES
    CommandsEnd
    StopsWhenTold
