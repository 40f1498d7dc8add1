SPECIFICATION FairSpec
CONSTANTS
    Clients = {c1, c2}
    Sockets = {s1, s2, s3}
    NoClient = NoClient
    Backlog = 3
    Malformed = {1}
    Retention = 3
    PageSize = 2
    MaxStreams = 2
    MaxFailures = 2
    MaxSeq = 4
    MaxFaults = 2
INVARIANTS
    TypeOK
    SlotsAreExact
PROPERTIES
    DeliveryInOrder
    EveryoneCatchesUp
CHECK_DEADLOCK FALSE
