CONSTANTS
    A = A
    B = B
    Address = {A, B}
    NoAddress = NoAddress
    Dir = {"d1", "d2"}
    Cluster = {"x", "y"}
    Configs <- AllConfigs
    MaxStarts = 3
    MaxRequests = 2
SPECIFICATION Spec
INVARIANTS TypeOK RequestsReachTheirData HeartbeatsPrecedeElections
CHECK_DEADLOCK FALSE
