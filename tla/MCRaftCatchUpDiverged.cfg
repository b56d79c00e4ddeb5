CONSTANTS
    n1 = n1
    n2 = n2
    n3 = n3
    Node = {n1, n2, n3}
    None = None
    MaxTerm = 3
    MaxLog = 3
    MaxInFlight = 1
    MaxRestarts = 0
    MaxPreVotes = 0
    MaxRivals = 0
    MaxStepDowns = 0
    Lead = n1
    FollowerLogs <- Diverged
SPECIFICATION CatchUpSpec
PROPERTIES PeersCatchUp
