CONSTANTS
    n1 = n1
    n2 = n2
    n3 = n3
    Node = {n1, n2, n3}
    None = None
    MaxTerm = 4
    MaxLog = 2
    MaxInFlight = 1
    MaxRestarts = 0
    MaxPreVotes = 1
    MaxRivals = 1
    MaxStepDowns = 0
SPECIFICATION Spec
SYMMETRY Symmetry
VIEW LogView
INVARIANTS LogMatching LeaderCompleteness
PROPERTIES ImplementsReplicatedLog
CHECK_DEADLOCK FALSE
