CONSTANTS
    n1 = n1
    n2 = n2
    n3 = n3
    Node = {n1, n2, n3}
    None = None
    MaxTerm = 2
    MaxLog = 1
    MaxInFlight = 2
    MaxRestarts = 1
    MaxPreVotes = 2
    MaxRivals = 1
    MaxStepDowns = 0
SPECIFICATION Spec
SYMMETRY Symmetry
VIEW LogView
INVARIANTS StateMachineSafety
PROPERTIES CommittedPrefixStable ImplementsReplicatedLog
CHECK_DEADLOCK FALSE
