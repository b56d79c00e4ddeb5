CONSTANTS
    n1 = n1
    n2 = n2
    n3 = n3
    Node = {n1, n2, n3}
    None = None
    MaxTerm = 2
    MaxLog = 0
    MaxInFlight = 2
    MaxRestarts = 0
    MaxPreVotes = 2
    MaxRivals = 2
    MaxStepDowns = 1
SPECIFICATION Spec
SYMMETRY Symmetry
VIEW View
INVARIANTS TypeOK ElectionSafety LeaderHintIsElected LeadersHaveQuorum
CHECK_DEADLOCK FALSE
