CONSTANTS
    n1 = n1
    Node = {n1}
    None = None
    MaxTerm = 5
    MaxLog = 2
    MaxInFlight = 1
    MaxRestarts = 2
    MaxPreVotes = 1
    MaxRivals = 1
    MaxStepDowns = 1
SPECIFICATION SoloSpec
PROPERTIES SoloElects
CHECK_DEADLOCK FALSE
