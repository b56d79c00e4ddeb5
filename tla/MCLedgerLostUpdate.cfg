CONSTANTS
    a = a
    b = b
    c1 = c1
    Budgets = {"any"}
    Node = {a}
    None = None
    Clients = {c1, c2}
    Seeds <- OneSeed
    Item = item
    Intents = {"add"}
    Slots = {1, 2}
    Clock <- Skewed
    max_retries = 2
    MAX_KNOWN_NODES = 2
    MaxSequence = 1
    MaxEffort = 2
    MaxClientCrashes = 0
    MaxElections = 1
    MaxLog = 2
SPECIFICATION MCSpec
INVARIANTS NoLostUpdate
CHECK_DEADLOCK FALSE
