CONSTANTS
    a = a
    b = b
    c1 = c1
    Budgets = {"alone", "contended"}
    Node = {a, b}
    None = None
    Clients = {c1, c2}
    Seeds <- SeedList
    Item = item
    Intents = {"add", "delete", "malformed"}
    Slots = {1, 2}
    Clock <- Skewed
    max_retries = 2
    MAX_KNOWN_NODES = 2
    MaxSequence = 2
    MaxEffort = 5
    MaxClientCrashes = 1
    MaxElections = 3
    MaxLog = 2
SPECIFICATION MCSpec
INVARIANTS TypeOK NoStorePoisons StoresFollowTheLog OneIntentPerSequence ToldIsRecorded VerifiedQueryIsAuthoritative 
PROPERTIES SessionsAdvance ReliesOnContract
CHECK_DEADLOCK FALSE
