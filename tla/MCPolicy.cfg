CONSTANTS
    Number <- Numbers
    Lower <- Capitals
    Lines <- CommandLines
    Answers <- ModelAnswers
    DecimalMax = 10000
    veto_max_retries = 1
    MaxRequests = 3
SPECIFICATION Spec
INVARIANTS TypeOK DisplayFollowsCommands
PROPERTIES AnomalousUnitsNeverMix
CHECK_DEADLOCK FALSE
