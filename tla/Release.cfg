SPECIFICATION Spec
CONSTANTS
    Servers = 3
    Release = {good, bad}
    Sound = {good}
    Player = {p1}
    None = None
    MaxCuts = 1
CHECK_DEADLOCK FALSE
INVARIANTS
    TypeOK
    OneServerAtRisk
    UnsoundStaysOnFirst
    ReceiptIsEarned
PROPERTIES
    DeployMeansEverywhere
    FailureRestores
