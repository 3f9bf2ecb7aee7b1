SPECIFICATION FairSpec
CONSTANTS
    Converge = Converge
    Fingerprint = {1, 2, 3}
    Alert = {1, 3}
    Declared = {1, 2}
    Kind = {Converge}
    KindOf <- MCKindOf
    Required <- MCRequired
    Licensed = {1, 2}
    MaxPerHour = 1
    Hour = 2
    Quiet = {}
    Earlier = {1}
    Person = {}
    Daemon = Daemon
    Absent = Absent
    MayRefire = FALSE
    MaxTime = 2
    MaxCuts = 1
CHECK_DEADLOCK FALSE
INVARIANTS
    RateLimitHolds
PROPERTIES
    TriggersAreAnswered
