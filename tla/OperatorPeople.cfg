SPECIFICATION Spec
CONSTANTS
    Converge = Converge
    Fingerprint = {1, 2}
    Alert = {1}
    Declared = {1, 2}
    Kind = {Converge}
    KindOf <- MCKindOf
    Required <- MCRequired
    Licensed = {2}
    MaxPerHour = 1
    Hour = 1
    Quiet = {}
    Earlier = {}
    Person = {p1}
    Daemon = Daemon
    Absent = Absent
    MayRefire = TRUE
    MaxTime = 1
    MaxCuts = 1
CHECK_DEADLOCK FALSE
INVARIANTS
    TypeOK
    OneLivePerTrigger
    VerifiedIsProven
    TrustStartsWithPeople
