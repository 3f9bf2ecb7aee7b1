SPECIFICATION Spec
CONSTANTS
    Converge = Converge
    Fingerprint = {1, 2}
    Alert = {1}
    Declared = {1, 2}
    Kind = {Converge}
    KindOf <- MCKindOf
    Required <- MCRequired
    Licensed = {1, 2}
    MaxPerHour = 2
    Hour = 2
    Quiet = {}
    Earlier = {1}
    Person = {p1}
    Daemon = Daemon
    Absent = Absent
    MayRefire = FALSE
    MaxTime = 1
    MaxCuts = 0
CHECK_DEADLOCK FALSE
PROPERTIES
    OnlyOpenProposalsExecute
