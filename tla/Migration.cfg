SPECIFICATION FairSpec
CONSTANTS
    Release = {r1, r2}
    Proc = {p1}
    None = None
    MaxCuts = 3
CHECK_DEADLOCK FALSE
INVARIANTS
    TypeOK
    FleetIsAsPlanned
    ResumesWhereItStopped
PROPERTIES
    MigrationCompletes
