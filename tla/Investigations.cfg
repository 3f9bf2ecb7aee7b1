SPECIFICATION DemoSpec
CONSTANTS
    Run = {1, 2}
    Question = {"look", "clean", "clean it"}
    CallOf <- MCCallOf
    OperationOf <- MCOperationOf
    Reading = {"look"}
    Recorded <- MCRecorded
    Asks <- MCAsks
    Project = Project
    MaxTurns <- MCMaxTurns
    MaxAttempts = 2
    MaxSecond = 2
    MaxTerminalSecond = 1
    MaxFaults = 1
    AddressOf <- MCAddressOf
    RunsPerHour = 1
    Slots = 1
    DailyTokens = 1
    Hour = 1
    DayLength = 2
INVARIANTS EveryEndingIsOnRecord FindingsAreBacked
PROPERTIES AdmissionsAreWithinBudget AdmittedRunsEnd
