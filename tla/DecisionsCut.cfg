SPECIFICATION Spec
CONSTANTS
    Deploy = Deploy
    Facts = Facts
    DeployOld = DeployOld
    DeployNew = DeployNew
    ReadFacts = ReadFacts
    Operation <- MCOneOperation
    Call <- MCOneCall
    OperationOf <- MCOneOperationOf
    Risk <- MCRisk
    HasVerify <- MCHasVerify
    Recording = {tape}
    Live = Live
    Proposer = {p1}
    Approver = {a1}
    Absent = Absent
    NoOne = NoOne
    MaxSecond = 2
    MaxCuts = 1
CHECK_DEADLOCK FALSE
INVARIANTS
    ClaimsAreBacked
    RunsWereChecked
PROPERTIES
    NoOpenDuplicate
