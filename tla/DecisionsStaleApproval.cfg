SPECIFICATION Spec
CONSTANTS
    Deploy = Deploy
    Facts = Facts
    DeployOld = DeployOld
    DeployNew = DeployNew
    ReadFacts = ReadFacts
    Operation <- MCOneOperation
    Call <- MCOneCall
    OperationOf <- MCOneOperationOf
    Risk <- MCRisk
    HasVerify <- MCHasVerify
    Recording = {}
    Live = Live
    Proposer = {p1}
    Approver = {a1, a2}
    Absent = Absent
    NoOne = NoOne
    MaxSecond = 0
    MaxCuts = 0
CHECK_DEADLOCK FALSE
PROPERTIES
    OnlyOpenProposalsRun
