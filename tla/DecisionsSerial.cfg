SPECIFICATION Spec
CONSTANTS
    Deploy = Deploy
    Facts = Facts
    DeployOld = DeployOld
    DeployNew = DeployNew
    ReadFacts = ReadFacts
    Operation <- MCOperation
    Call <- MCCall
    OperationOf <- MCOperationOf
    Risk <- MCRisk
    HasVerify <- MCHasVerify
    Recording = {tape}
    Live = Live
    Proposer = {p1}
    Approver = {a1}
    Absent = Absent
    NoOne = NoOne
    MaxSecond = 1
    MaxCuts = 0
CHECK_DEADLOCK FALSE
INVARIANTS
    TypeOK
    RunsAreOnRecord
    SupersededPointsForward
PROPERTIES
    ProposalIsKept
    KeepsTheLedger
