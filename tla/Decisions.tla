----------------------------- MODULE Decisions -----------------------------
(***************************************************************************)
(* The gate and the record of src/sdk/src/cloudfall/decision.py, driven by *)
(* the `operations propose` and `decisions approve` commands of app.py.    *)
(*                                                                         *)
(* Every command is a process of its own: proposers run check mode and     *)
(* leave a record, approvers load a record, ask a person for its id, run   *)
(* it and write down what came of it.  They share nothing but the          *)
(* directory of records and the diffs beside it, and nothing locks it.     *)
(***************************************************************************)
EXTENDS Integers, FiniteSets

CONSTANTS
    Operation,   \* the operations of the catalog
    Call,        \* an operation with its targets and canonical inputs
    OperationOf, \* the operation a call is of
    Risk,        \* the declared risk of an operation
    HasVerify,   \* whether an operation declares a verify step
    Recording,   \* recordings a check may be played back from
    Live,        \* the replay value of a check that ran on the hosts
    Proposer,    \* processes running `operations propose`
    Approver,    \* processes running `decisions approve`
    Absent,      \* no record under that name
    NoOne,       \* nobody approved
    MaxSecond,   \* bound: the last second of the modelled clock
    MaxCuts      \* bound: how many processes may be killed or time out

ASSUME CatalogAssumption ==
    /\ OperationOf \in [Call -> Operation]
    /\ Risk \in [Operation -> {"read", "mutating", "destructive"}]
    /\ HasVerify \in [Operation -> BOOLEAN]

ASSUME ReplayAssumption == Live \notin Recording

ASSUME BoundAssumption == MaxSecond \in Nat /\ MaxCuts \in Nat

VARIABLES
    now,        \* the second the controller's clock shows
    store,      \* the record each id names, Absent when there is none
    torn,       \* ids whose file a killed writer left truncated
    diffs,      \* the pieces of check output the diff file of an id holds
    proposer,   \* where each proposer stands
    draft,      \* the record a proposer is building
    recorded,   \* the open records of its call a proposer read before its check
    approver,   \* where each approver stands
    copy,       \* the record an approver loaded, with what its run did so far
    ran,        \* history: every run the fleet saw, as its record tells it
    cuts        \* how many processes were killed or timed out

proposerVars == <<proposer, draft, recorded>>
approverVars == <<approver, copy, ran>>
vars == <<now, store, torn, diffs, proposerVars, approverVars, cuts>>

-----------------------------------------------------------------------------
(* The record.                                                             *)

Second == 0..MaxSecond

\* The id is the operation and the second it was proposed in, no finer.
Id == Operation \X Second
DecisionIdentifier(call, second) == <<OperationOf[call], second>>

NoId == <<NoOne, 0>>

Replay == Recording \cup {Live}

Status == {"proposed", "executed", "verified", "failed", "ran", "superseded"}
Finished == {"executed", "verified", "failed"}

\* "none": the stage did not run.  "timeout": it was cut off and its process
\* ended with an exception, so no record ever holds it.
Execution == {"none", "ok", "failed", "timeout"}
Verification == {"none", "ok", "changed", "failed", "timeout"}

\* What a check prints is streamed to its diff file while it runs: a first
\* piece, and the rest.
Piece == {"first", "rest"}
Output(call) == {call} \X Piece

Record == [
    id: Id,
    call: Call,
    replay: Replay,
    digest: SUBSET (Call \X Piece),
    status: Status,
    approver: Approver \cup {NoOne},
    execution: Execution,
    verification: Verification,
    supersededBy: Id \cup {NoId}
]

ASSUME AbsentAssumption == Absent \notin Record
ASSUME NoOneAssumption == NoOne \notin Approver

IsRead(call) == Risk[OperationOf[call]] = "read"

\* What the gate makes of a checked call: a read has run, the rest wait.
Gate(call) == IF IsRead(call) THEN "ran" ELSE "proposed"

Draft(call, second, replay) == [
    id |-> DecisionIdentifier(call, second),
    call |-> call,
    replay |-> replay,
    digest |-> {},
    status |-> Gate(call),
    approver |-> NoOne,
    execution |-> "none",
    verification |-> "none",
    supersededBy |-> NoId
]

\* MUTANT of Replaces: a replay closes a live proposal.
ReplacesAnyReplay(new, older) == older.status = "proposed" /\ older.call = new.call

\* Which record a new proposal replaces.
Replaces(new, older) ==
    /\ older.status = "proposed"
    /\ older.replay = new.replay
    /\ older.call = new.call

Superseded(older, new) ==
    [older EXCEPT !.status = "superseded", !.supersededBy = new.id]

\* MUTANTS of Outcome: a clean run is taken for verified; the approval, not
\* the run, decides the status.
OutcomeOfRun(call, execution, verification) ==
    CASE execution # "ok" -> "failed"
      [] execution = "ok" /\ HasVerify[OperationOf[call]] -> "verified"
      [] OTHER -> "executed"
OutcomeOfApproval(call, execution, verification) == "approved"

\* The status one run earned.
Outcome(call, execution, verification) ==
    CASE execution # "ok" -> "failed"
      [] execution = "ok" /\ ~HasVerify[OperationOf[call]] -> "executed"
      [] execution = "ok" /\ HasVerify[OperationOf[call]] /\ verification = "ok"
           -> "verified"
      [] OTHER -> "failed"

\* MUTANTS of Approvable: one of its two refusals is forgotten.
ApprovableReplayed(record) == record.status = "proposed"
ApprovableFinished(record) == record.replay = Live

\* A record is approvable when it is open and its check ran on the hosts.
Approvable(record) == record.status = "proposed" /\ record.replay = Live

\* An earlier version recorded a read as proposed; such a record still loads.
LegacyRead(call, second) ==
    [Draft(call, second, Live) EXCEPT !.digest = Output(call), !.status = "proposed"]

-----------------------------------------------------------------------------
TypeOK ==
    /\ now \in Second
    /\ store \in [Id -> Record \cup {Absent}]
    /\ torn \in SUBSET Id
    /\ diffs \in [Id -> SUBSET (Call \X Piece)]
    /\ proposer \in [Proposer -> {"idle", "starting", "checking", "printing", "checked",
                                 "saving", "writing", "superseding"}]
    /\ draft \in [Proposer -> Record \cup {Absent}]
    /\ recorded \in [Proposer -> SUBSET Record]
    /\ approver \in [Approver ->
            {"idle", "attesting", "executing", "verifying", "recording"}]
    /\ copy \in [Approver -> Record \cup {Absent}]
    /\ ran \in SUBSET Record
    /\ cuts \in 0..MaxCuts

\* The store may hold reads an earlier version left open, one per operation.
Init ==
    /\ now = 0
    /\ \E legacy \in SUBSET {c \in Call : IsRead(c)} :
        /\ \A c, d \in legacy : OperationOf[c] = OperationOf[d] => c = d
        /\ store = [id \in Id |->
                IF \E c \in legacy : id = DecisionIdentifier(c, 0)
                THEN LegacyRead(CHOOSE c \in legacy :
                                    id = DecisionIdentifier(c, 0), 0)
                ELSE Absent]
        /\ diffs = [id \in Id |->
                {piece \in Call \X Piece :
                    piece[1] \in legacy /\ id = DecisionIdentifier(piece[1], 0)}]
    /\ torn = {}
    /\ proposer = [p \in Proposer |-> "idle"]
    /\ draft = [p \in Proposer |-> Absent]
    /\ recorded = [p \in Proposer |-> {}]
    /\ approver = [a \in Approver |-> "idle"]
    /\ copy = [a \in Approver |-> Absent]
    /\ ran = {}
    /\ cuts = 0

CutShort == cuts < MaxCuts /\ cuts' = cuts + 1

Tick ==
    /\ now < MaxSecond
    /\ now' = now + 1
    /\ UNCHANGED <<store, torn, diffs, proposerVars, approverVars, cuts>>

-----------------------------------------------------------------------------
(* operations propose.                                                     *)

StoredRecords == {store[id] : id \in {i \in Id : store[i] # Absent}}

\* DecisionStore.update and the write half of save: one plain write.
Write(record) == store' = [store EXCEPT ![record.id] = record]

ProposerStops(p) ==
    /\ proposer' = [proposer EXCEPT ![p] = "idle"]
    /\ draft' = [draft EXCEPT ![p] = Absent]
    /\ recorded' = [recorded EXCEPT ![p] = {}]

\* propose(): read every record and fix the id.  A record that does not load
\* stops the proposal.
BeginProposal(p, call, replay) ==
    LET new == Draft(call, now, replay)
    IN  /\ proposer[p] = "idle"
        /\ torn = {}
        /\ proposer' = [proposer EXCEPT ![p] = "starting"]
        /\ draft' = [draft EXCEPT ![p] = new]
        /\ recorded' = [recorded EXCEPT ![p] =
                {older \in StoredRecords : Replaces(new, older)}]
        /\ UNCHANGED <<now, store, torn, diffs, approverVars, cuts>>

\* The diff file of the id is truncated, whoever it belongs to and whoever is
\* printing to it, and check mode starts.
StartCheck(p) ==
    /\ proposer[p] = "starting"
    /\ diffs' = [diffs EXCEPT ![draft[p].id] = {}]
    /\ proposer' = [proposer EXCEPT ![p] = "checking"]
    /\ UNCHANGED <<now, store, torn, draft, recorded, approverVars, cuts>>

\* A check prints at an offset of its own: what another one printed there
\* since is lost.
Prints(p, piece) ==
    LET new == draft[p]
        others == {printed \in diffs[new.id] : printed[1] # new.call}
    IN  \E lost \in SUBSET others :
            diffs' = [diffs EXCEPT ![new.id] = (@ \ lost) \cup {<<new.call, piece>>}]

CheckPrints(p) ==
    /\ proposer[p] = "checking"
    /\ Prints(p, "first")
    /\ proposer' = [proposer EXCEPT ![p] = "printing"]
    /\ UNCHANGED <<now, store, torn, draft, recorded, approverVars, cuts>>

\* Check mode ends, whatever its exit code.
CheckEnds(p) ==
    /\ proposer[p] = "printing"
    /\ Prints(p, "rest")
    /\ proposer' = [proposer EXCEPT ![p] = "checked"]
    /\ UNCHANGED <<now, store, torn, draft, recorded, approverVars, cuts>>

\* The diff is digested as it now stands.
DigestDiff(p) ==
    /\ proposer[p] = "checked"
    /\ draft' = [draft EXCEPT ![p].digest = diffs[draft[p].id]]
    /\ proposer' = [proposer EXCEPT ![p] = "saving"]
    /\ UNCHANGED <<now, store, torn, diffs, recorded, approverVars, cuts>>

\* MUTANT of SaveAdmits: an existing record is replaced.
SaveAdmitsAny(record) == TRUE

SaveAdmits(record) == store[record.id] = Absent

\* save() finds no record under the id.
SaveAdmitted(p) ==
    /\ proposer[p] = "saving"
    /\ SaveAdmits(draft[p])
    /\ proposer' = [proposer EXCEPT ![p] = "writing"]
    /\ UNCHANGED <<now, store, torn, diffs, draft, recorded, approverVars, cuts>>

\* save() raises decision_exists.
SaveRefused(p) ==
    /\ proposer[p] = "saving"
    /\ ~SaveAdmits(draft[p])
    /\ ProposerStops(p)
    /\ UNCHANGED <<now, store, torn, diffs, approverVars, cuts>>

\* MUTANT of CheckTimesOut: a check that was cut off is taken for one that
\* failed, and recorded.
CheckTimesOutRecorded(p) ==
    /\ CutShort
    /\ proposer[p] \in {"checking", "printing"}
    /\ proposer' = [proposer EXCEPT ![p] = "checked"]
    /\ UNCHANGED <<now, store, torn, diffs, draft, recorded, approverVars>>

\* Check mode ran into CHECK_TIMEOUT_SECONDS: propose() raises.
CheckTimesOut(p) ==
    /\ CutShort
    /\ proposer[p] \in {"checking", "printing"}
    /\ ProposerStops(p)
    /\ UNCHANGED <<now, store, torn, diffs, approverVars>>

\* The write half of save(): whatever appeared since the check is replaced.
SaveWrites(p) ==
    /\ proposer[p] = "writing"
    /\ Write(draft[p])
    /\ torn' = torn \ {draft[p].id}
    /\ proposer' = [proposer EXCEPT ![p] = "superseding"]
    /\ UNCHANGED <<now, diffs, draft, recorded, approverVars, cuts>>

Oldest(records) ==
    {r \in records : \A other \in records : r.id[2] <= other.id[2]}

\* One turn of the loop over the records read before the check, oldest first:
\* the copy read then, not the record as it now stands, is marked and written.
SupersedeOlder(p, older) ==
    /\ proposer[p] = "superseding"
    /\ older \in Oldest(recorded[p])
    /\ Write(Superseded(older, draft[p]))
    /\ torn' = torn \ {older.id}
    /\ recorded' = [recorded EXCEPT ![p] = @ \ {older}]
    /\ UNCHANGED <<now, diffs, proposer, draft, approverVars, cuts>>

\* MUTANT of ProposalReturns: it returns once the record is saved.
ProposalReturnsEarly(p) ==
    /\ proposer[p] = "superseding"
    /\ ProposerStops(p)
    /\ UNCHANGED <<now, store, torn, diffs, approverVars, cuts>>

ProposalReturns(p) ==
    /\ proposer[p] = "superseding"
    /\ recorded[p] = {}
    /\ ProposerStops(p)
    /\ UNCHANGED <<now, store, torn, diffs, approverVars, cuts>>

-----------------------------------------------------------------------------
(* decisions approve.                                                      *)

ApproverStops(a) ==
    /\ approver' = [approver EXCEPT ![a] = "idle"]
    /\ copy' = [copy EXCEPT ![a] = Absent]

\* Load the record, refuse one that is replayed or not open, and ask a
\* person to type its id.
LoadForApproval(a, id) ==
    /\ approver[a] = "idle"
    /\ store[id] # Absent
    /\ id \notin torn
    /\ Approvable(store[id])
    /\ approver' = [approver EXCEPT ![a] = "attesting"]
    /\ copy' = [copy EXCEPT ![a] = store[id]]
    /\ UNCHANGED <<now, store, torn, diffs, proposerVars, ran, cuts>>

\* The id was mistyped, or nobody was at the terminal.
AttestationFails(a) ==
    /\ approver[a] = "attesting"
    /\ ApproverStops(a)
    /\ UNCHANGED <<now, store, torn, diffs, proposerVars, ran, cuts>>

\* The person typed the id: approve() refuses once more on the copy it was
\* handed, which nobody read again, and starts the run.
Attest(a) ==
    /\ approver[a] = "attesting"
    /\ Approvable(copy[a])
    /\ approver' = [approver EXCEPT ![a] = "executing"]
    /\ copy' = [copy EXCEPT ![a].approver = a]
    /\ UNCHANGED <<now, store, torn, diffs, proposerVars, ran, cuts>>

\* The run ends; a clean one is verified when the operation says how.
ExecutionEnds(a, execution) ==
    LET done == [copy[a] EXCEPT !.execution = execution]
        verify == execution = "ok" /\ HasVerify[OperationOf[done.call]]
    IN  /\ approver[a] = "executing"
        /\ copy' = [copy EXCEPT ![a] = done]
        /\ approver' = [approver EXCEPT ![a] =
                IF verify THEN "verifying" ELSE "recording"]
        /\ ran' = IF verify THEN ran ELSE ran \cup {done}
        /\ UNCHANGED <<now, store, torn, diffs, proposerVars, cuts>>

VerificationEnds(a, verification) ==
    LET done == [copy[a] EXCEPT !.verification = verification]
    IN  /\ approver[a] = "verifying"
        /\ copy' = [copy EXCEPT ![a] = done]
        /\ approver' = [approver EXCEPT ![a] = "recording"]
        /\ ran' = ran \cup {done}
        /\ UNCHANGED <<now, store, torn, diffs, proposerVars, cuts>>

\* The stage under way is cut off after it reached the fleet.
CutOff(a) == ran' = ran \cup
    CASE approver[a] = "executing" -> {[copy[a] EXCEPT !.execution = "timeout"]}
      [] approver[a] = "verifying" -> {[copy[a] EXCEPT !.verification = "timeout"]}
      [] OTHER -> {}

\* A stage ran into its timeout: the fleet was touched, approve() raises and
\* the record is left as it is.
StageTimesOut(a) ==
    /\ CutShort
    /\ approver[a] \in {"executing", "verifying"}
    /\ CutOff(a)
    /\ ApproverStops(a)
    /\ UNCHANGED <<now, store, torn, diffs, proposerVars>>

Approved(record) == [record EXCEPT
    !.status = Outcome(record.call, record.execution, record.verification)]

\* The one write of approve(), from the copy loaded before the person typed.
RecordOutcome(a) ==
    /\ approver[a] = "recording"
    /\ Write(Approved(copy[a]))
    /\ torn' = torn \ {copy[a].id}
    /\ ApproverStops(a)
    /\ UNCHANGED <<now, diffs, proposerVars, ran, cuts>>

-----------------------------------------------------------------------------
(* Processes killed between two steps, or in the middle of a write.        *)

ProposerKilled(p) ==
    /\ CutShort
    /\ proposer[p] # "idle"
    /\ ProposerStops(p)
    /\ UNCHANGED <<now, store, torn, diffs, approverVars>>

ApproverKilled(a) ==
    /\ CutShort
    /\ approver[a] # "idle"
    /\ ApproverStops(a)
    /\ CutOff(a)
    /\ UNCHANGED <<now, store, torn, diffs, proposerVars>>

\* The file was opened for writing and truncated; nothing of it loads.
TornWrite(record) ==
    /\ CutShort
    /\ Write(record)
    /\ torn' = torn \cup {record.id}

ProposerTearsRecord(p) ==
    /\ \/ proposer[p] = "writing" /\ TornWrite(draft[p])
       \/ /\ proposer[p] = "superseding"
          /\ \E older \in Oldest(recorded[p]) : TornWrite(Superseded(older, draft[p]))
    /\ ProposerStops(p)
    /\ UNCHANGED <<now, diffs, approverVars>>

ApproverTearsRecord(a) ==
    /\ approver[a] = "recording"
    /\ TornWrite(Approved(copy[a]))
    /\ ApproverStops(a)
    /\ UNCHANGED <<now, diffs, proposerVars, ran>>

-----------------------------------------------------------------------------
ProposerStep(p) ==
    \/ \E call \in Call, replay \in Replay : BeginProposal(p, call, replay)
    \/ StartCheck(p)
    \/ CheckPrints(p)
    \/ CheckEnds(p)
    \/ DigestDiff(p)
    \/ SaveAdmitted(p)
    \/ SaveRefused(p)
    \/ CheckTimesOut(p)
    \/ SaveWrites(p)
    \/ \E older \in recorded[p] : SupersedeOlder(p, older)
    \/ ProposalReturns(p)
    \/ ProposerKilled(p)
    \/ ProposerTearsRecord(p)

ApproverStep(a) ==
    \/ \E id \in Id : LoadForApproval(a, id)
    \/ AttestationFails(a)
    \/ Attest(a)
    \/ \E execution \in {"ok", "failed"} : ExecutionEnds(a, execution)
    \/ \E verification \in {"ok", "changed", "failed"} :
            VerificationEnds(a, verification)
    \/ StageTimesOut(a)
    \/ RecordOutcome(a)
    \/ ApproverKilled(a)
    \/ ApproverTearsRecord(a)

Next ==
    \/ Tick
    \/ \E p \in Proposer : ProposerStep(p)
    \/ \E a \in Approver : ApproverStep(a)

Spec == Init /\ [][Next]_vars

-----------------------------------------------------------------------------
(* What the record is worth, whoever runs concurrently.                    *)

\* A record that claims a run tells of one the fleet saw: the whole record is
\* what approve() makes of that run, and "verified" is claimed only of a clean
\* run whose verify step ended cleanly and changed nothing (_outcome).
ClaimsAreBacked ==
    \A id \in Id : store[id] # Absent /\ store[id].status \in Finished =>
        /\ \E run \in ran : store[id] = Approved(run)
        /\ store[id].status = "verified" =>
                store[id].execution = "ok" /\ store[id].verification = "ok"
        /\ store[id].status = "executed" =>
                store[id].execution = "ok" /\ ~HasVerify[OperationOf[store[id].call]]

(***************************************************************************)
(* What holds when one process at a time proposes: the run of a decision   *)
(* and its record then always name the same call.                          *)
(***************************************************************************)

\* The fleet only ever runs a call whose check ran on the hosts and ended, and
\* the digest of its record is of all that this check printed and of nothing
\* else: a played-back check never leads to a run (refuse_replayed), nor one
\* that was cut off, and no check prints into the diff of another.
RunsWereChecked ==
    \A run \in ran : run.replay = Live /\ run.digest = Output(run.call)

\* What was run on the fleet can be looked up: its id names a record of the
\* same call, checked live, that is not a read's finished record.
RunsAreOnRecord ==
    \A run \in ran :
        /\ store[run.id] # Absent
        /\ store[run.id].call = run.call
        /\ store[run.id].digest = run.digest
        /\ store[run.id].replay = Live
        /\ store[run.id].status # "ran"

\* A superseded record points at a later record of the same call and the
\* same replay value, so a reader can follow it to the one that replaced it
\* and a replay never closed a live proposal.
SupersededPointsForward ==
    \A id \in Id : store[id] # Absent /\ store[id].status = "superseded" =>
        LET next == store[id].supersededBy
        IN  /\ next \in Id
            /\ id[2] < next[2]
            /\ store[next] # Absent
            /\ store[next].call = store[id].call
            /\ store[next].replay = store[id].replay

\* What was proposed is never rewritten: the call, its replay value and the
\* digest of its diff stay what they were when the record appeared.
ProposalIsKept == [][
    \A id \in Id : store[id] # Absent =>
        /\ store'[id] # Absent
        /\ store'[id].call = store[id].call
        /\ store'[id].replay = store[id].replay
        /\ store'[id].digest = store[id].digest]_vars

\* When propose() returns, its record is the only one of its call and replay
\* value that may still be open: no duplicate is left to be approved, not
\* even one a killed proposer left behind earlier.
NoOpenDuplicate == [][
    \A p \in Proposer : ProposalReturns(p) =>
        \A id \in Id : store[id] # Absent /\ Replaces(draft[p], store[id]) =>
            id = draft[p].id]_vars

\* The ledger the records stand for (DecisionLedger).
PhaseOf(record) ==
    CASE record = Absent -> "none"
      [] record # Absent /\ record.status = "ran" -> "ran"
      [] record # Absent /\ record.status = "proposed" ->
            IF record.replay = Live THEN "open" ELSE "replayed"
      [] OTHER -> IF record.replay = Live THEN "closed" ELSE "dropped"

Ledger == INSTANCE DecisionLedger WITH
    phase <- [id \in Id |-> PhaseOf(store[id])],
    touched <- {run.id : run \in ran}

\* The records implement the ledger: a decision opens once and never again,
\* and nothing reaches the fleet that was not opened against a live check.
KeepsTheLedger == Ledger!Spec

-----------------------------------------------------------------------------
(* What the code's own words say and concurrent commands break.            *)

\* "Refuse a decision that is not an open proposal, before anything runs."
OnlyOpenProposalsRun == [][
    \A a \in Approver : Attest(a) => Approvable(store[copy[a].id])]_vars
=============================================================================
