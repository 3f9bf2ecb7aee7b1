--------------------------- MODULE DecisionsProof ---------------------------
(***************************************************************************)
(* What Decisions guarantees for every catalog, crew, clock and number of  *)
(* killed processes.                                                       *)
(***************************************************************************)
EXTENDS Decisions, TLAPS

\* A record that may be written to the store.
Sound(record) == record \in Record

\* An approver at work holds a sound copy of a live, open record; once its run
\* is over, the fleet's history tells of exactly that copy.
ApproverInv ==
    \A a \in Approver : approver[a] # "idle" =>
        /\ Sound(copy[a])
        /\ Approvable(copy[a])
        /\ approver[a] = "verifying" => copy[a].execution = "ok"
        /\ approver[a] = "verifying" => HasVerify[OperationOf[copy[a].call]]
        /\ approver[a] = "recording" => copy[a] \in ran

\* A proposer at work holds a draft whose status is the gate's, and the open
\* records it read before its check.
ProposerInv ==
    \A p \in Proposer : proposer[p] # "idle" =>
        /\ draft[p] \in Record
        /\ draft[p].status \in {"proposed", "ran"}
        /\ \A older \in recorded[p] : Sound(older)

StoreInv ==
    \A id \in Id : store[id] # Absent =>
        /\ Sound(store[id])
        /\ store[id].id = id
        /\ store[id].status \in Finished =>
               \E run \in ran : store[id] = Approved(run)

\* Only checks that ran on the hosts lead to runs.
RunsWereLive == \A run \in ran : run.replay = Live

\* The inductive invariant.
IInv ==
    /\ TypeOK
    /\ ApproverInv
    /\ ProposerInv
    /\ StoreInv
    /\ RunsWereLive

-----------------------------------------------------------------------------
(* The operators that make records make records.                           *)

\* Draft builds a record out of a call, a second of the clock and a replay
\* value (propose, before its check ran).
LEMMA DraftIsRecord ==
    ASSUME NEW call \in Call, NEW second \in Second, NEW replay \in Replay
    PROVE  /\ Draft(call, second, replay) \in Record
           /\ Draft(call, second, replay).status \in {"proposed", "ran"}
<1>1. DecisionIdentifier(call, second) \in Id
    BY CatalogAssumption DEF DecisionIdentifier, Id
<1>2. Gate(call) \in {"proposed", "ran"}
    BY DEF Gate
<1>. QED
    BY <1>1, <1>2 DEF Draft, Record, Status, Execution, Verification

\* Marking a record superseded leaves a sound record under the same id.
LEMMA SupersededIsSound ==
    ASSUME NEW older, Sound(older), NEW new \in Record
    PROVE  /\ Sound(Superseded(older, new))
           /\ Superseded(older, new).id = older.id
           /\ Superseded(older, new).status \notin Finished
BY DEF Sound, Superseded, Record, Status, Finished

\* A read recorded as open by an earlier version is a sound record.
LEMMA LegacyReadIsSound ==
    ASSUME NEW call \in Call
    PROVE  /\ Sound(LegacyRead(call, 0))
           /\ LegacyRead(call, 0).id = DecisionIdentifier(call, 0)
           /\ LegacyRead(call, 0).status = "proposed"
<1>1. ASSUME NEW draft0 \in Record, draft0.call = call
      PROVE  LET legacy == [draft0 EXCEPT !.digest = Output(call), !.status = "proposed"]
             IN  Sound(legacy) /\ legacy.id = draft0.id /\ legacy.status = "proposed"
    BY <1>1 DEF Sound, Record, Status, Output
<1>2. 0 \in Second
    BY BoundAssumption DEF Second
<1>3. /\ Draft(call, 0, Live) \in Record
      /\ Draft(call, 0, Live).call = call
      /\ Draft(call, 0, Live).id = DecisionIdentifier(call, 0)
    BY <1>2, DraftIsRecord DEF Replay, Draft
<1>. QED
    BY <1>1, <1>3 DEF LegacyRead

\* Recording an outcome leaves a sound record under the same id.
LEMMA ApprovedIsSound ==
    ASSUME NEW record, Sound(record)
    PROVE  Sound(Approved(record)) /\ Approved(record).id = record.id
<1>1. Outcome(record.call, record.execution, record.verification) \in Status
    BY DEF Outcome, Status
<1>. QED
    BY <1>1 DEF Sound, Approved, Record

-----------------------------------------------------------------------------
(* Preservation, one lemma per process.                                    *)

\* The store a first command finds, legacy reads included, is sound.
LEMMA InitIInv == Init => IInv
<1>. SUFFICES ASSUME Init PROVE IInv
    OBVIOUS
<1>1. PICK legacy \in SUBSET {c \in Call : IsRead(c)} :
        /\ store = [id \in Id |->
                IF \E c \in legacy : id = DecisionIdentifier(c, 0)
                THEN LegacyRead(CHOOSE c \in legacy :
                                    id = DecisionIdentifier(c, 0), 0)
                ELSE Absent]
        /\ diffs = [id \in Id |->
                {piece \in Call \X Piece :
                    piece[1] \in legacy /\ id = DecisionIdentifier(piece[1], 0)}]
    BY DEF Init
<1>2. 0 \in Second
    BY BoundAssumption DEF Second
<1>3. ASSUME NEW id \in Id, store[id] # Absent
      PROVE  Sound(store[id]) /\ store[id].id = id /\ store[id].status = "proposed"
    <2>. DEFINE call == CHOOSE c \in legacy : id = DecisionIdentifier(c, 0)
    <2>1. /\ call \in legacy
          /\ id = DecisionIdentifier(call, 0)
          /\ store[id] = LegacyRead(call, 0)
        BY <1>1, <1>3
    <2>. HIDE DEF call
    <2>. QED
        BY <2>1, LegacyReadIsSound
<1>4. TypeOK
    <2>1. store \in [Id -> Record \cup {Absent}]
        <3>1. \A id \in Id : store[id] \in Record \cup {Absent}
            BY <1>3 DEF Sound
        <3>2. store = [id \in Id |-> store[id]]
            BY <1>1
        <3>. QED
            BY <3>1, <3>2
    <2>2. diffs \in [Id -> SUBSET (Call \X Piece)]
        BY <1>1
    <2>. QED
        BY <1>2, <2>1, <2>2, BoundAssumption DEF Init, TypeOK
<1>. QED
    BY <1>3, <1>4
    DEF Init, IInv, ApproverInv, ProposerInv, StoreInv, RunsWereLive, Finished

\* One write of a sound record, backed by the history if it claims a run,
\* keeps the store sound (DecisionStore._write).
LEMMA WriteKeepsStore ==
    ASSUME TypeOK, StoreInv, ran \subseteq ran',
           NEW record, Sound(record), Write(record),
           record.status \in Finished => \E run \in ran' : record = Approved(run)
    PROVE  StoreInv' /\ store' \in [Id -> Record \cup {Absent}]
<1>1. record.id \in Id
    BY DEF Sound, Record
<1>2. store' = [store EXCEPT ![record.id] = record]
    BY DEF Write
<1>3. \A id \in Id : store'[id] = IF id = record.id THEN record ELSE store[id]
    BY <1>1, <1>2 DEF TypeOK
<1>. QED
    BY <1>1, <1>2, <1>3 DEF TypeOK, StoreInv, Sound

\* Records nobody writes stay backed while the history grows.
LEMMA StoreKept ==
    ASSUME StoreInv, ran \subseteq ran', UNCHANGED store
    PROVE  StoreInv'
BY DEF StoreInv

\* A proposer's steps keep the invariant.
LEMMA ProposerStepKeepsIInv ==
    ASSUME IInv, NEW p \in Proposer, ProposerStep(p)
    PROVE  IInv'
<1>. USE DEF IInv
<1>1. ASSUME NEW call \in Call, NEW replay \in Replay, BeginProposal(p, call, replay)
      PROVE  IInv'
    <2>1. /\ Draft(call, now, replay) \in Record
          /\ Draft(call, now, replay).status \in {"proposed", "ran"}
        BY DraftIsRecord DEF TypeOK
    <2>2. ASSUME NEW older \in StoredRecords PROVE Sound(older)
        BY DEF StoredRecords, StoreInv
    <2>3. StoredRecords \subseteq Record
        BY <2>2 DEF Sound
    <2>4. TypeOK'
        BY <1>1, <2>1, <2>3 DEF BeginProposal, TypeOK, approverVars
    <2>5. ProposerInv'
        BY <1>1, <2>1, <2>2 DEF BeginProposal, TypeOK, ProposerInv, Sound
    <2>. QED
        BY <1>1, <2>4, <2>5, StoreKept
        DEF BeginProposal, approverVars, ApproverInv, RunsWereLive, Sound, Approvable
<1>2. ASSUME NEW stage \in {"checking", "printing", "checked", "saving", "writing"},
             proposer[p] # "idle",
             proposer' = [proposer EXCEPT ![p] = stage],
             diffs' \in [Id -> SUBSET (Call \X Piece)],
             draft' \in [Proposer -> Record \cup {Absent}],
             draft'[p] \in Record /\ draft'[p].status = draft[p].status,
             \A q \in Proposer \ {p} : draft'[q] = draft[q],
             UNCHANGED <<now, store, torn, recorded, approverVars, cuts>>
      PROVE  IInv'
    <2>1. TypeOK'
        BY <1>2 DEF TypeOK, approverVars
    <2>2. ProposerInv'
        BY <1>2 DEF TypeOK, ProposerInv, Sound
    <2>. QED
        BY <1>2, <2>1, <2>2, StoreKept
        DEF approverVars, ApproverInv, RunsWereLive, Sound, Approvable
<1>3. ASSUME proposer[p] # "idle"
       PROVE  draft[p] \in Record /\ draft[p].id \in Id /\ draft[p].call \in Call
    BY <1>3 DEF ProposerInv, Record
<1>4. CASE StartCheck(p)
    BY <1>2, <1>3, <1>4 DEF StartCheck, TypeOK
<1>5. ASSUME CheckPrints(p) \/ CheckEnds(p) PROVE IInv'
    <2>1. PICK piece \in Piece : Prints(p, piece)
        BY <1>5 DEF CheckPrints, CheckEnds, Piece
    <2>2. diffs' \in [Id -> SUBSET (Call \X Piece)]
        BY <1>3, <1>5, <2>1 DEF CheckPrints, CheckEnds, Prints, TypeOK
    <2>. QED
        BY <1>2, <1>3, <1>5, <2>2 DEF CheckPrints, CheckEnds, TypeOK
<1>6. CASE DigestDiff(p)
    <2>. DEFINE digest == diffs[draft[p].id]
                new == [draft[p] EXCEPT !.digest = digest]
    <2>1. /\ proposer[p] # "idle"
          /\ proposer' = [proposer EXCEPT ![p] = "saving"]
          /\ draft' = [draft EXCEPT ![p] = new]
          /\ UNCHANGED diffs
          /\ UNCHANGED <<now, store, torn, recorded, approverVars, cuts>>
        BY <1>6 DEF DigestDiff
    <2>2. digest \in SUBSET (Call \X Piece)
        BY <1>3, <2>1 DEF TypeOK
    <2>3. new \in Record /\ new.status = draft[p].status
        BY <1>3, <2>1, <2>2 DEF Record
    <2>. HIDE DEF new
    <2>4. /\ draft' \in [Proposer -> Record \cup {Absent}]
          /\ draft'[p] \in Record /\ draft'[p].status = draft[p].status
          /\ \A q \in Proposer \ {p} : draft'[q] = draft[q]
        BY <2>1, <2>3 DEF TypeOK
    <2>5. diffs' \in [Id -> SUBSET (Call \X Piece)]
        BY <2>1 DEF TypeOK
    <2>. QED
        BY <1>2, <2>1, <2>4, <2>5
<1>7. CASE SaveAdmitted(p)
    BY <1>2, <1>3, <1>7 DEF SaveAdmitted, TypeOK
<1>8. ASSUME ProposerStops(p), UNCHANGED <<now, store, torn, approverVars>>,
             UNCHANGED diffs, cuts' \in 0..MaxCuts
      PROVE  IInv'
    <2>1. TypeOK'
        BY <1>8 DEF ProposerStops, TypeOK, approverVars
    <2>2. ProposerInv'
        BY <1>8 DEF ProposerStops, TypeOK, ProposerInv, Sound
    <2>. QED
        BY <1>8, <2>1, <2>2, StoreKept
        DEF approverVars, ApproverInv, RunsWereLive, Sound, Approvable
<1>9. CASE SaveRefused(p)
    BY <1>8, <1>9 DEF SaveRefused, TypeOK
<1>10. CASE CheckTimesOut(p) \/ ProposerKilled(p)
    BY <1>8, <1>10, BoundAssumption DEF CheckTimesOut, ProposerKilled, CutShort, TypeOK
<1>11. CASE ProposalReturns(p)
    BY <1>8, <1>11 DEF ProposalReturns, TypeOK
<1>12. ASSUME NEW record, Sound(record), record.status \notin Finished,
             Write(record), torn' \in SUBSET Id, cuts' \in 0..MaxCuts,
             UNCHANGED <<now, diffs, approverVars>>,
             \/ UNCHANGED <<draft, recorded>> /\ proposer[p] = "writing"
                    /\ proposer' = [proposer EXCEPT ![p] = "superseding"]
             \/ UNCHANGED <<proposer, draft>>
                    /\ \E older : recorded' = [recorded EXCEPT ![p] = @ \ {older}]
             \/ ProposerStops(p)
      PROVE  IInv'
    <2>1. StoreInv' /\ store' \in [Id -> Record \cup {Absent}]
        BY <1>12, WriteKeepsStore DEF approverVars
    <2>2. TypeOK'
        BY <1>12, <2>1 DEF TypeOK, approverVars, ProposerStops
    <2>3. ProposerInv'
        BY <1>12 DEF TypeOK, ProposerInv, ProposerStops, Sound
    <2>. QED
        BY <1>12, <2>1, <2>2, <2>3
        DEF approverVars, ApproverInv, RunsWereLive, Sound, Approvable
<1>13. ASSUME proposer[p] = "writing"
      PROVE  Sound(draft[p]) /\ draft[p].status \notin Finished
    BY <1>13 DEF ProposerInv, Sound, Finished
<1>14. ASSUME proposer[p] = "superseding", NEW older \in recorded[p]
      PROVE  /\ Sound(Superseded(older, draft[p]))
             /\ Superseded(older, draft[p]).status \notin Finished
    BY <1>14, SupersededIsSound DEF ProposerInv
<1>15. CASE SaveWrites(p)
    BY <1>12, <1>13, <1>15 DEF SaveWrites, TypeOK
<1>16. ASSUME NEW older \in recorded[p], SupersedeOlder(p, older) PROVE IInv'
    BY <1>12, <1>14, <1>16 DEF SupersedeOlder, TypeOK
<1>17. CASE ProposerTearsRecord(p)
    <2>1. PICK record : Sound(record) /\ record.status \notin Finished /\ TornWrite(record)
        BY <1>13, <1>14, <1>17 DEF ProposerTearsRecord, Oldest
    <2>2. torn' \in SUBSET Id /\ cuts' \in 0..MaxCuts
        BY <2>1, BoundAssumption DEF TornWrite, CutShort, TypeOK, Sound, Record
    <2>. QED
        BY <1>12, <1>17, <2>1, <2>2 DEF ProposerTearsRecord, TornWrite
<1>. QED
    BY <1>1, <1>9, <1>10, <1>11, <1>15, <1>16, <1>17, <1>4, <1>5, <1>6, <1>7
    DEF ProposerStep

\* What an approver's step does with its copy, when the store stays as it is
\* and any run added to the history is of a sound, live record.
LEMMA ApproverMoves ==
    ASSUME IInv, NEW a \in Approver,
           UNCHANGED <<now, store, torn, diffs, proposerVars>>,
           cuts' \in 0..MaxCuts,
           ran \subseteq ran',
           \A run \in ran' \ ran : Sound(run) /\ run.replay = Live,
           NEW stage \in {"idle", "attesting", "executing", "verifying", "recording"},
           approver' = [approver EXCEPT ![a] = stage],
           NEW held \in Record \cup {Absent},
           copy' = [copy EXCEPT ![a] = held],
           stage # "idle" =>
               /\ Sound(held) /\ Approvable(held)
               /\ stage = "verifying" => held.execution = "ok"
               /\ stage = "verifying" => HasVerify[OperationOf[held.call]]
               /\ stage = "recording" => held \in ran'
    PROVE  IInv'
<1>1. TypeOK'
    BY DEF IInv, TypeOK, proposerVars, Sound
<1>2. ApproverInv'
    BY DEF IInv, TypeOK, ApproverInv, Sound, Approvable
<1>3. ProposerInv'
    BY DEF IInv, proposerVars, ProposerInv, Sound
<1>4. StoreInv'
    BY StoreKept DEF IInv
<1>5. RunsWereLive'
    BY DEF IInv, RunsWereLive, Sound
<1>. QED
    BY <1>1, <1>2, <1>3, <1>4, <1>5 DEF IInv

\* A stage that ends or is cut off changes only what the run did.
LEMMA StagesAreSound ==
    ASSUME NEW record, Sound(record), Approvable(record)
    PROVE  /\ \A a \in Approver :
                LET r == [record EXCEPT !.approver = a]
                IN  Sound(r) /\ Approvable(r)
           /\ \A execution \in Execution :
                LET r == [record EXCEPT !.execution = execution]
                IN  Sound(r) /\ Approvable(r) /\ r.execution = execution
                    /\ r.call = record.call
           /\ \A verification \in Verification :
                LET r == [record EXCEPT !.verification = verification]
                IN  Sound(r) /\ Approvable(r)
BY DEF Sound, Approvable, Record

\* An approver's steps keep the invariant.
LEMMA ApproverStepKeepsIInv ==
    ASSUME IInv, NEW a \in Approver, ApproverStep(a)
    PROVE  IInv'
<1>1. approver[a] # "idle" => Sound(copy[a]) /\ Approvable(copy[a])
    BY DEF IInv, ApproverInv
<1>2. cuts \in 0..MaxCuts /\ (CutShort => cuts' \in 0..MaxCuts)
    BY BoundAssumption DEF IInv, TypeOK, CutShort
<1>3. ASSUME NEW id \in Id, LoadForApproval(a, id) PROVE IInv'
    <2>1. Sound(store[id]) /\ Approvable(store[id]) /\ store[id] \in Record
        BY <1>3 DEF IInv, StoreInv, LoadForApproval, Sound
    <2>. QED
        BY <1>2, <1>3, <2>1, ApproverMoves DEF LoadForApproval
<1>4. CASE Attest(a)
    <2>. DEFINE held == [copy[a] EXCEPT !.approver = a]
    <2>1. Sound(held) /\ Approvable(held) /\ held \in Record
        BY <1>1, <1>4, StagesAreSound DEF Attest, Sound
    <2>2. copy' = [copy EXCEPT ![a] = held]
        BY <1>4 DEF Attest
    <2>. HIDE DEF held
    <2>. QED
        BY <1>2, <1>4, <2>1, <2>2, ApproverMoves DEF Attest
<1>5. ASSUME NEW execution \in {"ok", "failed"}, ExecutionEnds(a, execution)
      PROVE  IInv'
    <2>. DEFINE held == [copy[a] EXCEPT !.execution = execution]
                verify == execution = "ok" /\ HasVerify[OperationOf[held.call]]
                stage == IF verify THEN "verifying" ELSE "recording"
    <2>1. /\ Sound(held) /\ Approvable(held) /\ held \in Record
          /\ held.execution = execution
        BY <1>1, <1>5, StagesAreSound DEF ExecutionEnds, Sound, Execution
    <2>2. /\ copy' = [copy EXCEPT ![a] = held]
          /\ approver' = [approver EXCEPT ![a] = stage]
          /\ ran' = IF verify THEN ran ELSE ran \cup {held}
          /\ UNCHANGED <<now, store, torn, diffs, proposerVars, cuts>>
        BY <1>5 DEF ExecutionEnds
    <2>. HIDE DEF held
    <2>. QED
        BY <1>2, <2>1, <2>2, ApproverMoves DEF Approvable
<1>6. ASSUME NEW verification \in {"ok", "changed", "failed"},
             VerificationEnds(a, verification)
      PROVE  IInv'
    <2>. DEFINE held == [copy[a] EXCEPT !.verification = verification]
    <2>1. Sound(held) /\ Approvable(held) /\ held \in Record
        BY <1>1, <1>6, StagesAreSound DEF VerificationEnds, Sound, Verification
    <2>2. /\ copy' = [copy EXCEPT ![a] = held]
          /\ approver' = [approver EXCEPT ![a] = "recording"]
          /\ ran' = ran \cup {held}
          /\ UNCHANGED <<now, store, torn, diffs, proposerVars, cuts>>
        BY <1>6 DEF VerificationEnds
    <2>. HIDE DEF held
    <2>. QED
        BY <1>2, <2>1, <2>2, ApproverMoves DEF Approvable
<1>7. ASSUME ApproverStops(a), UNCHANGED <<now, store, torn, diffs, proposerVars>>,
             cuts' \in 0..MaxCuts, approver[a] # "idle", ran' = ran \/ CutOff(a)
      PROVE  IInv'
    <2>1. ran \subseteq ran' /\ \A run \in ran' \ ran : Sound(run) /\ run.replay = Live
        <3>1. CASE ran' = ran
            BY <3>1
        <3>2. CASE CutOff(a)
            <4>1. ran' \subseteq ran \cup {[copy[a] EXCEPT !.execution = "timeout"],
                                        [copy[a] EXCEPT !.verification = "timeout"]}
                BY <3>2 DEF CutOff
            <4>2. ran \subseteq ran'
                BY <3>2 DEF CutOff
            <4>3. LET r == [copy[a] EXCEPT !.execution = "timeout"]
                  IN  Sound(r) /\ r.replay = Live
                BY <1>1, <1>7, StagesAreSound DEF Execution, Approvable
            <4>4. LET r == [copy[a] EXCEPT !.verification = "timeout"]
                  IN  Sound(r) /\ r.replay = Live
                BY <1>1, <1>7, StagesAreSound DEF Verification, Approvable
            <4>. QED
                BY <4>1, <4>2, <4>3, <4>4
        <3>. QED
            BY <1>7, <3>1, <3>2
    <2>. QED
        BY <1>7, <2>1, ApproverMoves DEF ApproverStops
<1>8. CASE AttestationFails(a)
    BY <1>2, <1>7, <1>8 DEF AttestationFails
<1>9. CASE StageTimesOut(a)
    BY <1>2, <1>7, <1>9 DEF StageTimesOut
<1>10. CASE ApproverKilled(a)
    BY <1>2, <1>7, <1>10 DEF ApproverKilled
<1>11. ASSUME approver[a] = "recording", Write(Approved(copy[a])), ApproverStops(a),
              torn' \in SUBSET Id, cuts' \in 0..MaxCuts,
              UNCHANGED <<now, diffs, proposerVars, ran>>
       PROVE  IInv'
    <2>1. Sound(Approved(copy[a])) /\ copy[a] \in ran
        BY <1>1, <1>11, ApprovedIsSound DEF IInv, ApproverInv
    <2>2. StoreInv' /\ store' \in [Id -> Record \cup {Absent}]
        BY <1>11, <2>1, WriteKeepsStore DEF IInv
    <2>3. TypeOK'
        BY <1>11, <2>2 DEF IInv, TypeOK, ApproverStops, proposerVars
    <2>4. ApproverInv'
        BY <1>11 DEF IInv, TypeOK, ApproverInv, ApproverStops, Sound, Approvable
    <2>5. ProposerInv' /\ RunsWereLive'
        BY <1>11 DEF IInv, ProposerInv, RunsWereLive, proposerVars, Sound
    <2>. QED
        BY <2>2, <2>3, <2>4, <2>5 DEF IInv
<1>12. CASE RecordOutcome(a)
    BY <1>2, <1>11, <1>12 DEF RecordOutcome, IInv, TypeOK
<1>13. CASE ApproverTearsRecord(a)
    <2>1. torn' \in SUBSET Id
        <3>1. Approved(copy[a]).id \in Id
            BY <1>1, <1>13, ApprovedIsSound DEF ApproverTearsRecord, Sound, Record
        <3>. QED
            BY <1>13, <3>1 DEF ApproverTearsRecord, TornWrite, IInv, TypeOK
    <2>. QED
        BY <1>2, <1>11, <1>13, <2>1 DEF ApproverTearsRecord, TornWrite
<1>. QED
    BY <1>3, <1>4, <1>5, <1>6, <1>8, <1>9, <1>10, <1>12, <1>13 DEF ApproverStep

\* A second passes.
LEMMA TickKeepsIInv == IInv /\ Tick => IInv'
<1>. SUFFICES ASSUME IInv, Tick PROVE IInv'
    OBVIOUS
<1>1. TypeOK'
    BY BoundAssumption DEF IInv, TypeOK, Tick, Second, proposerVars, approverVars
<1>. QED
    BY <1>1, StoreKept
    DEF IInv, Tick, proposerVars, approverVars, ApproverInv, ProposerInv,
        RunsWereLive, Sound, Approvable

\* Every step of every command keeps the invariant.
LEMMA NextKeepsIInv == IInv /\ [Next]_vars => IInv'
<1>. SUFFICES ASSUME IInv, [Next]_vars PROVE IInv'
    OBVIOUS
<1>1. CASE UNCHANGED vars
    BY <1>1 DEF vars, IInv, TypeOK, proposerVars, approverVars, ApproverInv,
                ProposerInv, StoreInv, RunsWereLive, Sound, Approvable
<1>. QED
    BY <1>1, TickKeepsIInv, ProposerStepKeepsIInv, ApproverStepKeepsIInv DEF Next

-----------------------------------------------------------------------------
\* The invariant holds throughout, whoever runs concurrently.
THEOREM InductiveInvariant == Spec => []IInv
BY InitIInv, NextKeepsIInv, PTL DEF Spec

\* Every reachable state is well typed: what the commands write is a record
\* the schema knows, whatever they interleave with.
THEOREM TypeCorrect == Spec => []TypeOK
<1>1. IInv => TypeOK
    BY DEF IInv
<1>. QED
    BY <1>1, InductiveInvariant, PTL

\* A backed record's status is the one its own stages earned.
LEMMA ApprovedTellsOutcome ==
    ASSUME NEW run \in Record
    PROVE  LET record == Approved(run) IN
           /\ record.status = "verified" =>
                  record.execution = "ok" /\ record.verification = "ok"
           /\ record.status = "executed" =>
                  record.execution = "ok" /\ ~HasVerify[OperationOf[record.call]]
<1>1. /\ Approved(run).status = Outcome(run.call, run.execution, run.verification)
      /\ Approved(run).execution = run.execution
      /\ Approved(run).verification = run.verification
      /\ Approved(run).call = run.call
    BY DEF Approved, Record
<1>. QED
    BY <1>1 DEF Outcome

\* No record claims a run the fleet did not see, nor a better end than its
\* run had: with any number of proposers and approvers at work, killed or cut
\* off anywhere, over stale copies and torn files.
THEOREM ClaimsAreAlwaysBacked == Spec => []ClaimsAreBacked
<1>1. IInv => ClaimsAreBacked
    <2>. SUFFICES ASSUME IInv, NEW id \in Id,
                         store[id] # Absent, store[id].status \in Finished
                  PROVE  /\ \E run \in ran : store[id] = Approved(run)
                         /\ store[id].status = "verified" =>
                              store[id].execution = "ok" /\ store[id].verification = "ok"
                         /\ store[id].status = "executed" =>
                              /\ store[id].execution = "ok"
                              /\ ~HasVerify[OperationOf[store[id].call]]
        BY DEF ClaimsAreBacked
    <2>1. PICK run \in ran : store[id] = Approved(run)
        BY DEF IInv, StoreInv
    <2>2. run \in Record
        BY DEF IInv, TypeOK
    <2>. QED
        BY <2>1, <2>2, ApprovedTellsOutcome
<1>. QED
    BY <1>1, InductiveInvariant, PTL

(***************************************************************************)
(* When one process at a time proposes, what was written stays written.    *)
(***************************************************************************)
OneProposer == \A p, q \in Proposer : p = q

\* The store holds what a record proposed, and no finished read.
OnFile(record) ==
    /\ store[record.id] # Absent
    /\ store[record.id].call = record.call
    /\ store[record.id].replay = record.replay
    /\ store[record.id].digest = record.digest
    /\ store[record.id].status # "ran"

\* Ids carry the operation and a second that has come, records digest the whole
\* output of the check of their call, and superseded ones point at a later one.
FiledInv ==
    /\ \A id \in Id : store[id] # Absent =>
            /\ id[1] = OperationOf[store[id].call]
            /\ id[2] <= now
            /\ store[id].digest = Output(store[id].call)
    /\ SupersededPointsForward

\* Every copy and every run has its record on file.
CopiesInv ==
    /\ \A a \in Approver : approver[a] # "idle" => OnFile(copy[a])
    /\ \A run \in ran : OnFile(run)

\* How far the check of a draft has printed, and what of it is digested.
DiffSound(p) ==
    LET diff == diffs[draft[p].id]
        call == draft[p].call
    IN  /\ proposer[p] = "checking" => diff = {}
        /\ proposer[p] = "printing" => diff = {<<call, "first">>}
        /\ proposer[p] = "checked" => diff = Output(call)
        /\ proposer[p] \in {"saving", "writing", "superseding"} =>
               draft[p].digest = Output(call)

\* The id of a draft about to be written is free; the records it replaces are
\* older ones of its call, still on file; once written it is on file itself.
DraftSound(p) ==
    /\ DiffSound(p)
    /\ draft[p].id[1] = OperationOf[draft[p].call]
    /\ draft[p].id[2] <= now
    /\ proposer[p] = "writing" => store[draft[p].id] = Absent
    /\ proposer[p] = "superseding" =>
           /\ store[draft[p].id] # Absent
           /\ store[draft[p].id].call = draft[p].call
           /\ store[draft[p].id].replay = draft[p].replay
    /\ \A older \in recorded[p] :
           /\ Replaces(draft[p], older)
           /\ OnFile(older)
           /\ older.id[1] = draft[p].id[1]
           /\ older.id[2] <= draft[p].id[2]
           /\ proposer[p] \in {"writing", "superseding"} => older.id # draft[p].id

DraftInv == \A p \in Proposer : proposer[p] # "idle" => DraftSound(p)

\* The inductive invariant of one proposer at a time.
SerialInv == IInv /\ FiledInv /\ CopiesInv /\ DraftInv

\* A superseded record names a later one of its call and its replay value.
PointsForward(id, record) ==
    /\ record.supersededBy \in Id
    /\ id[2] < record.supersededBy[2]
    /\ store[record.supersededBy] # Absent
    /\ store[record.supersededBy].call = record.call
    /\ store[record.supersededBy].replay = record.replay

\* The two kinds of write: a draft to a free id, and what became of a record
\* to the id it is on file under.
Opens(record) ==
    /\ store[record.id] = Absent
    /\ record.status \in {"proposed", "ran"}
    /\ record.id[1] = OperationOf[record.call]
    /\ record.id[2] <= now
    /\ record.digest = Output(record.call)

Closes(record) ==
    /\ OnFile(record)
    /\ record.status \notin {"proposed", "ran"}
    /\ record.status = "superseded" => PointsForward(record.id, record)

WritesWell(record) == Sound(record) /\ Write(record) /\ (Opens(record) \/ Closes(record))

\* What was on file stays on file as it was proposed.
KeepsProposals ==
    \A id \in Id : store[id] # Absent =>
        /\ store'[id] # Absent
        /\ store'[id].call = store[id].call
        /\ store'[id].replay = store[id].replay
        /\ store'[id].digest = store[id].digest
        /\ store[id].status # "ran" => store'[id].status # "ran"

\* How a step treats the store, and how it treats the fleet.
StoreMoves == UNCHANGED store \/ \E record : WritesWell(record)

FleetMoves ==
    \/ UNCHANGED ran
    \/ \E run : /\ ran' = ran \cup {run}
               /\ Sound(run) /\ run.replay = Live /\ OnFile(run)

\* An update changes the record under its own id and no other.
LEMMA WritesOneRecord ==
    ASSUME TypeOK, NEW record, Sound(record), Write(record)
    PROVE  /\ record.id \in Id
           /\ \A id \in Id : store'[id] = IF id = record.id THEN record ELSE store[id]
<1>1. record.id \in Id
    BY DEF Sound, Record
<1>. QED
    BY <1>1 DEF TypeOK, Write

\* No write of a draft or of an outcome rewrites a proposal.
LEMMA StoreMovesKeepProposals ==
    ASSUME TypeOK, StoreMoves
    PROVE  KeepsProposals
<1>1. CASE UNCHANGED store
    BY <1>1 DEF KeepsProposals
<1>2. ASSUME NEW record, WritesWell(record) PROVE KeepsProposals
    <2>1. /\ record.id \in Id
          /\ \A id \in Id : store'[id] = IF id = record.id THEN record ELSE store[id]
        BY <1>2, WritesOneRecord DEF WritesWell
    <2>2. record # Absent
        BY <1>2, AbsentAssumption DEF WritesWell, Sound
    <2>3. store[record.id] # Absent =>
            /\ store[record.id].call = record.call
            /\ store[record.id].replay = record.replay
            /\ store[record.id].digest = record.digest
            /\ record.status # "ran"
        BY <1>2 DEF WritesWell, Opens, Closes, OnFile
    <2>. QED
        BY <2>1, <2>2, <2>3 DEF KeepsProposals
<1>. QED
    BY <1>1, <1>2 DEF StoreMoves

\* What is on file stays on file.
LEMMA StaysOnFile ==
    ASSUME KeepsProposals, NEW record, record.id \in Id, OnFile(record)
    PROVE  /\ store'[record.id] # Absent
           /\ store'[record.id].call = record.call
           /\ store'[record.id].replay = record.replay
           /\ store'[record.id].digest = record.digest
           /\ store'[record.id].status # "ran"
BY DEF KeepsProposals, OnFile

\* Ids stay in order and superseded records keep pointing forward.
LEMMA FiledKept ==
    ASSUME TypeOK, FiledInv, StoreMoves, now' \in Second, now <= now'
    PROVE  FiledInv'
<1>1. KeepsProposals
    BY StoreMovesKeepProposals
<1>2. ASSUME NEW id \in Id PROVE id[2] \in Nat
    BY BoundAssumption DEF Id, Second
<1>3. now \in Nat /\ now' \in Nat
    BY BoundAssumption DEF TypeOK, Second
<1>4. ASSUME NEW id \in Id, store'[id] # Absent
      PROVE  /\ id[1] = OperationOf[store'[id].call] /\ id[2] <= now'
             /\ store'[id].digest = Output(store'[id].call)
    <2>1. CASE store[id] # Absent
        <3>1. /\ id[1] = OperationOf[store[id].call] /\ id[2] <= now
              /\ store[id].digest = Output(store[id].call)
            BY <2>1 DEF FiledInv
        <3>2. store'[id].call = store[id].call /\ store'[id].digest = store[id].digest
            BY <1>1, <2>1 DEF KeepsProposals
        <3>. QED
            BY <1>2, <1>3, <3>1, <3>2
    <2>2. CASE store[id] = Absent
        <3>1. PICK record : WritesWell(record)
            BY <1>4, <2>2 DEF StoreMoves
        <3>2. /\ record.id \in Id
              /\ store'[id] = IF id = record.id THEN record ELSE store[id]
            BY <3>1, WritesOneRecord DEF WritesWell
        <3>3. store'[id] = record /\ id = record.id
            BY <1>4, <2>2, <3>2
        <3>4. Opens(record)
            BY <2>2, <3>1, <3>3 DEF WritesWell, Closes, OnFile
        <3>. QED
            BY <1>2, <1>3, <3>3, <3>4 DEF Opens
    <2>. QED
        BY <2>1, <2>2
<1>5. ASSUME NEW id \in Id, store'[id] # Absent, store'[id].status = "superseded"
      PROVE  PointsForward(id, store[id])'
    <2>1. CASE store'[id] = store[id]
        <3>1. PointsForward(id, store[id])
            BY <1>5, <2>1 DEF FiledInv, SupersededPointsForward, PointsForward
        <3>2. PointsForward(id, store[id])'
            BY <1>1, <2>1, <3>1 DEF PointsForward, KeepsProposals
        <3>. QED
            BY <2>1, <3>2
    <2>2. ASSUME NEW record, WritesWell(record), store'[id] = record, id = record.id
          PROVE  PointsForward(id, store[id])'
        <3>1. PointsForward(id, record)
            BY <1>5, <2>2 DEF WritesWell, Opens, Closes
        <3>. QED
            BY <1>1, <2>2, <3>1 DEF PointsForward, KeepsProposals
    <2>3. CASE UNCHANGED store
        BY <2>1, <2>3
    <2>4. ASSUME NEW record, WritesWell(record) PROVE PointsForward(id, store[id])'
        <3>1. /\ record.id \in Id
              /\ store'[id] = IF id = record.id THEN record ELSE store[id]
            BY <2>4, WritesOneRecord DEF WritesWell
        <3>. QED
            BY <2>1, <2>2, <2>4, <3>1
    <2>. QED
        BY <2>3, <2>4 DEF StoreMoves
<1>6. SupersededPointsForward'
    BY <1>5 DEF SupersededPointsForward, PointsForward
<1>. QED
    BY <1>4, <1>6 DEF FiledInv

\* The copies of approvers and the runs of the past stay on file.
LEMMA CopiesKept ==
    ASSUME IInv, CopiesInv, KeepsProposals, UNCHANGED <<approver, copy, ran>>
    PROVE  CopiesInv'
<1>1. ASSUME NEW a \in Approver, approver[a] # "idle" PROVE OnFile(copy[a])'
    <2>1. copy[a].id \in Id /\ OnFile(copy[a])
        BY <1>1 DEF IInv, ApproverInv, CopiesInv, Sound, Record
    <2>2. copy'[a] = copy[a]
        OBVIOUS
    <2>. QED
        BY <2>1, <2>2, StaysOnFile DEF OnFile
<1>2. ASSUME NEW run \in ran PROVE OnFile(run)'
    <2>1. run.id \in Id /\ OnFile(run)
        BY <1>2 DEF IInv, TypeOK, CopiesInv, Record
    <2>. QED
        BY <2>1, StaysOnFile DEF OnFile
<1>. QED
    BY <1>1, <1>2 DEF CopiesInv

\* A draft stays sound while others write: what is on file stays there, and
\* a free id stays free.
LEMMA DraftKept ==
    ASSUME IInv, DraftInv, KeepsProposals, UNCHANGED <<proposerVars, diffs>>,
           now \in Nat, now' \in Nat, now <= now',
           \A id \in Id : store[id] = Absent => store'[id] = Absent
    PROVE  DraftInv'
<1>. SUFFICES ASSUME NEW p \in Proposer, proposer[p] # "idle"
              PROVE  DraftSound(p)'
    BY DEF DraftInv, proposerVars
<1>1. DraftSound(p)
    BY DEF DraftInv
<1>2. /\ draft[p].id \in Id
      /\ draft[p].id[2] \in Nat
      /\ \A older \in recorded[p] : older.id \in Id
    BY BoundAssumption DEF IInv, ProposerInv, Sound, Record, Id, Second
<1>3. proposer' = proposer /\ draft' = draft /\ recorded' = recorded
    BY DEF proposerVars
<1>4. draft[p].id[2] <= now'
    BY <1>1, <1>2 DEF DraftSound
<1>5. \A older \in recorded[p] : OnFile(older) => OnFile(older)'
    BY <1>2, StaysOnFile DEF OnFile
<1>6. proposer[p] = "writing" => store'[draft[p].id] = Absent
    BY <1>1, <1>2 DEF DraftSound
<1>7. proposer[p] = "superseding" =>
        /\ store'[draft[p].id] # Absent
        /\ store'[draft[p].id].call = draft[p].call
        /\ store'[draft[p].id].replay = draft[p].replay
    BY <1>1, <1>2 DEF DraftSound, KeepsProposals
<1>8. DiffSound(p)'
    BY <1>1, <1>3 DEF DraftSound, DiffSound
<1>. QED
    BY <1>1, <1>3, <1>4, <1>5, <1>6, <1>7, <1>8 DEF DraftSound

\* The draft of a proposal that writes down what replaced an older record.
LEMMA SupersedingCloses ==
    ASSUME SerialInv, NEW p \in Proposer, proposer[p] = "superseding",
           NEW older \in recorded[p]
    PROVE  /\ Sound(Superseded(older, draft[p]))
           /\ Superseded(older, draft[p]).id = older.id
           /\ Closes(Superseded(older, draft[p]))
<1>. DEFINE new == draft[p]
            record == Superseded(older, new)
<1>1. DraftSound(p) /\ Sound(older) /\ new \in Record
    BY DEF SerialInv, IInv, ProposerInv, DraftInv
<1>2. /\ Sound(record)
      /\ record.id = older.id
    BY <1>1, SupersededIsSound
<1>3. /\ record.call = older.call
      /\ record.replay = older.replay
      /\ record.digest = older.digest
      /\ record.status = "superseded"
      /\ record.supersededBy = new.id
    BY <1>1 DEF Superseded, Sound, Record
<1>4. /\ OnFile(older)
      /\ older.call = new.call
      /\ older.replay = new.replay
      /\ older.id[1] = new.id[1]
      /\ older.id[2] <= new.id[2]
      /\ older.id # new.id
      /\ store[new.id] # Absent
      /\ store[new.id].call = new.call
      /\ store[new.id].replay = new.replay
    BY <1>1 DEF DraftSound, Replaces
<1>5. older.id \in Operation \X Second /\ new.id \in Operation \X Second
    BY <1>1 DEF Sound, Record, Id
<1>6. older.id[2] \in Nat /\ new.id[2] \in Nat /\ older.id[2] # new.id[2]
    BY <1>4, <1>5, BoundAssumption DEF Second
<1>7. older.id[2] < new.id[2]
    BY <1>4, <1>6
<1>8. OnFile(record)
    BY <1>2, <1>3, <1>4 DEF OnFile
<1>9. PointsForward(record.id, record)
    BY <1>2, <1>3, <1>4, <1>5, <1>7 DEF PointsForward, Id
<1>10. Closes(record)
    BY <1>3, <1>8, <1>9 DEF Closes
<1>. QED
    BY <1>2, <1>10

\* The draft of a proposal whose id is free.
LEMMA DraftOpens ==
    ASSUME SerialInv, NEW p \in Proposer, proposer[p] = "writing"
    PROVE  Sound(draft[p]) /\ Opens(draft[p])
<1>1. DraftSound(p) /\ Sound(draft[p]) /\ draft[p].status \in {"proposed", "ran"}
    BY DEF SerialInv, IInv, ProposerInv, DraftInv, Sound
<1>. QED
    BY <1>1 DEF Opens, DraftSound, DiffSound

\* A proposer's step writes a draft to a free id or marks an older record, and
\* never touches the fleet.
LEMMA ProposerStepMoves ==
    ASSUME OneProposer, SerialInv, NEW p \in Proposer, ProposerStep(p)
    PROVE  StoreMoves /\ DraftInv' /\ now' = now /\ UNCHANGED approverVars
<1>1. /\ TypeOK /\ StoreInv
      /\ now \in Nat
      /\ draft \in [Proposer -> Record \cup {Absent}]
      /\ \A q \in Proposer : q = p
    BY BoundAssumption DEF SerialInv, IInv, TypeOK, Second, OneProposer
<1>2. ASSUME ProposerStops(p) PROVE DraftInv'
    <2>1. proposer'[p] = "idle"
        BY <1>1, <1>2 DEF ProposerStops, TypeOK
    <2>. QED
        BY <1>1, <2>1 DEF DraftInv
<1>3. ASSUME DraftSound(p)' PROVE DraftInv'
    BY <1>1, <1>3 DEF DraftInv
<1>4. ASSUME proposer[p] # "idle"
      PROVE  /\ DraftSound(p)
             /\ draft[p] \in Record
             /\ draft[p].id \in Id
             /\ \A older \in recorded[p] : Sound(older) /\ older.id \in Id
    BY <1>4 DEF SerialInv, IInv, ProposerInv, DraftInv, Sound, Record
<1>5. ASSUME NEW call \in Call, NEW replay \in Replay, BeginProposal(p, call, replay)
      PROVE  StoreMoves /\ DraftInv' /\ now' = now /\ UNCHANGED approverVars
    <2>. DEFINE new == Draft(call, now, replay)
    <2>1. /\ new.id = <<OperationOf[call], now>>
          /\ new.call = call
          /\ new.replay = replay
        BY DEF Draft, DecisionIdentifier
    <2>2. /\ draft'[p] = new
          /\ proposer'[p] = "starting"
          /\ recorded'[p] = {older \in StoredRecords : Replaces(new, older)}
          /\ now' = now /\ store' = store
        BY <1>1, <1>5 DEF BeginProposal, TypeOK
    <2>3. ASSUME NEW older \in recorded'[p]
          PROVE  /\ Replaces(draft'[p], older)
                 /\ OnFile(older)'
                 /\ older.id[1] = OperationOf[call]
                 /\ older.id[2] <= now
        <3>1. PICK id \in Id : store[id] # Absent /\ older = store[id]
            BY <2>2, <2>3 DEF StoredRecords
        <3>2. older.id = id /\ id[1] = OperationOf[older.call] /\ id[2] <= now
            BY <1>1, <3>1 DEF StoreInv, SerialInv, FiledInv
        <3>3. Replaces(new, older)
            BY <2>2, <2>3
        <3>4. older.status = "proposed" /\ older.call = call
            BY <2>1, <3>3 DEF Replaces
        <3>. QED
            BY <2>2, <3>1, <3>2, <3>3, <3>4 DEF OnFile
    <2>4. DraftSound(p)'
        <3>. HIDE DEF new
        <3>. QED
            BY <1>1, <2>1, <2>2, <2>3 DEF DraftSound, DiffSound
    <2>. QED
        BY <1>3, <1>5, <2>2, <2>4 DEF BeginProposal, StoreMoves
<1>6. ASSUME proposer[p] # "idle",
             /\ draft'[p].id = draft[p].id
             /\ draft'[p].call = draft[p].call
             /\ draft'[p].replay = draft[p].replay,
             \/ proposer'[p] \in {"checking", "printing", "checked", "saving"}
             \/ proposer'[p] = "writing" /\ store[draft[p].id] = Absent,
             DiffSound(p)', UNCHANGED <<now, store, recorded, approverVars>>
      PROVE  StoreMoves /\ DraftInv' /\ now' = now /\ UNCHANGED approverVars
    <2>2. ASSUME NEW older \in recorded[p]
          PROVE  /\ Replaces(draft'[p], older)
                 /\ OnFile(older)'
                 /\ older.id[1] = draft'[p].id[1]
                 /\ older.id[2] <= draft'[p].id[2]
                 /\ proposer'[p] = "writing" => older.id # draft'[p].id
        BY <1>4, <1>6 DEF DraftSound, Replaces, OnFile
    <2>3. DraftSound(p)'
        BY <1>4, <1>6, <2>2 DEF DraftSound
    <2>. QED
        BY <1>3, <1>6, <2>3 DEF StoreMoves
<1>7. diffs \in [Id -> SUBSET (Call \X Piece)]
    BY <1>1 DEF TypeOK
<1>8. CASE StartCheck(p)
    <2>1. DiffSound(p)'
        BY <1>1, <1>4, <1>7, <1>8 DEF StartCheck, DiffSound, TypeOK
    <2>. QED
        BY <1>1, <1>6, <1>8, <2>1 DEF StartCheck, TypeOK
<1>9. ASSUME proposer[p] \in {"checking", "printing"}, NEW piece, Prints(p, piece)
       PROVE  diffs'[draft[p].id] = diffs[draft[p].id] \cup {<<draft[p].call, piece>>}
    <2>. DEFINE id == draft[p].id
                call == draft[p].call
                others == {printed \in diffs[id] : printed[1] # call}
    <2>1. diffs[id] = {} \/ diffs[id] = {<<call, "first">>}
        BY <1>4, <1>9 DEF DraftSound, DiffSound
    <2>2. others = {}
        BY <2>1
    <2>3. PICK lost \in SUBSET others :
              diffs' = [diffs EXCEPT ![id] = (@ \ lost) \cup {<<call, piece>>}]
        BY <1>9 DEF Prints
    <2>4. lost = {}
        BY <2>2
    <2>. QED
        BY <1>4, <1>7, <1>9, <2>3, <2>4
<1>10. CASE CheckPrints(p)
    <2>1. diffs'[draft[p].id] = {<<draft[p].call, "first">>}
        BY <1>4, <1>9, <1>10 DEF CheckPrints, DraftSound, DiffSound
    <2>2. DiffSound(p)'
        BY <1>1, <1>10, <2>1 DEF CheckPrints, DiffSound, TypeOK
    <2>. QED
        BY <1>1, <1>6, <1>10, <2>2 DEF CheckPrints, TypeOK
<1>11. CASE CheckEnds(p)
    <2>1. diffs'[draft[p].id] = Output(draft[p].call)
        <3>1. diffs[draft[p].id] = {<<draft[p].call, "first">>}
            BY <1>4, <1>11 DEF CheckEnds, DraftSound, DiffSound
        <3>2. diffs'[draft[p].id] = {<<draft[p].call, "first">>, <<draft[p].call, "rest">>}
            BY <1>9, <1>11, <3>1 DEF CheckEnds
        <3>. QED
            BY <3>2 DEF Output, Piece
    <2>2. DiffSound(p)'
        BY <1>1, <1>11, <2>1 DEF CheckEnds, DiffSound, TypeOK
    <2>. QED
        BY <1>1, <1>6, <1>11, <2>2 DEF CheckEnds, TypeOK
<1>12. CASE DigestDiff(p)
    <2>1. /\ diffs[draft[p].id] = Output(draft[p].call)
          /\ draft' = [draft EXCEPT ![p].digest = diffs[draft[p].id]]
          /\ proposer' = [proposer EXCEPT ![p] = "saving"]
        BY <1>4, <1>12 DEF DigestDiff, DraftSound, DiffSound
    <2>2. /\ draft'[p].digest = Output(draft[p].call)
          /\ draft'[p].call = draft[p].call
          /\ draft'[p].id = draft[p].id
          /\ draft'[p].replay = draft[p].replay
        BY <1>1, <1>4, <1>12, <2>1 DEF DigestDiff, Record
    <2>3. DiffSound(p)'
        BY <1>1, <2>1, <2>2 DEF DiffSound, TypeOK
    <2>. QED
        BY <1>1, <1>6, <1>12, <2>2, <2>3 DEF DigestDiff, TypeOK
<1>13. CASE SaveAdmitted(p)
    <2>1. DiffSound(p)'
        BY <1>1, <1>4, <1>13 DEF SaveAdmitted, DraftSound, DiffSound, TypeOK
    <2>. QED
        BY <1>1, <1>6, <1>13, <2>1 DEF SaveAdmitted, SaveAdmits, TypeOK
<1>14. ASSUME ProposerStops(p), UNCHANGED <<now, store, approverVars>>
      PROVE  StoreMoves /\ DraftInv' /\ now' = now /\ UNCHANGED approverVars
    BY <1>2, <1>14 DEF StoreMoves
<1>15. CASE SaveWrites(p)
    <2>1. proposer[p] = "writing" /\ Write(draft[p])
        BY <1>15 DEF SaveWrites
    <2>2. WritesWell(draft[p]) /\ StoreMoves
        BY <2>1, DraftOpens DEF WritesWell, StoreMoves
    <2>3. KeepsProposals
        BY <1>1, <2>2, StoreMovesKeepProposals
    <2>4. store'[draft[p].id] = draft[p] /\ draft[p] # Absent
        BY <1>4, <2>1, <1>1, AbsentAssumption DEF Write, TypeOK
    <2>5. /\ proposer'[p] = "superseding"
          /\ now' = now /\ draft' = draft /\ recorded' = recorded
        BY <1>1, <1>15 DEF SaveWrites, TypeOK
    <2>6. \A older \in recorded[p] : OnFile(older)'
        BY <1>4, <2>1, <2>3, StaysOnFile DEF DraftSound, OnFile
    <2>7. DraftSound(p)'
        BY <1>4, <2>1, <2>4, <2>5, <2>6 DEF DraftSound, DiffSound
    <2>. QED
        BY <1>3, <1>15, <2>2, <2>7 DEF SaveWrites
<1>16. ASSUME NEW older \in recorded[p], SupersedeOlder(p, older)
      PROVE  StoreMoves /\ DraftInv' /\ now' = now /\ UNCHANGED approverVars
    <2>1. proposer[p] = "superseding" /\ Write(Superseded(older, draft[p]))
        BY <1>16 DEF SupersedeOlder
    <2>2. StoreMoves
        BY <2>1, SupersedingCloses DEF WritesWell, StoreMoves
    <2>3. KeepsProposals
        BY <1>1, <2>2, StoreMovesKeepProposals
    <2>4. /\ proposer' = proposer /\ now' = now /\ draft' = draft
          /\ recorded'[p] \subseteq recorded[p]
        BY <1>1, <1>16 DEF SupersedeOlder, TypeOK
    <2>5. \A other \in recorded[p] : OnFile(other)'
        BY <1>4, <2>1, <2>3, StaysOnFile DEF DraftSound, OnFile
    <2>6. /\ store'[draft[p].id] # Absent
          /\ store'[draft[p].id].call = draft[p].call
          /\ store'[draft[p].id].replay = draft[p].replay
        BY <1>4, <2>1, <2>3 DEF DraftSound, KeepsProposals
    <2>7. DraftSound(p)'
        BY <1>4, <2>1, <2>4, <2>5, <2>6 DEF DraftSound, DiffSound
    <2>. QED
        BY <1>3, <1>16, <2>2, <2>7 DEF SupersedeOlder
<1>17. CASE ProposerTearsRecord(p)
    <2>1. DraftInv' /\ now' = now /\ UNCHANGED approverVars
        BY <1>2, <1>17 DEF ProposerTearsRecord
    <2>2. ASSUME proposer[p] = "writing", TornWrite(draft[p]) PROVE StoreMoves
        BY <2>2, DraftOpens DEF TornWrite, WritesWell, StoreMoves
    <2>3. ASSUME proposer[p] = "superseding", NEW older \in recorded[p],
                 TornWrite(Superseded(older, draft[p]))
          PROVE  StoreMoves
        BY <2>3, SupersedingCloses DEF TornWrite, WritesWell, StoreMoves
    <2>. QED
        BY <1>17, <2>1, <2>2, <2>3 DEF ProposerTearsRecord, Oldest
<1>18. CASE SaveRefused(p) \/ CheckTimesOut(p) \/ ProposalReturns(p) \/ ProposerKilled(p)
    BY <1>14, <1>18 DEF SaveRefused, CheckTimesOut, ProposalReturns, ProposerKilled
<1>. QED
    BY <1>5, <1>15, <1>16, <1>17, <1>18, <1>8, <1>10, <1>11, <1>12, <1>13 DEF ProposerStep

\* What a run did to a copy, or an approver's name in it, changes nothing of
\* what the record proposed.
LEMMA StagesStayOnFile ==
    ASSUME NEW record \in Record, OnFile(record)
    PROVE  /\ \A a \in Approver : OnFile([record EXCEPT !.approver = a])
           /\ \A execution \in Execution :
                OnFile([record EXCEPT !.execution = execution])
           /\ \A verification \in Verification :
                OnFile([record EXCEPT !.verification = verification])
BY DEF OnFile, Record

\* The outcome of a run closes the record it was loaded from.
LEMMA ApprovingCloses ==
    ASSUME SerialInv, NEW a \in Approver, approver[a] # "idle"
    PROVE  Sound(Approved(copy[a])) /\ Closes(Approved(copy[a]))
<1>1. Sound(copy[a]) /\ OnFile(copy[a]) /\ copy[a] \in Record
    BY DEF SerialInv, IInv, ApproverInv, CopiesInv, Sound
<1>2. /\ Sound(Approved(copy[a]))
      /\ Approved(copy[a]).id = copy[a].id
    BY <1>1, ApprovedIsSound
<1>3. /\ Approved(copy[a]).call = copy[a].call
      /\ Approved(copy[a]).replay = copy[a].replay
      /\ Approved(copy[a]).digest = copy[a].digest
      /\ Approved(copy[a]).status =
            Outcome(copy[a].call, copy[a].execution, copy[a].verification)
    BY <1>1 DEF Approved, Record
<1>4. Approved(copy[a]).status \in Finished
    BY <1>3 DEF Outcome, Finished
<1>. QED
    BY <1>1, <1>2, <1>3, <1>4 DEF Closes, OnFile, Finished

\* An approver's step closes a record on file or leaves the store alone, and
\* sends the fleet nothing but what is on file.
LEMMA ApproverStepMoves ==
    ASSUME SerialInv, NEW a \in Approver, ApproverStep(a)
    PROVE  /\ StoreMoves /\ FleetMoves /\ CopiesInv'
           /\ now' = now /\ UNCHANGED <<proposerVars, diffs>>
           /\ \A id \in Id : store[id] = Absent => store'[id] = Absent
           /\ UNCHANGED store \/ UNCHANGED ran
<1>. DEFINE Goal == /\ StoreMoves /\ FleetMoves /\ CopiesInv'
                    /\ now' = now /\ UNCHANGED <<proposerVars, diffs>>
                    /\ UNCHANGED store \/ UNCHANGED ran
                    /\ \A id \in Id : store[id] = Absent => store'[id] = Absent
<1>1. approver[a] # "idle" =>
        /\ Sound(copy[a]) /\ Approvable(copy[a])
        /\ OnFile(copy[a]) /\ copy[a] \in Record
    BY DEF SerialInv, IInv, ApproverInv, CopiesInv, Sound
<1>2. /\ TypeOK /\ StoreInv
      /\ approver \in [Approver ->
            {"idle", "attesting", "executing", "verifying", "recording"}]
      /\ copy \in [Approver -> Record \cup {Absent}]
    BY DEF SerialInv, IInv, TypeOK
<1>3. ASSUME UNCHANGED <<now, store, diffs, proposerVars>>, FleetMoves,
             NEW stage, approver' = [approver EXCEPT ![a] = stage],
             NEW held, copy' = [copy EXCEPT ![a] = held],
             stage # "idle" => OnFile(held)
      PROVE  Goal
    <2>1. StoreMoves
        BY <1>3 DEF StoreMoves
    <2>2. ASSUME NEW b \in Approver, approver'[b] # "idle" PROVE OnFile(copy[b])'
        <3>1. CASE b = a
            BY <1>2, <1>3, <2>2, <3>1 DEF OnFile
        <3>2. CASE b # a
            BY <1>2, <1>3, <2>2, <3>2 DEF OnFile, SerialInv, CopiesInv
        <3>. QED
            BY <3>1, <3>2
    <2>3. ASSUME NEW run \in ran' PROVE OnFile(run)'
        BY <1>3, <2>3 DEF FleetMoves, OnFile, SerialInv, CopiesInv
    <2>4. CopiesInv'
        BY <2>2, <2>3 DEF CopiesInv
    <2>. QED
        BY <1>3, <2>1, <2>4
<1>4. ASSUME NEW id \in Id, LoadForApproval(a, id) PROVE Goal
    <2>1. store[id].id = id /\ OnFile(store[id])
        BY <1>2, <1>4 DEF LoadForApproval, StoreInv, OnFile, Approvable
    <2>. QED
        BY <1>3, <1>4, <2>1 DEF LoadForApproval, FleetMoves
<1>5. CASE Attest(a)
    <2>1. OnFile([copy[a] EXCEPT !.approver = a])
        BY <1>1, <1>5, StagesStayOnFile DEF Attest
    <2>. QED
        BY <1>3, <1>5, <2>1 DEF Attest, FleetMoves
<1>6. ASSUME NEW execution \in {"ok", "failed"}, ExecutionEnds(a, execution)
      PROVE  Goal
    <2>. DEFINE done == [copy[a] EXCEPT !.execution = execution]
                verify == execution = "ok" /\ HasVerify[OperationOf[done.call]]
                stage == IF verify THEN "verifying" ELSE "recording"
    <2>1. OnFile(done) /\ Sound(done) /\ Approvable(done)
        BY <1>1, <1>6, StagesStayOnFile, StagesAreSound DEF ExecutionEnds, Execution
    <2>2. /\ copy' = [copy EXCEPT ![a] = done]
          /\ approver' = [approver EXCEPT ![a] = stage]
          /\ ran' = IF verify THEN ran ELSE ran \cup {done}
          /\ UNCHANGED <<now, store, diffs, proposerVars>>
        BY <1>6 DEF ExecutionEnds
    <2>. HIDE DEF done
    <2>3. FleetMoves
        BY <2>1, <2>2 DEF FleetMoves, Approvable
    <2>. QED
        BY <1>3, <2>1, <2>2, <2>3
<1>7. ASSUME NEW verification \in {"ok", "changed", "failed"},
             VerificationEnds(a, verification)
      PROVE  Goal
    <2>. DEFINE done == [copy[a] EXCEPT !.verification = verification]
    <2>1. OnFile(done) /\ Sound(done) /\ Approvable(done)
        BY <1>1, <1>7, StagesStayOnFile, StagesAreSound
        DEF VerificationEnds, Verification
    <2>2. /\ copy' = [copy EXCEPT ![a] = done]
          /\ approver' = [approver EXCEPT ![a] = "recording"]
          /\ ran' = ran \cup {done}
          /\ UNCHANGED <<now, store, diffs, proposerVars>>
        BY <1>7 DEF VerificationEnds
    <2>. HIDE DEF done
    <2>. QED
        BY <1>3, <2>1, <2>2 DEF FleetMoves, Approvable
<1>8. ASSUME approver[a] # "idle", CutOff(a) PROVE FleetMoves
    <2>1. LET r == [copy[a] EXCEPT !.execution = "timeout"]
          IN  Sound(r) /\ r.replay = Live /\ OnFile(r)
        BY <1>1, <1>8, StagesStayOnFile, StagesAreSound DEF Execution, Approvable
    <2>2. LET r == [copy[a] EXCEPT !.verification = "timeout"]
          IN  Sound(r) /\ r.replay = Live /\ OnFile(r)
        BY <1>1, <1>8, StagesStayOnFile, StagesAreSound DEF Verification, Approvable
    <2>3. CASE approver[a] = "executing"
        <3>1. ran' = ran \cup {[copy[a] EXCEPT !.execution = "timeout"]}
            BY <1>8, <2>3 DEF CutOff
        <3>. QED
            BY <2>1, <3>1 DEF FleetMoves
    <2>4. CASE approver[a] = "verifying"
        <3>1. ran' = ran \cup {[copy[a] EXCEPT !.verification = "timeout"]}
            BY <1>8, <2>4 DEF CutOff
        <3>. QED
            BY <2>2, <3>1 DEF FleetMoves
    <2>5. CASE approver[a] \notin {"executing", "verifying"}
        <3>1. ran' = ran
            BY <1>8, <2>5 DEF CutOff
        <3>. QED
            BY <3>1 DEF FleetMoves
    <2>. QED
        BY <2>3, <2>4, <2>5
<1>9. ASSUME ApproverStops(a), UNCHANGED <<now, store, diffs, proposerVars>>, FleetMoves
      PROVE  Goal
    BY <1>3, <1>9 DEF ApproverStops
<1>10. CASE AttestationFails(a)
    BY <1>9, <1>10 DEF AttestationFails, FleetMoves
<1>11. CASE StageTimesOut(a)
    BY <1>8, <1>9, <1>11 DEF StageTimesOut
<1>12. CASE ApproverKilled(a)
    BY <1>8, <1>9, <1>12 DEF ApproverKilled
<1>13. ASSUME approver[a] = "recording", Write(Approved(copy[a])), ApproverStops(a),
              UNCHANGED <<now, diffs, proposerVars, ran>>
       PROVE  Goal
    <2>. DEFINE record == Approved(copy[a])
    <2>1. Sound(record) /\ Closes(record)
        BY <1>13, ApprovingCloses
    <2>2. StoreMoves
        BY <1>13, <2>1 DEF StoreMoves, WritesWell
    <2>3. KeepsProposals
        BY <1>2, <2>2, StoreMovesKeepProposals
    <2>4. \A id \in Id : store[id] = Absent => store'[id] = Absent
        BY <1>2, <1>13, <2>1, WritesOneRecord DEF Closes, OnFile
    <2>5. ASSUME NEW b \in Approver, approver'[b] # "idle" PROVE OnFile(copy[b])'
        <3>1. b # a /\ approver[b] # "idle" /\ copy'[b] = copy[b]
            BY <1>2, <1>13, <2>5 DEF ApproverStops
        <3>2. OnFile(copy[b]) /\ copy[b].id \in Id
            BY <3>1 DEF SerialInv, IInv, CopiesInv, ApproverInv, Sound, Record
        <3>. QED
            BY <2>3, <3>1, <3>2, StaysOnFile DEF OnFile
    <2>6. ASSUME NEW run \in ran PROVE OnFile(run)'
        <3>1. OnFile(run) /\ run.id \in Id
            BY <1>2, <2>6 DEF SerialInv, CopiesInv, TypeOK, Record
        <3>. QED
            BY <2>3, <3>1, StaysOnFile DEF OnFile
    <2>7. CopiesInv'
        BY <1>13, <2>5, <2>6 DEF CopiesInv
    <2>8. FleetMoves
        BY <1>13 DEF FleetMoves
    <2>. QED
        BY <1>13, <2>2, <2>4, <2>7, <2>8
<1>14. CASE RecordOutcome(a)
    BY <1>13, <1>14 DEF RecordOutcome
<1>15. CASE ApproverTearsRecord(a)
    BY <1>13, <1>15 DEF ApproverTearsRecord, TornWrite
<1>. QED
    BY <1>4, <1>5, <1>6, <1>7, <1>10, <1>11, <1>12, <1>14, <1>15 DEF ApproverStep

\* The store a first command finds is filed in order, and nobody is at work.
LEMMA InitSerialInv == Init => SerialInv
<1>. SUFFICES ASSUME Init PROVE SerialInv
    OBVIOUS
<1>1. PICK legacy \in SUBSET {c \in Call : IsRead(c)} :
        store = [id \in Id |->
                IF \E c \in legacy : id = DecisionIdentifier(c, 0)
                THEN LegacyRead(CHOOSE c \in legacy :
                                    id = DecisionIdentifier(c, 0), 0)
                ELSE Absent]
    BY DEF Init
<1>2. ASSUME NEW call \in Call
      PROVE  /\ LegacyRead(call, 0).call = call
             /\ LegacyRead(call, 0).status = "proposed"
             /\ LegacyRead(call, 0).digest = Output(call)
    <2>1. Draft(call, 0, Live).call = call
        BY DEF Draft
    <2>2. 0 \in Second /\ Live \in Replay
        BY BoundAssumption DEF Second, Replay
    <2>3. Draft(call, 0, Live) \in Record
        BY <2>2, DraftIsRecord
    <2>. QED
        BY <2>1, <2>3 DEF LegacyRead, Record
<1>3. ASSUME NEW id \in Id, store[id] # Absent
      PROVE  /\ id[1] = OperationOf[store[id].call]
             /\ id[2] <= now
             /\ store[id].digest = Output(store[id].call)
             /\ store[id].status = "proposed"
    <2>. DEFINE call == CHOOSE c \in legacy : id = DecisionIdentifier(c, 0)
    <2>1. /\ call \in legacy
          /\ id = DecisionIdentifier(call, 0)
          /\ store[id] = LegacyRead(call, 0)
        BY <1>1, <1>3
    <2>. HIDE DEF call
    <2>. QED
        BY <1>2, <2>1 DEF DecisionIdentifier, Init
<1>4. FiledInv
    BY <1>3 DEF FiledInv, SupersededPointsForward
<1>. QED
    BY <1>4, InitIInv DEF SerialInv, CopiesInv, DraftInv, Init

\* How every step of one proposer at a time treats the store and the fleet.
LEMMA NextMoves ==
    ASSUME OneProposer, SerialInv, [Next]_vars
    PROVE  /\ StoreMoves /\ FleetMoves
           /\ UNCHANGED store \/ UNCHANGED ran
           /\ SerialInv'
<1>1. IInv' /\ TypeOK /\ IInv /\ FiledInv /\ CopiesInv /\ DraftInv
    BY NextKeepsIInv DEF SerialInv, IInv
<1>2. now \in Second /\ now \in Nat
    BY <1>1, BoundAssumption DEF TypeOK, Second
<1>3. now' \in Second /\ now' \in Nat
    BY <1>1, BoundAssumption DEF IInv, TypeOK, Second
<1>4. ASSUME NEW p \in Proposer, ProposerStep(p)
      PROVE  /\ StoreMoves /\ FleetMoves
             /\ UNCHANGED store \/ UNCHANGED ran
             /\ CopiesInv' /\ DraftInv' /\ now' = now
    <2>1. StoreMoves /\ DraftInv' /\ now' = now /\ UNCHANGED approverVars
        BY <1>4, ProposerStepMoves
    <2>2. CopiesInv'
        BY <1>1, <2>1, StoreMovesKeepProposals, CopiesKept DEF approverVars
    <2>. QED
        BY <2>1, <2>2 DEF FleetMoves, approverVars
<1>5. ASSUME NEW a \in Approver, ApproverStep(a)
      PROVE  /\ StoreMoves /\ FleetMoves
             /\ UNCHANGED store \/ UNCHANGED ran
             /\ CopiesInv' /\ DraftInv' /\ now' = now
    <2>1. /\ StoreMoves /\ FleetMoves /\ CopiesInv'
          /\ now' = now /\ UNCHANGED <<proposerVars, diffs>>
          /\ UNCHANGED store \/ UNCHANGED ran
          /\ \A id \in Id : store[id] = Absent => store'[id] = Absent
        BY <1>5, ApproverStepMoves
    <2>2. now <= now'
        BY <1>2, <2>1
    <2>3. DraftInv'
        BY <1>1, <1>2, <1>3, <2>1, <2>2, StoreMovesKeepProposals, DraftKept
    <2>. QED
        BY <2>1, <2>3
<1>6. ASSUME UNCHANGED <<store, diffs, proposerVars, approverVars>>, now <= now'
      PROVE  /\ StoreMoves /\ FleetMoves
             /\ UNCHANGED store \/ UNCHANGED ran
             /\ CopiesInv' /\ DraftInv'
    <2>1. StoreMoves /\ FleetMoves
        BY <1>6 DEF StoreMoves, FleetMoves, approverVars
    <2>2. KeepsProposals
        BY <1>1, <2>1, StoreMovesKeepProposals
    <2>3. CopiesInv'
        BY <1>1, <1>6, <2>2, CopiesKept DEF approverVars
    <2>4. DraftInv'
        BY <1>1, <1>2, <1>3, <1>6, <2>2, DraftKept
    <2>. QED
        BY <1>6, <2>1, <2>3, <2>4
<1>7. /\ StoreMoves /\ FleetMoves
      /\ UNCHANGED store \/ UNCHANGED ran
      /\ CopiesInv' /\ DraftInv' /\ now <= now'
    <2>1. CASE Tick
        BY <1>2, <1>6, <2>1 DEF Tick
    <2>2. CASE UNCHANGED vars
        BY <1>2, <1>6, <2>2 DEF vars
    <2>3. ASSUME NEW p \in Proposer, ProposerStep(p) PROVE <1>7
        BY <1>2, <1>4, <2>3
    <2>4. ASSUME NEW a \in Approver, ApproverStep(a) PROVE <1>7
        BY <1>2, <1>5, <2>4
    <2>. QED
        BY <2>1, <2>2, <2>3, <2>4 DEF Next
<1>8. FiledInv'
    BY <1>1, <1>3, <1>7, FiledKept
<1>. QED
    BY <1>1, <1>7, <1>8 DEF SerialInv

\* The invariant of one proposer at a time holds throughout.
THEOREM SerialInvariant == ASSUME OneProposer PROVE Spec => []SerialInv
<1>1. SerialInv /\ [Next]_vars => SerialInv'
    BY NextMoves
<1>. QED
    BY <1>1, InitSerialInv, PTL DEF Spec

\* The fleet never runs a call on the strength of a check that was played
\* back, cut off, or not printed whole and alone into the diff its record
\* digests: whoever approves, and whatever is killed.
THEOREM RunsAreAlwaysChecked == ASSUME OneProposer PROVE Spec => []RunsWereChecked
<1>1. SerialInv => RunsWereChecked
    <2>. SUFFICES ASSUME SerialInv, NEW run \in ran
                  PROVE  run.replay = Live /\ run.digest = Output(run.call)
        BY DEF RunsWereChecked
    <2>1. OnFile(run) /\ run.replay = Live /\ run.id \in Id
        BY DEF SerialInv, IInv, TypeOK, CopiesInv, RunsWereLive, Record
    <2>. QED
        BY <2>1 DEF OnFile, SerialInv, FiledInv
<1>. QED
    BY <1>1, SerialInvariant, PTL

\* What ran on the fleet can be looked up: whoever approves, from however old
\* a copy, the id a run was made for names a record of the same call and the
\* same checked diff.
THEOREM RunsStayOnRecord == ASSUME OneProposer PROVE Spec => []RunsAreOnRecord
<1>1. SerialInv => RunsAreOnRecord
    BY DEF SerialInv, IInv, CopiesInv, OnFile, RunsAreOnRecord, RunsWereLive
<1>. QED
    BY <1>1, SerialInvariant, PTL

\* A reader who follows supersededBy always reaches a later record of the same
\* call and the same replay value.
THEOREM SupersededAlwaysPointsForward ==
    ASSUME OneProposer PROVE Spec => []SupersededPointsForward
<1>1. SerialInv => SupersededPointsForward
    BY DEF SerialInv, FiledInv
<1>. QED
    BY <1>1, SerialInvariant, PTL

\* No command, however stale its copy, rewrites the call, the replay value or
\* the digest of a record.
THEOREM ProposalsAreKept == ASSUME OneProposer PROVE Spec => ProposalIsKept
<1>1. SerialInv /\ [Next]_vars =>
        [\A id \in Id : store[id] # Absent =>
            /\ store'[id] # Absent
            /\ store'[id].call = store[id].call
            /\ store'[id].replay = store[id].replay
            /\ store'[id].digest = store[id].digest]_vars
    <2>1. SerialInv => TypeOK
        BY DEF SerialInv, IInv
    <2>. QED
        BY <2>1, NextMoves, StoreMovesKeepProposals DEF KeepsProposals
<1>. QED
    BY <1>1, SerialInvariant, PTL DEF Spec, ProposalIsKept

-----------------------------------------------------------------------------
(* The records implement the ledger.                                       *)

\* Where the decision of an id stands, and which ids the fleet was touched for.
phaseBar == [id \in Id |-> PhaseOf(store[id])]
touchedBar == {run.id : run \in ran}

\* What a record says of its decision's phase.
LEMMA PhaseOfRecord ==
    ASSUME NEW record \in Record
    PROVE  /\ record.status = "ran" => PhaseOf(record) = "ran"
           /\ record.status = "proposed" =>
                  PhaseOf(record) = IF record.replay = Live THEN "open" ELSE "replayed"
           /\ record.status \notin {"proposed", "ran"} =>
                  PhaseOf(record) = IF record.replay = Live THEN "closed" ELSE "dropped"
<1>1. record # Absent
    BY AbsentAssumption
<1>. QED
    BY <1>1 DEF PhaseOf

\* A record on file stands where its replay value allows.
LEMMA PhaseOnFile ==
    ASSUME TypeOK, NEW record, record.id \in Id, OnFile(record)
    PROVE  PhaseOf(store[record.id]) \in IF record.replay = Live
                                         THEN {"open", "closed"}
                                         ELSE {"replayed", "dropped"}
<1>1. store[record.id] \in Record
    BY DEF TypeOK, OnFile
<1>. QED
    BY <1>1, PhaseOfRecord DEF OnFile

\* Every write moves one decision of the ledger, as the ledger allows.
LEMMA WriteMovesTheLedger ==
    ASSUME TypeOK, NEW record, WritesWell(record), UNCHANGED ran
    PROVE  Ledger!Next
<1>. DEFINE id == record.id
<1>1. /\ id \in Id /\ record \in Record
      /\ \A i \in Id : store'[i] = IF i = id THEN record ELSE store[i]
    BY WritesOneRecord DEF WritesWell, Sound
<1>2. phaseBar' = [phaseBar EXCEPT ![id] = PhaseOf(record)]
    <2>1. \A i \in Id : PhaseOf(store'[i]) =
                IF i = id THEN PhaseOf(record) ELSE PhaseOf(store[i])
        BY <1>1
    <2>. QED
        BY <1>1, <2>1 DEF phaseBar
<1>3. phaseBar[id] = PhaseOf(store[id])
    BY <1>1 DEF phaseBar
<1>4. touchedBar' = touchedBar
    BY DEF touchedBar
<1>5. CASE Opens(record)
    <2>1. phaseBar[id] = "none"
        BY <1>3, <1>5 DEF Opens, PhaseOf
    <2>2. PhaseOf(record) \in {"open", "replayed", "ran"}
        BY <1>1, <1>5, PhaseOfRecord DEF Opens
    <2>3. \/ Ledger!Open(id) \/ Ledger!Replay(id) \/ Ledger!Read(id)
        BY <1>2, <1>4, <2>1, <2>2
        DEF Ledger!Open, Ledger!Replay, Ledger!Read, Ledger!Move, phaseBar, touchedBar
    <2>. QED
        BY <1>1, <2>3 DEF Ledger!Next
<1>6. CASE Closes(record)
    <2>1. OnFile(record) /\ record.status \notin {"proposed", "ran"}
        BY <1>6 DEF Closes
    <2>2. PhaseOf(record) = IF record.replay = Live THEN "closed" ELSE "dropped"
        BY <1>1, <2>1, PhaseOfRecord
    <2>3. phaseBar[id] \in IF record.replay = Live
                           THEN {"open", "closed"} ELSE {"replayed", "dropped"}
        BY <1>1, <1>3, <2>1, PhaseOnFile
    <2>4. Ledger!Close(id) \/ Ledger!Drop(id)
        BY <1>2, <1>4, <2>2, <2>3
        DEF Ledger!Close, Ledger!Drop, Ledger!Move, phaseBar, touchedBar
    <2>. QED
        BY <1>1, <2>4 DEF Ledger!Next
<1>. QED
    BY <1>5, <1>6 DEF WritesWell

\* Every run on the fleet is one of a decision the ledger holds open or closed.
LEMMA RunMovesTheLedger ==
    ASSUME TypeOK, FleetMoves, UNCHANGED store
    PROVE  [Ledger!Next]_(Ledger!vars)
<1>1. phaseBar' = phaseBar
    BY DEF phaseBar
<1>2. CASE UNCHANGED ran
    BY <1>1, <1>2 DEF Ledger!vars, phaseBar, touchedBar
<1>3. ASSUME NEW run, ran' = ran \cup {run}, Sound(run), run.replay = Live, OnFile(run)
      PROVE  Ledger!Next
    <2>1. run.id \in Id
        BY <1>3 DEF Sound, Record
    <2>2. phaseBar[run.id] \in {"open", "closed"}
        BY <1>3, <2>1, PhaseOnFile DEF phaseBar
    <2>3. touchedBar' = touchedBar \cup {run.id}
        BY <1>3 DEF touchedBar
    <2>4. Ledger!Run(run.id)
        BY <1>1, <2>2, <2>3 DEF Ledger!Run, phaseBar, touchedBar
    <2>. QED
        BY <2>1, <2>4 DEF Ledger!Next
<1>. QED
    BY <1>2, <1>3 DEF FleetMoves

\* A decision opens once and never again, and the fleet is only touched for
\* one that was opened against a live check: the commands, the people and the
\* files implement the ledger step by step.
THEOREM LedgerIsKept == ASSUME OneProposer PROVE Spec => KeepsTheLedger
<1>1. Init => Ledger!Init
    <2>. SUFFICES ASSUME Init PROVE Ledger!Init
        OBVIOUS
    <2>1. IInv
        BY InitIInv
    <2>2. ASSUME NEW id \in Id PROVE PhaseOf(store[id]) \in {"none", "open"}
        <3>1. PICK legacy \in SUBSET {c \in Call : IsRead(c)} :
                store = [i \in Id |->
                        IF \E c \in legacy : i = DecisionIdentifier(c, 0)
                        THEN LegacyRead(CHOOSE c \in legacy :
                                            i = DecisionIdentifier(c, 0), 0)
                        ELSE Absent]
            BY DEF Init
        <3>2. CASE store[id] = Absent
            BY <3>2 DEF PhaseOf
        <3>3. CASE store[id] # Absent
            <4>. DEFINE call == CHOOSE c \in legacy : id = DecisionIdentifier(c, 0)
            <4>1. call \in Call /\ store[id] = LegacyRead(call, 0)
                BY <3>1, <3>3
            <4>. HIDE DEF call
            <4>2. /\ store[id] \in Record
                  /\ store[id].status = "proposed"
                BY <4>1, LegacyReadIsSound DEF Sound
            <4>3. store[id].replay = Live
                <5>1. Draft(call, 0, Live).replay = Live
                    BY DEF Draft
                <5>2. 0 \in Second /\ Live \in Replay
                    BY BoundAssumption DEF Second, Replay
                <5>3. Draft(call, 0, Live) \in Record
                    BY <4>1, <5>2, DraftIsRecord
                <5>. QED
                    BY <4>1, <5>1, <5>3 DEF LegacyRead, Record
            <4>. QED
                BY <4>2, <4>3, PhaseOfRecord
        <3>. QED
            BY <3>2, <3>3
    <2>. QED
        BY <2>2 DEF Init, Ledger!Init
<1>2. SerialInv /\ [Next]_vars => [Ledger!Next]_(Ledger!vars)
    <2>. SUFFICES ASSUME SerialInv, [Next]_vars PROVE [Ledger!Next]_(Ledger!vars)
        OBVIOUS
    <2>1. /\ TypeOK /\ StoreMoves /\ FleetMoves
          /\ UNCHANGED store \/ UNCHANGED ran
        BY NextMoves DEF SerialInv, IInv
    <2>2. CASE UNCHANGED store
        BY <2>1, <2>2, RunMovesTheLedger
    <2>3. ASSUME NEW record, WritesWell(record), UNCHANGED ran PROVE Ledger!Next
        BY <2>1, <2>3, WriteMovesTheLedger
    <2>. QED
        BY <2>1, <2>2, <2>3 DEF StoreMoves
<1>. QED
    BY <1>1, <1>2, SerialInvariant, PTL DEF Spec, KeepsTheLedger, Ledger!Spec

-----------------------------------------------------------------------------
(* One open proposal of a call.                                            *)

\* While a proposal is under way, every record it would replace is its own or
\* one of those it read before its check.
OpenIsKnown(p) ==
    \A id \in Id : store[id] # Absent /\ Replaces(draft[p], store[id]) =>
        id = draft[p].id \/ \E older \in recorded[p] : older.id = id

KnownInv == \A p \in Proposer : proposer[p] # "idle" => OpenIsKnown(p)

\* A write leaves no record open that was not, but for a new one.
LEMMA OpenWasOpen ==
    ASSUME TypeOK, StoreMoves,
           NEW id \in Id, store[id] # Absent, store'[id].status = "proposed"
    PROVE  store'[id] = store[id]
<1>1. ASSUME NEW record, WritesWell(record) PROVE store'[id] = store[id]
    <2>1. store'[id] = IF id = record.id THEN record ELSE store[id]
        BY <1>1, WritesOneRecord DEF WritesWell
    <2>2. id = record.id => record.status # "proposed"
        BY <1>1 DEF WritesWell, Opens, Closes
    <2>. QED
        BY <2>1, <2>2
<1>. QED
    BY <1>1 DEF StoreMoves

\* What an approver or the clock does leaves the open records known.
LEMMA KnownKept ==
    ASSUME TypeOK, KnownInv, StoreMoves, UNCHANGED proposerVars,
           \A id \in Id : store[id] = Absent => store'[id] = Absent
    PROVE  KnownInv'
<1>. SUFFICES ASSUME NEW p \in Proposer, proposer[p] # "idle",
                     NEW id \in Id, store'[id] # Absent, Replaces(draft[p], store'[id])
              PROVE  id = draft[p].id \/ \E older \in recorded[p] : older.id = id
    BY DEF KnownInv, OpenIsKnown, proposerVars
<1>1. store'[id] = store[id]
    BY OpenWasOpen DEF Replaces
<1>. QED
    BY <1>1 DEF KnownInv, OpenIsKnown

\* A proposal reads every open record it would replace, and each one it has
\* closed is closed; its own is the only one it opens.
LEMMA ProposerKeepsKnown ==
    ASSUME OneProposer, SerialInv, KnownInv, NEW p \in Proposer, ProposerStep(p)
    PROVE  KnownInv'
<1>1. /\ TypeOK /\ StoreInv
      /\ \A q \in Proposer : q = p
      /\ proposer[p] # "idle" =>
            draft[p] \in Record /\ \A older \in recorded[p] : Sound(older)
    BY DEF SerialInv, IInv, ProposerInv, OneProposer
<1>2. ASSUME ProposerStops(p) PROVE KnownInv'
    <2>1. proposer'[p] = "idle"
        BY <1>1, <1>2 DEF ProposerStops, TypeOK
    <2>. QED
        BY <1>1, <2>1 DEF KnownInv
<1>3. ASSUME OpenIsKnown(p)' PROVE KnownInv'
    BY <1>1, <1>3 DEF KnownInv
<1>4. ASSUME NEW call \in Call, NEW replay \in Replay, BeginProposal(p, call, replay)
      PROVE  KnownInv'
    <2>. DEFINE new == Draft(call, now, replay)
    <2>1. /\ draft'[p] = new /\ store' = store
          /\ recorded'[p] = {older \in StoredRecords : Replaces(new, older)}
        BY <1>1, <1>4 DEF BeginProposal, TypeOK
    <2>. HIDE DEF new
    <2>2. ASSUME NEW id \in Id, store[id] # Absent, Replaces(new, store[id])
          PROVE  \E older \in recorded'[p] : older.id = id
        <3>1. store[id] \in recorded'[p] /\ store[id].id = id
            BY <1>1, <2>1, <2>2 DEF StoredRecords, StoreInv
        <3>. QED
            BY <3>1
    <2>. QED
        BY <1>3, <2>1, <2>2 DEF OpenIsKnown
<1>5. CASE StartCheck(p) \/ CheckPrints(p) \/ CheckEnds(p) \/ DigestDiff(p)
           \/ SaveAdmitted(p)
    <2>1. /\ draft'[p].id = draft[p].id
          /\ draft'[p].call = draft[p].call
          /\ draft'[p].replay = draft[p].replay
          /\ store' = store /\ recorded' = recorded /\ proposer[p] # "idle"
        BY <1>1, <1>5
        DEF StartCheck, CheckPrints, CheckEnds, DigestDiff, SaveAdmitted, TypeOK, Record
    <2>2. OpenIsKnown(p)
        BY <2>1 DEF KnownInv
    <2>. QED
        BY <1>3, <2>1, <2>2 DEF OpenIsKnown, Replaces
<1>6. CASE SaveWrites(p)
    <2>1. /\ Write(draft[p]) /\ proposer[p] = "writing"
          /\ draft' = draft /\ recorded' = recorded
        BY <1>6 DEF SaveWrites
    <2>2. Sound(draft[p]) /\ OpenIsKnown(p)
        BY <2>1, DraftOpens DEF KnownInv
    <2>3. \A id \in Id : id # draft[p].id => store'[id] = store[id]
        BY <1>1, <2>1, <2>2, WritesOneRecord
    <2>. QED
        BY <1>3, <2>1, <2>2, <2>3 DEF OpenIsKnown
<1>7. ASSUME NEW older \in recorded[p], SupersedeOlder(p, older) PROVE KnownInv'
    <2>. DEFINE record == Superseded(older, draft[p])
    <2>1. /\ Write(record) /\ proposer[p] = "superseding"
          /\ draft' = draft /\ recorded'[p] = recorded[p] \ {older}
        BY <1>1, <1>7 DEF SupersedeOlder, TypeOK
    <2>2. /\ Sound(record) /\ record.id = older.id
          /\ record.status # "proposed"
          /\ OpenIsKnown(p)
        BY <2>1, SupersedingCloses DEF KnownInv, Closes
    <2>. HIDE DEF record
    <2>3. \A id \in Id : store'[id] = IF id = older.id THEN record ELSE store[id]
        BY <1>1, <2>1, <2>2, WritesOneRecord
    <2>4. ASSUME NEW id \in Id, store'[id] # Absent, Replaces(draft[p], store'[id]),
                 id # draft[p].id
          PROVE  \E other \in recorded'[p] : other.id = id
        <3>1. id # older.id /\ store'[id] = store[id]
            BY <2>2, <2>3, <2>4 DEF Replaces
        <3>2. PICK other \in recorded[p] : other.id = id
            BY <2>2, <2>4, <3>1 DEF OpenIsKnown
        <3>. QED
            BY <2>1, <3>1, <3>2
    <2>. QED
        BY <1>3, <2>1, <2>4 DEF OpenIsKnown
<1>8. CASE SaveRefused(p) \/ CheckTimesOut(p) \/ ProposalReturns(p)
           \/ ProposerKilled(p) \/ ProposerTearsRecord(p)
    BY <1>2, <1>8
    DEF SaveRefused, CheckTimesOut, ProposalReturns, ProposerKilled, ProposerTearsRecord
<1>. QED
    BY <1>4, <1>5, <1>6, <1>7, <1>8 DEF ProposerStep

\* Every step leaves the open records known.
LEMMA NextKeepsKnown ==
    ASSUME OneProposer, SerialInv, KnownInv, [Next]_vars
    PROVE  KnownInv'
<1>1. TypeOK
    BY DEF SerialInv, IInv
<1>2. ASSUME UNCHANGED <<store, proposerVars>> PROVE KnownInv'
    BY <1>1, <1>2, KnownKept DEF StoreMoves
<1>3. CASE Tick \/ UNCHANGED vars
    BY <1>2, <1>3 DEF Tick, vars
<1>4. ASSUME NEW p \in Proposer, ProposerStep(p) PROVE KnownInv'
    BY <1>4, ProposerKeepsKnown
<1>5. ASSUME NEW a \in Approver, ApproverStep(a) PROVE KnownInv'
    BY <1>1, <1>5, ApproverStepMoves, KnownKept
<1>. QED
    BY <1>3, <1>4, <1>5 DEF Next

\* A proposal that returns leaves no other open record of its call, whatever
\* killed proposers left behind and approvers do meanwhile: there is never a
\* duplicate to approve.
THEOREM NothingIsOpenTwice == ASSUME OneProposer PROVE Spec => NoOpenDuplicate
<1>1. Init => KnownInv
    BY DEF Init, KnownInv
<1>2. KnownInv => [\A p \in Proposer : ProposalReturns(p) =>
        \A id \in Id : store[id] # Absent /\ Replaces(draft[p], store[id]) =>
            id = draft[p].id]_vars
    BY DEF KnownInv, OpenIsKnown, ProposalReturns
<1>3. SerialInv /\ KnownInv /\ [Next]_vars => KnownInv'
    BY NextKeepsKnown
<1>. QED
    BY <1>1, <1>2, <1>3, SerialInvariant, PTL DEF Spec, NoOpenDuplicate
=============================================================================
