-------------------------- MODULE OperatorLoopProof --------------------------
(***************************************************************************)
(* What OperatorLoop guarantees for any triggers, kinds, policy and clock, *)
(* and any number of kills.  Types, proof and trust hold with any number   *)
(* of people approving at any time; one live receipt per trigger is for    *)
(* one person at a time, and the hourly limit for a fleet nobody approves  *)
(* by hand: a person's run of the same proposal overwrites the receipt     *)
(* autonomy_decision counts.                                               *)
(***************************************************************************)
EXTENDS OperatorLoop, FiniteSetTheorems, TLAPS

\* One person at a time approves; nobody does.
OnePerson == \A p, q \in Person : p = q
Nobody == Person = {}

TypeInv ==
    /\ TypeOK
    /\ \A r \in Runner : stage[r] # "idle" => job[r] \in Id

\* A run that waits for its trigger to clear still sees it, or has seen it clear.
WaitInv ==
    \A r \in Runner : stage[r] = "verifying" =>
        job[r] \in resolved \/ job[r][1] \in firing

ProvenInv == VerifiedIsProven /\ WaitInv

\* A receipt is verified by a person's run or by one the loop was trusted with.
EarnedInv ==
    \A id \in InStatus({"verified"}) :
        id \in trusted \/ \E b \in begun : KindOfId(b.id) = KindOfId(id)

DaemonInv == stage[Daemon] # "idle" => \E b \in begun : b.id = job[Daemon]

\* The kinds the loop ran on its own are granted, and trusted.
PeopleVerified(kind) == {id \in trusted : KindOfId(id) = kind}
Trusted(kind) == Cardinality(PeopleVerified(kind)) >= Required[kind]
BegunInv == \A b \in begun : KindOfId(b.id) \in DOMAIN Required /\ Trusted(KindOfId(b.id))

TrustInv == BegunInv /\ EarnedInv /\ DaemonInv

\* What a trigger outside the policy has pending is what a run of it is doing.
PendingInv ==
    \A r \in Runner : stage[r] # "idle" =>
        IF r = Daemon THEN job[r][1] \in Licensed
        ELSE job[r][1] \notin Licensed =>
                job[r] \in InStatus(IF stage[r] = "executing" THEN {"proposed"} ELSE {"executed"})

\* The readings the passes act on are no newer than they are true.
ReadingInv ==
    /\ loop = "fetching" => BlockingFingerprints \ Licensed \subseteq blocking
    /\ (todo \cap BlockingFingerprints) \subseteq Licensed

LiveInv == OneLivePerTrigger /\ PendingInv /\ ReadingInv

\* Every execution of the loop is on a receipt of its own, but for the one
\* that runs.
CountedInv ==
    /\ \A b, c \in begun : b.id = c.id => b = c
    /\ \A b \in begun :
        /\ Recorded(b.id) /\ b.id \notin queue
        /\ \/ stage[Daemon] = "executing" /\ job[Daemon] = b.id
           \/ /\ store[b.id].mode = "autonomous" /\ store[b.id].executedAt = b.at
              /\ store[b.id].status # "proposed"
    /\ stage[Daemon] # "idle" =>
        loop = "autonomy" /\ [id |-> job[Daemon], at |-> since[Daemon]] \in begun

QueueInv == stamp <= now /\ \A id \in queue : Recorded(id)

WindowInv ==
    \A t \in Time : Cardinality({b \in begun : t - Hour < b.at /\ b.at <= t}) <= MaxPerHour

RateInv == QueueInv /\ (cuts = 0 => CountedInv /\ WindowInv)

-----------------------------------------------------------------------------
(* The actions.                                                            *)

\* What moves the clock, the fleet's triggers or the passes along and touches
\* no receipt and no run.
PassStep ==
    \/ Tick
    \/ \E f \in Fingerprint : Fires(f)
    \/ BeginAlerts \/ Fetched \/ BeginDrift \/ Audited
    \/ (\E f \in todo : SkipUndeclared(f)) \/ ProposalExists \/ PassesEnd \/ Restarted
    \/ BeginAutonomy \/ (\E id \in queue : Withhold(id)) \/ AutonomyEnds
    \/ EvidenceUnavailable \/ LoopKilled

\* Every step is one of these.
LEMMA Actions ==
    ASSUME Next
    PROVE  \/ PassStep
           \/ \E f \in Fingerprint : Clears(f)
           \/ \E f \in todo : SaveProposal(f)
           \/ \E id \in queue : ExecuteAutonomously(id)
           \/ \E p \in Person, id \in Id : Approve(p, id)
           \/ \E r \in Runner : Runs(r) \/ Breaks(r)
BY DEF Next, World, Propose, Autonomy, PassStep

\* The constants in the form the proofs use.
LEMMA Constants ==
    /\ MaxTime \in Nat /\ MaxCuts \in Nat /\ Time \subseteq Nat /\ 0 \in Time
    /\ Daemon \in Runner /\ Person \subseteq Runner /\ Daemon \notin Person
    /\ \A r \in Runner : r = Daemon \/ r \in Person
BY ClockAssumption, DaemonAssumption DEF Time, Runner

\* The clock and the count of kills stay within their bounds.
LEMMA Bounds ==
    ASSUME TypeInv
    PROVE  /\ now < MaxTime => now + 1 \in Time
           /\ cuts < MaxCuts => cuts + 1 \in 0..MaxCuts
<1>1. now \in 0..MaxTime /\ cuts \in 0..MaxCuts
    BY DEF TypeInv, TypeOK, Time
<1>. QED
    BY <1>1, ClockAssumption DEF Time

\* The counters are numbers.
LEMMA Numbers ==
    ASSUME TypeInv
    PROVE  now \in Nat /\ stamp \in Nat /\ cuts \in Nat
<1>1. now \in 0..MaxTime /\ stamp \in 0..MaxTime /\ cuts \in 0..MaxCuts
    BY DEF TypeInv, TypeOK, Time
<1>. QED
    BY <1>1, ClockAssumption

-----------------------------------------------------------------------------
(* Types.                                                                  *)

\* The passes keep the types and leave receipts and runs alone.
LEMMA PassStepKeepsTypes ==
    ASSUME TypeInv, PassStep
    PROVE  /\ TypeInv'
           /\ UNCHANGED <<store, stage, job, since, begun, trusted, resolved>>
           /\ firing \subseteq firing'
<1>. USE DEF TypeInv, TypeOK, loopVars, runVars, history
<1>1. CASE Tick
    <2>1. now' \in Time
        BY <1>1, Bounds DEF Tick
    <2>. QED
        BY <1>1, <2>1 DEF Tick
<1>2. CASE \E f \in Fingerprint : Fires(f)
    BY <1>2 DEF Fires
<1>3. CASE BeginAlerts
    <2>1. BlockingFingerprints \subseteq Fingerprint
        BY DEF BlockingFingerprints, InStatus, Id
    <2>. QED
        BY <1>3, <2>1 DEF BeginAlerts, Moves
<1>4. CASE Fetched \/ BeginDrift \/ Audited \/ \E f \in todo : SkipUndeclared(f)
    BY <1>4 DEF Fetched, BeginDrift, Audited, SkipUndeclared, Moves
<1>5. CASE ProposalExists \/ EvidenceUnavailable
    BY <1>5 DEF ProposalExists, EvidenceUnavailable, LoopEnds
<1>6. CASE PassesEnd \/ Restarted
    BY <1>6 DEF PassesEnd, Restarted, Moves
<1>7. CASE BeginAutonomy \/ (\E id \in queue : Withhold(id)) \/ AutonomyEnds
    BY <1>7 DEF BeginAutonomy, Withhold, AutonomyEnds, Moves, InStatus
<1>8. CASE LoopKilled
    <2>1. cuts' \in 0..MaxCuts
        BY <1>8, Bounds DEF LoopKilled
    <2>. QED
        BY <1>8, <2>1 DEF LoopKilled, LoopEnds
<1>. QED
    BY <1>1, <1>2, <1>3, <1>4, <1>5, <1>6, <1>7, <1>8 DEF PassStep

\* A run keeps them, whether it goes on, stops, or ends the loop with it.
LEMMA RunKeepsTypes ==
    ASSUME TypeInv, NEW r \in Runner, Runs(r) \/ Breaks(r)
    PROVE  TypeInv'
<1>. USE DEF TypeInv, TypeOK, loopVars, runVars, history
<1>1. stage[r] # "idle" /\ job[r] \in Id
    BY DEF Runs, Breaks, ExecutionFails, ExecutionEnds, VerifierPasses, VerifyTimesOut,
           VerifierRaises, RunKilled
<1>2. ASSUME NEW status \in Status, Writes(r, status)
      PROVE  store' \in [Id -> Receipt \cup {Absent}]
    <2>1. [status |-> status, mode |-> ModeOf(r), executedAt |-> since[r]] \in Receipt
        BY DEF ModeOf, Mode, Receipt
    <2>. QED
        BY <1>1, <1>2, <2>1 DEF Writes
<1>3. RunStops(r) =>
        /\ stage' \in [Runner -> {"idle", "executing", "verifying"}]
        /\ job' \in [Runner -> Id \cup {NoId}] /\ since' \in [Runner -> Time]
        /\ \A q \in Runner : stage'[q] # "idle" => job'[q] \in Id
    <2>1. 0 \in Time
        BY Constants
    <2>. QED
        BY <2>1 DEF RunStops
<1>4. Raises(r) =>
        /\ loop' \in {"asleep", "fetching", "proposing", "auditing",
                      "proposing drift", "rested", "autonomy", "down"}
        /\ stamp' \in Time /\ blocking' \in SUBSET Fingerprint
        /\ todo' \in SUBSET Fingerprint /\ queue' \in SUBSET Id
    BY DEF Raises, LoopEnds
<1>5. CASE ExecutionFails(r)
    BY <1>2, <1>3, <1>4, <1>5 DEF ExecutionFails, Status
<1>6. CASE ExecutionEnds(r)
    BY <1>1, <1>2, <1>6 DEF ExecutionEnds, Status
<1>7. CASE VerifierPasses(r)
    BY <1>1, <1>2, <1>3, <1>7 DEF VerifierPasses, Status
<1>8. CASE VerifyTimesOut(r)
    BY <1>2, <1>3, <1>8 DEF VerifyTimesOut, Status
<1>9. CASE VerifierRaises(r)
    BY <1>3, <1>4, <1>9 DEF VerifierRaises
<1>10. CASE RunKilled(r)
    <2>1. cuts' \in 0..MaxCuts
        BY <1>10, Bounds DEF RunKilled
    <2>. QED
        BY <1>3, <1>4, <1>10, <2>1 DEF RunKilled
<1>. QED
    BY <1>5, <1>6, <1>7, <1>8, <1>9, <1>10 DEF Runs, Breaks

\* Every step keeps the types.
LEMMA NextKeepsTypes ==
    ASSUME TypeInv, [Next]_vars
    PROVE  TypeInv'
<1>. USE DEF TypeInv, TypeOK, loopVars, runVars, history
<1>1. CASE UNCHANGED vars
    BY <1>1 DEF vars
<1>2. CASE PassStep
    BY <1>2, PassStepKeepsTypes
<1>3. CASE \E f \in Fingerprint : Clears(f)
    BY <1>3 DEF Clears, Converged
<1>4. ASSUME NEW f \in todo, SaveProposal(f) PROVE TypeInv'
    <2>1. ProposalIdentifier(f, stamp) \in Id /\ Proposal \in Receipt
        BY Constants DEF ProposalIdentifier, Id, Proposal, Receipt, Status, Mode
    <2>. QED
        BY <1>4, <2>1 DEF SaveProposal
<1>5. ASSUME NEW id \in queue, ExecuteAutonomously(id) PROVE TypeInv'
    BY <1>5, Constants DEF ExecuteAutonomously, Starts
<1>6. ASSUME NEW p \in Person, NEW id \in Id, Approve(p, id) PROVE TypeInv'
    BY <1>6, Constants DEF Approve, Starts
<1>7. ASSUME NEW r \in Runner, Runs(r) \/ Breaks(r) PROVE TypeInv'
    BY <1>7, RunKeepsTypes
<1>. QED
    BY <1>1, <1>2, <1>3, <1>4, <1>5, <1>6, <1>7, Actions

\* The initial states have their types.
LEMMA InitialTypes == Init => TypeInv
<1>. SUFFICES ASSUME Init PROVE TypeInv
    OBVIOUS
<1>1. EarlierReceipts \subseteq Id
    BY Constants, PolicyAssumption DEF EarlierReceipts, ProposalIdentifier, Id
<1>2. VerifiedByPerson \in Receipt
    BY Constants DEF VerifiedByPerson, Receipt, Status, Mode
<1>3. store \in [Id -> Receipt \cup {Absent}]
    BY <1>2 DEF Init
<1>4. firing \subseteq Fingerprint /\ cuts \in 0..MaxCuts
    BY Constants DEF Init
<1>. QED
    BY <1>1, <1>3, <1>4, Constants DEF Init, TypeInv, TypeOK

\* Every reachable state has its types, whoever approves what and when.
THEOREM TypeCorrect == Spec => []TypeOK
<1>1. Init => TypeInv
    BY InitialTypes
<1>2. TypeInv /\ [Next]_vars => TypeInv'
    BY NextKeepsTypes
<1>3. TypeInv => TypeOK
    BY DEF TypeInv
<1>. QED
    BY <1>1, <1>2, <1>3, PTL DEF Spec

-----------------------------------------------------------------------------
(* What a verified receipt is worth.                                       *)

\* What a run writes is the receipt of the proposal it runs, in a status that
\* says verified only after a poll that found the trigger cleared.
LEMMA RunWrites ==
    ASSUME TypeInv, NEW r \in Runner, Runs(r) \/ Breaks(r)
    PROVE  /\ stage[r] # "idle" /\ job[r] \in Id
           /\ \A id \in Id \ {job[r]} : store'[id] = store[id]
           /\ \/ VerifierPasses(r)
              \/ store'[job[r]] = store[job[r]]
              \/ store'[job[r]].status \in {"executed", "failed"}
           /\ \A q \in Runner \ {r} :
                  stage'[q] = stage[q] /\ job'[q] = job[q] /\ since'[q] = since[q]
           /\ \/ stage'[r] = "idle"
              \/ /\ ExecutionEnds(r) /\ stage'[r] = "verifying"
                 /\ job'[r] = job[r] /\ since'[r] = since[r]
           /\ UNCHANGED <<now, firing, begun>>
           /\ trusted \subseteq trusted' /\ resolved \subseteq resolved'
<1>. USE DEF TypeInv, TypeOK, RunStops, Writes, history
<1>1. stage[r] # "idle" /\ job[r] \in Id
    BY DEF Runs, Breaks, ExecutionFails, ExecutionEnds, VerifierPasses, VerifyTimesOut,
           VerifierRaises, RunKilled
<1>2. CASE ExecutionFails(r)
    BY <1>1, <1>2 DEF ExecutionFails
<1>3. CASE ExecutionEnds(r)
    BY <1>1, <1>3 DEF ExecutionEnds
<1>4. CASE VerifierPasses(r)
    BY <1>1, <1>4 DEF VerifierPasses
<1>5. CASE VerifyTimesOut(r)
    BY <1>1, <1>5 DEF VerifyTimesOut
<1>6. CASE VerifierRaises(r)
    BY <1>1, <1>6 DEF VerifierRaises
<1>7. CASE RunKilled(r)
    BY <1>1, <1>7 DEF RunKilled
<1>. QED
    BY <1>2, <1>3, <1>4, <1>5, <1>6, <1>7 DEF Runs, Breaks

\* A trigger that clears while runs wait for it proves all of them.
LEMMA ProvenStep ==
    ASSUME TypeInv, ProvenInv, [Next]_vars
    PROVE  ProvenInv'
<1>. USE DEF ProvenInv, VerifiedIsProven, WaitInv, InStatus, Recorded
<1>1. CASE UNCHANGED vars
    BY <1>1 DEF vars, runVars, history
<1>2. CASE PassStep
    BY <1>2, PassStepKeepsTypes
<1>3. ASSUME NEW f \in Fingerprint, Clears(f) PROVE ProvenInv'
    <2>1. /\ UNCHANGED <<store, stage, job>> /\ firing' = firing \ {f}
          /\ resolved' = resolved \cup Converged(f)
        BY <1>3 DEF Clears, runVars
    <2>2. ASSUME NEW r \in Runner, stage[r] = "verifying"
          PROVE  job[r] \in resolved' \/ job[r][1] \in firing'
        BY <2>1, <2>2 DEF Converged, TypeInv
    <2>. QED
        BY <2>1, <2>2
<1>4. ASSUME NEW f \in todo, SaveProposal(f) PROVE ProvenInv'
    BY <1>4 DEF SaveProposal, Proposal, TypeInv, TypeOK, runVars, history
<1>5. ASSUME NEW id \in queue, ExecuteAutonomously(id) PROVE ProvenInv'
    BY <1>5 DEF ExecuteAutonomously, Starts, TypeInv, TypeOK
<1>6. ASSUME NEW p \in Person, NEW id \in Id, Approve(p, id) PROVE ProvenInv'
    BY <1>6 DEF Approve, Starts, TypeInv, TypeOK, history
<1>7. ASSUME NEW r \in Runner, Runs(r) \/ Breaks(r) PROVE ProvenInv'
    <2>1. VerifiedIsProven'
        BY <1>7, RunWrites DEF VerifierPasses
    <2>2. ExecutionEnds(r) => job[r] \in resolved' \/ job[r][1] \in firing'
        BY DEF ExecutionEnds
    <2>3. WaitInv'
        BY <1>7, <2>2, RunWrites
    <2>. QED
        BY <2>1, <2>3
<1>. QED
    BY <1>1, <1>2, <1>3, <1>4, <1>5, <1>6, <1>7, Actions

\* A verified receipt tells of a trigger that cleared after the playbook of
\* that very proposal had ended (_execute_and_verify), whoever else ran it.
THEOREM VerifiedMeansProven == Spec => []VerifiedIsProven
<1>1. Init => TypeInv /\ ProvenInv
    BY InitialTypes
       DEF Init, ProvenInv, VerifiedIsProven, WaitInv, InStatus, Recorded,
           VerifiedByPerson
<1>2. TypeInv /\ ProvenInv /\ [Next]_vars => (TypeInv /\ ProvenInv)'
    BY NextKeepsTypes, ProvenStep
<1>3. ProvenInv => VerifiedIsProven
    BY DEF ProvenInv
<1>. QED
    BY <1>1, <1>2, <1>3, PTL DEF Spec

-----------------------------------------------------------------------------
(* Where trust comes from.                                                 *)

\* There are finitely many proposals, and more of them count for more.
LEMMA Ids ==
    /\ IsFiniteSet(Id)
    /\ \A S \in SUBSET Id : IsFiniteSet(S) /\ Cardinality(S) \in Nat
    /\ \A S, T \in SUBSET Id : S \subseteq T => Cardinality(S) <= Cardinality(T)
<1>1. IsFiniteSet(Time)
    BY FS_Interval, ClockAssumption DEF Time
<1>2. IsFiniteSet(Id)
    BY <1>1, TriggerAssumption, FS_Product DEF Id
<1>3. ASSUME NEW S \in SUBSET Id PROVE IsFiniteSet(S) /\ Cardinality(S) \in Nat
    BY <1>2, FS_Subset, FS_CardinalityType
<1>4. ASSUME NEW S \in SUBSET Id, NEW T \in SUBSET Id, S \subseteq T
      PROVE  Cardinality(S) <= Cardinality(T)
    BY <1>3, <1>4, FS_Subset
<1>. QED
    BY <1>2, <1>3, <1>4

\* What the policy asks for is a number.
LEMMA RequiredIsNat ==
    ASSUME NEW kind \in DOMAIN Required
    PROVE  Required[kind] \in Nat
BY PolicyAssumption

\* A kind that was trusted once stays trusted: no step takes a verified run of
\* a person's away.
LEMMA TrustStays ==
    ASSUME TypeInv, TypeInv', trusted \subseteq trusted',
           NEW kind \in DOMAIN Required, Trusted(kind)
    PROVE  Trusted(kind)'
<1>1. PeopleVerified(kind) \subseteq PeopleVerified(kind)' /\ PeopleVerified(kind)' \in SUBSET Id
    BY DEF PeopleVerified, TypeInv, TypeOK
<1>2. PeopleVerified(kind) \in SUBSET Id
    BY DEF PeopleVerified, TypeInv, TypeOK
<1>3. /\ Cardinality(PeopleVerified(kind)) \in Nat /\ Cardinality(PeopleVerified(kind)') \in Nat
      /\ Cardinality(PeopleVerified(kind)) <= Cardinality(PeopleVerified(kind)')
    BY <1>1, <1>2, Ids
<1>4. Required[kind] \in Nat
    BY RequiredIsNat
<1>. QED
    BY <1>3, <1>4 DEF Trusted

\* A grant the loop finds earned rests on people's runs, directly or through a
\* run of its own that a grant licensed.
LEMMA GrantsAreEarned ==
    ASSUME TypeInv, TrustInv, NEW id \in Id, NEW moment, AutonomyGranted(id, moment)
    PROVE  KindOfId(id) \in DOMAIN Required /\ Trusted(KindOfId(id))
<1>. DEFINE kind == KindOfId(id)
            counted == {i \in Finished(id) : store[i].status = "verified"}
<1>1. kind \in DOMAIN Required /\ Cardinality(counted) >= Required[kind]
    BY DEF AutonomyGranted, Earned
<1>2. counted \in SUBSET Id
    BY DEF Finished, InStatus
<1>3. ASSUME NEW b \in begun, KindOfId(b.id) = kind PROVE Trusted(kind)
    BY <1>3 DEF TrustInv, BegunInv
<1>4. CASE \A b \in begun : KindOfId(b.id) # kind
    <2>1. counted \subseteq PeopleVerified(kind)
        BY <1>4 DEF Finished, InStatus, TrustInv, EarnedInv, PeopleVerified
    <2>2. PeopleVerified(kind) \in SUBSET Id
        BY DEF PeopleVerified, TypeInv, TypeOK
    <2>3. /\ Cardinality(counted) <= Cardinality(PeopleVerified(kind))
          /\ Cardinality(counted) \in Nat /\ Cardinality(PeopleVerified(kind)) \in Nat
        BY <1>2, <2>1, <2>2, Ids
    <2>4. Required[kind] \in Nat
        BY <1>1, RequiredIsNat
    <2>. QED
        BY <1>1, <2>3, <2>4 DEF Trusted
<1>. QED
    BY <1>1, <1>3, <1>4

\* Every step keeps the trust where it started.
LEMMA TrustStep ==
    ASSUME TypeInv, TrustInv, [Next]_vars
    PROVE  TrustInv'
<1>1. TypeInv'
    BY NextKeepsTypes
<1>2. ASSUME trusted \subseteq trusted', begun' = begun PROVE BegunInv'
    BY <1>1, <1>2, TrustStays DEF TrustInv, BegunInv
<1>. USE DEF TrustInv, EarnedInv, DaemonInv, InStatus, Recorded
<1>3. CASE UNCHANGED vars
    BY <1>2, <1>3 DEF vars, runVars, history
<1>4. CASE PassStep
    BY <1>2, <1>4, PassStepKeepsTypes
<1>5. ASSUME NEW f \in Fingerprint, Clears(f) PROVE TrustInv'
    BY <1>2, <1>5 DEF Clears, runVars
<1>6. ASSUME NEW f \in todo, SaveProposal(f) PROVE TrustInv'
    BY <1>2, <1>6 DEF SaveProposal, Proposal, TypeInv, TypeOK, runVars, history
<1>7. ASSUME NEW id \in queue, ExecuteAutonomously(id) PROVE TrustInv'
    <2>1. /\ begun' = begun \cup {[id |-> id, at |-> now]} /\ trusted' = trusted /\ store' = store
          /\ job'[Daemon] = id /\ id \in Id
        BY <1>7, Constants DEF ExecuteAutonomously, Starts, TypeInv, TypeOK
    <2>2. KindOfId(id) \in DOMAIN Required /\ Trusted(KindOfId(id))
        BY <1>7, <2>1, GrantsAreEarned DEF ExecuteAutonomously
    <2>3. \A kind : Trusted(kind) => Trusted(kind)'
        BY <2>1 DEF Trusted, PeopleVerified
    <2>4. \A b \in begun' : b \in begun \/ b.id = id
        BY <2>1
    <2>5. BegunInv'
        BY <2>2, <2>3, <2>4 DEF BegunInv
    <2>6. EarnedInv'
        BY <2>1
    <2>7. DaemonInv'
        <3>1. [id |-> id, at |-> now] \in begun' /\ [id |-> id, at |-> now].id = job'[Daemon]
            BY <2>1
        <3>. QED
            BY <3>1
    <2>. QED
        BY <2>5, <2>6, <2>7
<1>8. ASSUME NEW p \in Person, NEW id \in Id, Approve(p, id) PROVE TrustInv'
    BY <1>2, <1>8, Constants DEF Approve, Starts, TypeInv, TypeOK, history
<1>9. ASSUME NEW r \in Runner, Runs(r) \/ Breaks(r) PROVE TrustInv'
    <2>1. BegunInv'
        BY <1>2, <1>9, RunWrites
    <2>2. EarnedInv'
        BY <1>9, RunWrites DEF VerifierPasses
    <2>3. DaemonInv'
        BY <1>9, RunWrites, Constants
    <2>. QED
        BY <2>1, <2>2, <2>3
<1>. QED
    BY <1>3, <1>4, <1>5, <1>6, <1>7, <1>8, <1>9, Actions

\* The loop runs a kind on its own only once people's runs of that kind have
\* verified as often as the grant requires (autonomy_decision): its own runs
\* never earn the trust they rest on.
THEOREM TrustIsEarnedByPeople == Spec => []TrustStartsWithPeople
<1>1. Init => TypeInv /\ TrustInv
    BY InitialTypes, Constants
    DEF Init, TrustInv, EarnedInv, DaemonInv, BegunInv, InStatus, Recorded, VerifiedByPerson
<1>2. TypeInv /\ TrustInv /\ [Next]_vars => (TypeInv /\ TrustInv)'
    BY NextKeepsTypes, TrustStep
<1>3. TrustInv => TrustStartsWithPeople
    BY DEF TrustInv, BegunInv, TrustStartsWithPeople, Trusted, PeopleVerified
<1>. QED
    BY <1>1, <1>2, <1>3, PTL DEF Spec

-----------------------------------------------------------------------------
(* One live receipt per trigger, for one person at a time.                 *)

\* A run leaves the passes alone, or ends them.
LEMMA RunAndLoop ==
    ASSUME NEW r \in Runner, Runs(r) \/ Breaks(r)
    PROVE  \/ UNCHANGED <<loop, stamp, blocking, todo, queue>>
           \/ r = Daemon /\ loop' = "down" /\ todo' = {} /\ queue' = {} /\ stamp' = stamp
BY DEF Runs, Breaks, ExecutionFails, ExecutionEnds, VerifierPasses, VerifyTimesOut,
       VerifierRaises, RunKilled, Raises, LoopEnds, loopVars

\* No run of a trigger outside the policy makes a receipt live again.
LEMMA RunsOnlySettle ==
    ASSUME TypeInv, LiveInv, NEW r \in Runner, Runs(r) \/ Breaks(r),
           NEW id \in InStatus(BlockingStatus)', id[1] \notin Licensed
    PROVE  id \in InStatus(BlockingStatus)
<1>1. id \in Id
    BY DEF InStatus
<1>2. CASE id # job[r]
    BY <1>1, <1>2, RunWrites DEF InStatus, Recorded
<1>3. CASE id = job[r]
    BY <1>1, <1>3, RunWrites
       DEF LiveInv, PendingInv, InStatus, Recorded, BlockingStatus, TypeInv, TypeOK
<1>. QED
    BY <1>2, <1>3

\* A reading of the blocked fingerprints stays at least as wide as the truth.
LEMMA SettledReadings ==
    ASSUME TypeInv, ReadingInv,
           \A id \in InStatus(BlockingStatus)' :
               id[1] \notin Licensed => id \in InStatus(BlockingStatus),
           \/ UNCHANGED <<loop, blocking, todo>>
           \/ loop' # "fetching" /\ todo' \subseteq todo
    PROVE  ReadingInv'
<1>1. BlockingFingerprints' \ Licensed \subseteq BlockingFingerprints
    BY DEF BlockingFingerprints
<1>. QED
    BY <1>1 DEF ReadingInv

\* The passes read before they propose, and propose only what they read.
LEMMA PassReadings ==
    ASSUME TypeInv, ReadingInv, PassStep
    PROVE  ReadingInv'
<1>1. BlockingFingerprints' = BlockingFingerprints
    BY PassStepKeepsTypes DEF BlockingFingerprints, InStatus, Recorded
<1>2. CASE BeginAlerts
    BY <1>1, <1>2 DEF BeginAlerts, Moves, ReadingInv
<1>3. CASE Fetched
    BY <1>1, <1>3 DEF Fetched, Moves, ReadingInv
<1>4. CASE Audited
    BY <1>1, <1>4 DEF Audited, Moves, ReadingInv
<1>5. CASE Tick \/ (\E f \in Fingerprint : Fires(f)) \/ (\E id \in queue : Withhold(id))
    BY <1>1, <1>5 DEF Tick, Fires, Withhold, loopVars, ReadingInv
<1>6. CASE BeginDrift \/ PassesEnd \/ Restarted \/ BeginAutonomy \/ AutonomyEnds
    BY <1>1, <1>6
       DEF BeginDrift, PassesEnd, Restarted, BeginAutonomy, AutonomyEnds, Moves,
           ReadingInv
<1>7. CASE ProposalExists \/ EvidenceUnavailable \/ LoopKilled
    BY <1>1, <1>7 DEF ProposalExists, EvidenceUnavailable, LoopKilled, LoopEnds, ReadingInv
<1>8. CASE \E f \in todo : SkipUndeclared(f)
    BY <1>1, <1>8 DEF SkipUndeclared, ReadingInv
<1>. QED
    BY <1>2, <1>3, <1>4, <1>5, <1>6, <1>7, <1>8 DEF PassStep

\* Every step keeps one live receipt per trigger.
LEMMA LiveStep ==
    ASSUME OnePerson, TypeInv, LiveInv, [Next]_vars
    PROVE  LiveInv'
<1>1. CASE UNCHANGED vars
    BY <1>1 DEF vars, loopVars, runVars, LiveInv, OneLivePerTrigger, PendingInv, ReadingInv,
                BlockingFingerprints, InStatus, Recorded
<1>2. CASE PassStep
    BY <1>2, PassStepKeepsTypes, PassReadings
    DEF LiveInv, OneLivePerTrigger, PendingInv, InStatus, Recorded
<1>3. ASSUME NEW f \in Fingerprint, Clears(f) PROVE LiveInv'
    BY <1>3 DEF Clears, loopVars, runVars, LiveInv, OneLivePerTrigger, PendingInv, ReadingInv,
                BlockingFingerprints, InStatus, Recorded
<1>4. ASSUME NEW f \in todo, SaveProposal(f) PROVE LiveInv'
    <2>. DEFINE new == ProposalIdentifier(f, stamp)
    <2>1. /\ new \in Id /\ new[1] = f /\ ~Recorded(new) /\ todo' = todo \ {f}
          /\ loop' # "fetching" /\ UNCHANGED <<stage, job>>
          /\ \A id \in Id \ {new} : store'[id] = store[id]
        BY <1>4 DEF SaveProposal, ProposalIdentifier, Id, TypeInv, TypeOK, runVars
    <2>2. \A id \in InStatus(BlockingStatus)' : id \in InStatus(BlockingStatus) \/ id = new
        BY <2>1 DEF InStatus, Recorded
    <2>3. \A id \in InStatus(BlockingStatus) : id[1] # f \/ f \in Licensed
        BY DEF LiveInv, ReadingInv, BlockingFingerprints
    <2>4. OneLivePerTrigger'
        BY <2>1, <2>2, <2>3 DEF LiveInv, OneLivePerTrigger
    <2>5. PendingInv'
        BY <2>1 DEF LiveInv, PendingInv, InStatus, Recorded
    <2>6. ReadingInv'
        BY <2>1, <2>2 DEF LiveInv, ReadingInv, BlockingFingerprints
    <2>. QED
        BY <2>4, <2>5, <2>6 DEF LiveInv
<1>5. ASSUME NEW id \in queue, ExecuteAutonomously(id) PROVE LiveInv'
    <2>1. /\ UNCHANGED <<store, loop, blocking, todo>> /\ id[1] \in Licensed /\ job'[Daemon] = id
          /\ \A r \in Runner \ {Daemon} : stage'[r] = stage[r] /\ job'[r] = job[r]
        BY <1>5, Constants DEF ExecuteAutonomously, AutonomyGranted, Starts, TypeInv, TypeOK
    <2>. QED
        BY <2>1
           DEF LiveInv, OneLivePerTrigger, PendingInv, ReadingInv, BlockingFingerprints,
               InStatus, Recorded
<1>6. ASSUME NEW p \in Person, NEW id \in Id, Approve(p, id) PROVE LiveInv'
    <2>1. /\ UNCHANGED <<store, loop, blocking, todo>> /\ id \in InStatus({"proposed"})
          /\ stage'[p] = "executing" /\ job'[p] = id /\ p # Daemon
          /\ \A r \in Runner \ {p} : stage'[r] = stage[r] /\ job'[r] = job[r]
        BY <1>6, Constants DEF Approve, Starts, TypeInv, TypeOK, loopVars
    <2>. QED
        BY <2>1
           DEF LiveInv, OneLivePerTrigger, PendingInv, ReadingInv, BlockingFingerprints,
               InStatus, Recorded
<1>7. ASSUME NEW r \in Runner, Runs(r) \/ Breaks(r) PROVE LiveInv'
    <2>1. \A id \in InStatus(BlockingStatus)' :
              id[1] \notin Licensed => id \in InStatus(BlockingStatus)
        BY <1>7, RunsOnlySettle
    <2>2. OneLivePerTrigger'
        BY <2>1 DEF LiveInv, OneLivePerTrigger
    <2>3. ReadingInv'
        BY <1>7, <2>1, RunAndLoop, SettledReadings DEF LiveInv
    <2>4. ASSUME NEW q \in Runner, stage'[q] # "idle", q # Daemon, job'[q][1] \notin Licensed
          PROVE  job'[q] \in
                     InStatus(IF stage[q] = "executing" THEN {"proposed"} ELSE {"executed"})'
        <3>1. CASE q = r
            <4>1. ExecutionEnds(r) /\ job'[r] = job[r] /\ job[r] \in Id /\ stage'[r] = "verifying"
                BY <1>7, <2>4, <3>1, RunWrites
            <4>2. store'[job[r]] =
                      [status |-> "executed", mode |-> ModeOf(r), executedAt |-> since[r]]
                BY <4>1 DEF ExecutionEnds, Writes, TypeInv, TypeOK
            <4>3. store'[job[r]] \in Receipt
                <5>1. since[r] \in Time /\ ModeOf(r) \in Mode /\ "executed" \in Status
                    BY DEF TypeInv, TypeOK, Mode, ModeOf, Status
                <5>. QED
                    BY <4>2, <5>1 DEF Receipt
            <4>. QED
                BY <3>1, <4>1, <4>2, <4>3, AbsentAssumption DEF InStatus, Recorded
        <3>2. CASE q # r
            <4>1. r = Daemon
                BY <2>4, <3>2, Constants DEF OnePerson
            <4>2. job[r][1] \in Licensed /\ job'[q] = job[q] /\ stage'[q] = stage[q]
                BY <1>7, <3>2, <4>1, RunWrites DEF LiveInv, PendingInv
            <4>3. job[q] \in Id /\ store'[job[q]] = store[job[q]]
                BY <1>7, <2>4, <4>2, RunWrites DEF TypeInv
            <4>. QED
                BY <2>4, <4>2, <4>3 DEF LiveInv, PendingInv, InStatus, Recorded
        <3>. QED
            BY <3>1, <3>2
    <2>5. stage'[Daemon] # "idle" => job'[Daemon][1] \in Licensed
        BY <1>7, RunWrites, Constants DEF LiveInv, PendingInv
    <2>6. PendingInv'
        BY <2>4, <2>5 DEF PendingInv
    <2>. QED
        BY <2>2, <2>3, <2>6 DEF LiveInv
<1>. QED
    BY <1>1, <1>2, <1>3, <1>4, <1>5, <1>6, <1>7, Actions

\* At most one receipt of a trigger outside the policy is open, being verified
\* or failed, however old the loop's reading of the blocked fingerprints is
\* (run_once, drift_pass), as long as one person at a time approves.
THEOREM OneLiveReceipt ==
    ASSUME OnePerson
    PROVE  Spec => []OneLivePerTrigger
<1>1. Init => TypeInv /\ LiveInv
    BY InitialTypes
    DEF Init, LiveInv, OneLivePerTrigger, PendingInv, ReadingInv, InStatus, Recorded,
        VerifiedByPerson, BlockingStatus
<1>2. TypeInv /\ LiveInv /\ [Next]_vars => (TypeInv /\ LiveInv)'
    BY NextKeepsTypes, LiveStep
<1>3. LiveInv => OneLivePerTrigger
    BY DEF LiveInv
<1>. QED
    BY <1>1, <1>2, <1>3, PTL DEF Spec

-----------------------------------------------------------------------------
(* The hourly limit, where nobody approves by hand.                        *)

\* A run of the loop's ends with a receipt of its own that says when the run
\* began, or leaves the one it has, or is killed.
LEMMA DaemonRuns ==
    ASSUME TypeInv, Runs(Daemon) \/ Breaks(Daemon)
    PROVE  /\ stage[Daemon] # "idle" /\ job[Daemon] \in Id
           /\ \A id \in Id \ {job[Daemon]} : store'[id] = store[id]
           /\ \/ /\ store'[job[Daemon]].mode = "autonomous"
                 /\ store'[job[Daemon]].executedAt = since[Daemon]
                 /\ store'[job[Daemon]].status # "proposed"
                 /\ store'[job[Daemon]] # Absent
                 /\ cuts' = cuts
              \/ store' = store /\ stage[Daemon] = "verifying" /\ cuts' = cuts
              \/ store' = store /\ cuts' = cuts + 1
           /\ \/ stage'[Daemon] = "idle"
              \/ /\ stage'[Daemon] = "verifying" /\ job'[Daemon] = job[Daemon]
                 /\ since'[Daemon] = since[Daemon] /\ loop' = loop
           /\ UNCHANGED <<now, stamp, begun>> /\ queue' \subseteq queue
<1>1. stage[Daemon] # "idle" /\ job[Daemon] \in Id /\ Daemon \in Runner
    BY Constants, RunWrites
<1>2. ASSUME NEW status \in Status \ {"proposed"}, Writes(Daemon, status)
      PROVE  /\ store'[job[Daemon]].mode = "autonomous"
             /\ store'[job[Daemon]].executedAt = since[Daemon]
             /\ store'[job[Daemon]].status # "proposed"
             /\ store'[job[Daemon]] # Absent
             /\ \A id \in Id \ {job[Daemon]} : store'[id] = store[id]
    <2>1. store'[job[Daemon]] =
              [status |-> status, mode |-> "autonomous", executedAt |-> since[Daemon]]
        BY <1>1, <1>2 DEF Writes, ModeOf, TypeInv, TypeOK
    <2>2. since[Daemon] \in Time /\ "autonomous" \in Mode
        BY Constants DEF TypeInv, TypeOK, Mode
    <2>3. store'[job[Daemon]] \in Receipt
        BY <2>1, <2>2 DEF Receipt
    <2>4. \A id \in Id \ {job[Daemon]} : store'[id] = store[id]
        BY <1>1, <1>2 DEF Writes, TypeInv, TypeOK
    <2>. QED
        BY <1>2, <2>1, <2>3, <2>4, AbsentAssumption
<1>3. RunStops(Daemon) => stage'[Daemon] = "idle"
    BY <1>1 DEF RunStops, TypeInv, TypeOK
<1>4. Raises(Daemon) => stamp' = stamp /\ queue' = {}
    BY DEF Raises, LoopEnds
<1>5. CASE ExecutionFails(Daemon)
    BY <1>1, <1>2, <1>3, <1>4, <1>5 DEF ExecutionFails, Status, history
<1>6. CASE ExecutionEnds(Daemon)
    BY <1>1, <1>2, <1>6 DEF ExecutionEnds, Status, loopVars, TypeInv, TypeOK
<1>7. CASE VerifierPasses(Daemon)
    BY <1>1, <1>2, <1>3, <1>7 DEF VerifierPasses, Status, loopVars
<1>8. CASE VerifyTimesOut(Daemon)
    BY <1>1, <1>2, <1>3, <1>8 DEF VerifyTimesOut, Status, loopVars, history
<1>9. CASE VerifierRaises(Daemon)
    BY <1>1, <1>3, <1>4, <1>9 DEF VerifierRaises, history
<1>10. CASE RunKilled(Daemon)
    BY <1>1, <1>3, <1>4, <1>10 DEF RunKilled, history
<1>. QED
    BY <1>5, <1>6, <1>7, <1>8, <1>9, <1>10 DEF Runs, Breaks

\* In every window, what the loop began is on as many receipts.
LEMMA BegunIsCounted ==
    ASSUME TypeInv, CountedInv, stage[Daemon] = "idle", NEW t \in Int, NEW early \in Int,
           early <= t - Hour
    PROVE  LET window == {b \in begun : t - Hour < b.at /\ b.at <= t}
           IN  /\ IsFiniteSet(window) /\ Cardinality(window) \in Nat
               /\ Cardinality(window) <= Cardinality(AutonomousSince(early))
               /\ Cardinality(AutonomousSince(early)) \in Nat
<1>. DEFINE window == {b \in begun : t - Hour < b.at /\ b.at <= t}
            receiptOf == [b \in window |-> b.id]
<1>1. AutonomousSince(early) \in SUBSET Id
    BY DEF AutonomousSince
<1>2. IsFiniteSet(AutonomousSince(early)) /\ Cardinality(AutonomousSince(early)) \in Nat
    BY <1>1, Ids
<1>3. ASSUME NEW b \in window PROVE b.id \in AutonomousSince(early)
    <2>1. b.id \in Id /\ b.at \in Nat /\ b \in begun
        BY Constants DEF TypeInv, TypeOK
    <2>2. Recorded(b.id) /\ store[b.id].mode = "autonomous" /\ store[b.id].executedAt = b.at
        BY <2>1 DEF CountedInv
    <2>3. b.at > early
        BY <2>1, ClockAssumption
    <2>. QED
        BY <2>1, <2>2, <2>3 DEF AutonomousSince
<1>4. receiptOf \in Injection(window, AutonomousSince(early))
    <2>1. receiptOf \in [window -> AutonomousSince(early)]
        BY <1>3
    <2>2. \A b, c \in window : receiptOf[b] = receiptOf[c] => b = c
        BY DEF CountedInv
    <2>. HIDE DEF window, receiptOf
    <2>. QED
        BY <2>1, <2>2 DEF Injection, IsInjective
<1>. QED
    BY <1>2, <1>4, FS_Injection, FS_CardinalityType

\* An execution the grant allows keeps every window within the limit.
LEMMA GrantsKeepWindows ==
    ASSUME TypeInv, QueueInv, CountedInv, WindowInv, NEW id \in Id, ExecuteAutonomously(id)
    PROVE  WindowInv'
<1>. DEFINE new == [id |-> id, at |-> now]
            window(t) == {b \in begun : t - Hour < b.at /\ b.at <= t}
<1>1. /\ begun' = begun \cup {new} /\ stage[Daemon] = "idle"
      /\ Cardinality(AutonomousSince(stamp - Hour)) < MaxPerHour
      /\ new.at = now
    BY DEF ExecuteAutonomously, AutonomyGranted, UnderRate
<1>2. now \in Nat /\ stamp \in Nat /\ stamp <= now /\ Hour \in Nat /\ MaxPerHour \in Nat
    BY Constants, ClockAssumption, PolicyAssumption DEF TypeInv, TypeOK, QueueInv
<1>3. ASSUME NEW t \in Time
      PROVE  Cardinality({b \in begun' : t - Hour < b.at /\ b.at <= t}) <= MaxPerHour
    <2>. t \in Nat
        BY Constants
    <2>1. CASE t - Hour < now /\ now <= t
        <3>1. stamp - Hour <= t - Hour /\ t \in Int /\ stamp - Hour \in Int
            BY <1>2, <2>1
        <3>2. /\ IsFiniteSet(window(t)) /\ Cardinality(window(t)) \in Nat
              /\ Cardinality(window(t)) <= Cardinality(AutonomousSince(stamp - Hour))
              /\ Cardinality(AutonomousSince(stamp - Hour)) \in Nat
            BY <1>1, <3>1, BegunIsCounted
        <3>3. {b \in begun' : t - Hour < b.at /\ b.at <= t} = window(t) \cup {new}
            BY <1>1, <2>1
        <3>. HIDE DEF window, new
        <3>4. \/ Cardinality(window(t) \cup {new}) = Cardinality(window(t))
              \/ Cardinality(window(t) \cup {new}) = Cardinality(window(t)) + 1
            BY <3>2, FS_AddElement
        <3>5. Cardinality(window(t)) < MaxPerHour
            BY <1>1, <1>2, <3>2
        <3>6. Cardinality(window(t) \cup {new}) <= MaxPerHour
            BY <1>2, <3>2, <3>4, <3>5
        <3>. QED
            BY <3>3, <3>6, Zenon
    <2>2. CASE ~(t - Hour < now /\ now <= t)
        <3>1. {b \in begun' : t - Hour < b.at /\ b.at <= t} = window(t)
            BY <1>1, <2>2
        <3>. QED
            BY <3>1 DEF WindowInv
    <2>. QED
        BY <2>1, <2>2
<1>. QED
    BY <1>3 DEF WindowInv

\* The passes stay behind the clock, list what is on record, and are where a
\* run that has not ended left them.
LEMMA PassCounts ==
    ASSUME TypeInv, RateInv, PassStep
    PROVE  RateInv'
<1>. /\ now \in Nat /\ now' \in Nat /\ stamp \in Nat /\ cuts \in Nat /\ stamp <= now
     /\ UNCHANGED <<store, stage, job, since, begun>>
    <2>1. now' \in Nat
        BY PassStepKeepsTypes, Constants DEF TypeInv, TypeOK
    <2>. QED
        BY <2>1, PassStepKeepsTypes, Numbers DEF RateInv, QueueInv
<1>1. /\ now' = now \/ now' = now + 1
      /\ stamp' \in {stamp, now}
    BY DEF PassStep, Tick, Fires, BeginAlerts, Fetched, BeginDrift, Audited,
           SkipUndeclared, ProposalExists,
           PassesEnd, Restarted, BeginAutonomy, Withhold, AutonomyEnds, EvidenceUnavailable,
           LoopKilled, LoopEnds, loopVars
<1>2. queue' \subseteq queue \/ BeginAutonomy
    BY DEF PassStep, Tick, Fires, BeginAlerts, Fetched, BeginDrift, Audited,
           SkipUndeclared, ProposalExists,
           PassesEnd, Restarted, Withhold, AutonomyEnds, EvidenceUnavailable,
           LoopKilled, LoopEnds, loopVars
<1>3. cuts' = 0 => /\ cuts = 0
                   /\ loop = "autonomy" => loop' = "autonomy" \/ stage[Daemon] = "idle"
    <2>1. cuts' = cuts \/ cuts' = cuts + 1
        BY DEF PassStep, Tick, Fires, BeginAlerts, Fetched, BeginDrift, Audited,
               SkipUndeclared, ProposalExists,
               PassesEnd, Restarted, BeginAutonomy, Withhold, AutonomyEnds, EvidenceUnavailable,
               LoopKilled
    <2>2. loop = "autonomy" => loop' = "autonomy" \/ stage[Daemon] = "idle"
        BY DEF PassStep, Tick, Fires, BeginAlerts, Fetched, BeginDrift, Audited,
               SkipUndeclared, ProposalExists,
               PassesEnd, Restarted, BeginAutonomy, Withhold, AutonomyEnds, EvidenceUnavailable,
               LoopKilled, Moves, loopVars
    <2>. QED
        BY <2>1, <2>2
<1>4. BeginAutonomy => loop = "rested" /\ queue' = InStatus({"proposed"})
    BY DEF BeginAutonomy, Moves
<1>5. QueueInv'
    BY <1>1, <1>2, <1>4 DEF RateInv, QueueInv, InStatus, Recorded
<1>6. ASSUME cuts' = 0 PROVE CountedInv'
    BY <1>2, <1>3, <1>4, <1>6 DEF RateInv, CountedInv, InStatus, Recorded
<1>7. cuts' = 0 => WindowInv'
    BY <1>3 DEF RateInv, WindowInv
<1>. QED
    BY <1>5, <1>6, <1>7 DEF RateInv

\* Every step keeps the count.
LEMMA RateStep ==
    ASSUME Nobody, TypeInv, RateInv, [Next]_vars
    PROVE  RateInv'
<1>. Daemon \in Runner /\ cuts \in Nat /\ now \in Nat /\ \A r \in Runner : r = Daemon
    BY Constants, Numbers DEF Nobody
<1>1. CASE UNCHANGED vars
    BY <1>1 DEF vars, loopVars, runVars, history, RateInv, QueueInv, CountedInv, WindowInv, Recorded
<1>2. CASE PassStep
    BY <1>2, PassCounts
<1>3. ASSUME NEW f \in Fingerprint, Clears(f) PROVE RateInv'
    BY <1>3 DEF Clears, loopVars, runVars, RateInv, QueueInv, CountedInv, WindowInv, Recorded
<1>4. ASSUME NEW f \in todo, SaveProposal(f) PROVE RateInv'
    <2>. DEFINE new == ProposalIdentifier(f, stamp)
    <2>1. /\ new \in Id /\ ~Recorded(new) /\ store'[new] = Proposal
          /\ UNCHANGED <<now, loop, stamp, queue, stage, job, since, cuts, begun>>
          /\ \A id \in Id \ {new} : store'[id] = store[id]
        BY <1>4 DEF SaveProposal, ProposalIdentifier, Id, TypeInv, TypeOK, runVars, history
    <2>2. Proposal # Absent
        BY AbsentAssumption, Constants DEF Proposal, Receipt, Status, Mode
    <2>3. \A id \in Id : Recorded(id) => Recorded(id)' /\ store'[id] = store[id]
        BY <2>1 DEF Recorded
    <2>4. \A b \in begun : b.id \in Id
        BY DEF TypeInv, TypeOK
    <2>5. queue \subseteq Id
        BY DEF TypeInv, TypeOK
    <2>6. QueueInv'
        BY <2>1, <2>3, <2>5 DEF RateInv, QueueInv
    <2>7. CountedInv => CountedInv'
        BY <2>1, <2>3, <2>4 DEF CountedInv
    <2>8. WindowInv => WindowInv'
        BY <2>1 DEF WindowInv
    <2>. QED
        BY <2>1, <2>6, <2>7, <2>8 DEF RateInv
<1>5. ASSUME NEW id \in queue, ExecuteAutonomously(id) PROVE RateInv'
    <2>1. /\ UNCHANGED <<now, store, stamp, loop, cuts>> /\ queue' = queue \ {id}
          /\ begun' = begun \cup {[id |-> id, at |-> now]}
          /\ stage[Daemon] = "idle" /\ loop = "autonomy" /\ id \in Id
          /\ stage'[Daemon] = "executing" /\ job'[Daemon] = id /\ since'[Daemon] = now
        BY <1>5 DEF ExecuteAutonomously, Starts, TypeInv, TypeOK
    <2>2. QueueInv'
        BY <2>1 DEF RateInv, QueueInv, Recorded
    <2>3. CountedInv => CountedInv'
        <3>1. SUFFICES ASSUME CountedInv PROVE CountedInv'
            OBVIOUS
        <3>2. \A b \in begun' : b \in begun \/ b = [id |-> id, at |-> now]
            BY <2>1
        <3>3. \A b \in begun : b.id # id /\ Recorded(b.id) /\ b.id \notin queue
                /\ store[b.id].mode = "autonomous" /\ store[b.id].executedAt = b.at
                /\ store[b.id].status # "proposed"
            BY <1>5, <2>1, <3>1 DEF CountedInv
        <3>4. Recorded(id)
            BY <1>5 DEF RateInv, QueueInv
        <3>5. \A b, c \in begun' : b.id = c.id => b = c
            BY <3>1, <3>2, <3>3 DEF CountedInv
        <3>6. [id |-> job'[Daemon], at |-> since'[Daemon]] \in begun'
            BY <2>1
        <3>. QED
            BY <2>1, <3>2, <3>3, <3>4, <3>5, <3>6 DEF CountedInv, Recorded
    <2>4. CountedInv /\ WindowInv => WindowInv'
        BY <1>5, <2>1, GrantsKeepWindows DEF RateInv
    <2>. QED
        BY <2>1, <2>2, <2>3, <2>4 DEF RateInv
<1>6. ASSUME NEW p \in Person, NEW id \in Id, Approve(p, id) PROVE RateInv'
    BY <1>6 DEF Nobody
<1>7. ASSUME Runs(Daemon) \/ Breaks(Daemon) PROVE RateInv'
    <2>1. \A id \in Id : Recorded(id) => Recorded(id)'
        BY <1>7, DaemonRuns DEF Recorded
    <2>2. QueueInv'
        BY <1>7, <2>1, DaemonRuns DEF RateInv, QueueInv, TypeInv, TypeOK
    <2>3. cuts' = 0 => cuts = 0
        BY <1>7, DaemonRuns
    <2>4. ASSUME cuts' = 0 PROVE CountedInv'
        <3>1. CountedInv /\ cuts = 0 /\ cuts' = cuts
            BY <1>7, <2>3, <2>4, DaemonRuns DEF RateInv
        <3>2. PICK own \in begun : own.id = job[Daemon] /\ own.at = since[Daemon]
            BY <1>7, <3>1, DaemonRuns DEF CountedInv
        <3>3. \A b \in begun : b.id \in Id /\ (b.id = job[Daemon] => b = own)
            BY <3>1, <3>2 DEF CountedInv, TypeInv, TypeOK
        <3>4. \A b \in begun : store'[b.id].mode = "autonomous" /\ store'[b.id].executedAt = b.at
                /\ store'[b.id].status # "proposed"
            BY <1>7, <3>1, <3>2, <3>3, DaemonRuns DEF CountedInv
        <3>5. stage'[Daemon] # "idle" =>
                loop' = "autonomy" /\ [id |-> job'[Daemon], at |-> since'[Daemon]] \in begun'
            BY <1>7, <3>1, DaemonRuns DEF CountedInv
        <3>6. begun' = begun /\ queue' \subseteq queue
            BY <1>7, DaemonRuns
        <3>. QED
            BY <2>1, <3>1, <3>3, <3>4, <3>5, <3>6 DEF CountedInv
    <2>5. cuts' = 0 => WindowInv'
        BY <1>7, <2>3, DaemonRuns DEF RateInv, WindowInv
    <2>. QED
        BY <2>2, <2>4, <2>5 DEF RateInv
<1>. QED
    BY <1>1, <1>2, <1>3, <1>4, <1>5, <1>6, <1>7, Actions

\* In no hour does the loop start more executions than the policy allows,
\* whichever passes they fall in and however old the pass's one reading of the
\* clock is (autonomy_pass, autonomy_decision), as long as nobody else runs its
\* proposals and it is not killed: a receipt is only written when a playbook
\* has ended.
THEOREM HourlyLimitHolds ==
    ASSUME Nobody
    PROVE  Spec => []RateLimitHolds
<1>1. ASSUME Init PROVE TypeInv /\ RateInv
    <2>1. TypeInv /\ QueueInv /\ CountedInv
        BY <1>1, InitialTypes, Constants DEF Init, QueueInv, CountedInv
    <2>2. \A t \in Time : {b \in begun : t - Hour < b.at /\ b.at <= t} = {}
        BY <1>1 DEF Init
    <2>3. Cardinality({}) <= MaxPerHour
        BY FS_EmptySet, PolicyAssumption
    <2>. QED
        BY <2>1, <2>2, <2>3 DEF RateInv, WindowInv
<1>2. TypeInv /\ RateInv /\ [Next]_vars => (TypeInv /\ RateInv)'
    BY NextKeepsTypes, RateStep
<1>3. RateInv => RateLimitHolds
    BY DEF RateInv, WindowInv, RateLimitHolds
<1>. QED
    BY <1>1, <1>2, <1>3, PTL DEF Spec
=============================================================================
