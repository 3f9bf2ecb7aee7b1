---------------------------- MODULE OperatorLoop ----------------------------
(***************************************************************************)
(* The watch loop of src/sdk/src/cloudfall/operator.py and the people who  *)
(* approve its proposals from a shell.                                     *)
(*                                                                         *)
(* One daemon runs an alerts pass, a drift pass when it is due and, under  *)
(* a declared policy, an autonomy pass.  People run `operator approve` at  *)
(* any time.  They share the directory of receipts, which nothing locks,   *)
(* and the fleet, whose triggers fire and clear on their own.              *)
(***************************************************************************)
EXTENDS Integers, FiniteSets

CONSTANTS
    Fingerprint,   \* the triggers: numbers, in the order of their digests
    Alert,         \* the triggers that are alerts; the rest is drift
    Declared,      \* the triggers on a server, or of a service, that the
                   \* inventory declares: an alert may name another
    Kind,          \* the operations a proposal may run
    KindOf,        \* the operation that remedies a trigger
    Required,      \* verified runs a kind needs for autonomy, when granted
    Licensed,      \* the triggers on servers whose environment has a policy
    MaxPerHour,    \* autonomous executions the policy allows in an hour
    Hour,          \* an hour, in units of the modelled clock
    Quiet,         \* the times the policy's quiet hours cover
    Earlier,       \* the triggers of receipts people verified before the start
    Person,        \* people running `operator approve`
    Daemon,        \* the process running `operator run`
    Absent,        \* no receipt under that name
    MayRefire,     \* whether a trigger may fire again in the very second its
                   \* last proposal was named after
    MaxTime,       \* bound: the last value of the clock
    MaxCuts        \* bound: how often a process may be killed

ASSUME TriggerAssumption ==
    /\ Fingerprint \subseteq Nat /\ IsFiniteSet(Fingerprint)
    /\ Alert \subseteq Fingerprint
    /\ Declared \subseteq Fingerprint
    /\ Fingerprint \ Alert \subseteq Declared
    /\ KindOf \in [Fingerprint -> Kind]

ASSUME PolicyAssumption ==
    /\ DOMAIN Required \subseteq Kind
    /\ \A k \in DOMAIN Required : Required[k] \in Nat \ {0}
    /\ Licensed \subseteq Fingerprint
    /\ MaxPerHour \in Nat \ {0}
    /\ Earlier \subseteq Fingerprint

ASSUME ClockAssumption ==
    /\ Hour \in Nat \ {0}
    /\ MaxTime \in Nat
    /\ MaxCuts \in Nat
    /\ MayRefire \in BOOLEAN

ASSUME DaemonAssumption == Daemon \notin Person

VARIABLES
    now,       \* the clock
    firing,    \* the triggers whose evidence currently holds on the fleet
    store,     \* the receipt each id names, Absent when there is none
    loop,      \* where the daemon stands in its round
    stamp,     \* the time its current pass began
    blocking,  \* the fingerprints it read as blocked before fetching alerts
    todo,      \* the triggers it has still to propose for
    queue,     \* the open proposals its autonomy pass has still to consider
    stage,     \* where each runner's execution stands
    job,       \* the proposal each runner executes
    since,     \* when that execution began
    cuts,      \* how often a process was killed
    begun,     \* history: autonomous executions, with when they began
    trusted,   \* history: proposals a person's run verified
    resolved   \* history: proposals whose trigger cleared after a run of theirs

loopVars == <<loop, stamp, blocking, todo, queue>>
runVars == <<stage, job, since>>
history == <<begun, trusted, resolved>>
vars == <<now, firing, store, loopVars, runVars, cuts, history>>

-----------------------------------------------------------------------------
Time == 0..MaxTime
Runner == Person \cup {Daemon}

\* A proposal is named after its trigger and the second its pass began.
Id == Fingerprint \X Time
ProposalIdentifier(f, time) == <<f, time>>
NoId == <<0, 0>>

Status == {"proposed", "executed", "verified", "failed"}
Mode == {"none", "human", "autonomous"}
Receipt == [status: Status, mode: Mode, executedAt: Time]

ASSUME AbsentAssumption == Absent \notin Receipt

Proposal == [status |-> "proposed", mode |-> "none", executedAt |-> 0]

Recorded(id) == store[id] # Absent
InStatus(statuses) == {id \in Id : Recorded(id) /\ store[id].status \in statuses}

\* The statuses that keep a trigger from being proposed for again.
BlockingStatus == {"proposed", "executed", "failed"}
\* MUTANT of BlockingFingerprints: only an open proposal blocks its trigger.
BlockingWhileOpen == {id[1] : id \in InStatus({"proposed"})}

BlockingFingerprints == {id[1] : id \in InStatus(BlockingStatus)}

\* ProposalStore.list: by creation time, then by file name.
Before(i, j) == i[2] < j[2] \/ (i[2] = j[2] /\ i[1] < j[1])
Oldest(ids) == {i \in ids : \A j \in ids \ {i} : Before(i, j)}
Newest(ids) == {i \in ids : \A j \in ids \ {i} : Before(j, i)}

-----------------------------------------------------------------------------
(* autonomy_decision: whether the policy licenses one execution now.       *)

KindOfId(id) == KindOf[id[1]]

Finished(id) ==
    {i \in InStatus({"verified", "failed"}) : KindOfId(i) = KindOfId(id) /\ i # id}

\* MUTANT of Earned: a run counts once its playbook has ended.
EarnedByExecution(id) ==
    Cardinality({i \in InStatus({"executed", "verified"}) :
                    KindOfId(i) = KindOfId(id) /\ i # id})
        >= Required[KindOfId(id)]

Earned(id) ==
    Cardinality({i \in Finished(id) : store[i].status = "verified"})
        >= Required[KindOfId(id)]

Suspended(id) == \E i \in Newest(Finished(id)) : store[i].status = "failed"

AutonomousSince(time) ==
    {i \in Id : /\ Recorded(i)
                /\ store[i].mode = "autonomous"
                /\ store[i].executedAt > time}

\* MUTANT of UnderRate: the limit itself is still under the limit.
UnderRateInclusive(time) == Cardinality(AutonomousSince(time - Hour)) <= MaxPerHour

UnderRate(time) == Cardinality(AutonomousSince(time - Hour)) < MaxPerHour

AutonomyGranted(id, moment) ==
    /\ id[1] \in Licensed
    /\ KindOfId(id) \in DOMAIN Required
    /\ Earned(id)
    /\ ~Suspended(id)
    /\ moment \notin Quiet
    /\ UnderRate(moment)

-----------------------------------------------------------------------------
TypeOK ==
    /\ now \in Time
    /\ firing \in SUBSET Fingerprint
    /\ store \in [Id -> Receipt \cup {Absent}]
    /\ loop \in {"asleep", "fetching", "proposing", "auditing",
                 "proposing drift", "rested", "autonomy", "down"}
    /\ stamp \in Time
    /\ blocking \in SUBSET Fingerprint
    /\ todo \in SUBSET Fingerprint
    /\ queue \in SUBSET Id
    /\ stage \in [Runner -> {"idle", "executing", "verifying"}]
    /\ job \in [Runner -> Id \cup {NoId}]
    /\ since \in [Runner -> Time]
    /\ cuts \in 0..MaxCuts
    /\ begun \in SUBSET [id: Id, at: Time]
    /\ trusted \in SUBSET Id
    /\ resolved \in SUBSET Id

EarlierReceipts == {ProposalIdentifier(f, 0) : f \in Earlier}
VerifiedByPerson == [status |-> "verified", mode |-> "human", executedAt |-> 0]

Init ==
    /\ now = 0
    /\ firing \in SUBSET (IF MayRefire THEN Fingerprint ELSE Fingerprint \ Earlier)
    /\ store = [id \in Id |-> IF id \in EarlierReceipts THEN VerifiedByPerson ELSE Absent]
    /\ loop = "asleep"
    /\ stamp = 0
    /\ blocking = {}
    /\ todo = {}
    /\ queue = {}
    /\ stage = [r \in Runner |-> "idle"]
    /\ job = [r \in Runner |-> NoId]
    /\ since = [r \in Runner |-> 0]
    /\ cuts = 0
    /\ begun = {}
    /\ trusted = EarlierReceipts
    /\ resolved = EarlierReceipts

-----------------------------------------------------------------------------
(* The world outside the loop.                                             *)

Tick ==
    /\ now < MaxTime
    /\ now' = now + 1
    /\ UNCHANGED <<firing, store, loopVars, runVars, cuts, history>>

Fires(f) ==
    /\ f \notin firing
    /\ MayRefire \/ ~Recorded(ProposalIdentifier(f, now))
    /\ firing' = firing \cup {f}
    /\ UNCHANGED <<now, store, loopVars, runVars, cuts, history>>

\* The proposals of a trigger some run has converged, or is waiting to see.
Converged(f) ==
    {id \in Id : /\ id[1] = f
                 /\ \E r \in Runner : stage[r] = "verifying" /\ job[r] = id}

Clears(f) ==
    /\ f \in firing
    /\ firing' = firing \ {f}
    /\ resolved' = resolved \cup Converged(f)
    /\ UNCHANGED <<now, store, loopVars, runVars, cuts, begun, trusted>>

-----------------------------------------------------------------------------
(* The alerts pass and the drift pass.                                     *)

Moves(from, to) == loop = from /\ loop' = to

\* run_once: the blocked fingerprints are read before the gateway is asked.
BeginAlerts ==
    /\ Moves("asleep", "fetching")
    /\ stamp' = now
    /\ blocking' = BlockingFingerprints
    /\ UNCHANGED <<now, firing, store, todo, queue, runVars, cuts, history>>

Fetched ==
    /\ Moves("fetching", "proposing")
    /\ todo' = (firing \cap Alert) \ blocking
    /\ UNCHANGED <<now, firing, store, stamp, blocking, queue, runVars, cuts, history>>

\* drift_pass: the audit comes first, the blocked fingerprints after it.
BeginDrift ==
    /\ Moves("proposing", "auditing")
    /\ todo = {}
    /\ stamp' = now
    /\ UNCHANGED <<now, firing, store, blocking, todo, queue, runVars, cuts, history>>

Audited ==
    /\ Moves("auditing", "proposing drift")
    /\ todo' = (firing \ Alert) \ BlockingFingerprints
    /\ UNCHANGED <<now, firing, store, stamp, blocking, queue, runVars, cuts, history>>

\* MUTANT of SkipUndeclared: the first alert that is skipped ends the pass.
SkipEndsPass(f) ==
    /\ loop = "proposing"
    /\ f \in todo \ Declared
    /\ todo' = {}
    /\ UNCHANGED <<now, firing, store, loop, stamp, blocking, queue, runVars, cuts, history>>

\* propose_for_alert finds no such service on the server: the alert is named in
\* the report of the pass and leaves no receipt.
SkipUndeclared(f) ==
    /\ loop = "proposing"
    /\ f \in todo \ Declared
    /\ todo' = todo \ {f}
    /\ UNCHANGED <<now, firing, store, loop, stamp, blocking, queue, runVars, cuts, history>>

SaveProposal(f) ==
    LET id == ProposalIdentifier(f, stamp)
    IN  /\ loop \in {"proposing", "proposing drift"}
        /\ f \in todo \cap Declared
        /\ ~Recorded(id)
        /\ store' = [store EXCEPT ![id] = Proposal]
        /\ todo' = todo \ {f}
        /\ UNCHANGED <<now, firing, loop, stamp, blocking, queue, runVars, cuts, history>>

\* The drift pass was not due, or is over.
PassesEnd ==
    /\ loop \in {"proposing", "proposing drift"}
    /\ todo = {}
    /\ loop' = "rested"
    /\ UNCHANGED <<now, firing, store, stamp, blocking, todo, queue, runVars, cuts, history>>

\* An error ends the loop; what it was about to do is lost with it.
LoopEnds ==
    /\ loop' = "down"
    /\ todo' = {}
    /\ queue' = {}
    /\ blocking' = {}
    /\ UNCHANGED stamp

\* save() raises proposal_exists: the trigger was proposed this very second.
ProposalExists ==
    /\ loop \in {"proposing", "proposing drift"}
    /\ \E f \in todo \cap Declared : Recorded(ProposalIdentifier(f, stamp))
    /\ LoopEnds
    /\ UNCHANGED <<now, firing, store, runVars, cuts, history>>

\* The gateway or the inspect playbook did not answer.
EvidenceUnavailable ==
    /\ loop \in {"fetching", "auditing"}
    /\ LoopEnds
    /\ UNCHANGED <<now, firing, store, runVars, cuts, history>>

\* The service manager starts a fresh loop (Restart=on-failure).
Restarted ==
    /\ Moves("down", "asleep")
    /\ UNCHANGED <<now, firing, store, stamp, blocking, todo, queue, runVars, cuts, history>>

-----------------------------------------------------------------------------
(* The autonomy pass.                                                      *)

\* One moment and one list of open proposals serve the whole pass.
BeginAutonomy ==
    /\ Moves("rested", "autonomy")
    /\ stamp' = now
    /\ queue' = InStatus({"proposed"})
    /\ UNCHANGED <<now, firing, store, blocking, todo, runVars, cuts, history>>

Starts(r, id) ==
    /\ stage' = [stage EXCEPT ![r] = "executing"]
    /\ job' = [job EXCEPT ![r] = id]
    /\ since' = [since EXCEPT ![r] = now]

\* The oldest proposal still listed, whatever became of it since.
ExecuteAutonomously(id) ==
    /\ loop = "autonomy"
    /\ stage[Daemon] = "idle"
    /\ id \in Oldest(queue)
    /\ AutonomyGranted(id, stamp)
    /\ queue' = queue \ {id}
    /\ Starts(Daemon, id)
    /\ begun' = begun \cup {[id |-> id, at |-> now]}
    /\ UNCHANGED <<now, firing, store, loop, stamp, blocking, todo, cuts, trusted, resolved>>

Withhold(id) ==
    /\ loop = "autonomy"
    /\ stage[Daemon] = "idle"
    /\ id \in Oldest(queue)
    /\ ~AutonomyGranted(id, stamp)
    /\ queue' = queue \ {id}
    /\ UNCHANGED <<now, firing, store, loop, stamp, blocking, todo, runVars, cuts, history>>

AutonomyEnds ==
    /\ Moves("autonomy", "asleep")
    /\ stage[Daemon] = "idle"
    /\ queue = {}
    /\ UNCHANGED <<now, firing, store, stamp, blocking, todo, queue, runVars, cuts, history>>

-----------------------------------------------------------------------------
(* operator approve, and what both ways of approving share.                *)

\* approve() loads the receipt again once the person has typed its id.
Approve(p, id) ==
    /\ stage[p] = "idle"
    /\ id \in InStatus({"proposed"})
    /\ Starts(p, id)
    /\ UNCHANGED <<now, firing, store, loopVars, cuts, history>>

\* MUTANT of ModeOf: a mode the receipts do not know.
ModeOfAnyone(r) == "person"

ModeOf(r) == IF r = Daemon THEN "autonomous" ELSE "human"

Writes(r, status) == store' = [store EXCEPT ![job[r]] =
    [status |-> status, mode |-> ModeOf(r), executedAt |-> since[r]]]

RunStops(r) ==
    /\ stage' = [stage EXCEPT ![r] = "idle"]
    /\ job' = [job EXCEPT ![r] = NoId]
    /\ since' = [since EXCEPT ![r] = 0]

\* An exception ends the process it is raised in: a person's command, or the
\* whole loop.
Raises(r) ==
    IF r = Daemon THEN LoopEnds ELSE UNCHANGED loopVars

\* The playbook failed: the receipt says so, and the error is raised again.
ExecutionFails(r) ==
    /\ stage[r] = "executing"
    /\ Writes(r, "failed")
    /\ RunStops(r)
    /\ Raises(r)
    /\ UNCHANGED <<now, firing, cuts, history>>

\* MUTANT of ExecutionEnds: the playbook's exit is taken for the outcome.
ExecutionEndsVerified(r) ==
    /\ stage[r] = "executing"
    /\ Writes(r, "verified")
    /\ RunStops(r)
    /\ UNCHANGED <<now, firing, loopVars, cuts, history>>

\* The playbook ended: the receipt says executed before anything is verified.
ExecutionEnds(r) ==
    /\ stage[r] = "executing"
    /\ Writes(r, "executed")
    /\ stage' = [stage EXCEPT ![r] = "verifying"]
    /\ resolved' = IF job[r][1] \in firing THEN resolved ELSE resolved \cup {job[r]}
    /\ UNCHANGED <<now, firing, loopVars, job, since, cuts, begun, trusted>>

\* A poll finds the trigger cleared.
VerifierPasses(r) ==
    /\ stage[r] = "verifying"
    /\ job[r][1] \notin firing
    /\ Writes(r, "verified")
    /\ trusted' = IF r = Daemon THEN trusted ELSE trusted \cup {job[r]}
    /\ RunStops(r)
    /\ UNCHANGED <<now, firing, loopVars, cuts, begun, resolved>>

\* The last poll before the timeout still finds it.
VerifyTimesOut(r) ==
    /\ stage[r] = "verifying"
    /\ job[r][1] \in firing
    /\ Writes(r, "failed")
    /\ RunStops(r)
    /\ UNCHANGED <<now, firing, loopVars, cuts, history>>

\* A poll raises: the gateway or the audit did not answer.
VerifierRaises(r) ==
    /\ stage[r] = "verifying"
    /\ RunStops(r)
    /\ Raises(r)
    /\ UNCHANGED <<now, firing, store, cuts, history>>

\* The process is killed while its playbook runs or is being verified.
RunKilled(r) ==
    /\ cuts < MaxCuts
    /\ cuts' = cuts + 1
    /\ stage[r] # "idle"
    /\ RunStops(r)
    /\ Raises(r)
    /\ UNCHANGED <<now, firing, store, history>>

\* The daemon is killed between two steps of a pass.
LoopKilled ==
    /\ cuts < MaxCuts
    /\ cuts' = cuts + 1
    /\ stage[Daemon] = "idle"
    /\ loop # "down"
    /\ LoopEnds
    /\ UNCHANGED <<now, firing, store, runVars, history>>

-----------------------------------------------------------------------------
World == Tick \/ \E f \in Fingerprint : Fires(f) \/ Clears(f)

Propose ==
    \/ BeginAlerts
    \/ Fetched
    \/ BeginDrift
    \/ Audited
    \/ \E f \in todo : SaveProposal(f) \/ SkipUndeclared(f)
    \/ ProposalExists
    \/ PassesEnd
    \/ Restarted

Autonomy ==
    \/ BeginAutonomy
    \/ \E id \in queue : ExecuteAutonomously(id) \/ Withhold(id)
    \/ AutonomyEnds

Runs(r) ==
    \/ ExecutionFails(r)
    \/ ExecutionEnds(r)
    \/ VerifierPasses(r)
    \/ VerifyTimesOut(r)

Breaks(r) == VerifierRaises(r) \/ RunKilled(r)

Next ==
    \/ World
    \/ Propose
    \/ Autonomy
    \/ EvidenceUnavailable
    \/ LoopKilled
    \/ \E p \in Person, id \in Id : Approve(p, id)
    \/ \E r \in Runner : Runs(r) \/ Breaks(r)

Spec == Init /\ [][Next]_vars

\* The loop sleeps a fixed interval and is restarted when it ends; a playbook
\* and the polls after it end within their timeouts; the drift pass is due
\* again and again, and the gateway and the audit answer again and again, if
\* not every time.  Nothing makes a person approve.
Fairness ==
    /\ WF_vars(Propose)
    /\ WF_vars(Autonomy)
    /\ SF_vars(Fetched)
    /\ SF_vars(BeginDrift)
    /\ SF_vars(Audited)
    /\ \A r \in Runner : WF_vars(Runs(r))

FairSpec == Spec /\ Fairness
-----------------------------------------------------------------------------
(* What the receipts are worth.                                            *)

\* At most one receipt of a trigger is open, being verified or failed: the
\* blocked fingerprints keep the loop from proposing what is already pending,
\* however old its reading of them is (run_once, drift_pass).  Where a policy
\* is declared, a person and the loop may both run a proposal, and the later
\* of the two may fail it after a newer one was opened.
OneLivePerTrigger ==
    \A i, j \in InStatus(BlockingStatus) :
        i[1] = j[1] /\ i[1] \notin Licensed => i = j

\* A verified receipt tells of a trigger that really cleared after the
\* playbook of that very proposal had ended (_execute_and_verify).
VerifiedIsProven == InStatus({"verified"}) \subseteq resolved

\* The loop runs a kind on its own only once people's runs of that kind have
\* verified as often as the grant requires: its own runs never earn the trust
\* they rest on (autonomy_decision).
TrustStartsWithPeople ==
    \A b \in begun :
        Cardinality({id \in trusted : KindOfId(id) = KindOfId(b.id)})
            >= Required[KindOfId(b.id)]

\* "at most maxAutonomousPerHour autonomous executions": in no hour does the
\* loop start more, whichever passes they fall in (autonomy_decision).  It
\* counts receipts, and one killed before its first receipt is not counted.
RateLimitHolds ==
    cuts = 0 => \A t \in Time :
        Cardinality({b \in begun : t - Hour < b.at /\ b.at <= t}) <= MaxPerHour

\* A trigger that fires is answered: it clears, or a receipt of it is waiting
\* for a person, through outages of the gateway and restarts of the loop
\* (run_once, drift_pass).  An alert whose service is not declared on its
\* server is skipped by every pass and may fire for ever; that it does must
\* not keep the triggers beside it from being answered.
TriggersAreAnswered ==
    \A f \in Declared :
        f \in firing ~>
            f \notin firing \/ \E id \in InStatus(BlockingStatus) : id[1] = f

-----------------------------------------------------------------------------
(* What the project's own words say and the loop breaks.                   *)

\* "Execute open proposals the declared policy licenses, receipted."
OnlyOpenProposalsExecute == [][
    \A id \in queue : ExecuteAutonomously(id) => id \in InStatus({"proposed"})]_vars
=============================================================================
