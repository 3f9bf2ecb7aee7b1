------------------------------ MODULE Migration ------------------------------
(***************************************************************************)
(* The resumable plan of src/sdk/src/cloudfall/migrate.py for one          *)
(* component, one database and the domains that are cut over.              *)
(*                                                                         *)
(* `cloudfall migrate --yes` loads the persisted plan, runs its pending    *)
(* steps in order and writes the whole plan after each one.  The world     *)
(* around it is the person who lowers TTLs, points DNS at the new server   *)
(* and starts the command again when it stopped.                           *)
(***************************************************************************)
EXTENDS Integers, FiniteSets, Sequences

CONSTANTS
    Release,   \* the releases a build may make or an option may pin
    Proc,      \* processes running `cloudfall migrate --yes`
    None,      \* nothing recorded
    MaxCuts    \* bound: how often a process is cut off, a plan is discarded
               \* or DNS is pointed back

ASSUME ReleaseAssumption == None \notin Release
ASSUME CutsAssumption == MaxCuts \in Nat

VARIABLES
    file,      \* the persisted plan, None when there is none
    torn,      \* whether a killed writer left it truncated
    stage,     \* where each process stands
    plan,      \* the plan each process holds in memory
    release,   \* the release its deploy step will use
    fleet,     \* the release the servers run
    target,    \* what the declared database holds
    dns,       \* the origin public DNS points at
    ttlLow,    \* whether the authoritative TTL is low enough to cut over
    cuts,      \* how often something was cut off, discarded or pointed back
    happened,  \* history: steps that succeeded since a plan was made afresh
    repeats    \* history: how often one of them succeeded again

world == <<fleet, target, dns, ttlLow>>
vars == <<file, torn, stage, plan, release, world, cuts, happened, repeats>>

-----------------------------------------------------------------------------
(* The plan.                                                               *)

Step == {"baseline", "ttl-lower", "data", "build", "deploy", "parallel-run",
         "dns-verify", "domains-tls", "rollback-window"}

\* A pinned release leaves the build step out.  Steps that run a playbook or
\* a check and leave nothing a later step reads are stood for by two of them.
Steps(pinned) ==
    <<"baseline", "ttl-lower", "data">>
        \o (IF pinned THEN <<>> ELSE <<"build">>)
        \o <<"deploy", "parallel-run", "dns-verify", "domains-tls", "rollback-window">>

MaybeRelease == Release \cup {None}
Origin == {"old", "new"}

\* The details later steps and readers go by: the DNS answers before the
\* cutover, the release that was built, the one that was deployed.
Plan == [
    pinned: BOOLEAN,
    completed: SUBSET Step,
    answers: Origin \cup {None},
    built: MaybeRelease,
    deployed: MaybeRelease,
    recipe: Origin \cup {None}
]

ComputedPlan(pinned) == [
    pinned |-> pinned, completed |-> {}, answers |-> None, built |-> None,
    deployed |-> None, recipe |-> None]

Finished(aPlan) ==
    \A i \in DOMAIN Steps(aPlan.pinned) : Steps(aPlan.pinned)[i] \in aPlan.completed

\* The first step that is not completed.
IsNext(aPlan, step) ==
    \E i \in DOMAIN Steps(aPlan.pinned) :
        /\ step = Steps(aPlan.pinned)[i]
        /\ step \notin aPlan.completed
        /\ \A j \in 1..(i - 1) : Steps(aPlan.pinned)[j] \in aPlan.completed

\* MUTANT of RecoverRelease: the options alone are asked.
RecoverOption(aPlan, option) == option

\* A completed build step overrides the options.
RecoverRelease(aPlan, option) ==
    IF "build" \in aPlan.completed THEN aPlan.built ELSE option

TypeOK ==
    /\ file \in Plan \cup {None}
    /\ torn \in BOOLEAN
    /\ stage \in [Proc -> {"idle", "running", "saving"}]
    /\ plan \in [Proc -> Plan \cup {None}]
    /\ release \in [Proc -> MaybeRelease]
    /\ fleet \in MaybeRelease
    /\ target \in {"empty", "filled"}
    /\ dns \in Origin
    /\ ttlLow \in BOOLEAN
    /\ cuts \in 0..MaxCuts
    /\ happened \in SUBSET Step
    /\ repeats \in Nat

Init ==
    /\ file = None
    /\ torn = FALSE
    /\ stage = [p \in Proc |-> "idle"]
    /\ plan = [p \in Proc |-> None]
    /\ release = [p \in Proc |-> None]
    /\ fleet = None
    /\ target = "empty"
    /\ dns = "old"
    /\ ttlLow \in BOOLEAN
    /\ cuts = 0
    /\ happened = {}
    /\ repeats = 0

CutShort == cuts < MaxCuts /\ cuts' = cuts + 1

-----------------------------------------------------------------------------
(* execute_migration.                                                      *)

Runs(p, aPlan, option) ==
    /\ stage[p] = "idle"
    /\ stage' = [stage EXCEPT ![p] = "running"]
    /\ plan' = [plan EXCEPT ![p] = aPlan]
    /\ release' = [release EXCEPT ![p] = RecoverRelease(aPlan, option)]

\* No plan yet: the computed one is taken.  `option` is a pinned release, or
\* None when the component is built.
StartAfresh(p, option) ==
    /\ file = None
    /\ Runs(p, ComputedPlan(option # None), option)
    /\ happened' = {}
    /\ UNCHANGED <<file, torn, world, cuts, repeats>>

\* --restart: the file is not looked at, whether it loads or not.
Discard(p, option) ==
    /\ file # None
    /\ IF torn THEN UNCHANGED cuts ELSE CutShort
    /\ Runs(p, ComputedPlan(option # None), option)
    /\ happened' = {}
    /\ UNCHANGED <<file, torn, world, repeats>>

\* The persisted plan has the computed steps; nothing else is compared.
Resume(p, option) ==
    /\ file # None
    /\ ~torn
    /\ file.pinned = (option # None)
    /\ ~Finished(file)
    /\ Runs(p, file, option)
    /\ UNCHANGED <<file, torn, world, cuts, happened, repeats>>

Stops(p) ==
    /\ stage' = [stage EXCEPT ![p] = "idle"]
    /\ plan' = [plan EXCEPT ![p] = None]
    /\ release' = [release EXCEPT ![p] = None]

\* The step's runner returned: it is completed in memory, and not yet saved.
Completes(p, step, aPlan) ==
    /\ stage[p] = "running"
    /\ IsNext(plan[p], step)
    /\ plan' = [plan EXCEPT ![p] = [aPlan EXCEPT !.completed = @ \cup {step}]]
    /\ stage' = [stage EXCEPT ![p] = "saving"]
    /\ happened' = happened \cup {step}
    /\ repeats' = IF step \in happened THEN repeats + 1 ELSE repeats
    /\ UNCHANGED <<file, torn, cuts>>

\* Playbooks that converge the servers.
Converge(p) ==
    /\ Completes(p, "baseline", plan[p])
    /\ UNCHANGED <<release, world>>

\* TTLs that are still high pause the plan.
LowerTtl(p) ==
    /\ ttlLow
    /\ Completes(p, "ttl-lower", [plan[p] EXCEPT !.answers = dns])
    /\ UNCHANGED <<release, world>>

\* A database that is not empty is refused.
CopyData(p) ==
    /\ target = "empty"
    /\ Completes(p, "data", plan[p])
    /\ target' = "filled"
    /\ UNCHANGED <<release, fleet, dns, ttlLow>>

Build(p, r) ==
    /\ Completes(p, "build", [plan[p] EXCEPT !.built = r])
    /\ release' = [release EXCEPT ![p] = r]
    /\ UNCHANGED world

Deploy(p) ==
    /\ release[p] # None
    /\ Completes(p, "deploy", [plan[p] EXCEPT !.deployed = release[p]])
    /\ fleet' = release[p]
    /\ UNCHANGED <<release, target, dns, ttlLow>>

ParallelRun(p) ==
    /\ fleet # None
    /\ Completes(p, "parallel-run", plan[p])
    /\ UNCHANGED <<release, world>>

\* DNS that does not point at the proxy servers yet pauses the plan.
VerifyDns(p) ==
    /\ dns = "new"
    /\ Completes(p, "dns-verify", plan[p])
    /\ UNCHANGED <<release, world>>

\* The authority only issues for names that resolve to this server.
IssueCertificates(p) ==
    /\ dns = "new"
    /\ Completes(p, "domains-tls", plan[p])
    /\ UNCHANGED <<release, world>>

\* MUTANT of RollbackWindow: the detail of another step is recorded.
RollbackWindowOfBuild(p) ==
    /\ Completes(p, "rollback-window", [plan[p] EXCEPT !.recipe = release[p]])
    /\ UNCHANGED <<release, world>>

\* The answers of the ttl-lower step become the recipe for the way back.
RollbackWindow(p) ==
    /\ Completes(p, "rollback-window", [plan[p] EXCEPT !.recipe = plan[p].answers])
    /\ UNCHANGED <<release, world>>

\* MUTANTS of SavePlan: the steps a file already holds as completed are kept,
\* a discarded plan's too; the plan is written before its last step is marked.
SaveKeepsCompleted(p) ==
    /\ file' = [plan[p] EXCEPT !.completed =
            @ \cup IF file = None \/ torn THEN {} ELSE file.completed]
    /\ torn' = FALSE
SaveUnmarked(p) ==
    /\ file' = [plan[p] EXCEPT !.completed =
            {step \in @ : \E i, j \in DOMAIN Steps(plan[p].pinned) :
                /\ i < j
                /\ Steps(plan[p].pinned)[i] = step
                /\ Steps(plan[p].pinned)[j] \in @}]
    /\ torn' = FALSE

SavePlan(p) == file' = plan[p] /\ torn' = FALSE

\* The plan is written, and the next step or the end is reached.
Save(p) ==
    /\ stage[p] = "saving"
    /\ SavePlan(p)
    /\ IF Finished(plan[p]) THEN Stops(p)
       ELSE /\ stage' = [stage EXCEPT ![p] = "running"]
            /\ UNCHANGED <<plan, release>>
    /\ UNCHANGED <<world, cuts, happened, repeats>>

\* What a step that does not return may leave behind: a restored database
\* whose row counts were not compared, a release that is not healthy.
LeavesBehind(p) ==
    /\ target' \in {target} \cup IF IsNext(plan[p], "data") THEN {"filled"} ELSE {}
    /\ fleet' \in {fleet} \cup IF IsNext(plan[p], "deploy") THEN {release[p]} ELSE {}
    /\ UNCHANGED <<dns, ttlLow>>

\* A step pauses the plan or fails: the plan is written and the command ends.
StepFails(p) ==
    /\ stage[p] = "running"
    /\ LeavesBehind(p)
    /\ SavePlan(p)
    /\ Stops(p)
    /\ UNCHANGED <<cuts, happened, repeats>>

\* The process is killed, or an error it does not expect ends it, in a step
\* or between a step and its save.
Killed(p) ==
    /\ CutShort
    /\ \/ stage[p] = "running" /\ LeavesBehind(p)
       \/ stage[p] = "saving" /\ UNCHANGED world
    /\ Stops(p)
    /\ UNCHANGED <<file, torn, happened, repeats>>

\* Killed while it writes: the file is there and does not load.
SaveTorn(p) ==
    /\ CutShort
    /\ stage[p] = "saving"
    /\ file' = plan[p]
    /\ torn' = TRUE
    /\ Stops(p)
    /\ UNCHANGED <<world, happened, repeats>>

-----------------------------------------------------------------------------
(* The person at the other end.                                            *)

LowersTtl ==
    /\ ~ttlLow
    /\ ttlLow' = TRUE
    /\ UNCHANGED <<file, torn, stage, plan, release, fleet, target, dns, cuts,
                   happened, repeats>>

WaitsFor(step) == file # None /\ ~torn /\ IsNext(file, step)

\* "Point your domains at the new server when the plan pauses".
PointsDns ==
    /\ dns = "old"
    /\ WaitsFor("dns-verify") \/ WaitsFor("domains-tls")
    /\ dns' = "new"
    /\ UNCHANGED <<file, torn, stage, plan, release, fleet, target, ttlLow, cuts,
                   happened, repeats>>

\* The cutover is rolled back.
PointsBack ==
    /\ CutShort
    /\ dns = "new"
    /\ dns' = "old"
    /\ UNCHANGED <<file, torn, stage, plan, release, fleet, target, ttlLow,
                   happened, repeats>>

\* A database the data step refuses is emptied for it by hand.
EmptiesTarget ==
    /\ target = "filled"
    /\ WaitsFor("data")
    /\ \A p \in Proc : stage[p] = "idle"
    /\ target' = "empty"
    /\ UNCHANGED <<file, torn, stage, plan, release, fleet, dns, ttlLow, cuts,
                   happened, repeats>>

-----------------------------------------------------------------------------
\* What the command was given for the component: a pinned release, or None
\* when it is built.
Option == MaybeRelease

Succeeds(p) ==
    \/ Converge(p)
    \/ LowerTtl(p)
    \/ CopyData(p)
    \/ \E r \in Release : Build(p, r)
    \/ Deploy(p)
    \/ ParallelRun(p)
    \/ VerifyDns(p)
    \/ IssueCertificates(p)
    \/ RollbackWindow(p)

Starts(p) == \E option \in Option : StartAfresh(p, option) \/ Resume(p, option)
Discards(p) == \E option \in Option : Discard(p, option)

Next ==
    \/ \E p \in Proc :
        \/ Starts(p)
        \/ Discards(p)
        \/ Succeeds(p)
        \/ Save(p)
        \/ StepFails(p)
        \/ Killed(p)
        \/ SaveTorn(p)
    \/ LowersTtl
    \/ PointsDns
    \/ PointsBack
    \/ EmptiesTarget

Spec == Init /\ [][Next]_vars

\* A command that is running ends; a step that is tried again and again
\* succeeds in the end.  The person starts the command again while the plan is
\* not finished, discards one that does not load, and does what a paused step
\* asks for.
Fairness ==
    /\ \A p \in Proc :
        /\ SF_vars(Succeeds(p))
        /\ WF_vars(Save(p))
        /\ WF_vars(StepFails(p))
        /\ WF_vars(Starts(p))
        /\ WF_vars(torn /\ Discards(p))
    /\ WF_vars(LowersTtl)
    /\ WF_vars(PointsDns)
    /\ SF_vars(EmptiesTarget)

FairSpec == Spec /\ Fairness

-----------------------------------------------------------------------------
(* What holds while one process at a time migrates.                        *)

\* A plan that says the component is deployed names the release the servers
\* run, the one its own build step made: through failures, kills, discarded
\* plans and other options on the resuming command.
FleetIsAsPlanned ==
    file # None /\ ~torn /\ "deploy" \in file.completed =>
        /\ fleet = file.deployed
        /\ ~file.pinned => file.deployed = file.built

\* "a failure or the DNS pause resumes exactly where it stopped": a failed or
\* paused step repeats nothing, and a killed command one step at most.
ResumesWhereItStopped == repeats <= cuts

\* A migration somebody keeps resuming comes to its end.
MigrationCompletes == <>(file # None /\ ~torn /\ Finished(file))
=============================================================================

