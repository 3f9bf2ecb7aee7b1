# Cloudfall in TLA+

Cloudfall manages a small fleet of servers from declared state. A project is a
directory of YAML documents; commands validate it, render an Ansible inventory
from it and compare it with what an inspection of the hosts found. An agent or a
person *proposes* an operation, Cloudfall checks it in Ansible's check mode and
records the result, a person *approves* it, and the run is verified and recorded.
Around that gate sit a loop that watches alerts and drift and proposes remedies
(and may execute some by itself), a model that investigates an alert through the
same gate, plays that move a component from one release to the next behind a
health check, a resumable plan that migrates a whole project to new servers, a
dashboard, and a public demo that plays recorded investigations back.

This directory holds TLA+ models of these parts, the TLC runs that check them on
small instances, and proofs, for every instance, of all the safety properties
those runs check. `PROJECT.json` lists the runs, the source lines each definition
stands for, the hazards of the code and the properties that cover them.

    tlc -workers 2 -config Release.cfg MCRelease     # one run
    tlapm ReleaseProof.tla                           # the proofs about one module

The paths below are relative to the repository; `decision.py` and the other bare
names are in `src/sdk/src/cloudfall/`.

## Inventory

| Component | State it keeps | Operations | Hard behaviours | Modelled in |
|---|---|---|---|---|
| Decision record and gate (`decision.py`, commands in `app.py`) | one JSON record per decision, a diff beside it | propose, supersede, approve, record the outcome | nothing locks the directory; a record is read, a person is waited for, and the copy is run; kills, timeouts, torn writes; ids no finer than a second | `Decisions`, `DecisionLedger` |
| Operator loop and graduated autonomy (`operator.py`) | one receipt per proposal | alerts pass, drift pass, autonomy pass, `operator approve` | the loop and people race for a proposal; triggers fire and clear meanwhile; restarts; a rate limit over a sliding hour; trust earned from earlier runs | `OperatorLoop` |
| Release activation (`lifecycle.py`, role `cloudfall_deploy`) | per server: release directories, the `current` link, the service; on the controller: a receipt | deploy, rollback, restart | a play fails or is killed between switch and gate; the rescue; serial rollout over servers; services that restart by themselves | `Release` |
| Migration plan (`migrate.py`) | the plan file | run, pause, resume, `--restart` | killed between a step and its save; torn plan; other options on resume; a person changes DNS and databases meanwhile | `Migration` |
| Desired state (`domain.py`, `validation.py`) | none; the YAML files of the project | load, check references and consistency | a project read file by file while others write it | `Fleet`, `Project` |
| Rendering (`inventory.py`, `ansible_reader.py`, the engine's `ansible_inventory.py`) | none | project to inventory; read a team's own Ansible inventory | looks up what validation promised is there | `Rendering`, `Project` |
| Authoring and import (`authoring.py`, `importer.py`) | project files | `add`, `import` | several files per command; killed, a full disk, two at once; what an import leaves out | `RenderImport`, `Project` |
| Observation and audit (`observe.py`, `service_evidence.py`, `audit.py`) | a snapshot per server, a file per domain | `observe`, `services observe`, `audit` | a playbook that ends half way; old files beside new ones; two writers of one file | `Audit`, `Evidence` |
| Dashboard (`operations.py`, `dashboard_server.py`) | a cached view | requests, rebuild | concurrent requests over one lock, a build that raises, evidence of different ages | `Operations`, `Evidence` |
| Model investigation loop (`investigation.py`, `agent_tools.py`) | records of decisions, one investigation record created exclusively | turns, tool calls, repeat cache, finding | a stopped run leaves open decisions; runs of one second; readers who leave | `Investigation` |
| Recording and replay (`recording.py`) | recordings, read only | look up a recorded run | a replay must never count as live; several records of one call | `Investigation`; the replay value in `Decisions` |
| Public demo (`src/demo`) | daily budget, per-address counts, slots | admit, stream, finish, forget | admitted now, spent later; visitors who leave; a slot never given back | `Demo` |
| Cutover checks (`cutover.py`) | none | TTL measurement, compressed-name reader | pointer loops, truncated answers | verdicts in `Migration` |
| MCP server, operation catalog, history, secrets, CLI shell, engine wrappers, other host roles | none of their own | translation and input/output | none that involve two steps | enter the models as constants, processes and events |

How they interact. `app.py` drives everything; each command is a process of its
own. The CLI, the MCP server and the investigation loop all end in `propose` of
`decision.py`. The operator loop does not use decisions: it keeps receipts of
its own and runs catalog operations as playbooks. `migrate.py` calls the deploy
of `lifecycle.py` as one of its steps. `add`, `import` and every reader meet in
the project's files; `observe`, `audit` and the dashboard in the evidence files;
investigations in the records of decisions and investigations. All share state
through files on the controller and through the servers, and no file is locked;
only the dashboard has threads. The demo starts each run as a process with
directories of its own and kills it when its visitor leaves.

What makes each component correct:

* the record: nothing runs that was not checked on the hosts; a record never
  claims more than its run earned; a decision opens once;
* the loop: one live receipt per trigger; `verified` is proven; the loop never
  earns the trust it rests on; the rate limit holds over any hour; a trigger it
  can propose for is answered;
* the rollout: a bad release stays on one server; a failure restores what was
  found; a reported success is a success everywhere;
* the plan: it tells what the servers run; a stop repeats at most what it hit;
  somebody who keeps resuming gets to the end;
* the project: a command that adds to a project that loads leaves one that
  loads; what validation accepts can be rendered, and the hosts of the result
  agree with one another; an import says what it left out;
* the evidence: `ok`, `compliant` and `healthy` are true of the servers, as of
  the evidence's age; a file is whole; every request is answered;
* the investigation: every ending is on record once, with all it wrote; what a
  finding proposes, a person can act on;
* the demo: nobody is admitted past the day's budget; who waits gets a slot.

## Modules

| Module | What it is |
|---|---|
| `Decisions` | proposers and approvers as concurrent processes over the store of records |
| `DecisionLedger` | the abstract promise: a decision opens once against a live check, and only what was opened reaches the fleet |
| `OperatorLoop` | the daemon, people approving, receipts, and the world whose triggers fire and clear |
| `Release` | controllers running the three plays on the servers of a component |
| `Migration` | processes running `migrate --yes` over the plan file, and the person at the other end |
| `Fleet` | the documents of a project and the rules of its validation |
| `Rendering` | the inventory of a project, and the Ansible inventory rendered from it |
| `RenderImport` | the translation of a Render blueprint into documents and gaps |
| `Project` | processes that add, import and read over the files of one project, and people who edit them (EXTENDS the three above) |
| `Audit` | the comparisons of a server's declaration with what an inspection found |
| `Operations` | tasks, lifecycle checks and health, as the dashboard shows them |
| `Evidence` | `observe`, route inspections, the dashboard's threads, and a world that changes (EXTENDS `Operations`, `Audit`, `Rendering`) |
| `Investigation` | runs of `agent investigate`, live or played back |
| `Demo` | the event loop that admits, starts, streams and kills such runs (EXTENDS `Investigation`) |
| `DecisionsProof`, `OperatorLoopProof`, `ReleaseProof`, `MigrationProof`, `EvidenceProof` | the theorems about the module of that name |
| `RenderingProof` | what validation guarantees to projecting and rendering, and what an import makes of a blueprint: lemmas without a state (EXTENDS `Rendering`, `RenderImport`) |
| `ProjectProof` | the theorems about `Project`, resting on those lemmas |
| `DemoProof` | the theorems about `Investigation` and `Demo` together |
| `MC*` | the small catalogs and policies a configuration cannot write as a constant |

A definition its comment calls a mutant is its neighbour with a plausible bug. No specification
uses it; it is there to show that the property named in `PROJECT.json` would
catch that bug.

### Decisions

Each variable is a file or a process's locals. `store[id]` is the record's JSON
file, `torn` the files a killed writer left unreadable, `diffs[id]` the diff a
check wrote. `proposer`, `draft` and `recorded` are the locals of `propose`:
the records it read *before* its check (decision.py:459) are the ones it marks
superseded *after* it (499-517). `approver` and `copy` are those of
`decisions approve`: the record is loaded and refused if it is not open
(app.py:2121), the person types its id, and `approve` runs the loaded copy.
`ran` is history: what the fleet saw.

| Code | Actions |
|---|---|
| `propose` up to check mode | `BeginProposal` |
| `_run_check` | `StartCheck`, `CheckPrints`, `CheckEnds` / `CheckTimesOut` |
| `_preview` | `DigestDiff` |
| `save` | `SaveAdmitted` / `SaveRefused`, `SaveWrites` |
| the loop over older records | `SupersedeOlder` (one write each), `ProposalReturns` |
| `decisions approve` up to the prompt | `LoadForApproval`, `AttestationFails` |
| `approve` | `Attest`, `ExecutionEnds`, `VerificationEnds`, `StageTimesOut`, `RecordOutcome` |
| kills | `ProposerKilled`, `ApproverKilled`, `ProposerTearsRecord`, `ApproverTearsRecord` |

A check streams into the diff file of its id from the moment it truncates it
(decision.py:936) to its end, and the file is digested after that (821). `diffs[id]`
is the set of pieces the file holds, a first one and the rest of each check's
output: `StartCheck` empties it, whoever is printing there, and as every process
prints at an offset of its own, a piece may land on another check's (`Prints`).
A record's `digest` is the set of pieces digested. Killing a proposer is taken to
end its check.

A call stands for an operation with its targets and canonical inputs. The
basis, wording, logs and listing of changed hosts are left out. `Init` allows
the store an earlier version leaves, in which reads were recorded as open
proposals (decision.py:967).

### OperatorLoop

`store` is the directory of receipts, `loop` the place the daemon has reached in
its round, `blocking`, `todo` and `queue` the locals of its passes, and `stage`,
`job` and `since` the execution each runner (a person's command, or the daemon)
has under way. `firing` is the world. `begun`, `trusted` and `resolved` are
history. Sets of fingerprints are numbers so that the file-name order of
`ProposalStore.list` is their order.

| Code | Actions |
|---|---|
| `run_once` | `BeginAlerts`, `Fetched`, `SkipUndeclared`, `SaveProposal`, `ProposalExists` |
| `drift_pass` | `BeginDrift`, `Audited`, `SaveProposal`, `ProposalExists` |
| `autonomous_pass`, `autonomy_decision` | `BeginAutonomy`, `ExecuteAutonomously`, `Withhold`, `AutonomyEnds` |
| `approve` | `Approve` |
| `_execute_and_verify` | `ExecutionFails`, `ExecutionEnds`, `VerifierPasses`, `VerifyTimesOut`, `VerifierRaises` |
| exceptions, kills, systemd | `EvidenceUnavailable`, `RunKilled`, `LoopKilled`, `Restarted` |

`Declared` are the triggers on which a proposal can be made. Drift is always of
a declared server; an alert may name a service its server does not declare
(operator.py:404), and `SkipUndeclared` passes over it.

### Release

`kept`, `link` and `active` are a server's release directories, its `current`
link and what its service runs. `play`, `target`, `at`, `step` and `previous`
say which play a controller runs and which task it has reached; `found` and
`passed` are history. A play is `serial: 1` with `any_errors_fatal`
(playbooks/deploy.yml), which is `MovesOn` and `Fails`. The block of main.yml
and its rescue are `Switch`, `Restart`, `GatePasses` and `SwitchFails`,
`RestartFails`, `GateFails`, then `RestoreLink` and `RestartRestored`, or
`StopFirst`. The receipt tasks are behind the block: `ReceiptFails` ends a play
without a rescue. `Boots` is the unit's `Restart=on-failure` and
`WantedBy=multi-user.target`. Health checks are HTTP checks.

### Migration

`file` and `torn` are the plan file; `plan` and `release` the locals of a run.
A step that succeeds is `Completes` with what it leaves behind, followed by
`Save`; a `MigrateError` or `LifecycleError` is `StepFails`, which saves too; a
kill or any other error is `Killed` or `SaveTorn`. The step list is that of one
component, one database and at least one domain. Steps that only run a playbook
or a check and leave nothing a later step reads (services, domains-http,
inspect, audit, verify-routes) are stood for by `baseline` and `parallel-run`,
which behave like them.

### Fleet, Rendering, RenderImport

These hold no variables. `Fleet` has one set of documents per kind, with the
fields that refer to other documents or are compared with others, and one
operator per rule of the validation; `Valid` is what `validate_directory`
accepts. Single-field schema checks are abstracted to well-formed
documents. `Rendering` projects a configuration (`PlatformInventory`) and
renders hosts and groups from it (`AnsibleInventory`); where the code looks up a
key and would raise, `ProjectionRaises` and `RenderingRaises` say so.
`FleetDocuments` is the reader of an Ansible inventory a team already has.
`RenderImport!Imported` is the translation of a blueprint: the state after each of its
services (`After`) assigns ports, skips and explains, then databases, domains and
the application. `Imported` yields documents in the order they are written,
environment lines and gaps.

### Project

`files` is what each path holds: a document, an empty file, a torn one or
nothing. `proc[p]` is a process with its command, the documents it still has to
write, those it wrote, and what it has listed and loaded.

| Code | Actions |
|---|---|
| `add_server` and the others, `_commit` | `BeginAdd`, `OpenFile`, `FillFile`, `WriteFails`, `Withdraw` |
| `import` | `BeginImport`, `OpenFile`, `FillFile`, `WriteFails` |
| `validate_config`, of `add` and of readers | `ListFiles`, `LoadFile`, `Check` |
| a team's Ansible inventory | `ReadAnsible` |
| kills, people | `Kill`, `Edit` |

An import writes where `--output-dir` says; the model gives it the project
itself. Its default is `tmp/import/config`, from where a person copies.

### Audit, Operations, Evidence

`Audit` and `Operations` hold no variables: one operator per family of
comparisons (`AuditRaid`, `AuditFirewall` and so on), the aggregation, tasks,
and health. `Evidence` has the files (`observed`, `evidence`, `temporary`), the
processes (`observers`, `inspections`, `threads`, `dashboard`), the world
(`clock`, `project`, `hosts`, `routes`) and what may still happen (`left`).
`overlapped` is history.

| Code | Actions |
|---|---|
| `observe` and its playbook | `BeginObserve`, `Gather`, `WriteSnapshot`, `EndObserve` |
| `services observe`, `inspect_domains` | `BeginProbe`, `Probe`, `OpenTemporary`, `FillTemporary`, `ReplaceFile`, `EndProbe` |
| `SnapshotCache.current` | `Request`, `Enter`, and `BuildView` or an exception on the way out |
| `operations_view` | `ReadProject`, the inspection, `LoadObserved`, `LoadDomains`, `BuildView` |
| kills, people, hosts | `CutObserve`, `CutProbe`, `CutDashboard`, `Change` |

`audit` reads and prints, so it is the operator `AuditInventory` over the files
of each state.

### Investigation and Demo

`agent[r]` is a run: its place in a turn (`pc`), the calls still to make, its
steps, and the decision being checked. `decisions` and `investigations` are the
records of each directory; runs at a terminal share one, a run of the demo has
its own. `touched` is what the demo's retention looks at.

| Code | Actions |
|---|---|
| a turn | `AnswerCalls`, `Answer`, `EndpointFails`, `TellTurn` |
| its calls | `CallBroken`, `CallRefused`, `CallRepeated`, `CallProposed`, `CheckEnds`, `CheckFails`, `SaveDecision`, `TellStep` |
| the end | `Stop`, `SaveInvestigation`, `NoNameLeft`, `SaveUnwritable`, `TellInvestigation` |
| `Limits`, the retention | `Admit`, `RefuseBudget`, `RefuseAddress` |
| the stream of a run | `Launch`, `ReadTurn`, `StreamEnds`, `LeaveWaiting`, `LeaveRunning` |

Two things `Decisions` takes apart are one step here: a record and the
supersessions behind it, and a record and its name. A kill between the
exclusive creation of the investigation record and its content would leave an
empty file; that step is not modelled.

## Runs

| Run | Instance | What it shows |
|---|---|---|
| `DecisionsSerial` | one proposer, one approver, a gated operation with two inputs and a read, live and replayed, two seconds | `RunsAreOnRecord`, `SupersededPointsForward`, `ProposalIsKept`, and that the records implement `DecisionLedger` (`KeepsTheLedger`) |
| `DecisionsCut` | one call, live and replayed, three seconds, one kill, timeout or torn write | `ClaimsAreBacked`; `RunsWereChecked`, also of checks that were cut off; `NoOpenDuplicate`, a killed proposer's leftovers included |
| `DecisionsStaleApproval` | two approvers | a counterexample, see Findings |
| `OperatorPeople` | two triggers of one kind, one of them granted after one verified run, one person, one kill | `OneLivePerTrigger`, `VerifiedIsProven`, `TrustStartsWithPeople` |
| `OperatorAnswers` | the loop alone, fair, with two triggers it can propose for and an alert it has to skip; limit one in an hour of two units, a clock of three, one kill | `TriggersAreAnswered`; `RateLimitHolds` as long as nothing was killed |
| `OperatorStaleQueue` | a person and the loop | a counterexample, see Findings |
| `Release` | three servers, a sound and an unsound release, one play cut off | `OneServerAtRisk`, `UnsoundStaysOnFirst`, `ReceiptIsEarned`, `DeployMeansEverywhere`, `FailureRestores` |
| `Migration` | two releases, one process, three kills, discards or reverted cutovers, fair | `FleetIsAsPlanned`, `ResumesWhereItStopped`, `MigrationCompletes` |
| `Project` | four young projects, a full one and those a file away from it; one author and one reader, two commands, one edit, one kill, a full disk | `LookupsSucceed`, `HostsAgree`, `ImportsAreExplained`, `CommandsKeepProject` |
| `ProjectRace` | two authors adding servers of one new type | a counterexample, see Findings |
| `Evidence` | two servers, one domain, one observer, one prober, two request threads; five families of starts | `CompliantIsSound`, `ShownHealthIsTrue`, `ServedIsRecent`, `OkMeansObserved`, `EvidenceIsWhole`, `RequestsAreAnswered`; `JudgementAssumption` is evaluated |
| `Investigations` | two runs, at terminals over one project or in the demo over one slot | `EveryEndingIsOnRecord`, `FindingsAreBacked`, `AdmissionsAreWithinBudget`, `AdmittedRunsEnd` |

`TypeOK` is checked once per module; the types of `Investigation` and `Demo` are
part of the invariants of `DemoProof`. `Decisions`, `OperatorLoop`, `Release` and `Migration` are not checked for
deadlock: they may stop, because a clock has a last value, or because nobody has
anything left to ask for. `Project`, `Evidence` and `Demo` say in a stuttering
action (`Done`, `Rests`) what it means to have nothing left to do, and are
checked for deadlock everywhere else: a lock that is never released, or a
command that hangs, would show.

### Why the bounds are enough

* Ids carry a second, so two seconds give a collision, a successor and a
  superseded record; the third in `DecisionsCut` gives a proposal that must
  close both of the two a killed proposer left open.
* Two approvers are what a double run takes. No run has two proposers: what
  holds of their race (`ClaimsAreBacked`) is proved for any number of them.
* One kill is enough to leave each intermediate state behind once, and every
  process restarts any number of times after it.
* Two triggers of one kind let one run be the history the other one is judged
  by. An hour of two units and a clock of three hold two overlapping hours. The
  third trigger of `OperatorAnswers` is an alert that is skipped by every pass.
* Three servers have a first, a middle and a last one; releases are told apart
  only by whether they answer.
* Three cuts let a migration be killed, discarded and have its cutover reverted
  in one behaviour, and the plan file be torn after any of them.
* The projects of `Project` have two servers, a type, an application with a
  component, its database, a stack with a rule, a key and policies: at least one
  document of each kind that a rule compares with another, and one file at a
  time missing, changed or doubled. One process writes while another reads or a
  person edits; two writers are `ProjectRace`. The blueprints hold services of a
  type or a state the importer leaves out, names and ports that collide,
  groups nobody declares and databases of one name.
* `Evidence` is a union of small instances, because its budgets multiply.
  Each start has its own budget of ticks, commands, requests, changes and kills:
  one per way a server can differ from its declaration (33 of them, three
  also against a later project), then observing while things change, serving old and
  new evidence, inspecting routes from two processes, and killing them. A
  snapshot is stale after 1 unit, critical after 2, a view after 2 and a
  certificate needs 3, so that each threshold is passed within three ticks. What
  is there at first has been so for 3 units (`age`): a page that shows a defect as
  healthy is wrong as soon as it is served, and not only after as many ticks.
* Two investigations suffice for what runs do to one another: share a second, a
  name, a call or a slot. One has two turns, so that it can repeat itself and
  end on an answer; the other's first turn is its last. The names of a second
  are two (the code tries `SAVE_ATTEMPTS`, 100), one of them taken before, so
  that two runs of that second are one too many. The demo's hour is one tick and
  its day two, so that a run straddles midnight; its budget is one turn and
  there is one slot. Which calls the model may write, turn by turn, is the bound
  `Asks`; an answer names every decision on record or none.

### Fairness

Safety properties assume none. `OperatorAnswers` assumes that the loop goes on to its
next step (it sleeps a fixed interval, and systemd restarts it when it ends,
`Restart=on-failure` in docs/operator-guide.md), that a playbook and its polls
end (they have timeouts), that the drift pass is due again and again (watch
counts rounds), and that the gateway and the audit answer again and again though
not each time. Nobody is assumed to approve anything. A trigger is not allowed
to fire again within the second its last proposal is named after (`MayRefire`):
otherwise the bounded clock, which stops, would hold it there for ever.

`Migration` assumes that a command under way saves or ends, that a step tried
again and again succeeds in the end, and that a person starts the command again
while the plan is unfinished, discards a plan that does not load, lowers TTLs,
points DNS and empties a refused database when a paused or failed step asks for
it. Nothing is assumed about which options the resuming command gets.

`Evidence` assumes that a request handler that can go on does: probes and reads
have timeouts. Nothing is assumed of people, hosts or observers.

`Demo` assumes that a run goes on with what it is at (the endpoint and the plays
have timeouts), that the event loop passes on what a run tells and ends its
stream, and that it starts the first run waiting when a slot is free. Visitors
owe nothing, with one exception that the code shares: the loop waits for the
socket of a visitor who neither reads nor leaves, and that visitor's slot with
it, so the fairness of `Serves` assumes that a visitor does one of the two.

## Proofs

Every theorem holds for all values of the constants that satisfy the named
assumptions: any number of servers, processes, runs, files and kills, any clock.
Where a theorem has a hypothesis, it is about who works at the same time, and
the model shows what goes wrong without it; or, for two theorems about evidence,
about what a single look at a single server or route may be trusted with.

| Theorem | Property | Hypothesis |
|---|---|---|
| `DecisionsProof!TypeCorrect` | `TypeOK` | |
| `DecisionsProof!RunsAreAlwaysChecked` | `RunsWereChecked` | one proposer |
| `DecisionsProof!ClaimsAreAlwaysBacked` | `ClaimsAreBacked` | |
| `DecisionsProof!RunsStayOnRecord` | `RunsAreOnRecord` | one proposer |
| `DecisionsProof!SupersededAlwaysPointsForward` | `SupersededPointsForward` | one proposer |
| `DecisionsProof!ProposalsAreKept` | `ProposalIsKept` | one proposer |
| `DecisionsProof!LedgerIsKept` | `KeepsTheLedger`, the refinement of `DecisionLedger` | one proposer |
| `DecisionsProof!NothingIsOpenTwice` | `NoOpenDuplicate` | one proposer |
| `OperatorLoopProof!TypeCorrect` | `TypeOK` | |
| `OperatorLoopProof!VerifiedMeansProven` | `VerifiedIsProven` | |
| `OperatorLoopProof!TrustIsEarnedByPeople` | `TrustStartsWithPeople` | |
| `OperatorLoopProof!OneLiveReceipt` | `OneLivePerTrigger` | one person approves at a time |
| `OperatorLoopProof!HourlyLimitHolds` | `RateLimitHolds` | nobody approves by hand |
| `ReleaseProof!TypeCorrect` | `TypeOK` | |
| `ReleaseProof!OneServerAtATime` | `OneServerAtRisk` | one controller |
| `ReleaseProof!UnsoundNeverSpreads` | `UnsoundStaysOnFirst` | one controller |
| `ReleaseProof!ReceiptsAreEarned` | `ReceiptIsEarned` | one controller |
| `ReleaseProof!DeployedEverywhere` | `DeployMeansEverywhere` | one controller |
| `ReleaseProof!FailedDeployRestores` | `FailureRestores` | one controller |
| `MigrationProof!TypeCorrect` | `TypeOK` | |
| `MigrationProof!PlansTellTheFleet` | `FleetIsAsPlanned` | one process |
| `MigrationProof!NothingIsRepeated` | `ResumesWhereItStopped` | one process |
| `ProjectProof!TypeCorrect` | `TypeOK` | |
| `ProjectProof!AcceptedRenders` | `LookupsSucceed` | |
| `ProjectProof!AcceptedAgrees` | `HostsAgree` | |
| `ProjectProof!ImportsExplained` | `ImportsAreExplained` | |
| `ProjectProof!CommandsKeep` | `CommandsKeepProject` | one author |
| `EvidenceProof!TypeCorrect` | `TypeOK` | |
| `EvidenceProof!PagesAreRecent` | `ServedIsRecent` | |
| `EvidenceProof!OkIsObserved` | `OkMeansObserved` | one observer |
| `EvidenceProof!FilesAreWhole` | `EvidenceIsWhole` | |
| `EvidenceProof!CompliantFleetIsSound` | `CompliantIsSound` | `AuditIsSound` |
| `EvidenceProof!ShownHealthIsEarned` | `ShownHealthIsTrue` | `HealthIsSound`, `RouteIsSound` |
| `EvidenceProof!PagesMissOnlyEnvironments` | what a page may show as healthy though `audit` would not, of any server | |
| `DemoProof!EndingsAreKept` | `EveryEndingIsOnRecord` | |
| `DemoProof!FindingsAreAlwaysBacked` | `FindingsAreBacked` | |
| `DemoProof!AdmissionsKeepTheBudget` | `AdmissionsAreWithinBudget` | |

Assumptions. Each module names those on its constants with ASSUME, and TLC
evaluates them in every run. They give constants their types and say that
markers (`Absent`, `NoOne`, `None`, `Live`, `Daemon`, `Project`) are not among
the values they mark the absence of. Five say more. Triggers and runs of a demo
are finitely many (`TriggerAssumption`, `LimitsAssumption`), as they are sets a
process has in memory; without it neither the executions of an hour nor the
turns of a day could be counted. `Refresh` is positive
(`EvidenceAssumption`; dashboard.py:28-48 refuses an interval below a second).
What `add` builds is a server, a baseline type or a key (`IsAddition`;
authoring.py:154-265). And the files that commands write are among those
modelled (`WritesAssumption`): a directory has room for any of them. The
snapshots there are at first show what an earlier `observe` saw
(`SnapshotAssumption`): each is filed under its server, is of the past, and is
right about a server that has not changed since.

`Sound`, `Apart` and `Well` say of a server's condition whether it is as desired.
They are constants, so that they do not repeat the comparisons they are there to
judge. `AuditIsSound`, `HealthIsSound` and `RouteIsSound` tie them to the
comparisons in one place: they say of one snapshot of one server, or one probe
of one route, taken and judged at once, that the verdict is not mistaken. They
speak of no state, no time and no second server; what the theorems add is
everything the program does between such a look and what somebody reads. That
the comparisons do judge rightly is for TLC to say: `MCEvidence` assumes all
three of its instance (`JudgementAssumption`), in which each comparison fails in
some condition, and the run evaluates them.

Each invariant below was checked by TLC on the run of its module before it was
proved, but for `KeepInv`, which asks for a plan among all sequences of
documents; TLC checked the property it serves. One lemma per action or process
shows that it is kept; the last step of each theorem combines them.

**Decisions.** A record becomes `verified` by a write from an approver's local
copy, and copies are loaded from the store, so nothing about the store follows
unless something is known about the copies. `IInv` closes the circle: `StoreInv`
(every stored record is well formed, is filed under its own id, and a finished
one comes of a run), `ApproverInv` (a working
approver holds a sound, live, open copy, a recording one a copy that is in
`ran`) and `ProposerInv` (a draft has the gate's status and, once written, is
sound; the records read for superseding are sound). Both kinds of process write
stale copies over whatever is there, and `IInv` holds all the same, whoever runs
at the same time. With one proposer, `SerialInv` adds that ids carry a second
that has come (`FiledInv`), that every copy and every run has its record on file
(`CopiesInv`), and that a draft's id is free and later than those it will
supersede, and its diff holds what its check has printed so far and nothing else
(`DraftInv`, `DiffSound`). What a record digests is then the whole output of its
own check, which `RunsAreAlwaysChecked` reads off the record of a run. Every write then either opens a free id or changes the
status of a record on file, from which the step simulation of `DecisionLedger`
follows. `NothingIsOpenTwice` needs to know which open records a proposal has
read (`KnownInv`): those of its call, a killed proposer's included, less those
approved meanwhile. With two proposers a second save may take the id of the
first, its check the diff, and these properties fail.

**OperatorLoop.** `ProvenInv` adds to `VerifiedIsProven` that what a verifier
waits for has cleared or still fires. `TrustInv` follows trust back to its
start: what the loop began was licensed by trusted runs of its kind, and a
receipt verified otherwise is one the loop itself ran. `LiveInv` says what a
trigger outside the policy has pending: what a run of it is doing, or what the
passes have read (`blocking`, `todo`) before the world moved on. Two people who
run a proposal may turn its receipt back after a newer one exists. `RateInv`
counts: every execution of the loop is on a receipt of its own but for the one
running (`CountedInv`), so the receipts `autonomy_decision` counts bound the
executions of every window of an hour (`WindowInv`). A person's run of the same
proposal takes its receipt out of that count, hence the hypothesis `Nobody`.

**Release.** One controller leaves a trail: the servers behind it answer and run
the play's release (`BehindInv`), the server it is on is in a state its task
explains (`HereInv`), and what it finds there behind the first server answered
before (`FoundInv`). `UnsoundStaysOnFirst` and `ReceiptIsEarned` are conjuncts of
the invariant: the next play starts from what the last one left.

**Migration.** The file is all that is left between two commands. `Claims` says
what the completed steps of a plan tell of the servers; `LosesOneAtMost` that
what happened is marked in it but for the one next step, if something was cut
off. `RunningInv` and `SavingInv` say the same of the copy a process works on.

**Project.** `AnsweredInv` is short: a command that answers has validated what
it holds. The argument is in `RenderingProof`: for every configuration, `Valid`
implies that no lookup of the projection and of the rendered inventory raises
(`ProjectionSucceeds`, `RenderingSucceeds`) and that hosts and groups agree
(`ConsistentAgrees`); nothing is said there of how the documents came to be.
`ImportsExplained` is an induction over the services of a blueprint:
`ImportAccounts` says what the state after any number of them accounts for, and
`ImportIsExplained` reads the report off the last one. `TypeInv` carries the
plans of running commands, whose documents come from `Imported`.
`CommandsKeep` is about files over time. `KeepInv` says of a command that writes
while nobody edits that there is a plan, and two places in it, such that the
files are those of its start but for the documents between the places, and for
one file at most that was being written (`IsAt`); that what it has read back is
what the files hold (`IsRead`); and that what is taken back after everything was
written was refused as a duplicate. That last part is needed: `add server` may
take the baseline type back first and be killed before the server, which then
has a type only because the type was there before (`TypeWasDeclared`). What the
files then hold loads because a configuration stays consistent when documents in
order are added (`GrowthIsConsistent`), which is shown for additions
(`AddedLoads`) and for the documents of an import, each in its place
(`ImportedInPlace`, `MergeIsConsistent`). With two authors the property fails;
`ProjectRace` shows how.

**Evidence.** The dashboard's lock has one holder or none, and a thread's step
says whether it holds it (`TypeInv`). `TimesInv` puts the times a thread has
seen in order (arrival, reading, building), so that a view served from the cache
is at most `Refresh` older than the request. `ObservedInv` follows a run of
`observe`: what it has ticked off is observed, since it began, and stays so
because nobody else writes; with two observers an older play may overwrite what
the newer one found. `WholeInv` says that until two inspections overlap there is
one at most, and what it has written so far; `overlapped` is in the property.
`TruthInv` is about the past. Everything in the world has a time it has been so
since; a snapshot, the project a handler has read and a cached view each have a
time they are of, and if nothing has changed since then they are what there is now
(`ShowsServer`, `IsProject`, `Faithful`). A step keeps that because what changes
is new (`Ages`). A verdict of `audit` is then one of a look at each server, as
comparisons do not depend on when it was (`AuditIsTimeless`) and none is lost in
the sum (`AllAreCompliant`): `CompliantFleetIsSound`. A page is judged by the age of its
snapshots, which `ServerHealth` bounds, and by its own, which `TimesInv` bounds.
Routes carry no time of their own. What bounds their age is that the handler
inspects after it has read the project: `RoutesInv` says that what an inspection
has in hand (`Tells`), and each file the handler's own inspection has passed
(`Stands`), is not older than the reading. An inspection that began before may write
an older probe over it, so this holds until two have overlapped. The two halves
meet in `ShownHealthIsEarned`.

**Demo.** `IInv` says of each decision that the run that wrote it knows it
(`RecordsInv`): in its steps while it runs, in its investigation afterwards, and
that it is clean where the finding claims it. The records a run will supersede
are copies, as in `Decisions`. Everything depends on a run being started once,
which is the queue's doing (`QueueInv`). `BudgetInv` compares the day's count
with the sum over the runs admitted that day of the turns the server read;
sums over a set of runs are a fold, so the module first proves that sums exist,
are unique and add up, by induction over the subsets of a finite set.

Two inductions stand behind these proofs, over the services of a blueprint and
over the subsets of a set of runs. The prover cannot instantiate an induction
theorem with a formula of the model; each is stated as a property of a *set* (of
numbers, of subsets) that has zero or the empty set and is closed under one more,
and proved from the well-foundedness of `<`.

### What proving changed in the models

* `Imported` is the last of the states `After` gives after each service, a
  recursive function instead of a fold, so that there is a state to be inductive
  about.
* `Explained` asked a gap of every service whose slug was imported, including
  those the importer skips and which share the slug with one it imports. It asks
  it of the service now.
* `CommandsKeepProject` was false of projects no run started from: one in which
  the file of a server type holds a type of another id, where a killed
  `add server` leaves a server whose type validation does not find; and, for an
  import, one where a document lies in a file the import writes. The property
  now says so (`TypesAreNamed`, `Fits`), and the run starts from the first as
  well.
* `ShownHealthIsTrue` was false: a server with a stale environment file is shown
  as healthy for as long as it is there, because the page is not given the
  receipts `audit` has. The run had not seen it, as every defect was new and the
  clock ended before it was old enough to be noticed; starts have an `age` now.
  What the page does not compare is named (`Apart`), and that there is nothing else
  is `PagesMissOnlyEnvironments`.
* The output of a check was written to its diff, and digested, in one step.
  That hid what two proposers of one second do to each other's diffs, and
  `RunsWereChecked` was proved for any number of them. The check prints in
  pieces now, the theorem has one proposer, and what two can do is among the
  behaviours below.
* Assumptions the proofs showed to be needed were added where the code justifies
  them: those named above, and that threads are not probers.

### Only model-checked

* Liveness (`TriggersAreAnswered`, `MigrationCompletes`, `RequestsAreAnswered`,
  `AdmittedRunsEnd`): it rests on fairness and ENABLED, which the prover does not
  handle.
* `JudgementAssumption`: a theorem would need the judgement of every condition a
  server may be in.
* The runs that end in a counterexample.

## Findings

* `DecisionsStaleApproval`. decision.py:612 says "Refuse a decision that is not
  an open proposal, before anything runs." The refusal looks at the copy loaded
  before a person was asked. Two people who approve the same decision both run
  it.
* `OperatorStaleQueue`. operator.py:1077 says "Execute open proposals the
  declared policy licenses, receipted." The autonomy pass works through one
  listing; a proposal a person has executed meanwhile is executed again and its
  receipt overwritten.
* `ProjectRace`. authoring.py:7 says "a failed validation removes what was
  written so the project never holds a resource it would reject". Two commands
  that add servers of one missing type both write that type's file, the second
  over the first. The one that is rejected unlinks it; the other's validation
  fails for it in turn, its own unlink raises, and its server stays in the
  project without a type.

### Behaviours worth knowing

The models contain these because the code does. Nothing in the repository
promises otherwise, or the promise is too loose to check, so they are written
down here and shape the preconditions of the properties above.

* Superseding writes back the copy read before the check: an approval that
  finished in between loses its outcome (decision.py:499).
* `save` checks and then writes: two proposals of one operation in one second
  may both pass the check, and the later one replaces the earlier
  (decision.py:364).
* Two proposals of one operation in one second share a diff file, which the
  second truncates before it is known whether the id is free (decision.py:936).
  A check that is still printing loses what it has printed, and may lose more
  to the other's output; the file is digested as it is then (821). The record
  may be saved, approved and run with a digest of a diff that lacks some of its
  check's output or holds some of the other's, or the file may change after it
  was digested. `RunsWereChecked` is stated for one proposer at a time.
* A proposer that is killed may leave its check running, and printing, behind
  it; the models end it.
* A timeout or a kill during a run leaves the decision open though the fleet was
  touched (decision.py:607).
* An alert whose service is not declared on its server is skipped
  (operator.py:404, test_operator.py:178). The pass reports it and keeps nothing:
  it leaves no receipt, so it may fire for ever without one, is skipped again in
  every pass, and is not among the triggers `TriggersAreAnswered` speaks of.
* The time of an autonomy pass is taken once and judges executions that start
  much later, in the quiet hours (operator.py:1079).
* A verifier that raises leaves its receipt at `executed`, and its trigger
  blocked, for good (operator.py:923).
* A suspension looks at the proposal proposed last, not the one run last
  (operator.py:1006).
* An execution killed before its first receipt write is not counted against the
  rate limit (operator.py:894), which is why `RateLimitHolds` is stated for
  loops nobody killed.
* A person's run and the loop's run of one proposal each write the receipt, so
  the loop's failure may turn a verified receipt into a failed one, and a newer
  receipt of the trigger may exist by then: `OneLivePerTrigger` is stated for
  triggers without a grant.
* A failed first release is stopped but keeps its link and its enabled unit; a
  reboot starts it, and the rescue of the next failed deployment restores it
  (cloudfall_deploy main.yml:224 and 208).
* The gate in main.yml:189 reads the fields of an HTTP health check whatever its
  type, while health_gate.yml, which rollback and restart use, also knows `none`.
* A rollback only requires the release's directory, which a play that failed
  while unpacking leaves too (rollback.yml:27), and it writes no receipt.
* The environment file is replaced before the gate and not put back by the
  rescue (main.yml:118).
* Two controllers deploying one component overwrite each other's link between
  switch and gate. The properties of `Release` are stated for one.
* A migration whose `deploy` is completed and which is resumed with another
  pinned release reports success without deploying it (migrate.py:163).
* After `--restart` behind a DNS switch, `ttl-lower` measures again and the
  rollback recipe names the new origin (migrate.py:571).
* A plan file torn by a kill raises a JSON error until the plan is discarded
  (migrate.py:340); a data step killed behind its restore is refused on resume
  until somebody empties the database.
* `add` and `import`: an application may list a component another application
  owns. A disk that fills up leaves an empty or partial file, which is not among
  those `add` takes back (`written.append` comes after the write,
  authoring.py:331) though the comment above the handler says "leave it as it
  was"; a later `add` of the same id refuses it as existing. An empty type file
  is there for `add server` and not for validation: the server is taken back, or
  stays without a type if the command is killed first. So is a file that holds a
  type of another id, as `add server` looks for a file of that name
  (authoring.py:290) and validation for a document of that id.
* An import does not validate. It takes `production` for the environment,
  replaces `services/postgresql-main.yaml` and any other file in its way, whatever
  document that holds, keeps component files an earlier
  import wrote though the new application does not list them, may assign a port
  the blueprint declares elsewhere, and takes two databases of one name, which
  validation then refuses.
* A reader fails if a listed file is gone before it is loaded.
* `audit` never looks at the age of evidence, though app.py:1013 says of its
  exit code "The evidence is missing or stale". Domain evidence has no age limit
  in the dashboard either, and a snapshot dated in the future is never stale.
* The dashboard is not given the receipts of rendered environments that `audit`
  has (operations.py:584, app.py:1006), though sdk/README.md:148 says it "combines
  the same validated audit data": a server with a stale environment file is
  drifted in one and healthy in the other, for as long as the file is there. A
  raid10 array passes the level check of a declared raid1; the size check still
  catches it. An endpoint that accepts a port twice counts as drift.
* Two inspections of one route share the temporary file: the published document
  may be a mixture, and the second `replace` may find no file. A command that
  overlaps the dashboard's inspection may put older evidence over newer.
* A build that takes longer than the refresh interval serves each request
  one after the other. An address that does not resolve drops the request.
* `observe` counts a snapshot of an earlier run as observed in its output; its
  exit code does not.
* A finding may list as proposed a decision that the same run has superseded: a
  call spelled differently is proposed again, as repeats are recognized by the
  arguments as written. A call that failed because its id was taken in that
  second, or because its check was cut off, is answered as failed from then on
  and not tried again.
* A reader that leaves before the last event makes an investigation exit as if
  it had succeeded, whatever its ending. More runs of one second than it has
  names (`SAVE_ATTEMPTS`) end without a record.
* The demo's budget is checked at admission, so runs admitted together
  overshoot it by what each still spends; the turn a killed run was asking for
  is not counted; a day's count includes turns of runs admitted the day before.
  The retention goes by the modification time of the run's directory, which is
  when it last got a subdirectory. Approving in the demo plays the recording
  back and answers 404 when the directory is gone.

## Not modelled

* `init`, which fills an empty directory with static files; a killed one leaves
  a directory it then refuses. The Render API client and the Ansible reader's
  input formats.
* The MCP server (each tool call is one propose), the parsing of the operation
  catalog, history queries, secrets, command-line declarations, result payloads,
  the HTML of the dashboard and the demo's pages: they translate or print and
  hold no state between two steps. Schemas, examples, evaluations and the site
  are static.
* Parsing what hosts report (`observe.py`, `service_evidence.py`): the facts it
  yields are the model's data. The DNS names `cutover.py` decompresses.
* What Ansible does on a host outside `cloudfall_deploy` and
  `cloudfall_inspect`: a playbook succeeds, fails, or is cut off. Backups, and
  the artifact builder.
* Torn receipts and two operator loops at once, two migration processes at once,
  two controllers deploying one component.
* Traces, texts and token counts of an investigation; runs of the demo that last
  longer than the retention of their directory.

## Plan

1. `Names`: the compressed-name reader of `cutover.py` as a function, against a
   reference definition.
2. Variants: two operator loops and torn receipts; `Release` with two players.
