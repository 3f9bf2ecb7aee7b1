--------------------------- MODULE Investigation ---------------------------
(***************************************************************************)
(* `agent investigate`: a model works an alert through the operations of   *)
(* the catalog, turn by turn (src/sdk/src/cloudfall/investigation.py and   *)
(* the command of app.py), proposing through the gate of decision.py, live *)
(* or played back from a recording (recording.py).                         *)
(*                                                                         *)
(* Every run is a process.  Runs at a terminal share the project's         *)
(* directories of decisions and investigations; a run the public demo      *)
(* serves has directories of its own and plays a recording back.           *)
(***************************************************************************)
EXTENDS Integers, Sequences, FiniteSets

CONSTANTS
    Run,          \* processes running `agent investigate`
    Question,     \* tool calls the model may write, arguments as it spells them
    CallOf,       \* what a question asks: an operation with targets and inputs
    OperationOf,  \* the operation a call is of
    Reading,      \* the operations that run freely
    Recorded,     \* the recording: its decision records in the order of their names
    Asks,         \* bound: the calls a run's model may ask for, by turn
    Project,      \* the directories of the runs at a terminal
    MaxTurns,     \* --max-turns of each run
    MaxAttempts,  \* names an investigation of one second may take
    MaxFaults     \* bound: killed processes, failed writes and lost readers

ASSUME ProjectAssumption == Project \notin Run

ASSUME TurnsAssumption == MaxTurns \in [Run -> Nat \ {0}] /\ MaxAttempts \in Nat \ {0}

VARIABLES
    now,            \* the second the controller's clock shows
    served,         \* the runs the demo serves
    agent,          \* the state of each run
    decisions,      \* the decision records of each directory
    investigations, \* the investigation records of each directory
    touched,        \* when a directory last got an entry
    gone,           \* the terminals whose reader closed the stream
    faults          \* how many things went wrong

vars == <<now, served, agent, decisions, investigations, touched, gone, faults>>

-----------------------------------------------------------------------------
(* Records.                                                                *)

Never == -1

NoDecision == <<"none", Never>>

Directory == Run \cup {Project}
DirectoryOf(r) == IF r \in served THEN r ELSE Project

IsReading(call) == OperationOf[call] \in Reading

\* A decision record: the run that wrote it, the call it checked, whether the
\* check ended clean and where the record stands.
Decision(r, call, clean) == [
    by |-> r,
    call |-> call,
    clean |-> clean,
    status |-> IF IsReading(call) THEN "ran" ELSE "proposed",
    replayed |-> r \in served
]

With(f, x, value) == [y \in DOMAIN f \cup {x} |-> IF y = x THEN value ELSE f[y]]

\* Calls of a turn that reach no tool: arguments that are no JSON object or
\* fail the tool's schema, and a call without a function.
Refused == "refused"
Broken == "broken"

Idle == [
    pc |-> "idle",
    started |-> 0,
    turns |-> 0,          \* answers the endpoint gave
    told |-> 0,           \* turns written to the stream
    calls |-> <<>>,       \* calls of the turn that are still to run
    names |-> {},         \* the decisions an answer names, after "PROPOSED:"
    shaped |-> FALSE,     \* whether the answer has its three lines
    steps |-> <<>>,
    draft |-> {},         \* the decision being checked
    status |-> "turn-limit",
    exit |-> "none"
]

-----------------------------------------------------------------------------
(* The recording: the first record of a call answers it, every time.       *)

IsPlayed(call, i) ==
    /\ Recorded[i].call = call
    /\ \A j \in 1..(i - 1) : Recorded[j].call # call

\* How a check may end: on the hosts either way, from a recording as the
\* record says, and not clean for a call the recording does not hold.
CheckResults(r, call) ==
    IF r \notin served THEN BOOLEAN
    ELSE {\E i \in 1..Len(Recorded) : IsPlayed(call, i) /\ Recorded[i].clean}

-----------------------------------------------------------------------------
(* The steps of a run and what its record makes of them.                   *)

Step(question, outcome, decision) ==
    [question |-> question, outcome |-> outcome, decision |-> decision]

ToolRan(step) == step.outcome \in {"ran", "proposed", "failed"}

\* The result the run keeps for a question: it is never asked twice.
Seen(r, question) ==
    {step \in {agent[r].steps[i] : i \in 1..Len(agent[r].steps)} :
        step.question = question /\ ToolRan(step)}

DecisionsOf(steps, outcomes) ==
    {steps[i].decision : i \in {j \in 1..Len(steps) :
        steps[j].outcome \in outcomes /\ steps[j].decision # NoDecision}}

NoFinding == [proposed |-> {}, unrecorded |-> {}, given |-> FALSE]

\* MUTANT of FindingOf: a step that repeats a call counts as a proposal.
FindingOfRepeats(a) ==
    IF a.status # "unstructured" \/ ~a.shaped THEN NoFinding
    ELSE [proposed |-> a.names \cap DecisionsOf(a.steps, {"proposed", "repeated"}),
          unrecorded |-> a.names \ DecisionsOf(a.steps, {"ran", "proposed", "failed"}),
          given |-> TRUE]

\* The finding: the decisions the model named that this run proposed, and the
\* ones it never wrote.
FindingOf(a) ==
    IF a.status # "unstructured" \/ ~a.shaped THEN NoFinding
    ELSE [proposed |-> a.names \cap DecisionsOf(a.steps, {"proposed"}),
          unrecorded |->
            a.names \ DecisionsOf(a.steps, {"ran", "proposed", "failed", "repeated"}),
          given |-> TRUE]

Ending(a) == IF FindingOf(a).given THEN "answered" ELSE a.status

InvestigationRecord(r) == [
    by |-> r,
    status |-> Ending(agent[r]),
    decisions |-> DecisionsOf(agent[r].steps, {"ran", "proposed", "failed"}),
    finding |-> FindingOf(agent[r])
]

\* An investigation that was recorded in the first second, before the others.
Earlier == [n \in {<<0, 1>>} |-> [by |-> Project, status |-> "answered", decisions |-> {},
                         finding |-> NoFinding]]

-----------------------------------------------------------------------------
(* One run.                                                                *)

Init ==
    /\ now = 0
    /\ served \in {{}, Run}
    /\ agent = [r \in Run |-> Idle]
    /\ decisions = [d \in Directory |-> <<>>]
    /\ investigations = [d \in Directory |-> IF d = Project THEN Earlier ELSE <<>>]
    /\ touched = [d \in Directory |-> Never]
    /\ gone = {}
    /\ faults = 0

Becomes(r, a) == agent' = [agent EXCEPT ![r] = a]

\* A process that ended leaves what it told and its exit code.
Ends(r, exit) ==
    Becomes(r, [Idle EXCEPT !.pc = "ended", !.told = agent[r].told, !.exit = exit])

\* After the calls of a turn: ask again, unless the turns are used up.
AfterCalls(r, a) ==
    IF a.calls # <<>> THEN "calling" ELSE IF a.turns < MaxTurns[r] THEN "asking" ELSE "ending"

\* The command starts, at a terminal or as the demo's process.
Begin(r) ==
    /\ Becomes(r, [agent[r] EXCEPT !.pc = "asking", !.started = now])
    /\ UNCHANGED <<now, served, decisions, investigations, touched, gone, faults>>

Start(r) == r \notin served /\ agent[r].pc = "idle" /\ Begin(r)

\* The endpoint answers with the calls the model wants made.
AnswerCalls(r) ==
    /\ agent[r].pc = "asking"
    /\ \E calls \in Asks[r, (r \in served)][agent[r].turns + 1] :
        Becomes(r, [agent[r] EXCEPT !.pc = "turn", !.turns = @ + 1, !.calls = calls])
    /\ UNCHANGED <<now, served, decisions, investigations, touched, gone, faults>>

\* The endpoint answers without a call: with the three lines it was asked
\* for, naming every decision on record or none, or with something else.
Answer(r) ==
    /\ agent[r].pc = "asking"
    /\ \E shaped \in BOOLEAN :
       \E names \in IF shaped THEN {{}, DOMAIN decisions[DirectoryOf(r)]} ELSE {{}} :
        Becomes(r, [agent[r] EXCEPT !.pc = "turn", !.turns = @ + 1,
                                    !.names = names, !.shaped = shaped])
    /\ UNCHANGED <<now, served, decisions, investigations, touched, gone, faults>>

\* The endpoint cannot be reached, refuses or answers malformed.
EndpointFails(r) ==
    /\ agent[r].pc = "asking"
    /\ Becomes(r, [agent[r] EXCEPT !.pc = "ending", !.turns = @ + 1,
                                   !.status = "model-unavailable"])
    /\ UNCHANGED <<now, served, decisions, investigations, touched, gone, faults>>

\* The turn is written to the stream.
TellTurn(r) ==
    /\ agent[r].pc = "turn" /\ r \notin gone
    /\ LET answered == agent[r].calls = <<>>
       IN Becomes(r, [agent[r] EXCEPT
            !.pc = IF answered THEN "ending" ELSE "calling",
            !.told = @ + 1,
            !.status = IF answered THEN "unstructured" ELSE @])
    /\ UNCHANGED <<now, served, decisions, investigations, touched, gone, faults>>

\* A step is kept before it is told.
Keeps(r, a, step) ==
    Becomes(r, [a EXCEPT !.pc = "step", !.steps = Append(@, step), !.draft = {}])

\* A call with no function ends the run like a failing endpoint.
CallBroken(r) ==
    /\ agent[r].pc = "calling" /\ Head(agent[r].calls) = Broken
    /\ Becomes(r, [agent[r] EXCEPT !.pc = "ending", !.status = "model-unavailable"])
    /\ UNCHANGED <<now, served, decisions, investigations, touched, gone, faults>>

\* A call no tool takes is answered without running anything.
CallRefused(r) ==
    /\ agent[r].pc = "calling" /\ Head(agent[r].calls) = Refused
    /\ Keeps(r, agent[r], Step(Refused, "invalid", NoDecision))
    /\ UNCHANGED <<now, served, decisions, investigations, touched, gone, faults>>

\* A call that ran is answered with its result again.
CallRepeated(r) ==
    /\ agent[r].pc = "calling"
    /\ \E earlier \in Seen(r, Head(agent[r].calls)) :
        Keeps(r, agent[r], Step(earlier.question, "repeated", earlier.decision))
    /\ UNCHANGED <<now, served, decisions, investigations, touched, gone, faults>>

\* A new call is proposed: the open records it will replace are read and the
\* second taken, then its check runs.
CallProposed(r) ==
    /\ agent[r].pc = "calling"
    /\ LET question == Head(agent[r].calls)
           call == CallOf[question]
           records == decisions[DirectoryOf(r)]
           older == {i \in DOMAIN records :
                        /\ records[i].status = "proposed"
                        /\ records[i].call = call
                        /\ records[i].replayed = (r \in served)}
       IN /\ question \in Question
          /\ Seen(r, question) = {}
          /\ Becomes(r, [agent[r] EXCEPT
                !.pc = "checking",
                !.draft = [question |-> question,
                           id |-> <<OperationOf[call], now>>,
                           older |-> [i \in older |-> records[i]],
                           clean |-> FALSE]])
    /\ touched' = [touched EXCEPT ![DirectoryOf(r)] = IF @ = Never THEN now ELSE @]
    /\ UNCHANGED <<now, served, decisions, investigations, gone, faults>>

\* The check ended: the record is written unless its name is taken.
CheckEnds(r) ==
    /\ agent[r].pc = "checking"
    /\ LET draft == agent[r].draft
       IN \E clean \in CheckResults(r, CallOf[draft.question]) :
            IF draft.id \in DOMAIN decisions[DirectoryOf(r)]
            THEN Keeps(r, agent[r], Step(draft.question, "failed", NoDecision))
            ELSE Becomes(r, [agent[r] EXCEPT !.pc = "writing", !.draft.clean = clean])
    /\ UNCHANGED <<now, served, decisions, investigations, touched, gone, faults>>

\* Nothing could be proposed: a record that does not load, a check cut off.
CheckFails(r) ==
    /\ agent[r].pc = "checking" /\ r \notin served
    /\ faults < MaxFaults
    /\ faults' = faults + 1
    /\ Keeps(r, agent[r], Step(agent[r].draft.question, "failed", NoDecision))
    /\ UNCHANGED <<now, served, decisions, investigations, touched, gone>>

OutcomeOf(call, clean) ==
    IF ~clean THEN "failed" ELSE IF IsReading(call) THEN "ran" ELSE "proposed"

\* The decision is on record, and the open ones of its call are superseded.
SaveDecision(r) ==
    /\ agent[r].pc = "writing"
    /\ LET draft == agent[r].draft
           call == CallOf[draft.question]
           saved == With(decisions[DirectoryOf(r)], draft.id, Decision(r, call, draft.clean))
           Superseded(i) == [draft.older[i] EXCEPT !.status = "superseded"]
       IN /\ decisions' = [decisions EXCEPT ![DirectoryOf(r)] =
                [i \in DOMAIN saved |->
                    IF i \in DOMAIN draft.older THEN Superseded(i) ELSE saved[i]]]
          /\ Keeps(r, agent[r],
                   Step(draft.question, OutcomeOf(call, draft.clean), draft.id))
    /\ UNCHANGED <<now, served, investigations, touched, gone, faults>>

\* The call is written to the stream.
TellStep(r) ==
    /\ agent[r].pc = "step" /\ r \notin gone
    /\ LET a == [agent[r] EXCEPT !.calls = Tail(@)]
       IN Becomes(r, [a EXCEPT !.pc = AfterCalls(r, a)])
    /\ UNCHANGED <<now, served, decisions, investigations, touched, gone, faults>>

\* Nobody reads: the run ends with the steps it made.
Stop(r) ==
    /\ agent[r].pc \in {"turn", "step"} /\ r \in gone
    /\ Becomes(r, [agent[r] EXCEPT !.pc = "ending", !.status = "stopped"])
    /\ UNCHANGED <<now, served, decisions, investigations, touched, gone, faults>>

\* MUTANT of SaveName: the name is not created exclusively.
SaveNameAlways(r) == {<<agent[r].started, 1>>}

\* The name an investigation gets: the first of its second nobody took.
SaveName(r) ==
    LET free == {n \in 1..MaxAttempts :
            <<agent[r].started, n>> \notin DOMAIN investigations[DirectoryOf(r)]}
    IN {<<agent[r].started, n>> : n \in {m \in free : \A k \in free : m <= k}}

\* The investigation is on record; a stopped one has nobody left to tell.
SaveInvestigation(r) ==
    /\ agent[r].pc = "ending"
    /\ \E name \in SaveName(r) :
        investigations' = [investigations EXCEPT ![DirectoryOf(r)] =
            With(@, name, InvestigationRecord(r))]
    /\ touched' = [touched EXCEPT ![DirectoryOf(r)] =
            IF DOMAIN investigations[DirectoryOf(r)] = {} THEN now ELSE @]
    /\ IF agent[r].status = "stopped" THEN Ends(r, "stopped")
       ELSE Becomes(r, [agent[r] EXCEPT !.pc = "closing"])
    /\ UNCHANGED <<now, served, decisions, gone, faults>>

\* Every name of the second is taken.
NoNameLeft(r) ==
    /\ agent[r].pc = "ending" /\ SaveName(r) = {}
    /\ Ends(r, "precondition")
    /\ UNCHANGED <<now, served, decisions, investigations, touched, gone, faults>>

\* The directory cannot be written.
SaveUnwritable(r) ==
    /\ agent[r].pc = "ending"
    /\ faults < MaxFaults
    /\ faults' = faults + 1
    /\ Ends(r, "precondition")
    /\ UNCHANGED <<now, served, decisions, investigations, touched, gone>>

ExitOf(a) ==
    IF a.status = "model-unavailable" THEN "model-unavailable"
    ELSE IF FindingOf(a).given THEN "ok" ELSE "incomplete"

\* The record is told as the last event.  A reader that left before it is
\* noticed too late to change what the command exits with.
TellInvestigation(r) ==
    /\ agent[r].pc = "closing"
    /\ Ends(r, IF r \in gone THEN "ok" ELSE ExitOf(agent[r]))
    /\ UNCHANGED <<now, served, decisions, investigations, touched, gone, faults>>

\* Whoever reads the stream at a terminal closes it.
ReaderLeaves(r) ==
    /\ r \notin served \cup gone
    /\ agent[r].pc \notin {"idle", "ended"}
    /\ faults < MaxFaults
    /\ faults' = faults + 1
    /\ gone' = gone \cup {r}
    /\ UNCHANGED <<now, served, agent, decisions, investigations, touched>>

\* The process is killed.
Kill(r) ==
    /\ r \notin served
    /\ agent[r].pc \notin {"idle", "ended"}
    /\ faults < MaxFaults
    /\ faults' = faults + 1
    /\ Ends(r, "killed")
    /\ UNCHANGED <<now, served, decisions, investigations, touched, gone>>

Tick(last) ==
    /\ now < last
    /\ now' = now + 1
    /\ UNCHANGED <<served, agent, decisions, investigations, touched, gone, faults>>

\* What a started run does on its own.
Proceeds(r) ==
    \/ AnswerCalls(r) \/ Answer(r) \/ EndpointFails(r)
    \/ TellTurn(r) \/ TellStep(r) \/ Stop(r)
    \/ CallBroken(r) \/ CallRefused(r) \/ CallRepeated(r) \/ CallProposed(r)
    \/ CheckEnds(r) \/ CheckFails(r) \/ SaveDecision(r)
    \/ SaveInvestigation(r) \/ NoNameLeft(r) \/ SaveUnwritable(r)
    \/ TellInvestigation(r)

-----------------------------------------------------------------------------
(* What the records promise.                                               *)

Unrecorded == {"none", "precondition", "killed"}

\* Every investigation that ends without saying it could not be recorded has
\* one record, which holds every decision it wrote: no run of the same second
\* took its place, and one whose reader left kept its steps
\* (InvestigationStore.save, agent_investigate).
EndingsAreOnRecord(kept) ==
    \A r \in Run : agent[r].exit \notin Unrecorded /\ DirectoryOf(r) \in kept =>
        LET mine == {n \in DOMAIN investigations[DirectoryOf(r)] :
                        investigations[DirectoryOf(r)][n].by = r}
            wrote == {i \in DOMAIN decisions[DirectoryOf(r)] :
                        decisions[DirectoryOf(r)][i].by = r}
        IN /\ Cardinality(mine) = 1
           /\ \A n \in mine : wrote \subseteq investigations[DirectoryOf(r)][n].decisions

\* A decision a finding lists as proposed is one a person can act on: it is on
\* record, is of an operation that waits for a person and, unless a run of the
\* same second replaced the record, its check ended clean (_finding).
ProposedIsBacked(kept) ==
    \A d \in kept : \A n \in DOMAIN investigations[d] :
        LET record == investigations[d][n]
        IN \A i \in record.finding.proposed :
            /\ i \in DOMAIN decisions[d]
            /\ decisions[d][i].status \in {"proposed", "superseded"}
            /\ decisions[d][i].by = record.by => decisions[d][i].clean
=============================================================================
