-------------------------------- MODULE Demo --------------------------------
(***************************************************************************)
(* The public demo (src/demo/src/cloudfall_demo/server.py): one event loop *)
(* admits visitors under an hourly limit per address and a daily budget of *)
(* tokens, runs their investigations in a few slots, streams each one's    *)
(* events and kills it when its visitor leaves.                            *)
(***************************************************************************)
EXTENDS Investigation, SequencesExt

CONSTANTS
    AddressOf,    \* where the visitor of a run comes from
    RunsPerHour,  \* RUNS_PER_ADDRESS_PER_HOUR
    Slots,        \* CONCURRENT_RUNS
    DailyTokens,  \* DAILY_TOKENS, counted in turns
    Hour,         \* seconds of the modelled hour, and of RUN_RETENTION_SECONDS
    DayLength,    \* seconds of the modelled day
    MaxSecond,    \* bound: the last second the demo works in
    MaxTerminalSecond \* bound: the last second the terminals work in

ASSUME LimitsAssumption ==
    /\ IsFiniteSet(Run)
    /\ AddressOf \in [Run -> {AddressOf[r] : r \in Run}]
    /\ RunsPerHour \in Nat \ {0} /\ Slots \in Nat \ {0} /\ DailyTokens \in Nat \ {0}
    /\ Hour \in Nat \ {0} /\ DayLength \in Nat \ {0}

VARIABLES
    recent,     \* when the runs an address started lately were admitted
    day,        \* the day the token count is of
    tokens,     \* what the admitted runs spent, as the server counted it
    visit,      \* where the stream of each run stands
    waiting,    \* runs waiting for a slot, first come first served
    read,       \* turns of each run the server read and passed on
    admittedOn, \* history: the day each run was admitted on
    forgotten   \* history: directories that were removed

limits == <<recent, day, tokens>>
streams == <<visit, waiting, read>>
history == <<admittedOn, forgotten>>
demoVars == <<limits, streams, history>>
allVars == <<vars, demoVars>>

Address == {AddressOf[r] : r \in Run}
Day(second) == second \div DayLength

InSlot == {r \in Run : visit[r] = "streaming"}

-----------------------------------------------------------------------------

DemoInit ==
    /\ Init
    /\ recent = [a \in Address |-> <<>>]
    /\ day = Never
    /\ tokens = 0
    /\ visit = [r \in Run |-> "none"]
    /\ waiting = <<>>
    /\ read = [r \in Run |-> 0]
    /\ admittedOn = [r \in Run |-> Never]
    /\ forgotten = {}

\* What of an address's runs lies within the hour.
WithinTheHour(times) ==
    SelectSeq(times, LAMBDA t : t >= now - Hour)

\* Directories whose last entry is older than the retention are removed.
Old == {r \in Run : touched[r] # Never /\ touched[r] < now - Hour}

\* The count starts anew with the first visitor of a day.
SpentToday == IF day = Day(now) THEN tokens ELSE 0

\* A visitor presses start; the same visitor may be refused and try again.
\* The day and the address's hour are brought up to date either way.
Admit(r) ==
    /\ r \in served /\ visit[r] = "none"
    /\ SpentToday < DailyTokens
    /\ Len(WithinTheHour(recent[AddressOf[r]])) < RunsPerHour
    /\ day' = Day(now) /\ tokens' = SpentToday
    /\ recent' = [recent EXCEPT ![AddressOf[r]] = Append(WithinTheHour(@), now)]
    /\ visit' = [visit EXCEPT ![r] = "waiting"]
    /\ waiting' = Append(waiting, r)
    /\ admittedOn' = [admittedOn EXCEPT ![r] = Day(now)]
    /\ decisions' = [d \in Directory |-> IF d \in Old THEN <<>> ELSE decisions[d]]
    /\ investigations' = [d \in Directory |-> IF d \in Old THEN <<>> ELSE investigations[d]]
    /\ touched' = [d \in Directory |-> IF d \in Old THEN Never ELSE touched[d]]
    /\ forgotten' = forgotten \cup Old
    /\ UNCHANGED <<now, served, agent, gone, faults, read>>

RefuseBudget(r) ==
    /\ r \in served /\ visit[r] = "none"
    /\ SpentToday >= DailyTokens
    /\ day' = Day(now) /\ tokens' = SpentToday
    /\ UNCHANGED <<vars, recent, streams, history>>

RefuseAddress(r) ==
    /\ r \in served /\ visit[r] = "none"
    /\ SpentToday < DailyTokens
    /\ Len(WithinTheHour(recent[AddressOf[r]])) >= RunsPerHour
    /\ day' = Day(now) /\ tokens' = SpentToday
    /\ recent' = [recent EXCEPT ![AddressOf[r]] = WithinTheHour(@)]
    /\ UNCHANGED <<vars, streams, history>>

\* The first run waiting gets a slot: its process starts.
Launch ==
    /\ waiting # <<>> /\ Cardinality(InSlot) < Slots
    /\ Begin(Head(waiting))
    /\ visit' = [visit EXCEPT ![Head(waiting)] = "streaming"]
    /\ waiting' = Tail(waiting)
    /\ UNCHANGED <<limits, read, history>>

\* MUTANT of ReadTurn: only the last event is counted.
ReadTurnUncounted(r) ==
    /\ visit[r] = "streaming" /\ read[r] < agent[r].told
    /\ read' = [read EXCEPT ![r] = @ + 1]
    /\ UNCHANGED <<vars, limits, visit, waiting, history>>

\* The server reads the next turn of a run, counts it and passes it on.
ReadTurn(r) ==
    /\ visit[r] = "streaming" /\ read[r] < agent[r].told
    /\ read' = [read EXCEPT ![r] = @ + 1]
    /\ tokens' = tokens + 1
    /\ UNCHANGED <<vars, recent, day, visit, waiting, history>>

\* MUTANT of StreamEnds: the slot is not given back.
StreamEndsHolding(r) ==
    /\ visit[r] = "streaming" /\ agent[r].pc = "ended" /\ read[r] = agent[r].told
    /\ UNCHANGED allVars

\* The process ended and all of its events are passed on.
StreamEnds(r) ==
    /\ visit[r] = "streaming" /\ agent[r].pc = "ended" /\ read[r] = agent[r].told
    /\ visit' = [visit EXCEPT ![r] = "ended"]
    /\ UNCHANGED <<vars, limits, waiting, read, history>>

\* The visitor closes the page before the run has a slot, and may come back.
LeaveWaiting(r) ==
    /\ visit[r] = "waiting"
    /\ visit' = [visit EXCEPT ![r] = "none"]
    /\ \E i \in DOMAIN waiting : waiting[i] = r /\ waiting' = RemoveAt(waiting, i)
    /\ UNCHANGED <<vars, limits, read, history>>

\* The visitor closes the page of a run: its process, if it still runs, is
\* killed and the slot given back.
LeaveRunning(r) ==
    /\ visit[r] = "streaming"
    /\ IF agent[r].pc = "ended" THEN UNCHANGED agent ELSE Ends(r, "killed")
    /\ visit' = [visit EXCEPT ![r] = "ended"]
    /\ UNCHANGED <<now, served, decisions, investigations, touched, gone, faults,
                   limits, waiting, read, history>>

LastSecond == IF served = {} THEN MaxTerminalSecond ELSE MaxSecond

\* No run takes as long as the retention: the endpoint and the plays of a run
\* end in minutes, each turn within the HTTP client's timeout.
TimePasses ==
    /\ \A r \in served : agent[r].pc \notin {"idle", "ended"} => now - agent[r].started < Hour
    /\ Tick(LastSecond)
    /\ UNCHANGED demoVars

Serves(r) == ReadTurn(r) \/ StreamEnds(r)

\* Nothing is left to do but for visitors to try again.
Rests ==
    /\ now = LastSecond
    /\ \A r \in Run : agent[r].pc = "ended" \/ (r \in served /\ visit[r] \in {"none", "ended"})
    /\ UNCHANGED allVars

DemoNext ==
    \/ \E r \in Run :
        \/ (Start(r) \/ Proceeds(r) \/ ReaderLeaves(r) \/ Kill(r)) /\ UNCHANGED demoVars
        \/ Admit(r) \/ RefuseBudget(r) \/ RefuseAddress(r)
        \/ Serves(r) \/ LeaveWaiting(r) \/ LeaveRunning(r)
    \/ Launch
    \/ TimePasses
    \/ Rests

\* A process proceeds, the event loop passes events on and starts waiting
\* runs.  Visitors owe nothing; one who neither reads nor leaves would hold
\* its slot, so ReadTurn's fairness assumes a visitor does one of the two.
DemoSpec ==
    /\ DemoInit
    /\ [][DemoNext]_allVars
    /\ \A r \in Run :
        /\ WF_allVars(Proceeds(r) /\ UNCHANGED demoVars)
        /\ WF_allVars(Serves(r))
    /\ WF_allVars(Launch)

-----------------------------------------------------------------------------

Kept == Directory \ forgotten

\* Every investigation is on record once and whole, as long as its directory
\* is kept (InvestigationStore.save).
EveryEndingIsOnRecord == EndingsAreOnRecord(Kept)

\* What a finding proposes can be acted on (_finding).
FindingsAreBacked == ProposedIsBacked(Kept)

TurnsRead(runs) == FoldFunctionOnSet(+, 0, read, runs)

\* A run is only admitted while the turns passed on to the day's visitors are
\* within the budget, those of visitors who left included, whichever runs are
\* in flight and whenever the day began (Limits.refusal, count_tokens).
AdmissionsAreWithinBudget ==
    [][\A r \in Run : visit[r] = "none" /\ visit'[r] = "waiting" =>
        TurnsRead({s \in Run : admittedOn[s] = Day(now)}) < DailyTokens]_allVars

\* A visitor who was admitted and stays gets the run to its end: slots come
\* back however the runs before it ended (_stream).
AdmittedRunsEnd ==
    \A r \in Run : visit[r] = "waiting" ~> visit[r] \in {"none", "ended"}
=============================================================================
