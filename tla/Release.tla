------------------------------- MODULE Release -------------------------------
(***************************************************************************)
(* Deploying, rolling back and restarting one component on its servers:    *)
(* the plays that src/sdk/src/cloudfall/lifecycle.py starts and the tasks  *)
(* of the cloudfall_deploy role they run.                                  *)
(*                                                                         *)
(* A play takes the servers one at a time (serial: 1) and ends at the      *)
(* first failure (any_errors_fatal).  On each server a release is a        *)
(* directory, the active one is named by a link, and the service runs      *)
(* whatever the link named when it last started.                           *)
(***************************************************************************)
EXTENDS Integers, FiniteSets

CONSTANTS
    Servers,   \* how many servers the component is declared on
    Release,   \* the releases somebody may deploy or roll back to
    Sound,     \* the releases that answer their health check, if not always
    Player,    \* the controllers that run plays
    None,      \* no release
    MaxCuts    \* bound: how many plays are killed or lose their server

ASSUME ServersAssumption == Servers \in Nat \ {0}
ASSUME ReleaseAssumption == Sound \subseteq Release /\ None \notin Release
ASSUME CutsAssumption == MaxCuts \in Nat

VARIABLES
    kept,      \* the releases that have a directory, and on which server
    link,      \* the release the `current` link of a server names
    active,    \* the release a server's service runs, None when stopped
    receipt,   \* the component's release receipt on the controller
    play,      \* the play each controller is running
    target,    \* the release that play was given
    at,        \* the server it has come to
    step,      \* how far it is there
    previous,  \* the rollback candidate a deploy recorded there
    cuts,      \* how many plays were cut off
    found,     \* history: what the link named when a play came to the server
    passed     \* history: releases that passed a health gate, and where

playVars == <<play, target, at, step, previous, found>>
vars == <<kept, link, active, receipt, playVars, cuts, passed>>

-----------------------------------------------------------------------------
Server == 1..Servers
MaybeRelease == Release \cup {None}
Receipt == [server: Server, release: Release, previousRelease: MaybeRelease]

Answers(s) == active[s] \in Sound

TypeOK ==
    /\ kept \in SUBSET (Server \X Release)
    /\ link \in [Server -> MaybeRelease]
    /\ active \in [Server -> MaybeRelease]
    /\ receipt \in Receipt \cup {None}
    /\ play \in [Player -> {"none", "deploy", "rollback", "restart"}]
    /\ target \in [Player -> MaybeRelease]
    /\ at \in [Player -> Server]
    /\ step \in [Player -> {"arrived", "unpacked", "ready", "switched",
                            "restarted", "failed", "restored"}]
    /\ previous \in [Player -> MaybeRelease]
    /\ cuts \in 0..MaxCuts
    /\ found \in [Player -> MaybeRelease]
    /\ passed \in SUBSET (Server \X Release)

Init ==
    /\ kept = {}
    /\ link = [s \in Server |-> None]
    /\ active = [s \in Server |-> None]
    /\ receipt = None
    /\ play = [p \in Player |-> "none"]
    /\ target = [p \in Player |-> None]
    /\ at = [p \in Player |-> 1]
    /\ step = [p \in Player |-> "arrived"]
    /\ previous = [p \in Player |-> None]
    /\ cuts = 0
    /\ found = [p \in Player |-> None]
    /\ passed = {}

-----------------------------------------------------------------------------
(* The play.                                                               *)

\* MUTANT of FirstStep: every play runs the deployment's tasks.
FirstStepOfAny(kind) == "arrived"

\* Where the tasks begin on a server: a rollback has nothing to unpack, a
\* restart nothing to switch.
FirstStep(kind) ==
    CASE kind = "rollback" -> "ready"
      [] kind = "restart" -> "switched"
      [] OTHER -> "arrived"

ComesTo(p, s, kind) ==
    /\ at' = [at EXCEPT ![p] = s]
    /\ step' = [step EXCEPT ![p] = FirstStep(kind)]
    /\ previous' = [previous EXCEPT ![p] = None]
    /\ found' = [found EXCEPT ![p] = link[s]]

Begin(p, kind, release) ==
    /\ play[p] = "none"
    /\ play' = [play EXCEPT ![p] = kind]
    /\ target' = [target EXCEPT ![p] = release]
    /\ ComesTo(p, 1, kind)
    /\ UNCHANGED <<kept, link, active, receipt, cuts, passed>>

PlayEnds(p) ==
    /\ play' = [play EXCEPT ![p] = "none"]
    /\ target' = [target EXCEPT ![p] = None]
    /\ at' = [at EXCEPT ![p] = 1]
    /\ step' = [step EXCEPT ![p] = "arrived"]
    /\ previous' = [previous EXCEPT ![p] = None]
    /\ found' = [found EXCEPT ![p] = None]

Standing(p, where) == play[p] # "none" /\ step[p] = where
GoesOn(p, where) ==
    /\ step' = [step EXCEPT ![p] = where]
    /\ UNCHANGED <<play, target, at, found>>

\* The tasks of a server are done: the next one, or the end of the play.
MovesOn(p) ==
    IF at[p] = Servers THEN PlayEnds(p)
    ELSE /\ ComesTo(p, at[p] + 1, play[p])
         /\ UNCHANGED <<play, target>>

-----------------------------------------------------------------------------
(* main.yml, rollback.yml and restart.yml on one server.                   *)

\* The archive is verified and unpacked, over whatever the directory holds.
Unpack(p) ==
    /\ Standing(p, "arrived")
    /\ kept' = kept \cup {<<at[p], target[p]>>}
    /\ GoesOn(p, "unpacked")
    /\ UNCHANGED <<link, active, receipt, previous, cuts, passed>>

\* The locked dependencies are there; the release the link names is recorded.
Inspect(p) ==
    /\ Standing(p, "unpacked")
    /\ previous' = [previous EXCEPT ![p] = link[at[p]]]
    /\ GoesOn(p, "ready")
    /\ UNCHANGED <<kept, link, active, receipt, cuts, passed>>

\* What a play that stops in its first tasks may leave on the server: the
\* directory of the release, without the release in it.
DirectoryLeft(p) ==
    kept' \in {kept} \cup
        IF Standing(p, "arrived") THEN {kept \cup {<<at[p], target[p]>>}} ELSE {}

\* A task outside the block fails: a digest, uv, the unit file, or a rollback
\* target that is not on the server.
TaskFails(p) ==
    /\ \/ play[p] = "deploy" /\ step[p] \in {"arrived", "unpacked", "ready"}
       \/ play[p] = "rollback" /\ step[p] = "ready"
       \/ play[p] = "restart" /\ step[p] = "switched"
    /\ DirectoryLeft(p)
    /\ PlayEnds(p)
    /\ UNCHANGED <<link, active, receipt, cuts, passed>>

Switch(p) ==
    /\ Standing(p, "ready")
    /\ play[p] = "rollback" => <<at[p], target[p]>> \in kept
    /\ link' = [link EXCEPT ![at[p]] = target[p]]
    /\ GoesOn(p, "switched")
    /\ UNCHANGED <<kept, active, receipt, previous, cuts, passed>>

\* MUTANT of Restart: a service that runs is left running.
RestartStarts(p) ==
    /\ Standing(p, "switched")
    /\ active' = [active EXCEPT ![at[p]] = IF @ = None THEN link[at[p]] ELSE @]
    /\ GoesOn(p, "restarted")
    /\ UNCHANGED <<kept, link, receipt, previous, cuts, passed>>

Restart(p) ==
    /\ Standing(p, "switched")
    /\ active' = [active EXCEPT ![at[p]] = link[at[p]]]
    /\ GoesOn(p, "restarted")
    /\ UNCHANGED <<kept, link, receipt, previous, cuts, passed>>

\* A failure behind the switch: a deploy goes on to its rescue, the other
\* plays end where they are.
Fails(p) ==
    IF play[p] = "deploy"
    THEN GoesOn(p, "failed") /\ UNCHANGED previous
    ELSE PlayEnds(p)

\* The link cannot be switched (in a deploy), or the unit does not start.
SwitchFails(p) ==
    /\ play[p] = "deploy"
    /\ Standing(p, "ready")
    /\ Fails(p)
    /\ UNCHANGED <<kept, link, active, receipt, cuts, passed>>

RestartFails(p) ==
    /\ Standing(p, "switched")
    /\ active' = [active EXCEPT ![at[p]] = None]
    /\ Fails(p)
    /\ UNCHANGED <<kept, link, receipt, cuts, passed>>

\* MUTANT of GateHolds: a gate that is not waited for.
GateHoldsAlways(p) == active[at[p]] # None

\* The health check is asked of whatever the service runs by now.
GateHolds(p) == Answers(at[p])

\* MUTANT of ReceiptOf: the receipt names the rollback candidate.
ReceiptOfPrevious(p) == [
    server |-> at[p],
    release |-> IF previous[p] = None THEN target[p] ELSE previous[p],
    previousRelease |-> previous[p]]

ReceiptOf(p) == [
    server |-> at[p], release |-> target[p], previousRelease |-> previous[p]]

\* The gate holds; a deploy leaves its receipt, one file for all servers.
GatePasses(p) ==
    /\ Standing(p, "restarted")
    /\ GateHolds(p)
    /\ passed' = passed \cup {<<at[p], active[at[p]]>>}
    /\ receipt' = IF play[p] = "deploy" THEN ReceiptOf(p) ELSE receipt
    /\ MovesOn(p)
    /\ UNCHANGED <<kept, link, active, cuts>>

\* The gate holds and the receipt cannot be written, which is no part of the
\* block: the play ends, and no rescue runs.
ReceiptFails(p) ==
    /\ play[p] = "deploy"
    /\ Standing(p, "restarted")
    /\ GateHolds(p)
    /\ passed' = passed \cup {<<at[p], active[at[p]]>>}
    /\ PlayEnds(p)
    /\ UNCHANGED <<kept, link, active, receipt, cuts>>

\* No attempt was answered in time, as may happen to a sound release too.
GateFails(p) ==
    /\ Standing(p, "restarted")
    /\ Fails(p)
    /\ UNCHANGED <<kept, link, active, receipt, cuts, passed>>

\* MUTANT of Candidate: the link is read again once it was switched.
CandidateNow(p) == link[at[p]]

Candidate(p) == previous[p]

\* rescue: the link goes back to the candidate, if there is one.
RestoreLink(p) ==
    /\ Standing(p, "failed")
    /\ previous[p] # None
    /\ link' = [link EXCEPT ![at[p]] = Candidate(p)]
    /\ GoesOn(p, "restored")
    /\ UNCHANGED <<kept, active, receipt, previous, cuts, passed>>

\* The restored release is restarted, and nobody asks for its health.
RestartRestored(p) ==
    /\ Standing(p, "restored")
    /\ active' = [active EXCEPT ![at[p]] = link[at[p]]]
    /\ PlayEnds(p)
    /\ UNCHANGED <<kept, link, receipt, cuts, passed>>

\* MUTANT of StopFirst: the next server gets its turn.
StopFirstMovesOn(p) ==
    /\ Standing(p, "failed")
    /\ previous[p] = None
    /\ active' = [active EXCEPT ![at[p]] = None]
    /\ MovesOn(p)
    /\ UNCHANGED <<kept, link, receipt, cuts, passed>>

\* A first release is stopped; the link still names it.
StopFirst(p) ==
    /\ Standing(p, "failed")
    /\ previous[p] = None
    /\ active' = [active EXCEPT ![at[p]] = None]
    /\ PlayEnds(p)
    /\ UNCHANGED <<kept, link, receipt, cuts, passed>>

\* A task of the rescue fails as well.
RescueFails(p) ==
    /\ \/ Standing(p, "failed") /\ UNCHANGED active
       \/ /\ Standing(p, "restored")
          /\ active' = [active EXCEPT ![at[p]] = None]
    /\ PlayEnds(p)
    /\ UNCHANGED <<kept, link, receipt, cuts, passed>>

\* The play is killed, or its server cannot be reached: no rescue runs.
CutOff(p) ==
    /\ cuts < MaxCuts
    /\ cuts' = cuts + 1
    /\ play[p] # "none"
    /\ DirectoryLeft(p)
    /\ PlayEnds(p)
    /\ UNCHANGED <<link, active, receipt, passed>>

\* The unit is enabled and restarts on failure: a crash or a boot starts what
\* the link names by then, a stopped first release included.
Boots(s) ==
    /\ link[s] # None
    /\ active' = [active EXCEPT ![s] = link[s]]
    /\ UNCHANGED <<kept, link, receipt, playVars, cuts, passed>>

-----------------------------------------------------------------------------
PlayStep(p) ==
    \/ \E r \in Release : Begin(p, "deploy", r) \/ Begin(p, "rollback", r)
    \/ Begin(p, "restart", None)
    \/ Unpack(p)
    \/ Inspect(p)
    \/ TaskFails(p)
    \/ Switch(p)
    \/ SwitchFails(p)
    \/ Restart(p)
    \/ RestartFails(p)
    \/ GatePasses(p)
    \/ ReceiptFails(p)
    \/ GateFails(p)
    \/ RestoreLink(p)
    \/ RestartRestored(p)
    \/ StopFirst(p)
    \/ RescueFails(p)
    \/ CutOff(p)

Next == (\E p \in Player : PlayStep(p)) \/ \E s \in Server : Boots(s)

Spec == Init /\ [][Next]_vars

-----------------------------------------------------------------------------
(* What holds when one controller at a time runs plays.                    *)

\* A play leaves only servers behind that answer: whatever is deployed, rolled
\* back to, cut off, crashed or rebooted, a release that does not answer never
\* gets past the server it failed on (serial and any_errors_fatal), and a play
\* that has come to a server has its release on all servers before it.
OneServerAtRisk ==
    \A p \in Player : play[p] # "none" =>
        \A s \in Server : s < at[p] =>
            /\ Answers(s)
            /\ play[p] # "restart" => link[s] = target[p] /\ active[s] = target[p]

\* A release that never answers is active on the first server at most, in any
\* sequence of plays.
UnsoundStaysOnFirst ==
    \A s \in Server \ {1} : link[s] \in Sound \cup {None} /\ active[s] \in Sound \cup {None}

\* The receipt tells of a release that passed its gate on the server it names
\* ("healthCheckPassed": true).
ReceiptIsEarned ==
    receipt # None => <<receipt.server, receipt.release>> \in passed

\* When deploy() reports a healthy release, every declared server runs it and
\* the receipt names it.
DeployMeansEverywhere == [][
    \A p \in Player :
        play[p] = "deploy" /\ at[p] = Servers /\ GatePasses(p) =>
            /\ \A s \in Server : active'[s] = target[p] /\ link'[s] = target[p]
            /\ receipt'.release = target[p]]_vars

\* A deployment that fails its gate and completes its rescue leaves the server
\* with the link it found there, and running what that names.
FailureRestores == [][
    \A p \in Player : RestartRestored(p) =>
        link'[at[p]] = found[p] /\ active'[at[p]] = found[p]]_vars
=============================================================================
