--------------------------- MODULE DecisionLedger ---------------------------
(***************************************************************************)
(* What the decision record promises, with nothing said of files, copies   *)
(* or processes: every id names at most one decision, which opens at most  *)
(* once, and the fleet is only ever touched by a decision that was opened  *)
(* against live check output.                                              *)
(***************************************************************************)
CONSTANT Id

VARIABLES
    phase,   \* where the decision each id names stands
    touched  \* the ids some run on the fleet was made for

vars == <<phase, touched>>

\* "replayed": open, but its check output was played back from a recording.
Phase == {"none", "open", "replayed", "ran", "closed", "dropped"}

TypeOK ==
    /\ phase \in [Id -> Phase]
    /\ touched \in SUBSET Id

\* Records kept by an earlier version may be open already.
Init ==
    /\ phase \in [Id -> {"none", "open"}]
    /\ touched = {}

Move(id, from, to) ==
    /\ phase[id] \in from
    /\ phase' = [phase EXCEPT ![id] = to]
    /\ UNCHANGED touched

\* A check of a gated operation opens a decision; a read is over at once.
Open(id)   == Move(id, {"none"}, "open")
Replay(id) == Move(id, {"none"}, "replayed")
Read(id)   == Move(id, {"none"}, "ran")

\* An approved run, or a newer proposal, closes a decision that was opened
\* live; only a newer proposal closes one that was played back.
Close(id)  == Move(id, {"open", "closed"}, "closed")
Drop(id)   == Move(id, {"replayed", "dropped"}, "dropped")

\* The fleet runs a decision that was opened live, never anything else.
Run(id) ==
    /\ phase[id] \in {"open", "closed"}
    /\ touched' = touched \cup {id}
    /\ UNCHANGED phase

Next == \E id \in Id :
    Open(id) \/ Replay(id) \/ Read(id) \/ Close(id) \/ Drop(id) \/ Run(id)

Spec == Init /\ [][Next]_vars
=============================================================================
