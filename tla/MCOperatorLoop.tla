--------------------------- MODULE MCOperatorLoop ---------------------------
(* One kind of operation and the triggers that call for it: an alert, a     *)
(* drifted server and, in one run, an alert of a service nobody declared.   *)
EXTENDS OperatorLoop

CONSTANTS Converge

MCKindOf == [f \in Fingerprint |-> Converge]
MCRequired == [k \in {Converge} |-> 1]
=============================================================================
