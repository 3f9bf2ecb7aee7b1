---------------------------- MODULE MCDecisions ----------------------------
(* Small catalogs and crews for TLC.                                       *)
EXTENDS Decisions

\* One gated operation called with two inputs, and one read.
CONSTANTS Deploy, Facts, DeployOld, DeployNew, ReadFacts

MCOperation == {Deploy, Facts}
MCCall == {DeployOld, DeployNew, ReadFacts}
MCOperationOf ==
    [c \in MCCall |-> IF c = ReadFacts THEN Facts ELSE Deploy]
MCRisk == [o \in Operation |-> IF o = Facts THEN "read" ELSE "mutating"]
MCHasVerify == [o \in Operation |-> o = Deploy]

\* A catalog of one call.
MCOneOperation == {Deploy}
MCOneCall == {DeployOld}
MCOneOperationOf == [c \in MCOneCall |-> Deploy]
=============================================================================
