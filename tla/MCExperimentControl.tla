------------------------ MODULE MCExperimentControl ------------------------
(* Instances of ExperimentControl: the master's own slave and another one. *)
EXTENDS ExperimentControl

CONSTANTS own, other

MCSlaves == {own, other}
MCMaster == own
MCNobody == {}
MCJustMaster == {own}
MCOther == {other}
=============================================================================
