----------------------------- MODULE MCDispatch -----------------------------
(* Instances of Dispatch for TLC.  The bounds on faults, crashes and       *)
(* deliveries are chosen per run in the configurations.                    *)
EXTENDS Dispatch, TLC

CONSTANTS i1, i2, c1, c2, c3

OneInstance == {i1}
TwoInstances == {i1, i2}
OneRelay == OneInstance \X Roles
TwoKafkaWorkers == OneRelay \cup {<<i2, "kafka">>}
OneContract == {c1}
ThreeContracts == {c1, c2, c3}
NoContracts == {}
TamperedContract == {c2}
UnroutedContract == {c3}
=============================================================================
