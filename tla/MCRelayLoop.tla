---------------------------- MODULE MCRelayLoop ----------------------------
(* Two events of one dispatch, one of another; the middle one is poison.   *)
EXTENDS RelayLoop, TLC

CONSTANTS w1, w2

TwoWorkers == {w1, w2}
TwoDispatches == <<"d1", "d2", "d1">>
PoisonEvent == {2}
=============================================================================
