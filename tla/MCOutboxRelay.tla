--------------------------- MODULE MCOutboxRelay ---------------------------
(* Instances of OutboxRelay for TLC: a good event and events that fail.    *)
EXTENDS OutboxRelay, TLC

CONSTANTS e1, eu, ei, et, ep, w1, w2, o1, o2, l1, l2, l3

Nobody == {}
UnroutedEvent == {eu}
InvalidEvent == {ei}
TamperedEvent == {et}
PoisonEvent == {ep}
GoodAndPoison == {e1, ep}
Refused == {eu, ei, et}
OneWorker == {w1}
TwoWorkers == {w1, w2}
TwoOperators == {o1, o2}
ThreeLeases == {l1, l2, l3}
Symmetry ==
    Permutations(ThreeLeases) \cup Permutations(TwoWorkers) \cup Permutations(TwoOperators)
=============================================================================
