---------------------------- MODULE MCIntelActions ---------------------------
(* Instances of IntelActions for TLC: a policy that needs approval, or a   *)
(* payout that becomes overdue.                                            *)
EXTENDS IntelActions

CONSTANTS p1, t1, f1, i1, x1, o1, o2, w1, w2

OnePolicy == {p1}
OneTrigger == {t1}
OneFact == {f1}
OneIntent == {i1}
OneEvaluator == {x1}
TwoOperators == {o1, o2}
TwoInstances == {w1, w2}

(* The payouts and the policies meet in the outbox only, row by row.       *)
TwoWorlds == {[policies |-> OnePolicy, intents |-> {}], [policies |-> {}, intents |-> OneIntent]}
=============================================================================
