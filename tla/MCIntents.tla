----------------------------- MODULE MCIntents -----------------------------
(***************************************************************************)
(* Small instances of Intents: two partitions, four payouts, of which the  *)
(* first two are one payment sent twice.                                   *)
(***************************************************************************)
EXTENDS Intents

MCEvents == {"pay", "again", "other", "large", "bad", "policy", "invalid", "late", "broken", "hook"}

Sound == [verdict |-> "sound", key |-> "k1", ref |-> "r1", payee |-> "p", amount |-> 2,
          batch |-> FALSE, quality |-> "clear"]
Checked(v) == [Sound EXCEPT !.verdict = v, !.key = v, !.ref = v]

MCAbout ==
    [e \in MCEvents |->
        CASE e = "pay" -> Sound
          [] e = "again" -> [Sound EXCEPT !.key = "k2"]
          [] e = "other" -> [Sound EXCEPT !.key = "k3", !.ref = None, !.batch = TRUE]
          [] e = "large" -> [Sound EXCEPT !.key = "k4", !.ref = None, !.batch = TRUE,
                                          !.quality = "oversized"]
          [] e = "bad" -> [Checked("rejected") EXCEPT !.batch = TRUE]
          [] e = "policy" -> [Checked("policy") EXCEPT !.batch = TRUE]
          [] e = "invalid" -> Checked("invalid")
          [] e = "late" -> Checked("timed")
          [] e = "broken" -> Checked("malformed")
          [] e = "hook" -> Checked("webhook")]

World(left, right, clients, n) ==
    [log |-> [p1 |-> left, p2 |-> right], clients |-> clients, faults |-> n]

(* The same payment on both partitions; the same event twice, as a         *)
(* rebalance delivers it; one event and two faults; the rows of a file;    *)
(* what is rejected; a held intent and two approvals.                      *)
MCWorlds ==
    { World(<<"pay">>, <<"again">>, {}, 1),
      World(<<"pay">>, <<"pay">>, {}, 1),
      World(<<"pay">>, <<>>, {}, 2),
      World(<<"other">>, <<"large">>, {}, 1),
      World(<<"bad">>, <<"policy">>, {}, 1),
      World(<<"invalid", "late">>, <<"broken">>, {}, 2),
      World(<<"large">>, <<>>, {"c1", "c2"}, 2),
      World(<<"hook">>, <<"large">>, {"c1", "c2"}, 1) }
=============================================================================
