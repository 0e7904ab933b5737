---------------------------- MODULE MCEvidence ----------------------------
(* One payout of one batch: an edge message, an intent message, one or two *)
(* settlement messages and a batch summary, in the orders the topics can   *)
(* hold them.                                                              *)
EXTENDS Evidence

CONSTANTS E1, E2, C1, S1, S2, B1, w1, w2, k1

SixEvents == {E1, E2, C1, S1, S2, B1}
MCFrom == (E1 :> "edge") @@ (E2 :> "edge") @@ (C1 :> "intent") @@ (S1 :> "outcome") @@ (S2 :> "outcome")
          @@ (B1 :> "batch")
MCLeaves == (E1 :> <<"envelope_hash">>) @@ (E2 :> <<"envelope_hash", "file_hash">>) @@ (C1 :> <<"canonical_intent">>)
            @@ (S1 :> <<"settlement">>) @@ (S2 :> <<"settlement">>)
            @@ (B1 :> <<"file_hash", "batch_summary">>)
IntentTypes == {"envelope_hash", "canonical_intent", "settlement"}
BatchTypes == {"file_hash", "batch_summary"}

Topics(edge, intent, outcome) == ("edge" :> edge) @@ ("intent" :> intent) @@ ("outcome" :> outcome)

PayoutLog == Topics(<<E1>>, <<C1>>, <<S1>>)
CorrectedLog == Topics(<<E1>>, <<C1>>, <<S1, S2>>)
BatchLog == Topics(<<E2>>, <<C1>>, <<B1>>)
RedeliveredLog == Topics(<<E1, E1>>, <<C1>>, <<S1>>)
IntentLog == Topics(<<>>, <<C1>>, <<>>)

World(log, workers, clients, drafts, maxFaults) ==
    [log |-> log, workers |-> workers, clients |-> clients, drafts |-> drafts, faults |-> maxFaults]

AllWorlds == {World(PayoutLog, {w1, w2}, {}, 0, 1), World(PayoutLog, {w1}, {k1}, 1, 1),
              World(IntentLog, {}, {k1}, 2, 2), World(RedeliveredLog, {w1}, {}, 0, 1),
              World(CorrectedLog, {w1}, {}, 0, 1), World(BatchLog, {w1}, {}, 0, 1)}

TwoWorkers == {w1, w2}
OneClient == {k1}
===========================================================================
