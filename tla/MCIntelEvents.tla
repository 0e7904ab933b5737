---------------------------- MODULE MCIntelEvents ----------------------------
(* Instances of IntelEvents for TLC.                                       *)
EXTENDS IntelEvents

CONSTANTS b1, b2, ta, tb, e1, e2, h1, h2, c1, r1, r2

TwoBatches == {b1, b2}
TwoDays == {"mon", "tue"}
TwoTopics == {ta, tb}
TwoEvents == {e1, e2}
TwoHashes == {h1, h2}
OneCertificate == {c1}
TwoReaders == {r1, r2}

Body(kind, batch, day, amount, type, flags) ==
    [kind |-> kind, batch |-> batch, day |-> day, amount |-> amount,
     type |-> type, flags |-> flags]

(* One event of every kind and the variants its handler tells apart, in    *)
(* pairs that meet in the same rows.                                       *)
Pairs == {
    <<Body("IntentCreated", b1, "mon", 3, "", {"duplicateRisk", "noClientRef", "scored"}),
      Body("SettlementCreated", NoBatch, "mon", 2, "SETTLED", {"unready", "mapped"})>>,
    <<Body("IntentCreated", NoBatch, "mon", 0, "", {}),
      Body("FinalityCertIssued", NoBatch, "mon", 0, "SETTLED", {"providerRef"})>>,
    <<Body("AttachmentDecision", b1, "mon", 2, "MATCH_UNRESOLVED", {"noCarriers", "lowConfidence"}),
      Body("VarianceRecord", b1, "tue", 1, "UNDER_SETTLEMENT", {"gap", "delayed", "noBankRef"})>>,
    <<Body("AttachmentDecision", NoBatch, "tue", 2, "MATCH_AMBIGUOUS", {"collision", "anonymous"}),
      Body("VarianceRecord", NoBatch, "mon", 3, "REVERSAL", {"crossPeriod"})>>,
    <<Body("AttachmentDecision", b2, "mon", 1, "MATCH_DUPLICATE", {}),
      Body("VarianceRecord", b2, "mon", 2, "OVER_SETTLEMENT", {})>>,
    <<Body("VarianceRecord", b1, "mon", 2, "VALUE_DATE_MISMATCH", {"whitelisted"}),
      Body("EvidencePackReady", b1, "tue", 0, "", {"settlementLeaf", "requiredLeaves"})>>,
    <<Body("GovernanceDecision", b1, "mon", 0, "APPROVED", {"kyc", "aml"}),
      Body("BatchSummaryUpdated", b1, "mon", 4, "", {})>>,
    <<Body("DispatchCreated", NoBatch, "mon", 0, "", {"retry"}),
      Body("OutcomeNormalized", NoBatch, "mon", 0, "FAILED", {"reason"})>>,
    <<Body("DLQItem", b1, "mon", 2, "", {}),
      Body("StatementMatch", NoBatch, "mon", 0, "MATCHED", {})>>,
    <<Body("DLQEvent", NoBatch, "mon", 0, "", {}),
      Body("FinalContractUpdated", NoBatch, "mon", 0, "", {})>> }

AllBodies == UNION {{p[1], p[2]} : p \in Pairs}

Intent == Body("IntentCreated", b1, "mon", 3, "", {})
Finality == Body("FinalityCertIssued", NoBatch, "mon", 0, "FAILED", {})
FewBodies == AllBodies \cup {Intent, Finality}

M(e, h, gate, ids, cert, body) ==
    [event |-> e, hash |-> h, gate |-> gate, ids |-> ids, cert |-> cert, body |-> body]

Fine(e, body) == M(e, h1, "ok", TRUE, NoCertificate, body)

Topic2(a, b) == [t \in TwoTopics |-> IF t = ta THEN a ELSE b]

(* Two events on two topics; an event published twice; the same id with    *)
(* another payload, on one topic and on two; two certificates that are the *)
(* same one; messages the envelope check or the handler refuses.           *)
AllLogs ==
    {Topic2(<<Fine(e1, p[1])>>, <<Fine(e2, p[2])>>) : p \in Pairs}
    \cup {Topic2(<<Fine(e1, Intent), Fine(e1, Intent)>>, <<>>),
          Topic2(<<Fine(e1, Intent), M(e1, h2, "ok", TRUE, NoCertificate, Intent)>>, <<>>),
          Topic2(<<Fine(e1, Intent)>>, <<M(e1, h2, "ok", TRUE, NoCertificate, Finality)>>),
          Topic2(<<M(e1, h1, "ok", TRUE, c1, Finality), M(e2, h1, "ok", TRUE, c1, Finality)>>, <<>>),
          Topic2(<<M(e1, h1, "missingField", TRUE, NoCertificate, Intent), Fine(e2, Intent)>>,
                 <<M(e1, h1, "ok", FALSE, NoCertificate, Intent)>>)}
=============================================================================
