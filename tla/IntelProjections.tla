------------------------- MODULE IntelProjections -------------------------
(***************************************************************************)
(* What an event adds to the projections of the intelligence service       *)
(* (backend/intel/internal/services/projection_service.go and the Atomic*  *)
(* statements of internal/persistence).                                    *)
(*                                                                         *)
(* A projection is a counter: a row (the tenant's row of a day, a batch's  *)
(* lifetime row, the batch contract, a corridor, a source, ...) and a      *)
(* field of its value_json.  A handler is the set of writes its            *)
(* transaction makes.  The statements of one transaction take the batch's  *)
(* advisory lock or the tenant's row of the day before anything is read,   *)
(* so their effect is that of one step at the commit.                      *)
(*                                                                         *)
(* Left out: rates and averages, recomputed from the counters of the same  *)
(* row; sums of scores (their counts are kept); percentile samples; the    *)
(* fragments of the root cause analysis.                                   *)
(***************************************************************************)
EXTENDS Integers, FiniteSets

CONSTANTS
    Batches, NoBatch,   \* client batches; an event may name none
    Unbatched,          \* the __unbatched__ bucket
    Days,               \* daily windows of the tenant's rows
    GradeB,             \* IntelligenceMode: full finality mode
    Bodies              \* the events, as far as the handlers look at them

ASSUME BatchAssumption == NoBatch \notin Batches /\ Unbatched \notin Batches

(* An event names its day, a batch or none, and an amount that is never    *)
(* negative; the summary of a batch names the batch, for the handler drops *)
(* one that does not.                                                      *)
ASSUME BodyAssumption ==
    \A e \in Bodies :
        /\ e.day \in Days /\ e.amount \in Nat /\ e.batch \in Batches \cup {NoBatch}
        /\ e.kind = "BatchSummaryUpdated" => e.batch \in Batches
        /\ e.kind \in {"IntentCreated", "DispatchCreated", "OutcomeNormalized",
                       "FinalityCertIssued", "FinalContractUpdated", "StatementMatch",
                       "EvidencePackReady", "DLQItem", "DLQEvent", "SettlementCreated",
                       "AttachmentDecision", "VarianceRecord", "BatchSummaryUpdated",
                       "GovernanceDecision"}

(* The row a projection lives in: its kind and its key.                    *)
Row == ({"tenant", "corridor", "kpi", "source", "provider", "bank"} \X Days)
       \cup ({"batch"} \X (Batches \cup {Unbatched}))
       \cup ({"contract", "health", "density"} \X Batches)

Bit(b) == IF b THEN 1 ELSE 0

When(b, W) == IF b THEN W ELSE {}

(* A write: row, field, how, and by how much.                              *)
Add(row, F) == {<<<<row, f>>, "add", F[f]>> : f \in DOMAIN F}

Put(row, F) == {<<<<row, f>>, "set", F[f]>> : f \in DOMAIN F}

(* A fault: an event without a batch keeps the empty batch id, and its     *)
(* batch row is none the consistency check reads.                          *)
resolveBatchScopeEmpty(b) == b

resolveBatchScope(b) == IF b = NoBatch THEN Unbatched ELSE b

(* The *BothScopes methods: the tenant's row of the day and the batch's    *)
(* lifetime row, in one transaction.                                       *)
BothScopes(e, F) ==
    LET b == resolveBatchScope(e.batch) IN
    Add(<<"tenant", e.day>>, F)
    \cup When(b \in Batches \cup {Unbatched}, Add(<<"batch", b>>, F))

(* A row of the event's day.                                               *)
Daily(kind, e, F) == Add(<<kind, e.day>>, F)

Contract(e, F) == When(e.batch # NoBatch, Add(<<"contract", e.batch>>, F))

-----------------------------------------------------------------------------
(* The leakage family.                                                     *)

AtomicIncrementLeakageIntendedTotalBothScopes(e) ==
    BothScopes(e, [total_intended |-> e.amount])

AtomicRecordLeakageBothScopes(e, leakageType) ==
    BothScopes(e, IF leakageType = "UNMATCHED_INTENT"
                  THEN [unmatched |-> e.amount, unmatched_count |-> 1]
                  ELSE [orphan |-> e.amount, orphan_count |-> 1])

AtomicRecordVarianceBothScopes(e) ==
    BothScopes(e,
        IF "whitelisted" \in e.flags THEN [total_intended |-> 0]
        ELSE IF e.type = "REVERSAL" THEN [reversal |-> e.amount, reversal_count |-> 1]
        ELSE [under |-> e.amount, under_count |-> 1])

AtomicIncrementSettledVolumeBothScopes(e) ==
    BothScopes(e, [observed_settled |-> e.amount])

AtomicIncrementLeakageDuplicateRiskBothScopes(e) ==
    BothScopes(e, [duplicate_risk |-> e.amount, duplicate_risk_count |-> 1])

AtomicIncrementLeakageConfirmedDuplicateBothScopes(e) ==
    BothScopes(e, [confirmed_duplicate |-> e.amount, confirmed_duplicate_count |-> 1])

AtomicIncrementValueDateMismatchBothScopes(e) ==
    BothScopes(e, [value_date_mismatch |-> 1])

AtomicRecordOverSettlementBothScopes(e) ==
    BothScopes(e, [over |-> e.amount, over_count |-> 1])

AtomicRecordWhitelistedDeduction(e) ==
    Daily("kpi", e, [whitelisted_deduction |-> e.amount])

(* The ambiguity family.                                                   *)

isLowConfidence(e) == "lowConfidence" \in e.flags
hasCollision(e) == "collision" \in e.flags

(* No ambiguity, a single candidate, and the settled amount is intended.   *)
isSuccessfulDecision(e) == "clean" \in e.flags /\ ~hasCollision(e)

AtomicRecordAttachmentDecisionBothScopes(e) ==
    LET ambiguous == e.type = "MATCH_AMBIGUOUS" IN
    BothScopes(e,
        [ambiguous_count   |-> Bit(ambiguous),
         ambiguous_amount  |-> IF ambiguous THEN e.amount ELSE 0,
         value_at_risk     |-> IF ambiguous THEN e.amount ELSE 0,
         unresolved_count  |-> Bit(e.type = "MATCH_UNRESOLVED"),
         confidence_count  |-> 1,
         no_carriers_count |-> Bit("noCarriers" \in e.flags),
         low_confidence    |-> Bit(isLowConfidence(e)),
         collision_count   |-> Bit(hasCollision(e)),
         total_decisions   |-> 1,
         successful        |-> Bit(isSuccessfulDecision(e))])

AtomicRecordCarrierCompleteness(e) ==
    Daily("kpi", e, [total_carrier_records |-> 1,
                           carrier_complete |-> Bit("richCarrier" \in e.flags)])

(* The defensibility family.                                               *)

AtomicRecordGovernanceCoverageBothScopes(e) ==
    BothScopes(e,
        [with_governance_decision |-> 1,
         with_replay_equivalence  |-> Bit("replayEquivalent" \in e.flags),
         with_kyc_checked         |-> Bit("kyc" \in e.flags),
         with_aml_checked         |-> Bit("aml" \in e.flags),
         governance_approved      |-> Bit(e.type = "APPROVED"),
         governance_rejected      |-> Bit(e.type = "REJECTED"),
         governance_escalated     |-> Bit(e.type = "ESCALATED")])

AtomicIncrementDefensibilityIntentBothScopes(e) ==
    BothScopes(e, [total_intents |-> 1])

AtomicIncrementDefensibilityEvidencePackBothScopes(e) ==
    BothScopes(e, [with_evidence_pack |-> 1])

AtomicRecordEvidencePackQualityBothScopes(e) ==
    BothScopes(e, [pack_completeness_count |-> 1,
                   with_settlement_leaf |-> Bit("settlementLeaf" \in e.flags),
                   with_attachment_leaf |-> Bit("attachmentLeaf" \in e.flags)])

AtomicIncrementDefensibilityWeakEvidenceBothScopes(e) ==
    BothScopes(e, [weak_evidence |-> 1])

AtomicRecordDefensibilityIntentQualityBothScopes(e) ==
    BothScopes(e, [intent_quality_count |-> 1])

AtomicRecordDefensibilityMappingConfidenceBothScopes(e) ==
    BothScopes(e, [mapping_confidence_count |-> 1])

AtomicRecordEvidenceLeafCoverage(e) ==
    Daily("kpi", e, [total_required_leaf_count |-> 1])

(* Reliability, patterns and quality: one row each.                        *)

AtomicIncrementPending(e) == Daily("corridor", e, [pending |-> 1])

AtomicDecrementPending(e) == Daily("corridor", e, [pending |-> -1])

AtomicIncrementSuccess(e) ==
    Daily("corridor", e, [settled_count |-> 1, total_count |-> 1])

AtomicIncrementFailure(e) ==
    Daily("corridor", e, [total_count |-> 1])

AtomicRecordLatencySample(e) == Daily("corridor", e, [latency_samples |-> 1])

AtomicRecordProviderRef(e) ==
    Daily("corridor", e,
        [ref_finalized |-> 1, with_ref |-> Bit("providerRef" \in e.flags),
         missing_ref |-> Bit("providerRef" \notin e.flags)])

AtomicRecordFusionConflict(e) ==
    Daily("corridor", e,
        [fusion_finalized |-> 1, with_conflicts |-> Bit("conflict" \in e.flags)])

AtomicIncrementRetryRecovered(e) == Daily("corridor", e, [recovered |-> 1])

AtomicIncrementRetryAttempt(e) ==
    Daily("corridor", e, [retry_attempts |-> 1, total_attempts |-> 1])

AtomicIncrementFirstAttempt(e) ==
    Daily("corridor", e, [total_attempts |-> 1])

AtomicIncrementFailureReason(e) == Daily("corridor", e, [total_fails |-> 1])

AtomicRecordStatementMatch(e) ==
    Daily("corridor", e,
        [total_settled |-> 1, matched |-> Bit(e.type = "MATCHED"),
         unmatched_stmt |-> Bit(e.type # "MATCHED")])

AtomicIncrementSLAOnTime(e) ==
    Daily("kpi", e, [on_time |-> 1, total_processed |-> 1])

AtomicIncrementEvidence(e) ==
    Daily("kpi", e, [with_evidence |-> 1, total_settled |-> 1])

AtomicIncrementDLQ(e) == Daily("kpi", e, [dlq_count |-> 1])

AtomicIncrementCrossPeriod(e) == Daily("kpi", e, [cross_period |-> 1])

AtomicAppendPatternP6WithP50(e) == Daily("kpi", e, [delay_samples |-> 1])

AtomicIncrementPatternP2WithAmount(e) ==
    Daily("kpi", e,
        [p2_intents |-> 1,
         p2_duplicates |-> Bit("duplicateRisk" \in e.flags),
         p2_missing_ref |-> Bit("noClientRef" \in e.flags)])

AtomicUpsertSourceQuality(e) ==
    Daily("source", e,
        IF e.kind = "DLQItem"
        THEN [manual_review_count |-> 1, manual_review_amount |-> e.amount]
        ELSE [total_intents |-> 1, total_amount |-> e.amount,
              missing_client_ref |-> Bit("noClientRef" \in e.flags),
              duplicate_risk_count |-> Bit("duplicateRisk" \in e.flags),
              duplicate_risk |-> IF "duplicateRisk" \in e.flags THEN e.amount ELSE 0])

AtomicUpsertProviderQuality(e) ==
    Daily("provider", e,
        IF e.kind = "SettlementCreated"
        THEN [settlements |-> 1, settled_amount |-> e.amount,
              orphans |-> Bit("unready" \in e.flags /\ e.type = "SETTLED")]
        ELSE [decisions |-> 1, ambiguous |-> Bit(e.type = "MATCH_AMBIGUOUS"),
              unresolved |-> Bit(e.type = "MATCH_UNRESOLVED"),
              successful |-> Bit(isSuccessfulDecision(e))])

AtomicUpsertBankQuality(e) ==
    Daily("bank", e,
        [settlements |-> 1, missing_bank_ref |-> Bit("noBankRef" \in e.flags)])

AtomicRecordRCAQuality(e) == Daily("kpi", e, [rca_settlements |-> 1])

(* The event names the source, provider, bank or beneficiary it is about.  *)
Named(e) == "anonymous" \notin e.flags

AtomicUpsertBatchIntentDensity(e) ==
    When(e.batch # NoBatch, Add(<<"density", e.batch>>, [total |-> 1]))

(* The batch contract; the shadow tables repeat every statement.           *)

AtomicAddBatchDuplicateRiskExposure(e) == Contract(e, [duplicate_risk |-> e.amount])
AtomicIncrementBatchMissingRef(e) == Contract(e, [missing_ref_count |-> 1])
AtomicAddBatchOrphanAmount(e) == Contract(e, [orphan |-> e.amount])
AtomicAddBatchUnmatchedAmount(e) == Contract(e, [unmatched |-> e.amount])
AtomicAddBatchReversalExposure(e) == Contract(e, [reversal |-> e.amount])

AtomicAccumulateIntentFeatures(e) ==
    Contract(e, [intent_row_count |-> 1, intent_total |-> e.amount,
                 client_payout_ref_present |-> Bit("noClientRef" \notin e.flags)])

AtomicAddBatchVarianceBreakdown(e) ==
    Contract(e, [whitelisted_deduction |-> IF "whitelisted" \in e.flags THEN e.amount ELSE 0,
                 unexplained_variance |-> IF "whitelisted" \in e.flags THEN 0 ELSE e.amount,
                 under |-> IF "whitelisted" \in e.flags THEN 0 ELSE e.amount,
                 missing_ref_count |-> Bit("noBankRef" \in e.flags)])

AtomicAddBatchBankRefStats(e) ==
    Contract(e, [settlement_ref_count |-> 1,
                 bank_ref_present |-> Bit("noBankRef" \notin e.flags)])

AtomicAddBatchClientRefStats(e) ==
    Contract(e, [decision_ref_count |-> 1,
                 client_ref_present |-> Bit("noClientRef" \notin e.flags)])

AtomicUpdateBatchHealthFull(e) == Put(<<"health", e.batch>>, [total |-> e.amount])

UpsertBatchContract(e) == Put(<<"contract", e.batch>>, [total |-> e.amount])

-----------------------------------------------------------------------------
(* The handlers: the writes of one event's transaction.                    *)

HandleIntentCreated(e) ==
    When(e.amount > 0, AtomicIncrementLeakageIntendedTotalBothScopes(e))
    \cup AtomicIncrementPending(e)
    \cup When("duplicateRisk" \in e.flags /\ e.amount > 0,
              AtomicIncrementLeakageDuplicateRiskBothScopes(e)
              \cup AtomicAddBatchDuplicateRiskExposure(e))
    \cup When("noClientRef" \in e.flags, AtomicIncrementBatchMissingRef(e))
    \cup When(Named(e), AtomicUpsertBatchIntentDensity(e) \cup AtomicUpsertSourceQuality(e))
    \cup AtomicIncrementPatternP2WithAmount(e)
    \cup When(e.amount > 0, AtomicAccumulateIntentFeatures(e))
    \cup When("scored" \in e.flags, AtomicRecordDefensibilityIntentQualityBothScopes(e))

HandleDispatchCreated(e) ==
    When(GradeB, IF "retry" \in e.flags THEN AtomicIncrementRetryAttempt(e)
                                        ELSE AtomicIncrementFirstAttempt(e))

HandleOutcomeNormalized(e) ==
    When(e.type = "FAILED" /\ "reason" \in e.flags, AtomicIncrementFailureReason(e))

HandleFinalityCertIssued(e) ==
    When(GradeB,
         (IF e.type = "SETTLED" THEN AtomicIncrementSuccess(e) ELSE AtomicIncrementFailure(e))
         \cup AtomicRecordLatencySample(e)
         \cup AtomicDecrementPending(e)
         \cup AtomicRecordProviderRef(e)
         \cup AtomicRecordFusionConflict(e)
         \cup When(e.type = "SETTLED", AtomicIncrementRetryRecovered(e)))
    \cup AtomicIncrementSLAOnTime(e)

HandleFinalContractUpdated(e) == {}

HandleStatementMatch(e) == AtomicRecordStatementMatch(e)

HandleEvidencePackReady(e) ==
    AtomicIncrementEvidence(e)
    \cup AtomicIncrementDefensibilityEvidencePackBothScopes(e)
    \cup AtomicRecordEvidencePackQualityBothScopes(e)
    \cup When("requiredLeaves" \in e.flags, AtomicRecordEvidenceLeafCoverage(e))

HandleDLQItem(e) == When(Named(e), AtomicUpsertSourceQuality(e))

HandleDLQEvent(e) == AtomicIncrementDLQ(e)

(* Settled, but nothing in the settlement to attach it by.                 *)
isOrphanSettlement(e) == e.type = "SETTLED" /\ "unready" \in e.flags

HandleSettlementCreated(e) ==
    When(isOrphanSettlement(e),
         AtomicRecordLeakageBothScopes(e, "ORPHAN_SETTLEMENT")
         \cup When(e.amount > 0, AtomicAddBatchOrphanAmount(e)))
    \cup AtomicIncrementSettledVolumeBothScopes(e)
    \cup AtomicRecordCarrierCompleteness(e)
    \cup When(Named(e), AtomicRecordRCAQuality(e) \cup AtomicUpsertProviderQuality(e)
                       \cup AtomicUpsertBankQuality(e))
    \cup AtomicAddBatchBankRefStats(e)
    \cup When("mapped" \in e.flags, AtomicRecordDefensibilityMappingConfidenceBothScopes(e))

HandleAttachmentDecision(e) ==
    When(e.type = "MATCH_UNRESOLVED", AtomicRecordLeakageBothScopes(e, "UNMATCHED_INTENT"))
    \cup When(e.type \in {"MATCH_UNRESOLVED", "MATCH_AMBIGUOUS"} /\ e.amount > 0,
              AtomicAddBatchUnmatchedAmount(e))
    \cup When(e.type = "MATCH_DUPLICATE",
              AtomicIncrementLeakageConfirmedDuplicateBothScopes(e))
    \cup AtomicRecordAttachmentDecisionBothScopes(e)
    \cup When(Named(e), AtomicUpsertProviderQuality(e))
    \cup AtomicIncrementDefensibilityIntentBothScopes(e)
    \cup AtomicAddBatchClientRefStats(e)

(* The amount is the variance's absolute value; an over-settlement ends    *)
(* the transaction early.                                                  *)
HandleVarianceRecord(e) ==
    IF e.type = "OVER_SETTLEMENT" THEN AtomicRecordOverSettlementBothScopes(e)
    ELSE (IF e.type = "REVERSAL" THEN When(e.amount > 0, AtomicAddBatchReversalExposure(e))
                                 ELSE AtomicAddBatchVarianceBreakdown(e))
         \cup AtomicRecordVarianceBothScopes(e)
         \cup When(e.type = "VALUE_DATE_MISMATCH",
                   AtomicIncrementValueDateMismatchBothScopes(e))
         \cup When("gap" \in e.flags, AtomicIncrementDefensibilityWeakEvidenceBothScopes(e))
         \cup When("delayed" \in e.flags, AtomicAppendPatternP6WithP50(e))
         \cup When("crossPeriod" \in e.flags, AtomicIncrementCrossPeriod(e))
         \cup When("whitelisted" \in e.flags /\ e.amount > 0,
                   AtomicRecordWhitelistedDeduction(e))

HandleBatchSummaryUpdated(e) ==
    AtomicUpdateBatchHealthFull(e) \cup UpsertBatchContract(e)

HandleGovernanceDecision(e) == AtomicRecordGovernanceCoverageBothScopes(e)

Writes(e) ==
    CASE e.kind = "IntentCreated"        -> HandleIntentCreated(e)
      [] e.kind = "DispatchCreated"      -> HandleDispatchCreated(e)
      [] e.kind = "OutcomeNormalized"    -> HandleOutcomeNormalized(e)
      [] e.kind = "FinalityCertIssued"   -> HandleFinalityCertIssued(e)
      [] e.kind = "FinalContractUpdated" -> HandleFinalContractUpdated(e)
      [] e.kind = "StatementMatch"       -> HandleStatementMatch(e)
      [] e.kind = "EvidencePackReady"    -> HandleEvidencePackReady(e)
      [] e.kind = "DLQItem"              -> HandleDLQItem(e)
      [] e.kind = "DLQEvent"             -> HandleDLQEvent(e)
      [] e.kind = "SettlementCreated"    -> HandleSettlementCreated(e)
      [] e.kind = "AttachmentDecision"   -> HandleAttachmentDecision(e)
      [] e.kind = "VarianceRecord"       -> HandleVarianceRecord(e)
      [] e.kind = "BatchSummaryUpdated"  -> HandleBatchSummaryUpdated(e)
      [] e.kind = "GovernanceDecision"   -> HandleGovernanceDecision(e)

-----------------------------------------------------------------------------
(* Projections are a function from the counters written so far.            *)
Value(proj, k) == IF k \in DOMAIN proj THEN proj[k] ELSE 0

(* A fault: the counter is not cut off at zero.                            *)
UpsertUnclamped(proj, W) ==
    [k \in DOMAIN proj \cup {w[1] : w \in W} |->
        IF \E w \in W : w[1] = k
        THEN LET w == CHOOSE v \in W : v[1] = k IN
             IF w[2] = "set" THEN w[3] ELSE Value(proj, k) + w[3]
        ELSE proj[k]]

(* GREATEST(x, 0).                                                         *)
AtLeastZero(n) == IF n < 0 THEN 0 ELSE n

(* INSERT ... ON CONFLICT DO UPDATE, counter by counter.                   *)
Upsert(proj, W) ==
    [k \in DOMAIN proj \cup {w[1] : w \in W} |->
        IF \E w \in W : w[1] = k
        THEN LET w == CHOOSE v \in W : v[1] = k IN
             IF w[2] = "set" THEN w[3] ELSE AtLeastZero(Value(proj, k) + w[3])
        ELSE proj[k]]

(* The sum of the four leakage amounts of a row.                           *)
LeakageTotal(proj, row) ==
    Value(proj, <<row, "unmatched">>) + Value(proj, <<row, "under">>)
    + Value(proj, <<row, "orphan">>) + Value(proj, <<row, "reversal">>)

(* recomputeLeakageTotalsTx on the leakage rows the event wrote.           *)
recomputeLeakageTotals(proj, W) ==
    LET rows == {w[1][1] : w \in W}
        stale == {row \in rows : row[1] \in {"tenant", "batch"}}
    IN  [k \in DOMAIN proj \cup {<<row, "total">> : row \in stale} |->
            IF k[2] = "total" /\ k[1] \in stale THEN LeakageTotal(proj, k[1]) ELSE proj[k]]

(* What the rows of a kind have in field f, in single units: there are as  *)
(* many of them as the counters say together.                              *)
RowUnits(proj, kind, f) ==
    UNION {{<<k, n>> : n \in 1..proj[k]} : k \in {j \in DOMAIN proj : j[1][1] = kind /\ j[2] = f}}

EventWrites == [e \in Bodies |-> Writes(e)]

(* What the transaction of event e makes of the projections.               *)
Project(proj, e) ==
    recomputeLeakageTotals(Upsert(proj, EventWrites[e]), EventWrites[e])
=============================================================================
