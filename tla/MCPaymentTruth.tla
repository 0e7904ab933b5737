--------------------------- MODULE MCPaymentTruth ---------------------------
(* Instances of PaymentTruth for TLC.                                      *)
EXTENDS PaymentTruth, TLC

CONSTANTS p1, p2, h1, h2, h3, h4, r1, r2

OnePayment == {p1}
TwoPayments == {p1, p2}
TwoRunners == {r1, r2}
BothSources == {"webhook", "api_backfill"}
FourHashes == {h1, h2, h3, h4}

Obs(p, source, h, s) == [payment |-> p, source |-> source, hash |-> h, status |-> s]

(* Webhooks out of order for p1, which is captured, then refunded in       *)
(* two parts; a page of the API that repeats one of them and shows p2.     *)
Authorized == Obs(p1, "webhook", h1, "authorized")
Captured == Obs(p1, "webhook", h2, "captured")
PartlyRefunded == Obs(p1, "api_backfill", h3, "partially_refunded")
RefundedAgain == Obs(p1, "api_backfill", h4, "partially_refunded")
CapturedByApi == Obs(p1, "api_backfill", h2, "captured")
Failed == Obs(p2, "webhook", h1, "failed")
Retried == Obs(p2, "api_backfill", h2, "captured")

AllObservations == {Authorized, Captured, PartlyRefunded, RefundedAgain,
                    CapturedByApi, Failed, Retried}
WebhooksAndPages ==
    {{Authorized}, {Captured}, {Failed}, {CapturedByApi, Retried}, {PartlyRefunded, RefundedAgain}}

TwoWebhooks == {Authorized, Captured}
OneByOne == {{Authorized}, {Captured}}

Symmetry == Permutations(TwoRunners)
=============================================================================
