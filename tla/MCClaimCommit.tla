--------------------------- MODULE MCClaimCommit ---------------------------
(* Two workers and four messages; the channels are smaller than in the     *)
(* code so that both of them fill up.                                      *)
EXTENDS ClaimCommit, TLC

CONSTANTS w1, w2

MCWorkers == {w1, w2}
WorkerSymmetry == Permutations(MCWorkers)
=============================================================================
