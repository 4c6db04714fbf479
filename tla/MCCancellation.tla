--------------------------- MODULE MCCancellation ---------------------------
(***************************************************************************)
(* Cancellation for TLC: two workers let a lease pass on while the first   *)
(* still runs; four attempts leave room for an attempted cancel, the       *)
(* reconciliation after it, the granted retry and one delivery more.       *)
(***************************************************************************)
EXTENDS Cancellation, TLC

MCJobs == 1..1
MCSymmetry == Permutations(Workers)
=============================================================================
