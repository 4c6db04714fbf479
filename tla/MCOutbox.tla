------------------------------ MODULE MCOutbox ------------------------------
(***************************************************************************)
(* Outbox for TLC: two workers are enough for a lease to pass from one to  *)
(* another while the first still runs; two jobs make a batch whose second  *)
(* command waits for the first; three attempts allow a retry, a reclaim    *)
(* and the exhausted claim after them.                                     *)
(***************************************************************************)
EXTENDS Outbox

MCJobs == 1..2
=============================================================================
