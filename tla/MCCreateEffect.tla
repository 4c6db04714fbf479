--------------------------- MODULE MCCreateEffect ---------------------------
(***************************************************************************)
(* CreateEffect for TLC.  Cases share nothing but the workers, and a lease *)
(* may run out at any step, so one case shows every interleaving of its    *)
(* deliveries; two workers let an old delivery run beside a new one; three *)
(* attempts allow create, reconcile and retry to follow one another.       *)
(***************************************************************************)
EXTENDS CreateEffect

MCJobs == {1}
=============================================================================
