------------------------ MODULE MCRecoveryAggregate ------------------------
(***************************************************************************)
(* RecoveryAggregate for TLC: two proposals for the first decision share   *)
(* one action key but only one of them needs a review, and an internal     *)
(* decision competes with them; the version bound leaves room for an       *)
(* approved execution whose outcome is lost, found and then paid.          *)
(***************************************************************************)
EXTENDS RecoveryAggregate

MCProposals == {[id |-> 1, decision |-> 1, type |-> "CREATE", review |-> TRUE],
                [id |-> 2, decision |-> 1, type |-> "CREATE", review |-> FALSE],
                [id |-> 3, decision |-> 1, type |-> "STOP", review |-> FALSE]}
=============================================================================
