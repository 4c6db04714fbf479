---------------------------- MODULE MCAssessment ----------------------------
(* A small instance of Assessment. *)
EXTENDS Assessment

MCJobs == {<<"assess", v>> : v \in 0..MaxVersion} \cup {<<"approve", 0>>}
=============================================================================
