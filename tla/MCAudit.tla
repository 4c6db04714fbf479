------------------------------- MODULE MCAudit -------------------------------
(* Two writers and a verifier on one case; a verification is limited to two *)
(* entries, which it reads one by one.                                      *)
EXTENDS Audit
=============================================================================
