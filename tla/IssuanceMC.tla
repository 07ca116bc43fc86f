----------------------------- MODULE IssuanceMC -----------------------------
(* Values for Issuance's constants that a configuration cannot write.      *)
EXTENDS Issuance

CONSTANT daemon

OneProc == {daemon}
=============================================================================
