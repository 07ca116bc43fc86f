---------------------------- MODULE FileInstallMC ----------------------------
(* Values for FileInstall's constants that a configuration cannot write.   *)
EXTENDS FileInstall

CONSTANTS p1, p2

OneProc == {p1}
TwoProcs == {p1, p2}
=============================================================================
