----------------------------- MODULE Destination -----------------------------
(***************************************************************************)
(* What an install destination promises to whoever operates the server     *)
(* that reads it, with no captures, temporary files, checks or restores:   *)
(* its files change from one issuance to another in one step, or not at    *)
(* all.  The installer may lose the right to promise it only by an event   *)
(* that leaves `trusted' FALSE: a crash after a write, a file that      *)
(* could not be put back, or an edit by somebody else.                     *)
(***************************************************************************)
CONSTANTS
    File,      \* the files of the destination
    Release,   \* the issuances, and the value that stands for no file
    Issued,    \* the issuances the agent may install here
    HasReload  \* whether the server is told to load what was installed

VARIABLES
    files,     \* per file, the release it holds
    served,    \* per file, the release the server loaded last
    trusted    \* no crash after a write, failed restore or foreign edit yet

vars == <<files, served, trusted>>

AllOf(r) == [f \in File |-> r]

Init ==
    /\ files \in {AllOf(r) : r \in Release}
    /\ served = files
    /\ trusted = TRUE

\* The new release is in place and, where a reload is declared, in use.
Install(r) ==
    /\ files' = AllOf(r)
    /\ served' = IF HasReload THEN AllOf(r) ELSE served
    /\ UNCHANGED trusted

\* A reload that was reported as failed had taken effect all the same.
Stray(r) ==
    /\ HasReload
    /\ served' = AllOf(r)
    /\ UNCHANGED <<files, trusted>>

\* The server was reloaded onto the files that were put back.
Recover ==
    /\ HasReload
    /\ served' = files
    /\ UNCHANGED <<files, trusted>>

Damage ==
    /\ trusted' = FALSE
    /\ files' \in [File -> Release]
    /\ UNCHANGED served

\* After damage nothing is promised but that the values are releases.
Untrusted ==
    /\ ~trusted /\ ~trusted'
    /\ files' \in [File -> Release]
    /\ served' \in [File -> Release]

Next ==
    \/ \E r \in Issued : Install(r) \/ Stray(r)
    \/ Recover
    \/ Damage
    \/ Untrusted

Spec == Init /\ [][Next]_vars
=============================================================================
