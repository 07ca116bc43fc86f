----------------------------- MODULE StateDirMC -----------------------------
(* Values for StateDir's constants that a configuration cannot write.      *)
EXTENDS StateDir, Renewal

CONSTANT host

OneProc == {host}

\* Dates for Renewal: none, before and after an issuance, and lives that are
\* negative, short, counted, too long to be counted, and saturated.
SomeRecords ==
    [issuedAt : 0..4, notAfter : 0..(MaxDuration + 6), renewAfter : 0..(MaxDuration + 6)]

ASSUME RenewalIsSound ==
    \A r \in SomeRecords :
        /\ LeavesAThird(r) /\ TheCoreDecides(r) /\ NotOnEveryCycle(r)
        /\ AsksByExpiry(r) /\ WrapsBeyond(r)
=============================================================================
