------------------------------ MODULE RunLoopMC ------------------------------
(* Values for RunLoop's constants that a configuration cannot write.        *)
EXTENDS RunLoop

CONSTANTS web, mail, db, site, store

\* Two destinations of one certificate and one of another.
ThreeDests == {web, mail, db}
SomeCerts  == [d \in ThreeDests |-> IF d = db THEN store ELSE site]
OneDest    == {web}
OneCert    == [d \in OneDest |-> site]
=============================================================================
