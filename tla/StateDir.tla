------------------------------- MODULE StateDir -------------------------------
(***************************************************************************)
(* The state directory of a host: the identity enrolment leaves in it,     *)
(* a certificate obtained under that identity, and the daemon that read    *)
(* the identity when it started and goes by it until it exits.  Enrolment  *)
(* and Issuance have the two halves; here they share the directory, a      *)
(* person who may remove it, and a core that answers live agents only.     *)
(*                                                                         *)
(* A definition that stands before another one and has its name and more   *)
(* is that one with a plausible mistake in it, for seeing that a property  *)
(* notices.  Nothing in the specification uses it.                         *)
(***************************************************************************)
EXTENDS Issuance

CONSTANTS
    MaxAttempts,  \* bound on enrolments
    MaxFailures   \* bound on enrolments that fail or are cut off

ASSUME StateDirAssumption ==
    /\ MaxAttempts \in Nat /\ MaxFailures \in Nat
    /\ Chainless \subseteq Nat

VARIABLES
    key, state, accepted, live, attempts, failures,
    enrolling, mine, answer,  \* Enrolment's: the two files, the core, the command
    running,                  \* the identity the daemon has loaded
    signs                     \* the identity that signs each process's request

enrolment == <<key, state, accepted, live, attempts, failures, enrolling, mine, answer>>
daemon    == <<running, signs>>
allVars   == <<vars, enrolment, daemon>>

E == INSTANCE Enrolment WITH pc <- enrolling, faults <- failures, MaxFaults <- MaxFailures

NoOne == E!None

InitAll ==
    /\ Init
    /\ E!Init
    /\ running = NoOne
    /\ signs = [p \in Proc |-> NoOne]

-----------------------------------------------------------------------------
(* The identity.                                                           *)

Enrols(p) ==
    /\ \/ E!Start(p) \/ E!Refuse(p) \/ E!Answered(p) \/ E!NotAnswered(p)
       \/ E!OpenKey(p) \/ E!WriteKey(p) \/ E!OpenState(p) \/ E!WriteState(p)
       \/ E!SaveFails(p) \/ E!Crash(p)
    /\ UNCHANGED <<vars, daemon>>

Saving == {"open", "write"}

\* Enrol: "Revoke it in CertPilot and remove that directory", the certificates
\* with it.  A save that has begun fails at its next file; one that has not
\* makes the directory anew.  What is read of a chain that is gone is no chain.
Overtaken(p) == pc[p] \in Saving /\ <<pc[p], file[p]>> # <<"open", First>>
StartOver ==
    /\ E!StartOver
    /\ disk' = [f \in File |-> None]
    /\ intact' = \A p \in Proc : pc[p] \notin {"readChain", "install"}
    /\ pc' = [p \in Proc |-> IF Overtaken(p) THEN "idle" ELSE pc[p]]
    /\ file' = [p \in Proc |-> IF Overtaken(p) THEN First ELSE file[p]]
    /\ new' = [p \in Proc |-> IF Overtaken(p) THEN None ELSE new[p]]
    /\ renews' = [p \in Proc |-> IF Overtaken(p) THEN None ELSE renews[p]]
    /\ UNCHANGED <<core, faults, read, daemon>>

-----------------------------------------------------------------------------
(* The daemon.                                                             *)

Live(identity) == identity \in live
Idle == \A p \in Proc : pc[p] = "idle"

\* runAgent: LoadIdentity refuses unless both files can be read.
StartDaemon ==
    /\ running = NoOne /\ E!Loadable
    /\ running' = state
    /\ UNCHANGED <<vars, enrolment, signs>>

\* The heartbeat of a withdrawn credential: Run returns ErrRevoked.
HeartbeatIgnored ==
    /\ running # NoOne /\ Idle /\ ~Live(running)
    /\ UNCHANGED allVars

HeartbeatRefused ==
    /\ running # NoOne /\ Idle /\ ~Live(running)
    /\ running' = NoOne
    /\ UNCHANGED <<vars, enrolment, signs>>

\* SIGTERM, an upgrade.
StopDaemon ==
    /\ running # NoOne /\ Idle
    /\ Fault
    /\ running' = NoOne
    /\ UNCHANGED <<disk, core, intact, pc, locals, read, enrolment, signs>>

-----------------------------------------------------------------------------
(* Certificates.                                                           *)

\* `certpilot-agent request' loads the identity as it begins.
RunRequest(p) ==
    /\ StartRequest(p) /\ E!Loadable
    /\ signs' = [signs EXCEPT ![p] = state]
    /\ UNCHANGED <<enrolment, running>>

\* RenewDue comes after a heartbeat that was answered.
RunRenew(p) ==
    /\ StartRenew(p) /\ Live(running)
    /\ signs' = [signs EXCEPT ![p] = running]
    /\ UNCHANGED <<enrolment, running>>

\* The credential was withdrawn after the heartbeat, or before the request.
Refused(p) ==
    /\ pc[p] = "ask" /\ ~Live(signs[p])
    /\ Finish(p)
    /\ UNCHANGED <<disk, core, faults, intact, read, enrolment, daemon>>

Asked(p) == Live(signs[p]) /\ (Answered(p) \/ NotAnswered(p))

\* What one process does once it has the answer, and an installation.
Local(p) ==
    \/ Open(p) \/ Write(p) \/ WriteFails(p)
    \/ ReadCert(p) \/ ReadKey(p) \/ ReadChain(p) \/ Install(p)

\* A command dies alone, or the daemon, or the host with all of them.
Die(p) ==
    /\ Crash(p)
    /\ issued' # issued => Live(signs[p])
    /\ running' \in IF renews[p] # None THEN {NoOne} ELSE {running, NoOne}
    /\ UNCHANGED <<enrolment, signs>>

Works(p) ==
    \/ RunRenew(p) \/ Refused(p)
    \/ (Asked(p) \/ Local(p)) /\ UNCHANGED <<enrolment, daemon>>

NextAll ==
    \/ \E p \in Proc :
          \/ Enrols(p) \/ RunRequest(p) \/ Works(p) \/ Die(p)
          \/ (StartInstall(p) \/ Unfulfilled(p)) /\ UNCHANGED <<enrolment, daemon>>
    \/ StartOver
    \/ StartDaemon \/ HeartbeatRefused \/ StopDaemon
    \/ FallDue /\ UNCHANGED <<enrolment, daemon>>

SpecAll == InitAll /\ [][NextAll]_allVars

\* The daemon sends a heartbeat and renews on every cycle, whatever commands run
\* in between; what has begun ends, no verify being stalled; a service manager
\* starts what has exited, or the person whom the enrolment told to.
FairSpecAll ==
    /\ SpecAll
    /\ \A p \in Proc : WF_allVars(Works(p)) /\ SF_allVars(RunRenew(p))
    /\ WF_allVars(StartDaemon) /\ SF_allVars(HeartbeatRefused)

-----------------------------------------------------------------------------
(* Properties.                                                             *)

TypeOKAll ==
    /\ TypeOK
    /\ E!TypeOK
    /\ running \in 0..accepted
    /\ signs \in [Proc -> 0..accepted]

\* LoadIdentity never checks that the key and the agent id belong together.
\* Whatever was interrupted, an identity that loads is one the core accepted,
\* whole, and has not been revoked -- with a daemon of the old identity running
\* while the new one is saved.
LoadableIsOne == E!LoadableIsOne

\* Enrol: "Re-enrolling silently would leave the old agent's record on the core
\* with a key nothing holds any more".  Every live agent that is not this host's
\* identity is paid for by a failure of its own.
OrphansPerFailure == E!OrphansPerFailure

\* Somebody who was told "enrolled" has an identity that loads.
ToldMeansLoadable == E!ToldMeansLoadable

\* Run: "There is no amount of waiting that fixes a revoked credential".  An
\* identity is read once, when the agent starts.  However the host was enrolled
\* again while an agent ran, in the end the agent that runs goes by the identity
\* in the directory.
EventuallyItself == <>[](E!Loadable => running = state)

\* RenewDue: "The agent renews its own certificates because it is the only thing
\* that can".  Crashes, lost answers and enrolments in between: what this host
\* can see it holds is in the end not due, as long as it has an identity.
EventuallyRenewedAll == <>[](Held /\ E!Loadable => disk["meta"] \notin due)
=============================================================================
