----------------------------- MODULE Enrolment ------------------------------
(***************************************************************************)
(* A host joins a core: Enrol (enrol.go), and the identity it leaves in    *)
(* the state directory, SaveIdentity, LoadIdentity and Enrolled            *)
(* (state.go).                                                             *)
(*                                                                         *)
(* An identity is a number, in the order the core accepted them: the key   *)
(* generated here and the agent id the core answered with.  Two files hold *)
(* it, each truncated and then filled.                                     *)
(*                                                                         *)
(* A definition that stands before another one and has its name and more   *)
(* is that one with a plausible mistake in it, for seeing that a property  *)
(* notices.  Nothing in the specification uses it.                         *)
(***************************************************************************)
EXTENDS Naturals, FiniteSets

CONSTANTS
    Proc,         \* enrolments somebody may be running
    MaxAttempts,  \* bound on enrolments
    MaxFaults     \* bound on failing calls and writes, lost answers, crashes

Identity == 1..MaxAttempts
None     == 0
Torn     == MaxAttempts + 1
Content  == None..Torn

VARIABLES
    key,       \* the identity key's file
    state,     \* agent.json
    accepted,  \* the core: how many agents it has accepted
    live,      \* the core: agents that are not revoked
    attempts,  \* enrolments begun
    faults,    \* how much of MaxFaults has been used
    pc,        \* where each enrolment is
    mine,      \* the identity it is saving
    answer     \* what each process was told last

core == <<accepted, live>>
vars == <<key, state, accepted, live, attempts, faults, pc, mine, answer>>

Init ==
    /\ key = None
    /\ state = None
    /\ accepted = 0
    /\ live = {}
    /\ attempts = 0
    /\ faults = 0
    /\ pc = [p \in Proc |-> "idle"]
    /\ mine = [p \in Proc |-> None]
    /\ answer = [p \in Proc |-> "none"]

-----------------------------------------------------------------------------
Fault == faults < MaxFaults /\ faults' = faults + 1

Goto(p, label) == /\ pc' = [pc EXCEPT ![p] = label]
                  /\ UNCHANGED <<mine, answer>>

Return(p, told) == /\ pc' = [pc EXCEPT ![p] = "idle"]
                   /\ mine' = [mine EXCEPT ![p] = None]
                   /\ answer' = [answer EXCEPT ![p] = told]

AcceptTwice == /\ accepted' = accepted + 2
               /\ live' = live \cup {accepted + 1, accepted + 2}
Accept == /\ accepted' = accepted + 1
          /\ live' = live \cup {accepted + 1}

\* Enrolled looks at whether agent.json is there; LoadIdentity reads both files.
Enrolled == state # None
Loadable == {key, state} \subseteq Identity

-----------------------------------------------------------------------------
(* An enrolment.                                                           *)

StartUnchecked(p) ==
    /\ pc[p] = "idle" /\ attempts < MaxAttempts
    /\ attempts' = attempts + 1
    /\ pc' = [pc EXCEPT ![p] = "ask"]
    /\ answer' = [answer EXCEPT ![p] = "none"]
    /\ UNCHANGED <<key, state, core, faults, mine>>

Start(p) ==
    /\ pc[p] = "idle" /\ ~Enrolled /\ attempts < MaxAttempts
    /\ attempts' = attempts + 1
    /\ pc' = [pc EXCEPT ![p] = "ask"]
    /\ answer' = [answer EXCEPT ![p] = "none"]
    /\ UNCHANGED <<key, state, core, faults, mine>>

\* "this host is already enrolled"
Refuse(p) ==
    /\ pc[p] = "idle" /\ Enrolled
    /\ Return(p, "alreadyEnrolled")
    /\ UNCHANGED <<key, state, core, attempts, faults>>

Answered(p) ==
    /\ pc[p] = "ask"
    /\ Accept
    /\ mine' = [mine EXCEPT ![p] = accepted + 1]
    /\ pc' = [pc EXCEPT ![p] = "openKey"]
    /\ UNCHANGED <<key, state, attempts, faults, answer>>

\* The core refuses or cannot be reached, or its answer is lost or unreadable.
NotAnswered(p) ==
    /\ pc[p] = "ask"
    /\ Fault
    /\ \/ UNCHANGED core
       \/ Accept
    /\ Return(p, "notEnrolled")
    /\ UNCHANGED <<key, state, attempts>>

\* SaveIdentity: the key, then agent.json.
OpenKeyUnlessThere(p) ==
    /\ pc[p] = "openKey"
    /\ IF key \in Identity THEN Goto(p, "openState") /\ UNCHANGED key
                           ELSE Goto(p, "writeKey") /\ key' = Torn
    /\ UNCHANGED <<state, core, attempts, faults>>

OpenKey(p) ==
    /\ pc[p] = "openKey"
    /\ key' = Torn
    /\ Goto(p, "writeKey")
    /\ UNCHANGED <<state, core, attempts, faults>>

WriteKey(p) ==
    /\ pc[p] = "writeKey"
    /\ key' = mine[p]
    /\ Goto(p, "openState")
    /\ UNCHANGED <<state, core, attempts, faults>>

OpenState(p) ==
    /\ pc[p] = "openState"
    /\ state' = Torn
    /\ Goto(p, "writeState")
    /\ UNCHANGED <<key, core, attempts, faults>>

WriteState(p) ==
    /\ pc[p] = "writeState"
    /\ state' = mine[p]
    /\ Return(p, "enrolled")
    /\ UNCHANGED <<key, core, attempts, faults>>

Saving == {"openKey", "writeKey", "openState", "writeState"}

\* A full disk, or the access cannot be restricted to the owner, which is only
\* found out when the file has been written.
SaveFailsSilently(p) ==
    /\ pc[p] \in Saving
    /\ Fault
    /\ UNCHANGED <<key, state>>
    /\ Return(p, "enrolled")
    /\ UNCHANGED <<core, attempts>>

SaveFails(p) ==
    /\ pc[p] \in Saving
    /\ Fault
    /\ \/ UNCHANGED <<key, state>>
       \/ pc[p] = "writeKey" /\ key' = mine[p] /\ UNCHANGED state
       \/ pc[p] = "writeState" /\ state' = mine[p] /\ UNCHANGED key
    /\ Return(p, "startOver")
    /\ UNCHANGED <<core, attempts>>

Crash(p) ==
    /\ pc[p] # "idle"
    /\ Fault
    /\ \/ UNCHANGED core
       \/ pc[p] = "ask" /\ Accept
    /\ Return(p, "none")
    /\ UNCHANGED <<key, state, attempts>>

\* What every refusal asks for: revoke the agent and remove the directory.
StartOver ==
    /\ Enrolled /\ \A p \in Proc : pc[p] = "idle"
    /\ live' = live \ {state}
    /\ key' = None /\ state' = None
    /\ UNCHANGED <<accepted, attempts, faults, pc, mine, answer>>

Next == \/ \E p \in Proc :
              \/ Start(p) \/ Refuse(p) \/ Answered(p) \/ NotAnswered(p)
              \/ OpenKey(p) \/ WriteKey(p) \/ OpenState(p) \/ WriteState(p)
              \/ SaveFails(p) \/ Crash(p)
        \/ StartOver

Spec == Init /\ [][Next]_vars

-----------------------------------------------------------------------------
(* Properties.                                                             *)

TypeOK ==
    /\ {key, state} \subseteq Content
    /\ accepted \in 0..attempts
    /\ live \subseteq 1..accepted
    /\ attempts \in 0..MaxAttempts
    /\ faults \in 0..MaxFaults
    /\ pc \in [Proc -> {"idle", "ask"} \cup Saving]
    /\ mine \in [Proc -> 0..accepted]
    /\ answer \in [Proc -> {"none", "alreadyEnrolled", "notEnrolled", "enrolled",
                            "startOver"}]

\* LoadIdentity never checks that the key and the agent id belong together: an
\* agent with one enrolment's key and another's id signs calls the core refuses
\* for ever.  Whatever was interrupted, an identity that can be loaded is one
\* the core accepted, whole, and has not been revoked.
LoadableIsOne == Loadable => key = state /\ state \in live

\* Enrol: "Re-enrolling silently would leave the old agent's record on the core
\* with a key nothing holds any more".  Between enrolments every live agent
\* that is not this host's identity is paid for by a failure of its own.
OrphansPerFailure ==
    (\A p \in Proc : pc[p] = "idle") => Cardinality(live \ {state}) <= faults

\* Somebody who was told "enrolled" has an identity that loads, until that
\* somebody starts over.
ToldMeansLoadable ==
    [][\A p \in Proc :
         answer[p] = "none" /\ answer'[p] = "enrolled" => Loadable']_vars
=============================================================================
