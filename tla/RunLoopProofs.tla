----------------------------- MODULE RunLoopProofs -----------------------------
(* Theorems about RunLoop, for every value of its constants.               *)
EXTENDS RunLoop, TLAPS

USE RunLoopAssumption

-----------------------------------------------------------------------------
(* Type correctness.                                                       *)

LEMMA FaultType ==
    ASSUME faults \in 0..MaxFaults, Fault
    PROVE  faults' \in 0..MaxFaults
BY DEF Fault

LEMMA UnansweredType ==
    ASSUME faults \in 0..MaxFaults, Unanswered
    PROVE  faults' \in 0..MaxFaults
BY FaultType DEF Unanswered

LEMMA ChangeType ==
    ASSUME changes \in 0..MaxChanges, Change
    PROVE  changes' \in 0..MaxChanges
BY DEF Change

\* A report is the whole list of destinations, or says that there is none.
Reports == [kind : {"none", "list", "errors"}, installed : SUBSET Dest,
            failed : SUBSET Dest]

LEMMA ReportType ==
    /\ Unshown \in Reports
    /\ [Unshown EXCEPT !.kind = "list"] \in Reports
    /\ [Unshown EXCEPT !.kind = "errors"] \in Reports
    /\ \A S, T \in SUBSET Dest :
         [kind |-> "list", installed |-> S, failed |-> T] \in Reports
BY DEF Unshown, Reports

LEMMA TypeInvariant == Spec => []TypeOK
<1>1. Init => TypeOK
  <2>1. Init => spec \in [found : {"absent", "broken", "found"}, destinations : SUBSET Dest]
    BY DEF Init, NoSpec
  <2>2. Init => /\ shown \in Reports
                /\ sending \in [kind : {"none", "list"}, installed : SUBSET Dest,
                                failed : SUBSET Dest]
    BY ReportType DEF Init, Unshown
  <2>3. Init => jobs \in [Job -> {"none", "waiting", "leased", "done", "failed"}]
    BY DEF Init
  <2>4. Init => want \in [Job -> SUBSET Dest]
    BY DEF Init
  <2>5. Init => changes \in 0..MaxChanges /\ faults \in 0..MaxFaults
    BY DEF Init
  <2>6. Init => /\ current \subseteq Dest /\ revoked \in BOOLEAN
     /\ pc = "heartbeat" /\ reachable \in BOOLEAN /\ hadSpec \in BOOLEAN
     /\ declared = {} /\ taken = {} /\ outcome = {}
    BY DEF Init
  <2> QED
    BY <2>1, <2>2, <2>3, <2>4, <2>5, <2>6 DEF TypeOK, Reports
<1>2. TypeOK /\ [Next]_vars => TypeOK'
  <2> SUFFICES ASSUME TypeOK, [Next]_vars PROVE TypeOK'
    OBVIOUS
  <2> USE DEF TypeOK, core, cycle
  <2>1. ASSUME HeartbeatAnswered PROVE TypeOK'
    BY <2>1 DEF HeartbeatAnswered
  <2>2. ASSUME HeartbeatRevoked PROVE TypeOK'
    BY <2>2 DEF HeartbeatRevoked
  <2>3. ASSUME HeartbeatFails PROVE TypeOK'
    BY <2>3, FaultType DEF HeartbeatFails
  <2>4. ASSUME Renew PROVE TypeOK'
    BY <2>4, ChangeType DEF Renew
  <2>5. ASSUME SpecFound PROVE TypeOK'
    BY <2>5 DEF SpecFound
  <2>6. ASSUME SpecGone PROVE TypeOK'
    BY <2>6, UnansweredType, ReportType DEF SpecGone, EndCycle, Reports
  <2>7. ASSUME SpecBroken PROVE TypeOK'
    BY <2>7, UnansweredType, ReportType DEF SpecBroken, EndCycle, Reports
  <2>8. ASSUME Claim PROVE TypeOK'
    BY <2>8 DEF Claim, Waiting
  <2>9. ASSUME ClaimFails PROVE TypeOK'
    BY <2>9, UnansweredType DEF ClaimFails, Waiting
  <2>10. ASSUME Apply PROVE TypeOK'
    BY <2>10, FaultType DEF Apply, EndCycle
  <2>11. ASSUME Report PROVE TypeOK'
    BY <2>11, ReportType DEF Report, Reports
  <2>12. ASSUME ReportFails PROVE TypeOK'
    BY <2>12, UnansweredType DEF ReportFails
  <2>13. ASSUME NEW j \in Job, Result(j) PROVE TypeOK'
    BY <2>13 DEF Result, Verdict
  <2>14. ASSUME NEW j \in Job, ResultFails(j) PROVE TypeOK'
    BY <2>14, UnansweredType DEF ResultFails, Verdict
  <2>15. ASSUME Done PROVE TypeOK'
    BY <2>15 DEF Done, EndCycle
  <2>16. ASSUME Wake PROVE TypeOK'
    BY <2>16 DEF Wake
  <2>17. ASSUME Restart PROVE TypeOK'
    BY <2>17, FaultType DEF Restart
  <2>18. ASSUME ServiceRestart PROVE TypeOK'
    BY <2>18 DEF ServiceRestart
  <2>19. ASSUME EditSpec PROVE TypeOK'
    BY <2>19, ChangeType DEF EditSpec, NoSpec
  <2>20. ASSUME Command PROVE TypeOK'
    BY <2>20, ChangeType, FaultType DEF Command, Unshown
  <2>21. ASSUME CommandReports PROVE TypeOK'
    BY <2>21, ReportType DEF CommandReports, Unshown
  <2>22. ASSUME CommandLoses PROVE TypeOK'
    BY <2>22, UnansweredType DEF CommandLoses, Unshown
  <2>23. ASSUME NEW j \in Job, Enqueue(j) PROVE TypeOK'
    BY <2>23 DEF Enqueue
  <2>24. ASSUME NEW j \in Job, LeaseExpires(j) PROVE TypeOK'
    BY <2>24 DEF LeaseExpires
  <2>25. ASSUME Revoke PROVE TypeOK'
    BY <2>25 DEF Revoke
  <2>26. CASE UNCHANGED vars
    BY <2>26 DEF vars
  <2> QED
    BY <2>1, <2>2, <2>3, <2>4, <2>5, <2>6, <2>7, <2>8, <2>9, <2>10, <2>11,
       <2>12, <2>13, <2>14, <2>15, <2>16, <2>17, <2>18, <2>19, <2>20, <2>21,
       <2>22, <2>23, <2>24, <2>25, <2>26
    DEF Next, Step
<1> QED
  BY <1>1, <1>2, PTL DEF Spec

\* The daemon, a command beside it and the core's side of both keep their types;
\* between two cycles nothing is left of what a cycle knew.
THEOREM TypeCorrect == Spec => []TypeOK
BY TypeInvariant

-----------------------------------------------------------------------------
(* A job is a success only where the certificate was put.                  *)

\* What this cycle's Apply installed is still there when the results are sent:
\* a renewal comes before Apply, and a command only adds to it.
OutcomeIsCurrent == outcome \subseteq current

LEMMA OutcomeStays == Spec => []OutcomeIsCurrent
<1>1. Init => OutcomeIsCurrent
  BY DEF Init, OutcomeIsCurrent
<1>2. TypeOK /\ OutcomeIsCurrent /\ [Next]_vars => OutcomeIsCurrent'
  <2> SUFFICES ASSUME TypeOK, OutcomeIsCurrent, [Next]_vars
               PROVE  OutcomeIsCurrent'
    OBVIOUS
  <2> USE DEF OutcomeIsCurrent
  <2>1. ASSUME Renew PROVE OutcomeIsCurrent'
    \* the one step that takes certificates away; the cycle knows nothing yet
    BY <2>1 DEF Renew, TypeOK, cycle
  <2>2. ASSUME Apply PROVE OutcomeIsCurrent'
    BY <2>2 DEF Apply, EndCycle
  <2>3. ASSUME SpecGone \/ SpecBroken \/ Done \/ Restart PROVE OutcomeIsCurrent'
    BY <2>3 DEF SpecGone, SpecBroken, Done, Restart, EndCycle
  <2>4. ASSUME Command PROVE OutcomeIsCurrent'
    BY <2>4 DEF Command, cycle
  <2>5. ASSUME UNCHANGED <<current, outcome>> PROVE OutcomeIsCurrent'
    BY <2>5
  <2>6. ASSUME \/ HeartbeatAnswered \/ HeartbeatRevoked \/ HeartbeatFails
               \/ SpecFound \/ Claim \/ ClaimFails \/ Report \/ ReportFails
               \/ \E j \in Job : Result(j) \/ ResultFails(j)
               \/ Wake \/ ServiceRestart
        PROVE  UNCHANGED <<current, outcome>>
    BY <2>6
    DEF HeartbeatAnswered, HeartbeatRevoked, HeartbeatFails, SpecFound, Claim,
        ClaimFails, Report, ReportFails, Result, ResultFails, Wake,
        ServiceRestart, cycle
  <2>7. ASSUME \/ EditSpec \/ CommandReports \/ CommandLoses
               \/ \E j \in Job : Enqueue(j) \/ LeaseExpires(j)
               \/ Revoke \/ UNCHANGED vars
        PROVE  UNCHANGED <<current, outcome>>
    BY <2>7
    DEF EditSpec, CommandReports, CommandLoses, Enqueue, LeaseExpires, Revoke,
        cycle, vars
  <2> QED
    BY <2>1, <2>2, <2>3, <2>4, <2>5, <2>6, <2>7 DEF Next, Step
<1> QED
  BY <1>1, <1>2, TypeInvariant, PTL DEF Spec

\* The jobs a step closes as a success.
Closes(j) == jobs'[j] = "done" /\ jobs[j] # "done"

LEMMA OnlyResultsClose ==
    ASSUME TypeOK, [Next]_vars, NEW j \in Job, Closes(j)
    PROVE  /\ UNCHANGED <<current, want, declared>>
           /\ Verdict(j) = "done"
<1>1. ASSUME UNCHANGED jobs PROVE FALSE
  BY <1>1 DEF Closes
<1>2. ASSUME NEW k \in Job, Result(k) \/ ResultFails(k)
      PROVE  UNCHANGED <<current, want, declared>> /\ Verdict(j) = "done"
  <2>1. jobs' = [jobs EXCEPT ![k] = Verdict(k)]
    BY <1>1, <1>2 DEF Result, ResultFails
  <2>2. j = k /\ Verdict(k) = "done"
    BY <2>1 DEF Closes, TypeOK
  <2> QED
    BY <1>2, <2>2 DEF Result, ResultFails
\* A claim, a job that is offered again and a new one close nothing.
<1>3. ASSUME Claim \/ ClaimFails \/ \E k \in Job : Enqueue(k) \/ LeaseExpires(k)
      PROVE  FALSE
  BY <1>1, <1>3 DEF Claim, ClaimFails, Enqueue, LeaseExpires, Closes, TypeOK
<1>4. ASSUME \/ HeartbeatAnswered \/ HeartbeatRevoked \/ HeartbeatFails \/ Renew
             \/ SpecFound \/ SpecGone \/ SpecBroken \/ Apply \/ Report
             \/ ReportFails \/ Done \/ Wake
      PROVE  UNCHANGED jobs
  BY <1>4
  DEF HeartbeatAnswered, HeartbeatRevoked, HeartbeatFails, Renew, SpecFound,
      SpecGone, SpecBroken, Apply, Report, ReportFails, Done, Wake, core
<1>5. ASSUME \/ Restart \/ ServiceRestart \/ EditSpec \/ Command
             \/ CommandReports \/ CommandLoses \/ Revoke \/ UNCHANGED vars
      PROVE  UNCHANGED jobs
  BY <1>5
  DEF Restart, ServiceRestart, EditSpec, Command, CommandReports, CommandLoses,
      Revoke, core, vars
<1> QED
  BY <1>1, <1>2, <1>3, <1>4, <1>5 DEF Next, Step

\* reportResult: whatever is lost, edited, crashes or runs beside it, a job is
\* closed as a success only at a moment when every destination it names here,
\* and at least one, has the host's present certificate.
THEOREM SuccessWasInstalled == Spec => SuccessIsInstalled
<1>1. TypeOK /\ OutcomeIsCurrent /\ [Next]_vars =>
        [\A j \in Job : jobs'[j] = "done" /\ jobs[j] # "done" =>
            DestinationsFor(j) # {} /\ DestinationsFor(j) \subseteq current']_vars
  <2> SUFFICES ASSUME TypeOK, OutcomeIsCurrent, [Next]_vars,
                      NEW j \in Job, Closes(j)
               PROVE  DestinationsFor(j) # {} /\ DestinationsFor(j) \subseteq current'
    BY DEF Closes
  <2>1. Verdict(j) = "done" /\ UNCHANGED current
    BY OnlyResultsClose
  <2>2. DestinationsFor(j) # {} /\ DestinationsFor(j) \subseteq outcome
    BY <2>1 DEF Verdict
  <2> QED
    BY <2>1, <2>2 DEF OutcomeIsCurrent
<1> QED
  BY <1>1, TypeInvariant, OutcomeStays, PTL DEF Spec, SuccessIsInstalled
=============================================================================
