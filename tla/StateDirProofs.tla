---------------------------- MODULE StateDirProofs ----------------------------
(* Theorems about StateDir, for every value of its constants.  What is     *)
(* proved of an enrolment by itself (EnrolmentProofs) holds of the one in  *)
(* a state directory, because every step here is one of Enrolment's or     *)
(* leaves alone what Enrolment is about.                                   *)
EXTENDS StateDir, IssuanceProofs

USE StateDirAssumption

EP == INSTANCE EnrolmentProofs
        WITH pc <- enrolling, faults <- failures, MaxFaults <- MaxFailures

-----------------------------------------------------------------------------
(* Enrolment.                                                              *)

LEMMA EnrolmentBounds == EP!Bounds
BY DEF EP!Bounds

LEMMA EnrolmentInit == ASSUME InitAll PROVE EP!Init
BY DEF InitAll, E!Init, EP!Init, E!None, EP!None

LEMMA SameSteps ==
    ASSUME NEW p \in Proc, Enrols(p)
    PROVE  EP!Next
<1>1. ASSUME E!Start(p) PROVE EP!Start(p)
  BY <1>1 DEF E!Start, EP!Start, E!Enrolled, EP!Enrolled, E!None, EP!None, E!core, EP!core
<1>2. ASSUME E!Refuse(p) PROVE EP!Refuse(p)
  BY <1>2 DEF E!Refuse, EP!Refuse, E!Enrolled, EP!Enrolled, E!Return, EP!Return,
              E!None, EP!None, E!core, EP!core
<1>3. ASSUME E!Answered(p) PROVE EP!Answered(p)
  BY <1>3 DEF E!Answered, EP!Answered, E!Accept, EP!Accept
<1>4. ASSUME E!NotAnswered(p) PROVE EP!NotAnswered(p)
  BY <1>4 DEF E!NotAnswered, EP!NotAnswered, E!Fault, EP!Fault, E!Accept, EP!Accept,
              E!Return, EP!Return, E!None, EP!None, E!core, EP!core
<1>5. ASSUME E!OpenKey(p) PROVE EP!OpenKey(p)
  BY <1>5 DEF E!OpenKey, EP!OpenKey, E!Goto, EP!Goto, E!Torn, EP!Torn, E!core, EP!core
<1>6. ASSUME E!WriteKey(p) PROVE EP!WriteKey(p)
  BY <1>6 DEF E!WriteKey, EP!WriteKey, E!Goto, EP!Goto, E!core, EP!core
<1>7. ASSUME E!OpenState(p) PROVE EP!OpenState(p)
  BY <1>7 DEF E!OpenState, EP!OpenState, E!Goto, EP!Goto, E!Torn, EP!Torn, E!core, EP!core
<1>8. ASSUME E!WriteState(p) PROVE EP!WriteState(p)
  BY <1>8 DEF E!WriteState, EP!WriteState, E!Return, EP!Return, E!None, EP!None, E!core, EP!core
<1>9. ASSUME E!SaveFails(p) PROVE EP!SaveFails(p)
  BY <1>9 DEF E!SaveFails, EP!SaveFails, E!Saving, EP!Saving, E!Fault, EP!Fault,
              E!Return, EP!Return, E!None, EP!None, E!core, EP!core
<1>10. ASSUME E!Crash(p) PROVE EP!Crash(p)
  BY <1>10 DEF E!Crash, EP!Crash, E!Fault, EP!Fault, E!Accept, EP!Accept,
               E!Return, EP!Return, E!None, EP!None, E!core, EP!core
<1> QED
  BY <1>1, <1>2, <1>3, <1>4, <1>5, <1>6, <1>7, <1>8, <1>9, <1>10 DEF Enrols, EP!Next

LEMMA EnrolmentStep == ASSUME [NextAll]_allVars PROVE [EP!Next]_(EP!vars)
<1>1. ASSUME NEW p \in Proc, Enrols(p) PROVE EP!Next
  BY <1>1, SameSteps
<1>2. ASSUME StartOver PROVE EP!Next
  BY <1>2 DEF StartOver, E!StartOver, EP!Next, EP!StartOver, E!Enrolled,
              EP!Enrolled, E!None, EP!None
<1>3. ASSUME UNCHANGED enrolment PROVE UNCHANGED EP!vars
  BY <1>3 DEF enrolment, EP!vars, EP!core
<1>4. ASSUME NEW p \in Proc, RunRequest(p) \/ Works(p) \/ Die(p)
      PROVE  UNCHANGED enrolment
  BY <1>4 DEF RunRequest, Works, Die, RunRenew, Refused
<1>5. ASSUME StartDaemon \/ HeartbeatRefused \/ StopDaemon \/ UNCHANGED allVars
      PROVE  UNCHANGED enrolment
  BY <1>5 DEF StartDaemon, HeartbeatRefused, StopDaemon, allVars
<1> QED
  BY <1>1, <1>2, <1>3, <1>4, <1>5 DEF NextAll

\* Enrol does not know of the daemon and of certificates: a whole state
\* directory, with any number of commands, implements Enrolment, each of its
\* steps being one of Enrolment's or leaving the identity alone.
THEOREM ImplementsEnrolment == SpecAll => EP!Spec
<1>1. InitAll => EP!Init
  BY EnrolmentInit
<1>2. [NextAll]_allVars => [EP!Next]_(EP!vars)
  BY EnrolmentStep
<1> QED
  BY <1>1, <1>2, PTL DEF SpecAll, EP!Spec

LEMMA EnrolmentTypes == SpecAll => []EP!TypeInv
BY ImplementsEnrolment, EnrolmentBounds, EP!TypeInvariant, PTL

LEMMA EnrolmentWhole ==
    ASSUME OneProcess PROVE SpecAll => [](EP!TypeInv /\ EP!IdentityInv)
<1>1. EP!OneEnrolment
  BY DEF OneProcess, EP!OneEnrolment
<1> QED
  BY <1>1, ImplementsEnrolment, EnrolmentBounds, EP!IdentityInvariant, PTL

\* LoadIdentity, with a daemon of the old identity running and certificates
\* asked for while the new one is saved: an identity that loads is whole, and one
\* the core takes.
THEOREM IdentityIsWhole == ASSUME OneProcess PROVE SpecAll => []LoadableIsOne
<1>1. EP!IdentityInv => LoadableIsOne
  BY DEF EP!IdentityInv, EP!LoadableIsOne, LoadableIsOne, E!LoadableIsOne,
         EP!Loadable, E!Loadable, EP!Identity, E!Identity
<1> QED
  BY <1>1, EnrolmentWhole, PTL

\* Enrol: with the daemon running or not, every live agent that is not this
\* host's identity is paid for by a failure of its own.
THEOREM OrphansArePaidFor ==
    ASSUME OneProcess PROVE SpecAll => []OrphansPerFailure
<1>1. EP!OneEnrolment
  BY DEF OneProcess, EP!OneEnrolment
<1>2. EP!OrphansPerFailure => OrphansPerFailure
  BY SMT DEF EP!OrphansPerFailure, OrphansPerFailure, E!OrphansPerFailure,
         EP!Cardinality, E!Cardinality
<1> QED
  BY <1>1, <1>2, ImplementsEnrolment, EnrolmentBounds, EP!OrphansArePaidFor, PTL

\* Enrol returns without an error only when there is an identity that loads.
THEOREM ToldIsLoadable == ASSUME OneProcess PROVE SpecAll => ToldMeansLoadable
<1>1. EP!OneEnrolment
  BY DEF OneProcess, EP!OneEnrolment
<1>2. EP!Loadable => E!Loadable
  BY DEF EP!Loadable, E!Loadable, EP!Identity, E!Identity
<1>3. EP!TypeInv /\ EP!IdentityInv /\ [NextAll]_allVars =>
        [\A p \in Proc :
           answer[p] = "none" /\ answer'[p] = "enrolled" => E!Loadable']_(E!vars)
  <2> SUFFICES ASSUME EP!TypeInv, EP!IdentityInv, [NextAll]_allVars, NEW p \in Proc,
                      answer[p] = "none", answer'[p] = "enrolled"
               PROVE  E!Loadable'
    OBVIOUS
  <2>1. EP!Loadable'
    BY <1>1, EnrolmentBounds, EnrolmentStep, EP!ToldStep
  <2> QED
    BY <2>1 DEF EP!Loadable, E!Loadable, EP!Identity, E!Identity
<1> QED
  BY <1>3, EnrolmentWhole, PTL DEF SpecAll, ToldMeansLoadable, E!ToldMeansLoadable

-----------------------------------------------------------------------------
(* Certificates.  Issuance has most steps; three are of the directory.     *)

\* The daemon is stopped: nothing of Issuance but the count of faults changes.
Stopped == Fault /\ UNCHANGED <<disk, core, intact, pc, locals, read>>

LEMMA Kinds ==
    ASSUME [NextAll]_allVars
    PROVE  [Next]_vars \/ (\E p \in Proc : Refused(p)) \/ StartOver \/ Stopped
<1>1. ASSUME NEW p \in Proc, RunRequest(p) \/ RunRenew(p) \/ Asked(p) \/ Local(p) \/ Die(p)
                             \/ StartInstall(p) \/ Unfulfilled(p)
      PROVE  Next
  BY <1>1 DEF RunRequest, RunRenew, Asked, Local, Die, Next, Step
<1>2. ASSUME StartDaemon \/ HeartbeatRefused \/ UNCHANGED allVars \/ (\E p \in Proc : Enrols(p))
      PROVE  UNCHANGED vars
  BY <1>2 DEF StartDaemon, HeartbeatRefused, allVars, Enrols
<1>3. ASSUME StopDaemon PROVE Stopped
  BY <1>3 DEF StopDaemon, Stopped
<1>4. ASSUME FallDue PROVE Next
  BY <1>4 DEF Next
<1> QED
  BY <1>1, <1>2, <1>3, <1>4 DEF NextAll, Works

LEMMA AllTypes == ASSUME TypeInv, [NextAll]_allVars PROVE TypeInv'
<1>1. CASE [Next]_vars
  BY <1>1, TypeStep
<1>2. ASSUME NEW p \in Proc, Refused(p) PROVE TypeInv'
  <2>1. CoreOK' /\ issued' = issued /\ OnDisk'
    BY <1>2 DEF Refused, TypeInv, CoreOK, OnDisk, core
  <2> QED
    BY <1>2, <2>1, FinishType DEF Refused, TypeInv
<1>3. ASSUME StartOver PROVE TypeInv'
  <2>1. CoreOK' /\ issued' = issued
    BY <1>3 DEF StartOver, TypeInv, CoreOK, core
  <2>2. None \in 0..issued /\ First \in File /\ "idle" \in Label
    BY Numbers DEF TypeInv, First, File, Label
  <2>3. LocalsOK'
    BY <1>3, <2>1, <2>2 DEF StartOver, TypeInv, LocalsOK
  <2>4. OnDisk'
    BY <1>3, <2>1, <2>2 DEF StartOver, OnDisk
  <2> QED
    BY <1>3, <2>1, <2>3, <2>4 DEF StartOver, TypeInv
<1>4. ASSUME Stopped PROVE TypeInv'
  BY <1>4, FaultType DEF Stopped, TypeInv, CoreOK, OnDisk, LocalsOK, core, locals
<1> QED
  BY <1>1, <1>2, <1>3, <1>4, Kinds

LEMMA AllOrder ==
    ASSUME OneProcess, TypeInv, OrderInv, [NextAll]_allVars PROVE OrderInv'
<1>1. CASE [Next]_vars
  BY <1>1, OrderStep
<1>2. ASSUME NEW p \in Proc, Refused(p) PROVE OrderInv'
  BY <1>2, OrderFinish DEF Refused
<1>3. ASSUME StartOver PROVE OrderInv'
  <2>1. None \notin Cert
    BY Numbers DEF TypeInv
  <2>2. WrittenInOrder'
    BY <1>3, <2>1 DEF StartOver, WrittenInOrder, NotAheadOf, File
  <2>3. ASSUME NEW p \in Proc PROVE SavesInOrder(p)'
    <3>1. issued' = issued
      BY <1>3 DEF StartOver, core
    <3>2. CASE Overtaken(p)
      BY <1>3, <3>2 DEF StartOver, SavesInOrder, Saves
    <3>3. CASE ~Overtaken(p)
      BY <1>3, <3>1, <3>3
         DEF StartOver, SavesInOrder, Saves, OrderInv, Overtaken, Saving, WrittenBefore, First
    <3> QED
      BY <3>2, <3>3
  <2> QED
    BY <2>2, <2>3 DEF OrderInv
<1>4. ASSUME Stopped PROVE OrderInv'
  BY <1>4 DEF Stopped, OrderInv, WrittenInOrder, NotAheadOf, SavesInOrder, Saves, WrittenBefore, core, locals
<1> QED
  BY <1>1, <1>2, <1>3, <1>4, Kinds

LEMMA AllReads ==
    ASSUME OneProcess, TypeInv, OrderInv, ReadInv, [NextAll]_allVars PROVE ReadInv'
<1>1. CASE [Next]_vars
  BY <1>1, ReadStep
<1>2. ASSUME NEW p \in Proc, Refused(p) PROVE ReadInv'
  BY <1>2 DEF Refused, Finish, Goto, TypeInv, LocalsOK, ReadInv, WholeOnDisk, ReadSoFar, Saves, OneProcess
<1>3. ASSUME StartOver PROVE ReadInv'
  <2>1. WholeOnDisk' /\ disk'["cert"] = None /\ disk'["key"] = None
    BY <1>3 DEF StartOver, WholeOnDisk, File
  <2>2. ASSUME NEW p \in Proc, intact' PROVE ReadSoFar(p)'
    <3>1. pc[p] \notin {"readChain", "install"}
      BY <1>3, <2>2 DEF StartOver
    <3> QED
      BY <1>3, <2>1, <3>1 DEF StartOver, ReadSoFar
  <2> QED
    BY <2>1, <2>2 DEF ReadInv
<1>4. ASSUME Stopped PROVE ReadInv'
  BY <1>4 DEF Stopped, ReadInv, WholeOnDisk, ReadSoFar, Saves
<1> QED
  BY <1>1, <1>2, <1>3, <1>4, Kinds

LEMMA AllDemand ==
    ASSUME OneProcess, TypeInv, OrderInv, DemandInv, [NextAll]_allVars PROVE DemandInv'
<1>0. ASSUME NEW p \in Proc, DemandOf(p)' PROVE DemandInv'
  BY <1>0 DEF DemandInv, OneProcess
<1>1. CASE [Next]_vars
  BY <1>1, DemandStep
<1>2. ASSUME NEW p \in Proc, Refused(p) PROVE DemandInv'
  BY <1>0, <1>2, DemandFinish DEF Refused, DemandInv, core
<1>3. ASSUME StartOver PROVE DemandInv'
  <2> PICK p \in Proc : TRUE
    BY DEF OneProcess
  <2>1. /\ Recorded' = {} /\ active' = active /\ asked' = asked /\ faults' = faults
        /\ DemandOf(p) /\ asked \in Nat /\ faults \in Nat
    BY <1>3, Numbers DEF StartOver, Recorded, File, TypeInv, core, DemandInv
  <2>2. /\ active' \cup Recorded' = active
        /\ Cardinality(active) <= Cardinality(active \cup Recorded)
        /\ Cardinality(active) \in Nat /\ Cardinality(active \cup Recorded) \in Nat
    BY <2>1, FiniteUse DEF TypeInv
  <2>3. CASE Overtaken(p)
    <3>1. pc'[p] = "idle" /\ renews'[p] = None /\ Saves(p)
      BY <1>3, <2>3 DEF StartOver, Overtaken, Saving, Saves
    <3> QED
      BY <1>0, <2>1, <2>2, <3>1 DEF DemandOf, Saves
  <2>4. CASE ~Overtaken(p)
    <3>1. pc'[p] = pc[p] /\ renews'[p] = renews[p] /\ new'[p] = new[p]
      BY <1>3, <2>4 DEF StartOver
    <3>2. DemandOf(p)'
      BY <2>1, <2>2, <3>1 DEF DemandOf, Saves
    <3> QED
      BY <1>0, <3>2
  <2> QED
    BY <2>3, <2>4
<1>4. ASSUME Stopped PROVE DemandInv'
  <2> PICK p \in Proc : TRUE
    BY DEF OneProcess
  <2>1. asked \in Nat /\ faults \in Nat /\ faults' = faults + 1
    BY <1>4, Numbers DEF Stopped, Fault, TypeInv
  <2>2. DemandOf(p) /\ IsFiniteSet(active \cup {renews[p]}) /\ Cardinality(active) \in Nat
        /\ Cardinality(active \cup Recorded) \in Nat
    BY FiniteUse DEF TypeInv, DemandInv
  <2>3. Cardinality(active \cup {renews[p]}) \in Nat
    BY <2>2, FS_CardinalityType
  <2>4. UNCHANGED <<disk, active, asked, pc, new, renews>>
    BY <1>4 DEF Stopped, core, locals
  <2>5. DemandOf(p)'
    BY <2>1, <2>2, <2>3, <2>4 DEF DemandOf, Recorded, Saves
  <2> QED
    BY <1>0, <2>5
<1> QED
  BY <1>1, <1>2, <1>3, <1>4, Kinds

CertificateInv == TypeInv /\ OrderInv /\ ReadInv /\ DemandInv

LEMMA Certificates == ASSUME OneProcess PROVE SpecAll => []CertificateInv
<1>1. InitAll => CertificateInv
  BY TypeInit, OrderInit, ReadInit, DemandInit DEF InitAll, CertificateInv
<1>2. CertificateInv /\ [NextAll]_allVars => CertificateInv'
  BY AllTypes, AllOrder, AllReads, AllDemand DEF CertificateInv
<1> QED
  BY <1>1, <1>2, PTL DEF SpecAll

\* save, in a directory that is removed at any moment and made anew: no file is
\* ever ahead of one it writes before it.
THEOREM NoFileAheadAll == ASSUME OneProcess PROVE SpecAll => []WrittenInOrder
<1>1. CertificateInv => WrittenInOrder
  BY DEF CertificateInv, OrderInv
<1> QED
  BY <1>1, Certificates, PTL

\* Request and readMaterial: what an installation read is one issuance, unless a
\* save was interrupted or the directory was removed while it read the last of it.
THEOREM IsReadTogetherAll == ASSUME OneProcess PROVE SpecAll => []ReadTogether
<1>1. CertificateInv => ReadTogether
  BY ReadInvSuffices DEF CertificateInv
<1> QED
  BY <1>1, Certificates, PTL

\* Request.Renews, for requests signed by whichever identity the daemon or the
\* command has loaded: certificates in use beyond those asked for are paid for.
THEOREM UseIsPaidForAll == ASSUME OneProcess PROVE SpecAll => []InUsePerDemand
<1>1. CertificateInv => InUsePerDemand
  BY DemandMet DEF CertificateInv, DemandInv, OneProcess
<1> QED
  BY <1>1, Certificates, PTL

-----------------------------------------------------------------------------
(* The daemon, with any number of processes.                               *)

DaemonOK == running \in 0..accepted /\ signs \in [Proc -> 0..accepted]

LEMMA AcceptedGrows ==
    ASSUME EP!TypeInv, [NextAll]_allVars
    PROVE  accepted \in Nat /\ accepted' \in {accepted, accepted + 1}
<1>1. accepted \in Nat
  BY DEF EP!TypeInv, EP!TypeOK
<1>2. [EP!Next]_(EP!vars)
  BY EnrolmentStep
<1>3. ASSUME EP!Next PROVE accepted' \in {accepted, accepted + 1}
  BY <1>3 DEF EP!Next, EP!Start, EP!Refuse, EP!Answered, EP!NotAnswered, EP!OpenKey,
        EP!WriteKey, EP!OpenState, EP!WriteState, EP!SaveFails, EP!Crash, EP!StartOver,
        EP!Accept, EP!core
<1> QED
  BY <1>1, <1>2, <1>3 DEF EP!vars, EP!core

LEMMA DaemonStep ==
    ASSUME EP!TypeInv, DaemonOK, [NextAll]_allVars
    PROVE  DaemonOK'
<1>1. /\ accepted \in Nat /\ NoOne \in 0..accepted'
      /\ 0..accepted \subseteq 0..accepted'
  BY AcceptedGrows DEF E!None, NoOne
<1>2. E!Loadable => state \in 0..accepted
  BY <1>1 DEF EP!TypeInv, EP!Known, E!Loadable, E!Identity, EP!Torn, EP!TypeOK
<1>3. ASSUME StartDaemon \/ HeartbeatRefused \/ StopDaemon PROVE DaemonOK'
  BY <1>1, <1>2, <1>3 DEF StartDaemon, HeartbeatRefused, StopDaemon, DaemonOK, enrolment
<1>4. ASSUME NEW p \in Proc, RunRequest(p) \/ RunRenew(p) PROVE DaemonOK'
  BY <1>1, <1>2, <1>4 DEF RunRequest, RunRenew, DaemonOK, enrolment
<1>5. ASSUME NEW p \in Proc, Die(p) PROVE DaemonOK'
  BY <1>1, <1>5 DEF Die, DaemonOK, enrolment
<1>6. ASSUME UNCHANGED daemon PROVE DaemonOK'
  BY <1>1, <1>6 DEF daemon, DaemonOK
<1>7. ASSUME NEW p \in Proc, Refused(p) \/ Enrols(p) PROVE UNCHANGED daemon
  BY <1>7 DEF Refused, Enrols
<1>8. ASSUME StartOver \/ UNCHANGED allVars PROVE UNCHANGED daemon
  BY <1>8 DEF StartOver, allVars
<1> QED
  BY <1>3, <1>4, <1>5, <1>6, <1>7, <1>8 DEF NextAll, Works

\* Every part of the composed state has its type: identities, on the disk, in the
\* daemon or behind a request, are numbers no attempt to enrol exceeds.
THEOREM TypeCorrectAll == SpecAll => []TypeOKAll
<1>1. InitAll => TypeInv /\ DaemonOK
  <2>1. ASSUME InitAll PROVE DaemonOK
    BY <2>1 DEF InitAll, E!Init, DaemonOK, NoOne, E!None
  <2> QED
    BY <2>1, TypeInit DEF InitAll
<1>2. EP!TypeInv /\ TypeInv /\ DaemonOK /\ [NextAll]_allVars => TypeInv' /\ DaemonOK'
  BY AllTypes, DaemonStep
<1>3. EP!TypeInv => E!TypeOK
  BY DEF EP!TypeInv, EP!TypeOK, E!TypeOK, EP!Content, E!Content, EP!None, E!None,
         EP!Torn, E!Torn, EP!Saving, E!Saving
<1>4. EP!TypeInv /\ TypeInv /\ DaemonOK => TypeOKAll
  BY <1>3, TypeOKHolds DEF TypeOKAll, DaemonOK
<1> QED
  BY <1>1, <1>2, <1>4, EnrolmentTypes, PTL DEF SpecAll
=============================================================================
