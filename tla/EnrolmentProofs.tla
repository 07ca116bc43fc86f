---------------------------- MODULE EnrolmentProofs ----------------------------
(* Theorems about Enrolment.  They are stated as facts about the initial   *)
(* states and the steps as well, for the modules Enrolment is a part of.   *)
EXTENDS Enrolment, FiniteSetTheorems, TLAPS

Bounds == MaxAttempts \in Nat /\ MaxFaults \in Nat

USE DEF Bounds

-----------------------------------------------------------------------------
(* Type correctness.  The core accepts no more agents than were asked for: *)
(* one for each enrolment that waits for an answer is still to come.       *)

Asking == {p \in Proc : pc[p] = "ask"}

Waited == /\ IsFiniteSet(Asking)
          /\ accepted + Cardinality(Asking) <= attempts

\* Nothing is in the two files that the core has not accepted.
Known == {key, state} \subseteq (0..accepted) \cup {Torn}

TypeInv == TypeOK /\ Waited /\ Known

LEMMA FaultType ==
    ASSUME Bounds, faults \in 0..MaxFaults, Fault
    PROVE  faults' \in 0..MaxFaults
BY DEF Bounds, Fault

\* One enrolment more waits for its answer, or one less.
LEMMA AskingMore ==
    ASSUME Waited, pc \in [Proc -> {"idle", "ask"} \cup Saving], NEW p \in Proc,
           pc[p] # "ask", pc' = [pc EXCEPT ![p] = "ask"]
    PROVE  IsFiniteSet(Asking') /\ Cardinality(Asking') = Cardinality(Asking) + 1
<1>1. Asking' = Asking \cup {p} /\ p \notin Asking
  BY DEF Asking
<1> QED
  BY <1>1, FS_AddElement DEF Waited

LEMMA AskingLess ==
    ASSUME Waited, pc \in [Proc -> {"idle", "ask"} \cup Saving], NEW p \in Proc,
           NEW label, label # "ask", pc[p] = "ask", pc' = [pc EXCEPT ![p] = label]
    PROVE  IsFiniteSet(Asking') /\ Cardinality(Asking') = Cardinality(Asking) - 1
<1>1. Asking' = Asking \ {p} /\ p \in Asking
  BY DEF Asking
<1> QED
  BY <1>1, FS_RemoveElement DEF Waited

LEMMA AskingSame ==
    ASSUME NEW p \in Proc, NEW label, label # "ask", pc[p] # "ask",
           pc \in [Proc -> {"idle", "ask"} \cup Saving],
           pc' = [pc EXCEPT ![p] = label]
    PROVE  Asking' = Asking
BY DEF Asking

LEMMA AskingNatural ==
    ASSUME Waited PROVE Cardinality(Asking) \in Nat
BY FS_CardinalityType DEF Waited

LEMMA TypeInit == ASSUME Bounds, Init PROVE TypeInv
<1>1. Asking = {}
  BY DEF Init, Asking
<1>2. IsFiniteSet(Asking) /\ Cardinality(Asking) = 0
  BY <1>1, FS_EmptySet
<1> QED
  BY <1>2 DEF Bounds, Init, TypeInv, TypeOK, Waited, Known, Content, None, Torn, Saving

\* What the steps shared by several actions do to the types.
Told == {"none", "alreadyEnrolled", "notEnrolled", "enrolled", "startOver"}

LEMMA ReturnType ==
    ASSUME Bounds, TypeOK, NEW p \in Proc, NEW told \in Told, Return(p, told)
    PROVE  /\ pc' \in [Proc -> {"idle", "ask"} \cup Saving]
           /\ mine' \in [Proc -> 0..accepted]
           /\ answer' \in [Proc -> Told]
BY DEF TypeOK, Return, None, Told

LEMMA GotoType ==
    ASSUME Bounds, TypeOK, NEW p \in Proc, NEW label \in Saving, Goto(p, label)
    PROVE  /\ pc' \in [Proc -> {"idle", "ask"} \cup Saving]
           /\ mine' \in [Proc -> 0..accepted]
           /\ answer' \in [Proc -> Told]
BY DEF TypeOK, Goto, Told

\* A step that takes no answer and starts nothing.
LEMMA WaitedStays ==
    ASSUME Bounds, TypeInv, NEW p \in Proc, NEW label, label # "ask",
           pc[p] # "ask", pc' = [pc EXCEPT ![p] = label],
           UNCHANGED <<accepted, attempts>>
    PROVE  Waited'
BY AskingSame DEF TypeInv, TypeOK, Waited

\* One that takes an answer, or gives up waiting for it.
LEMMA WaitedLess ==
    ASSUME Bounds, TypeInv, NEW p \in Proc, NEW label, label # "ask",
           pc[p] = "ask", pc' = [pc EXCEPT ![p] = label],
           accepted' \in {accepted, accepted + 1}, UNCHANGED attempts
    PROVE  /\ Waited'
           /\ accepted' \in 0..attempts
<1>1. accepted \in Nat /\ attempts \in Nat
  BY DEF TypeInv, TypeOK
<1>2. /\ accepted + Cardinality(Asking) <= attempts
      /\ Cardinality(Asking) \in Nat
      /\ IsFiniteSet(Asking') /\ Cardinality(Asking') = Cardinality(Asking) - 1
  BY AskingLess, AskingNatural DEF TypeInv, TypeOK, Waited
<1>3. Cardinality(Asking') \in Nat
  BY <1>2, FS_CardinalityType
<1> QED
  BY <1>1, <1>2, <1>3 DEF Waited

LEMMA AcceptType ==
    ASSUME Bounds, TypeInv, Accept \/ UNCHANGED core
    PROVE  /\ live' \subseteq 1..accepted'
           /\ 0..accepted \subseteq 0..accepted'
           /\ UNCHANGED <<key, state>> => Known'
<1>1. accepted \in Nat /\ accepted' \in {accepted, accepted + 1}
  BY DEF TypeInv, TypeOK, Accept, core
<1>2. 0..accepted \subseteq 0..accepted'
  BY <1>1
<1>3. live' \subseteq 1..accepted'
  <2>1. live \subseteq 1..accepted
    BY DEF TypeInv, TypeOK
  <2>2. CASE Accept
    BY <1>1, <2>1, <2>2 DEF Accept
  <2>3. CASE UNCHANGED core
    BY <2>1, <2>3 DEF core
  <2> QED
    BY <2>2, <2>3
<1>4. ASSUME UNCHANGED <<key, state>> PROVE Known'
  BY <1>2, <1>4 DEF TypeInv, Known, Torn
<1> QED
  BY <1>2, <1>3, <1>4

LEMMA TypeStep ==
    ASSUME Bounds, TypeInv, [Next]_vars
    PROVE  TypeInv'
<1>0. TypeOK /\ Waited /\ Known
  BY DEF TypeInv
<1>1. ASSUME NEW p \in Proc, Start(p) PROVE TypeInv'
  <2>1. Waited'
    <3>1. IsFiniteSet(Asking') /\ Cardinality(Asking') = Cardinality(Asking) + 1
      BY <1>0, <1>1, AskingMore DEF Start, TypeOK
    <3> QED
      BY <1>0, <1>1, <3>1, AskingNatural DEF Start, core, Waited, TypeOK
  <2> QED
    BY <1>0, <1>1, <2>1 DEF Start, core, TypeInv, TypeOK, Known
<1>2. ASSUME NEW p \in Proc, Refuse(p) PROVE TypeInv'
  <2>1. Waited'
    BY <1>2, WaitedStays DEF Refuse, Return, core
  <2> QED
    BY <1>0, <1>2, <2>1, ReturnType DEF Refuse, core, TypeInv, TypeOK, Known, Told
<1>3. ASSUME NEW p \in Proc, Answered(p) PROVE TypeInv'
  <2>1. Waited' /\ accepted' \in 0..attempts
    BY <1>3, WaitedLess DEF Answered, Accept
  <2>2. live' \subseteq 1..accepted' /\ Known' /\ 0..accepted \subseteq 0..accepted'
    BY <1>3, AcceptType DEF Answered
  <2>3. mine' \in [Proc -> 0..accepted']
    BY <1>0, <1>3, <2>1, <2>2 DEF Answered, Accept, TypeOK
  <2> QED
    BY <1>0, <1>3, <2>1, <2>2, <2>3 DEF Answered, TypeInv, TypeOK, Saving
<1>4. ASSUME NEW p \in Proc, NotAnswered(p) PROVE TypeInv'
  <2>1. Waited' /\ accepted' \in 0..attempts
    BY <1>4, WaitedLess DEF NotAnswered, Return, Accept, core
  <2>2. /\ live' \subseteq 1..accepted' /\ Known'
        /\ 0..accepted \subseteq 0..accepted'
    BY <1>4, AcceptType DEF NotAnswered
  <2>3. faults' \in 0..MaxFaults
    BY <1>0, <1>4, FaultType DEF NotAnswered, TypeOK
  <2> QED
    BY <1>0, <1>4, <2>1, <2>2, <2>3, ReturnType DEF NotAnswered, TypeInv, TypeOK, Told
<1>5. ASSUME NEW p \in Proc, OpenKey(p) \/ WriteKey(p) \/ OpenState(p) PROVE TypeInv'
  <2>1. UNCHANGED <<core, attempts, faults>>
    BY <1>5 DEF OpenKey, WriteKey, OpenState
  <2>2. PICK label \in Saving : Goto(p, label) /\ pc[p] # "ask"
    BY <1>5 DEF OpenKey, WriteKey, OpenState, Saving
  <2>3. Waited'
    BY <2>1, <2>2, WaitedStays DEF Goto, core, Saving
  <2>4. Known' /\ {key', state'} \subseteq Content
    BY <1>0, <1>5, <2>1
    DEF OpenKey, WriteKey, OpenState, Known, TypeOK, Content, Torn, None, core
  <2> QED
    BY <1>0, <2>1, <2>2, <2>3, <2>4, GotoType DEF core, TypeInv, TypeOK, Told
<1>6. ASSUME NEW p \in Proc, WriteState(p) PROVE TypeInv'
  <2>1. Waited'
    BY <1>6, WaitedStays DEF WriteState, Return, core
  <2>2. Known' /\ {key', state'} \subseteq Content
    BY <1>0, <1>6 DEF WriteState, Known, TypeOK, Content, Torn, None, core
  <2> QED
    BY <1>0, <1>6, <2>1, <2>2, ReturnType DEF WriteState, core, TypeInv, TypeOK, Told
<1>7. ASSUME NEW p \in Proc, SaveFails(p) PROVE TypeInv'
  <2>1. Waited'
    BY <1>7, WaitedStays DEF SaveFails, Return, core, Saving
  <2>2. Known' /\ {key', state'} \subseteq Content
    BY <1>0, <1>7 DEF SaveFails, Known, TypeOK, Content, Torn, None, core
  <2>3. faults' \in 0..MaxFaults
    BY <1>0, <1>7, FaultType DEF SaveFails, TypeOK
  <2> QED
    BY <1>0, <1>7, <2>1, <2>2, <2>3, ReturnType DEF SaveFails, core, TypeInv, TypeOK, Told
<1>8. ASSUME NEW p \in Proc, Crash(p) PROVE TypeInv'
  <2>1. Waited' /\ accepted' \in 0..attempts
    <3>1. CASE pc[p] = "ask"
      BY <1>8, <3>1, WaitedLess DEF Crash, Return, Accept, core
    <3>2. CASE pc[p] # "ask"
      BY <1>0, <1>8, <3>2, WaitedStays DEF Crash, Return, core, TypeOK
    <3> QED
      BY <3>1, <3>2
  <2>2. /\ live' \subseteq 1..accepted' /\ Known'
        /\ 0..accepted \subseteq 0..accepted'
    BY <1>8, AcceptType DEF Crash
  <2>3. faults' \in 0..MaxFaults
    BY <1>0, <1>8, FaultType DEF Crash, TypeOK
  <2> QED
    BY <1>0, <1>8, <2>1, <2>2, <2>3, ReturnType DEF Crash, TypeInv, TypeOK, Told
<1>9. ASSUME StartOver PROVE TypeInv'
  <2>1. Waited'
    BY <1>0, <1>9 DEF StartOver, Waited, Asking
  <2>2. key' = 0 /\ state' = 0 /\ accepted' = accepted /\ accepted \in Nat
    BY <1>0, <1>9 DEF StartOver, None, TypeOK
  <2>3. Known' /\ {key', state'} \subseteq Content'
    BY <2>2 DEF Known, Content, None, Torn
  <2> QED
    BY <1>0, <1>9, <2>1, <2>3 DEF StartOver, TypeInv, TypeOK, Known, Content, None, Torn
<1>10. CASE UNCHANGED vars
  BY <1>0, <1>10 DEF vars, core, TypeInv, TypeOK, Known, Waited, Asking
<1> QED
  BY <1>1, <1>2, <1>3, <1>4, <1>5, <1>6, <1>7, <1>8, <1>9, <1>10 DEF Next

LEMMA TypeInvariant == ASSUME Bounds PROVE Spec => []TypeInv
BY TypeInit, TypeStep, PTL DEF Spec

\* However many enrolments run at once, what is kept of them has its type: the
\* core has accepted no more agents than somebody asked it to.
THEOREM TypeCorrect == ASSUME Bounds PROVE Spec => []TypeOK
<1>1. TypeInv => TypeOK
  BY DEF TypeInv
<1> QED
  BY <1>1, TypeInvariant, PTL

-----------------------------------------------------------------------------
(* What can be loaded is whole.  This is about one enrolment at a time: of *)
(* two, one may write its key between the other's key and agent.json.      *)

OneEnrolment == \E h : Proc = {h}

Before(p) ==
    /\ pc[p] \in {"ask", "openKey", "writeKey", "openState"} => state = None
    /\ pc[p] = "writeState" => state = Torn

\* The identity being saved is one the core takes, and the key's file has it
\* by the time that agent.json is touched.
Underway(p) ==
    /\ IF pc[p] \in Saving THEN mine[p] \in live ELSE mine[p] = None
    /\ pc[p] \in {"openState", "writeState"} => key = mine[p]

IdentityInv == LoadableIsOne /\ \A p \in Proc : Before(p) /\ Underway(p)

LEMMA Numbers ==
    ASSUME Bounds, TypeInv
    PROVE  /\ accepted \in Nat /\ accepted <= MaxAttempts
           /\ live \subseteq 1..accepted
           /\ live \subseteq Identity
           /\ None \notin Identity /\ Torn \notin Identity /\ None # Torn
<1>1. accepted \in Nat /\ accepted <= MaxAttempts /\ live \subseteq 1..accepted
  BY DEF TypeInv, TypeOK
<1>2. live \subseteq Identity
  BY <1>1 DEF Identity
<1> QED
  BY <1>1, <1>2 DEF Identity, None, Torn

LEMMA IdentityInit == ASSUME Bounds, Init PROVE IdentityInv
BY DEF Init, IdentityInv, Before, Underway, LoadableIsOne, Loadable, Identity, None, Saving

\* An enrolment that ends, with or without what it was for.
LEMMA ReturnInv ==
    ASSUME Bounds, TypeInv, NEW h, Proc = {h}, NEW told, Return(h, told)
    PROVE  \A p \in Proc : Before(p)' /\ Underway(p)'
BY DEF TypeInv, TypeOK, Return, Before, Underway, Saving

LEMMA IdentityStep ==
    ASSUME Bounds, OneEnrolment, TypeInv, IdentityInv, [Next]_vars
    PROVE  IdentityInv'
<1>1. PICK h : Proc = {h}
  BY DEF OneEnrolment
<1>2. LoadableIsOne /\ Before(h) /\ Underway(h)
  BY <1>1 DEF IdentityInv
<1>3. LoadableIsOne' /\ (\A p \in Proc : Before(p)' /\ Underway(p)') => IdentityInv'
  BY DEF IdentityInv
<1>4. /\ pc \in [Proc -> {"idle", "ask"} \cup Saving]
      /\ mine \in [Proc -> 0..accepted]
  BY DEF TypeInv, TypeOK
\* The files and the core's list stand, but for one more agent.
<1>5. ASSUME UNCHANGED <<key, state>>, live \subseteq live'
      PROVE  LoadableIsOne'
  BY <1>2, <1>5 DEF LoadableIsOne, Loadable, Identity
<1>6. ASSUME Start(h) PROVE IdentityInv'
  BY <1>1, <1>2, <1>4, <1>5, <1>6
  DEF Start, Enrolled, core, IdentityInv, Before, Underway, Saving
<1>7. ASSUME Refuse(h) PROVE IdentityInv'
  BY <1>1, <1>3, <1>5, <1>7, ReturnInv DEF Refuse, core
<1>8. ASSUME Answered(h) PROVE IdentityInv'
  BY <1>1, <1>2, <1>4, <1>5, <1>8
  DEF Answered, Accept, IdentityInv, Before, Underway, Saving
<1>9. ASSUME NotAnswered(h) PROVE IdentityInv'
  BY <1>1, <1>3, <1>5, <1>9, ReturnInv DEF NotAnswered, Accept, core
<1>10. ASSUME OpenKey(h) PROVE IdentityInv'
  BY <1>1, <1>2, <1>4, <1>10, Numbers
  DEF OpenKey, Goto, core, IdentityInv, Before, Underway, LoadableIsOne, Loadable, Saving
<1>11. ASSUME WriteKey(h) PROVE IdentityInv'
  BY <1>1, <1>2, <1>4, <1>11, Numbers
  DEF WriteKey, Goto, core, IdentityInv, Before, Underway, LoadableIsOne, Loadable, Saving
<1>12. ASSUME OpenState(h) PROVE IdentityInv'
  BY <1>1, <1>2, <1>4, <1>12, Numbers
  DEF OpenState, Goto, core, IdentityInv, Before, Underway, LoadableIsOne, Loadable, Saving
<1>13. ASSUME WriteState(h) PROVE IdentityInv'
  <2>1. LoadableIsOne'
    BY <1>2, <1>13 DEF WriteState, core, Underway, LoadableIsOne, Saving
  <2> QED
    BY <1>1, <1>3, <1>13, <2>1, ReturnInv DEF WriteState
<1>14. ASSUME SaveFails(h) PROVE IdentityInv'
  <2>1. LoadableIsOne'
    BY <1>2, <1>5, <1>14, Numbers
    DEF SaveFails, core, Before, Underway, LoadableIsOne, Loadable, Saving
  <2> QED
    BY <1>1, <1>3, <1>14, <2>1, ReturnInv DEF SaveFails
<1>15. ASSUME Crash(h) PROVE IdentityInv'
  BY <1>1, <1>3, <1>5, <1>15, ReturnInv DEF Crash, Accept, core
<1>16. ASSUME StartOver PROVE IdentityInv'
  BY <1>1, <1>2, <1>4, <1>16, Numbers
  DEF StartOver, IdentityInv, Before, Underway, LoadableIsOne, Loadable, Saving
<1>17. CASE UNCHANGED vars
  BY <1>1, <1>2, <1>17
  DEF vars, core, IdentityInv, Before, Underway, LoadableIsOne, Loadable
<1> QED
  BY <1>1, <1>6, <1>7, <1>8, <1>9, <1>10, <1>11, <1>12, <1>13, <1>14, <1>15,
     <1>16, <1>17
  DEF Next

LEMMA IdentityInvariant ==
    ASSUME Bounds, OneEnrolment PROVE Spec => [](TypeInv /\ IdentityInv)
BY TypeInit, TypeStep, IdentityInit, IdentityStep, PTL DEF Spec

\* LoadIdentity, which never checks it: wherever an enrolment is cut short and
\* however often one is begun again, a key and an agent id that can be loaded are
\* of one enrolment, and one the core still takes.
THEOREM LoadedIsWhole ==
    ASSUME Bounds, OneEnrolment PROVE Spec => []LoadableIsOne
<1>1. IdentityInv => LoadableIsOne
  BY DEF IdentityInv
<1> QED
  BY <1>1, IdentityInvariant, PTL

\* Enrol returns without an error only when LoadIdentity will find an identity.
LEMMA ToldStep ==
    ASSUME Bounds, OneEnrolment, TypeInv, IdentityInv, [Next]_vars, NEW p \in Proc,
           answer[p] = "none", answer'[p] = "enrolled"
    PROVE  Loadable'
<1>1. PICK h : Proc = {h}
  BY DEF OneEnrolment
<1>2. p = h /\ Underway(h) /\ answer \in [Proc -> Told]
  BY <1>1 DEF IdentityInv, TypeInv, TypeOK, Told
<1>3. ASSUME UNCHANGED answer PROVE FALSE
  BY <1>3
<1>4. ASSUME NEW told, Return(h, told) PROVE told = "enrolled"
  BY <1>1, <1>2, <1>4 DEF Return
<1>5. ASSUME Start(h) \/ Answered(h) \/ OpenKey(h) \/ WriteKey(h) \/ OpenState(h)
      PROVE  FALSE
  BY <1>2, <1>3, <1>5 DEF Start, Answered, OpenKey, WriteKey, OpenState, Goto, Told
<1>6. ASSUME Refuse(h) \/ NotAnswered(h) \/ SaveFails(h) \/ Crash(h) PROVE FALSE
  BY <1>4, <1>6 DEF Refuse, NotAnswered, SaveFails, Crash
<1>7. ASSUME WriteState(h) PROVE Loadable'
  BY <1>2, <1>7, Numbers DEF WriteState, core, Underway, Loadable, Saving
<1>8. ASSUME StartOver \/ UNCHANGED vars PROVE FALSE
  BY <1>3, <1>8 DEF StartOver, vars
<1> QED
  BY <1>1, <1>5, <1>6, <1>7, <1>8 DEF Next

\* Whoever was told "enrolled" has an identity that loads.
THEOREM ToldIsLoadable ==
    ASSUME Bounds, OneEnrolment PROVE Spec => ToldMeansLoadable
<1>1. TypeInv /\ IdentityInv /\ [Next]_vars =>
        [\A p \in Proc :
           answer[p] = "none" /\ answer'[p] = "enrolled" => Loadable']_vars
  BY ToldStep
<1> QED
  BY <1>1, IdentityInvariant, PTL DEF Spec, ToldMeansLoadable

-----------------------------------------------------------------------------
(* Live agents that are nobody's: neither in agent.json nor on their way   *)
(* there.                                                                  *)

Orphans(p) == live \ {state, mine[p]}
OrphansInv == \A p \in Proc : Cardinality(Orphans(p)) <= faults

LEMMA LiveIsFinite ==
    ASSUME Bounds, TypeInv
    PROVE  IsFiniteSet(live)
<1>1. live \subseteq 1..accepted /\ accepted \in Nat
  BY Numbers
<1>2. IsFiniteSet(1..accepted)
  BY <1>1, FS_Interval, 1 \in Int, accepted \in Int
<1> QED
  BY <1>1, <1>2, FS_Subset

LEMMA OneMore ==
    ASSUME NEW S, NEW T, NEW x, IsFiniteSet(S), T \subseteq S \cup {x}
    PROVE  /\ IsFiniteSet(T)
           /\ Cardinality(T) \in Nat /\ Cardinality(S) \in Nat
           /\ Cardinality(T) <= Cardinality(S) + 1
           /\ T \subseteq S => Cardinality(T) <= Cardinality(S)
<1>1. /\ IsFiniteSet(S \cup {x}) /\ Cardinality(S) \in Nat
      /\ Cardinality(S \cup {x}) \in {Cardinality(S), Cardinality(S) + 1}
  BY FS_AddElement, FS_CardinalityType
<1>2. IsFiniteSet(T) /\ Cardinality(T) <= Cardinality(S \cup {x})
  BY <1>1, FS_Subset
<1>3. T \subseteq S => Cardinality(T) <= Cardinality(S)
  BY FS_Subset
<1> QED
  BY <1>1, <1>2, <1>3, FS_CardinalityType

LEMMA OrphansInit == ASSUME Bounds, Init PROVE OrphansInv
<1>1. \A p \in Proc : Orphans(p) = {}
  BY DEF Init, Orphans
<1> QED
  BY <1>1, FS_EmptySet DEF Init, OrphansInv

LEMMA OrphansStep ==
    ASSUME Bounds, OneEnrolment, TypeInv, IdentityInv, OrphansInv, [Next]_vars
    PROVE  OrphansInv'
<1>1. PICK h : Proc = {h}
  BY DEF OneEnrolment
<1>2. Before(h) /\ Underway(h) /\ Cardinality(Orphans(h)) <= faults
  BY <1>1 DEF IdentityInv, OrphansInv
<1>3. /\ pc \in [Proc -> {"idle", "ask"} \cup Saving]
      /\ mine \in [Proc -> 0..accepted] /\ faults \in Nat
  BY DEF TypeInv, TypeOK
<1>4. IsFiniteSet(Orphans(h)) /\ Cardinality(Orphans(h)) \in Nat
  <2>1. Orphans(h) \subseteq live
    BY DEF Orphans
  <2> QED
    BY <2>1, LiveIsFinite, FS_Subset, FS_CardinalityType
\* A step makes no agent an orphan, or it is a failure and makes one.
<1>5. ASSUME Orphans(h)' \subseteq Orphans(h), UNCHANGED faults PROVE OrphansInv'
  <2>1. Cardinality(Orphans(h)') <= Cardinality(Orphans(h)) /\ Cardinality(Orphans(h)') \in Nat
    BY <1>4, <1>5, FS_Subset, FS_CardinalityType
  <2> QED
    BY <1>1, <1>2, <1>3, <1>4, <1>5, <2>1 DEF OrphansInv
<1>6. ASSUME NEW agent, Orphans(h)' \subseteq Orphans(h) \cup {agent}, Fault
      PROVE  OrphansInv'
  <2>1. /\ Cardinality(Orphans(h)') <= Cardinality(Orphans(h)) + 1
        /\ Cardinality(Orphans(h)') \in Nat
    BY <1>4, <1>6, OneMore
  <2> QED
    BY <1>1, <1>2, <1>3, <1>4, <1>6, <2>1 DEF Fault, OrphansInv
<1>7. ASSUME Start(h) PROVE OrphansInv'
  BY <1>5, <1>7 DEF Start, core, Orphans
<1>8. ASSUME Refuse(h) PROVE OrphansInv'
  BY <1>1, <1>2, <1>3, <1>5, <1>8, Numbers
  DEF Refuse, Return, core, Orphans, Underway, Saving
<1>9. ASSUME Answered(h) PROVE OrphansInv'
  BY <1>1, <1>2, <1>3, <1>5, <1>9, Numbers
  DEF Answered, Accept, Orphans, Underway, Saving
<1>10. ASSUME NotAnswered(h) PROVE OrphansInv'
  <2>1. Orphans(h)' \subseteq Orphans(h) \cup {accepted + 1}
    BY <1>1, <1>2, <1>3, <1>10, Numbers
    DEF NotAnswered, Return, Accept, core, Orphans, Underway, Saving
  <2> QED
    BY <1>6, <1>10, <2>1 DEF NotAnswered
<1>11. ASSUME OpenKey(h) \/ WriteKey(h) PROVE OrphansInv'
  BY <1>5, <1>11 DEF OpenKey, WriteKey, Goto, core, Orphans
<1>12. ASSUME OpenState(h) PROVE OrphansInv'
  BY <1>2, <1>5, <1>12, Numbers DEF OpenState, Goto, core, Orphans, Before
<1>13. ASSUME WriteState(h) PROVE OrphansInv'
  BY <1>1, <1>2, <1>3, <1>5, <1>13, Numbers
  DEF WriteState, Return, core, Orphans, Before
<1>14. ASSUME SaveFails(h) PROVE OrphansInv'
  <2>1. Orphans(h)' \subseteq Orphans(h) \cup {mine[h]}
    BY <1>1, <1>2, <1>3, <1>14, Numbers
    DEF SaveFails, Return, core, Orphans, Before
  <2> QED
    BY <1>6, <1>14, <2>1 DEF SaveFails
<1>15. ASSUME Crash(h) PROVE OrphansInv'
  <2>1. \E agent : Orphans(h)' \subseteq Orphans(h) \cup {agent}
    <3>1. CASE UNCHANGED core
      <4>1. Orphans(h)' \subseteq Orphans(h) \cup {mine[h]}
        BY <1>15, <3>1 DEF Crash, core, Orphans
      <4> QED
        BY <4>1
    <3>2. CASE pc[h] = "ask" /\ Accept
      <4>1. Orphans(h)' \subseteq Orphans(h) \cup {accepted + 1}
        BY <1>2, <1>15, <3>2, Numbers
        DEF Crash, Accept, Orphans, Underway, Saving
      <4> QED
        BY <4>1
    <3> QED
      BY <1>15, <3>1, <3>2 DEF Crash
  <2> QED
    BY <1>6, <1>15, <2>1 DEF Crash
<1>16. ASSUME StartOver PROVE OrphansInv'
  BY <1>5, <1>16 DEF StartOver, Orphans
<1>17. CASE UNCHANGED vars
  BY <1>5, <1>17 DEF vars, core, Orphans
<1> QED
  BY <1>1, <1>7, <1>8, <1>9, <1>10, <1>11, <1>12, <1>13, <1>14, <1>15, <1>16,
     <1>17
  DEF Next

LEMMA OrphansImplied ==
    ASSUME Bounds, OneEnrolment, TypeInv, IdentityInv, OrphansInv
    PROVE  OrphansPerFailure
<1>1. PICK h : Proc = {h}
  BY DEF OneEnrolment
<1>2. SUFFICES ASSUME pc[h] = "idle" PROVE Cardinality(live \ {state}) <= faults
  BY <1>1 DEF OrphansPerFailure
<1>3. live \ {state} = Orphans(h)
  BY <1>1, <1>2, Numbers DEF IdentityInv, Underway, Orphans, Saving
<1> QED
  BY <1>1, <1>3 DEF OrphansInv

\* Enrol: between enrolments the core has no live agent but this host's own,
\* except for one for each failure there was.
THEOREM OrphansArePaidFor ==
    ASSUME Bounds, OneEnrolment PROVE Spec => []OrphansPerFailure
<1>1. Init => OrphansInv
  BY OrphansInit
<1>2. TypeInv /\ IdentityInv /\ OrphansInv /\ [Next]_vars => OrphansInv'
  BY OrphansStep
<1>3. TypeInv /\ IdentityInv /\ OrphansInv => OrphansPerFailure
  BY OrphansImplied
<1> QED
  BY <1>1, <1>2, <1>3, IdentityInvariant, PTL DEF Spec
=============================================================================
