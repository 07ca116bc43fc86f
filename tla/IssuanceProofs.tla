---------------------------- MODULE IssuanceProofs ----------------------------
(* Theorems about Issuance, for every value of its constants.  They are    *)
(* stated as facts about the initial states and the steps as well, for the *)
(* modules Issuance is a part of.                                          *)
EXTENDS Issuance, FiniteSetTheorems, TLAPS

USE IssuanceAssumption

-----------------------------------------------------------------------------
(* Type correctness.                                                       *)

Label == {"idle", "ask", "open", "write", "readCert", "readKey", "readChain", "install"}
Reading == [meta : Content, cert : Content, key : Content, chain : Content]

\* What is in a file has been issued, or is cut short.
OnDisk == disk \in [File -> (0..issued) \cup {Torn}]

LocalsOK ==
    /\ pc \in [Proc -> Label]
    /\ file \in [Proc -> File]
    /\ new \in [Proc -> 0..issued]
    /\ renews \in [Proc -> 0..issued]

CoreOK ==
    /\ issued \in 0..MaxCert
    /\ active \subseteq 1..issued
    /\ due \subseteq 1..issued
    /\ demand \in 0..MaxDemand
    /\ asked \in 0..demand

TypeInv ==
    /\ OnDisk /\ LocalsOK /\ CoreOK
    /\ faults \in 0..MaxFaults
    /\ intact \in BOOLEAN
    /\ read \in [Proc -> Reading]

LEMMA Numbers ==
    ASSUME CoreOK
    PROVE  /\ MaxCert \in Nat /\ issued \in Nat /\ issued <= MaxCert
           /\ None = 0 /\ Torn = MaxCert + 1
           /\ demand \in Nat /\ asked \in Nat /\ asked <= demand
           /\ None \notin Cert /\ Torn \notin Cert /\ None # Torn
           /\ (0..issued) \cup {Torn} \subseteq Content
           /\ None \in 0..issued /\ None \in Content
<1>1. MaxCert \in Nat
  BY DEF MaxCert
<1>2. issued \in Nat /\ issued <= MaxCert
  BY <1>1 DEF CoreOK
<1>3. demand \in Nat /\ asked \in Nat /\ asked <= demand
  BY DEF CoreOK
<1> QED
  BY <1>1, <1>2, <1>3 DEF None, Torn, Cert, Content

LEMMA TypeOKHolds == ASSUME TypeInv PROVE TypeOK
<1>1. disk \in [File -> Content]
  BY Numbers DEF TypeInv, OnDisk
<1> QED
  BY <1>1 DEF TypeInv, LocalsOK, CoreOK, Label, Reading, TypeOK

LEMMA FaultType ==
    ASSUME faults \in 0..MaxFaults, Fault
    PROVE  faults' \in 0..MaxFaults
BY DEF Fault

\* The core issues one certificate more, or none.
LEMMA IssueType ==
    ASSUME CoreOK, NEW p \in Proc, Issue(p) \/ UNCHANGED <<issued, active>>
    PROVE  /\ issued' \in 0..MaxCert
           /\ issued' \in {issued, issued + 1}
           /\ active' \subseteq 1..issued'
           /\ 0..issued \subseteq 0..issued'
           /\ 1..issued \subseteq 1..issued'
<1>1. issued \in Nat /\ MaxCert \in Nat /\ active \subseteq 1..issued
  BY Numbers DEF CoreOK
<1>2. CASE Issue(p)
  <2>1. issued' = issued + 1 /\ issued' \in 0..MaxCert /\ active' \subseteq active \cup {issued + 1}
    BY <1>1, <1>2 DEF Issue
  <2> QED
    BY <1>1, <2>1
<1>3. CASE UNCHANGED <<issued, active>>
  BY <1>1, <1>3 DEF CoreOK
<1> QED
  BY <1>2, <1>3

LEMMA CoreType ==
    ASSUME CoreOK, NEW p \in Proc, Issue(p) \/ UNCHANGED <<issued, active>>,
           UNCHANGED <<due, demand, asked>>
    PROVE  CoreOK'
BY IssueType DEF CoreOK

LEMMA DiskType ==
    ASSUME OnDisk, 0..issued \subseteq 0..issued', UNCHANGED disk
    PROVE  OnDisk'
BY DEF OnDisk

LEMMA FinishType ==
    ASSUME LocalsOK, CoreOK', 0..issued \subseteq 0..issued', NEW p \in Proc, Finish(p)
    PROVE  LocalsOK'
<1>1. 0 \in 0..issued'
  BY Numbers DEF CoreOK, MaxCert
<1> QED
  BY <1>1 DEF LocalsOK, Finish, Goto, Label, File, First, None

LEMMA GotoType ==
    ASSUME LocalsOK, NEW p \in Proc, NEW label \in Label, Goto(p, label),
           UNCHANGED <<file, new, renews, issued>>
    PROVE  LocalsOK'
BY DEF LocalsOK, Goto

LEMMA TypeInit == ASSUME Init PROVE TypeInv
<1>1. CoreOK
  BY DEF Init, CoreOK, MaxCert
<1>2. Nothing \in Reading
  BY <1>1, Numbers DEF Nothing, Reading
<1> QED
  BY <1>1, <1>2, Numbers DEF Init, TypeInv, OnDisk, LocalsOK, Label, File, First

LEMMA TypeStep == ASSUME TypeInv, [Next]_vars PROVE TypeInv'
<1> USE DEF TypeInv
<1>0. /\ issued \in Nat /\ None \in 0..issued /\ None \in Content /\ MaxCert \in Nat
      /\ 0..issued \subseteq 0..issued
      /\ Held => disk["meta"] \in 1..issued
  BY Numbers DEF CoreOK, OnDisk, File, Held, Torn, Cert
<1>1. ASSUME NEW p \in Proc, StartRequest(p) PROVE TypeInv'
  <2>1. CoreOK'
    BY <1>1 DEF CoreOK, StartRequest
  <2>2. LocalsOK'
    BY <1>1, GotoType DEF StartRequest, Label, locals
  <2> QED
    BY <1>1, <2>1, <2>2 DEF StartRequest, OnDisk
<1>2. ASSUME NEW p \in Proc, StartRenew(p) PROVE TypeInv'
  <2>1. CoreOK' /\ OnDisk' /\ issued' = issued
    BY <1>2 DEF CoreOK, OnDisk, StartRenew, core
  <2>2. LocalsOK'
    BY <1>0, <1>2, <2>1 DEF StartRenew, LocalsOK, Goto, Label
  <2> QED
    BY <1>2, <2>1, <2>2 DEF StartRenew
<1>3. ASSUME NEW p \in Proc, Answered(p) PROVE TypeInv'
  <2>1. CoreOK' /\ 0..issued \subseteq 0..issued' /\ issued' = issued + 1
    BY <1>3, CoreType, IssueType DEF Answered, Issue
  <2>2. LocalsOK'
    BY <1>0, <1>3, <2>1 DEF Answered, LocalsOK, Goto, Label
  <2> QED
    BY <1>3, <2>1, <2>2, DiskType DEF Answered
<1>4. ASSUME NEW p \in Proc, NotAnswered(p) PROVE TypeInv'
  <2>1. CoreOK' /\ 0..issued \subseteq 0..issued'
    BY <1>4, CoreType, IssueType DEF NotAnswered
  <2>2. LocalsOK' /\ OnDisk'
    BY <1>4, <2>1, FinishType, DiskType DEF NotAnswered
  <2> QED
    BY <1>4, <2>1, <2>2, FaultType DEF NotAnswered
<1>5. ASSUME NEW p \in Proc, Open(p) PROVE TypeInv'
  <2>1. CoreOK' /\ issued' = issued
    BY <1>5 DEF CoreOK, Open, core
  <2>2. LocalsOK'
    BY <1>5, <2>1, GotoType DEF Open, Label, locals
  <2>3. OnDisk'
    BY <1>5, <2>1 DEF Open, OnDisk, LocalsOK
  <2> QED
    BY <1>5, <2>1, <2>2, <2>3 DEF Open
<1>6. ASSUME NEW p \in Proc, Write(p) PROVE TypeInv'
  <2>1. CoreOK' /\ issued' = issued
    BY <1>6 DEF CoreOK, Write, core
  <2>2. LocalsOK'
    <3>1. CASE file[p] = "meta"
      BY <1>0, <1>6, <2>1, <3>1, FinishType DEF Write
    <3>2. CASE file[p] # "meta"
      <4>1. NextFile(p) \in File
        BY <3>2 DEF LocalsOK, NextFile, Following, File
      <4> QED
        BY <1>6, <2>1, <3>2, <4>1 DEF Write, LocalsOK, Goto, Label
    <3> QED
      BY <3>1, <3>2
  <2>3. OnDisk'
    BY <1>6, <2>1 DEF Write, OnDisk, LocalsOK
  <2> QED
    BY <1>6, <2>1, <2>2, <2>3 DEF Write
<1>7. ASSUME NEW p \in Proc, WriteFails(p) PROVE TypeInv'
  <2>1. CoreOK' /\ OnDisk' /\ issued' = issued
    BY <1>7 DEF CoreOK, OnDisk, WriteFails, core
  <2> QED
    BY <1>0, <1>7, <2>1, FinishType, FaultType DEF WriteFails
<1>8. ASSUME NEW p \in Proc, StartInstall(p) \/ ReadCert(p) \/ ReadKey(p) \/ ReadChain(p) \/ Install(p)
      PROVE TypeInv'
  <2>1. CoreOK' /\ OnDisk' /\ issued' = issued /\ UNCHANGED <<locals, faults, intact>>
    BY <1>8 DEF CoreOK, OnDisk, StartInstall, ReadCert, ReadKey, ReadChain, Install, core
  <2>2. disk \in [File -> Content] /\ Nothing \in Reading
    BY <1>0, Numbers DEF OnDisk, Nothing, Reading
  <2>3. read' \in [Proc -> Reading]
    <3>1. CASE StartInstall(p)
      BY <2>2, <3>1 DEF StartInstall, Reading, File
    <3>2. CASE ReadCert(p)
      BY <2>2, <3>2 DEF ReadCert, Reading, File
    <3>3. CASE ReadKey(p)
      BY <2>2, <3>3 DEF ReadKey, Reading, File
    <3>4. CASE ReadChain(p)
      BY <2>2, <3>4 DEF ReadChain, Reading, File
    <3>5. CASE Install(p)
      BY <2>2, <3>5 DEF Install
    <3> QED
      BY <1>8, <3>1, <3>2, <3>3, <3>4, <3>5
  <2>4. \E label \in Label : Goto(p, label)
    BY <1>8 DEF StartInstall, ReadCert, ReadKey, ReadChain, Install, Label
  <2>5. LocalsOK'
    BY <2>1, <2>4, GotoType DEF locals
  <2> QED
    BY <2>1, <2>3, <2>5
<1>9. ASSUME NEW p \in Proc, Crash(p) PROVE TypeInv'
  <2>1. CoreOK' /\ 0..issued \subseteq 0..issued'
    BY <1>9, CoreType, IssueType DEF Crash
  <2>2. LocalsOK' /\ OnDisk'
    BY <1>9, <2>1, FinishType, DiskType DEF Crash
  <2>3. intact' \in BOOLEAN
    BY <1>9 DEF Crash
  <2> QED
    BY <1>9, <2>1, <2>2, <2>3, FaultType DEF Crash
<1>10. ASSUME FallDue PROVE TypeInv'
  <2>1. demand' \in 0..MaxDemand /\ asked' \in 0..demand'
    BY <1>10 DEF FallDue, CoreOK
  <2>2. due' \subseteq 1..issued
    BY <1>0, <1>10 DEF FallDue, CoreOK
  <2>3. CoreOK'
    BY <1>10, <2>1, <2>2 DEF FallDue, CoreOK
  <2> QED
    BY <1>10, <2>3 DEF FallDue, OnDisk, LocalsOK, locals
<1>11. ASSUME UNCHANGED vars PROVE TypeInv'
  BY <1>11 DEF vars, core, locals, CoreOK, OnDisk, LocalsOK
<1> QED
  BY <1>1, <1>2, <1>3, <1>4, <1>5, <1>6, <1>7, <1>8, <1>9, <1>10, <1>11
     DEF Next, Step, Unfulfilled

\* Whatever the processes do and whatever fails, what is read and written is
\* what the core has issued, nothing or a file cut short.
THEOREM TypeCorrect == Spec => []TypeOK
<1>1. Init => TypeInv
  BY TypeInit
<1>2. TypeInv /\ [Next]_vars => TypeInv'
  BY TypeStep
<1>3. TypeInv => TypeOK
  BY TypeOKHolds
<1> QED
  BY <1>1, <1>2, <1>3, PTL DEF Spec

-----------------------------------------------------------------------------
(* The order of the files, where one process uses the directory.           *)

\* One process: the daemon's cycle or a command.  Two that save at once mix
\* their files, and none of what follows holds of them.
OneProcess == \E h : Proc = {h}

Saves(p) == pc[p] \in {"open", "write"}

\* What save has written before it comes to a file.
WrittenBefore(p) ==
    /\ file[p] # "key" => disk["key"] = new[p]
    /\ file[p] \in {"chain", "meta"} => disk["cert"] = new[p]
    /\ file[p] = "chain" => new[p] \notin Chainless
    /\ file[p] = "meta" => new[p] \in Chainless \/ disk["chain"] = new[p]

SavesInOrder(p) ==
    IF Saves(p)
    THEN /\ new[p] = issued /\ new[p] \in Cert
         /\ WrittenBefore(p)
         /\ pc[p] = "write" => disk[file[p]] = Torn
    ELSE file[p] = First

OrderInv == WrittenInOrder /\ \A p \in Proc : SavesInOrder(p)

LEMMA OrderInit == ASSUME Init PROVE OrderInv
<1>1. None \notin Cert
  BY DEF None, Cert
<1> QED
  BY <1>1 DEF Init, OrderInv, WrittenInOrder, NotAheadOf, SavesInOrder, Saves, File

\* A process that neither saves nor begins to leaves the order alone.
LEMMA OrderElsewhere ==
    ASSUME TypeInv, OrderInv, NEW p \in Proc, NEW label \in Label \ {"open", "write"},
           ~Saves(p), Goto(p, label), UNCHANGED <<disk, file, new, issued>>
    PROVE  OrderInv'
<1>1. WrittenInOrder'
  BY DEF OrderInv, WrittenInOrder, NotAheadOf
<1>2. ASSUME NEW q \in Proc PROVE SavesInOrder(q)'
  <2>1. CASE q = p
    BY <2>1 DEF OrderInv, SavesInOrder, Saves, Goto, TypeInv, LocalsOK
  <2>2. CASE q # p
    BY <2>2 DEF OrderInv, SavesInOrder, Saves, Goto, TypeInv, LocalsOK, WrittenBefore
  <2> QED
    BY <2>1, <2>2
<1> QED
  BY <1>1, <1>2 DEF OrderInv

\* The only process ends an operation, whole or not.
LEMMA OrderFinish ==
    ASSUME OneProcess, TypeInv, OrderInv, NEW p \in Proc, Finish(p), UNCHANGED disk
    PROVE  OrderInv'
<1>1. WrittenInOrder'
  BY DEF OrderInv, WrittenInOrder, NotAheadOf
<1>2. SavesInOrder(p)'
  BY DEF SavesInOrder, Saves, Finish, Goto, TypeInv, LocalsOK
<1> QED
  BY <1>1, <1>2 DEF OrderInv, OneProcess

LEMMA OrderStep ==
    ASSUME OneProcess, TypeInv, OrderInv, [Next]_vars
    PROVE  OrderInv'
<1>1. ASSUME NEW p \in Proc, StartRequest(p) \/ StartRenew(p) PROVE OrderInv'
  BY <1>1, OrderElsewhere DEF StartRequest, StartRenew, Saves, Label, locals, core, TypeInv, LocalsOK
<1>2. ASSUME NEW p \in Proc, Answered(p) PROVE OrderInv'
  <2>1. WrittenInOrder'
    BY <1>2 DEF Answered, OrderInv, WrittenInOrder, NotAheadOf
  <2>2. file[p] = "key"
    BY <1>2 DEF Answered, OrderInv, SavesInOrder, Saves, First
  <2>3. issued' = issued + 1 /\ issued' \in Cert
    BY <1>2, Numbers DEF Answered, Issue, Cert, TypeInv
  <2>4. SavesInOrder(p)'
    BY <1>2, <2>2, <2>3 DEF Answered, SavesInOrder, Saves, WrittenBefore, Goto, TypeInv, LocalsOK
  <2> QED
    BY <2>1, <2>4 DEF OrderInv, OneProcess
<1>3. ASSUME NEW p \in Proc, NotAnswered(p) \/ WriteFails(p) \/ Crash(p) PROVE OrderInv'
  BY <1>3, OrderFinish DEF NotAnswered, WriteFails, Crash
<1>4. ASSUME NEW p \in Proc, Open(p) PROVE OrderInv'
  <2>1. /\ disk' = [disk EXCEPT ![file[p]] = Torn] /\ file[p] \in File
        /\ disk \in [File -> (0..issued) \cup {Torn}] /\ disk' \in [File -> (0..issued) \cup {Torn}]
        /\ new[p] = issued /\ WrittenBefore(p) /\ Saves(p)
        /\ new' = new /\ file' = file /\ issued' = issued /\ pc'[p] = "write"
    BY <1>4 DEF Open, TypeInv, OnDisk, LocalsOK, OrderInv, SavesInOrder, Saves, Goto, locals, core
  <2>2. WrittenInOrder'
    <3>1. \A f \in File : disk'[f] \in Cert => disk'[f] <= issued /\ disk[f] = disk'[f] /\ f # file[p]
      BY <2>1, Numbers DEF TypeInv, Cert
    <3>2. issued <= Torn /\ \A c \in Cert : c <= Torn
      BY Numbers DEF TypeInv, Cert
    <3>3. \A f, g \in File : NotAheadOf(f, g) => NotAheadOf(f, g)'
      BY <2>1, <3>1, <3>2 DEF NotAheadOf
    <3>4. disk'["meta"] = disk["meta"] \/ disk'["meta"] \notin Cert
      BY <3>1 DEF File
    <3> QED
      BY <3>3, <3>4 DEF OrderInv, WrittenInOrder, NotAheadOf, File
  <2>3. WrittenBefore(p)'
    BY <2>1 DEF WrittenBefore, File
  <2>4. SavesInOrder(p)'
    BY <2>1, <2>3 DEF SavesInOrder, Saves, OrderInv
  <2> QED
    BY <2>2, <2>4 DEF OrderInv, OneProcess
<1>5. ASSUME NEW p \in Proc, Write(p) PROVE OrderInv'
  <2>1. /\ disk' = [disk EXCEPT ![file[p]] = new[p]] /\ file[p] \in File
        /\ disk \in [File -> (0..issued) \cup {Torn}] /\ disk' \in [File -> (0..issued) \cup {Torn}]
        /\ new[p] = issued /\ new[p] \in Cert /\ WrittenBefore(p) /\ Saves(p)
        /\ issued' = issued
    BY <1>5 DEF Write, TypeInv, OnDisk, LocalsOK, OrderInv, SavesInOrder, Saves, core
  <2>2. WrittenInOrder'
    <3>1. \A f \in File : disk'[f] \in Cert => disk'[f] <= new[p]
      BY <2>1, Numbers DEF TypeInv, Cert
    <3>2. CASE file[p] = "key"
      BY <2>1, <3>1, <3>2 DEF OrderInv, WrittenInOrder, NotAheadOf, File
    <3>3. CASE file[p] = "cert"
      BY <2>1, <3>1, <3>3 DEF OrderInv, WrittenInOrder, NotAheadOf, File, WrittenBefore
    <3>4. CASE file[p] = "chain"
      BY <2>1, <3>1, <3>4 DEF OrderInv, WrittenInOrder, NotAheadOf, File, WrittenBefore
    <3>5. CASE file[p] = "meta"
      BY <2>1, <3>1, <3>5 DEF OrderInv, WrittenInOrder, NotAheadOf, File, WrittenBefore
    <3> QED
      BY <2>1, <3>2, <3>3, <3>4, <3>5 DEF File
  <2>3. SavesInOrder(p)'
    <3>1. CASE file[p] = "meta"
      BY <1>5, <3>1 DEF Write, Finish, Goto, SavesInOrder, Saves, TypeInv, LocalsOK
    <3>2. CASE file[p] # "meta"
      <4>1. /\ file'[p] = NextFile(p) /\ new' = new /\ pc'[p] = "open"
        BY <1>5, <3>2 DEF Write, Goto, TypeInv, LocalsOK
      <4>2. WrittenBefore(p)'
        BY <2>1, <3>2, <4>1 DEF WrittenBefore, NextFile, Following, File
      <4> QED
        BY <2>1, <4>1, <4>2 DEF SavesInOrder, Saves
    <3> QED
      BY <3>1, <3>2
  <2> QED
    BY <2>2, <2>3 DEF OrderInv, OneProcess
<1>6. ASSUME NEW p \in Proc, StartInstall(p) \/ ReadCert(p) \/ ReadKey(p) \/ ReadChain(p) \/ Install(p)
      PROVE  OrderInv'
  <2>1. /\ ~Saves(p) /\ UNCHANGED <<disk, file, new, issued>>
        /\ \E label \in Label \ {"open", "write"} : Goto(p, label)
    BY <1>6 DEF StartInstall, ReadCert, ReadKey, ReadChain, Install, Saves, Label, locals, core
  <2> QED
    BY <2>1, OrderElsewhere
<1>7. ASSUME UNCHANGED <<disk, issued, pc, file, new>> PROVE OrderInv'
  BY <1>7 DEF OrderInv, WrittenInOrder, NotAheadOf, SavesInOrder, Saves, WrittenBefore
<1> QED
  BY <1>1, <1>2, <1>3, <1>4, <1>5, <1>6, <1>7
     DEF Next, Step, Unfulfilled, FallDue, vars, core, locals

\* save: no file is ever ahead of one it writes before it, whatever was
\* interrupted and however often.
THEOREM NoFileAhead == ASSUME OneProcess PROVE Spec => []WrittenInOrder
<1>1. Init => TypeInv /\ OrderInv
  BY TypeInit, OrderInit
<1>2. TypeInv /\ OrderInv /\ [Next]_vars => TypeInv' /\ OrderInv'
  BY TypeStep, OrderStep
<1>3. OrderInv => WrittenInOrder
  BY DEF OrderInv
<1> QED
  BY <1>1, <1>2, <1>3, PTL DEF Spec

-----------------------------------------------------------------------------
(* What is read together, where one process uses the directory.            *)

\* The four files are of one issuance, or there are none.
WholeOnDisk ==
    /\ disk["key"] = disk["cert"] /\ disk["meta"] = disk["cert"]
    /\ disk["cert"] \notin Chainless => disk["chain"] = disk["cert"]

\* What a process has read so far is what is there; or somebody has removed the
\* directory, and it reads no more.
ReadSoFar(p) ==
    /\ pc[p] = "readCert" => disk["cert"] \in {None, read[p].meta}
    /\ pc[p] = "readKey" =>
          disk["key"] = None \/ (read[p].cert = disk["cert"] /\ read[p].meta = disk["cert"])
    /\ pc[p] = "readChain" =>
          /\ disk["cert"] = read[p].cert
          /\ read[p].key = read[p].cert /\ read[p].meta = read[p].cert
    /\ pc[p] = "install" =>
          /\ read[p].key = read[p].cert /\ read[p].meta = read[p].cert
          /\ read[p].cert \notin Chainless => read[p].chain = read[p].cert

ReadInv == \A p \in Proc : intact => (~Saves(p) => WholeOnDisk) /\ ReadSoFar(p)

LEMMA ReadInit == ASSUME Init PROVE ReadInv
BY DEF Init, ReadInv, WholeOnDisk, ReadSoFar, Saves, File

LEMMA ReadInvSuffices == ASSUME ReadInv PROVE ReadTogether
BY DEF ReadInv, ReadSoFar, ReadTogether

LEMMA ReadStep ==
    ASSUME OneProcess, TypeInv, OrderInv, ReadInv, [Next]_vars
    PROVE  ReadInv'
<1>0. PICK h : Proc = {h}
  BY DEF OneProcess
<1>1. ASSUME NEW p \in Proc, UNCHANGED disk, intact' => intact,
             pc'[p] \in {"idle", "ask", "open"}, Saves(p) => ~intact'
      PROVE  ReadInv'
  BY <1>0, <1>1 DEF ReadInv, WholeOnDisk, ReadSoFar, Saves
<1>2. ASSUME NEW p \in Proc,
             StartRequest(p) \/ StartRenew(p) \/ Answered(p) \/ NotAnswered(p) \/ Install(p)
      PROVE  ReadInv'
  BY <1>1, <1>2 DEF StartRequest, StartRenew, Answered, NotAnswered, Install, Goto, Finish,
        Saves, TypeInv, LocalsOK
<1>3. ASSUME NEW p \in Proc, WriteFails(p) \/ Crash(p) PROVE ReadInv'
  BY <1>1, <1>3 DEF WriteFails, Crash, Goto, Finish, Saves, TypeInv, LocalsOK
<1>4. ASSUME NEW p \in Proc, Open(p) PROVE ReadInv'
  BY <1>0, <1>4 DEF Open, Goto, TypeInv, LocalsOK, ReadInv, ReadSoFar, Saves
<1>5. ASSUME NEW p \in Proc, Write(p) PROVE ReadInv'
  <2>1. CASE file[p] # "meta"
    BY <1>0, <1>5, <2>1 DEF Write, Goto, TypeInv, LocalsOK, ReadInv, ReadSoFar, Saves
  <2>2. CASE file[p] = "meta"
    <3>1. /\ disk' = [disk EXCEPT !["meta"] = new[p]] /\ disk \in [File -> (0..issued) \cup {Torn}]
          /\ WrittenBefore(p) /\ pc'[p] = "idle"
      BY <1>5, <2>2 DEF Write, Finish, Goto, TypeInv, OnDisk, LocalsOK, OrderInv, SavesInOrder, Saves
    <3>2. WholeOnDisk'
      BY <2>2, <3>1 DEF WrittenBefore, WholeOnDisk, File
    <3> QED
      BY <1>0, <3>1, <3>2 DEF ReadInv, ReadSoFar
  <2> QED
    BY <2>1, <2>2
<1>6. ASSUME NEW p \in Proc, StartInstall(p) PROVE ReadInv'
  <2>1. read'[p].meta = disk["meta"] /\ pc'[p] = "readCert" /\ pc[p] = "idle" /\ UNCHANGED <<disk, intact>>
    BY <1>6 DEF StartInstall, Nothing, Goto, TypeInv, LocalsOK, Reading
  <2> QED
    BY <1>0, <2>1 DEF ReadInv, ReadSoFar, WholeOnDisk, Saves
<1>7. ASSUME NEW p \in Proc, ReadCert(p) PROVE ReadInv'
  <2>1. read'[p].cert = disk["cert"] /\ read'[p].meta = read[p].meta /\ UNCHANGED <<disk, intact>>
        /\ pc[p] = "readCert" /\ pc'[p] = IF disk["cert"] = None THEN "idle" ELSE "readKey"
    BY <1>7 DEF ReadCert, Goto, TypeInv, LocalsOK, Reading
  <2> QED
    BY <1>0, <2>1 DEF ReadInv, ReadSoFar, WholeOnDisk, Saves
<1>8. ASSUME NEW p \in Proc, ReadKey(p) PROVE ReadInv'
  <2>1. read'[p].key = disk["key"] /\ read'[p].cert = read[p].cert
        /\ read'[p].meta = read[p].meta /\ UNCHANGED <<disk, intact>>
        /\ pc[p] = "readKey" /\ pc'[p] = IF disk["key"] = None THEN "idle" ELSE "readChain"
    BY <1>8 DEF ReadKey, Goto, TypeInv, LocalsOK, Reading
  <2> QED
    BY <1>0, <2>1 DEF ReadInv, ReadSoFar, WholeOnDisk, Saves
<1>9. ASSUME NEW p \in Proc, ReadChain(p) PROVE ReadInv'
  <2>1. read'[p].chain = disk["chain"] /\ read'[p].cert = read[p].cert /\ read'[p].key = read[p].key
        /\ read'[p].meta = read[p].meta /\ UNCHANGED <<disk, intact>>
        /\ pc[p] = "readChain" /\ pc'[p] = "install"
    BY <1>9 DEF ReadChain, Goto, TypeInv, LocalsOK, Reading
  <2> QED
    BY <1>0, <2>1 DEF ReadInv, ReadSoFar, WholeOnDisk, Saves
<1>10. ASSUME UNCHANGED <<disk, intact, pc, read>> PROVE ReadInv'
  BY <1>10 DEF ReadInv, WholeOnDisk, ReadSoFar, Saves
<1> QED
  BY <1>2, <1>3, <1>4, <1>5, <1>6, <1>7, <1>8, <1>9, <1>10
     DEF Next, Step, Unfulfilled, FallDue, vars, core, locals

\* Request: where no save was interrupted, an installation is handed a
\* certificate, its own key, its own record and, if it has one, its own chain.
THEOREM IsReadTogether == ASSUME OneProcess PROVE Spec => []ReadTogether
<1>1. Init => TypeInv /\ OrderInv /\ ReadInv
  BY TypeInit, OrderInit, ReadInit
<1>2. TypeInv /\ OrderInv /\ ReadInv /\ [Next]_vars => (TypeInv /\ OrderInv /\ ReadInv)'
  BY TypeStep, OrderStep, ReadStep
<1> QED
  BY <1>1, <1>2, ReadInvSuffices, PTL DEF Spec

-----------------------------------------------------------------------------
(* What the core takes to be in use, where one process uses the directory. *)

LEMMA OneMore ==
    ASSUME NEW S, NEW T, NEW x, IsFiniteSet(S), T \subseteq S \cup {x}
    PROVE  /\ IsFiniteSet(T)
           /\ Cardinality(T) \in Nat /\ Cardinality(S) \in Nat
           /\ Cardinality(T) <= Cardinality(S) + 1
           /\ T \subseteq S => Cardinality(T) <= Cardinality(S)
<1>1. /\ IsFiniteSet(S \cup {x}) /\ Cardinality(S) \in Nat
      /\ Cardinality(S \cup {x}) \in {Cardinality(S), Cardinality(S) + 1}
  BY FS_AddElement, FS_CardinalityType
<1>2. IsFiniteSet(T) /\ Cardinality(T) <= Cardinality(S \cup {x})
  BY <1>1, FS_Subset
<1>3. T \subseteq S => Cardinality(T) <= Cardinality(S)
  BY FS_Subset
<1> QED
  BY <1>1, <1>2, <1>3, FS_CardinalityType

LEMMA OneForAnother ==
    ASSUME NEW S, NEW T, NEW x \in S, NEW y, IsFiniteSet(S), T \subseteq (S \ {x}) \cup {y}
    PROVE  Cardinality(T) <= Cardinality(S)
<1>1. IsFiniteSet(S \ {x}) /\ Cardinality(S \ {x}) = Cardinality(S) - 1
  BY FS_RemoveElement
<1>2. Cardinality(T) <= Cardinality(S \ {x}) + 1 /\ Cardinality(T) \in Nat
  BY <1>1, OneMore
<1> QED
  BY <1>1, <1>2, FS_CardinalityType

\* The certificate this host can see it holds.
Recorded == {disk["meta"]} \cap Cert

\* A request that replaces nothing has one more to its name until it is answered,
\* and a renewal none beyond the one it replaces, in use or not.
DemandOf(p) ==
    /\ pc[p] # "ask" /\ ~Saves(p) =>
          renews[p] = None /\ Cardinality(active \cup Recorded) <= asked + faults
    /\ pc[p] = "ask" /\ renews[p] = None =>
          Cardinality(active \cup Recorded) + 1 <= asked + faults
    /\ pc[p] = "ask" /\ renews[p] # None =>
          /\ Recorded \subseteq {renews[p]}
          /\ Cardinality(active \cup {renews[p]}) <= asked + faults
    /\ Saves(p) => new[p] \in active /\ Cardinality(active) <= asked + faults

DemandInv == \A p \in Proc : DemandOf(p)

LEMMA FiniteUse ==
    ASSUME CoreOK
    PROVE  /\ IsFiniteSet(active) /\ IsFiniteSet(active \cup Recorded)
           /\ \A r : IsFiniteSet(active \cup {r})
           /\ Cardinality(active) <= Cardinality(active \cup Recorded)
           /\ Cardinality(active \cup Recorded) <= Cardinality(active) + 1
           /\ Cardinality(active) \in Nat /\ Cardinality(active \cup Recorded) \in Nat
<1>1. issued \in Int /\ 1 \in Int
  BY Numbers
<1>2. IsFiniteSet(1..issued)
  BY <1>1, FS_Interval
<1>3. IsFiniteSet(active)
  BY <1>2, FS_Subset DEF CoreOK
<1>4. active \cup Recorded \subseteq active \cup {disk["meta"]} /\ active \subseteq active \cup Recorded
  BY DEF Recorded
<1>5. /\ IsFiniteSet(active \cup Recorded)
      /\ Cardinality(active \cup Recorded) <= Cardinality(active) + 1
      /\ Cardinality(active) \in Nat /\ Cardinality(active \cup Recorded) \in Nat
  BY <1>3, <1>4, OneMore
<1>6. Cardinality(active) <= Cardinality(active \cup Recorded)
  BY <1>4, <1>5, FS_Subset
<1>7. \A r : IsFiniteSet(active \cup {r})
  BY <1>3, FS_AddElement
<1> QED
  BY <1>3, <1>5, <1>6, <1>7

\* No process ever does worse than what its place says.
LEMMA DemandMet ==
    ASSUME TypeInv, NEW p \in Proc, DemandOf(p)
    PROVE  InUsePerDemand
<1>1. asked \in Nat /\ faults \in Nat /\ pc[p] \in Label
  BY Numbers DEF TypeInv, LocalsOK
<1>2. CASE pc[p] = "ask" /\ renews[p] # None
  <2>1. active \subseteq active \cup {renews[p]} /\ IsFiniteSet(active \cup {renews[p]})
    BY FiniteUse DEF TypeInv
  <2>2. Cardinality(active) <= Cardinality(active \cup {renews[p]})
        /\ Cardinality(active \cup {renews[p]}) \in Nat
    BY <2>1, FS_Subset, FS_CardinalityType
  <2> QED
    BY <1>1, <1>2, <2>2, FiniteUse DEF DemandOf, InUsePerDemand, TypeInv
<1>3. CASE ~(pc[p] = "ask" /\ renews[p] # None)
  BY <1>1, <1>3, FiniteUse DEF DemandOf, InUsePerDemand, TypeInv
<1> QED
  BY <1>2, <1>3

LEMMA DemandInit == ASSUME Init PROVE DemandInv
<1>1. None \notin Cert
  BY DEF None, Cert
<1>2. active \cup Recorded = {}
  BY <1>1 DEF Init, Recorded, File
<1>3. Cardinality(active \cup Recorded) = 0
  BY <1>2, FS_EmptySet
<1> QED
  BY <1>3 DEF Init, DemandInv, DemandOf, Saves

\* What the core issues to a process that asked.
LEMMA AnswerCounts ==
    ASSUME TypeInv, NEW p \in Proc, pc[p] = "ask", DemandOf(p), Issue(p)
    PROVE  /\ Cardinality(active') \in Nat /\ Cardinality(active' \cup Recorded) \in Nat
           /\ Cardinality(active') <= asked + faults
           /\ Cardinality(active' \cup Recorded) <= asked + faults + 1
<1>1. /\ asked \in Nat /\ faults \in Nat /\ CoreOK
      /\ IsFiniteSet(active) /\ IsFiniteSet(active \cup Recorded)
  BY Numbers, FiniteUse DEF TypeInv
<1>2. active' = (active \ {renews[p]}) \cup {issued + 1}
  BY DEF Issue
<1>3. CASE renews[p] = None
  <2>1. /\ active' \subseteq (active \cup Recorded) \cup {issued + 1}
        /\ active' \cup Recorded \subseteq (active \cup Recorded) \cup {issued + 1}
    BY <1>2
  <2>2. /\ Cardinality(active') <= Cardinality(active \cup Recorded) + 1
        /\ Cardinality(active' \cup Recorded) <= Cardinality(active \cup Recorded) + 1
        /\ Cardinality(active') \in Nat /\ Cardinality(active' \cup Recorded) \in Nat
        /\ Cardinality(active \cup Recorded) \in Nat
    BY <1>1, <2>1, OneMore
  <2> QED
    BY <1>1, <1>3, <2>2 DEF DemandOf
<1>4. CASE renews[p] # None
  <2> DEFINE Before == active \cup {renews[p]}
  <2>1. IsFiniteSet(Before) /\ Cardinality(Before) <= asked + faults /\ Recorded \subseteq {renews[p]}
    BY <1>1, <1>4, FiniteUse DEF DemandOf
  <2>2. /\ active' \subseteq (Before \ {renews[p]}) \cup {issued + 1} /\ renews[p] \in Before
        /\ active' \subseteq Before \cup {issued + 1}
        /\ active' \cup Recorded \subseteq Before \cup {issued + 1}
    BY <1>2, <2>1
  <2> HIDE DEF Before
  <2>3. Cardinality(active') <= Cardinality(Before)
    BY <2>1, <2>2, OneForAnother
  <2>4. /\ Cardinality(active' \cup Recorded) <= Cardinality(Before) + 1
        /\ Cardinality(active') \in Nat /\ Cardinality(active' \cup Recorded) \in Nat
        /\ Cardinality(Before) \in Nat
    BY <2>1, <2>2, OneMore
  <2> QED
    BY <1>1, <2>1, <2>3, <2>4
<1> QED
  BY <1>3, <1>4

\* An operation that ends early, for its own failure or another's.
LEMMA DemandFinish ==
    ASSUME TypeInv, NEW p \in Proc, DemandOf(p), Finish(p), UNCHANGED <<disk, asked>>,
           \/ Fault /\ UNCHANGED active
           \/ Fault /\ pc[p] = "ask" /\ Issue(p)
           \/ pc[p] = "ask" /\ UNCHANGED <<active, faults>>
    PROVE  DemandOf(p)'
<1>1. /\ asked \in Nat /\ faults \in Nat /\ CoreOK
      /\ pc'[p] = "idle" /\ renews'[p] = None /\ Recorded' = Recorded
  BY Numbers DEF TypeInv, LocalsOK, Finish, Goto, Recorded
<1>2. Cardinality(active' \cup Recorded) <= asked + faults'
  <2>1. CASE Fault /\ pc[p] = "ask" /\ Issue(p)
    <3>1. /\ Cardinality(active' \cup Recorded) \in Nat
          /\ Cardinality(active' \cup Recorded) <= asked + faults + 1
      BY <2>1, AnswerCounts
    <3>2. faults' = faults + 1
      BY <2>1 DEF Fault
    <3> QED
      BY <1>1, <3>1, <3>2
  <2>2. CASE UNCHANGED active /\ pc[p] # "ask" /\ Fault
    BY <1>1, <2>2, FiniteUse DEF Fault, DemandOf, TypeInv
  <2>3. CASE UNCHANGED active /\ pc[p] = "ask" /\ (Fault \/ UNCHANGED faults)
    <3>1. CASE renews[p] = None
      BY <1>1, <2>3, <3>1, FiniteUse DEF Fault, DemandOf, TypeInv
    <3>2. CASE renews[p] # None
      <4> DEFINE Before == active \cup {renews[p]}
      <4>1. active \cup Recorded \subseteq Before /\ IsFiniteSet(Before)
            /\ Cardinality(Before) <= asked + faults
        BY <1>1, <2>3, <3>2, FiniteUse DEF DemandOf
      <4> HIDE DEF Before
      <4>2. Cardinality(active \cup Recorded) <= Cardinality(Before) /\ Cardinality(Before) \in Nat
            /\ Cardinality(active \cup Recorded) \in Nat
        BY <4>1, FS_Subset, FS_CardinalityType
      <4> QED
        BY <1>1, <2>3, <4>1, <4>2 DEF Fault
    <3> QED
      BY <3>1, <3>2
  <2>4. \/ Fault /\ pc[p] = "ask" /\ Issue(p)
        \/ UNCHANGED active /\ pc[p] # "ask" /\ Fault
        \/ UNCHANGED active /\ pc[p] = "ask" /\ (Fault \/ UNCHANGED faults)
    BY SMT
  <2> QED
    BY <2>1, <2>2, <2>3, <2>4
<1> QED
  BY <1>1, <1>2 DEF DemandOf, Saves

LEMMA DemandStep ==
    ASSUME OneProcess, TypeInv, OrderInv, DemandInv, [Next]_vars
    PROVE  DemandInv'
<1>0. ASSUME NEW p \in Proc, DemandOf(p)' PROVE DemandInv'
  BY <1>0 DEF DemandInv, OneProcess
<1>n. /\ asked \in Nat /\ faults \in Nat /\ None \notin Cert /\ Torn \notin Cert
      /\ disk \in [File -> (0..issued) \cup {Torn}] /\ CoreOK
  BY Numbers DEF TypeInv, OnDisk
<1>t. LocalsOK
  BY DEF TypeInv
<1>1. ASSUME NEW p \in Proc, StartRequest(p) PROVE DemandInv'
  <2>1. /\ pc[p] = "idle" /\ pc'[p] = "ask" /\ renews' = renews /\ asked' = asked + 1
        /\ UNCHANGED <<disk, active, faults>>
    BY <1>1, <1>t DEF StartRequest, Goto, LocalsOK, locals
  <2>2. renews[p] = None /\ Cardinality(active \cup Recorded) <= asked + faults
    BY <2>1 DEF DemandInv, DemandOf, Saves
  <2>3. active' \cup Recorded' = active \cup Recorded
    BY <2>1 DEF Recorded
  <2> QED
    <3>1. Cardinality(active' \cup Recorded') + 1 <= asked' + faults'
      BY <1>n, <2>1, <2>2, <2>3, FiniteUse
    <3>2. DemandOf(p)'
      BY <2>1, <2>2, <3>1 DEF DemandOf, Saves
    <3> QED
      BY <1>0, <3>2
<1>2. ASSUME NEW p \in Proc, StartRenew(p) PROVE DemandInv'
  <2>1. /\ renews'[p] = disk["meta"] /\ disk["meta"] \in Cert /\ pc'[p] = "ask"
        /\ UNCHANGED <<disk, active, asked, faults>> /\ pc[p] = "idle"
    BY <1>2, <1>t DEF StartRenew, Goto, LocalsOK, Held, core
  <2>2. Recorded = {disk["meta"]} /\ Recorded' = Recorded
    BY <2>1 DEF Recorded
  <2>3. Cardinality(active \cup {disk["meta"]}) <= asked + faults
    BY <2>1, <2>2 DEF DemandInv, DemandOf, Saves
  <2> QED
    BY <1>0, <1>n, <2>1, <2>2, <2>3 DEF DemandOf, Saves
<1>3. ASSUME NEW p \in Proc, Answered(p) PROVE DemandInv'
  <2>1. Cardinality(active') <= asked + faults
    BY <1>3, AnswerCounts DEF Answered, DemandInv
  <2>2. new'[p] \in active' /\ pc'[p] = "open" /\ UNCHANGED <<asked, faults>>
    BY <1>3, <1>t DEF Answered, Issue, Goto, LocalsOK
  <2> QED
    BY <1>0, <2>1, <2>2 DEF DemandOf, Saves
<1>4. ASSUME NEW p \in Proc, NotAnswered(p) \/ WriteFails(p) \/ Crash(p) PROVE DemandInv'
  <2>1. /\ Finish(p) /\ UNCHANGED <<disk, asked>>
        /\ \/ Fault /\ UNCHANGED active
           \/ Fault /\ pc[p] = "ask" /\ Issue(p)
    BY <1>4 DEF NotAnswered, WriteFails, Crash, core
  <2> QED
    BY <1>0, <2>1, DemandFinish DEF DemandInv
<1>5. ASSUME NEW p \in Proc, Open(p) PROVE DemandInv'
  BY <1>0, <1>t, <1>5 DEF Open, DemandInv, DemandOf, Saves, Goto, LocalsOK, core, locals
<1>6. ASSUME NEW p \in Proc, Write(p) PROVE DemandInv'
  <2>1. new[p] \in active /\ Cardinality(active) <= asked + faults /\ UNCHANGED <<active, asked, faults>>
    BY <1>6 DEF Write, DemandInv, DemandOf, Saves, core
  <2>2. CASE file[p] = "meta"
    <3>1. disk'["meta"] = new[p] /\ pc'[p] = "idle" /\ renews'[p] = None
      BY <1>6, <1>n, <1>t, <2>2 DEF Write, Finish, Goto, LocalsOK, File
    <3>2. active' \cup Recorded' = active
      BY <2>1, <3>1 DEF Recorded
    <3> QED
      BY <1>0, <2>1, <3>1, <3>2 DEF DemandOf, Saves
  <2>3. CASE file[p] # "meta"
    BY <1>0, <1>6, <1>t, <2>1, <2>3 DEF Write, Goto, LocalsOK, DemandOf, Saves
  <2> QED
    BY <2>2, <2>3
<1>7. ASSUME NEW p \in Proc, StartInstall(p) \/ ReadCert(p) \/ ReadKey(p) \/ ReadChain(p) \/ Install(p)
      PROVE  DemandInv'
  <2>1. /\ pc[p] # "ask" /\ ~Saves(p) /\ pc'[p] # "ask" /\ ~Saves(p)'
        /\ UNCHANGED <<disk, active, asked, faults, renews>>
    BY <1>7, <1>t DEF StartInstall, ReadCert, ReadKey, ReadChain, Install, Saves, Goto, LocalsOK, core, locals
  <2> QED
    BY <1>0, <2>1 DEF DemandInv, DemandOf, Recorded
<1>8. ASSUME UNCHANGED <<disk, active, asked, faults, pc, new, renews>> PROVE DemandInv'
  BY <1>8 DEF DemandInv, DemandOf, Recorded, Saves
<1> QED
  BY <1>1, <1>2, <1>3, <1>4, <1>5, <1>6, <1>7, <1>8
     DEF Next, Step, Unfulfilled, FallDue, vars, core, locals

\* Request.Renews: every certificate the core takes to be in use, beyond the one
\* asked for by each request that replaced nothing, is paid for by a failure.
THEOREM UseIsPaidFor == ASSUME OneProcess PROVE Spec => []InUsePerDemand
<1>1. Init => TypeInv /\ OrderInv /\ DemandInv
  BY TypeInit, OrderInit, DemandInit
<1>2. TypeInv /\ OrderInv /\ DemandInv /\ [Next]_vars => (TypeInv /\ OrderInv /\ DemandInv)'
  BY TypeStep, OrderStep, DemandStep
<1>3. TypeInv /\ DemandInv => InUsePerDemand
  BY DemandMet DEF DemandInv, OneProcess
<1> QED
  BY <1>1, <1>2, <1>3, PTL DEF Spec
=============================================================================
