-------------------------- MODULE FileInstallProofs --------------------------
(* Theorems about FileInstall, for every value of its constants.           *)
EXTENDS FileInstall, TLAPS

USE FileInstallAssumption

-----------------------------------------------------------------------------
(* Type correctness.                                                       *)

LEMMA FilesAreNumbered ==
    /\ File \subseteq Nat
    /\ NFiles \in File
    /\ 1 \in File
    /\ File \subseteq 0..NFiles
BY DEF File

LEMMA WrittenIsAFile ==
    \A r \in Release : \A m \in {"declared", "drifted", "none"} :
        Written(r, m) \in FileState
BY DEF Written, FileState

LEMMA InitialFiles ==
    /\ NoFile \in FileState
    /\ Legacy \in FileState
    /\ NoCapture \in [File -> FileState]
    /\ NoJob \in [release : Release, forced : BOOLEAN]
BY DEF NoFile, Legacy, FileState, NoCapture, NoJob, Release

\* What the steps shared by several actions do to the types.
Label == {"idle"} \cup Busy
Status == {"none", "unfulfilled", "failed", "installed"}

LocalsOK ==
    /\ pc \in [Proc -> Label]
    /\ job \in [Proc -> [release : Release, forced : BOOLEAN]]
    /\ at \in [Proc -> 0..NFiles]
    /\ prev \in [Proc -> [File -> FileState]]
    /\ before \in [Proc -> [File -> FileState]]
    /\ written \in [Proc -> SUBSET File]
    /\ stopping \in [Proc -> BOOLEAN]
    /\ report \in [Proc -> [status : Status, release : Release, rolledBack : BOOLEAN]]

\* The loops that capture and write start at the first file.
IndexOK == \A p \in Proc : pc[p] \in {"capture", "write"} => at[p] \in File

SharedOK ==
    /\ held \in Release
    /\ disk \in [File -> FileState]
    /\ serving \in [File -> Release]
    /\ vetted \subseteq Release
    /\ intact \in BOOLEAN

LEMMA TypeParts == TypeOK <=> SharedOK /\ LocalsOK /\ faults \in 0..MaxFaults
BY DEF TypeOK, SharedOK, LocalsOK, Label, Status

LEMMA GotoType ==
    ASSUME LocalsOK, IndexOK, NEW p \in Proc, NEW l \in Label, NEW i \in 0..NFiles,
           l \in {"capture", "write"} => i \in File,
           Goto(p, l, i)
    PROVE  pc' \in [Proc -> Label] /\ at' \in [Proc -> 0..NFiles] /\ IndexOK'
BY DEF Goto, LocalsOK, IndexOK

LEMMA ReturnType ==
    ASSUME LocalsOK, IndexOK, NEW p \in Proc, NEW s \in Status, NEW b \in BOOLEAN,
           Return(p, s, b)
    PROVE  LocalsOK' /\ IndexOK'
BY InitialFiles DEF Return, LocalsOK, IndexOK, Label

LEMMA FaultType ==
    ASSUME faults \in 0..MaxFaults, Fault
    PROVE  faults' \in 0..MaxFaults
BY DEF Fault

LEMMA CommandFailsType ==
    ASSUME LocalsOK, faults \in 0..MaxFaults, NEW p \in Proc, CommandFails(p)
    PROVE  faults' \in 0..MaxFaults /\ stopping' \in [Proc -> BOOLEAN]
BY FaultType DEF CommandFails, LocalsOK

TypeInv == SharedOK /\ LocalsOK /\ IndexOK /\ faults \in 0..MaxFaults

LEMMA TypeInvariant == Spec => []TypeInv
<1> DEFINE Good == TypeInv
<1> USE DEF TypeInv
<1>1. Init => Good
  <2> SUFFICES ASSUME Init PROVE Good
    OBVIOUS
  <2>1. disk \in [File -> FileState] /\ serving \in [File -> Release]
    BY InitialFiles DEF Init, FileState, Release
  <2>2. vetted \subseteq Release
    BY <2>1, FilesAreNumbered DEF Init
  <2> QED
    BY <2>1, <2>2, InitialFiles
    DEF Init, SharedOK, LocalsOK, IndexOK, Label, Status, Release, NoReport
<1>2. Good /\ [Next]_vars => Good'
  <2> SUFFICES ASSUME Good, [Next]_vars PROVE Good'
    OBVIOUS
  <2>0. /\ SharedOK /\ LocalsOK /\ IndexOK /\ faults \in 0..MaxFaults
    OBVIOUS
  <2>1. ASSUME NEW p \in Proc, Unfulfilled(p) PROVE Good'
    BY <2>1 DEF Unfulfilled, NoReport, Release, shared, locals, SharedOK,
                LocalsOK, IndexOK, Status
  <2>2. ASSUME NEW p \in Proc, NEW b \in BOOLEAN, Begin(p, b) PROVE Good'
    BY <2>2 DEF Begin, Goto, shared, SharedOK, LocalsOK, IndexOK, Label,
                Busy, NoReport, Status, Release
  <2>3. ASSUME NEW p \in Proc, Refuse(p) PROVE Good'
    BY <2>3, ReturnType, FaultType DEF Refuse, shared, SharedOK, Status
  <2>4. ASSUME NEW p \in Proc, Unchanged(p) PROVE Good'
    <3>1. disk' \in [File -> FileState]
      BY <2>4, WrittenIsAFile DEF Unchanged, FileState, SharedOK
    <3> QED
      BY <2>4, <3>1, ReturnType DEF Unchanged, SharedOK, Status
  <2>5. ASSUME NEW p \in Proc, EnforceFails(p) PROVE Good'
    <3>1. disk' \in [File -> FileState]
      BY <2>5, WrittenIsAFile DEF EnforceFails, FileState, SharedOK
    <3> QED
      BY <2>5, <3>1, ReturnType, FaultType DEF EnforceFails, SharedOK, Status
  <2>6. ASSUME NEW p \in Proc, Differ(p) PROVE Good'
    BY <2>6, FilesAreNumbered DEF Differ, Goto, shared, SharedOK, LocalsOK,
                                  IndexOK, Label, Busy
  <2>7. ASSUME NEW p \in Proc, Capture(p) PROVE Good'
    <3>1. prev' \in [Proc -> [File -> FileState]]
      BY <2>7 DEF Capture, LocalsOK, SharedOK, IndexOK
    <3>2. at[p] < NFiles => at[p] + 1 \in File /\ at[p] + 1 \in 0..NFiles
      BY DEF LocalsOK, File
    <3>3. pc' \in [Proc -> Label] /\ at' \in [Proc -> 0..NFiles] /\ IndexOK'
      BY <2>7, <3>2, FilesAreNumbered, GotoType DEF Capture, Label, Busy
    <3> QED
      BY <2>7, <3>1, <3>3 DEF Capture, shared, SharedOK, LocalsOK
  <2>8. ASSUME NEW p \in Proc, WriteFile(p) PROVE Good'
    <3>1. disk' \in [File -> FileState]
      BY <2>8, WrittenIsAFile DEF WriteFile, SharedOK, LocalsOK
    <3>2. SharedOK' /\ faults' \in 0..MaxFaults
      BY <2>8, <3>1 DEF WriteFile, SharedOK
    <3>0. at[p] < NFiles => at[p] # NFiles
      BY DEF LocalsOK
    <3>3. CASE at[p] = NFiles /\ AfterWrite = "idle"
      <4>1. Return(p, "installed", FALSE)
        BY <2>8, <3>0, <3>3, Zenon DEF WriteFile
      <4> QED
        BY <3>2, <4>1, ReturnType DEF Status
    <3>4. CASE ~(at[p] = NFiles /\ AfterWrite = "idle")
      <4>1. AfterWrite \in Label /\ AfterWrite \notin {"capture", "write"}
        BY DEF AfterWrite, AfterCheck, Label, Busy
      <4>2. at[p] < NFiles => at[p] + 1 \in File /\ at[p] + 1 \in 0..NFiles
        BY DEF LocalsOK, File
      <4>3. pc' \in [Proc -> Label] /\ at' \in [Proc -> 0..NFiles] /\ IndexOK'
        <5>1. CASE at[p] < NFiles
          <6>1. Goto(p, "write", at[p] + 1)
            BY <2>8, <3>0, <5>1, Zenon DEF WriteFile
          <6> QED
            BY <4>2, <5>1, <6>1, GotoType DEF Label, Busy
        <5>2. CASE ~(at[p] < NFiles)
          <6>1. Goto(p, AfterWrite, 0)
            BY <2>8, <3>4, <5>2 DEF WriteFile
          <6> QED
            BY <4>1, <6>1, GotoType
        <5> QED
          BY <5>1, <5>2
      <4>4. written' = [written EXCEPT ![p] = @ \cup {at[p]}]
        BY <2>8, <3>4 DEF WriteFile
      <4>5. UNCHANGED <<job, prev, before, stopping, report>>
        BY <2>8, <3>4 DEF WriteFile
      <4> QED
        BY <2>8, <3>2, <4>3, <4>4, <4>5 DEF WriteFile, LocalsOK, IndexOK
    <3> QED
      BY <3>3, <3>4
  <2>9. ASSUME NEW p \in Proc, WriteFails(p) PROVE Good'
    BY <2>9, FaultType, GotoType, FilesAreNumbered
    DEF WriteFails, shared, SharedOK, LocalsOK, Label, Busy
  <2>10. ASSUME NEW p \in Proc, CheckPasses(p) PROVE Good'
    <3>1. vetted' \subseteq Release
      BY <2>10 DEF CheckPasses, FileState, SharedOK
    <3>2. SharedOK' /\ faults' \in 0..MaxFaults
      BY <2>10, <3>1 DEF CheckPasses, SharedOK
    <3>3. CASE HasReload
      BY <2>10, <3>2, <3>3, GotoType DEF CheckPasses, LocalsOK, Label, Busy
    <3>4. CASE ~HasReload
      BY <2>10, <3>2, <3>4, ReturnType DEF CheckPasses, Status
    <3> QED
      BY <3>3, <3>4
  <2>11. ASSUME NEW p \in Proc, CheckFails(p) PROVE Good'
    BY <2>11, CommandFailsType, GotoType, FilesAreNumbered
    DEF CheckFails, shared, SharedOK, LocalsOK, Label, Busy
  <2>12. ASSUME NEW p \in Proc, ReloadSucceeds(p) PROVE Good'
    <3>1. serving' \in [File -> Release]
      BY <2>12 DEF ReloadSucceeds, Loaded, FileState, SharedOK
    <3> QED
      BY <2>12, <3>1, ReturnType DEF ReloadSucceeds, SharedOK, Status
  <2>13. ASSUME NEW p \in Proc, ReloadFails(p) PROVE Good'
    <3>1. serving' \in [File -> Release]
      BY <2>13 DEF ReloadFails, Loaded, FileState, SharedOK
    <3> QED
      BY <2>13, <3>1, CommandFailsType, GotoType, FilesAreNumbered
      DEF ReloadFails, SharedOK, LocalsOK, Label, Busy
  <2>14. ASSUME NEW p \in Proc, RestoreFile(p) PROVE Good'
    <3>1. at[p] \in File /\ at[p] - 1 \in 0..NFiles
      BY <2>14 DEF RestoreFile, File, LocalsOK
    <3>2. disk' \in [File -> FileState]
      <4>1. prev[p][at[p]] \in FileState
        BY <3>1 DEF LocalsOK
      <4>2. Written(prev[p][at[p]].bytes, prev[p][at[p]].mode) \in FileState
        BY <4>1, WrittenIsAFile DEF FileState
      <4> QED
        BY <2>14, <4>2, InitialFiles DEF RestoreFile, SharedOK
    <3>3. pc' \in [Proc -> Label] /\ at' \in [Proc -> 0..NFiles] /\ IndexOK'
      BY <2>14, <3>1, GotoType DEF RestoreFile, Undoing, Label, Busy
    <3> QED
      BY <2>14, <3>2, <3>3 DEF RestoreFile, SharedOK, LocalsOK
  <2>15. ASSUME NEW p \in Proc, RestoreFails(p) PROVE Good'
    <3>1. at[p] \in File /\ at[p] - 1 \in 0..NFiles
      BY <2>15 DEF RestoreFails, File, LocalsOK
    <3>2. pc' \in [Proc -> Label] /\ at' \in [Proc -> 0..NFiles] /\ IndexOK'
      BY <2>15, <3>1, GotoType DEF RestoreFails, Undoing, Label, Busy
    <3> QED
      BY <2>15, <3>2, FaultType DEF RestoreFails, SharedOK, LocalsOK
  <2>16. ASSUME NEW p \in Proc, Restored(p) PROVE Good'
    <3>1. SharedOK' /\ faults' \in 0..MaxFaults
      BY <2>16 DEF Restored, shared, SharedOK
    <3>2. CASE Return(p, "failed", FALSE) \/ Return(p, "failed", TRUE)
      BY <3>1, <3>2, ReturnType DEF Status
    <3>3. CASE ~(Return(p, "failed", FALSE) \/ Return(p, "failed", TRUE))
      BY <2>16, <3>1, <3>3, GotoType DEF Restored, LocalsOK, Label, Busy
    <3> QED
      BY <3>2, <3>3
  <2>17. ASSUME NEW p \in Proc, ReloadAgain(p) PROVE Good'
    <3>1. serving' \in [File -> Release]
      BY <2>17 DEF ReloadAgain, Loaded, FileState, SharedOK
    <3> QED
      BY <2>17, <3>1, ReturnType DEF ReloadAgain, SharedOK, Status
  <2>18. ASSUME NEW p \in Proc, ReloadAgainFails(p) PROVE Good'
    <3>1. serving' \in [File -> Release]
      BY <2>18 DEF ReloadAgainFails, Loaded, FileState, SharedOK
    <3> QED
      BY <2>18, <3>1, ReturnType, FaultType
      DEF ReloadAgainFails, SharedOK, Status
  <2>19. ASSUME NEW p \in Proc, Stop(p) PROVE Good'
    BY <2>19, FaultType DEF Stop, shared, locals, SharedOK, LocalsOK, IndexOK
  <2>20. ASSUME NEW p \in Proc, Crash(p) PROVE Good'
    BY <2>20, FaultType, InitialFiles
    DEF Crash, SharedOK, LocalsOK, IndexOK, Label
  <2>21. ASSUME Issue PROVE Good'
    BY <2>21 DEF Issue, locals, SharedOK, LocalsOK, IndexOK
  <2>22. ASSUME NEW f \in File, Edit(f) PROVE Good'
    <3>1. disk' \in [File -> FileState]
      <4>1. disk[f] \in FileState
        BY DEF SharedOK
      <4>2. [disk[f] EXCEPT !.mode = "drifted"] \in FileState
        BY <4>1 DEF FileState
      <4> QED
        BY <2>22, <4>1, <4>2, InitialFiles DEF Edit, SharedOK
    <3> QED
      BY <2>22, <3>1, FaultType DEF Edit, locals, SharedOK, LocalsOK, IndexOK
  <2>23. CASE UNCHANGED vars
    BY <2>23 DEF vars, SharedOK, LocalsOK, IndexOK
  <2> HIDE DEF Good
  <2> QED
    BY <2>1, <2>2, <2>3, <2>4, <2>5, <2>6, <2>7, <2>8, <2>9, <2>10, <2>11,
       <2>12, <2>13, <2>14, <2>15, <2>16, <2>17, <2>18, <2>19, <2>20, <2>21,
       <2>22, <2>23
    DEF Next, Step
<1> QED
  BY <1>1, <1>2, PTL DEF Spec

\* The state of every installer and of what it touches keeps its type: no loop
\* over a destination's files runs past the last one.
THEOREM TypeCorrect == Spec => []TypeOK
<1>1. TypeInv => TypeOK
  BY TypeParts DEF TypeInv
<1> QED
  BY <1>1, TypeInvariant, PTL

-----------------------------------------------------------------------------
(* The inductive invariant.  It is about one installer: with two, each may *)
(* capture what the other has half written, and WholeAtRest is violated.   *)

Captured == {"write", "check", "reload", "undoWrite", "undoCheck",
             "undoReload", "reloadAgain"}

\* Nobody has edited the files.
Unedited == intact \/ ~CanEdit

Put(p)  == Written(job[p].release, "declared")
Back(p, f) == /\ disk[f].bytes = before[p][f].bytes
              /\ disk[f].mode = before[p][f].mode

\* Before anything was written: one release, and one the server can live with.
BeforeWriting(p) ==
    pc[p] \in {"idle", "compare", "capture"} =>
        /\ written[p] = {}
        /\ intact => Whole(Loaded) /\ (HasCheck => \A f \in File : disk[f].bytes \in vetted)

\* While capturing, what has been captured is what is there.
WhileCapturing(p) ==
    pc[p] = "capture" /\ Unedited =>
        /\ before[p] = disk
        /\ \A f \in File : f < at[p] => prev[p][f] = before[p][f]

\* Which files hold the new release.
WhichWritten(p) ==
    /\ pc[p] = "write" => written[p] = {f \in File : f < at[p]}
    /\ pc[p] \in {"check", "reload"} => written[p] = File
    /\ pc[p] = "reloadAgain" => written[p] = {}
    /\ pc[p] \in Undoing /\ intact => \A f \in written[p] : f <= at[p]

\* From the first write to the report, every file is new or as it was.
NewOrBack(p) ==
    pc[p] \in Captured /\ Unedited =>
        /\ prev[p] = before[p]
        /\ \A f \in File : IF f \in written[p] THEN disk[f] = Put(p) ELSE Back(p, f)

\* What a rollback would return to is one release the server can live with.
WayBack(p) ==
    pc[p] \in Captured /\ intact =>
        /\ \A f, g \in File : before[p][f].bytes = before[p][g].bytes
        /\ HasCheck => \A f \in File : before[p][f].bytes \in vetted

\* Nothing is reloaded that was not checked.
CheckedFirst(p) ==
    pc[p] = "reload" /\ intact /\ HasCheck => job[p].release \in vetted

OneInv(p) ==
    /\ BeforeWriting(p) /\ WhileCapturing(p) /\ WhichWritten(p)
    /\ NewOrBack(p) /\ WayBack(p) /\ CheckedFirst(p)

FilesInv == ServedWasVetted /\ \A p \in Proc : OneInv(p)

-----------------------------------------------------------------------------
(* FilesInv is inductive.                                                  *)

LEMMA OnlyInstaller ==
    ASSUME OneInstaller, NEW p \in Proc, OneInv(p)', ServedWasVetted'
    PROVE  FilesInv'
BY DEF OneInstaller, FilesInv

\* An installer that returns leaves the files as BeforeWriting wants them.
LEMMA ReturnInv ==
    ASSUME TypeInv, NEW p \in Proc, NEW s \in Status, NEW b \in BOOLEAN,
           Return(p, s, b),
           intact' => /\ \A f, g \in File : disk'[f].bytes = disk'[g].bytes
                      /\ HasCheck => \A f \in File : disk'[f].bytes \in vetted'
    PROVE  OneInv(p)'
<1>1. pc'[p] = "idle" /\ written'[p] = {}
  BY DEF Return, TypeInv, LocalsOK
<1>2. BeforeWriting(p)'
  BY <1>1 DEF BeforeWriting, Whole, Loaded
<1> QED
  BY <1>1, <1>2
  DEF OneInv, WhileCapturing, WhichWritten, NewOrBack, WayBack, CheckedFirst,
      Captured, Undoing

LEMMA GotoValues ==
    ASSUME TypeInv, NEW p \in Proc, NEW l, NEW i, Goto(p, l, i)
    PROVE  pc'[p] = l /\ at'[p] = i
BY DEF Goto, TypeInv, LocalsOK

LEMMA FilesInvStep ==
    ASSUME OneInstaller, TypeInv, FilesInv, [Next]_vars
    PROVE  FilesInv'
<1> USE DEF TypeInv
<1>0. /\ SharedOK /\ LocalsOK /\ IndexOK
      /\ ServedWasVetted /\ \A p \in Proc : OneInv(p)
  BY DEF FilesInv
<1> DEFINE Same == UNCHANGED <<disk, vetted, intact>>
           Sane == intact => /\ \A f, g \in File : disk[f].bytes = disk[g].bytes
                             /\ HasCheck => \A f \in File : disk[f].bytes \in vetted
<1>a. ASSUME NEW p \in Proc, pc[p] \in {"idle", "compare", "capture"}
      PROVE  Sane /\ written[p] = {}
  BY <1>0, <1>a DEF OneInv, BeforeWriting, Whole, Loaded
<1>b. ASSUME NEW p \in Proc, pc[p] \in Captured, intact
      PROVE  /\ \A f \in File : IF f \in written[p] THEN disk[f] = Put(p) ELSE Back(p, f)
             /\ prev[p] = before[p]
             /\ \A f, g \in File : before[p][f].bytes = before[p][g].bytes
             /\ HasCheck => \A f \in File : before[p][f].bytes \in vetted
  BY <1>0, <1>b DEF OneInv, NewOrBack, WayBack, Unedited
\* With nothing written, the files are what a rollback would return to.
<1>c. ASSUME NEW p \in Proc, pc[p] \in Captured, written[p] = {}
      PROVE  Sane
  BY <1>b, <1>c DEF Back
<1>d. UNCHANGED <<serving, vetted, intact>> => ServedWasVetted'
  BY <1>0 DEF ServedWasVetted, Whole
<1>e. ASSUME NEW p \in Proc, UNCHANGED <<disk, vetted, intact, pc, job, at, prev, before, written>>
      PROVE  OneInv(p)'
  BY <1>0, <1>e
  DEF OneInv, BeforeWriting, WhileCapturing, WhichWritten, NewOrBack, WayBack,
      CheckedFirst, Unedited, Put, Back, Whole, Loaded
<1>1. ASSUME NEW p \in Proc, Unfulfilled(p) PROVE FilesInv'
  <2>1. UNCHANGED <<serving, disk, vetted, intact, pc, job, at, prev, before, written>>
    BY <1>1 DEF Unfulfilled, shared, locals
  <2> QED
    BY <2>1, <1>d, <1>e, OnlyInstaller
<1>2. ASSUME NEW p \in Proc, NEW b \in BOOLEAN, Begin(p, b) PROVE FilesInv'
  <2>1. pc'[p] = "compare" /\ written'[p] = {} /\ UNCHANGED <<serving, disk, vetted, intact>>
    BY <1>2, <1>a, GotoValues DEF Begin, shared
  <2>2. Sane
    BY <1>2, <1>a DEF Begin
  <2>3. OneInv(p)'
    BY <2>1, <2>2
    DEF OneInv, BeforeWriting, WhileCapturing, WhichWritten, NewOrBack, WayBack,
        CheckedFirst, Whole, Loaded, Captured, Undoing
  <2> QED
    BY <2>1, <2>3, <1>d, OnlyInstaller
<1>3. ASSUME NEW p \in Proc, Refuse(p) PROVE FilesInv'
  <2>1. Sane /\ UNCHANGED <<serving, disk, vetted, intact>> /\ Return(p, "failed", FALSE)
    BY <1>3, <1>a DEF Refuse, shared
  <2>2. OneInv(p)'
    BY <2>1, ReturnInv DEF Status
  <2> QED
    BY <2>1, <2>2, <1>d, OnlyInstaller
<1>4. ASSUME NEW p \in Proc, Unchanged(p) \/ EnforceFails(p) PROVE FilesInv'
  <2>1. \A f \in File : disk'[f].bytes = disk[f].bytes
    <3>1. CASE Unchanged(p)
      BY <3>1 DEF Unchanged, Written
    <3>2. CASE EnforceFails(p)
      <4>1. PICK n \in File :
              disk' = [f \in File |-> IF f < n THEN Written(disk[f].bytes, "declared")
                                               ELSE disk[f]]
        BY <3>2 DEF EnforceFails
      <4> QED
        BY <4>1 DEF Written
    <3> QED
      BY <1>4, <3>1, <3>2
  <2>2. Sane /\ UNCHANGED <<serving, vetted, intact>>
    BY <1>4, <1>a DEF Unchanged, EnforceFails
  <2>3. Return(p, "installed", FALSE) \/ Return(p, "failed", FALSE)
    BY <1>4 DEF Unchanged, EnforceFails
  <2>4. OneInv(p)'
    BY <2>1, <2>2, <2>3, ReturnInv DEF Status
  <2> QED
    BY <2>2, <2>4, <1>d, OnlyInstaller
<1>5. ASSUME NEW p \in Proc, Differ(p) PROVE FilesInv'
  <2>1. /\ pc'[p] = "capture" /\ at'[p] = 1 /\ written'[p] = {} /\ before'[p] = disk
        /\ UNCHANGED <<serving, disk, vetted, intact>>
    BY <1>0, <1>5, <1>a, GotoValues DEF Differ, shared, LocalsOK
  <2>2. Sane
    BY <1>5, <1>a DEF Differ
  <2>3. \A f \in File : ~(f < 1)
    BY DEF File
  <2>4. OneInv(p)'
    BY <2>1, <2>2, <2>3
    DEF OneInv, BeforeWriting, WhileCapturing, WhichWritten, NewOrBack, WayBack,
        CheckedFirst, Whole, Loaded, Captured, Undoing
  <2> QED
    BY <2>1, <2>4, <1>d, OnlyInstaller
<1>6. ASSUME NEW p \in Proc, Capture(p) PROVE FilesInv'
  <2>1. /\ pc[p] = "capture" /\ at[p] \in File
        /\ prev'[p] = [prev[p] EXCEPT ![at[p]] = disk[at[p]]]
        /\ UNCHANGED <<serving, disk, vetted, intact, job, before, written>>
    BY <1>0, <1>6 DEF Capture, shared, LocalsOK, IndexOK
  <2>2. Sane /\ written[p] = {}
    BY <2>1, <1>a
  <2>3. Unedited => /\ before[p] = disk
                    /\ \A f \in File : f < at[p] => prev[p][f] = before[p][f]
    BY <1>0, <2>1 DEF OneInv, WhileCapturing
  <2>4. Unedited => \A f \in File : f < at[p] + 1 => prev'[p][f] = before[p][f]
    BY <1>0, <2>1, <2>3 DEF LocalsOK, File
  <2>5. CASE at[p] < NFiles
    <3>1. pc'[p] = "capture" /\ at'[p] = at[p] + 1
      BY <1>6, <2>5, GotoValues DEF Capture
    <3>2. OneInv(p)'
      BY <2>1, <2>2, <2>3, <2>4, <3>1
      DEF OneInv, BeforeWriting, WhileCapturing, WhichWritten, NewOrBack, WayBack,
          CheckedFirst, Whole, Loaded, Captured, Undoing, Unedited
    <3> QED
      BY <2>1, <3>2, <1>d, OnlyInstaller
  <2>6. CASE ~(at[p] < NFiles)
    <3>1. pc'[p] = "write" /\ at'[p] = 1
      BY <1>6, <2>6, GotoValues DEF Capture
    <3>2. \A f \in File : f < at[p] + 1 /\ ~(f < 1)
      BY <2>1, <2>6 DEF File
    <3>3. Unedited => prev'[p] = before[p]
      BY <1>0, <2>1, <2>4, <3>2 DEF LocalsOK
    <3>4. NewOrBack(p)' /\ WayBack(p)'
      <4>1. Unedited' => Unedited /\ before'[p] = disk' /\ prev'[p] = before'[p]
        BY <2>1, <2>3, <3>3 DEF Unedited
      <4>2. intact' => Unedited
        BY <2>1 DEF Unedited
      <4>3. NewOrBack(p)'
        BY <2>1, <2>2, <4>1 DEF NewOrBack, Back
      <4>4. WayBack(p)'
        <5> SUFFICES ASSUME intact'
                     PROVE  /\ \A f, g \in File : before[p][f].bytes = before[p][g].bytes
                            /\ HasCheck => \A f \in File : before[p][f].bytes \in vetted
          BY <2>1 DEF WayBack
        <5> QED
          BY <2>1, <2>2, <2>3, <4>2
      <4> QED
        BY <4>3, <4>4
    <3>5. WhichWritten(p)'
      BY <2>1, <2>2, <3>1, <3>2 DEF WhichWritten, Undoing
    <3> QED
      BY <2>1, <3>1, <3>4, <3>5, <1>d, OnlyInstaller
      DEF OneInv, BeforeWriting, WhileCapturing, CheckedFirst
  <2> QED
    BY <2>5, <2>6
<1>7. ASSUME NEW p \in Proc, WriteFile(p) PROVE FilesInv'
  <2>1. /\ pc[p] = "write" /\ at[p] \in File
        /\ disk' = [disk EXCEPT ![at[p]] = Put(p)]
        /\ UNCHANGED <<serving, vetted, intact>>
    BY <1>0, <1>7 DEF WriteFile, IndexOK, Put
  <2>2. written[p] = {f \in File : f < at[p]}
    BY <1>0, <2>1 DEF OneInv, WhichWritten
  <2>3. Unedited => /\ prev[p] = before[p]
                    /\ \A f \in File : IF f \in written[p] THEN disk[f] = Put(p)
                                                           ELSE Back(p, f)
    BY <1>0, <2>1 DEF OneInv, NewOrBack, Captured
  <2>4. Unedited => \A f \in File : IF f \in written[p] \cup {at[p]}
                                    THEN disk'[f] = Put(p)
                                    ELSE /\ disk'[f].bytes = before[p][f].bytes
                                         /\ disk'[f].mode = before[p][f].mode
    BY <1>0, <2>1, <2>3 DEF SharedOK, Back
  <2>5. CASE at[p] = NFiles /\ AfterWrite = "idle"
    <3>0. ~(at[p] < NFiles)
      BY <2>5
    <3>1. Return(p, "installed", FALSE)
      BY <1>7, <2>5, <3>0, Zenon DEF WriteFile
    <3>2. \A f \in File : f \in written[p] \cup {at[p]}
      BY <2>2, <2>5 DEF File
    <3>3. ~HasCheck
      BY <2>5 DEF AfterWrite
    <3>4. intact' => \A f \in File : disk'[f] = Put(p)
      BY <2>1, <2>4, <3>2 DEF Unedited
    <3>5. OneInv(p)'
      BY <3>1, <3>3, <3>4, ReturnInv DEF Status
    <3> QED
      BY <2>1, <3>5, <1>d, OnlyInstaller
  <2>6. CASE ~(at[p] = NFiles /\ AfterWrite = "idle")
    <3>1. /\ written'[p] = written[p] \cup {at[p]}
          /\ UNCHANGED <<job, prev, before>>
      BY <1>0, <1>7, <2>6 DEF WriteFile, LocalsOK
    <3>2. NewOrBack(p)'
      BY <2>1, <2>3, <2>4, <3>1 DEF NewOrBack, Unedited, Put, Back
    <3>3. WayBack(p)'
      BY <1>0, <2>1, <3>1 DEF OneInv, WayBack, Captured
    <3>4. CASE at[p] < NFiles
      <4>1. pc'[p] = "write" /\ at'[p] = at[p] + 1
        <5>1. Goto(p, "write", at[p] + 1)
          <6>1. at[p] # NFiles
            BY <3>4
          <6> QED
            BY <1>7, <3>4, <6>1, Zenon DEF WriteFile
        <5> QED
          BY <5>1, GotoValues
      <4>2. written'[p] = {f \in File : f < at[p] + 1}
        BY <2>1, <2>2, <3>1 DEF File
      <4> QED
        BY <2>1, <3>2, <3>3, <4>1, <4>2, <1>d, OnlyInstaller
        DEF OneInv, BeforeWriting, WhileCapturing, WhichWritten, CheckedFirst, Undoing
    <3>5. CASE ~(at[p] < NFiles)
      <4>1. Goto(p, AfterWrite, 0)
        BY <1>7, <2>6, <3>5, Zenon DEF WriteFile
      <4>2. pc'[p] = AfterWrite /\ AfterWrite \in {"check", "reload"}
        <5>1. AfterWrite # "idle"
          BY <1>7, <2>6, <3>5, Zenon DEF WriteFile
        <5> QED
          BY <4>1, <5>1, GotoValues DEF AfterWrite, AfterCheck
      <4>3. written'[p] = File
        BY <2>1, <2>2, <3>1, <3>5 DEF File
      <4>4. AfterWrite = "reload" => ~HasCheck
        BY DEF AfterWrite
      <4> QED
        BY <2>1, <3>2, <3>3, <4>2, <4>3, <4>4, <1>d, OnlyInstaller
        DEF OneInv, BeforeWriting, WhileCapturing, WhichWritten, CheckedFirst, Undoing
    <3> QED
      BY <3>4, <3>5
  <2> QED
    BY <2>5, <2>6
<1>f. ASSUME NEW p \in Proc, NEW l \in Undoing, pc[p] \in Captured, Goto(p, l, NFiles),
             UNCHANGED <<disk, vetted, intact, job, prev, before, written>>
      PROVE  OneInv(p)'
  <2>1. pc'[p] = l /\ at'[p] = NFiles
    BY <1>f, GotoValues
  <2>2. \A f \in written[p] : f <= NFiles
    BY <1>0 DEF LocalsOK, File
  <2>3. NewOrBack(p)' /\ WayBack(p)'
    BY <1>0, <1>f DEF OneInv, NewOrBack, WayBack, Unedited, Put, Back
  <2> QED
    BY <1>f, <2>1, <2>2, <2>3
    DEF OneInv, BeforeWriting, WhileCapturing, WhichWritten, CheckedFirst, Undoing
<1>8. ASSUME NEW p \in Proc, WriteFails(p) PROVE FilesInv'
  <2>1. /\ pc[p] \in Captured /\ Goto(p, "undoWrite", NFiles)
        /\ UNCHANGED <<serving, disk, vetted, intact, job, prev, before, written>>
    BY <1>8 DEF WriteFails, shared, Captured
  <2> QED
    BY <2>1, <1>d, <1>f, OnlyInstaller DEF Undoing
<1>9. ASSUME NEW p \in Proc, CheckPasses(p) PROVE FilesInv'
  <2>1. /\ pc[p] = "check" /\ vetted' = vetted \cup {disk[f].bytes : f \in File}
        /\ UNCHANGED <<serving, disk, intact>>
    BY <1>9 DEF CheckPasses
  <2>2. intact => \A f \in File : disk[f] = Put(p)
    BY <1>0, <1>b, <2>1 DEF OneInv, WhichWritten, Captured
  <2>3. ServedWasVetted'
    BY <1>0, <2>1 DEF ServedWasVetted, Whole
  <2>4. CASE ~HasReload
    <3>1. Return(p, "installed", FALSE)
      BY <1>9, <2>4 DEF CheckPasses
    <3>2. OneInv(p)'
      BY <2>1, <2>2, <3>1, ReturnInv DEF Status
    <3> QED
      BY <2>3, <3>2, OnlyInstaller
  <2>5. CASE HasReload
    <3>1. /\ pc'[p] = "reload"
          /\ UNCHANGED <<job, prev, before, written>>
      BY <1>9, <2>5, GotoValues DEF CheckPasses
    <3>2. intact => job[p].release \in vetted'
      BY <2>1, <2>2, FilesAreNumbered DEF Put, Written
    <3>3. NewOrBack(p)' /\ WayBack(p)'
      BY <1>0, <2>1, <3>1 DEF OneInv, NewOrBack, WayBack, Unedited, Put, Back, Captured
    <3>4. written[p] = File
      BY <1>0, <2>1 DEF OneInv, WhichWritten
    <3>5. OneInv(p)'
      BY <2>1, <3>1, <3>2, <3>3, <3>4
      DEF OneInv, BeforeWriting, WhileCapturing, WhichWritten, CheckedFirst, Undoing
    <3> QED
      BY <2>3, <3>5, OnlyInstaller
  <2> QED
    BY <2>4, <2>5
<1>10. ASSUME NEW p \in Proc, CheckFails(p) PROVE FilesInv'
  <2>1. /\ pc[p] \in Captured /\ Goto(p, "undoCheck", NFiles)
        /\ UNCHANGED <<serving, disk, vetted, intact, job, prev, before, written>>
    BY <1>10 DEF CheckFails, shared, Captured
  <2> QED
    BY <2>1, <1>d, <1>f, OnlyInstaller DEF Undoing
\* In `reload' every file holds a release that was checked.
<1>g. ASSUME NEW p \in Proc, pc[p] = "reload", intact
      PROVE  /\ \A f \in File : disk[f].bytes = job[p].release
             /\ HasCheck => job[p].release \in vetted
  <2>1. written[p] = File /\ (HasCheck => job[p].release \in vetted)
    BY <1>0, <1>g DEF OneInv, WhichWritten, CheckedFirst
  <2>2. \A f \in File : disk[f] = Put(p)
    BY <1>b, <1>g, <2>1 DEF Captured
  <2> QED
    BY <2>1, <2>2 DEF Put, Written
<1>11. ASSUME NEW p \in Proc, ReloadSucceeds(p) PROVE FilesInv'
  <2>1. /\ pc[p] = "reload" /\ serving' = Loaded /\ Return(p, "installed", FALSE)
        /\ UNCHANGED <<disk, vetted, intact>>
    BY <1>11 DEF ReloadSucceeds
  <2>2. OneInv(p)'
    BY <2>1, <1>g, ReturnInv DEF Status
  <2>3. ServedWasVetted'
    BY <2>1, <1>g DEF ServedWasVetted, Loaded, Whole
  <2> QED
    BY <2>2, <2>3, OnlyInstaller
<1>12. ASSUME NEW p \in Proc, ReloadFails(p) PROVE FilesInv'
  <2>1. /\ pc[p] = "reload" /\ serving' \in {serving, Loaded}
        /\ Goto(p, "undoReload", NFiles)
        /\ UNCHANGED <<disk, vetted, intact, job, prev, before, written>>
    BY <1>12 DEF ReloadFails
  <2>2. ServedWasVetted'
    <3>1. CASE serving' = serving
      BY <2>1, <3>1, <1>d
    <3>2. CASE serving' = Loaded
      BY <2>1, <3>2, <1>g DEF ServedWasVetted, Loaded, Whole
    <3> QED
      BY <2>1, <3>1, <3>2
  <2> QED
    BY <2>1, <2>2, <1>f, OnlyInstaller DEF Undoing, Captured
\* A restore that has put back, or failed to put back, the file it is at.
<1>13. ASSUME NEW p \in Proc, RestoreFile(p) PROVE FilesInv'
  <2>1. /\ pc[p] \in Undoing /\ at[p] \in File
        /\ UNCHANGED <<serving, vetted, intact, job, prev, before>>
        /\ written' = [written EXCEPT ![p] = written[p] \ {at[p]}]
        /\ Goto(p, pc[p], at[p] - 1)
    BY <1>0, <1>13 DEF RestoreFile, LocalsOK, File
  <2>2. pc'[p] = pc[p] /\ at'[p] = at[p] - 1 /\ written'[p] = written[p] \ {at[p]}
    BY <1>0, <2>1, GotoValues DEF LocalsOK
  <2>3. WhichWritten(p)'
    <3> SUFFICES ASSUME intact', NEW f \in written'[p]
                 PROVE  f <= at'[p]
      BY <2>1, <2>2 DEF WhichWritten, Undoing
    <3>1. f \in written[p] /\ f # at[p] /\ f \in File
      BY <1>0, <2>2 DEF LocalsOK
    <3>2. f <= at[p]
      BY <1>0, <2>1, <3>1 DEF OneInv, WhichWritten
    <3> QED
      BY <2>1, <2>2, <3>1, <3>2 DEF File
  <2>4. NewOrBack(p)'
    <3> SUFFICES ASSUME Unedited'
                 PROVE  /\ prev'[p] = before'[p]
                        /\ \A f \in File :
                             IF f \in written'[p] THEN disk'[f] = Put(p)' ELSE Back(p, f)'
      BY DEF NewOrBack
    <3>0. Put(p)' = Put(p)
      BY <2>1 DEF Put
    <3>1. Unedited /\ pc[p] \in Captured
      BY <2>1 DEF Unedited, Undoing, Captured
    <3>2. /\ prev[p] = before[p]
          /\ \A f \in File : IF f \in written[p] THEN disk[f] = Put(p) ELSE Back(p, f)
      BY <1>0, <3>1 DEF OneInv, NewOrBack
    <3>3. CASE at[p] \in written[p]
      <4>1. disk' = [disk EXCEPT ![at[p]] =
                       IF prev[p][at[p]] = NoFile THEN NoFile
                       ELSE Written(prev[p][at[p]].bytes, prev[p][at[p]].mode)]
        BY <1>13, <3>3 DEF RestoreFile
      <4>2. /\ disk'[at[p]].bytes = before[p][at[p]].bytes
            /\ disk'[at[p]].mode = before[p][at[p]].mode
        BY <1>0, <2>1, <3>2, <4>1 DEF Written, SharedOK
      <4>3. \A f \in File \ {at[p]} : disk'[f] = disk[f] /\ (Back(p, f) => Back(p, f)')
        BY <1>0, <2>1, <4>1 DEF SharedOK, Back
      <4> QED
        BY <2>1, <2>2, <3>0, <3>2, <4>2, <4>3 DEF Back
    <3>4. CASE at[p] \notin written[p]
      <4>1. disk' = disk
        BY <1>13, <3>4 DEF RestoreFile
      <4> QED
        BY <2>1, <2>2, <3>0, <3>2, <3>4, <4>1 DEF Back
    <3> QED
      BY <3>3, <3>4
  <2>5. WayBack(p)'
    BY <1>0, <2>1 DEF OneInv, WayBack, Undoing, Captured
  <2>6. OneInv(p)'
    BY <2>1, <2>2, <2>3, <2>4, <2>5
    DEF OneInv, BeforeWriting, WhileCapturing, CheckedFirst, Undoing
  <2> QED
    BY <2>1, <2>6, <1>d, OnlyInstaller
<1>14. ASSUME NEW p \in Proc, RestoreFails(p) PROVE FilesInv'
  <2>1. /\ pc[p] \in Undoing /\ intact' = FALSE
        /\ UNCHANGED <<disk, serving, vetted, job, prev, before, written>>
        /\ pc'[p] = pc[p]
    BY <1>14, GotoValues DEF RestoreFails
  <2>2. NewOrBack(p)'
    BY <1>0, <2>1 DEF OneInv, NewOrBack, Unedited, Put, Back, Undoing, Captured
  <2>3. OneInv(p)'
    BY <2>1, <2>2
    DEF OneInv, BeforeWriting, WhileCapturing, WhichWritten, WayBack, CheckedFirst, Undoing
  <2> QED
    BY <2>1, <2>3, OnlyInstaller DEF ServedWasVetted
\* At the end of a restore nothing is left written, unless a file was lost.
<1>15. ASSUME NEW p \in Proc, Restored(p) PROVE FilesInv'
  <2>1. /\ pc[p] \in Undoing /\ at[p] = 0
        /\ UNCHANGED <<serving, disk, vetted, intact>>
    BY <1>15 DEF Restored, shared
  <2>2. intact => written[p] = {}
    <3> SUFFICES ASSUME intact, NEW f \in written[p] PROVE FALSE
      OBVIOUS
    <3>1. f <= 0 /\ f \in File
      BY <1>0, <2>1 DEF OneInv, WhichWritten, LocalsOK
    <3> QED
      BY <3>1 DEF File
  <2>3. Sane
    BY <2>1, <2>2, <1>c DEF Undoing, Captured
  <2>4. CASE Return(p, "failed", FALSE) \/ Return(p, "failed", TRUE)
    <3>1. OneInv(p)'
      BY <2>1, <2>3, <2>4, ReturnInv DEF Status
    <3> QED
      BY <2>1, <3>1, <1>d, OnlyInstaller
  <2>5. CASE ~(Return(p, "failed", FALSE) \/ Return(p, "failed", TRUE))
    <3>1. /\ pc'[p] = "reloadAgain" /\ written[p] = {}
          /\ UNCHANGED <<job, prev, before, written>>
      BY <1>15, <2>5, GotoValues DEF Restored
    <3>2. NewOrBack(p)' /\ WayBack(p)'
      BY <1>0, <2>1, <3>1
      DEF OneInv, NewOrBack, WayBack, Unedited, Put, Back, Undoing, Captured
    <3>3. OneInv(p)'
      BY <3>1, <3>2
      DEF OneInv, BeforeWriting, WhileCapturing, WhichWritten, CheckedFirst, Undoing
    <3> QED
      BY <2>1, <3>3, <1>d, OnlyInstaller
  <2> QED
    BY <2>4, <2>5
<1>16. ASSUME NEW p \in Proc, ReloadAgain(p) \/ ReloadAgainFails(p) PROVE FilesInv'
  <2>1. /\ pc[p] = "reloadAgain" /\ serving' \in {serving, Loaded}
        /\ Return(p, "failed", TRUE) /\ UNCHANGED <<disk, vetted, intact>>
    BY <1>16 DEF ReloadAgain, ReloadAgainFails
  <2>2. Sane
    <3>1. written[p] = {}
      BY <1>0, <2>1 DEF OneInv, WhichWritten
    <3> QED
      BY <2>1, <3>1, <1>c DEF Captured
  <2>3. OneInv(p)'
    BY <2>1, <2>2, ReturnInv DEF Status
  <2>4. ServedWasVetted'
    <3>1. CASE serving' = serving
      BY <2>1, <3>1, <1>d
    <3>2. CASE serving' = Loaded
      BY <2>1, <2>2, <3>2 DEF ServedWasVetted, Loaded, Whole
    <3> QED
      BY <2>1, <3>1, <3>2
  <2> QED
    BY <2>3, <2>4, OnlyInstaller
<1>17. ASSUME NEW p \in Proc, Stop(p) PROVE FilesInv'
  <2>1. UNCHANGED <<serving, disk, vetted, intact, pc, job, at, prev, before, written>>
    BY <1>17 DEF Stop, shared, locals
  <2> QED
    BY <2>1, <1>d, <1>e, OnlyInstaller
<1>18. ASSUME NEW p \in Proc, Crash(p) PROVE FilesInv'
  <2>1. /\ pc[p] \in Busy /\ intact' = (intact /\ written[p] = {})
        /\ UNCHANGED <<serving, disk, vetted>>
        /\ pc'[p] = "idle" /\ written'[p] = {}
    BY <1>0, <1>18 DEF Crash, LocalsOK
  <2>2. intact' => /\ \A f, g \in File : disk[f].bytes = disk[g].bytes
                   /\ HasCheck => \A f \in File : disk[f].bytes \in vetted
    <3>1. CASE pc[p] \in Captured
      BY <2>1, <3>1, <1>c
    <3>2. CASE pc[p] \notin Captured
      BY <2>1, <3>2, <1>a DEF Busy, Captured
    <3> QED
      BY <3>1, <3>2
  <2>3. OneInv(p)'
    BY <2>1, <2>2
    DEF OneInv, BeforeWriting, WhileCapturing, WhichWritten, NewOrBack, WayBack,
        CheckedFirst, Whole, Loaded, Captured, Undoing
  <2>4. ServedWasVetted'
    BY <1>0, <2>1 DEF ServedWasVetted, Whole
  <2> QED
    BY <2>3, <2>4, OnlyInstaller
<1>19. ASSUME Issue PROVE FilesInv'
  <2>1. UNCHANGED <<serving, disk, vetted, intact, pc, job, at, prev, before, written>>
    BY <1>19 DEF Issue, locals
  <2> QED
    BY <2>1, <1>d, <1>e DEF FilesInv
<1>20. ASSUME NEW f \in File, Edit(f) PROVE FilesInv'
  <2>1. /\ intact' = FALSE /\ CanEdit
        /\ UNCHANGED <<serving, vetted, pc, job, at, prev, before, written>>
    BY <1>20 DEF Edit, locals
  <2>2. \A p \in Proc : OneInv(p)'
    BY <1>0, <2>1
    DEF OneInv, BeforeWriting, WhileCapturing, WhichWritten, NewOrBack, WayBack,
        CheckedFirst, Unedited
  <2> QED
    BY <2>1, <2>2 DEF FilesInv, ServedWasVetted
<1>21. ASSUME UNCHANGED vars PROVE FilesInv'
  <2>1. UNCHANGED <<serving, disk, vetted, intact, pc, job, at, prev, before, written>>
    BY <1>21 DEF vars
  <2> QED
    BY <2>1, <1>d, <1>e DEF FilesInv
<1> QED
  BY <1>1, <1>2, <1>3, <1>4, <1>5, <1>6, <1>7, <1>8, <1>9, <1>10, <1>11, <1>12,
     <1>13, <1>14, <1>15, <1>16, <1>17, <1>18, <1>19, <1>20, <1>21
  DEF Next, Step

LEMMA FilesInvInit == ASSUME OneInstaller, Init PROVE FilesInv
<1>1. Whole(Loaded) /\ serving = Loaded /\ \A f \in File : disk[f].bytes \in vetted
  BY FilesAreNumbered DEF Init, Whole, Loaded, NoFile, Legacy
<1>2. ServedWasVetted
  BY <1>1 DEF ServedWasVetted, Loaded
<1>3. \A p \in Proc : pc[p] = "idle" /\ written[p] = {}
  BY DEF Init
<1> QED
  BY <1>1, <1>2, <1>3
  DEF FilesInv, OneInv, BeforeWriting, WhileCapturing, WhichWritten, NewOrBack,
      WayBack, CheckedFirst, Undoing, Captured

LEMMA FilesInvariant == ASSUME OneInstaller PROVE Spec => [](TypeInv /\ FilesInv)
<1>1. TypeInv /\ FilesInv /\ [Next]_vars => FilesInv'
  BY FilesInvStep
<1>2. Init => FilesInv
  BY FilesInvInit
<1> QED
  BY <1>1, <1>2, TypeInvariant, PTL DEF Spec

\* write and confirm (install.go): whatever failed and whenever SIGTERM came,
\* between installations the files of a destination are of one issuance.
THEOREM FilesStayWhole == ASSUME OneInstaller PROVE Spec => []WholeAtRest
<1>1. FilesInv => WholeAtRest
  <2> SUFFICES ASSUME FilesInv, Resting, intact PROVE Whole(Loaded)
    BY DEF WholeAtRest
  <2>1. PICK p \in Proc : pc[p] = "idle"
    BY DEF OneInstaller, Resting
  <2> QED
    BY <2>1 DEF FilesInv, OneInv, BeforeWriting
<1> QED
  BY <1>1, FilesInvariant, PTL

\* confirm: the server only ever runs on one issuance, and on one that its
\* check accepted or that it was running on before.
THEOREM ServerStaysVetted == ASSUME OneInstaller PROVE Spec => []ServedWasVetted
<1>1. FilesInv => ServedWasVetted
  BY DEF FilesInv
<1> QED
  BY <1>1, FilesInvariant, PTL

\* An installer that is at work has not reported yet.
NotYetReported == \A p \in Proc : pc[p] # "idle" => report[p] = NoReport

LEMMA NotYetReportedStep ==
    ASSUME TypeInv, NotYetReported, [Next]_vars PROVE NotYetReported'
<1> USE DEF TypeInv
<1>0. LocalsOK
  OBVIOUS
<1>a. ASSUME NEW p \in Proc, NEW s, NEW b, Return(p, s, b) PROVE NotYetReported'
  BY <1>0, <1>a DEF Return, NotYetReported, LocalsOK
<1>b. ASSUME NEW p \in Proc, NEW l, NEW i, Goto(p, l, i), pc[p] # "idle", UNCHANGED report
      PROVE  NotYetReported'
  BY <1>0, <1>b DEF Goto, NotYetReported, LocalsOK
<1>1. ASSUME NEW p \in Proc, Unfulfilled(p) PROVE NotYetReported'
  BY <1>0, <1>1 DEF Unfulfilled, NotYetReported, LocalsOK
<1>2. ASSUME NEW p \in Proc, NEW b \in BOOLEAN, Begin(p, b) PROVE NotYetReported'
  BY <1>0, <1>2 DEF Begin, Goto, NotYetReported, LocalsOK
<1>3. ASSUME NEW p \in Proc,
             \/ Refuse(p) \/ Unchanged(p) \/ EnforceFails(p)
             \/ ReloadSucceeds(p) \/ ReloadAgain(p) \/ ReloadAgainFails(p)
      PROVE  NotYetReported'
  BY <1>3, <1>a
  DEF Refuse, Unchanged, EnforceFails, ReloadSucceeds, ReloadAgain, ReloadAgainFails
<1>4. ASSUME NEW p \in Proc,
             \/ Differ(p) \/ Capture(p) \/ WriteFails(p) \/ CheckFails(p)
             \/ ReloadFails(p) \/ RestoreFile(p) \/ RestoreFails(p)
      PROVE  NotYetReported'
  BY <1>4, <1>b
  DEF Differ, Capture, WriteFails, CheckFails, ReloadFails, RestoreFile,
      RestoreFails, Undoing
<1>5. ASSUME NEW p \in Proc, WriteFile(p) \/ CheckPasses(p) \/ Restored(p)
      PROVE  NotYetReported'
  <2>1. CASE \E s, b : Return(p, s, b)
    BY <2>1, <1>a
  <2>2. CASE ~\E s, b : Return(p, s, b)
    BY <1>5, <2>2, <1>b, Zenon DEF WriteFile, CheckPasses, Restored, Undoing
  <2> QED
    BY <2>1, <2>2
<1>6. ASSUME NEW p \in Proc, Crash(p) PROVE NotYetReported'
  BY <1>0, <1>6 DEF Crash, NotYetReported, LocalsOK
<1>7. ASSUME \/ UNCHANGED vars
             \/ Issue
             \/ \E p \in Proc : Stop(p)
             \/ \E f \in File : Edit(f)
      PROVE  NotYetReported'
  BY <1>7 DEF Stop, Issue, Edit, vars, locals, NotYetReported
<1> QED
  BY <1>1, <1>2, <1>3, <1>4, <1>5, <1>6, <1>7 DEF Next, Step

\* A step that reports a rollback, and the files it leaves.
LEMMA RollbackStep ==
    ASSUME OneInstaller, ~CanEdit, TypeInv, FilesInv, NotYetReported, [Next]_vars,
           NEW p \in Proc, pc[p] # "idle", report'[p].rolledBack
    PROVE  \A f \in File : /\ disk'[f].bytes = before[p][f].bytes
                           /\ disk'[f].mode = before[p][f].mode
<1> USE DEF TypeInv
<1>0. LocalsOK /\ \A q \in Proc : q = p
  BY DEF OneInstaller
<1>1. report' # report
  BY <1>0 DEF NotYetReported, NoReport
<1>2. ASSUME NEW s, NEW b, Return(p, s, b) PROVE b
  BY <1>0, <1>2 DEF Return, LocalsOK
<1>a. ASSUME Restored(p) PROVE pc[p] = "undoCheck" /\ written[p] = {} /\ disk' = disk
  BY <1>a, <1>1, <1>2 DEF Restored, shared
<1>b. ASSUME ReloadAgain(p) \/ ReloadAgainFails(p)
      PROVE  pc[p] = "reloadAgain" /\ disk' = disk
  BY <1>b DEF ReloadAgain, ReloadAgainFails
<1>3. \/ Restored(p) \/ ReloadAgain(p) \/ ReloadAgainFails(p)
  <2>1. ASSUME Unfulfilled(p) \/ Begin(p, TRUE) \/ Begin(p, FALSE) PROVE FALSE
    BY <2>1 DEF Unfulfilled, Begin
  <2>2. ASSUME \/ Refuse(p) \/ Unchanged(p) \/ EnforceFails(p) \/ ReloadSucceeds(p)
        PROVE  FALSE
    BY <2>2, <1>2 DEF Refuse, Unchanged, EnforceFails, ReloadSucceeds
  <2>3. ASSUME \/ Differ(p) \/ Capture(p) \/ WriteFails(p) \/ CheckFails(p)
               \/ ReloadFails(p) \/ RestoreFile(p) \/ RestoreFails(p) \/ Stop(p) \/ Crash(p)
        PROVE  FALSE
    BY <2>3, <1>1
    DEF Differ, Capture, WriteFails, CheckFails, ReloadFails, RestoreFile,
        RestoreFails, Stop, Crash
  <2>4. ASSUME WriteFile(p) \/ CheckPasses(p) PROVE FALSE
    BY <2>4, <1>1, <1>2 DEF WriteFile, CheckPasses
  <2>5. ASSUME Issue \/ UNCHANGED vars \/ \E f \in File : Edit(f) PROVE FALSE
    BY <2>5, <1>1 DEF Issue, Edit, vars
  <2> QED
    BY <1>0, <2>1, <2>2, <2>3, <2>4, <2>5 DEF Next, Step
<1>4. /\ pc[p] \in Captured /\ written[p] = {} /\ disk' = disk
  BY <1>a, <1>b, <1>3 DEF FilesInv, OneInv, WhichWritten, Captured
<1>5. \A f \in File : Back(p, f)
  BY <1>4 DEF FilesInv, OneInv, NewOrBack, Unedited
<1> QED
  BY <1>4, <1>5 DEF Back

\* rollback: a report that says RolledBack finds the captured bytes and modes
\* at every path, when nobody else edits the files.
THEOREM RollbackRestores ==
    ASSUME OneInstaller, ~CanEdit PROVE Spec => RolledBackMeansRestored
<1>1. Init => NotYetReported
  BY DEF Init, NotYetReported
<1>2. TypeInv /\ NotYetReported /\ [Next]_vars => NotYetReported'
  BY NotYetReportedStep
<1>3. TypeInv /\ FilesInv /\ NotYetReported /\ [Next]_vars =>
        [\A p \in Proc :
           pc[p] # "idle" /\ report'[p].rolledBack =>
             \A f \in File : /\ disk'[f].bytes = before[p][f].bytes
                             /\ disk'[f].mode = before[p][f].mode]_vars
  BY RollbackStep
<1> QED
  BY <1>1, <1>2, <1>3, FilesInvariant, PTL DEF Spec, RolledBackMeansRestored

-----------------------------------------------------------------------------
(* What an INSTALLED report rests on.  An installation that finds nothing  *)
(* to do reloads nothing, and yet reports INSTALLED: the server must have  *)
(* loaded the release before.  Releases are numbered as they are issued,   *)
(* so a new one is on no disk yet, and every way back to idle leaves       *)
(* either the files of before, or the new release and a server that has    *)
(* loaded it.                                                              *)

\* Bytes that were there before the agent, or of a release issued by then.
NotNewer(b, r) == b <= 1 \/ b <= r

Ordered(p) ==
    /\ held # 1
    /\ pc[p] # "idle" => job[p].release > 1 /\ job[p].release <= held
    /\ pc[p] = "idle" /\ intact => \A f \in File : NotNewer(disk[f].bytes, held)
    /\ pc[p] \in {"compare", "capture"} /\ intact =>
           \A f \in File : NotNewer(disk[f].bytes, job[p].release)
    /\ pc[p] \in Captured /\ intact =>
           \A f \in File : NotNewer(before[p][f].bytes, job[p].release)

\* If files of these bytes hold the release, the server has loaded it.
Loads(bytes, r) == (\A f \in File : bytes[f] = r) => \A f \in File : serving[f] = r

BytesBefore(p) == [f \in File |-> before[p][f].bytes]

InUse(p) ==
    intact /\ HasReload =>
        /\ pc[p] = "idle" /\ held # 0 => Loads(Loaded, held)
        /\ pc[p] \in {"compare", "capture"} => Loads(Loaded, job[p].release)
        /\ pc[p] \in Captured => Loads(BytesBefore(p), job[p].release)

ReportInv ==
    /\ InstalledMeansServed
    /\ \A p \in Proc : Ordered(p) /\ InUse(p)

LEMMA OnlyReporter ==
    ASSUME OneInstaller, NEW p \in Proc, Ordered(p)', InUse(p)',
           (intact /\ report[p].status = "installed" => ReportHolds(p))'
    PROVE  ReportInv'
BY DEF OneInstaller, ReportInv, InstalledMeansServed

\* What has to be so of the files and the server when an installer is done
\* with them, however it ends.
LeftFit(p) ==
    intact' =>
        /\ \A f \in File : NotNewer(disk'[f].bytes, job[p].release)
        /\ HasReload /\ (\A f \in File : disk'[f].bytes = job[p].release) =>
               \A f \in File : serving'[f] = job[p].release

LEMMA BackToIdle ==
    ASSUME TypeInv, TypeInv', NEW p \in Proc, Ordered(p), pc[p] # "idle",
           pc'[p] = "idle", held' = held, LeftFit(p)
    PROVE  Ordered(p)' /\ InUse(p)'
<1>1. /\ held \in Nat /\ job[p].release \in Nat
      /\ \A f \in File : disk'[f].bytes \in Nat
  BY DEF TypeInv, SharedOK, LocalsOK, FileState, Release
<1>2. held # 1 /\ job[p].release > 1 /\ job[p].release <= held
  BY DEF Ordered
<1>3. intact' => \A f \in File : NotNewer(disk'[f].bytes, held)
  BY <1>1, <1>2 DEF LeftFit, NotNewer
<1>4. Ordered(p)'
  BY <1>2, <1>3 DEF Ordered, Captured
<1>5. ASSUME intact', HasReload, \A f \in File : disk'[f].bytes = held
      PROVE  \A f \in File : serving'[f] = held
  <2>1. held = job[p].release
    BY <1>1, <1>2, <1>5, FilesAreNumbered DEF LeftFit, NotNewer
  <2> QED
    BY <1>5, <2>1 DEF LeftFit
<1>6. InUse(p)'
  BY <1>5 DEF InUse, Loads, Loaded, Captured
<1> QED
  BY <1>4, <1>6

LEMMA ReturnReports ==
    ASSUME OneInstaller, TypeInv, TypeInv', NEW p \in Proc, Ordered(p),
           pc[p] # "idle", held' = held, LeftFit(p),
           NEW s \in Status, NEW b \in BOOLEAN, Return(p, s, b),
           s = "installed" /\ intact' =>
               \A f \in File : /\ disk'[f].bytes = job[p].release
                               /\ disk'[f].mode = "declared"
    PROVE  ReportInv'
<1>1. /\ pc'[p] = "idle"
      /\ report'[p] = [status |-> s, release |-> job[p].release, rolledBack |-> b]
  BY DEF Return, TypeInv, LocalsOK
<1>2. Ordered(p)' /\ InUse(p)'
  BY <1>1, BackToIdle
<1>3. (intact /\ report[p].status = "installed" => ReportHolds(p))'
  BY <1>1 DEF ReportHolds, LeftFit
<1> QED
  BY <1>2, <1>3, OnlyReporter

\* The files while every one of them holds the new release, or again holds
\* what it held before.
LEMMA WrittenOrBack ==
    ASSUME TypeInv, FilesInv, NEW p \in Proc, pc[p] \in Captured, intact
    PROVE  /\ written[p] = {} => \A f \in File : disk[f].bytes = before[p][f].bytes
           /\ pc[p] \in {"check", "reload"} => \A f \in File : disk[f] = Put(p)
           /\ pc[p] = "reloadAgain" => written[p] = {}
<1>1. \A f \in File : IF f \in written[p] THEN disk[f] = Put(p) ELSE Back(p, f)
  BY DEF FilesInv, OneInv, NewOrBack, Unedited
<1>2. /\ pc[p] \in {"check", "reload"} => written[p] = File
      /\ pc[p] = "reloadAgain" => written[p] = {}
  BY DEF FilesInv, OneInv, WhichWritten
<1> QED
  BY <1>1, <1>2 DEF Back

LEMMA ReportInvStep ==
    ASSUME OneInstaller, TypeInv, TypeInv', FilesInv, NotYetReported, ReportInv,
           [Next]_vars
    PROVE  ReportInv'
<1>0. /\ SharedOK /\ LocalsOK /\ IndexOK
      /\ \A p \in Proc : Ordered(p) /\ InUse(p)
  BY DEF TypeInv, ReportInv
\* A working installer that keeps working on the same release.
<1>a. ASSUME NEW p \in Proc, NEW l, pc[p] # "idle", l # "idle", pc'[p] = l,
             held' = held, intact' => intact, UNCHANGED <<job, report>>,
             Ordered(p)', InUse(p)'
      PROVE  ReportInv'
  BY <1>a, OnlyReporter DEF NotYetReported, NoReport
\* One that has captured, and keeps what it captured and the server as it is.
<1>b. ASSUME NEW p \in Proc, pc[p] \in Captured, pc'[p] \in Captured,
             held' = held, intact' => intact,
             UNCHANGED <<job, report, before, serving>>
      PROVE  ReportInv'
  <2>1. Ordered(p)' /\ InUse(p)'
    BY <1>0, <1>b DEF Ordered, InUse, Loads, BytesBefore, Captured
  <2> QED
    BY <1>b, <2>1, <1>a DEF Captured
\* Before anything is written, an installer leaves things fit as they are.
<1>c. ASSUME NEW p \in Proc, pc[p] \in {"compare", "capture"}, intact' => intact,
             \A f \in File : disk'[f].bytes = disk[f].bytes, serving' = serving
      PROVE  LeftFit(p)
  BY <1>0, <1>c DEF Ordered, InUse, LeftFit, Loads, Loaded
\* And so it does once everything is as it was before.
<1>d. ASSUME NEW p \in Proc, pc[p] \in Captured, intact' => intact /\ written[p] = {},
             disk' = disk, serving' \in {serving, Loaded}
      PROVE  LeftFit(p)
  <2> SUFFICES ASSUME intact'
               PROVE  /\ \A f \in File : NotNewer(disk[f].bytes, job[p].release)
                      /\ HasReload /\ (\A f \in File : disk[f].bytes = job[p].release) =>
                           \A f \in File : serving'[f] = job[p].release
    BY <1>d DEF LeftFit
  <2>1. \A f \in File : disk[f].bytes = before[p][f].bytes
    BY <1>d, WrittenOrBack
  <2>2. \A f \in File : NotNewer(before[p][f].bytes, job[p].release)
    BY <1>0, <1>d DEF Ordered
  <2>3. HasReload => Loads(BytesBefore(p), job[p].release)
    BY <1>0, <1>d DEF InUse
  <2> QED
    BY <1>d, <2>1, <2>2, <2>3 DEF Loads, BytesBefore, Loaded
\* An installation that has written every file and has nothing to reload.
<1>e. ASSUME NEW p \in Proc, pc[p] \in Captured, Return(p, "installed", FALSE),
             held' = held, ~HasReload, intact' => \A f \in File : disk'[f] = Put(p)
      PROVE  ReportInv'
  <2>1. intact' => \A f \in File : /\ disk'[f].bytes = job[p].release
                                   /\ disk'[f].mode = "declared"
    BY <1>e DEF Put, Written
  <2>2. LeftFit(p)
    BY <1>0, <1>e, <2>1 DEF LeftFit, NotNewer, LocalsOK, Release
  <2> QED
    BY <1>0, <1>e, <2>1, <2>2, ReturnReports DEF Status, Captured
<1>1. ASSUME NEW p \in Proc, Unfulfilled(p) PROVE ReportInv'
  <2>1. /\ UNCHANGED <<held, disk, serving, intact, pc, job, before>>
        /\ report'[p].status # "installed"
    BY <1>0, <1>1 DEF Unfulfilled, shared, locals, LocalsOK, NoReport
  <2>2. Ordered(p)' /\ InUse(p)'
    BY <1>0, <2>1 DEF Ordered, InUse, Loads, Loaded, BytesBefore
  <2> QED
    BY <2>1, <2>2, OnlyReporter
<1>2. ASSUME NEW p \in Proc, NEW b \in BOOLEAN, Begin(p, b) PROVE ReportInv'
  <2>1. /\ pc[p] = "idle" /\ held # 0 /\ pc'[p] = "compare"
        /\ job'[p].release = held /\ report'[p].status # "installed"
        /\ UNCHANGED <<held, disk, serving, intact>>
    BY <1>0, <1>2, GotoValues DEF Begin, shared, LocalsOK, NoReport, TypeInv
  <2>2. held > 1 /\ held <= held
    BY <1>0, <2>1 DEF Ordered, SharedOK, Release
  <2>3. Ordered(p)'
    BY <1>0, <2>1, <2>2 DEF Ordered, Captured
  <2>4. InUse(p)'
    BY <1>0, <2>1 DEF InUse, Loads, Loaded, Captured
  <2> QED
    BY <2>1, <2>3, <2>4, OnlyReporter
<1>3. ASSUME NEW p \in Proc, Refuse(p) PROVE ReportInv'
  <2>1. /\ pc[p] \in {"compare", "capture"} /\ Return(p, "failed", FALSE)
        /\ UNCHANGED <<held, disk, serving, intact>>
    BY <1>3 DEF Refuse, shared
  <2>2. LeftFit(p)
    BY <2>1, <1>c
  <2> QED
    BY <1>0, <2>1, <2>2, ReturnReports DEF Status
<1>4. ASSUME NEW p \in Proc, Unchanged(p) PROVE ReportInv'
  <2>1. /\ pc[p] = "compare" /\ Return(p, "installed", FALSE)
        /\ UNCHANGED <<held, serving, intact>>
        /\ \A f \in File : disk[f].bytes = job[p].release
        /\ \A f \in File : /\ disk'[f].bytes = disk[f].bytes
                           /\ disk'[f].mode = "declared"
    BY <1>4 DEF Unchanged, Matches, SameBytes, Written
  <2>2. LeftFit(p)
    BY <2>1, <1>c
  <2> QED
    BY <1>0, <2>1, <2>2, ReturnReports DEF Status
<1>5. ASSUME NEW p \in Proc, EnforceFails(p) PROVE ReportInv'
  <2>1. /\ pc[p] = "compare" /\ Return(p, "failed", FALSE)
        /\ UNCHANGED <<held, serving, intact>>
    BY <1>5 DEF EnforceFails
  <2>2. PICK n \in File :
          disk' = [f \in File |-> IF f < n THEN Written(disk[f].bytes, "declared")
                                           ELSE disk[f]]
    BY <1>5 DEF EnforceFails
  <2>3. \A f \in File : disk'[f].bytes = disk[f].bytes
    BY <2>2 DEF Written
  <2>4. LeftFit(p)
    BY <2>1, <2>3, <1>c
  <2> QED
    BY <1>0, <2>1, <2>4, ReturnReports DEF Status
<1>6. ASSUME NEW p \in Proc, Differ(p) PROVE ReportInv'
  <2>1. /\ pc[p] = "compare" /\ pc'[p] = "capture"
        /\ UNCHANGED <<held, disk, serving, intact, job, report>>
    BY <1>6, GotoValues DEF Differ, shared
  <2>2. Ordered(p)' /\ InUse(p)'
    BY <1>0, <2>1 DEF Ordered, InUse, Loads, Loaded, Captured
  <2> QED
    BY <2>1, <2>2, <1>a
<1>7. ASSUME NEW p \in Proc, Capture(p) PROVE ReportInv'
  <2>1. /\ pc[p] = "capture" /\ pc'[p] \in {"capture", "write"}
        /\ UNCHANGED <<held, disk, serving, intact, job, before, report>>
    BY <1>7, GotoValues DEF Capture, shared
  <2>2. intact => before[p] = disk
    BY <2>1 DEF FilesInv, OneInv, WhileCapturing, Unedited
  <2>3. Ordered(p)' /\ InUse(p)'
    BY <1>0, <2>1, <2>2 DEF Ordered, InUse, Loads, Loaded, BytesBefore, Captured
  <2> QED
    BY <2>1, <2>3, <1>a
<1>8. ASSUME NEW p \in Proc, WriteFile(p) PROVE ReportInv'
  <2>1. /\ pc[p] = "write" /\ at[p] \in File
        /\ disk' = [disk EXCEPT ![at[p]] = Put(p)]
        /\ UNCHANGED <<held, serving, intact>>
    BY <1>0, <1>8 DEF WriteFile, IndexOK, Put
  <2>2. CASE at[p] = NFiles /\ AfterWrite = "idle"
    <3>1. Return(p, "installed", FALSE)
      <4>1. ~(at[p] < NFiles)
        BY <2>2
      <4> QED
        BY <1>8, <2>2, <4>1, Zenon DEF WriteFile
    <3>2. ~HasReload
      BY <2>2 DEF AfterWrite, AfterCheck
    <3>3. intact => \A f \in File : f < NFiles => disk[f] = Put(p)
      BY <2>1, <2>2 DEF FilesInv, OneInv, WhichWritten, NewOrBack, Captured, Unedited
    <3>4. \A f \in File : f < NFiles \/ f = NFiles
      BY DEF File
    <3>5. intact' => \A f \in File : disk'[f] = Put(p)
      BY <1>0, <2>1, <2>2, <3>3, <3>4 DEF SharedOK
    <3> QED
      BY <2>1, <3>1, <3>2, <3>5, <1>e DEF Captured
  <2>3. CASE ~(at[p] = NFiles /\ AfterWrite = "idle")
    <3>1. /\ \E l \in {"write", AfterWrite} : \E i : l # "idle" /\ Goto(p, l, i)
          /\ UNCHANGED <<job, before, report>>
      BY <1>8, <2>3 DEF WriteFile
    <3>2. pc'[p] \in Captured
      BY <3>1, GotoValues DEF Captured, AfterWrite, AfterCheck
    <3> QED
      BY <2>1, <3>1, <3>2, <1>b DEF Captured
  <2> QED
    BY <2>2, <2>3
<1>9. ASSUME NEW p \in Proc, WriteFails(p) \/ CheckFails(p) PROVE ReportInv'
  <2>1. /\ pc[p] \in Captured /\ pc'[p] \in Captured
        /\ UNCHANGED <<held, serving, intact, job, before, report>>
    BY <1>9, GotoValues DEF WriteFails, CheckFails, shared, Captured
  <2> QED
    BY <2>1, <1>b
<1>10. ASSUME NEW p \in Proc, CheckPasses(p) PROVE ReportInv'
  <2>1. pc[p] = "check" /\ UNCHANGED <<held, disk, serving, intact>>
    BY <1>10 DEF CheckPasses
  <2>2. intact => \A f \in File : disk[f] = Put(p)
    BY <2>1, WrittenOrBack DEF Captured
  <2>3. CASE ~HasReload
    <3>1. Return(p, "installed", FALSE)
      BY <1>10, <2>3 DEF CheckPasses
    <3>2. intact' => \A f \in File : disk'[f] = Put(p)
      BY <2>1, <2>2
    <3> QED
      BY <2>1, <2>3, <3>1, <3>2, <1>e DEF Captured
  <2>4. CASE HasReload
    <3>1. pc'[p] = "reload" /\ UNCHANGED <<job, before, report>>
      BY <1>10, <2>4, GotoValues DEF CheckPasses
    <3> QED
      BY <2>1, <3>1, <1>b DEF Captured
  <2> QED
    BY <2>3, <2>4
<1>11. ASSUME NEW p \in Proc, ReloadSucceeds(p) PROVE ReportInv'
  <2>1. /\ pc[p] = "reload" /\ serving' = Loaded /\ Return(p, "installed", FALSE)
        /\ UNCHANGED <<held, disk, intact>>
    BY <1>11 DEF ReloadSucceeds
  <2>2. intact => \A f \in File : disk[f] = Put(p)
    BY <2>1, WrittenOrBack DEF Captured
  <2>3. intact' => \A f \in File : /\ disk'[f].bytes = job[p].release
                                   /\ disk'[f].mode = "declared"
    BY <2>1, <2>2 DEF Put, Written
  <2>4. LeftFit(p)
    BY <1>0, <2>1, <2>3 DEF LeftFit, NotNewer, Loaded, LocalsOK, Release
  <2> QED
    BY <1>0, <2>1, <2>3, <2>4, ReturnReports DEF Status
<1>12. ASSUME NEW p \in Proc, ReloadFails(p) PROVE ReportInv'
  <2>1. /\ pc[p] = "reload" /\ serving' \in {serving, Loaded}
        /\ pc'[p] = "undoReload"
        /\ UNCHANGED <<held, disk, intact, job, before, report>>
    BY <1>12, GotoValues DEF ReloadFails
  <2>2. intact => \A f \in File : disk[f].bytes = job[p].release
    <3>1. intact => \A f \in File : disk[f] = Put(p)
      BY <2>1, WrittenOrBack DEF Captured
    <3> QED
      BY <3>1 DEF Put, Written
  <2>3. Ordered(p)'
    BY <1>0, <2>1 DEF Ordered, Captured
  <2>4. InUse(p)'
    <3>1. CASE serving' = serving
      BY <1>0, <2>1, <3>1 DEF InUse, Loads, BytesBefore, Captured
    <3>2. CASE serving' = Loaded
      BY <2>1, <2>2, <3>2 DEF InUse, Loads, Loaded, Captured
    <3> QED
      BY <2>1, <3>1, <3>2
  <2> QED
    BY <2>1, <2>3, <2>4, <1>a
<1>13. ASSUME NEW p \in Proc, RestoreFile(p) \/ RestoreFails(p) PROVE ReportInv'
  <2>1. /\ pc[p] \in Undoing /\ pc'[p] = pc[p] /\ (intact' => intact)
        /\ UNCHANGED <<held, serving, job, before, report>>
    BY <1>13, GotoValues DEF RestoreFile, RestoreFails
  <2> QED
    BY <2>1, <1>b DEF Undoing, Captured
<1>14. ASSUME NEW p \in Proc, Restored(p) PROVE ReportInv'
  <2>1. /\ pc[p] \in Undoing /\ at[p] = 0
        /\ UNCHANGED <<held, disk, serving, intact>>
    BY <1>14 DEF Restored, shared
  <2>2. intact => written[p] = {}
    <3> SUFFICES ASSUME intact, NEW f \in written[p] PROVE FALSE
      OBVIOUS
    <3>1. f <= 0 /\ f \in File
      BY <1>0, <2>1 DEF FilesInv, OneInv, WhichWritten, LocalsOK
    <3> QED
      BY <3>1 DEF File
  <2>3. LeftFit(p)
    BY <2>1, <2>2, <1>d DEF Undoing, Captured
  <2>4. ASSUME NEW b \in BOOLEAN, Return(p, "failed", b) PROVE ReportInv'
    BY <1>0, <2>1, <2>3, <2>4, ReturnReports DEF Status, Undoing
  <2>5. ASSUME Goto(p, "reloadAgain", 0), UNCHANGED <<job, before, report>>
        PROVE  ReportInv'
    BY <2>1, <2>5, <1>b, GotoValues DEF Undoing, Captured
  <2> QED
    BY <1>14, <2>4, <2>5 DEF Restored
<1>15. ASSUME NEW p \in Proc, ReloadAgain(p) \/ ReloadAgainFails(p) PROVE ReportInv'
  <2>1. /\ pc[p] = "reloadAgain" /\ serving' \in {serving, Loaded}
        /\ Return(p, "failed", TRUE) /\ UNCHANGED <<held, disk, intact>>
    BY <1>15 DEF ReloadAgain, ReloadAgainFails
  <2>2. intact => written[p] = {}
    BY <2>1, WrittenOrBack DEF Captured
  <2>3. LeftFit(p)
    BY <2>1, <2>2, <1>d DEF Captured
  <2> QED
    BY <1>0, <2>1, <2>3, ReturnReports DEF Status
<1>16. ASSUME NEW p \in Proc, Stop(p) PROVE ReportInv'
  <2>1. UNCHANGED <<held, disk, serving, intact, pc, job, before, report>>
    BY <1>16 DEF Stop, shared, locals
  <2>2. Ordered(p)' /\ InUse(p)'
    BY <1>0, <2>1 DEF Ordered, InUse, Loads, Loaded, BytesBefore
  <2> QED
    BY <1>16, <2>1, <2>2, <1>a DEF Stop, Busy
<1>17. ASSUME NEW p \in Proc, Crash(p) PROVE ReportInv'
  <2>1. /\ pc[p] \in Busy /\ intact' = (intact /\ written[p] = {})
        /\ UNCHANGED <<held, serving, disk, report>> /\ pc'[p] = "idle"
    BY <1>0, <1>17 DEF Crash, LocalsOK
  <2>2. LeftFit(p)
    <3>1. CASE pc[p] \in Captured
      BY <2>1, <3>1, <1>d
    <3>2. CASE pc[p] \in {"compare", "capture"}
      BY <2>1, <3>2, <1>c
    <3> QED
      BY <2>1, <3>1, <3>2 DEF Busy, Captured
  <2>3. Ordered(p)' /\ InUse(p)'
    BY <1>0, <2>1, <2>2, BackToIdle DEF Busy
  <2>4. report'[p].status # "installed"
    BY <2>1 DEF NotYetReported, NoReport, Busy
  <2> QED
    BY <2>3, <2>4, OnlyReporter
<1>18. ASSUME Issue PROVE ReportInv'
  <2>1. /\ held' > held /\ held' > 1
        /\ UNCHANGED <<disk, serving, intact, pc, job, before, report>>
    BY <1>0 , <1>18 DEF Issue, locals, SharedOK, Release
  <2>2. InstalledMeansServed'
    BY <2>1 DEF ReportInv, InstalledMeansServed, ReportHolds
  <2>3. ASSUME NEW p \in Proc PROVE Ordered(p)' /\ InUse(p)'
    <3>1. /\ held \in Nat /\ held' \in Nat /\ job[p].release \in Nat
          /\ \A f \in File : disk[f].bytes \in Nat
      BY <1>0 DEF SharedOK, LocalsOK, FileState, Release, TypeInv
    <3>2. held' # 1
      BY <2>1, <3>1
    <3>3. pc[p] = "idle" /\ intact =>
            \A f \in File : NotNewer(disk[f].bytes, held') /\ disk[f].bytes # held'
      BY <1>0, <2>1, <3>1 DEF Ordered, NotNewer
    <3>4. Ordered(p)'
      BY <1>0, <2>1, <3>1, <3>2, <3>3 DEF Ordered
    <3>5. InUse(p)'
      BY <1>0, <2>1, <3>3, FilesAreNumbered DEF InUse, Loads, Loaded, BytesBefore
    <3> QED
      BY <3>4, <3>5
  <2> QED
    BY <2>2, <2>3 DEF ReportInv
<1>19. ASSUME NEW f \in File, Edit(f) PROVE ReportInv'
  <2>1. intact' = FALSE /\ UNCHANGED <<held, pc, job>>
    BY <1>19 DEF Edit, locals
  <2>2. \A p \in Proc : Ordered(p)' /\ InUse(p)'
    BY <1>0, <2>1 DEF Ordered, InUse
  <2> QED
    BY <2>1, <2>2 DEF ReportInv, InstalledMeansServed
<1>20. ASSUME UNCHANGED vars PROVE ReportInv'
  BY <1>20
  DEF vars, ReportInv, InstalledMeansServed, ReportHolds, Ordered, InUse, Loads,
      Loaded, BytesBefore
<1> QED
  BY <1>1, <1>2, <1>3, <1>4, <1>5, <1>6, <1>7, <1>8, <1>9, <1>10, <1>11, <1>12,
     <1>13, <1>14, <1>15, <1>16, <1>17, <1>18, <1>19, <1>20
  DEF Next, Step

LEMMA ReportInvariant == ASSUME OneInstaller PROVE Spec => []ReportInv
<1>1. Init => ReportInv
  <2> SUFFICES ASSUME Init PROVE ReportInv
    OBVIOUS
  <2>1. \A f \in File : NotNewer(disk[f].bytes, held)
    BY DEF Init, NotNewer, NoFile, Legacy
  <2>2. held = 0 /\ \A p \in Proc : pc[p] = "idle"
    BY DEF Init
  <2>3. ASSUME NEW p \in Proc PROVE Ordered(p) /\ InUse(p)
    <3>1. pc[p] = "idle" /\ held = 0
      BY <2>2
    <3>2. Ordered(p)
      BY <2>1, <3>1 DEF Ordered, Captured
    <3>3. InUse(p)
      BY <3>1 DEF InUse, Captured
    <3> QED
      BY <3>2, <3>3
  <2>4. InstalledMeansServed
    BY DEF Init, InstalledMeansServed, NoReport
  <2> QED
    BY <2>3, <2>4 DEF ReportInv
<1>2. TypeInv /\ TypeInv' /\ FilesInv /\ NotYetReported /\ ReportInv /\ [Next]_vars
        => ReportInv'
  BY ReportInvStep
<1>3. Init => NotYetReported
  BY DEF Init, NotYetReported
<1>4. TypeInv /\ NotYetReported /\ [Next]_vars => NotYetReported'
  BY NotYetReportedStep
<1> QED
  BY <1>1, <1>2, <1>3, <1>4, FilesInvariant, PTL DEF Spec

\* The report INSTALLED (install.go, applyOne): as long as no file was lost to
\* a crash, a failed restore or somebody's edit, the release it names is at
\* every path in the declared mode, and in use where a reload is declared.
THEOREM InstalledIsServed ==
    ASSUME OneInstaller PROVE Spec => []InstalledMeansServed
<1>1. ReportInv => InstalledMeansServed
  BY DEF ReportInv
<1> QED
  BY <1>1, ReportInvariant, PTL

-----------------------------------------------------------------------------
(* The installer implements Destination.                                   *)

\* An installer only gets to the reload where the destination declares one.
ReloadDeclared ==
    \A p \in Proc : pc[p] \in {"reload", "undoReload", "reloadAgain"} => HasReload

LEMMA ReloadDeclaredStep ==
    ASSUME TypeInv, ReloadDeclared, [Next]_vars PROVE ReloadDeclared'
<1> USE DEF TypeInv
<1>0. LocalsOK
  OBVIOUS
<1>a. ASSUME NEW p \in Proc, NEW s, NEW b, Return(p, s, b) PROVE ReloadDeclared'
  BY <1>0, <1>a DEF Return, ReloadDeclared, LocalsOK
<1>b. ASSUME NEW p \in Proc, NEW l, NEW i, Goto(p, l, i),
             l \in {"reload", "undoReload", "reloadAgain"} => HasReload
      PROVE  ReloadDeclared'
  BY <1>0, <1>b DEF Goto, ReloadDeclared, LocalsOK
<1>1. ASSUME NEW p \in Proc, NEW b \in BOOLEAN, Begin(p, b) PROVE ReloadDeclared'
  BY <1>1, <1>b DEF Begin
<1>2. ASSUME NEW p \in Proc,
             \/ Refuse(p) \/ Unchanged(p) \/ EnforceFails(p)
             \/ ReloadSucceeds(p) \/ ReloadAgain(p) \/ ReloadAgainFails(p)
      PROVE  ReloadDeclared'
  BY <1>2, <1>a
  DEF Refuse, Unchanged, EnforceFails, ReloadSucceeds, ReloadAgain, ReloadAgainFails
<1>3. ASSUME NEW p \in Proc,
             \/ Differ(p) \/ Capture(p) \/ WriteFails(p) \/ CheckFails(p)
             \/ ReloadFails(p) \/ RestoreFile(p) \/ RestoreFails(p)
      PROVE  ReloadDeclared'
  BY <1>3, <1>b
  DEF Differ, Capture, WriteFails, CheckFails, ReloadFails, RestoreFile,
      RestoreFails, ReloadDeclared
<1>4. ASSUME NEW p \in Proc, WriteFile(p) \/ CheckPasses(p) \/ Restored(p)
      PROVE  ReloadDeclared'
  <2>1. CASE \E s, b : Return(p, s, b)
    BY <2>1, <1>a
  <2>2. CASE ~\E s, b : Return(p, s, b)
    <3>1. AfterWrite \in {"reload", "undoReload", "reloadAgain"} => HasReload
      BY DEF AfterWrite, AfterCheck
    <3>2. \E l, i : /\ Goto(p, l, i)
                    /\ l \in {"reload", "undoReload", "reloadAgain"} => HasReload
      <4>1. ASSUME WriteFile(p) PROVE \E l \in {"write", AfterWrite} : \E i : Goto(p, l, i)
        BY <2>2, <4>1 DEF WriteFile
      <4>2. ASSUME CheckPasses(p) PROVE HasReload /\ Goto(p, "reload", 0)
        BY <2>2, <4>2 DEF CheckPasses
      <4>3. ASSUME Restored(p) PROVE HasReload /\ Goto(p, "reloadAgain", 0)
        BY <2>2, <4>3 DEF Restored, ReloadDeclared
      <4> QED
        BY <1>4, <3>1, <4>1, <4>2, <4>3
    <3> QED
      BY <3>2, <1>b
  <2> QED
    BY <2>1, <2>2
<1>5. ASSUME NEW p \in Proc, Crash(p) PROVE ReloadDeclared'
  BY <1>0, <1>5 DEF Crash, ReloadDeclared, LocalsOK
<1>6. ASSUME \/ UNCHANGED vars
             \/ Issue
             \/ \E p \in Proc : Stop(p) \/ Unfulfilled(p)
             \/ \E f \in File : Edit(f)
      PROVE  ReloadDeclared'
  BY <1>6 DEF Stop, Unfulfilled, Issue, Edit, vars, locals, ReloadDeclared
<1> QED
  BY <1>1, <1>2, <1>3, <1>4, <1>5, <1>6 DEF Next, Step

\* What the observer sees, when there is one installer.
LEMMA Seen ==
    ASSUME OneInstaller, NEW p \in Proc
    PROVE  /\ Settled(p) => VisibleFiles = Loaded
           /\ ~Settled(p) => VisibleFiles = BytesBefore(p)
           /\ Settled(p)' => VisibleFiles' = Loaded'
           /\ ~Settled(p)' => VisibleFiles' = BytesBefore(p)'
<1>1. \A q \in Proc : q = p
  BY DEF OneInstaller
<1>2. Settled(p) => VisibleFiles = Loaded
  BY <1>1, Zenon DEF VisibleFiles, Loaded
<1>3. Settled(p)' => VisibleFiles' = Loaded'
  BY <1>1, Zenon DEF VisibleFiles, Loaded
<1>4. ASSUME ~Settled(p) PROVE VisibleFiles = BytesBefore(p)
  <2>1. (CHOOSE q \in Proc : ~Settled(q)) = p
    BY <1>1, <1>4, Zenon
  <2> QED
    BY <1>4, <2>1, Zenon DEF VisibleFiles, BytesBefore
<1>5. ASSUME ~Settled(p)' PROVE VisibleFiles' = BytesBefore(p)'
  <2>1. (CHOOSE q \in Proc : ~Settled(q)') = p
    BY <1>1, <1>5, Zenon
  <2> QED
    BY <1>5, <2>1, Zenon DEF VisibleFiles, BytesBefore
<1> QED
  BY <1>2, <1>3, <1>4, <1>5

LEMMA SeenType ==
    ASSUME OneInstaller, TypeInv, TypeInv'
    PROVE  /\ VisibleFiles \in [File -> Release]
           /\ VisibleFiles' \in [File -> Release]
<1>1. PICK p \in Proc : TRUE
  BY DEF OneInstaller
<1>2. /\ Loaded \in [File -> Release] /\ Loaded' \in [File -> Release]
      /\ BytesBefore(p) \in [File -> Release] /\ BytesBefore(p)' \in [File -> Release]
  BY DEF Loaded, BytesBefore, TypeInv, SharedOK, LocalsOK, FileState
<1> QED
  BY <1>2, Seen

\* The four ways a step of the installer shows in Destination: as an
\* installation, as a reload, as damage, or not at all.
Shown == [D!Next]_(D!vars)

LEMMA ShownSame ==
    ASSUME UNCHANGED <<VisibleFiles, serving, intact>> PROVE Shown
BY DEF Shown, D!vars

LEMMA ShownDamage ==
    ASSUME OneInstaller, TypeInv, TypeInv', ~intact', serving' = serving \/ ~intact
    PROVE  Shown
<1>1. VisibleFiles' \in [File -> Release] /\ serving' \in [File -> Release]
  BY SeenType DEF TypeInv, SharedOK
<1>2. CASE intact
  <2>1. intact' = FALSE
    BY DEF TypeInv, SharedOK
  <2> QED
    BY <1>1, <1>2, <2>1 DEF Shown, D!Next, D!Damage
<1>3. CASE ~intact
  BY <1>1, <1>3 DEF Shown, D!Next, D!Untrusted
<1> QED
  BY <1>2, <1>3 DEF TypeInv, SharedOK

\* A step that leaves the files as the observer saw them, and the server as it
\* was or reloaded onto them.
LEMMA ShownReload ==
    ASSUME HasReload, UNCHANGED <<VisibleFiles, intact>>,
           serving' \in {serving, VisibleFiles}
    PROVE  Shown
<1>1. CASE serving' = serving
  BY <1>1, ShownSame
<1>2. CASE serving' = VisibleFiles
  BY <1>2 DEF Shown, D!Next, D!Recover
<1> QED
  BY <1>1, <1>2

LEMMA ShownInstall ==
    ASSUME OneInstaller, TypeInv, ReportInv, NEW p \in Proc, pc[p] # "idle",
           pc'[p] = "idle", intact' = intact,
           \A f \in File : disk'[f].bytes = job[p].release,
           serving' = IF HasReload THEN Loaded' ELSE serving
    PROVE  Shown
<1>1. job[p].release \in 2..MaxRelease
  BY DEF ReportInv, Ordered, TypeInv, SharedOK, LocalsOK, Release
<1>2. Loaded' = D!AllOf(job[p].release)
  BY DEF Loaded, D!AllOf
<1>3. VisibleFiles' = Loaded'
  BY Seen DEF Settled
<1>4. D!Install(job[p].release)
  BY <1>2, <1>3 DEF D!Install
<1> QED
  BY <1>1, <1>4 DEF Shown, D!Next

LEMMA StepShown ==
    ASSUME OneInstaller, TypeInv, TypeInv', FilesInv, ReportInv, ReloadDeclared,
           [Next]_vars
    PROVE  Shown
<1>0. SharedOK /\ LocalsOK /\ intact \in BOOLEAN
  BY DEF TypeInv, SharedOK
\* An installer that is, and stays, on one side of the observer.
<1>a. ASSUME NEW p \in Proc, Settled(p), Settled(p)', UNCHANGED <<serving, intact>>,
             \A f \in File : disk'[f].bytes = disk[f].bytes
      PROVE  Shown
  <2>1. Loaded' = Loaded
    BY <1>a DEF Loaded
  <2> QED
    BY <1>a, <2>1, Seen, ShownSame
<1>b. ASSUME NEW p \in Proc, ~Settled(p), ~Settled(p)', before' = before
      PROVE  VisibleFiles' = VisibleFiles
  <2>1. BytesBefore(p)' = BytesBefore(p)
    BY <1>b DEF BytesBefore
  <2> QED
    BY <1>b, <2>1, Seen
\* One whose work comes to nothing.
<1>c. ASSUME NEW p \in Proc, pc[p] \in Captured, pc'[p] = "idle", disk' = disk,
             intact, written[p] = {}
      PROVE  VisibleFiles' = VisibleFiles /\ VisibleFiles = Loaded
  <2>1. Loaded' = Loaded /\ Loaded = BytesBefore(p)
    BY <1>c, WrittenOrBack DEF Loaded, BytesBefore
  <2> QED
    BY <1>c, <2>1, Seen DEF Settled, Captured
\* Nothing is promised any more.
<1>d. ASSUME ~intact, intact' = intact PROVE Shown
  BY <1>d, ShownDamage
<1>1. ASSUME NEW p \in Proc,
             \/ Unfulfilled(p) \/ Begin(p, FALSE) \/ Begin(p, TRUE)
             \/ Refuse(p) \/ Differ(p)
      PROVE  Shown
  <2>1. UNCHANGED <<disk, serving, intact>>
    BY <1>1 DEF Unfulfilled, Refuse, Differ, Begin, shared
  <2>2. Settled(p) /\ pc'[p] \in {"idle", "compare", "capture"}
    BY <1>0, <1>1, GotoValues
    DEF Unfulfilled, Refuse, Differ, Begin, Settled, Return, LocalsOK, TypeInv
  <2> QED
    BY <2>1, <2>2, <1>a DEF Settled
<1>2. ASSUME NEW p \in Proc, Unchanged(p) \/ EnforceFails(p) PROVE Shown
  <2>1. /\ pc[p] = "compare" /\ pc'[p] = "idle" /\ UNCHANGED <<serving, intact>>
    BY <1>0, <1>2 DEF Unchanged, EnforceFails, Return, LocalsOK
  <2>2. \A f \in File : disk'[f].bytes = disk[f].bytes
    <3>1. CASE Unchanged(p)
      BY <3>1 DEF Unchanged, Written
    <3>2. CASE EnforceFails(p)
      <4>1. PICK n \in File :
              disk' = [f \in File |-> IF f < n THEN Written(disk[f].bytes, "declared")
                                               ELSE disk[f]]
        BY <3>2 DEF EnforceFails
      <4> QED
        BY <4>1 DEF Written
    <3> QED
      BY <1>2, <3>1, <3>2
  <2> QED
    BY <2>1, <2>2, <1>a DEF Settled
<1>3. ASSUME NEW p \in Proc, Capture(p) PROVE Shown
  <2>1. /\ pc[p] = "capture" /\ pc'[p] \in {"capture", "write"}
        /\ UNCHANGED <<disk, serving, intact, before>>
    BY <1>3, GotoValues DEF Capture, shared
  <2>2. CASE pc'[p] = "capture"
    BY <2>1, <2>2, <1>a DEF Settled
  <2>3. CASE pc'[p] = "write" /\ intact
    <3>1. before[p] = disk
      BY <2>1, <2>3 DEF FilesInv, OneInv, WhileCapturing, Unedited
    <3>2. BytesBefore(p)' = Loaded
      BY <2>1, <3>1 DEF BytesBefore, Loaded
    <3> QED
      BY <2>1, <2>3, <3>2, Seen, ShownSame DEF Settled
  <2> QED
    BY <2>1, <2>2, <2>3, <1>d
<1>4. ASSUME NEW p \in Proc, WriteFile(p) PROVE Shown
  <2>1. /\ pc[p] = "write" /\ at[p] \in File
        /\ disk' = [disk EXCEPT ![at[p]] = Put(p)]
        /\ UNCHANGED <<serving, intact>>
    BY <1>4 DEF WriteFile, IndexOK, Put, TypeInv
  <2>2. CASE at[p] = NFiles /\ AfterWrite = "idle"
    <3>1. pc'[p] = "idle" /\ ~HasReload
      <4>1. Return(p, "installed", FALSE)
        <5>1. ~(at[p] < NFiles)
          BY <2>2
        <5> QED
          BY <1>4, <2>2, <5>1, Zenon DEF WriteFile
      <4> QED
        BY <1>0, <2>2, <4>1 DEF Return, LocalsOK, AfterWrite, AfterCheck
    <3>2. CASE intact
      <4>1. \A f \in File : f < NFiles => disk[f] = Put(p)
        BY <2>1, <2>2, <3>2
        DEF FilesInv, OneInv, WhichWritten, NewOrBack, Captured, Unedited
      <4>2. \A f \in File : f < NFiles \/ f = NFiles
        BY DEF File
      <4>3. \A f \in File : disk'[f] = Put(p)
        BY <1>0, <2>1, <2>2, <4>1, <4>2 DEF SharedOK
      <4>4. \A f \in File : disk'[f].bytes = job[p].release
        BY <4>3 DEF Put, Written
      <4> QED
        BY <2>1, <3>1, <4>4, ShownInstall
    <3> QED
      BY <2>1, <3>2, <1>d
  <2>3. CASE ~(at[p] = NFiles /\ AfterWrite = "idle")
    <3>1. /\ \E l \in {"write", AfterWrite} : \E i : l # "idle" /\ Goto(p, l, i)
          /\ UNCHANGED before
      BY <1>4, <2>3 DEF WriteFile
    <3>2. pc'[p] \in {"write", "check", "reload"}
      BY <3>1, GotoValues DEF AfterWrite, AfterCheck, TypeInv
    <3> QED
      BY <2>1, <3>1, <3>2, <1>b, ShownSame DEF Settled
  <2> QED
    BY <2>2, <2>3
<1>5. ASSUME NEW p \in Proc,
             \/ WriteFails(p) \/ CheckFails(p) \/ RestoreFile(p)
      PROVE  Shown
  <2>1. /\ ~Settled(p) /\ pc'[p] \in Captured
        /\ UNCHANGED <<serving, intact, before>>
    BY <1>5, GotoValues
    DEF WriteFails, CheckFails, RestoreFile, shared, Settled, Captured, Undoing
  <2> QED
    BY <2>1, <1>b, ShownSame DEF Settled, Captured
<1>6. ASSUME NEW p \in Proc, CheckPasses(p) PROVE Shown
  <2>1. pc[p] = "check" /\ UNCHANGED <<disk, serving, intact>>
    BY <1>6 DEF CheckPasses
  <2>2. CASE ~HasReload /\ intact
    <3>1. pc'[p] = "idle"
      BY <1>0, <1>6, <2>2 DEF CheckPasses, Return, LocalsOK
    <3>2. \A f \in File : disk[f] = Put(p)
      BY <2>1, <2>2, WrittenOrBack DEF Captured
    <3>3. \A f \in File : disk'[f].bytes = job[p].release
      BY <2>1, <3>2 DEF Put, Written
    <3> QED
      BY <2>1, <2>2, <3>1, <3>3, ShownInstall
  <2>3. CASE HasReload
    <3>1. pc'[p] = "reload" /\ UNCHANGED before
      BY <1>6, <2>3, GotoValues DEF CheckPasses
    <3> QED
      BY <2>1, <3>1, <1>b, ShownSame DEF Settled
  <2> QED
    BY <2>1, <2>2, <2>3, <1>d
<1>7. ASSUME NEW p \in Proc, ReloadSucceeds(p) PROVE Shown
  <2>1. /\ pc[p] = "reload" /\ pc'[p] = "idle" /\ serving' = Loaded
        /\ UNCHANGED <<disk, intact>> /\ HasReload
    BY <1>0, <1>7 DEF ReloadSucceeds, Return, LocalsOK, ReloadDeclared
  <2>2. CASE intact
    <3>1. \A f \in File : disk[f] = Put(p)
      BY <2>1, <2>2, WrittenOrBack DEF Captured
    <3>2. \A f \in File : disk'[f].bytes = job[p].release
      BY <2>1, <3>1 DEF Put, Written
    <3>3. Loaded' = Loaded
      BY <2>1 DEF Loaded
    <3> QED
      BY <2>1, <3>2, <3>3, ShownInstall
  <2> QED
    BY <2>1, <2>2, <1>d
<1>8. ASSUME NEW p \in Proc, ReloadFails(p) PROVE Shown
  <2>1. /\ pc[p] = "reload" /\ pc'[p] = "undoReload" /\ serving' \in {serving, Loaded}
        /\ UNCHANGED <<disk, intact, before>> /\ HasReload
    BY <1>8, GotoValues DEF ReloadFails, ReloadDeclared
  <2>2. VisibleFiles' = VisibleFiles
    BY <2>1, <1>b DEF Settled
  <2>3. CASE serving' = serving
    BY <2>1, <2>2, <2>3, ShownSame
  <2>4. CASE serving' = Loaded /\ intact
    <3>1. \A f \in File : disk[f] = Put(p)
      BY <2>1, <2>4, WrittenOrBack DEF Captured
    <3>2. Loaded = D!AllOf(job[p].release)
      BY <3>1 DEF Loaded, D!AllOf, Put, Written
    <3>3. job[p].release \in 2..MaxRelease
      BY <1>0, <2>1 DEF ReportInv, Ordered, SharedOK, LocalsOK, Release
    <3> QED
      BY <2>1, <2>2, <2>4, <3>2, <3>3 DEF Shown, D!Next, D!Stray
  <2> QED
    BY <2>1, <2>3, <2>4, <1>d
<1>9. ASSUME NEW p \in Proc, RestoreFails(p) PROVE Shown
  <2>1. intact' = FALSE /\ serving' = serving
    BY <1>9 DEF RestoreFails
  <2> QED
    BY <2>1, ShownDamage
<1>10. ASSUME NEW p \in Proc, Restored(p) PROVE Shown
  <2>1. /\ pc[p] \in Undoing /\ at[p] = 0 /\ UNCHANGED <<disk, serving, intact>>
    BY <1>10 DEF Restored, shared
  <2>2. ASSUME intact, NEW f \in written[p] PROVE FALSE
    <3>1. f <= 0 /\ f \in File
      BY <1>0, <2>1, <2>2 DEF FilesInv, OneInv, WhichWritten, LocalsOK
    <3> QED
      BY <3>1 DEF File
  <2>3. ASSUME intact, NEW b \in BOOLEAN, Return(p, "failed", b) PROVE Shown
    <3>1. pc'[p] = "idle" /\ pc[p] \in Captured /\ written[p] = {}
      BY <1>0, <2>1, <2>2, <2>3 DEF Return, LocalsOK, Undoing, Captured
    <3> QED
      BY <2>1, <2>3, <3>1, <1>c, ShownSame
  <2>4. ASSUME Goto(p, "reloadAgain", 0), UNCHANGED before PROVE Shown
    <3>1. ~Settled(p) /\ ~Settled(p)'
      BY <2>1, <2>4, GotoValues DEF Settled, Undoing
    <3> QED
      BY <2>1, <2>4, <3>1, <1>b, ShownSame
  <2> QED
    BY <1>10, <2>1, <2>3, <2>4, <1>d DEF Restored
<1>11. ASSUME NEW p \in Proc, ReloadAgain(p) \/ ReloadAgainFails(p) PROVE Shown
  <2>1. /\ pc[p] = "reloadAgain" /\ serving' \in {serving, Loaded} /\ HasReload
        /\ Return(p, "failed", TRUE) /\ UNCHANGED <<disk, intact>>
    BY <1>11 DEF ReloadAgain, ReloadAgainFails, ReloadDeclared
  <2>2. CASE intact
    <3>1. pc'[p] = "idle" /\ written[p] = {}
      BY <1>0, <2>1, <2>2, WrittenOrBack DEF Captured, Return, LocalsOK
    <3>2. VisibleFiles' = VisibleFiles /\ VisibleFiles = Loaded
      BY <2>1, <2>2, <3>1, <1>c DEF Captured
    <3> QED
      BY <2>1, <3>2, ShownReload
  <2> QED
    BY <2>1, <2>2, <1>d
<1>12. ASSUME NEW p \in Proc, Crash(p) PROVE Shown
  <2>1. /\ pc[p] \in Busy /\ intact' = (intact /\ written[p] = {})
        /\ pc'[p] = "idle" /\ UNCHANGED <<disk, serving>>
    BY <1>0, <1>12 DEF Crash, LocalsOK
  <2>2. CASE ~intact'
    BY <1>0, <2>1, <2>2, ShownDamage
  <2>3. CASE intact' /\ pc[p] \in Captured
    BY <1>0, <2>1, <2>3, <1>c, ShownSame
  <2>4. CASE intact' /\ pc[p] \notin Captured
    BY <1>0, <2>1, <2>4, <1>a DEF Settled, Busy, Captured
  <2> QED
    BY <2>2, <2>3, <2>4
<1>13. ASSUME Issue \/ UNCHANGED vars \/ \E p \in Proc : Stop(p) PROVE Shown
  <2>1. UNCHANGED <<disk, before, pc, serving, intact>>
    BY <1>13 DEF Issue, Stop, vars, shared, locals
  <2>2. PICK p \in Proc : TRUE
    BY DEF OneInstaller
  <2>3. CASE Settled(p)
    BY <2>1, <2>3, <1>a DEF Settled
  <2>4. CASE ~Settled(p)
    BY <2>1, <2>4, <1>b, ShownSame DEF Settled
  <2> QED
    BY <2>3, <2>4
<1>14. ASSUME NEW f \in File, Edit(f) PROVE Shown
  <2>1. intact' = FALSE /\ serving' = serving
    BY <1>14 DEF Edit
  <2> QED
    BY <2>1, ShownDamage
<1> QED
  BY <1>1, <1>2, <1>3, <1>4, <1>5, <1>6, <1>7, <1>8, <1>9, <1>10, <1>11, <1>12,
     <1>13, <1>14
  DEF Next, Step

\* applyOne, seen by an observer who looks at the files only between
\* installations: a destination's files go from one release to another in one
\* step, together with the server where a reload is declared, or do not change.
THEOREM ImplementsDestination ==
    ASSUME OneInstaller PROVE Spec => DestinationSpec
<1>1. Init => D!Init
  <2> SUFFICES ASSUME Init PROVE D!Init
    OBVIOUS
  <2>1. PICK p \in Proc : pc[p] = "idle"
    BY DEF OneInstaller, Init
  <2>2. VisibleFiles = Loaded
    BY <2>1, Seen DEF Settled
  <2>3. Loaded \in {D!AllOf(0), D!AllOf(1)} /\ serving = Loaded
    BY DEF Init, Loaded, D!AllOf, NoFile, Legacy
  <2>4. 0 \in Release /\ 1 \in Release
    BY DEF Release
  <2> QED
    BY <2>2, <2>3, <2>4 DEF D!Init, Init
<1>2. /\ OneInstaller
      /\ TypeInv /\ TypeInv' /\ FilesInv /\ ReportInv /\ ReloadDeclared /\ [Next]_vars
        => [D!Next]_(D!vars)
  BY StepShown DEF Shown
<1>3. TypeInv /\ ReloadDeclared /\ [Next]_vars => ReloadDeclared'
  BY ReloadDeclaredStep
<1>4. Init => ReloadDeclared
  BY DEF Init, ReloadDeclared
<1> QED
  BY <1>1, <1>2, <1>3, <1>4, FilesInvariant, ReportInvariant, PTL
  DEF Spec, DestinationSpec, D!Spec
=============================================================================
