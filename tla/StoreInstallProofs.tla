-------------------------- MODULE StoreInstallProofs --------------------------
(* Theorems about StoreInstall, for every value of its constants: any      *)
(* number of renewals and failures, with a reload, a verified endpoint and *)
(* a bind or without.                                                      *)
EXTENDS StoreInstall, FiniteSetTheorems, TLAPS

USE StoreInstallAssumption

-----------------------------------------------------------------------------
(* Type correctness, and what an installation remembers.                   *)

\* Between installations nothing is remembered.  During one there is a
\* certificate to install, and what the last one returned has been taken away.
WorkInv ==
    /\ pc = "idle" => job = NoJob /\ before = 0 /\ ~stopping
    /\ pc # "idle" => job.cert \in Issued /\ job.cert <= held /\ report = NoReport
    /\ pc \in {"bind", "rebind", "undoRemove", "reloadAgain"} => hasBind
    /\ pc \in {"rebind", "undoRemove"} => job.previous # 0

TypeInv == TypeOK /\ WorkInv

\* How the steps shared by several actions leave what is remembered.
LEMMA Numbers ==
    ASSUME TypeOK
    PROVE  /\ MaxCert \in Nat /\ MaxCert >= 1 /\ faults \in Nat
           /\ 0 \in Cert /\ 1 \in Cert /\ Issued \subseteq Cert \ {0, 1}
           /\ held \in Nat /\ \A c \in Cert : c \in Nat
           /\ held # 0 => held \in Issued
BY DEF TypeOK, Cert, Issued

LEMMA FaultType == ASSUME TypeOK, Fault PROVE faults' \in 0..MaxFaults
BY DEF TypeOK, Fault

LEMMA FailsType == ASSUME TypeOK, Fails PROVE faults' \in 0..MaxFaults
BY FaultType DEF TypeOK, Fails

LEMMA PresentType == ASSUME TypeOK, NEW c \in Cert PROVE Present(c) \in Cert
BY Numbers DEF Present

LEMMA RepointType ==
    ASSUME TypeOK, NEW c \in Cert, Repoint(c)
    PROVE  binding' \in Cert /\ serving' \in Cert /\ binding' = c
BY PresentType DEF Repoint, TypeOK

LEMMA RemoveType ==
    ASSUME TypeOK, NEW c, RemoveFromStore(c) \/ RemoveStops(c)
    PROVE  /\ store' \subseteq store /\ keys' \subseteq keys /\ named' \subseteq named
           /\ named' \subseteq store' \cap Issued
BY DEF TypeOK, RemoveFromStore, RemoveStops, material

LEMMA ReturnType ==
    ASSUME TypeInv, NEW status \in {"failed", "installed"}, NEW rolledBack \in BOOLEAN,
           Return(status, rolledBack)
    PROVE  /\ pc' = "idle" /\ job' = NoJob /\ before' = 0 /\ ~stopping' /\ stopping' \in BOOLEAN
           /\ report'.rolledBack = rolledBack
           /\ report' \in [status : {"none", "unfulfilled", "failed", "installed"},
                            cert : {0} \cup Issued, rolledBack : BOOLEAN]
           /\ NoJob \in [cert : {0} \cup Issued, previous : {0} \cup Issued,
                           forced : BOOLEAN, reloaded : BOOLEAN]
BY DEF Return, TypeInv, TypeOK, NoJob

\* The parts of TypeInv, each disturbed by other actions.
MaterialOK ==
    /\ store \subseteq Cert \ {0} /\ keys \subseteq Cert \ {0}
    /\ named \subseteq store \cap Issued
ServiceOK == binding \in Cert /\ serving \in Cert
PlaceOK ==
    /\ before \in Cert
    /\ pc \in {"idle", "read", "import", "bind", "reload", "verify", "stalled", "name",
               "tidy", "undoImport", "undoBind", "rebind", "undoRemove", "reloadAgain"}
    /\ job \in [cert : {0} \cup Issued, previous : {0} \cup Issued,
                forced : BOOLEAN, reloaded : BOOLEAN]
    /\ stopping \in BOOLEAN
    /\ report \in [status : {"none", "unfulfilled", "failed", "installed"},
                   cert : {0} \cup Issued, rolledBack : BOOLEAN]
    /\ WorkInv

LEMMA Parts ==
    TypeInv <=> /\ held \in {0} \cup Issued /\ hasBind \in Binds /\ faults \in 0..MaxFaults
                /\ MaterialOK /\ ServiceOK /\ PlaceOK
BY DEF TypeInv, TypeOK, MaterialOK, ServiceOK, PlaceOK

LEMMA ReturnPlace ==
    ASSUME TypeInv, NEW status \in {"failed", "installed"}, NEW rolledBack \in BOOLEAN,
           Return(status, rolledBack)
    PROVE  PlaceOK'
<1>1. before' \in Cert
  BY ReturnType, Numbers DEF TypeInv
<1>2. WorkInv'
  BY ReturnType DEF WorkInv
<1> QED
  BY <1>1, <1>2, ReturnType DEF PlaceOK

\* Where a step goes with Goto there is a certificate to install already.
LEMMA GotoPlace ==
    ASSUME TypeInv, pc # "idle", UNCHANGED <<held, hasBind>>,
           NEW label \in {"bind", "reload", "verify", "stalled", "name", "tidy",
                          "undoImport", "undoBind", "rebind", "undoRemove", "reloadAgain"},
           Goto(label),
           label \in {"bind", "rebind", "undoRemove", "reloadAgain"} => hasBind,
           label \in {"rebind", "undoRemove"} => job.previous # 0
    PROVE  PlaceOK'
BY DEF Goto, TypeInv, TypeOK, PlaceOK, WorkInv

LEMMA UndoPlace ==
    ASSUME TypeInv, pc # "idle", UNCHANGED <<held, hasBind>>, UndoBinding
    PROVE  PlaceOK'
<1>1. CASE ~hasBind
  BY <1>1, GotoPlace DEF UndoBinding
<1>2. CASE hasBind /\ job.previous = 0
  BY <1>2, ReturnPlace DEF UndoBinding
<1>3. CASE hasBind /\ job.previous # 0
  BY <1>3, GotoPlace DEF UndoBinding
<1> QED
  BY <1>1, <1>2, <1>3

LEMMA AfterUndoPlace ==
    ASSUME TypeInv, pc = "undoRemove", UNCHANGED <<held, hasBind>>, AfterUndo
    PROVE  PlaceOK'
<1>1. CASE job.reloaded
  BY <1>1, GotoPlace DEF AfterUndo, TypeInv, WorkInv
<1>2. CASE ~job.reloaded
  BY <1>2, ReturnPlace DEF AfterUndo
<1> QED
  BY <1>1, <1>2

\* Only the certificate being installed is put into the store.
LEMMA MaterialStays ==
    ASSUME TypeInv, pc # "idle",
           \/ UNCHANGED material
           \/ \E c \in Cert : RemoveFromStore(c) \/ RemoveStops(c)
           \/ Import \/ ImportFails
    PROVE  MaterialOK'
<1>1. CASE UNCHANGED material
  BY <1>1 DEF material, TypeInv, TypeOK, MaterialOK
<1>2. CASE \E c \in Cert : RemoveFromStore(c) \/ RemoveStops(c)
  BY <1>2, RemoveType DEF TypeInv, TypeOK, MaterialOK
<1>3. CASE Import \/ ImportFails
  <2>1. job.cert \in Cert \ {0}
    BY Numbers DEF TypeInv, WorkInv
  <2>2. /\ store' \subseteq store \cup {job.cert} /\ keys' \subseteq keys \cup {job.cert}
        /\ named' \subseteq named /\ named' \subseteq store'
    <3>1. named \subseteq store
      BY DEF TypeInv, TypeOK
    <3>2. CASE Import
      BY <3>1, <3>2 DEF Import
    <3>3. CASE ImportFails
      BY <3>1, <3>3 DEF ImportFails, material
    <3> QED
      BY <1>3, <3>2, <3>3
  <2> QED
    BY <2>1, <2>2 DEF TypeInv, TypeOK, MaterialOK
<1> QED
  BY <1>1, <1>2, <1>3

LEMMA TypeInit == ASSUME Init PROVE TypeInv
<1>1. MaxCert \in Nat \ {0} /\ 0 \in Cert /\ 1 \in Cert
  BY DEF Cert
<1>2. NoJob.cert = 0 /\ NoJob \in [cert : {0} \cup Issued, previous : {0} \cup Issued,
                                    forced : BOOLEAN, reloaded : BOOLEAN]
  BY DEF NoJob
<1>3. NoReport \in [status : {"none", "unfulfilled", "failed", "installed"},
                    cert : {0} \cup Issued, rolledBack : BOOLEAN]
  BY DEF NoReport
<1>4. MaterialOK /\ faults \in 0..MaxFaults
  BY <1>1 DEF Init, MaterialOK
<1>5. ServiceOK
  BY <1>1 DEF Init, ServiceOK
<1>6. PlaceOK
  BY <1>1, <1>2, <1>3 DEF Init, PlaceOK, WorkInv
<1> QED
  BY <1>4, <1>5, <1>6, Parts DEF Init

LEMMA TypeStep == ASSUME TypeInv, [Next]_vars PROVE TypeInv'
<1>0. /\ held \in {0} \cup Issued /\ hasBind \in Binds /\ faults \in 0..MaxFaults
      /\ MaterialOK /\ ServiceOK /\ PlaceOK
      /\ (pc # "idle" => job.cert \in Cert \ {0}) /\ job.previous \in Cert
  BY Parts, Numbers DEF TypeInv, TypeOK, WorkInv
<1>n. TypeOK
  BY DEF TypeInv
<1>c. \A c \in Cert : Present(c) \in Cert
  BY <1>n, PresentType
<1>p. /\ held' \in {0} \cup Issued /\ hasBind' \in Binds /\ faults' \in 0..MaxFaults
      /\ MaterialOK' /\ ServiceOK' /\ PlaceOK'
      => TypeInv'
  BY DEF TypeInv, TypeOK, MaterialOK, ServiceOK, PlaceOK
<1>u. /\ UNCHANGED material => MaterialOK'
      /\ UNCHANGED service => ServiceOK'
      /\ UNCHANGED <<held, hasBind, pc, job, before, stopping, report>> => PlaceOK'
  BY <1>0 DEF MaterialOK, ServiceOK, PlaceOK, material, service, WorkInv
<1>f. Fault \/ Fails \/ UNCHANGED faults => faults' \in 0..MaxFaults
  BY <1>0, FaultType, FailsType DEF TypeInv
<1>s. ASSUME NEW c \in Cert, Repoint(c) PROVE ServiceOK'
  BY <1>s, RepointType DEF ServiceOK, TypeInv
<1>1. ASSUME Unfulfilled PROVE TypeInv'
  <2>1. report' \in [status : {"none", "unfulfilled", "failed", "installed"},
                     cert : {0} \cup Issued, rolledBack : BOOLEAN]
    BY <1>1 DEF Unfulfilled, NoReport
  <2>2. PlaceOK'
    BY <1>0, <1>1, <2>1 DEF Unfulfilled, PlaceOK, WorkInv
  <2> QED
    BY <1>0, <1>1, <1>u, <2>2, <1>p DEF Unfulfilled
<1>2. ASSUME NEW forced \in BOOLEAN, Begin(forced) PROVE TypeInv'
  <2>1. /\ job' \in [cert : {0} \cup Issued, previous : {0} \cup Issued,
                     forced : BOOLEAN, reloaded : BOOLEAN]
        /\ job'.cert = held /\ held # 0
    BY <1>0, <1>2 DEF Begin, NoJob
  <2>2. report' = NoReport /\ NoReport \in
          [status : {"none", "unfulfilled", "failed", "installed"},
           cert : {0} \cup Issued, rolledBack : BOOLEAN]
    BY <1>2 DEF Begin, NoReport
  <2>3. PlaceOK'
    BY <1>0, <1>2, <2>1, <2>2, <1>n, Numbers DEF Begin, PlaceOK, WorkInv, ServiceOK
  <2> QED
    BY <1>0, <1>2, <1>u, <2>3, <1>p DEF Begin
<1>3. ASSUME Refuse PROVE TypeInv'
  BY <1>0, <1>3, <1>u, <1>f, ReturnPlace, <1>p DEF Refuse
<1>4. ASSUME ReadPrevious PROVE TypeInv'
  <2>1. PlaceOK'
    <3>1. CASE Return("installed", FALSE)
      BY <3>1, ReturnPlace
    <3>2. CASE ~Return("installed", FALSE)
      <4>1. PICK previous \in {0} \cup Issued :
              /\ job' = [job EXCEPT !.previous = previous]
              /\ pc' = "import" /\ UNCHANGED <<before, stopping, report>>
        BY <1>0, <1>4, <3>2 DEF ReadPrevious, MaterialOK
      <4> QED
        BY <1>0, <1>4, <4>1 DEF ReadPrevious, PlaceOK, WorkInv
    <3> QED
      BY <3>1, <3>2
  <2> QED
    BY <1>0, <1>4, <1>u, <2>1, <1>p DEF ReadPrevious
<1>5. ASSUME Import \/ ImportFails PROVE TypeInv'
  <2>1. MaterialOK'
    BY <1>5, MaterialStays DEF Import, ImportFails
  <2>2. PlaceOK'
    BY <1>5, GotoPlace DEF Import, ImportFails, AfterImport, AfterBind, AfterReload
  <2> QED
    BY <1>0, <1>5, <1>u, <1>f, <2>1, <2>2, <1>p DEF Import, ImportFails
<1>6. ASSUME RemoveImported \/ RemoveImportedFails PROVE TypeInv'
  <2>1. MaterialOK'
    BY <1>0, <1>6, MaterialStays DEF RemoveImported, RemoveImportedFails
  <2>2. PlaceOK'
    BY <1>6, ReturnPlace DEF RemoveImported, RemoveImportedFails
  <2>3. faults' \in 0..MaxFaults
    BY <1>6, <1>f DEF RemoveImported, RemoveImportedFails, RemoveStops
  <2> QED
    BY <1>0, <1>6, <1>u, <2>1, <2>2, <2>3, <1>p DEF RemoveImported, RemoveImportedFails
<1>7. ASSUME Bind PROVE TypeInv'
  <2>1. PlaceOK' /\ ServiceOK'
    BY <1>0, <1>7, <1>s, GotoPlace DEF Bind, AfterBind, AfterReload
  <2> QED
    BY <1>0, <1>7, <1>u, <2>1, <1>p DEF Bind
<1>8. ASSUME BindFails PROVE TypeInv'
  <2>1. PlaceOK' /\ ServiceOK'
    BY <1>0, <1>8, <1>s, <1>u, GotoPlace DEF BindFails
  <2> QED
    BY <1>0, <1>8, <1>u, <1>f, <2>1, <1>p DEF BindFails
<1>9. ASSUME Reload PROVE TypeInv'
  <2>1. ServiceOK'
    BY <1>9, <1>c DEF Reload, ServiceOK
  <2>2. PlaceOK'
    BY <1>0, <1>9 DEF Reload, AfterReload, PlaceOK, WorkInv
  <2> QED
    BY <1>0, <1>9, <1>u, <2>1, <2>2, <1>p DEF Reload
<1>10. ASSUME ReloadFails \/ VerifyFails PROVE TypeInv'
  <2>1. ServiceOK'
    BY <1>u, <1>10, <1>c DEF ReloadFails, VerifyFails, ServiceOK
  <2>2. PlaceOK'
    BY <1>10, UndoPlace DEF ReloadFails, VerifyFails
  <2>3. faults' \in 0..MaxFaults
    BY <1>10, <1>f DEF ReloadFails, VerifyFails
  <2> QED
    BY <1>0, <1>10, <1>u, <2>1, <2>2, <2>3, <1>p DEF ReloadFails, VerifyFails
<1>11. ASSUME Verify \/ Stall PROVE TypeInv'
  BY <1>0, <1>11, <1>u, <1>f, GotoPlace, <1>p DEF Verify, Stall
<1>12. ASSUME Name \/ NameFails PROVE TypeInv'
  <2>1. PlaceOK'
    BY <1>12, GotoPlace DEF Name, NameFails
  <2>2. MaterialOK'
    BY <1>0, <1>12, <1>u DEF Name, NameFails, MaterialOK, TypeInv, WorkInv
  <2> QED
    BY <1>0, <1>12, <1>u, <1>f, <2>1, <2>2, <1>p DEF Name, NameFails
<1>13. ASSUME Tidy \/ TidyFails PROVE TypeInv'
  <2>1. PlaceOK'
    BY <1>13, ReturnPlace DEF Tidy, TidyFails
  <2>2. MaterialOK'
    BY <1>0, <1>13, MaterialStays DEF Tidy, TidyFails
  <2>3. faults' \in 0..MaxFaults
    BY <1>13, <1>f DEF Tidy, TidyFails, RemoveStops
  <2> QED
    BY <1>0, <1>13, <1>u, <2>1, <2>2, <2>3, <1>p DEF Tidy, TidyFails
<1>14. ASSUME Rebind PROVE TypeInv'
  <2>1. PlaceOK' /\ ServiceOK'
    BY <1>0, <1>14, <1>s, GotoPlace DEF Rebind, TypeInv, WorkInv
  <2> QED
    BY <1>0, <1>14, <1>u, <2>1, <1>p DEF Rebind
<1>15. ASSUME RebindFails PROVE TypeInv'
  <2>1. PlaceOK'
    BY <1>15, ReturnPlace DEF RebindFails
  <2>2. ServiceOK'
    BY <1>0, <1>15, <1>s, <1>u DEF RebindFails
  <2>3. faults' \in 0..MaxFaults
    BY <1>15, <1>f DEF RebindFails
  <2> QED
    BY <1>0, <1>15, <1>u, <2>1, <2>2, <2>3, <1>p DEF RebindFails
<1>16. ASSUME UndoRemove \/ UndoRemoveFails PROVE TypeInv'
  <2>1. PlaceOK'
    BY <1>16, AfterUndoPlace DEF UndoRemove, UndoRemoveFails
  <2>2. MaterialOK'
    BY <1>0, <1>16, MaterialStays DEF UndoRemove, UndoRemoveFails
  <2>3. faults' \in 0..MaxFaults
    BY <1>16, <1>f DEF UndoRemove, UndoRemoveFails, RemoveStops
  <2> QED
    BY <1>0, <1>16, <1>u, <2>1, <2>2, <2>3, <1>p DEF UndoRemove, UndoRemoveFails
<1>17. ASSUME ReloadAgain \/ ReloadAgainFails PROVE TypeInv'
  <2>1. PlaceOK'
    BY <1>17, ReturnPlace DEF ReloadAgain, ReloadAgainFails
  <2>2. ServiceOK'
    BY <1>0, <1>17, <1>c DEF ReloadAgain, ReloadAgainFails, ServiceOK
  <2>3. faults' \in 0..MaxFaults
    BY <1>17, <1>f DEF ReloadAgain, ReloadAgainFails
  <2> QED
    BY <1>0, <1>17, <1>u, <2>1, <2>2, <2>3, <1>p DEF ReloadAgain, ReloadAgainFails
<1>18. ASSUME Stop PROVE TypeInv'
  <2>1. PlaceOK'
    BY <1>0, <1>18 DEF Stop, PlaceOK, WorkInv
  <2> QED
    BY <1>0, <1>18, <1>u, <1>f, <2>1, <1>p DEF Stop
<1>19. ASSUME Crash PROVE TypeInv'
  <2>1. PlaceOK'
    BY <1>0, <1>19, <1>n, Numbers DEF Crash, PlaceOK, WorkInv, NoJob
  <2> QED
    BY <1>0, <1>19, <1>u, <1>f, <2>1, <1>p DEF Crash
<1>20. ASSUME Issue PROVE TypeInv'
  <2>1. held' \in Issued /\ held <= held'
    BY <1>20, <1>n, Numbers DEF Issue, Cert, Issued
  <2>2. PlaceOK'
    BY <1>0, <1>20, <2>1, Numbers DEF Issue, PlaceOK, WorkInv, Issued, Cert
  <2> QED
    BY <1>0, <1>20, <1>u, <2>1, <2>2, <1>p DEF Issue
<1>21. ASSUME PickUp PROVE TypeInv'
  <2>1. ServiceOK'
    BY <1>0, <1>21, <1>c DEF PickUp, ServiceOK, MaterialOK
  <2> QED
    BY <1>0, <1>21, <1>u, <2>1, <1>p DEF PickUp
<1>22. ASSUME UNCHANGED vars PROVE TypeInv'
  BY <1>0, <1>22, <1>u, <1>p DEF vars, material, service
<1>23. ASSUME Step PROVE TypeInv'
  BY <1>1, <1>2, <1>3, <1>4, <1>5, <1>6, <1>7, <1>8, <1>9, <1>10, <1>11, <1>12, <1>13,
     <1>14, <1>15, <1>16, <1>17, <1>23 DEF Step
<1>24. ASSUME Deploy PROVE TypeInv'
  BY <1>2, <1>24 DEF Deploy
<1>25. ASSUME StallEnds PROVE TypeInv'
  <2>1. PlaceOK'
    BY <1>25, UndoPlace, GotoPlace DEF StallEnds
  <2> QED
    BY <1>0, <1>25, <1>u, <2>1, <1>p DEF StallEnds
<1> QED
  BY <1>18, <1>19, <1>20, <1>21, <1>22, <1>23, <1>24, <1>25 DEF Next

\* Whatever is renewed, fails, stops or crashes, the friendly name is only ever
\* on certificates of the agent's that are in the store.
THEOREM TypeCorrect == Spec => []TypeOK
<1>1. Init => TypeInv
  BY TypeInit
<1>2. TypeInv /\ [Next]_vars => TypeInv'
  BY TypeStep
<1> QED
  BY <1>1, <1>2, PTL DEF Spec, TypeInv

-----------------------------------------------------------------------------
(* What others put into the store.                                         *)

LEMMA MaterialSteps ==
    ASSUME TypeInv, [Next]_vars
    PROVE  \/ UNCHANGED <<store, keys>>
           \/ Import \/ ImportFails
           \/ \E c \in {job.cert, job.previous} : RemoveFromStore(c) \/ RemoveStops(c)
<1>1. ASSUME Step
      PROVE  \/ UNCHANGED <<store, keys>>
             \/ Import \/ ImportFails
             \/ \E c \in {job.cert, job.previous} : RemoveFromStore(c) \/ RemoveStops(c)
  <2>1. ASSUME Tidy \/ TidyFails \/ RemoveImported \/ RemoveImportedFails
               \/ UndoRemove \/ UndoRemoveFails
        PROVE  \/ UNCHANGED <<store, keys>>
               \/ \E c \in {job.cert, job.previous} : RemoveFromStore(c) \/ RemoveStops(c)
    BY <2>1 DEF Tidy, TidyFails, RemoveImported, RemoveImportedFails, UndoRemove,
         UndoRemoveFails, material
  <2>2. ASSUME Unfulfilled \/ Begin(FALSE) \/ Refuse \/ ReadPrevious \/ Bind \/ BindFails
               \/ Reload \/ ReloadFails \/ Verify \/ VerifyFails \/ Stall \/ Name \/ NameFails
               \/ Rebind \/ RebindFails \/ ReloadAgain \/ ReloadAgainFails
        PROVE  UNCHANGED <<store, keys>>
    BY <2>2 DEF Unfulfilled, Begin, Refuse, ReadPrevious, Bind, BindFails, Reload,
         ReloadFails, Verify, VerifyFails, Stall, Name, NameFails, Rebind, RebindFails,
         ReloadAgain, ReloadAgainFails, material
  <2> QED
    BY <1>1, <2>1, <2>2 DEF Step
<1>2. ASSUME Deploy \/ StallEnds \/ Stop \/ Crash \/ Issue \/ PickUp \/ UNCHANGED vars
      PROVE  UNCHANGED <<store, keys>>
  BY <1>2 DEF Deploy, Begin, StallEnds, Stop, Crash, Issue, PickUp, vars, material
<1> QED
  BY <1>1, <1>2 DEF Next

\* The administrator's certificate never lacks its key.
OthersWhole == 1 \in store => 1 \in keys

LEMMA OthersStep ==
    ASSUME TypeInv, OthersWhole, [Next]_vars
    PROVE  OthersWhole' /\ {1} \cap store \subseteq store' \cap keys'
<1>1. job.cert # 1 /\ job.previous # 1
  BY DEF TypeInv, TypeOK, Issued
<1>2. CASE UNCHANGED <<store, keys>>
  BY <1>2 DEF OthersWhole
<1>3. CASE Import
  BY <1>1, <1>3 DEF Import, OthersWhole
<1>4. CASE ImportFails
  BY <1>1, <1>4 DEF ImportFails, OthersWhole, material
<1>5. CASE \E c \in {job.cert, job.previous} : RemoveFromStore(c) \/ RemoveStops(c)
  BY <1>1, <1>5 DEF RemoveFromStore, RemoveStops, OthersWhole, material
<1> QED
  BY <1>2, <1>3, <1>4, <1>5, MaterialSteps

\* settle: no failure, rollback or repetition takes the administrator's
\* certificate or its key out of the store.
THEOREM OthersStay == Spec => OthersAreLeftAlone
<1>1. Init => TypeInv /\ OthersWhole
  BY TypeInit DEF Init, OthersWhole
<1>2. TypeInv /\ OthersWhole /\ [Next]_vars => (TypeInv /\ OthersWhole)'
  BY TypeStep, OthersStep
<1>3. TypeInv /\ OthersWhole /\ [Next]_vars => [{1} \cap store \subseteq store' \cap keys']_vars
  BY OthersStep
<1> QED
  BY <1>1, <1>2, <1>3, PTL DEF Spec, OthersAreLeftAlone

-----------------------------------------------------------------------------
(* What carries the friendly name.                                         *)

\* From the import until the certificate is named or taken out again.
Imported == {"bind", "reload", "verify", "stalled", "undoBind", "rebind", "undoRemove"}

\* Only certificates of before carry the name; the one being installed loses it
\* to the import and has it again once it is proved.  The previous one is among
\* those that carry it, unless it is the one being installed or there is none.
NameInv ==
    /\ \A c \in named : c <= held /\ (pc # "idle" => c <= job.cert)
    /\ pc \in Imported \cup {"name", "tidy"} => job.cert \in store \cap keys
    /\ pc \in Imported \cup {"reloadAgain"} => job.cert \notin named
    /\ pc = "import" => job.previous \in named \/ (job.previous = 0 /\ named = {})
    /\ pc \in (Imported \ {"undoBind"}) \cup {"name", "tidy", "reloadAgain"} =>
          job.previous \in named \cup {0, job.cert}
    /\ pc \in (Imported \ {"undoBind"}) \cup {"name"} => (job.previous = 0 => named = {})

LEMMA NameStep ==
    ASSUME TypeInv, NameInv, [Next]_vars
    PROVE  NameInv'
<1>0. /\ job.cert \in Nat /\ held \in Nat /\ named \subseteq store /\ named \subseteq Nat /\ 0 \notin named
      /\ (pc # "idle" => job.cert # 0 /\ job.cert <= held)
      /\ (pc \in {"rebind", "undoRemove"} => job.previous # 0)
      /\ job \in [cert : {0} \cup Issued, previous : {0} \cup Issued,
                  forced : BOOLEAN, reloaded : BOOLEAN]
  BY Numbers DEF TypeInv, TypeOK, WorkInv, Issued
<1>1. ASSUME pc' \in {"idle", "read", "undoImport"}, named' \subseteq named, held' = held,
             pc' # "idle" => job'.cert = held \/ (pc # "idle" /\ job'.cert = job.cert)
      PROVE  NameInv'
  BY <1>1 DEF NameInv, Imported
<1>r. ASSUME NEW status, NEW rolledBack, Return(status, rolledBack), named' \subseteq named, held' = held
      PROVE  NameInv'
  BY <1>1, <1>r DEF Return
<1>2. ASSUME Unfulfilled \/ Begin(FALSE) \/ Deploy \/ Refuse \/ Tidy \/ TidyFails \/ RebindFails
             \/ ReloadAgain \/ ReloadAgainFails \/ RemoveImported \/ RemoveImportedFails
             \/ ImportFails \/ Crash
      PROVE  NameInv'
  <2>1. named' \subseteq named /\ held' = held
    BY <1>2 DEF Unfulfilled, Begin, Deploy, Refuse, Tidy, TidyFails, RebindFails, ReloadAgain,
         ReloadAgainFails, RemoveImported, RemoveImportedFails, ImportFails, Crash,
         RemoveFromStore, RemoveStops, material
  <2>2. pc' \in {"idle", "read", "undoImport"}
    BY <1>2 DEF Unfulfilled, Begin, Deploy, Refuse, Tidy, TidyFails, RebindFails, ReloadAgain,
         ReloadAgainFails, RemoveImported, RemoveImportedFails, ImportFails, Crash, Return, Goto
  <2>3. pc' # "idle" => job'.cert = held \/ (pc # "idle" /\ job'.cert = job.cert)
    BY <1>2 DEF Unfulfilled, Begin, Deploy, Refuse, Tidy, TidyFails, RebindFails, ReloadAgain,
         ReloadAgainFails, RemoveImported, RemoveImportedFails, ImportFails, Crash, Return, Goto, NoJob
  <2> QED
    BY <1>1, <2>1, <2>2, <2>3
<1>3. ASSUME ReadPrevious PROVE NameInv'
  <2>1. CASE Return("installed", FALSE)
    BY <1>3, <2>1, <1>r DEF ReadPrevious, material
  <2>2. CASE ~Return("installed", FALSE)
    <3>1. PICK previous \in IF named = {} THEN {0} ELSE named :
            job' = [job EXCEPT !.previous = previous] /\ pc' = "import"
      BY <1>3, <2>2 DEF ReadPrevious
    <3> QED
      BY <1>0, <1>3, <3>1 DEF ReadPrevious, NameInv, Imported, material
  <2> QED
    BY <2>1, <2>2
<1>4. ASSUME Import PROVE NameInv'
  <2>1. pc' \in {"bind", "reload", "verify", "name"} /\ job' = job /\ held' = held /\ pc = "import"
        /\ job.cert \in store' \cap keys' /\ named' = named \ {job.cert}
    BY <1>4 DEF Import, Goto, AfterImport, AfterBind, AfterReload
  <2>2. /\ \A c \in named' : c <= held /\ c <= job.cert
        /\ job.cert \notin named'
        /\ job.previous \in named' \cup {0, job.cert}
        /\ job.previous = 0 => named' = {}
    BY <1>0, <2>1 DEF NameInv
  <2> QED
    BY <2>1, <2>2 DEF NameInv, Imported
<1>5. ASSUME Bind \/ BindFails \/ Reload \/ Verify \/ Stall PROVE NameInv'
  <2>1. /\ UNCHANGED <<store, keys, named, held>> /\ job'.cert = job.cert /\ job'.previous = job.previous
        /\ pc \in {"bind", "reload", "verify"}
        /\ pc' \in {"reload", "verify", "stalled", "name", "undoBind"}
    BY <1>0, <1>5 DEF Bind, BindFails, Reload, Verify, Stall, Goto, AfterBind, AfterReload, material
  <2> QED
    BY <2>1 DEF NameInv, Imported
<1>6. ASSUME ReloadFails \/ VerifyFails \/ StallEnds PROVE NameInv'
  <2>1. /\ UNCHANGED <<store, keys, named, held>> /\ pc \in {"reload", "verify", "stalled"}
        /\ UndoBinding \/ Goto("verify")
    BY <1>6 DEF ReloadFails, VerifyFails, StallEnds, material
  <2>4. CASE Goto("verify")
    BY <2>1, <2>4 DEF Goto, NameInv, Imported
  <2>2. CASE UndoBinding /\ hasBind /\ job.previous = 0
    BY <2>1, <2>2, <1>r DEF UndoBinding
  <2>3. CASE UndoBinding /\ ~(hasBind /\ job.previous = 0)
    BY <2>1, <2>3 DEF UndoBinding, Goto, NameInv, Imported
  <2> QED
    BY <2>1, <2>2, <2>3, <2>4
<1>7. ASSUME Name \/ NameFails PROVE NameInv'
  <2>1. /\ UNCHANGED <<store, keys, held, job>> /\ pc = "name" /\ pc' = "tidy"
        /\ named \subseteq named' /\ named' \subseteq named \cup {job.cert}
    BY <1>7 DEF Name, NameFails, Goto, material
  <2>2. \A c \in named' : c <= held /\ c <= job.cert
    BY <1>0, <2>1 DEF NameInv
  <2> QED
    BY <2>1, <2>2 DEF NameInv, Imported
<1>8. ASSUME Rebind PROVE NameInv'
  BY <1>8 DEF Rebind, Goto, NameInv, Imported, material
<1>9. ASSUME UndoRemove \/ UndoRemoveFails PROVE NameInv'
  <2>1. named \ {job.cert} \subseteq named' /\ named' \subseteq named /\ held' = held /\ pc = "undoRemove" /\ AfterUndo
    BY <1>9 DEF UndoRemove, UndoRemoveFails, RemoveFromStore, RemoveStops, material
  <2>2. CASE job.reloaded
    BY <2>1, <2>2 DEF AfterUndo, Goto, NameInv, Imported
  <2>3. CASE ~job.reloaded
    BY <2>1, <2>3, <1>r DEF AfterUndo
  <2> QED
    BY <2>2, <2>3
<1>10. ASSUME Stop \/ PickUp \/ UNCHANGED vars PROVE NameInv'
  BY <1>10 DEF Stop, PickUp, vars, material, NameInv, Imported
<1>11. ASSUME Issue PROVE NameInv'
  <2>1. held <= held' /\ held' \in Nat
    BY <1>0, <1>11 DEF Issue
  <2> QED
    BY <1>0, <1>11, <2>1 DEF Issue, NameInv, Imported, material
<1> QED
  BY <1>2, <1>3, <1>4, <1>5, <1>6, <1>7, <1>8, <1>9, <1>10, <1>11 DEF Next, Step

-----------------------------------------------------------------------------
(* What the service is bound to, where a bind is declared.                 *)

\* Up to the bind it is what it was, after it the certificate being installed,
\* and after a rollback the previous one.  The one that carries the name and is
\* held has always been bound.
BoundInv ==
    /\ binding = 0 => named = {}
    /\ held \in named => binding = held
    /\ pc \in {"read", "import", "undoImport"} =>
          binding = before /\ (job.cert \in named => binding = job.cert)
    /\ pc = "bind" => binding = before
    /\ pc = "undoBind" => binding \in {before, job.cert}
    /\ pc \in {"reload", "verify", "stalled", "name", "tidy", "rebind"} => binding = job.cert
    /\ pc \in {"verify", "stalled"} => serving = job.cert
    /\ pc \in {"undoRemove", "reloadAgain"} => binding = job.previous /\ job.previous # 0
    /\ pc \notin {"idle", "read"} =>
          (job.previous = job.cert => before = job.cert) /\ (before = 0 => job.previous = 0)

BindInv == hasBind => BoundInv

LEMMA BindStep ==
    ASSUME TypeInv, NameInv, BindInv, [Next]_vars
    PROVE  BindInv'
<1> SUFFICES ASSUME hasBind, BoundInv PROVE BoundInv'
  BY DEF BindInv, Next, Step, Unfulfilled, Begin, Refuse, ReadPrevious, Import, ImportFails,
     RemoveImported, RemoveImportedFails, Bind, BindFails, Reload, ReloadFails, Verify,
     VerifyFails, Stall, StallEnds, Name, NameFails, Tidy, TidyFails, Rebind, RebindFails,
     UndoRemove, UndoRemoveFails, ReloadAgain, ReloadAgainFails, Deploy, Stop, Crash, Issue, PickUp, vars
<1>0. /\ job.cert \in Nat /\ held \in Nat /\ named \subseteq Nat /\ 0 \notin named
      /\ (pc # "idle" => job.cert # 0 /\ job.cert <= held)
      /\ (pc \in {"rebind", "undoRemove"} => job.previous # 0)
      /\ job \in [cert : {0} \cup Issued, previous : {0} \cup Issued,
                  forced : BOOLEAN, reloaded : BOOLEAN]
  BY Numbers DEF TypeInv, TypeOK, WorkInv, Issued
<1>i. ASSUME pc' = "idle", UNCHANGED <<held, binding>>, named' \subseteq named PROVE BoundInv'
  BY <1>i DEF BoundInv
<1>1. ASSUME Unfulfilled \/ Refuse \/ ReloadAgain \/ ReloadAgainFails
             \/ RemoveImported \/ RemoveImportedFails \/ Tidy \/ TidyFails \/ Crash
      PROVE  BoundInv'
  <2>1. named' \subseteq named /\ UNCHANGED <<held, binding>>
    BY <1>1 DEF Unfulfilled, Refuse, Tidy, TidyFails, ReloadAgain,
         ReloadAgainFails, RemoveImported, RemoveImportedFails, Crash,
         RemoveFromStore, RemoveStops, material, service
  <2>2. pc' = "idle"
    BY <1>1 DEF Unfulfilled, Refuse, Tidy, TidyFails, ReloadAgain,
         ReloadAgainFails, RemoveImported, RemoveImportedFails, Crash, Return
  <2> QED
    BY <2>1, <2>2, <1>i
<1>2. ASSUME Begin(FALSE) \/ Deploy PROVE BoundInv'
  <2>1. /\ UNCHANGED <<held, named, binding>> /\ pc' = "read"
        /\ job'.cert = held /\ before' = binding
    BY <1>2 DEF Begin, Deploy, NoJob, material, service
  <2> QED
    BY <2>1 DEF BoundInv
<1>3. ASSUME ReadPrevious PROVE BoundInv'
  <2>1. CASE Return("installed", FALSE)
    BY <1>3, <2>1, <1>i DEF ReadPrevious, Return, material, service
  <2>2. CASE ~Return("installed", FALSE)
    <3>1. PICK previous \in IF named = {} THEN {0} ELSE named :
            job' = [job EXCEPT !.previous = previous] /\ pc' = "import" /\ UNCHANGED before
      BY <1>3, <2>2 DEF ReadPrevious
    <3>2. job'.cert = job.cert /\ job'.previous = previous
      BY <1>0, <3>1
    <3>3. /\ UNCHANGED <<held, named, binding>> /\ pc = "read"
      BY <1>3 DEF ReadPrevious, material, service
    <3> QED
      BY <1>0, <3>1, <3>2, <3>3 DEF BoundInv
  <2> QED
    BY <2>1, <2>2
<1>4. ASSUME Import PROVE BoundInv'
  <2>1. pc' = "bind" /\ UNCHANGED <<job, held, binding, before>> /\ pc = "import"
        /\ named' = named \ {job.cert}
    BY <1>4 DEF Import, Goto, AfterImport, service
  <2> QED
    BY <2>1 DEF BoundInv
<1>5. ASSUME ImportFails PROVE BoundInv'
  <2>1. pc' = "undoImport" /\ UNCHANGED <<job, held, binding, before>> /\ pc = "import"
        /\ named' \subseteq named
    BY <1>5 DEF ImportFails, Goto, service, material
  <2> QED
    BY <2>1 DEF BoundInv
<1>6. ASSUME Bind PROVE BoundInv'
  <2>1. /\ pc = "bind" /\ job.cert \in store \cap keys /\ job.cert \notin named
        /\ UNCHANGED <<held, named, job, before>> /\ binding' = job.cert
        /\ serving' = IF HasReload THEN serving ELSE job.cert
        /\ pc' = IF HasReload THEN "reload" ELSE IF HasVerify THEN "verify" ELSE "name"
    BY <1>6 DEF Bind, NameInv, Imported, Goto, material, Repoint, Present, AfterBind, AfterReload
  <2>2. held \notin named
    BY <1>0, <2>1 DEF NameInv
  <2> QED
    BY <1>0, <2>1, <2>2 DEF BoundInv
<1>7. ASSUME BindFails PROVE BoundInv'
  <2>1. /\ pc = "bind" /\ job.cert \notin named
        /\ UNCHANGED <<held, named, job, before>> /\ binding' \in {binding, job.cert}
        /\ pc' = "undoBind"
    BY <1>7 DEF BindFails, NameInv, Imported, Goto, material, service, Repoint
  <2>2. held \notin named
    BY <1>0, <2>1 DEF NameInv
  <2> QED
    BY <1>0, <2>1, <2>2 DEF BoundInv
<1>8. ASSUME Reload PROVE BoundInv'
  <2>1. /\ pc = "reload" /\ job.cert \in store \cap keys /\ binding = job.cert
        /\ UNCHANGED <<held, named, binding, before>> /\ serving' = Present(binding)
        /\ job'.cert = job.cert /\ job'.previous = job.previous
        /\ pc' \in {"verify", "name"}
    BY <1>0, <1>8 DEF Reload, NameInv, Imported, BoundInv, Reads, material, AfterReload
  <2>2. serving' = job.cert
    BY <2>1 DEF Present
  <2> QED
    BY <2>1, <2>2 DEF BoundInv
<1>9. ASSUME ReloadFails \/ VerifyFails \/ StallEnds PROVE BoundInv'
  <2>1. /\ UNCHANGED <<held, named, binding>> /\ pc \in {"reload", "verify", "stalled"}
        /\ UndoBinding \/ (Goto("verify") /\ UNCHANGED serving /\ pc = "stalled")
    BY <1>9 DEF ReloadFails, VerifyFails, StallEnds, Reads, material, service
  <2>2. CASE UndoBinding /\ job.previous = 0
    BY <2>1, <2>2, <1>i DEF UndoBinding, Return
  <2>3. CASE UndoBinding /\ job.previous # 0
    BY <2>1, <2>3 DEF UndoBinding, Goto, BoundInv
  <2>4. CASE Goto("verify") /\ UNCHANGED serving /\ pc = "stalled"
    BY <2>1, <2>4 DEF Goto, BoundInv
  <2> QED
    BY <2>1, <2>2, <2>3, <2>4
<1>10. ASSUME Verify \/ Stall PROVE BoundInv'
  BY <1>10 DEF Verify, Stall, Goto, material, service, BoundInv
<1>11. ASSUME Name \/ NameFails PROVE BoundInv'
  <2>1. /\ UNCHANGED <<held, binding, before, job>> /\ pc = "name" /\ pc' = "tidy"
        /\ named' \subseteq named \cup {job.cert}
    BY <1>11 DEF Name, NameFails, Goto, material, service
  <2> QED
    BY <1>0, <2>1 DEF BoundInv
<1>12. ASSUME Rebind PROVE BoundInv'
  <2>1. /\ pc = "rebind" /\ job.cert \notin named /\ pc' = "undoRemove"
        /\ UNCHANGED <<held, named, job, before>> /\ binding' = job.previous
    BY <1>12 DEF Rebind, NameInv, Imported, Goto, material, Repoint
  <2>2. held \notin named
    BY <1>0, <2>1 DEF NameInv, BoundInv
  <2> QED
    BY <1>0, <2>1, <2>2 DEF BoundInv
<1>13. ASSUME UndoRemove \/ UndoRemoveFails PROVE BoundInv'
  <2>1. named' \subseteq named /\ UNCHANGED <<held, binding>> /\ pc = "undoRemove" /\ AfterUndo
    BY <1>13 DEF UndoRemove, UndoRemoveFails, RemoveFromStore, RemoveStops, material, service
  <2>2. CASE job.reloaded
    BY <2>1, <2>2 DEF AfterUndo, Goto, BoundInv
  <2>3. CASE ~job.reloaded
    BY <2>1, <2>3, <1>i DEF AfterUndo, Return
  <2> QED
    BY <2>2, <2>3
<1>14. ASSUME Stop \/ UNCHANGED vars PROVE BoundInv'
  BY <1>14 DEF Stop, vars, material, service, BoundInv
<1>15. ASSUME Issue PROVE BoundInv'
  <2>1. held' \in Nat /\ held < held' /\ UNCHANGED <<named, binding, before, job, pc, serving>>
    BY <1>0, <1>15 DEF Issue, material, service
  <2>2. \A c \in named : c \in Nat /\ c <= held
    BY <1>0 DEF NameInv
  <2>3. held' \notin named
    BY <1>0, <2>1, <2>2
  <2> QED
    BY <2>1, <2>3 DEF BoundInv
<1>17. ASSUME RebindFails PROVE BoundInv'
  <2>1. /\ pc = "rebind" /\ job.cert \notin named /\ pc' = "idle" /\ job.previous # 0
        /\ UNCHANGED <<held, named>> /\ binding' \in {binding, job.previous}
    BY <1>0, <1>17 DEF RebindFails, NameInv, Imported, Return, material, service, Repoint
  <2>2. held \notin named
    BY <1>0, <2>1 DEF NameInv, BoundInv
  <2> QED
    BY <1>0, <2>1, <2>2 DEF BoundInv
<1>16. ~PickUp
  BY DEF PickUp
<1> QED
  BY <1>1, <1>2, <1>3, <1>4, <1>5, <1>6, <1>7, <1>8, <1>9, <1>10, <1>11, <1>12, <1>13,
     <1>14, <1>15, <1>16, <1>17 DEF Next, Step

NamesInv == TypeInv /\ NameInv /\ BindInv

LEMMA NamesInit == ASSUME Init PROVE NamesInv
BY TypeInit DEF Init, NamesInv, NameInv, BindInv, BoundInv, Imported

LEMMA NamesStep == ASSUME NamesInv, [Next]_vars PROVE NamesInv'
BY TypeStep, NameStep, BindStep DEF NamesInv

LEMMA NamesInvariant == Spec => []NamesInv
<1>1. Init => NamesInv
  BY NamesInit
<1>2. NamesInv /\ [Next]_vars => NamesInv'
  BY NamesStep
<1> QED
  BY <1>1, <1>2, PTL DEF Spec

\* settle: the name is never on a certificate this host holds that the service
\* has not been bound to.
THEOREM NamedIsBound == Spec => []NamedWasBound
<1>1. NamesInv => NamedWasBound
  BY DEF NamesInv, BindInv, BoundInv, NamedWasBound
<1> QED
  BY <1>1, NamesInvariant, PTL

LEMMA BoundStep ==
    ASSUME NamesInv, [Next]_vars, hasBind, Replacing, ~BoundUnknowingly,
           binding' = binding, binding \in store \cap keys
    PROVE  binding \in store' \cap keys'
<1> USE DEF NamesInv, BindInv, BoundInv, Replacing
<1>1. pc # "idle"
  BY DEF TypeInv, WorkInv, NoJob
<1>2. CASE UNCHANGED <<store, keys>> \/ Import \/ ImportFails
  BY <1>2 DEF Import, ImportFails, material
<1>3. ASSUME NEW c, c # binding, RemoveFromStore(c) \/ RemoveStops(c)
      PROVE  binding \in store' \cap keys'
  BY <1>3 DEF RemoveFromStore, RemoveStops, material
<1>4. CASE Tidy \/ TidyFails
  <2>1. binding = job.cert
    BY <1>4 DEF Tidy, TidyFails
  <2> QED
    BY <1>3, <1>4, <2>1 DEF Tidy, TidyFails, material
<1>5. CASE RemoveImported \/ RemoveImportedFails
  <2>1. binding # job.cert
    BY <1>5 DEF RemoveImported, RemoveImportedFails, BoundUnknowingly
  <2> QED
    BY <1>3, <1>5, <2>1 DEF RemoveImported, RemoveImportedFails
<1>6. CASE UndoRemove \/ UndoRemoveFails
  <2>1. binding = job.previous /\ job.previous # job.cert
    BY <1>6 DEF UndoRemove, UndoRemoveFails
  <2> QED
    BY <1>3, <1>6, <2>1 DEF UndoRemove, UndoRemoveFails
<1>7. \/ UNCHANGED <<store, keys>> \/ Import \/ ImportFails \/ Tidy \/ TidyFails
      \/ RemoveImported \/ RemoveImportedFails \/ UndoRemove \/ UndoRemoveFails
  BY DEF Next, Step, Unfulfilled, Begin, Refuse, ReadPrevious, Bind, BindFails, Reload,
     ReloadFails, Verify, VerifyFails, Stall, StallEnds, Name, NameFails, Rebind, RebindFails,
     ReloadAgain, ReloadAgainFails, Deploy, Stop, Crash, Issue, PickUp, vars, material
<1> QED
  BY <1>2, <1>4, <1>5, <1>6, <1>7

\* rollbackStore and settle: while a certificate is being replaced no removal
\* takes from the service the certificate or the key it is bound to.
THEOREM BoundStays == Spec => BoundSurvives
<1>1. NamesInv /\ [Next]_vars =>
        [hasBind /\ Replacing /\ ~BoundUnknowingly /\ binding' = binding
           /\ binding \in store \cap keys => binding \in store' \cap keys']_vars
  BY BoundStep
<1> QED
  BY <1>1, NamesInvariant, PTL DEF Spec, BoundSurvives

LEMMA RolledBackStep ==
    ASSUME NamesInv, [Next]_vars, hasBind, pc # "idle", report'.rolledBack, Replacing,
           ~BoundUnknowingly
    PROVE  binding' \in {before} \cup named'
<1> USE DEF NamesInv, BindInv, BoundInv, Replacing
<1>1. report = NoReport /\ ~NoReport.rolledBack
  BY DEF TypeInv, WorkInv, NoReport
<1>2. ASSUME NEW status, Return(status, FALSE) PROVE FALSE
  BY <1>2 DEF Return
<1>3. CASE UNCHANGED report
  BY <1>1, <1>3
<1>4. CASE RemoveImported
  <2>1. binding' = binding /\ pc = "undoBind"
    BY <1>2, <1>4 DEF RemoveImported, Return, service
  <2> QED
    BY <2>1 DEF BoundUnknowingly
<1>5. CASE UndoRemove \/ UndoRemoveFails \/ ReloadAgain \/ ReloadAgainFails
  <2>1. /\ binding' = binding /\ pc \in {"undoRemove", "reloadAgain"}
        /\ named \ {job.cert} \subseteq named'
    BY <1>5 DEF UndoRemove, UndoRemoveFails, ReloadAgain, ReloadAgainFails, RemoveFromStore,
         RemoveStops, material, service
  <2>2. binding = job.previous /\ job.previous # job.cert /\ job.previous \in named
    BY <2>1 DEF NameInv, Imported
  <2> QED
    BY <2>1, <2>2
<1>6. ASSUME Refuse \/ RemoveImportedFails \/ RebindFails \/ Tidy \/ TidyFails PROVE FALSE
  BY <1>2, <1>6 DEF Refuse, RemoveImportedFails, RebindFails, Tidy, TidyFails
<1>7. ASSUME ReadPrevious \/ ReloadFails \/ VerifyFails \/ StallEnds PROVE UNCHANGED report
  BY <1>2, <1>7 DEF ReadPrevious, ReloadFails, VerifyFails, StallEnds, UndoBinding, Goto
<1>8. ASSUME Import \/ ImportFails \/ Bind \/ BindFails \/ Reload \/ Verify \/ Stall \/ Name \/ NameFails
             \/ Rebind \/ Stop \/ Crash \/ Issue \/ PickUp \/ UNCHANGED vars
      PROVE  UNCHANGED report
  BY <1>8 DEF Import, ImportFails, Bind, BindFails, Reload, Verify, Stall, Name, NameFails, Rebind,
     Goto, Stop, Crash, Issue, PickUp, vars
<1>9. ~(Unfulfilled \/ Begin(FALSE) \/ Deploy)
  BY DEF Unfulfilled, Begin, Deploy
<1> QED
  BY <1>3, <1>4, <1>5, <1>6, <1>7, <1>8, <1>9 DEF Next, Step

\* rollbackStore: RolledBack is told only of a service that is configured with
\* what it was configured with before, or with a certificate under the name.
THEOREM RolledBackIsRebound == Spec => RolledBackMeansRebound
<1>1. NamesInv /\ [Next]_vars =>
        [hasBind /\ pc # "idle" /\ report'.rolledBack /\ Replacing /\ ~BoundUnknowingly
           => binding' \in {before} \cup named']_vars
  BY RolledBackStep
<1> QED
  BY <1>1, NamesInvariant, PTL DEF Spec, RolledBackMeansRebound

-----------------------------------------------------------------------------
(* What is left behind.                                                    *)

\* What is in the store or the provider beside the administrator's, and what is
\* there beside the certificate being installed.
Rest   == (store \cup keys) \ {1}
Beside == Rest \ {job.cert}

\* The failures so far; a cancelled context is only counted once it has made a
\* call fail.
Budget == IF stopping THEN faults - 1 ELSE faults

\* One certificate is in use.  Nothing tidies away one that carries no name, so
\* where none does that one has to be paid for as well.
Kept(n) ==
    /\ Cardinality(Rest) <= n + 1
    /\ named = {} => Cardinality(Rest) <= n
    /\ hasBind => Cardinality(Rest \ {binding}) <= n

LeftInv ==
    /\ pc \in {"idle", "read", "import"} => Kept(Budget)
    /\ pc = "undoImport" =>
          /\ Cardinality(Beside) <= faults
          /\ named \ {job.cert} = {} => Cardinality(Beside) + 1 <= faults
          /\ hasBind => Cardinality(Beside \ {binding}) + 1 <= faults
    /\ pc \in {"bind", "reload", "verify", "name"} =>
          Cardinality(Beside \ {job.previous}) <= Budget
    /\ pc = "stalled" => Cardinality(Beside \ {job.previous}) + 1 <= Budget
    /\ pc = "bind" => Cardinality(Beside \ {binding}) <= Budget
    /\ pc = "undoBind" =>
          /\ Cardinality(Beside) <= faults + 1
          /\ named = {} => Cardinality(Beside) <= faults
          /\ hasBind => Cardinality(Beside \ {binding}) <= faults
    /\ pc = "tidy" =>
          /\ Cardinality(Beside \ {job.previous}) <= faults
          /\ job.cert \notin named => Cardinality(Beside \ {job.previous}) + 1 <= faults
    /\ pc \in {"rebind", "undoRemove"} => Cardinality(Beside \ {job.previous}) + 1 <= faults
    /\ pc = "reloadAgain" => Cardinality(Rest) <= faults

LEMMA Sizes ==
    ASSUME NEW S, NEW T, IsFiniteSet(S)
    PROVE  /\ Cardinality(S) \in Nat
           /\ T \subseteq S => Cardinality(T) \in Nat /\ Cardinality(T) <= Cardinality(S)
           /\ \A x : T \subseteq S \cup {x} => Cardinality(T) \in Nat /\ Cardinality(T) <= Cardinality(S) + 1
<1>1. Cardinality(S) \in Nat
  BY FS_CardinalityType
<1>2. ASSUME T \subseteq S PROVE Cardinality(T) \in Nat /\ Cardinality(T) <= Cardinality(S)
  BY <1>2, FS_Subset, FS_CardinalityType
<1>3. ASSUME NEW x, T \subseteq S \cup {x}
      PROVE  Cardinality(T) \in Nat /\ Cardinality(T) <= Cardinality(S) + 1
  <2>1. /\ IsFiniteSet(S \cup {x})
        /\ Cardinality(S \cup {x}) \in {Cardinality(S), Cardinality(S) + 1}
    BY FS_AddElement
  <2>2. Cardinality(T) \in Nat /\ Cardinality(T) <= Cardinality(S \cup {x})
    BY <1>3, <2>1, FS_Subset, FS_CardinalityType
  <2> QED
    BY <1>1, <2>1, <2>2
<1> QED
  BY <1>1, <1>2, <1>3

LEMMA Finite ==
    ASSUME TypeInv
    PROVE  IsFiniteSet(Rest) /\ IsFiniteSet(Beside) /\ \A x : IsFiniteSet(Beside \ {x}) /\ IsFiniteSet(Rest \ {x})
<1>1. 0 \in Int /\ MaxCert \in Int
  BY Numbers DEF TypeInv
<1>2. IsFiniteSet(Cert)
  BY <1>1, FS_Interval DEF Cert
<1>3. Rest \subseteq Cert
  BY DEF Rest, TypeInv, TypeOK
<1> QED
  BY <1>2, <1>3, FS_Subset DEF Beside

\* How many a set of certificates has that holds at most what is beside the
\* certificate being installed, and that certificate.
LEMMA Counts ==
    ASSUME TypeInv, NEW R, R \subseteq Beside \cup {job.cert}, NEW b
    PROVE  /\ Cardinality(R) \in Nat /\ Cardinality(R \ {b}) \in Nat
           /\ Cardinality(Beside) \in Nat /\ Cardinality(Beside \ {b}) \in Nat
           /\ Cardinality(Beside \ {job.previous}) \in Nat
           /\ Cardinality(Beside) <= Cardinality(Beside \ {job.previous}) + 1
           /\ job.previous \in {0, job.cert} => Beside \ {job.previous} = Beside
           /\ Cardinality(R) <= Cardinality(Beside) + 1
           /\ Cardinality(R \ {b}) <= Cardinality(R)
           /\ Cardinality(R \ {b}) <= Cardinality(Beside \ {b}) + 1
           /\ b = job.cert => Cardinality(R \ {b}) <= Cardinality(Beside)
           /\ R \subseteq Beside => /\ Cardinality(R) <= Cardinality(Beside)
                                  /\ Cardinality(R \ {b}) <= Cardinality(Beside \ {b})
<1>1. /\ IsFiniteSet(Beside) /\ IsFiniteSet(Beside \ {b}) /\ IsFiniteSet(Beside \ {job.previous})
  BY Finite
<1>2. Cardinality(R) \in Nat /\ Cardinality(R) <= Cardinality(Beside) + 1 /\ IsFiniteSet(R)
  <2>1. IsFiniteSet(Beside \cup {job.cert})
    BY <1>1, FS_AddElement
  <2> QED
    BY <1>1, <2>1, Sizes, FS_Subset
<1>3. Cardinality(R \ {b}) \in Nat /\ Cardinality(R \ {b}) <= Cardinality(R)
  BY <1>2, Sizes
<1>4. Cardinality(Beside) \in Nat /\ Cardinality(Beside \ {b}) \in Nat
      /\ Cardinality(Beside \ {job.previous}) \in Nat
  BY <1>1, FS_CardinalityType
<1>5. Cardinality(Beside) <= Cardinality(Beside \ {job.previous}) + 1
  <2>1. Beside \subseteq (Beside \ {job.previous}) \cup {job.previous}
    OBVIOUS
  <2> QED
    BY <1>1, <2>1, Sizes
<1>6. job.previous \in {0, job.cert} => Beside \ {job.previous} = Beside
  BY DEF Beside, Rest, TypeInv, TypeOK
<1>7. Cardinality(R \ {b}) <= Cardinality(Beside \ {b}) + 1
  <2>1. R \ {b} \subseteq (Beside \ {b}) \cup {job.cert}
    OBVIOUS
  <2> QED
    BY <1>1, <2>1, Sizes
<1>8. ASSUME b = job.cert PROVE Cardinality(R \ {b}) <= Cardinality(Beside)
  <2>1. R \ {b} \subseteq Beside
    BY <1>8
  <2> QED
    BY <1>1, <2>1, Sizes
<1>9. ASSUME R \subseteq Beside
      PROVE  /\ Cardinality(R) <= Cardinality(Beside)
             /\ Cardinality(R \ {b}) <= Cardinality(Beside \ {b})
  <2>1. R \ {b} \subseteq Beside \ {b}
    BY <1>9
  <2> QED
    BY <1>1, <1>9, <2>1, Sizes
<1> QED
  BY <1>2, <1>3, <1>4, <1>5, <1>6, <1>7, <1>8, <1>9

\* A step that changes neither the certificates nor what is bound and named, and
\* takes nothing off what is paid for.
LEMMA LeftAlone ==
    ASSUME TypeInv, LeftInv, faults' \in Nat, faults <= faults', Budget <= Budget',
           UNCHANGED <<store, keys, named, binding, hasBind>>,
           \/ pc' = pc /\ UNCHANGED job
           \/ pc \in {"idle", "read"} /\ pc' \in {"idle", "read"}
    PROVE  LeftInv'
<1>1. faults \in Nat /\ Budget \in Int /\ Budget' \in Int
  BY Numbers DEF TypeInv, TypeOK, Budget
<1>2. /\ Cardinality(Rest) \in Nat /\ Cardinality(Beside) \in Nat /\ Cardinality(Rest \ {binding}) \in Nat
      /\ Cardinality(Beside \ {binding}) \in Nat /\ Cardinality(Beside \ {job.previous}) \in Nat
  BY Finite, FS_CardinalityType
<1>3. Rest' = Rest /\ (UNCHANGED job => Beside' = Beside)
  BY DEF Rest, Beside
<1>4. ASSUME Kept(Budget) PROVE Kept(Budget)'
  BY <1>1, <1>2, <1>3, <1>4 DEF Kept
<1>5. CASE pc' \in {"idle", "read", "import"}
  BY <1>4, <1>5 DEF LeftInv
<1>6. CASE pc' \notin {"idle", "read", "import"}
  <2>1. pc' = pc /\ job' = job /\ Beside' = Beside
    BY <1>3, <1>6
  <2> QED
    BY <1>1, <1>2, <1>3, <1>6, <2>1 DEF LeftInv
<1> QED
  BY <1>5, <1>6

\* An operation that ends on a failure of its own, whatever it was at.
LEMMA LeftFails ==
    ASSUME TypeInv, NameInv, BindInv, LeftInv, pc # "idle", pc' = "idle", ~stopping',
           faults' = faults + 1, UNCHANGED <<binding, hasBind>>,
           Rest' \subseteq Rest,
           named' = named \/ (pc \notin {"read", "import", "tidy"} /\ named' = named \ {job.cert})
                          \/ (pc = "tidy" /\ job.previous # job.cert /\ named' = named \ {job.previous})
    PROVE  LeftInv'
<1>1. /\ faults \in Nat /\ Budget \in Int /\ Budget <= faults /\ Budget' = faults + 1
  BY Numbers DEF TypeInv, TypeOK, Budget
<1>2. Rest' \subseteq Beside \cup {job.cert} /\ Beside \subseteq Rest /\ IsFiniteSet(Rest) /\ IsFiniteSet(Rest \ {binding})
  BY Finite DEF Beside
<1> DEFINE r == Cardinality(Rest')
           rb == Cardinality(Rest' \ {binding})
           b == Cardinality(Beside)
           bb == Cardinality(Beside \ {binding})
           bp == Cardinality(Beside \ {job.previous})
<1>3. /\ r \in Nat /\ rb \in Nat /\ b \in Nat /\ bb \in Nat /\ bp \in Nat
      /\ b <= bp + 1 /\ r <= b + 1 /\ rb <= r /\ rb <= bb + 1
      /\ job.previous \in {0, job.cert} => bp = b
      /\ binding = job.cert => rb <= b
  BY <1>2, Counts
<1>4. /\ r <= Cardinality(Rest) /\ Cardinality(Rest) \in Nat
      /\ rb <= Cardinality(Rest \ {binding}) /\ Cardinality(Rest \ {binding}) \in Nat
  BY <1>2, Sizes
<1>5. r <= faults + 2 /\ (named' = {} => r <= faults + 1) /\ (hasBind => rb <= faults + 1)
  <2> HIDE DEF r, rb, b, bb, bp
  <2>1. CASE pc \in {"read", "import"}
    BY <1>1, <1>3, <1>4, <2>1 DEF LeftInv, Kept
  <2>2. CASE pc = "undoImport"
    <3>1. b <= faults /\ (named \ {job.cert} = {} => b + 1 <= faults) /\ (hasBind => bb + 1 <= faults)
      BY <2>2 DEF LeftInv, b, bb
    <3> QED
      BY <1>1, <1>3, <2>2, <3>1
  <2>3. CASE pc \in {"bind", "reload", "verify", "stalled", "name"}
    <3>1. bp <= Budget /\ (pc = "bind" => bb <= Budget)
      BY <1>1, <1>3, <2>3 DEF LeftInv, bp, bb
    <3>2. named' = {} => job.previous \in {0, job.cert}
      BY <2>3 DEF NameInv, Imported
    <3>3. hasBind /\ pc # "bind" => binding = job.cert
      BY <2>3 DEF BindInv, BoundInv
    <3> QED
      BY <1>1, <1>3, <2>3, <3>1, <3>2, <3>3
  <2>4. CASE pc = "undoBind"
    <3>1. b <= faults + 1 /\ (named = {} => b <= faults) /\ (hasBind => bb <= faults)
      BY <2>4 DEF LeftInv, b, bb
    <3>2. job.cert \notin named
      BY <2>4 DEF NameInv, Imported
    <3>3. named' = {} => named = {}
      BY <2>4, <3>2
    <3> QED
      BY <1>1, <1>3, <3>1, <3>3
  <2>5. CASE pc = "tidy"
    <3>1. bp <= faults /\ (job.cert \notin named => bp + 1 <= faults)
      BY <2>5 DEF LeftInv, bp
    <3>2. named' = {} => job.cert \notin named
      BY <2>5
    <3>3. hasBind => binding = job.cert
      BY <2>5 DEF BindInv, BoundInv
    <3> QED
      BY <1>1, <1>3, <3>1, <3>2, <3>3
  <2>6. CASE pc \in {"rebind", "undoRemove"}
    <3>1. bp + 1 <= faults
      BY <2>6 DEF LeftInv, bp
    <3> QED
      BY <1>1, <1>3, <3>1
  <2>7. CASE pc = "reloadAgain"
    BY <1>1, <1>3, <1>4, <2>7 DEF LeftInv
  <2> QED
    BY <2>1, <2>2, <2>3, <2>4, <2>5, <2>6, <2>7 DEF TypeInv, TypeOK
<1>6. Kept(faults)'
  BY <1>1, <1>3, <1>5 DEF Kept
<1> QED
  BY <1>1, <1>6 DEF LeftInv, Kept

LEMMA LeftStep ==
    ASSUME NamesInv, LeftInv, [Next]_vars
    PROVE  LeftInv'
<1> DEFINE b == Cardinality(Beside)
           bp == Cardinality(Beside \ {job.previous})
<1>t. TypeInv /\ NameInv /\ BindInv
  BY DEF NamesInv
<1>0. /\ faults \in Nat /\ Budget \in Int /\ Budget <= faults /\ stopping \in BOOLEAN
      /\ (stopping => Budget + 1 <= faults) /\ (~stopping => Budget = faults)
      /\ (pc # "idle" => job.cert # 0 /\ job.cert # 1)
      /\ job \in [cert : {0} \cup Issued, previous : {0} \cup Issued,
                  forced : BOOLEAN, reloaded : BOOLEAN]
      /\ named \subseteq store /\ 1 \notin named /\ 0 \notin store
  BY <1>t, Numbers DEF TypeInv, TypeOK, WorkInv, Issued, Budget
<1>c. /\ b \in Nat /\ bp \in Nat /\ b <= bp + 1 /\ (job.previous \in {0, job.cert} => bp = b)
      /\ Beside \subseteq Rest /\ Rest \subseteq Beside \cup {job.cert}
  <2>1. Beside \subseteq Rest /\ Rest \subseteq Beside \cup {job.cert}
    BY DEF Beside
  <2> QED
    BY <1>t, <2>1, Counts
<1>k. ASSUME NEW n \in Int, n <= faults', faults' \in Nat, pc' = "idle", ~stopping',
             Cardinality(Rest') \in Nat, Cardinality(Rest' \ {binding'}) \in Nat,
             Cardinality(Rest') <= n + 1, named' = {} => Cardinality(Rest') <= n,
             hasBind' => Cardinality(Rest' \ {binding'}) <= n
      PROVE  LeftInv'
  <2>1. Budget' = faults'
    BY <1>k DEF Budget
  <2>2. Kept(Budget)'
    BY <1>k, <2>1 DEF Kept
  <2> QED
    BY <1>k, <2>2 DEF LeftInv
<1>u. UNCHANGED <<store, keys>> => Rest' = Rest /\ (job'.cert = job.cert => Beside' = Beside)
  BY DEF Rest, Beside
<1>m. ASSUME Begin(FALSE) \/ Deploy \/ Unfulfilled \/ Stop \/ Issue \/ UNCHANGED vars
      PROVE  LeftInv'
  <2>1. /\ UNCHANGED <<store, keys, named, binding, hasBind>>
        /\ \/ pc' = pc /\ UNCHANGED job
           \/ pc \in {"idle", "read"} /\ pc' \in {"idle", "read"}
    BY <1>m DEF Begin, Deploy, Unfulfilled, Stop, Issue, vars, material, service
  <2>2. faults' \in Nat /\ faults <= faults' /\ Budget <= Budget'
    BY <1>0, <1>m DEF Begin, Deploy, Unfulfilled, Stop, Issue, vars, Fault, Budget
  <2> QED
    BY <1>t, <2>1, <2>2, LeftAlone
<1>f. ASSUME Refuse \/ RemoveImportedFails \/ TidyFails \/ Crash PROVE LeftInv'
  <2>1. pc # "idle" /\ pc' = "idle" /\ ~stopping' /\ faults' = faults + 1 /\ UNCHANGED <<binding, hasBind>>
    BY <1>f DEF Refuse, RemoveImportedFails, TidyFails, Crash, Return, Fault, RemoveStops, service
  <2>2. Rest' \subseteq Rest
    BY <1>f DEF Refuse, RemoveImportedFails, TidyFails, Crash, RemoveStops, material, Rest
  <2>3. \/ named' = named
        \/ pc \notin {"read", "import", "tidy"} /\ named' = named \ {job.cert}
        \/ pc = "tidy" /\ job.previous # job.cert /\ named' = named \ {job.previous}
    BY <1>f DEF Refuse, RemoveImportedFails, TidyFails, Crash, RemoveStops, material
  <2> QED
    BY <1>t, <2>1, <2>2, <2>3, LeftFails
<1>1. ASSUME ReadPrevious PROVE LeftInv'
  <2>1. UNCHANGED <<hasBind, store, keys, named, binding, faults>> /\ pc = "read" /\ Kept(Budget)
    BY <1>1 DEF ReadPrevious, material, service, LeftInv
  <2>2. CASE Return("installed", FALSE)
    <3>1. Cardinality(Rest) \in Nat /\ Cardinality(Rest \ {binding}) \in Nat
      BY <1>t, Finite, FS_CardinalityType
    <3> QED
      BY <1>0, <1>u, <1>k, <2>1, <2>2, <3>1 DEF Return, Kept
  <2>3. CASE ~Return("installed", FALSE)
    <3>1. pc' = "import" /\ UNCHANGED stopping
      BY <1>1, <2>3 DEF ReadPrevious
    <3> QED
      BY <1>u, <2>1, <3>1 DEF LeftInv, Kept, Budget
  <2> QED
    BY <2>2, <2>3
<1>2. ASSUME Import PROVE LeftInv'
  <2>1. /\ pc = "import" /\ Kept(Budget) /\ UNCHANGED <<job, stopping, faults, binding, hasBind>>
        /\ pc' = AfterImport /\ pc' \in {"bind", "reload", "verify", "name"} /\ (pc' = "bind" => hasBind)
    BY <1>2 DEF Import, LeftInv, Goto, AfterImport, AfterBind, AfterReload, service
  <2>2. Beside' = Beside
    BY <1>0, <1>2, <2>1 DEF Import, Beside, Rest
  <2>3. Budget' = Budget
    BY <2>1 DEF Budget
  <2>4. bp <= Budget
    <3>1. CASE job.previous \in named
      <4>1. job.previous \in Rest /\ Beside \ {job.previous} \subseteq Rest \ {job.previous}
        BY <1>0, <3>1 DEF Rest, Beside
      <4>2. Cardinality(Rest \ {job.previous}) = Cardinality(Rest) - 1 /\ IsFiniteSet(Rest \ {job.previous})
        BY <1>t, <4>1, Finite, FS_RemoveElement
      <4>3. bp <= Cardinality(Rest) - 1 /\ Cardinality(Rest) \in Nat
        BY <1>t, <4>1, <4>2, Sizes, Finite, FS_CardinalityType
      <4> QED
        BY <1>0, <1>c, <2>1, <4>3 DEF Kept
    <3>2. CASE job.previous \notin named
      <4>1. named = {} /\ job.previous = 0
        BY <1>t, <2>1, <3>2 DEF NameInv
      <4>2. Cardinality(Rest) <= Budget /\ b <= Cardinality(Rest) /\ Cardinality(Rest) \in Nat
        BY <1>t, <1>c, <2>1, <4>1, Finite, Sizes DEF Kept
      <4> QED
        BY <1>0, <1>c, <4>1, <4>2
    <3> QED
      BY <3>1, <3>2
  <2>5. hasBind => Cardinality(Beside \ {binding}) <= Budget
    <3>1. Beside \ {binding} \subseteq Rest \ {binding} /\ IsFiniteSet(Rest \ {binding})
      BY <1>t, <1>c, Finite
    <3>2. Cardinality(Beside \ {binding}) <= Cardinality(Rest \ {binding})
          /\ Cardinality(Beside \ {binding}) \in Nat /\ Cardinality(Rest \ {binding}) \in Nat
      BY <3>1, Sizes
    <3> QED
      BY <1>0, <2>1, <3>2 DEF Kept
  <2> QED
    BY <2>1, <2>2, <2>3, <2>4, <2>5 DEF LeftInv
<1>3. ASSUME ImportFails PROVE LeftInv'
  <2>1. /\ pc = "import" /\ Kept(Budget) /\ UNCHANGED <<job, binding, hasBind>>
        /\ pc' = "undoImport" /\ faults' = faults + 1
    BY <1>3 DEF ImportFails, LeftInv, Goto, service, Fault
  <2>2. Beside' = Beside
    BY <1>0, <1>3, <2>1 DEF ImportFails, Beside, Rest, material
  <2>3. named' \ {job.cert} = named \ {job.cert}
    BY <1>3 DEF ImportFails, material
  <2>4. Cardinality(Rest) \in Nat /\ b <= Cardinality(Rest)
    BY <1>t, <1>c, Finite, Sizes
  <2>5. b <= faults'
    BY <1>0, <1>c, <2>1, <2>4 DEF Kept
  <2>6. ASSUME named \ {job.cert} = {} PROVE b + 1 <= faults'
    <3>1. CASE named = {}
      BY <1>0, <1>c, <2>1, <2>4, <3>1 DEF Kept
    <3>2. CASE named # {}
      <4>1. job.cert \in Rest
        BY <1>0, <2>6, <3>2 DEF Rest
      <4>2. b = Cardinality(Rest) - 1
        BY <1>t, <4>1, Finite, FS_RemoveElement DEF Beside
      <4> QED
        BY <1>0, <1>c, <2>1, <2>4, <4>2 DEF Kept
    <3> QED
      BY <3>1, <3>2
  <2>7. hasBind => Cardinality(Beside \ {binding}) + 1 <= faults'
    <3>1. Beside \ {binding} \subseteq Rest \ {binding} /\ IsFiniteSet(Rest \ {binding})
      BY <1>t, <1>c, Finite
    <3>2. Cardinality(Beside \ {binding}) <= Cardinality(Rest \ {binding})
          /\ Cardinality(Beside \ {binding}) \in Nat /\ Cardinality(Rest \ {binding}) \in Nat
      BY <3>1, Sizes
    <3> QED
      BY <1>0, <2>1, <3>2 DEF Kept
  <2>8. /\ Cardinality(Beside') <= faults'
        /\ named' \ {job'.cert} = {} => Cardinality(Beside') + 1 <= faults'
        /\ hasBind' => Cardinality(Beside' \ {binding'}) + 1 <= faults'
    BY <2>1, <2>2, <2>3, <2>5, <2>6, <2>7
  <2> QED
    BY <2>1, <2>8 DEF LeftInv
<1>4. ASSUME Bind \/ Reload \/ Verify \/ Rebind PROVE LeftInv'
  <2>1. /\ UNCHANGED <<store, keys, faults, stopping>>
        /\ job'.cert = job.cert /\ job'.previous = job.previous
        /\ \/ pc \in {"bind", "reload", "verify"} /\ pc' \in {"reload", "verify", "name"}
           \/ pc = "rebind" /\ pc' = "undoRemove"
    BY <1>0, <1>4 DEF Bind, Reload, Verify, Rebind, Goto, AfterBind, AfterReload, material
  <2>2. Beside' = Beside /\ Budget' = Budget
    BY <1>u, <2>1 DEF Budget
  <2> QED
    BY <2>1, <2>2 DEF LeftInv
<1>5. ASSUME BindFails PROVE LeftInv'
  <2>1. /\ UNCHANGED <<store, keys, named, job, hasBind>> /\ pc = "bind" /\ pc' = "undoBind"
        /\ Fails /\ (binding' = binding \/ (binding' = job.cert /\ ~stopping))
    BY <1>5 DEF BindFails, Goto, material, service, Repoint
  <2>2. Beside' = Beside /\ bp <= Budget /\ Cardinality(Beside \ {binding}) <= Budget
    BY <1>u, <2>1 DEF LeftInv
  <2>3. faults' \in Nat /\ Budget <= faults' /\ (~stopping => Budget + 1 <= faults')
    BY <1>0, <2>1 DEF Fails, Fault
  <2>4. named = {} => bp = b
    BY <1>c, <1>t, <2>1 DEF NameInv, Imported
  <2>5. Cardinality(Beside \ {binding'}) <= faults'
    <3>1. CASE binding' = binding
      <4>1. Cardinality(Beside \ {binding}) \in Nat
        BY <1>t, Finite, FS_CardinalityType
      <4> QED
        BY <1>0, <2>2, <2>3, <3>1, <4>1
    <3>2. CASE binding' = job.cert /\ ~stopping
      <4>1. Beside \ {binding'} = Beside
        BY <3>2 DEF Beside
      <4>2. Cardinality(Beside \ {binding'}) = b
        BY <4>1
      <4>3. b <= bp + 1 /\ bp <= Budget /\ Budget + 1 <= faults'
        BY <1>c, <2>2, <2>3, <3>2
      <4> HIDE DEF b, bp
      <4>4. b <= faults'
        BY <1>0, <1>c, <2>3, <4>3
      <4> QED
        BY <4>2, <4>4
    <3> QED
      BY <2>1, <3>1, <3>2
  <2>6. /\ Cardinality(Beside') <= faults' + 1
        /\ named' = {} => Cardinality(Beside') <= faults'
        /\ Cardinality(Beside' \ {binding'}) <= faults'
    BY <1>0, <1>c, <2>1, <2>2, <2>3, <2>4, <2>5
  <2> QED
    BY <2>1, <2>6 DEF LeftInv
<1>15. ASSUME Stall PROVE LeftInv'
  <2>1. /\ UNCHANGED <<store, keys, job>> /\ pc = "verify" /\ pc' = "stalled"
        /\ faults' = faults + 1 /\ UNCHANGED stopping
    BY <1>15 DEF Stall, Goto, Fault, material
  <2>2. Beside' = Beside /\ bp <= Budget /\ Budget' = Budget + 1
    BY <1>0, <1>u, <2>1 DEF LeftInv, Budget
  <2> QED
    BY <1>0, <1>c, <2>1, <2>2 DEF LeftInv
<1>16. ASSUME StallEnds PROVE LeftInv'
  <2>1. /\ UNCHANGED <<store, keys, named, hasBind, binding, faults>> /\ pc = "stalled"
        /\ UndoBinding \/ Goto("verify")
    BY <1>16 DEF StallEnds, material, service
  <2>2. bp + 1 <= Budget /\ (named = {} => bp = b) /\ (job.previous = 0 => named = {})
    BY <1>c, <1>t, <2>1 DEF NameInv, Imported, LeftInv
  <2>3. CASE Goto("verify")
    <3>1. pc' = "verify" /\ job' = job /\ Beside' = Beside /\ Budget' = Budget
      BY <1>u, <2>1, <2>3 DEF Goto, Budget
    <3> QED
      BY <1>0, <1>c, <2>2, <3>1 DEF LeftInv
  <2>4. CASE UndoBinding /\ ~(hasBind /\ job.previous = 0)
    <3>1. /\ job' = job /\ Beside' = Beside
          /\ \/ pc' = "undoBind" /\ ~hasBind
             \/ pc' = "rebind"
      BY <1>u, <2>1, <2>4 DEF UndoBinding, Goto
    <3>2. /\ Cardinality(Beside') <= faults' + 1
          /\ named' = {} => Cardinality(Beside') <= faults'
          /\ Cardinality(Beside' \ {job'.previous}) + 1 <= faults'
      BY <1>0, <1>c, <2>1, <2>2, <3>1
    <3> QED
      BY <2>1, <3>1, <3>2 DEF LeftInv
  <2>5. CASE UndoBinding /\ hasBind /\ job.previous = 0
    <3>1. pc' = "idle" /\ ~stopping' /\ Rest' = Rest
      BY <1>u, <2>1, <2>5 DEF UndoBinding, Return
    <3>2. /\ Cardinality(Rest) <= b + 1 /\ Cardinality(Rest) \in Nat
          /\ Cardinality(Rest \ {binding'}) \in Nat
          /\ Cardinality(Rest \ {binding'}) <= Cardinality(Rest)
      BY <1>t, <1>c, Counts
    <3>3. Cardinality(Rest) <= faults'
      BY <1>0, <1>c, <2>1, <2>2, <2>5, <3>2
    <3> QED
      BY <1>0, <1>k, <2>1, <3>1, <3>2, <3>3
  <2> QED
    BY <2>1, <2>3, <2>4, <2>5
<1>6. ASSUME ReloadFails \/ VerifyFails PROVE LeftInv'
  <2>1. /\ UNCHANGED <<store, keys, named, hasBind>> /\ pc \in {"reload", "verify"} /\ UndoBinding
        /\ (Fails \/ UNCHANGED faults)
    BY <1>6 DEF ReloadFails, VerifyFails, material
  <2>2. Beside' = Beside \/ job' # job
    BY <1>u, <2>1
  <2>3. bp <= Budget /\ (named = {} => bp = b) /\ (job.previous = 0 => named = {})
    BY <1>c, <1>t, <2>1 DEF NameInv, Imported, LeftInv
  <2>4. faults' \in Nat /\ Budget <= faults'
    BY <1>0, <2>1 DEF Fails, Fault
  <2>5. CASE ~hasBind
    <3>1. pc' = "undoBind" /\ job' = job /\ Beside' = Beside
      BY <1>u, <2>1, <2>5 DEF UndoBinding, Goto
    <3>2. /\ Cardinality(Beside') <= faults' + 1
          /\ named' = {} => Cardinality(Beside') <= faults'
      BY <1>0, <1>c, <2>1, <2>3, <2>4, <3>1
    <3> QED
      BY <2>1, <2>5, <3>1, <3>2 DEF LeftInv
  <2>6. CASE hasBind
    <3>1. Fails /\ binding = job.cert
      BY <1>6, <1>t, <2>6 DEF ReloadFails, VerifyFails, BindInv, BoundInv
    <3>2. Budget + 1 <= faults'
      BY <1>0, <3>1 DEF Fails, Fault
    <3>3. CASE job.previous # 0
      <4>1. pc' = "rebind" /\ job' = job /\ Beside' = Beside
        BY <1>u, <2>1, <2>6, <3>3 DEF UndoBinding, Goto
      <4>2. Cardinality(Beside' \ {job'.previous}) + 1 <= faults'
        BY <1>0, <1>c, <2>3, <2>4, <3>2, <4>1
      <4> QED
        BY <4>1, <4>2 DEF LeftInv
    <3>4. CASE job.previous = 0
      <4>1. pc' = "idle" /\ ~stopping' /\ Rest' = Rest
        BY <1>u, <2>1, <2>6, <3>4 DEF UndoBinding, Return
      <4>2. /\ Cardinality(Rest) <= b + 1 /\ Cardinality(Rest) \in Nat
            /\ Cardinality(Rest \ {binding'}) \in Nat
            /\ Cardinality(Rest \ {binding'}) <= Cardinality(Rest)
        BY <1>t, <1>c, Counts
      <4>3. Cardinality(Rest) <= faults'
        BY <1>0, <1>c, <2>3, <2>4, <3>2, <3>4, <4>2
      <4> QED
        BY <1>k, <2>4, <4>1, <4>2, <4>3
    <3> QED
      BY <3>3, <3>4
  <2> QED
    BY <2>5, <2>6
<1>7. ASSUME Name \/ NameFails PROVE LeftInv'
  <2>1. /\ UNCHANGED <<store, keys, job>> /\ pc = "name" /\ pc' = "tidy" /\ faults' \in Nat
        /\ faults <= faults' /\ (job.cert \notin named' => faults' = faults + 1)
    BY <1>0, <1>t, <1>7 DEF Name, NameFails, Goto, material, Fault, NameInv
  <2>2. Beside' = Beside /\ bp <= Budget
    BY <1>u, <2>1 DEF LeftInv
  <2>3. /\ Cardinality(Beside' \ {job'.previous}) <= faults'
        /\ job'.cert \notin named' => Cardinality(Beside' \ {job'.previous}) + 1 <= faults'
    BY <1>0, <1>c, <2>1, <2>2
  <2> QED
    BY <2>1, <2>3 DEF LeftInv
<1>8. ASSUME Tidy PROVE LeftInv'
  <2>1. /\ pc = "tidy" /\ pc' = "idle" /\ ~stopping' /\ UNCHANGED <<hasBind, binding, faults>>
        /\ bp <= faults /\ (job.cert \notin named => bp + 1 <= faults)
        /\ job.previous \in named \cup {0, job.cert} /\ (hasBind => binding = job.cert)
    BY <1>8, <1>t DEF Tidy, Return, LeftInv, NameInv, BindInv, BoundInv, service
  <2>2. Rest' \subseteq (Beside \ {job.previous}) \cup {job.cert} /\ (named' = {} => job.cert \notin named)
    <3>1. CASE job.previous \in {0, job.cert}
      <4>1. Rest' = Rest /\ named' = named
        BY <1>8, <3>1 DEF Tidy, Rest, material
      <4>2. 0 \notin Rest
        BY <1>t DEF Rest, TypeInv, TypeOK, Issued
      <4>3. Beside \ {job.previous} = Beside
        BY <3>1, <4>2 DEF Beside
      <4> QED
        BY <1>c, <1>0, <4>1, <4>3
    <3>2. CASE job.previous \notin {0, job.cert}
      BY <1>0, <1>8, <2>1, <3>2 DEF Tidy, RemoveFromStore, Rest, Beside
    <3> QED
      BY <3>1, <3>2
  <2>3. IsFiniteSet(Beside \ {job.previous}) /\ Rest' \ {binding'} \subseteq Rest'
        /\ (hasBind => Rest' \ {binding'} \subseteq Beside \ {job.previous})
        /\ Rest' \ {binding'} \subseteq (Beside \ {job.previous}) \cup {job.cert}
    BY <1>t, <2>1, <2>2, Finite
  <2>4. /\ Cardinality(Rest') \in Nat /\ Cardinality(Rest' \ {binding'}) \in Nat
        /\ Cardinality(Rest') <= bp + 1 /\ (hasBind => Cardinality(Rest' \ {binding'}) <= bp)
    BY <2>2, <2>3, Sizes
  <2> HIDE DEF bp
  <2>5. /\ Cardinality(Rest') <= faults + 1 /\ (named' = {} => Cardinality(Rest') <= faults)
        /\ (hasBind' => Cardinality(Rest' \ {binding'}) <= faults)
    BY <1>0, <1>c, <2>1, <2>2, <2>4
  <2> QED
    BY <1>0, <1>k, <2>1, <2>4, <2>5
<1>9. ASSUME RebindFails PROVE LeftInv'
  <2>1. /\ pc = "rebind" /\ pc' = "idle" /\ ~stopping' /\ UNCHANGED <<store, keys, named, hasBind>>
        /\ bp + 1 <= faults /\ faults' \in Nat /\ faults <= faults'
        /\ job.previous \in named \cup {0, job.cert} /\ (hasBind => binding = job.cert)
        /\ binding' \in {binding, job.previous}
    BY <1>0, <1>9, <1>t DEF RebindFails, Fails, Fault, Return, LeftInv, NameInv, Imported, BindInv,
         BoundInv, material, service, Repoint
  <2>2. /\ Cardinality(Rest) \in Nat /\ Cardinality(Rest) <= b + 1
        /\ Cardinality(Rest \ {binding'}) \in Nat
        /\ (binding' = job.cert => Cardinality(Rest \ {binding'}) <= b)
        /\ Cardinality(Rest \ {binding'}) <= Cardinality(Beside \ {binding'}) + 1
    BY <1>t, <1>c, Counts
  <2>3. /\ Rest' = Rest /\ (named = {} => bp = b)
    BY <1>c, <1>u, <2>1
  <2>4. hasBind => Cardinality(Rest \ {binding'}) <= faults
    <3>1. CASE binding' = job.previous
      <4>1. Cardinality(Beside \ {binding'}) = bp
        BY <3>1
      <4> HIDE DEF bp, b
      <4> QED
        BY <1>0, <1>c, <2>1, <2>2, <4>1
    <3>2. CASE hasBind /\ binding' = job.cert
      <4> HIDE DEF bp, b
      <4> QED
        BY <1>0, <1>c, <2>1, <2>2, <3>2
    <3> QED
      BY <2>1, <3>1, <3>2
  <2> HIDE DEF bp, b
  <2>5. /\ Cardinality(Rest) <= faults + 1 /\ (named = {} => Cardinality(Rest) <= faults)
    BY <1>0, <1>c, <2>1, <2>2, <2>3
  <2> QED
    BY <1>0, <1>k, <2>1, <2>2, <2>3, <2>4, <2>5
<1>10. ASSUME UndoRemove \/ UndoRemoveFails PROVE LeftInv'
  <2>1. /\ pc = "undoRemove" /\ AfterUndo /\ UNCHANGED <<hasBind, binding>>
        /\ bp + 1 <= faults /\ job.cert \in store
    BY <1>10, <1>t DEF UndoRemove, UndoRemoveFails, LeftInv, NameInv, Imported, service
  <2>2. /\ faults' \in Nat /\ Rest' \subseteq Beside \cup {job.cert}
        /\ \/ faults' = faults /\ Rest' \subseteq Beside
           \/ faults' = faults + 1
    <3>1. CASE UndoRemove
      BY <1>0, <2>1, <3>1 DEF UndoRemove, RemoveFromStore, Rest, Beside
    <3>2. CASE UndoRemoveFails
      BY <1>0, <2>1, <3>2 DEF UndoRemoveFails, RemoveStops, Fault, material, Rest, Beside
    <3> QED
      BY <1>10, <3>1, <3>2
  <2>3. /\ Cardinality(Rest') \in Nat /\ Cardinality(Rest' \ {binding'}) \in Nat
        /\ Cardinality(Rest' \ {binding'}) <= Cardinality(Rest')
        /\ Cardinality(Rest') <= b + 1 /\ (Rest' \subseteq Beside => Cardinality(Rest') <= b)
    BY <1>t, <2>2, Counts
  <2>4. Cardinality(Rest') <= faults'
    BY <1>0, <1>c, <2>1, <2>2, <2>3
  <2>5. CASE job.reloaded
    <3>1. pc' = "reloadAgain"
      BY <2>1, <2>5 DEF AfterUndo, Goto
    <3> QED
      BY <2>4, <3>1 DEF LeftInv
  <2>6. CASE ~job.reloaded
    <3>1. pc' = "idle" /\ ~stopping'
      BY <2>1, <2>6 DEF AfterUndo, Return
    <3>2. /\ Cardinality(Rest') <= faults' + 1 /\ Cardinality(Rest' \ {binding'}) <= faults'
      BY <2>2, <2>3, <2>4
    <3> QED
      BY <1>k, <2>2, <2>3, <2>4, <3>1, <3>2
  <2> QED
    BY <2>5, <2>6
<1>11. ASSUME ReloadAgain \/ ReloadAgainFails PROVE LeftInv'
  <2>1. /\ pc' = "idle" /\ ~stopping' /\ UNCHANGED <<store, keys>> /\ binding' = binding
        /\ faults' \in Nat /\ faults <= faults' /\ Cardinality(Rest) <= faults
    BY <1>0, <1>11 DEF ReloadAgain, ReloadAgainFails, Fails, Fault, Return, LeftInv, material
  <2>2. /\ Cardinality(Rest) \in Nat /\ Cardinality(Rest \ {binding}) \in Nat
        /\ Cardinality(Rest \ {binding}) <= Cardinality(Rest)
    BY <1>t, <1>c, Counts
  <2>3. Rest' = Rest
    BY <1>u, <2>1
  <2>4. /\ Cardinality(Rest) <= faults + 1 /\ Cardinality(Rest \ {binding}) <= faults
    BY <1>0, <2>1, <2>2
  <2> QED
    BY <1>0, <1>k, <2>1, <2>2, <2>3, <2>4
<1>12. ASSUME RemoveImported PROVE LeftInv'
  <2>1. /\ pc' = "idle" /\ ~stopping' /\ UNCHANGED <<hasBind, binding, faults>> /\ named' = named \ {job.cert}
        /\ pc \in {"undoImport", "undoBind"} /\ Rest' \subseteq Beside \cup {job.cert}
    BY <1>12 DEF RemoveImported, RemoveFromStore, Return, service, Rest, Beside
  <2>2. /\ Cardinality(Rest') \in Nat /\ Cardinality(Rest' \ {binding}) \in Nat
        /\ Cardinality(Rest') <= b + 1
        /\ Cardinality(Rest' \ {binding}) <= Cardinality(Beside \ {binding}) + 1
        /\ Cardinality(Beside \ {binding}) \in Nat
        /\ (Rest' \subseteq Beside => /\ Cardinality(Rest') <= b
                                    /\ Cardinality(Rest' \ {binding}) <= Cardinality(Beside \ {binding}))
    BY <1>t, <2>1, Counts
  <2>3. /\ Cardinality(Rest') <= faults + 1 /\ (named' = {} => Cardinality(Rest') <= faults)
        /\ (hasBind => Cardinality(Rest' \ {binding}) <= faults)
    <3>1. CASE pc = "undoImport"
      BY <1>0, <1>c, <2>1, <2>2, <3>1 DEF LeftInv
    <3>2. CASE pc = "undoBind"
      <4>1. job.cert \in store /\ job.cert \notin named
        BY <1>t, <3>2 DEF NameInv, Imported
      <4>2. Rest' \subseteq Beside /\ named' = named
        BY <1>12, <2>1, <4>1 DEF RemoveImported, RemoveFromStore, Rest, Beside
      <4> QED
        BY <1>0, <1>c, <2>1, <2>2, <3>2, <4>2 DEF LeftInv
    <3> QED
      BY <2>1, <3>1, <3>2
  <2> QED
    BY <1>0, <1>k, <2>1, <2>2, <2>3
<1>13. ASSUME PickUp PROVE LeftInv'
  <2>1. /\ ~hasBind /\ UNCHANGED <<hasBind, store, keys, named, faults, pc, job, stopping>>
    BY <1>13 DEF PickUp, material
  <2>2. Rest' = Rest /\ Beside' = Beside /\ Budget' = Budget /\ pc # "bind"
    BY <1>t, <1>u, <2>1 DEF Budget, TypeInv, WorkInv
  <2> QED
    BY <2>1, <2>2 DEF LeftInv, Kept
<1>14. ASSUME Step PROVE LeftInv'
  BY <1>14, <1>m, <1>f, <1>1, <1>2, <1>3, <1>4, <1>5, <1>6, <1>7, <1>8, <1>9, <1>10, <1>11, <1>12,
     <1>15 DEF Step
<1> QED
  BY <1>m, <1>f, <1>13, <1>14, <1>16 DEF Next

LEMMA LeftInit == ASSUME Init PROVE LeftInv
<1>1. Rest = {} /\ Rest \ {binding} = {} /\ Budget = 0
  BY DEF Init, Rest, Budget
<1>2. Cardinality({}) = 0
  BY FS_EmptySet
<1> QED
  BY <1>1, <1>2 DEF Init, LeftInv, Kept

\* settle and rollbackStore: between installations, whatever is in the store
\* beside the administrator's certificate and the one in use, and every key
\* without its certificate, is paid for by a failure of its own.
THEOREM LeftIsPaidFor == Spec => []LeftBehindPerFailure
<1>1. Init => NamesInv /\ LeftInv
  BY NamesInit, LeftInit
<1>2. NamesInv /\ LeftInv /\ [Next]_vars => (NamesInv /\ LeftInv)'
  BY NamesStep, LeftStep
<1>3. NamesInv /\ LeftInv => LeftBehindPerFailure
  <2> SUFFICES ASSUME NamesInv, LeftInv, pc = "idle"
               PROVE  \E used \in IF hasBind THEN {binding} ELSE Cert :
                         Cardinality((store \cup keys) \ {1, used}) <= faults
    BY DEF LeftBehindPerFailure
  <2>1. TypeInv /\ Kept(faults) /\ faults \in Nat /\ IsFiniteSet(Rest) /\ Cardinality(Rest) \in Nat
        /\ Rest \subseteq Cert /\ 0 \in Cert
    <3>1. TypeInv
      BY DEF NamesInv
    <3>2. Budget = faults
      BY <3>1 DEF TypeInv, WorkInv, Budget
    <3> QED
      BY <3>1, <3>2, Finite, Numbers, FS_CardinalityType DEF LeftInv, Rest, TypeInv, TypeOK
  <2>2. \A used : (store \cup keys) \ {1, used} = Rest \ {used}
    BY DEF Rest
  <2>3. CASE hasBind
    BY <2>1, <2>2, <2>3 DEF Kept
  <2>4. CASE ~hasBind /\ Rest = {}
    <3>1. (store \cup keys) \ {1, 0} = {}
      BY <2>2, <2>4
    <3>2. Cardinality((store \cup keys) \ {1, 0}) <= faults
      BY <2>1, <3>1, FS_EmptySet
    <3> QED
      BY <2>1, <2>4, <3>2
  <2>5. CASE ~hasBind /\ Rest # {}
    <3>1. PICK used \in Rest : TRUE
      BY <2>5
    <3>2. Cardinality(Rest \ {used}) = Cardinality(Rest) - 1
      BY <2>1, <3>1, FS_RemoveElement
    <3>3. Cardinality(Rest \ {used}) <= faults
      BY <2>1, <3>2 DEF Kept
    <3> QED
      BY <2>1, <2>2, <2>5, <3>1, <3>3
  <2> QED
    BY <2>3, <2>4, <2>5
<1> QED
  BY <1>1, <1>2, <1>3, PTL DEF Spec
=============================================================================
