----------------------------- MODULE FileInstall -----------------------------
(***************************************************************************)
(* One file destination of the agent's installer: the path of a cycle from *)
(* Installer.applyOne through write, confirm and rollback (install.go,     *)
(* installfs.go).  Installers are processes: the daemon's cycle, and       *)
(* `certpilot-agent install` run by a person beside it; nothing in the     *)
(* code keeps two of them apart.                                           *)
(*                                                                         *)
(* A release is one issuance: the certificate, key and chain that belong   *)
(* together.  Release 0 stands for "no file"; release 1 is what an         *)
(* administrator had put there before the agent; the agent's own           *)
(* issuances follow.  A file is the release its bytes come from, its mode  *)
(* and its owner.                                                          *)
(*                                                                         *)
(* A definition that stands before another one and has its name and more   *)
(* is that one with a plausible mistake in it, for seeing that a property  *)
(* notices.  Nothing in the specification uses it.                         *)
(***************************************************************************)
EXTENDS Naturals

CONSTANTS
    Proc,          \* the installers that may run on this host
    NFiles,        \* files of the destination, written in the order 1..NFiles
    MaxRelease,    \* bound on issuances
    MaxFaults,     \* bound on failing calls, stops, crashes and foreign edits
    Deterministic, \* FALSE for PKCS12: every encoding of a release differs
    HasCheck,      \* the destination declares a check
    HasReload,     \* the destination declares a reload
    CanCrash,      \* the host or the process may die between two steps
    CanEdit        \* other programs may edit the files

ASSUME FileInstallAssumption ==
    /\ NFiles \in Nat \ {0}
    /\ MaxRelease \in Nat \ {0}
    /\ MaxFaults \in Nat
    /\ {Deterministic, HasCheck, HasReload, CanCrash, CanEdit} \subseteq BOOLEAN

VARIABLES
    held,      \* the release in the state directory, 0 when none is held
    disk,      \* the destination's files
    serving,   \* per file, the release the server loaded last
    vetted,    \* releases the server's configuration check has accepted
    intact,    \* history: no crash after a write, failed restore or foreign edit
    faults,    \* how much of MaxFaults has been used
    pc,        \* where each installer is in applyOne
    job,       \* what it is doing: the release it read and whether it is forced
    at,        \* the file its current loop is at
    prev,      \* captured contents: targetFile.previous, prevMode, existed
    before,    \* history: the files as they were when capturing began
    written,   \* files whose targetFile.written is set
    stopping,  \* its context is cancelled: SIGTERM was received
    report     \* the agentapi.Installation it returned last, none while it works

shared == <<held, disk, serving, vetted, intact>>
locals == <<job, at, prev, before, written>>
vars   == <<held, disk, serving, vetted, intact, faults, pc, job, at, prev,
            before, written, stopping, report>>

File    == 1..NFiles
Release == 0..MaxRelease
FileState == [bytes : Release, mode : {"declared", "drifted", "none"},
              owner : {"agent", "admin", "none"}]

NoFile  == [bytes |-> 0, mode |-> "none", owner |-> "none"]
Legacy  == [bytes |-> 1, mode |-> "declared", owner |-> "admin"]

\* What writeAtomic leaves at a path: the owner is the declared one or, where
\* none is declared, the account the agent runs as; never the previous owner.
Written(r, m) == [bytes |-> r, mode |-> m, owner |-> "agent"]

NoJob     == [release |-> 0, forced |-> FALSE]
NoCapture == [f \in File |-> NoFile]
NoReport  == [status |-> "none", release |-> 0, rolledBack |-> FALSE]

Busy == {"compare", "capture", "write", "check", "reload",
         "undoWrite", "undoCheck", "undoReload", "reloadAgain"}

\* An installer inside one of the three uses of rendered.restore.
Undoing == {"undoWrite", "undoCheck", "undoReload"}

Init ==
    /\ held = 0
    /\ disk \in {[f \in File |-> NoFile], [f \in File |-> Legacy]}
    /\ serving = [f \in File |-> disk[f].bytes]
    /\ vetted = {serving[1]}
    /\ intact = TRUE
    /\ faults = 0
    /\ pc = [p \in Proc |-> "idle"]
    /\ job = [p \in Proc |-> NoJob]
    /\ at = [p \in Proc |-> 0]
    /\ prev = [p \in Proc |-> NoCapture]
    /\ before = [p \in Proc |-> NoCapture]
    /\ written = [p \in Proc |-> {}]
    /\ stopping = [p \in Proc |-> FALSE]
    /\ report = [p \in Proc |-> NoReport]

-----------------------------------------------------------------------------
(* Steps shared by several actions.                                        *)

Fault == /\ faults < MaxFaults
         /\ faults' = faults + 1

Goto(p, label, index) ==
    /\ pc' = [pc EXCEPT ![p] = label]
    /\ at' = [at EXCEPT ![p] = index]

\* The installer returns its Installation; the targetFile values go with it.
\* A process told to stop exits here and the service manager starts a new one.
Return(p, status, rolledBack) ==
    /\ pc' = [pc EXCEPT ![p] = "idle"]
    /\ report' = [report EXCEPT ![p] = [status |-> status,
                    release |-> job[p].release, rolledBack |-> rolledBack]]
    /\ job' = [job EXCEPT ![p] = NoJob]
    /\ at' = [at EXCEPT ![p] = 0]
    /\ prev' = [prev EXCEPT ![p] = NoCapture]
    /\ before' = [before EXCEPT ![p] = NoCapture]
    /\ written' = [written EXCEPT ![p] = {}]
    /\ stopping' = [stopping EXCEPT ![p] = FALSE]

\* runCommand fails: it is not started once the context is gone, it exits
\* with an error or times out, or it is killed by the cancellation.
CommandFails(p) ==
    \/ /\ stopping[p]
       /\ UNCHANGED <<faults, stopping>>
    \/ /\ ~stopping[p]
       /\ Fault
       /\ stopping' \in {stopping, [stopping EXCEPT ![p] = TRUE]}

\* Encoding a release gives the bytes of the file that holds it.  Two encodings
\* of one PKCS12 keystore never have the same bytes: its salts are random.
SameBytes(f, r) == Deterministic /\ disk[f].bytes = r

\* rendered.matches, of the destination's files one by one.
MatchesFirstFile(r) == SameBytes(1, r)
Matches(r) == \A f \in File : SameBytes(f, r)

Loaded == [f \in File |-> disk[f].bytes]

AfterCheck == IF HasReload THEN "reload" ELSE "idle"
AfterWriteReload == AfterCheck
AfterWrite == IF HasCheck THEN "check" ELSE AfterCheck

-----------------------------------------------------------------------------
(* An installation.                                                        *)

\* findHeld returns nil: nothing was granted to this host for the name.
Unfulfilled(p) ==
    /\ pc[p] = "idle" /\ held = 0
    /\ report[p].status # "unfulfilled"
    /\ report' = [report EXCEPT ![p] = [NoReport EXCEPT !.status = "unfulfilled"]]
    /\ UNCHANGED <<shared, locals, faults, pc, stopping>>

\* findHeld and readMaterial.
Begin(p, forced) ==
    /\ pc[p] = "idle" /\ held # 0
    /\ job' = [job EXCEPT ![p] = [release |-> held, forced |-> forced]]
    /\ report' = [report EXCEPT ![p] = NoReport]
    /\ Goto(p, "compare", 0)
    /\ UNCHANGED <<shared, faults, prev, before, written, stopping>>

\* The material, its rendering, the owner, or a file already there could not
\* be read: nothing has been written.
Refuse(p) ==
    /\ pc[p] \in {"compare", "capture"}
    /\ Fault
    /\ Return(p, "failed", FALSE)
    /\ UNCHANGED shared

\* write's early return: the bytes match, so only mode and owner are enforced.
Unchanged(p) ==
    /\ pc[p] = "compare" /\ ~job[p].forced /\ Matches(job[p].release)
    /\ disk' = [f \in File |-> Written(disk[f].bytes, "declared")]
    /\ Return(p, "installed", FALSE)
    /\ UNCHANGED <<held, serving, vetted, intact, faults>>

\* enforce stops at the first file whose mode or owner it cannot set.
EnforceFails(p) ==
    /\ pc[p] = "compare" /\ ~job[p].forced /\ Matches(job[p].release)
    /\ Fault
    /\ \E n \in File :
         disk' = [f \in File |-> IF f < n THEN Written(disk[f].bytes, "declared")
                                          ELSE disk[f]]
    /\ Return(p, "failed", FALSE)
    /\ UNCHANGED <<held, serving, vetted, intact>>

\* The bytes differ or the installation is forced.
Differ(p) ==
    /\ pc[p] = "compare" /\ (job[p].forced \/ ~Matches(job[p].release))
    /\ before' = [before EXCEPT ![p] = disk]
    /\ Goto(p, "capture", 1)
    /\ UNCHANGED <<shared, faults, job, prev, written, stopping, report>>

\* targetFile.capture, for the file the loop is at.
CaptureOffByOne(p) ==
    /\ pc[p] = "capture"
    /\ prev' = [prev EXCEPT ![p][at[p]] = disk[at[p]]]
    /\ IF at[p] <= NFiles THEN Goto(p, "capture", at[p] + 1)
                          ELSE Goto(p, "write", 1)
    /\ UNCHANGED <<shared, faults, job, before, written, stopping, report>>

CaptureIntoCopy(p) ==
    /\ pc[p] = "capture"
    /\ IF at[p] < NFiles THEN Goto(p, "capture", at[p] + 1)
                         ELSE Goto(p, "write", 1)
    /\ UNCHANGED <<shared, faults, job, prev, before, written, stopping, report>>

Capture(p) ==
    /\ pc[p] = "capture"
    /\ prev' = [prev EXCEPT ![p][at[p]] = disk[at[p]]]
    /\ IF at[p] < NFiles THEN Goto(p, "capture", at[p] + 1)
                         ELSE Goto(p, "write", 1)
    /\ UNCHANGED <<shared, faults, job, before, written, stopping, report>>

\* writeAtomic renames the new file over the old one.  The last file of a
\* destination with neither check nor reload completes the installation.
WriteFile(p) ==
    /\ pc[p] = "write"
    /\ disk' = [disk EXCEPT ![at[p]] = Written(job[p].release, "declared")]
    /\ \/ /\ at[p] < NFiles
          /\ written' = [written EXCEPT ![p] = @ \cup {at[p]}]
          /\ Goto(p, "write", at[p] + 1)
          /\ UNCHANGED <<job, prev, before, stopping, report>>
       \/ /\ at[p] = NFiles /\ AfterWrite # "idle"
          /\ written' = [written EXCEPT ![p] = @ \cup {at[p]}]
          /\ Goto(p, AfterWrite, 0)
          /\ UNCHANGED <<job, prev, before, stopping, report>>
       \/ /\ at[p] = NFiles /\ AfterWrite = "idle"
          /\ Return(p, "installed", FALSE)
    /\ UNCHANGED <<held, serving, vetted, intact, faults>>

\* writeAtomic returns an error; the target is as it was.
WriteFailsNoUndo(p) ==
    /\ pc[p] = "write"
    /\ Fault
    /\ Return(p, "failed", FALSE)
    /\ UNCHANGED shared

WriteFails(p) ==
    /\ pc[p] = "write"
    /\ Fault
    /\ Goto(p, "undoWrite", NFiles)
    /\ UNCHANGED <<shared, job, prev, before, written, stopping, report>>

\* The check reads the files as they are and accepts them.
CheckPasses(p) ==
    /\ pc[p] = "check" /\ ~stopping[p]
    /\ vetted' = vetted \cup {disk[f].bytes : f \in File}
    /\ \/ /\ HasReload
          /\ Goto(p, "reload", 0)
          /\ UNCHANGED <<job, prev, before, written, stopping, report>>
       \/ /\ ~HasReload
          /\ Return(p, "installed", FALSE)
    /\ UNCHANGED <<held, disk, serving, intact, faults>>

CheckFailsNoUndo(p) ==
    /\ pc[p] = "check"
    /\ Fault
    /\ Return(p, "failed", FALSE)
    /\ UNCHANGED shared

CheckFails(p) ==
    /\ pc[p] = "check"
    /\ CommandFails(p)
    /\ Goto(p, "undoCheck", NFiles)
    /\ UNCHANGED <<shared, job, prev, before, written, report>>

ReloadSucceeds(p) ==
    /\ pc[p] = "reload" /\ ~stopping[p]
    /\ serving' = Loaded
    /\ Return(p, "installed", FALSE)
    /\ UNCHANGED <<held, disk, vetted, intact, faults>>

\* A reload that fails, times out or is killed may have taken effect.
ReloadFailsIgnored(p) ==
    /\ pc[p] = "reload"
    /\ Fault
    /\ Return(p, "installed", FALSE)
    /\ UNCHANGED shared

ReloadFails(p) ==
    /\ pc[p] = "reload"
    /\ CommandFails(p)
    /\ serving' \in IF stopping[p] THEN {serving} ELSE {serving, Loaded}
    /\ Goto(p, "undoReload", NFiles)
    /\ UNCHANGED <<held, disk, vetted, intact, job, prev, before, written, report>>

\* rendered.restore for the file its loop, which runs backwards, is at: the
\* captured bytes and mode come back, or the file is removed again.
RestoreFileNotFirst(p) ==
    /\ pc[p] \in Undoing /\ at[p] > 0
    /\ IF at[p] \in written[p] \ {1}
       THEN disk' = [disk EXCEPT ![at[p]] =
                       IF prev[p][at[p]] = NoFile THEN NoFile
                       ELSE Written(prev[p][at[p]].bytes, prev[p][at[p]].mode)]
       ELSE UNCHANGED disk
    /\ written' = [written EXCEPT ![p] = @ \ {at[p]}]
    /\ Goto(p, pc[p], at[p] - 1)
    /\ UNCHANGED <<held, serving, vetted, intact, faults, job, prev, before, stopping, report>>

RestoreFile(p) ==
    /\ pc[p] \in Undoing /\ at[p] > 0
    /\ IF at[p] \in written[p]
       THEN disk' = [disk EXCEPT ![at[p]] =
                       IF prev[p][at[p]] = NoFile THEN NoFile
                       ELSE Written(prev[p][at[p]].bytes, prev[p][at[p]].mode)]
       ELSE UNCHANGED disk
    /\ written' = [written EXCEPT ![p] = @ \ {at[p]}]
    /\ Goto(p, pc[p], at[p] - 1)
    /\ UNCHANGED <<held, serving, vetted, intact, faults, job, prev, before, stopping, report>>

\* A file could not be put back; the loop goes on with the others.
RestoreFails(p) ==
    /\ pc[p] \in Undoing /\ at[p] \in written[p]
    /\ Fault
    /\ intact' = FALSE
    /\ Goto(p, pc[p], at[p] - 1)
    /\ UNCHANGED <<held, disk, serving, vetted, job, prev, before, written, stopping, report>>

\* The end of restore.  write ignores what restore returned; rollback reports
\* it, and reloads onto the restored files if the server had been reloaded.
Restored(p) ==
    /\ pc[p] \in Undoing /\ at[p] = 0
    /\ \/ /\ pc[p] = "undoWrite" \/ written[p] # {}
          /\ Return(p, "failed", FALSE)
       \/ /\ pc[p] = "undoCheck" /\ written[p] = {}
          /\ Return(p, "failed", TRUE)
       \/ /\ pc[p] = "undoReload" /\ written[p] = {}
          /\ Goto(p, "reloadAgain", 0)
          /\ UNCHANGED <<job, prev, before, written, stopping, report>>
    /\ UNCHANGED <<shared, faults>>

ReloadAgain(p) ==
    /\ pc[p] = "reloadAgain" /\ ~stopping[p]
    /\ serving' = Loaded
    /\ Return(p, "failed", TRUE)
    /\ UNCHANGED <<held, disk, vetted, intact, faults>>

ReloadAgainFails(p) ==
    /\ pc[p] = "reloadAgain"
    /\ \/ stopping[p] /\ UNCHANGED <<serving, faults>>
       \/ ~stopping[p] /\ Fault /\ serving' \in {serving, Loaded}
    /\ Return(p, "failed", TRUE)
    /\ UNCHANGED <<held, disk, vetted, intact>>

-----------------------------------------------------------------------------
(* What happens around it.                                                 *)

\* SIGTERM: the context of a running cycle is cancelled.
Stop(p) ==
    /\ pc[p] \in Busy /\ ~stopping[p]
    /\ Fault
    /\ stopping' = [stopping EXCEPT ![p] = TRUE]
    /\ UNCHANGED <<shared, locals, pc, report>>

\* SIGKILL or loss of power: what was captured was only in memory.
Crash(p) ==
    /\ CanCrash /\ pc[p] \in Busy
    /\ Fault
    /\ intact' = (intact /\ written[p] = {})
    /\ pc' = [pc EXCEPT ![p] = "idle"]
    /\ job' = [job EXCEPT ![p] = NoJob]
    /\ at' = [at EXCEPT ![p] = 0]
    /\ prev' = [prev EXCEPT ![p] = NoCapture]
    /\ before' = [before EXCEPT ![p] = NoCapture]
    /\ written' = [written EXCEPT ![p] = {}]
    /\ stopping' = [stopping EXCEPT ![p] = FALSE]
    /\ UNCHANGED <<held, disk, serving, vetted, report>>

\* The issuance half of the agent obtains the next certificate.
Issue ==
    /\ held < MaxRelease
    /\ held' = IF held = 0 THEN 2 ELSE held + 1
    /\ held' \in Release
    /\ UNCHANGED <<disk, serving, vetted, intact, faults, pc, locals, stopping, report>>

\* Configuration management, a restored backup, a chmod in an incident.
Edit(f) ==
    /\ CanEdit
    /\ Fault
    /\ disk' \in {[disk EXCEPT ![f] = Legacy],
                  [disk EXCEPT ![f] = NoFile],
                  [disk EXCEPT ![f] = IF @ = NoFile THEN @
                                      ELSE [@ EXCEPT !.mode = "drifted"]]}
    /\ intact' = FALSE
    /\ UNCHANGED <<held, serving, vetted, pc, locals, stopping, report>>

\* One installer's own steps, a failure of the calls it makes included.
Step(p) ==
    \/ Unfulfilled(p) \/ Begin(p, FALSE) \/ Refuse(p)
    \/ Unchanged(p) \/ EnforceFails(p) \/ Differ(p) \/ Capture(p)
    \/ WriteFile(p) \/ WriteFails(p)
    \/ CheckPasses(p) \/ CheckFails(p)
    \/ ReloadSucceeds(p) \/ ReloadFails(p)
    \/ RestoreFile(p) \/ RestoreFails(p) \/ Restored(p)
    \/ ReloadAgain(p) \/ ReloadAgainFails(p)

Next ==
    \/ \E p \in Proc : Step(p) \/ Begin(p, TRUE) \/ Stop(p) \/ Crash(p)
    \/ Issue
    \/ \E f \in File : Edit(f)

Spec == Init /\ [][Next]_vars

\* The cycle is driven by a ticker and every call it makes returns: each
\* command is killed at commandTimeout.
FairSpec == Spec /\ \A p \in Proc : WF_vars(Step(p))

-----------------------------------------------------------------------------
(* Properties.                                                             *)

TypeOK ==
    /\ held \in Release
    /\ disk \in [File -> FileState]
    /\ serving \in [File -> Release]
    /\ vetted \subseteq Release
    /\ intact \in BOOLEAN
    /\ faults \in 0..MaxFaults
    /\ pc \in [Proc -> {"idle"} \cup Busy]
    /\ job \in [Proc -> [release : Release, forced : BOOLEAN]]
    /\ at \in [Proc -> 0..NFiles]
    /\ prev \in [Proc -> [File -> FileState]]
    /\ before \in [Proc -> [File -> FileState]]
    /\ written \in [Proc -> SUBSET File]
    /\ stopping \in [Proc -> BOOLEAN]
    /\ report \in [Proc -> [status : {"none", "unfulfilled", "failed", "installed"},
                            release : Release, rolledBack : BOOLEAN]]

OneInstaller == Proc # {} /\ \A p, q \in Proc : p = q

Resting == \A p \in Proc : pc[p] = "idle"

Whole(bytes) == \A f, g \in File : bytes[f] = bytes[g]

\* write: "a failure halfway through cannot leave a certificate from one
\* issuance beside a key from another".  Between installations every file is
\* of one release, whatever failed and whenever SIGTERM came.
WholeAtRest == Resting /\ intact => Whole(Loaded)

\* confirm: the server is asked whether it can live with the material before
\* it is told to load it, so it only ever runs on one issuance, and on one its
\* check accepted or that it was running on already.
ServedWasVetted ==
    intact => Whole(serving) /\ (HasCheck => \A f \in File : serving[f] \in vetted)

\* Status INSTALLED is what the core shows and what closes a deployment job:
\* an installation that ran its reload, and one that found nothing to do,
\* both leave the server on the release the report names.
ReportHolds(p) ==
    \A f \in File : /\ disk[f].bytes = report[p].release
                    /\ disk[f].mode = "declared"
                    /\ HasReload => serving[f] = report[p].release

InstalledMeansServed ==
    \A p \in Proc :
        intact /\ report[p].status = "installed" => ReportHolds(p)

\* rollback: RolledBack is only said when the bytes and modes captured before
\* the first write are back at every path.
RolledBackMeansRestored ==
    [][\A p \in Proc :
         pc[p] # "idle" /\ report'[p].rolledBack =>
             \A f \in File : /\ disk'[f].bytes = before[p][f].bytes
                             /\ disk'[f].mode = before[p][f].mode]_vars

\* InstallCycle: "Nothing is written and nothing is reloaded unless the bytes
\* actually differ", and an unforced cycle is the only one the daemon runs on
\* its own account.  That is matches' own guard as long as an encoding can be
\* repeated; a keystore's cannot.
QuietUnlessDifferent ==
    [][\A p \in Proc :
         pc[p] = "compare" /\ pc'[p] = "capture" =>
             job[p].forced \/ \E f \in File : disk[f].bytes # job[p].release]_vars

\* The cycle runs every few minutes and compares every time: once nothing
\* fails any more, the server is on the certificate this host holds.  Not so
\* after a crash between the write and the reload, or a rollback that could
\* put no file back: the next cycle finds nothing to do, and reloads nothing.
EventuallyServed ==
    <>[](intact /\ held # 0 => \A f \in File :
            /\ disk[f] = Written(held, "declared")
            /\ HasReload => serving[f] = held)

\* The files alone get there whatever happened to them: crashes, other programs
\* editing them, two installers writing different releases at the same time.
EventuallyRepaired ==
    <>[](held = 0 \/ \A f \in File : disk[f] = Written(held, "declared"))

\* To an observer who looks at the files only between installations, an
\* installation is one step.
Settled(p) == pc[p] \in {"idle", "compare", "capture"}
VisibleFiles ==
    [f \in File |->
        IF \E p \in Proc : ~Settled(p)
        THEN before[CHOOSE p \in Proc : ~Settled(p)][f].bytes
        ELSE disk[f].bytes]

D == INSTANCE Destination WITH
        files <- VisibleFiles, served <- serving, trusted <- intact,
        Issued <- 2..MaxRelease

DestinationSpec == D!Spec
=============================================================================
