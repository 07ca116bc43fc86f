---------------------------- MODULE StoreInstall ----------------------------
(***************************************************************************)
(* One certificate-store destination: Installer.applyStore, bindAndProve,  *)
(* settle and rollbackStore (store.go) over the store of store_windows.go. *)
(*                                                                         *)
(* A file destination captures bytes and writes them back.  A store can    *)
(* only be added to, so what is put back is the binding: the certificate   *)
(* the service has been told to use.  The agent finds the one it last      *)
(* installed by a friendly name, which an import of the same certificate   *)
(* drops and which settle sets last.                                       *)
(*                                                                         *)
(* Certificate 1 is the administrator's, never named by the agent; 2 and   *)
(* above are the agent's issuances; 0 stands for none.                     *)
(*                                                                         *)
(* A definition that stands before another one and has its name and more   *)
(* is that one with a plausible mistake in it, for seeing that a property  *)
(* notices.  Nothing in the specification uses it.                         *)
(***************************************************************************)
EXTENDS Naturals, FiniteSets

CONSTANTS
    MaxCert,      \* bound on issuances
    MaxFaults,    \* bound on failing calls, stops and crashes
    HasReload,    \* the destination declares a reload
    HasVerify,    \* the destination declares an endpoint to verify
    Binds,        \* whether the destination declares a bind: either, or both
    BindMayTake   \* a bind command that fails may have re-pointed the service

ASSUME StoreInstallAssumption ==
    /\ MaxCert \in Nat \ {0}
    /\ MaxFaults \in Nat
    /\ {HasReload, HasVerify, BindMayTake} \cup Binds \subseteq BOOLEAN

VARIABLES
    held,      \* the certificate in the state directory
    hasBind,   \* this destination declares a bind
    store,     \* the certificates in the Windows store
    keys,      \* the private keys in the key storage provider
    named,     \* those in the store under this destination's friendly name
    binding,   \* the thumbprint the service is configured with
    serving,   \* what the endpoint presents, 0 when it presents nothing
    faults,    \* how much of MaxFaults has been used
    pc,        \* where applyStore is
    job,       \* its thumbprint, previous and force
    before,    \* history: the binding when the installation began
    stopping,  \* the context is cancelled
    report     \* the Installation returned last, none while it works

material == <<store, keys, named>>
service  == <<binding, serving>>
vars     == <<held, hasBind, store, keys, named, binding, serving, faults, pc, job,
              before, stopping, report>>

Cert     == 0..MaxCert
Issued   == 2..MaxCert
NoJob    == [cert |-> 0, previous |-> 0, forced |-> FALSE, reloaded |-> FALSE]
NoReport == [status |-> "none", cert |-> 0, rolledBack |-> FALSE]

Init ==
    /\ held = 0
    /\ hasBind \in Binds
    /\ store \in {{}, {1}}
    /\ keys = store
    /\ named = {}
    /\ binding = IF 1 \in store THEN 1 ELSE 0
    /\ serving = binding
    /\ faults = 0
    /\ pc = "idle"
    /\ job = NoJob
    /\ before = 0
    /\ stopping = FALSE
    /\ report = NoReport

-----------------------------------------------------------------------------
(* Steps shared by several actions.                                        *)

Fault == /\ faults < MaxFaults
         /\ faults' = faults + 1

Goto(label) == /\ pc' = label
               /\ UNCHANGED <<job, before, stopping, report>>

Return(status, rolledBack) ==
    /\ pc' = "idle"
    /\ report' = [status |-> status, cert |-> job.cert, rolledBack |-> rolledBack]
    /\ job' = NoJob
    /\ before' = 0
    /\ stopping' = FALSE

\* runCommand and verify fail at once when the context is gone.
Fails == \/ stopping /\ UNCHANGED faults
         \/ ~stopping /\ Fault

Present(c) == IF c \in store /\ c \in keys THEN c ELSE 0

\* A service that needs no reload presents what it is bound to.
Repoint(c) ==
    /\ binding' = c
    /\ serving' = IF HasReload THEN serving ELSE Present(c)

\* windowsStore.remove: the key, then the certificate; a certificate that is
\* not there is not an error.
RemoveFromStore(c) ==
    /\ store' = store \ {c}
    /\ keys' = IF c \in store THEN keys \ {c} ELSE keys
    /\ named' = named \ {c}

\* It fails having done nothing, or the certificate stays without its key, or
\* the key stays in the provider without its certificate.
RemoveStops(c) ==
    /\ c \in store
    /\ Fault
    /\ \/ UNCHANGED material
       \/ keys' = keys \ {c} /\ UNCHANGED <<store, named>>
       \/ store' = store \ {c} /\ named' = named \ {c} /\ UNCHANGED keys

AfterReload == IF HasVerify THEN "verify" ELSE "name"
AfterBind   == IF HasReload THEN "reload" ELSE AfterReload
AfterImport == IF hasBind THEN "bind" ELSE AfterBind

\* A service that was re-pointed keeps to that; one that was not looks in the
\* store when it is told to.
Reads(c) == c = binding \/ (~hasBind /\ c \in store)

\* rollbackStore.  Where nothing was bound the import is taken out; otherwise,
\* with no earlier certificate of the agent's to return to, the change stands.
UndoBinding ==
    IF ~hasBind THEN Goto("undoBind")
    ELSE IF job.previous = 0 THEN Return("failed", FALSE) ELSE Goto("rebind")

\* After the imported certificate was taken out again.
AfterUndo ==
    IF job.reloaded THEN Goto("reloadAgain") ELSE Return("failed", TRUE)

-----------------------------------------------------------------------------
(* An installation.                                                        *)

\* findHeld returns nil: nothing was granted to this host for the name.
Unfulfilled ==
    /\ pc = "idle" /\ held = 0 /\ report.status # "unfulfilled"
    /\ report' = [NoReport EXCEPT !.status = "unfulfilled"]
    /\ UNCHANGED <<held, hasBind, material, service, faults, pc, job, before, stopping>>

\* findHeld and readMaterial; applyStore's parameters.
Begin(forced) ==
    /\ pc = "idle" /\ held # 0
    /\ pc' = "read"
    /\ job' = [NoJob EXCEPT !.cert = held, !.forced = forced]
    /\ before' = binding
    /\ report' = NoReport
    /\ UNCHANGED <<held, hasBind, material, service, faults, stopping>>

\* A deployment the core asks for, and `certpilot-agent install'.
Deploy == Begin(TRUE)

\* The material or the store could not be read, the PKCS#12 not be encoded,
\* or the import left no such certificate: nothing has been re-pointed.
Refuse ==
    /\ pc \in {"read", "import"}
    /\ Fault
    /\ Return("failed", FALSE)
    /\ UNCHANGED <<held, hasBind, material, service>>

\* thumbprintNamed answers with the first certificate that carries the name.
\* An unforced installation of the one it finds has nothing to do.
ReadPreviousBound ==
    /\ pc = "read"
    /\ IF binding = job.cert /\ ~job.forced
       THEN Return("installed", FALSE)
       ELSE /\ job' = [job EXCEPT !.previous = binding]
            /\ pc' = "import"
            /\ UNCHANGED <<before, stopping, report>>
    /\ UNCHANGED <<held, hasBind, material, service, faults>>

ReadPrevious ==
    /\ pc = "read"
    /\ \E previous \in IF named = {} THEN {0} ELSE named :
         \/ /\ previous = job.cert /\ ~job.forced
            /\ Return("installed", FALSE)
         \/ /\ previous # job.cert \/ job.forced
            /\ job' = [job EXCEPT !.previous = previous]
            /\ pc' = "import"
            /\ UNCHANGED <<before, stopping, report>>
    /\ UNCHANGED <<held, hasBind, material, service, faults>>

\* importPFX replaces an earlier copy along with its friendly name.
ImportNamed ==
    /\ pc = "import"
    /\ store' = store \cup {job.cert}
    /\ keys' = keys \cup {job.cert}
    /\ named' = named \cup {job.cert}
    /\ Goto(AfterImport)
    /\ UNCHANGED <<held, hasBind, service, faults>>

Import ==
    /\ pc = "import"
    /\ store' = store \cup {job.cert}
    /\ keys' = keys \cup {job.cert}
    /\ named' = named \ {job.cert}
    /\ Goto(AfterImport)
    /\ UNCHANGED <<held, hasBind, service, faults>>

\* The key alone was stored, or the certificate too and an intermediate was not.
ImportFails ==
    /\ pc = "import"
    /\ Fault
    /\ \/ UNCHANGED material
       \/ keys' = keys \cup {job.cert} /\ UNCHANGED <<store, named>>
       \/ /\ store' = store \cup {job.cert}
          /\ keys' = keys \cup {job.cert}
          /\ named' = named \ {job.cert}
    /\ Goto("undoImport")
    /\ UNCHANGED <<held, hasBind, service>>

\* The removal after a failed import, whose own failure is not reported, and
\* the one after a failed bind, which is the whole of that rollback.
RemoveImported ==
    /\ pc \in {"undoImport", "undoBind"}
    /\ RemoveFromStore(job.cert)
    /\ Return("failed", pc = "undoBind")
    /\ UNCHANGED <<held, hasBind, service, faults>>

RemoveImportedFails ==
    /\ pc \in {"undoImport", "undoBind"}
    /\ RemoveStops(job.cert)
    /\ Return("failed", FALSE)
    /\ UNCHANGED <<held, hasBind, service>>

Bind ==
    /\ pc = "bind" /\ ~stopping
    /\ Repoint(job.cert)
    /\ Goto(AfterBind)
    /\ UNCHANGED <<held, hasBind, material, faults>>

\* rollbackStore is told that nothing was bound.
BindFails ==
    /\ pc = "bind"
    /\ Fails
    /\ \/ UNCHANGED service
       \/ BindMayTake /\ ~stopping /\ Repoint(job.cert)
    /\ Goto("undoBind")
    /\ UNCHANGED <<held, hasBind, material>>

Reload ==
    /\ pc = "reload" /\ ~stopping
    /\ \E c \in Cert : Reads(c) /\ binding' = c /\ serving' = Present(c)
    /\ job' = [job EXCEPT !.reloaded = TRUE]
    /\ pc' = AfterReload
    /\ UNCHANGED <<held, hasBind, material, faults, before, stopping, report>>

\* A reload that fails may have taken effect.
ReloadFailsRemoveFirst ==
    /\ pc = "reload"
    /\ Fails
    /\ UNCHANGED service
    /\ RemoveFromStore(job.cert)
    /\ UndoBinding
    /\ UNCHANGED <<held, hasBind>>

ReloadFails ==
    /\ pc = "reload"
    /\ Fails
    /\ \/ UNCHANGED service
       \/ ~stopping /\ \E c \in Cert : Reads(c) /\ binding' = c /\ serving' = Present(c)
    /\ UndoBinding
    /\ UNCHANGED <<held, hasBind, material>>

\* verifyServes saw the thumbprint that was installed.
Verify ==
    /\ pc = "verify" /\ serving = job.cert
    /\ Goto("name")
    /\ UNCHANGED <<held, hasBind, material, service, faults>>

\* The endpoint presents something else, or could not be asked.
VerifyFails ==
    /\ pc = "verify"
    /\ \/ serving # job.cert /\ UNCHANGED faults
       \/ Fails
    /\ UndoBinding
    /\ UNCHANGED <<held, hasBind, material, service>>

\* verifyServes is given no deadline -- it leaves its context aside, and a zero
\* net.Dialer has none -- so a peer that accepts the connection and does not
\* finish the handshake holds it, and verify's own deadline is not looked at.
Stall ==
    /\ pc = "verify"
    /\ Fault
    /\ Goto("stalled")
    /\ UNCHANGED <<held, hasBind, material, service>>

\* The peer answers or hangs up after all; the deadline may have passed.
StallEnds ==
    /\ pc = "stalled"
    /\ Goto("verify") \/ UndoBinding
    /\ UNCHANGED <<held, hasBind, material, service, faults>>

\* settle.  Neither of its steps failing is an error.
Name ==
    /\ pc = "name"
    /\ named' = IF job.cert \in store THEN named \cup {job.cert} ELSE named
    /\ Goto("tidy")
    /\ UNCHANGED <<held, hasBind, store, keys, service, faults>>

NameFails ==
    /\ pc = "name"
    /\ Fault
    /\ Goto("tidy")
    /\ UNCHANGED <<held, hasBind, material, service>>

TidyNever ==
    /\ pc = "tidy"
    /\ UNCHANGED material
    /\ Return("installed", FALSE)
    /\ UNCHANGED <<held, hasBind, service, faults>>

Tidy ==
    /\ pc = "tidy"
    /\ IF job.previous \notin {0, job.cert} THEN RemoveFromStore(job.previous)
                                            ELSE UNCHANGED material
    /\ Return("installed", FALSE)
    /\ UNCHANGED <<held, hasBind, service, faults>>

TidyFails ==
    /\ pc = "tidy" /\ job.previous \notin {0, job.cert}
    /\ RemoveStops(job.previous)
    /\ Return("installed", FALSE)
    /\ UNCHANGED <<held, hasBind, service>>

\* rollbackStore: the binding goes back first.  A thumbprint the store no
\* longer holds cannot be bound.
Rebind ==
    /\ pc = "rebind" /\ ~stopping /\ job.previous \in store
    /\ Repoint(job.previous)
    /\ Goto("undoRemove")
    /\ UNCHANGED <<held, hasBind, material, faults>>

\* The imported certificate stays, because the binding may still name it.
RebindFailsAnyway ==
    /\ pc = "rebind"
    /\ \/ job.previous \notin store /\ UNCHANGED faults
       \/ Fails
    /\ Goto("undoRemove")
    /\ UNCHANGED <<held, hasBind, material, service>>

RebindFails ==
    /\ pc = "rebind"
    /\ \/ job.previous \notin store /\ UNCHANGED <<faults, service>>
       \/ Fails /\ UNCHANGED service
       \/ Fails /\ BindMayTake /\ ~stopping /\ job.previous \in store /\ Repoint(job.previous)
    /\ Return("failed", FALSE)
    /\ UNCHANGED <<held, hasBind, material>>

UndoRemove ==
    /\ pc = "undoRemove"
    /\ RemoveFromStore(job.cert)
    /\ AfterUndo
    /\ UNCHANGED <<held, hasBind, service, faults>>

UndoRemoveFails ==
    /\ pc = "undoRemove"
    /\ RemoveStops(job.cert)
    /\ AfterUndo
    /\ UNCHANGED <<held, hasBind, service>>

\* The reload that follows only when the service had been reloaded before.
ReloadAgain ==
    /\ pc = "reloadAgain" /\ ~stopping
    /\ serving' = Present(binding)
    /\ Return("failed", TRUE)
    /\ UNCHANGED <<held, hasBind, material, binding, faults>>

ReloadAgainFails ==
    /\ pc = "reloadAgain"
    /\ Fails
    /\ serving' \in IF stopping THEN {serving} ELSE {serving, Present(binding)}
    /\ Return("failed", TRUE)
    /\ UNCHANGED <<held, hasBind, material, binding>>

-----------------------------------------------------------------------------
(* What happens around it.                                                 *)

\* SIGTERM, or the service control manager's stop: the context is cancelled.
Stop ==
    /\ pc # "idle" /\ ~stopping
    /\ Fault
    /\ stopping' = TRUE
    /\ UNCHANGED <<held, hasBind, material, service, pc, job, before, report>>

\* What the agent knew of the previous certificate was only in memory.
Crash ==
    /\ pc # "idle"
    /\ Fault
    /\ pc' = "idle"
    /\ job' = NoJob
    /\ before' = 0
    /\ stopping' = FALSE
    /\ UNCHANGED <<held, hasBind, material, service, report>>

\* The issuance half of the agent obtains the next certificate.
Issue ==
    /\ held < MaxCert
    /\ held' = IF held = 0 THEN 2 ELSE held + 1
    /\ held' \in Cert
    /\ UNCHANGED <<hasBind, material, service, faults, pc, job, before, stopping, report>>

\* With no bind declared: "whatever reads this store will pick the certificate
\* up when it is told to".
PickUp ==
    /\ ~hasBind
    /\ \E c \in store \ {binding} : binding' = c /\ serving' = Present(c)
    /\ UNCHANGED <<held, hasBind, material, faults, pc, job, before, stopping, report>>

\* The installer's own steps, a failure of the calls it makes included.
Step ==
    \/ Unfulfilled \/ Begin(FALSE) \/ Refuse \/ ReadPrevious
    \/ Import \/ ImportFails \/ RemoveImported \/ RemoveImportedFails
    \/ Bind \/ BindFails \/ Reload \/ ReloadFails \/ Verify \/ VerifyFails \/ Stall
    \/ Name \/ NameFails \/ Tidy \/ TidyFails
    \/ Rebind \/ RebindFails \/ UndoRemove \/ UndoRemoveFails
    \/ ReloadAgain \/ ReloadAgainFails

Next == \/ Step
        \/ StallEnds
        \/ Deploy
        \/ Stop
        \/ Crash
        \/ Issue
        \/ PickUp

Spec == Init /\ [][Next]_vars

\* The cycle is driven by a ticker and each command is killed at commandTimeout.
\* Nothing ends a handshake that its peer does not end: StallEnds is no Step.
FairSpec == Spec /\ WF_vars(Step)

-----------------------------------------------------------------------------
(* Properties.                                                             *)

TypeOK ==
    /\ held \in {0} \cup Issued
    /\ hasBind \in Binds
    /\ store \subseteq Cert \ {0}
    /\ keys \subseteq Cert \ {0}
    /\ named \subseteq store \cap Issued
    /\ <<binding, serving, before>> \in Cert \X Cert \X Cert
    /\ faults \in 0..MaxFaults
    /\ pc \in {"idle", "read", "import", "bind", "reload", "verify", "stalled",
               "name", "tidy", "undoImport", "undoBind", "rebind", "undoRemove",
               "reloadAgain"}
    /\ job \in [cert : {0} \cup Issued, previous : {0} \cup Issued,
                forced : BOOLEAN, reloaded : BOOLEAN]
    /\ stopping \in BOOLEAN
    /\ report \in [status : {"none", "unfulfilled", "failed", "installed"},
                   cert : {0} \cup Issued, rolledBack : BOOLEAN]

\* An installation that replaces what the binding names: it did not begin with
\* the service already on the certificate it installs.
Replacing == job.cert # before

\* rollbackStore: "Removing a certificate that a binding still names is worse
\* than the failure being rolled back", and settle removes "only after its
\* replacement is bound".  While a certificate is being replaced no removal
\* takes from the service the certificate or the key it is bound to -- unless
\* a bind that was reported as failed had re-pointed it all the same.  Where no
\* bind is declared settle removes the previous certificate nonetheless, and a
\* service that somebody pointed at it loses it: the property has to leave such
\* destinations out.
BoundUnknowingly == pc = "undoBind" /\ binding = job.cert
BoundSurvives ==
    [][hasBind /\ Replacing /\ ~BoundUnknowingly /\ binding' = binding /\ binding \in store \cap keys
          => binding \in store' \cap keys']_vars

\* The same comment without the qualifications: a deployment somebody asks for
\* installs the very certificate the binding names.
BoundIsNeverRemoved ==
    [][binding' = binding /\ binding \in store => binding \in store']_vars

\* RolledBack tells an operator that the service was put back.  What the agent
\* puts it back to is the certificate under its name, not what the service was
\* on: after a crash between the bind and the name, after a failed naming, or
\* with a second name that a failed tidying left, that is an older certificate,
\* and RolledBack is reported all the same.  So the service is then configured
\* with what it was before or with a certificate that bears the name, and with
\* what it was before wherever the name is on nothing else; the same exception
\* applies.
RolledBackMeansRebound ==
    [][hasBind /\ pc # "idle" /\ report'.rolledBack /\ Replacing /\ ~BoundUnknowingly
         => binding' \in {before} \cup named']_vars

\* settle names the certificate after the binding was proved, so the name --
\* what the next cycle takes as "nothing to do", and what a rollback returns
\* to -- is never on a certificate the service has not been bound to.
NamedWasBound == hasBind /\ pc = "idle" /\ held \in named => binding = held

\* settle: an installer that left one certificate behind on every renewal would
\* be manufacturing the inventory's own alerts.  Between installations whatever
\* the store holds beside the administrator's certificate and the one in use --
\* the bound one, or any one where no bind is declared -- and every key without
\* its certificate, is paid for by a failure of its own.
LeftBehindPerFailure ==
    pc = "idle" =>
        \E used \in IF hasBind THEN {binding} ELSE Cert :
            Cardinality((store \cup keys) \ {1, used}) <= faults

\* settle: "it removes only a certificate it imported itself, identified by the
\* name it gave it".  No failure, rollback or repetition takes the
\* administrator's certificate or its key out of the store.
OthersAreLeftAlone == [][{1} \cap store \subseteq store' \cap keys']_vars

\* Once nothing fails any more, the certificate this host holds ends up bound
\* and named, and presented unless a removal stopped between its key and its
\* certificate: what is left then is taken for installed on every later cycle.
\* That is, unless the endpoint it asks holds the installation for ever.
\* (A deployment somebody asks for takes the name off while it runs.
\* Where no bind is declared it is for others to bind it.)
EventuallyInstalled ==
    \/ <>[](pc = "stalled")
    \/ <>[](held = 0 \/ job.forced \/ ~hasBind
                     \/ /\ binding = held /\ held \in named
                        /\ held \in keys => serving = held)
=============================================================================
