------------------------------ MODULE Issuance ------------------------------
(***************************************************************************)
(* One certificate of the state directory: how Runner.Request and          *)
(* Runner.RenewDue obtain it and save it (request.go), and how an          *)
(* installation reads it back (HeldIn, findHeld, readMaterial).            *)
(*                                                                         *)
(* Four files, each written in place: the file is truncated, then filled.  *)
(* A process is the daemon's cycle or a command a person runs beside it;   *)
(* nothing keeps two of them apart.                                        *)
(*                                                                         *)
(* An issuance is a number, in the order the core issued them, and stands  *)
(* for the key, certificate, chain and record that belong together.        *)
(*                                                                         *)
(* A definition that stands before another one and has its name and more   *)
(* is that one with a plausible mistake in it, for seeing that a property  *)
(* notices.  Nothing in the specification uses it.                         *)
(***************************************************************************)
EXTENDS Naturals, FiniteSets

CONSTANTS
    Proc,       \* processes that may use this state directory
    Chainless,  \* issuances that come without a chain
    MaxDemand,  \* bound on requests by a person and renewals falling due
    MaxFaults   \* bound on failing calls, lost answers and crashes

ASSUME IssuanceAssumption == MaxDemand \in Nat /\ MaxFaults \in Nat

\* Each demand is met by one issuance more than the faults that met it.
MaxCert == MaxDemand + MaxFaults
Cert    == 1..MaxCert
None    == 0
Torn    == MaxCert + 1
Content == None..Torn

\* The order of save.
File      == {"key", "cert", "chain", "meta"}
First     == "key"
Following == [key |-> "cert", cert |-> "chain", chain |-> "meta"]

VARIABLES
    disk,    \* the four files of the certificate's directory
    issued,  \* the core: how many certificates it has issued
    active,  \* the core: those it takes to be in use
    due,     \* certificates whose renewal time has come
    demand,  \* requests by a person and renewals that fell due, so far
    faults,  \* how much of MaxFaults has been used
    intact,  \* history: no save was interrupted since the last complete one, nor
             \* a read by somebody who removes the directory
    pc,      \* where each process is
    file,    \* the file its save is at
    new,     \* the issuance it is saving
    renews,  \* what its request said it replaces
    asked,   \* history: requests that replaced nothing
    read     \* the record, certificate and key it read last

core   == <<issued, active, due, demand, asked>>
locals == <<file, new, renews>>
vars   == <<disk, issued, active, due, demand, faults, intact, pc, file, new,
            renews, asked, read>>

Nothing == [meta |-> None, cert |-> None, key |-> None, chain |-> None]

Init ==
    /\ disk = [f \in File |-> None]
    /\ issued = 0
    /\ active = {}
    /\ due = {}
    /\ demand = 0
    /\ faults = 0
    /\ intact = TRUE
    /\ pc = [p \in Proc |-> "idle"]
    /\ file = [p \in Proc |-> First]
    /\ new = [p \in Proc |-> None]
    /\ renews = [p \in Proc |-> None]
    /\ asked = 0
    /\ read = [p \in Proc |-> Nothing]

-----------------------------------------------------------------------------

Fault == /\ faults < MaxFaults
         /\ faults' = faults + 1

Goto(p, label) == pc' = [pc EXCEPT ![p] = label]

\* What was local to the operation is gone: the key it generated included.
Finish(p) ==
    /\ Goto(p, "idle")
    /\ file' = [file EXCEPT ![p] = First]
    /\ new' = [new EXCEPT ![p] = None]
    /\ renews' = [renews EXCEPT ![p] = None]

\* HeldIn skips a directory whose record is missing or cannot be parsed.
HeldAnyRecord == disk["meta"] # None
Held == disk["meta"] \in Cert

\* A chain that did not come is not written, and the one of before stays.
NextFile(p) == IF file[p] = "cert" /\ new[p] \in Chainless THEN "meta" ELSE Following[file[p]]

\* The core issues the next certificate and retires the one it replaces.
IssueLeavingOld(p) ==
    /\ issued < MaxCert
    /\ issued' = issued + 1
    /\ active' = active \cup {issued + 1}

Issue(p) ==
    /\ issued < MaxCert
    /\ issued' = issued + 1
    /\ active' = (active \ {renews[p]}) \cup {issued + 1}

-----------------------------------------------------------------------------
(* Asking for a certificate.                                               *)

\* `certpilot-agent request': a key is generated, nothing is replaced.
StartRequest(p) ==
    /\ pc[p] = "idle" /\ demand < MaxDemand
    /\ demand' = demand + 1
    /\ asked' = asked + 1
    /\ Goto(p, "ask")
    /\ UNCHANGED <<disk, issued, active, due, faults, intact, locals, read>>

\* RenewDue, for a certificate this host holds and whose time has come.
StartRenewKeySaved(p) ==
    /\ pc[p] = "idle" /\ Held /\ disk["meta"] \in due /\ issued < MaxCert
    /\ disk' = [disk EXCEPT !["key"] = issued + 1]
    /\ renews' = [renews EXCEPT ![p] = disk["meta"]]
    /\ Goto(p, "ask")
    /\ UNCHANGED <<core, faults, intact, file, new, read>>

StartRenewIfWhole(p) ==
    /\ pc[p] = "idle" /\ Held /\ disk["meta"] \in due
    /\ \A f \in {"key", "cert"} : disk[f] = disk["meta"]
    /\ renews' = [renews EXCEPT ![p] = disk["meta"]]
    /\ Goto(p, "ask")
    /\ UNCHANGED <<disk, core, faults, intact, file, new, read>>

StartRenew(p) ==
    /\ pc[p] = "idle" /\ Held /\ disk["meta"] \in due
    /\ renews' = [renews EXCEPT ![p] = disk["meta"]]
    /\ Goto(p, "ask")
    /\ UNCHANGED <<disk, core, faults, intact, file, new, read>>

Answered(p) ==
    /\ pc[p] = "ask"
    /\ Issue(p)
    /\ new' = [new EXCEPT ![p] = issued + 1]
    /\ Goto(p, "open")
    /\ UNCHANGED <<disk, due, demand, asked, faults, intact, file, renews, read>>

\* The core refuses or cannot be reached, or it issued and the answer was lost
\* or said nothing.  The key is discarded; the next cycle asks again.
NotAnswered(p) ==
    /\ pc[p] = "ask"
    /\ Fault
    /\ \/ UNCHANGED <<issued, active>>
       \/ Issue(p)
    /\ Finish(p)
    /\ UNCHANGED <<disk, due, demand, asked, intact, read>>

-----------------------------------------------------------------------------
(* Saving it: os.WriteFile for each file in turn.                          *)

Open(p) ==
    /\ pc[p] = "open"
    /\ disk' = [disk EXCEPT ![file[p]] = Torn]
    /\ Goto(p, "write")
    /\ UNCHANGED <<core, faults, intact, locals, read>>

\* The record last: it is what makes the certificate held.
WriteRecordFirst(p) ==
    /\ pc[p] = "write"
    /\ disk' = [disk EXCEPT ![file[p]] = new[p], !["meta"] = new[p]]
    /\ IF file[p] = "meta"
       THEN Finish(p) /\ intact' = TRUE
       ELSE /\ file' = [file EXCEPT ![p] = NextFile(p)]
            /\ Goto(p, "open")
            /\ UNCHANGED <<intact, new, renews>>
    /\ UNCHANGED <<core, faults, read>>

Write(p) ==
    /\ pc[p] = "write"
    /\ disk' = [disk EXCEPT ![file[p]] = new[p]]
    /\ IF file[p] = "meta"
       THEN Finish(p) /\ intact' = TRUE
       ELSE /\ file' = [file EXCEPT ![p] = NextFile(p)]
            /\ Goto(p, "open")
            /\ UNCHANGED <<intact, new, renews>>
    /\ UNCHANGED <<core, faults, read>>

\* A full disk: the file is left as it was, or truncated.  save returns.
WriteFails(p) ==
    /\ pc[p] \in {"open", "write"}
    /\ Fault
    /\ intact' = FALSE
    /\ Finish(p)
    /\ UNCHANGED <<disk, core, read>>

-----------------------------------------------------------------------------
(* Reading it back for an installation.                                    *)

\* HeldIn and findHeld.
StartInstall(p) ==
    /\ pc[p] = "idle" /\ Held
    /\ read' = [read EXCEPT ![p] = [Nothing EXCEPT !.meta = disk["meta"]]]
    /\ Goto(p, "readCert")
    /\ UNCHANGED <<disk, core, faults, intact, locals>>

\* findHeld finds nothing: the cycle reports that and changes nothing.
Unfulfilled(p) == pc[p] = "idle" /\ ~Held /\ UNCHANGED vars

\* readMaterial reads the certificate, then the key, then a chain if there is one.
ReadCert(p) ==
    /\ pc[p] = "readCert"
    /\ read' = [read EXCEPT ![p].cert = disk["cert"]]
    /\ Goto(p, IF disk["cert"] = None THEN "idle" ELSE "readKey")
    /\ UNCHANGED <<disk, core, faults, intact, locals>>

ReadKey(p) ==
    /\ pc[p] = "readKey"
    /\ read' = [read EXCEPT ![p].key = disk["key"]]
    /\ Goto(p, IF disk["key"] = None THEN "idle" ELSE "readChain")
    /\ UNCHANGED <<disk, core, faults, intact, locals>>

ReadChain(p) ==
    /\ pc[p] = "readChain"
    /\ read' = [read EXCEPT ![p].chain = disk["chain"]]
    /\ Goto(p, "install")
    /\ UNCHANGED <<disk, core, faults, intact, locals>>

\* The destination is handed what was read.
Install(p) ==
    /\ pc[p] = "install"
    /\ Goto(p, "idle")
    /\ read' = [read EXCEPT ![p] = Nothing]
    /\ UNCHANGED <<disk, core, faults, intact, locals>>

-----------------------------------------------------------------------------
(* What happens around it.                                                 *)

\* RenewAfter, or two thirds of the certificate's life, has passed.
FallDue ==
    /\ Held /\ disk["meta"] \notin due /\ demand < MaxDemand
    /\ due' = due \cup {disk["meta"]}
    /\ demand' = demand + 1
    /\ UNCHANGED <<disk, issued, active, asked, faults, intact, pc, locals, read>>

\* SIGKILL or loss of power; the core may have issued meanwhile.
Crash(p) ==
    /\ pc[p] # "idle"
    /\ Fault
    /\ intact' = (intact /\ pc[p] \notin {"open", "write"})
    /\ \/ UNCHANGED <<issued, active>>
       \/ pc[p] = "ask" /\ Issue(p)
    /\ Finish(p)
    /\ UNCHANGED <<disk, due, demand, asked, read>>

Step(p) ==
    \/ StartRenew(p) \/ Answered(p) \/ NotAnswered(p)
    \/ Open(p) \/ Write(p) \/ WriteFails(p)
    \/ ReadCert(p) \/ ReadKey(p) \/ ReadChain(p) \/ Install(p)

Next == \/ \E p \in Proc : Step(p) \/ StartRequest(p) \/ StartInstall(p)
                        \/ Unfulfilled(p) \/ Crash(p)
        \/ FallDue

Spec == Init /\ [][Next]_vars

\* The daemon renews on every cycle whose heartbeat was answered, and a request
\* is given up at the client's timeout.  Nobody is bound to run a command.
FairSpec == Spec /\ \A p \in Proc : WF_vars(Step(p)) /\ SF_vars(StartRenew(p))

-----------------------------------------------------------------------------
(* Properties.                                                             *)

TypeOK ==
    /\ disk \in [File -> Content]
    /\ issued \in 0..MaxCert
    /\ active \subseteq 1..issued
    /\ due \subseteq 1..issued
    /\ demand \in 0..MaxDemand
    /\ asked \in 0..demand
    /\ faults \in 0..MaxFaults
    /\ intact \in BOOLEAN
    /\ pc \in [Proc -> {"idle", "ask", "open", "write", "readCert", "readKey",
                     "readChain", "install"}]
    /\ file \in [Proc -> File]
    /\ new \in [Proc -> 0..issued]
    /\ renews \in [Proc -> 0..issued]
    /\ read \in [Proc -> [meta : Content, cert : Content, key : Content,
                          chain : Content]]

\* save: "The key first ... the other order would leave a certificate whose key
\* never landed".  Whatever was interrupted, and however often, no file is ahead
\* of one that is written before it: there is never a certificate newer than
\* the key, nor a record -- which makes it held -- newer than either.
NotAheadOf(f, g) == disk[f] \in Cert => disk[f] <= disk[g]
WrittenInOrder ==
    /\ NotAheadOf("cert", "key") /\ NotAheadOf("chain", "cert") /\ NotAheadOf("meta", "cert")
    /\ disk["meta"] \in Chainless \/ NotAheadOf("meta", "chain")

\* Request: "the key and certificate are written together".  What an
\* installation read is one issuance and the one it reports, unless a save was
\* interrupted.  The chain is its own too, where it came with one; where it did
\* not, save leaves the one of an issuance before and it is installed with that.
ReadTogether ==
    \A p \in Proc :
        intact /\ pc[p] = "install" =>
            /\ read[p].key = read[p].cert /\ read[p].meta = read[p].cert
            /\ read[p].cert \notin Chainless => read[p].chain = read[p].cert

\* save: "If anything fails after this the host has a key it cannot use, which
\* is inert".  Inert would mean that no installation ever hands a server a
\* certificate with a key that is not its own.
NewKeyIsInert ==
    \A p \in Proc :
        pc[p] = "install" /\ {read[p].cert, read[p].key} \subseteq Cert
            => read[p].key = read[p].cert

\* Request.Renews is there so that the core does not alert about a certificate
\* nothing is serving.  Every certificate the core takes to be in use, beyond
\* the one asked for by each request that replaced nothing, is paid for by a
\* failure of its own.
InUsePerDemand == Cardinality(active) <= asked + faults

\* RenewDue, of a renewal that failed: "The next cycle tries again".
RenewalsAreRetried ==
    \A c \in Cert : c \in due /\ disk["meta"] = c ~> disk["meta"] \in Cert \ {c}

\* The same as far as it goes: a record cut short takes the directory out of
\* HeldIn, and nothing renews it from then on.  As long as the record can be
\* read, the certificate it names is in the end not one that is due.
EventuallyRenewed == <>[](Held => disk["meta"] \notin due)
=============================================================================
