------------------------------- MODULE RunLoop -------------------------------
(***************************************************************************)
(* The daemon's cycle -- Runner.Run (run.go) and Runner.InstallCycle with  *)
(* its claim, report and result (deploy.go) -- over a core that may be out *)
(* of reach, lose an answer, or withdraw the agent's credential.           *)
(*                                                                         *)
(* The core is not in this repository: what it does with a claim, a report *)
(* and a result is modelled from what deploy.go sends and relies on.  How  *)
(* one destination is installed is FileInstall's and StoreInstall's        *)
(* subject; here it succeeds or fails.                                     *)
(*                                                                         *)
(* A definition that stands before another one and has its name and more   *)
(* is that one with a plausible mistake in it, for seeing that a property  *)
(* notices.  Nothing in the specification uses it.                         *)
(***************************************************************************)
EXTENDS Naturals, FiniteSets

CONSTANTS
    Dest,        \* destination names
    Job,         \* deployment jobs
    CertOf,      \* the certificate each destination is for
    MaxChanges,  \* bound on edits of the install spec and on renewals
    MaxFaults,   \* bound on lost calls, failed installations and crashes
    CanRevoke    \* the core may withdraw the credential

ASSUME RunLoopAssumption ==
    /\ IsFiniteSet(Dest)
    /\ MaxChanges \in Nat /\ MaxFaults \in Nat
    /\ CanRevoke \in BOOLEAN

VARIABLES
    spec,       \* the install spec file: found or not, and what it declares
    current,    \* destinations that hold the host's present certificate
    jobs,       \* the core: the state of each job
    want,       \* the core: the destinations each job names
    shown,      \* the core: the last report it took
    revoked,    \* the core: the credential is withdrawn
    changes,    \* how much of MaxChanges has been used
    faults,     \* how much of MaxFaults has been used
    pc,         \* where the cycle is
    reachable,  \* whether this cycle's heartbeat was answered
    hadSpec,    \* Runner.hadSpec
    declared,   \* the destinations LoadInstallSpec returned this cycle
    taken,      \* assignments claimed in this cycle and not yet answered
    outcome,    \* destinations this cycle's Apply installed
    sending     \* the report of a command that has not been sent yet

core  == <<jobs, want, shown, revoked>>
cycle == <<declared, taken, outcome>>
vars  == <<spec, current, jobs, want, shown, revoked, changes, faults, pc,
           reachable, hadSpec, declared, taken, outcome, sending>>

NoSpec  == [found |-> "absent", destinations |-> {}]
Unshown == [kind |-> "none", installed |-> {}, failed |-> {}]

Init ==
    /\ spec = NoSpec
    /\ current = {}
    /\ jobs = [j \in Job |-> "none"]
    /\ want = [j \in Job |-> {}]
    /\ shown = Unshown
    /\ revoked = FALSE
    /\ changes = 0
    /\ faults = 0
    /\ pc = "heartbeat"
    /\ reachable = FALSE
    /\ hadSpec = FALSE
    /\ declared = {}
    /\ taken = {}
    /\ outcome = {}
    /\ sending = Unshown

-----------------------------------------------------------------------------
Fault  == faults < MaxFaults /\ faults' = faults + 1
Change == changes < MaxChanges /\ changes' = changes + 1

\* The core refuses every call of a withdrawn credential.
Unanswered == IF revoked THEN UNCHANGED faults ELSE Fault

\* What a cycle knows goes with it.
EndCycleKeepingSpec == /\ pc' = "sleep"
                       /\ taken' = {} /\ outcome' = {}
                       /\ UNCHANGED declared
EndCycle == /\ pc' = "sleep"
            /\ declared' = {} /\ taken' = {} /\ outcome' = {}

DestinationsFor(j) ==
    LET named == want[j] \cap declared
    IN  IF named # {} THEN named
        ELSE {d \in declared : \E w \in want[j] : CertOf[w] = CertOf[d]}

-----------------------------------------------------------------------------
(* The cycle.                                                              *)

HeartbeatAnswered ==
    /\ pc = "heartbeat" /\ ~revoked
    /\ reachable' = TRUE
    /\ pc' = "renew"
    /\ UNCHANGED <<spec, current, core, changes, faults, hadSpec, cycle,
                   sending>>

\* ErrRevoked ends Run; any other error means the core is out of reach.
HeartbeatRevokedRetried ==
    /\ pc = "heartbeat" /\ revoked
    /\ reachable' = FALSE
    /\ pc' = "spec"
    /\ UNCHANGED <<spec, current, core, changes, faults, hadSpec, cycle,
                   sending>>

HeartbeatRevoked ==
    /\ pc = "heartbeat" /\ revoked
    /\ pc' = "stopped"
    /\ UNCHANGED <<spec, current, core, changes, faults, reachable, hadSpec,
                   cycle, sending>>

HeartbeatFails ==
    /\ pc = "heartbeat"
    /\ Fault
    /\ reachable' = FALSE
    /\ pc' = "spec"
    /\ UNCHANGED <<spec, current, core, changes, hadSpec, cycle, sending>>

\* RenewDue replaces the certificate, or there is nothing due.
Renew ==
    /\ pc = "renew"
    /\ \/ UNCHANGED <<current, changes>>
       \/ Change /\ current' = {}
    /\ pc' = "spec"
    /\ UNCHANGED <<spec, core, faults, reachable, hadSpec, cycle, sending>>

\* InstallCycle's three ways to begin.
SpecFound ==
    /\ pc = "spec" /\ spec.found = "found"
    /\ hadSpec' = TRUE
    /\ declared' = spec.destinations
    /\ pc' = IF reachable /\ spec.destinations # {} THEN "claim" ELSE "apply"
    /\ UNCHANGED <<spec, current, core, changes, faults, reachable, taken,
                   outcome, sending>>

\* A spec that is gone is reported once, whether or not the report arrives.
SpecGone ==
    /\ pc = "spec" /\ spec.found = "absent"
    /\ IF hadSpec /\ reachable
       THEN /\ hadSpec' = FALSE
            /\ \/ /\ ~revoked
                  /\ shown' = [Unshown EXCEPT !.kind = "list"]
                  /\ UNCHANGED faults
               \/ Unanswered /\ UNCHANGED shown
       ELSE UNCHANGED <<hadSpec, shown, faults>>
    /\ EndCycle
    /\ UNCHANGED <<spec, current, jobs, want, revoked, changes, reachable,
                   sending>>

SpecBroken ==
    /\ pc = "spec" /\ spec.found = "broken"
    /\ IF reachable
       THEN \/ /\ ~revoked
               /\ shown' = [Unshown EXCEPT !.kind = "errors"]
               /\ UNCHANGED faults
            \/ Unanswered /\ UNCHANGED shown
       ELSE UNCHANGED <<shown, faults>>
    /\ EndCycle
    /\ UNCHANGED <<spec, current, jobs, want, revoked, changes, reachable,
                   hadSpec, sending>>

Waiting == {j \in Job : jobs[j] = "waiting"}

\* claimDeployments: the core leases what is waiting.  An answer that is lost,
\* or longer than the client reads, leaves the lease.
Claim ==
    /\ pc = "claim" /\ ~revoked
    /\ jobs' = [j \in Job |-> IF j \in Waiting THEN "leased" ELSE jobs[j]]
    /\ taken' = Waiting
    /\ pc' = "apply"
    /\ UNCHANGED <<spec, current, want, shown, revoked, changes, faults,
                   reachable, hadSpec, declared, outcome, sending>>

ClaimFails ==
    /\ pc = "claim"
    /\ Unanswered
    /\ \/ UNCHANGED jobs
       \/ /\ ~revoked
          /\ jobs' = [j \in Job |-> IF j \in Waiting THEN "leased" ELSE jobs[j]]
    /\ pc' = "apply"
    /\ UNCHANGED <<spec, current, want, shown, revoked, changes,
                   reachable, hadSpec, cycle, sending>>

\* Installer.Apply, over every destination the spec declares.
Apply ==
    /\ pc = "apply"
    /\ \E failing \in SUBSET declared :
         /\ IF failing = {} THEN UNCHANGED faults ELSE Fault
         /\ current' = current \cup (declared \ failing)
         /\ IF reachable
            THEN /\ outcome' = declared \ failing
                 /\ pc' = "report"
                 /\ UNCHANGED <<declared, taken>>
            ELSE EndCycle
    /\ UNCHANGED <<spec, core, changes, reachable, hadSpec, sending>>

\* sendInstallations: full state, replacing what the core had.
ReportFirstOnly ==
    /\ pc = "report" /\ ~revoked
    /\ shown' = IF shown.kind = "list" THEN shown
                ELSE [kind |-> "list", installed |-> outcome, failed |-> declared \ outcome]
    /\ pc' = "result"
    /\ UNCHANGED <<spec, current, jobs, want, revoked, changes, faults,
                   reachable, hadSpec, cycle, sending>>

Report ==
    /\ pc = "report" /\ ~revoked
    /\ shown' = [kind |-> "list", installed |-> outcome, failed |-> declared \ outcome]
    /\ pc' = "result"
    /\ UNCHANGED <<spec, current, jobs, want, revoked, changes, faults,
                   reachable, hadSpec, cycle, sending>>

ReportFails ==
    /\ pc = "report"
    /\ Unanswered
    /\ pc' = "result"
    /\ UNCHANGED <<spec, current, core, changes, reachable, hadSpec, cycle,
                   sending>>

\* reportResult for one assignment.  The core closes the job.
VerdictAnyInstalled(j) ==
    IF DestinationsFor(j) \cap outcome # {} THEN "done" ELSE "failed"

Verdict(j) ==
    IF DestinationsFor(j) # {} /\ DestinationsFor(j) \subseteq outcome
    THEN "done" ELSE "failed"

ResultWhenDeclared(j) ==
    /\ pc = "result" /\ j \in taken /\ ~revoked
    /\ jobs' = [jobs EXCEPT ![j] = IF DestinationsFor(j) = {} THEN @ ELSE Verdict(j)]
    /\ taken' = taken \ {j}
    /\ UNCHANGED <<spec, current, want, shown, revoked, changes, faults, pc,
                   reachable, hadSpec, declared, outcome, sending>>

Result(j) ==
    /\ pc = "result" /\ j \in taken /\ ~revoked
    /\ jobs' = [jobs EXCEPT ![j] = Verdict(j)]
    /\ taken' = taken \ {j}
    /\ UNCHANGED <<spec, current, want, shown, revoked, changes, faults, pc,
                   reachable, hadSpec, declared, outcome, sending>>

\* Lost on the way there or on the way back; it is not sent again.
ResultFails(j) ==
    /\ pc = "result" /\ j \in taken
    /\ Unanswered
    /\ taken' = taken \ {j}
    /\ \/ UNCHANGED jobs
       \/ ~revoked /\ jobs' = [jobs EXCEPT ![j] = Verdict(j)]
    /\ UNCHANGED <<spec, current, want, shown, revoked, changes, pc,
                   reachable, hadSpec, declared, outcome, sending>>

Done ==
    /\ pc = "result" /\ taken = {}
    /\ EndCycle
    /\ UNCHANGED <<spec, current, core, changes, faults, reachable, hadSpec,
                   sending>>

\* The interval, or the backoff after a failure.
Wake ==
    /\ pc = "sleep"
    /\ pc' = "heartbeat"
    /\ UNCHANGED <<spec, current, core, changes, faults, reachable, hadSpec,
                   cycle, sending>>

-----------------------------------------------------------------------------
(* What happens around it.                                                 *)

\* A crash, a reboot, an upgrade; each run of `run --once' begins like this.
Restart ==
    /\ pc # "stopped"
    /\ Fault
    /\ pc' = "heartbeat"
    /\ hadSpec' = FALSE /\ reachable' = FALSE
    /\ declared' = {} /\ taken' = {} /\ outcome' = {}
    /\ UNCHANGED <<spec, current, core, changes, sending>>

\* certpilot-agent.service: Restart=always, RestartSec=30.
ServiceRestart ==
    /\ pc = "stopped"
    /\ pc' = "heartbeat"
    /\ hadSpec' = FALSE /\ reachable' = FALSE
    /\ UNCHANGED <<spec, current, core, changes, faults, cycle, sending>>

\* Somebody edits the install spec, breaks it or deletes it.
EditSpec ==
    /\ Change
    /\ spec' \in {NoSpec, [NoSpec EXCEPT !.found = "broken"]}
                 \cup [found : {"found"}, destinations : SUBSET Dest]
    /\ spec' # spec
    /\ UNCHANGED <<current, core, faults, pc, reachable, hadSpec, cycle,
                   sending>>

\* `certpilot-agent install --force' or `--offline', by someone at the keyboard:
\* Apply over what the spec declares, beside whatever the daemon does.  --offline
\* keeps the report to itself; --force sends it, at whatever moment that happens.
Command ==
    /\ sending = Unshown
    /\ spec.found # "broken"
    /\ Change
    /\ \E failing \in SUBSET spec.destinations :
         /\ IF failing = {} THEN UNCHANGED faults ELSE Fault
         /\ current' = current \cup (spec.destinations \ failing)
         /\ sending' \in {Unshown, [kind      |-> "list",
                                    installed |-> spec.destinations \ failing,
                                    failed    |-> failing]}
    /\ UNCHANGED <<spec, core, pc, reachable, hadSpec, cycle>>

CommandReports ==
    /\ sending # Unshown /\ ~revoked
    /\ shown' = sending
    /\ sending' = Unshown
    /\ UNCHANGED <<spec, current, jobs, want, revoked, changes, faults, pc,
                   reachable, hadSpec, cycle>>

\* Refused, or out of reach: a warning, and never again.
CommandLoses ==
    /\ sending # Unshown
    /\ Unanswered
    /\ sending' = Unshown
    /\ UNCHANGED <<spec, current, core, changes, pc, reachable, hadSpec, cycle>>

\* A job names destinations of one certificate that the core was told about.
Enqueue(j) ==
    /\ jobs[j] = "none"
    /\ \E c \in {CertOf[d] : d \in Dest} :
         \E names \in SUBSET {d \in shown.installed \cup shown.failed : CertOf[d] = c} :
           /\ names # {}
           /\ want' = [want EXCEPT ![j] = names]
    /\ jobs' = [jobs EXCEPT ![j] = "waiting"]
    /\ UNCHANGED <<spec, current, shown, revoked, changes, faults, pc,
                   reachable, hadSpec, cycle, sending>>

\* A lease that was not answered in time is offered again.
LeaseExpires(j) ==
    /\ jobs[j] = "leased"
    /\ jobs' = [jobs EXCEPT ![j] = "waiting"]
    /\ UNCHANGED <<spec, current, want, shown, revoked, changes, faults, pc,
                   reachable, hadSpec, cycle, sending>>

Revoke ==
    /\ CanRevoke /\ ~revoked
    /\ revoked' = TRUE
    /\ UNCHANGED <<spec, current, jobs, want, shown, changes, faults, pc,
                   reachable, hadSpec, cycle, sending>>

Step ==
    \/ HeartbeatAnswered \/ HeartbeatRevoked \/ HeartbeatFails \/ Renew
    \/ SpecFound \/ SpecGone \/ SpecBroken \/ Claim \/ ClaimFails \/ Apply
    \/ Report \/ ReportFails
    \/ \E j \in Job : Result(j) \/ ResultFails(j)
    \/ Done \/ Wake

Next == \/ Step
        \/ Restart
        \/ ServiceRestart
        \/ EditSpec
        \/ Command \/ CommandReports \/ CommandLoses
        \/ \E j \in Job : Enqueue(j) \/ LeaseExpires(j)
        \/ Revoke

Spec == Init /\ [][Next]_vars

\* The loop is driven by a timer and every post ends at the client's timeout;
\* a lease that was not answered runs out, at whatever moment;
\* systemd restarts what has exited.  An installation ends, which a store
\* destination's verify of a peer that stalls does not (StoreInstall.Stall).
FairSpec ==
    /\ Spec
    /\ WF_vars(Step)
    /\ WF_vars(ServiceRestart)
    /\ \A j \in Job : WF_vars(LeaseExpires(j))

-----------------------------------------------------------------------------
(* Properties.                                                             *)

TypeOK ==
    /\ spec \in [found : {"absent", "broken", "found"}, destinations : SUBSET Dest]
    /\ current \subseteq Dest
    /\ jobs \in [Job -> {"none", "waiting", "leased", "done", "failed"}]
    /\ want \in [Job -> SUBSET Dest]
    /\ shown \in [kind : {"none", "list", "errors"}, installed : SUBSET Dest,
                  failed : SUBSET Dest]
    /\ sending \in [kind : {"none", "list"}, installed : SUBSET Dest, failed : SUBSET Dest]
    /\ revoked \in BOOLEAN
    /\ changes \in 0..MaxChanges
    /\ faults \in 0..MaxFaults
    /\ pc \in {"heartbeat", "renew", "spec", "claim", "apply", "report",
               "result", "sleep", "stopped"}
    /\ reachable \in BOOLEAN
    /\ hadSpec \in BOOLEAN
    /\ declared \subseteq Dest
    /\ taken \subseteq Job
    /\ outcome \subseteq declared
    /\ pc \notin {"claim", "apply", "report", "result"} =>
          declared = {} /\ taken = {} /\ outcome = {}

\* reportResult: a job that is closed as a success had, at that moment, the
\* host's present certificate at every destination it names that this host
\* declares, and at one at least.
SuccessIsInstalled ==
    [][\A j \in Job :
         jobs'[j] = "done" /\ jobs[j] # "done" =>
             DestinationsFor(j) # {} /\ DestinationsFor(j) \subseteq current']_vars

\* reportResult: "Always sent ...  The alternative is a job that sits leased
\* until it times out and is retried forever against a host that will never do
\* it".  With calls lost, answers lost and crashes in between, every job is
\* closed in the end as long as this host declares a destination at all.
Declares == spec.found = "found" /\ spec.destinations # {}
JobsAreAnswered ==
    <>[](Declares /\ ~revoked => \A j \in Job : jobs[j] \in {"none", "done", "failed"})

\* sendInstallations: "a lost report costs nothing because the next one carries
\* everything".  What the core shows of a host that declares destinations ends
\* up being what is there.
CoreSeesTheHost ==
    <>[](spec.found = "found" /\ ~revoked =>
            /\ shown.kind = "list"
            /\ shown.installed = spec.destinations \cap current
            /\ shown.failed = {})

\* hadSpec: "so deleting the spec file reports once rather than going quiet".
RemovalIsShown ==
    <>[](spec.found = "absent" /\ ~revoked => shown.installed \cup shown.failed = {})

\* Run "returns ErrRevoked rather than retrying it": wherever in a cycle the
\* credential is withdrawn, and whatever calls of it fail for that, the agent
\* ends.  What starts it again is the service manager.
RevokedStops == revoked ~> pc = "stopped"
=============================================================================
