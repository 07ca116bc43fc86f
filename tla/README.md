# certpilot-agent: specifications and proofs

The agent runs on a host, generates keys there, asks a CertPilot core for
certificates, puts them where the host's servers read them, and reports. This
directory holds TLA+ modules of what it does, the configurations under which
TLC checks them on small instances, and theorems about each module with a state
that TLAPS proves for every size: every invariant and every action
property that a passing run checks, and what the renewal date is computed for.

Run from this directory:

    tlc -workers 2 -config file_cycle.cfg FileInstallMC
    tlapm FileInstallProofs.tla        (and the other modules named *Proofs)

`PROJECT.json` lists the runs, maps definitions to source lines, and lists the
hazards the properties are for and the disagreements the runs found.

## The system

| part | source | state it keeps | operations | what makes it correct |
|---|---|---|---|---|
| enrolment and identity | `enrol.go`, `state.go` | identity key, `agent.json` | `Enrol`, `SaveIdentity`, `LoadIdentity` | an identity that loads is one the core accepted; no orphans without a failure |
| signed client | `client.go` | none | `post` | a revoked credential is told from every other failure |
| run loop | `run.go` | `hadSpec`, failure count | `Heartbeat`, `Run`, `RenewDue`, `InstallCycle` | installs whether or not the core answers, stops when revoked |
| deployments and reports | `deploy.go` | the jobs of one cycle | claim, report, result | a success was installed; jobs get an answer; the core sees what is there |
| issuance | `request.go`, `renew.go` | four files per certificate | `Request`, `save`, `HeldIn`, `RenewDue` | key and certificate belong together; renewals are not lost |
| install spec, profiles | `install.go`, `profile*.go` | one file, read every cycle | `LoadInstallSpec`, `applyProfile`, `validate`, `render` | a broken spec is visible; nothing accepted is ignored; no accepted spec exposes a key |
| file installer | `install.go`, `installfs.go`, `keystore*.go` | captured bytes while it works | write, check, reload, roll back | all of an issuance or none of it, and what is served was checked |
| store installer | `store*.go` | a friendly name in the store | import, bind, reload, verify, settle, roll back | the bound certificate is never taken away |
| inventory | `inventory.go` | none | `Scan`, `inspect`, `findPrivateKey` | one row per certificate file; an alarm is real; the core is shown the host as it is |
| command line, services | `cmd/`, `packaging/` | none | run, install, request, enrol | what ends the agent, and what starts it again |

The parts meet in a few places. The run loop calls `RenewDue` and `InstallCycle`
in one goroutine. An installation reads, through `HeldIn` and `readMaterial`,
the files issuance writes. Commands a person runs (`request`, `install`,
`enrol`) are processes of their own on the same files, and nothing locks
anything. The core is reached by POSTs whose answers may be lost. Servers and
services are reached only by the commands the spec declares.

What is hard here: failures in the middle of a sequence of effects, undone by
hand (both installers); crashes between writes (all parts that write); SIGTERM,
which makes every later command of the cycle fail, the rollback's included;
lost answers and leases (deployments, issuance, enrolment); two processes on one
directory.

## Modules

| module | models | state and actions |
|---|---|---|
| `Destination` | the promise: an installation is one step | files, what is served |
| `FileInstall` | one file destination, any number of installers | `disk` is the files (bytes, mode, owner), `prev`/`written` are `targetFile`'s fields, `pc` is the place in `applyOne`, `write`, `confirm`, `rollback`; one action per call, failing or not |
| `StoreInstall` | one certificate-store destination | `store`, `keys`, `named` are the Windows store; `binding` and `serving` the service; `pc` is the place in `applyStore`, `bindAndProve`, `settle`, `rollbackStore` |
| `Issuance` | one directory of `certificates/`, read and written by any number of processes | `disk` is its four files, each `Open`ed (truncated) and then written; `issued`, `active` are the core's |
| `RunLoop` | the daemon's cycle, a command beside it, and the core's side of both | `pc` is the place in `Run` and `InstallCycle`; `sending` is what `install --force` has still to report; `jobs`, `want`, `shown`, `revoked` are the core's |
| `Renewal` | when a certificate is due | no state: `RenewAt` is `renewAt` on the dates of a record, with the widths of Go's durations |
| `Enrolment` | joining a core | `key`, `state` are the two files; `accepted`, `live` the core's |
| `StateDir` | a whole state directory: extends `Issuance`, instantiates `Enrolment` | `signs` is the identity each process read when it started, `running` says whether the daemon is up; every call to the core needs the identity to be one the core takes |
| `InstallSpec` | what may be declared, and what it makes the agent write | no state: the catalogue, `Completed` is `applyProfile`, `Valid` is `validate`, `Loads` is `LoadInstallSpec`, `Render` is `render` |
| `Inventory` | what a scan reports | no state: `Scan` is a function of a tree of files and links |
| `Directories` | several certificates in one state directory | no state: `Saved` is what `save` does to the directories, `FindHeld` is `findHeld` |
| `HostFiles` | the files of one host: extends `InstallSpec`, `Inventory` and `Directories` | `held` is the record in each directory, `listed` the records the cycle under way has read, `active` what the core takes to be in use, `files` is the tree, `spec` what was loaded, `serves` and `outcome` one entry per destination, `inventory` the report the core has; one action per result of installing a destination, then the inventory step of the cycle |

`FileInstall` refines `Destination` under the mapping at its end: to an observer
who looks at the files only between installations they change from one issuance
to another in one step. `RunLoop` uses the installers by their outcome only, and
both installers use issuance by its outcome only (`Issue`); `Issuance` has the
other side of that, the reading of the files an installation does. `HostFiles`
takes the installation of one destination as one step, done or not done, which
is what `DestinationSpec` says of `FileInstall` where nothing crashed, and looks
at what comes of several destinations on the same files and at what a scan then
finds; what a person requests may be saved between any two destinations of a
cycle. `StateDir` puts enrolment, issuance and the daemon on one directory.

Abstractions, in the same words everywhere. A key, certificate and chain that
were issued together are one number, a *release* or *certificate*; the bytes of
a file are the number they come from, 0 where there is no file. A file that was
truncated and not filled is `Torn`. A history variable (`intact`, `before`,
`asked`) is read by properties only. Every failing call, lost answer, crash,
stop and foreign edit uses up one of `MaxFaults`. In `StoreInstall` a
certificate has one key container; what Windows does with the container of an
earlier import of the same certificate is not modelled. In `InstallSpec` and
`HostFiles` a path is a directory, a stem and a suffix; a mode is the accounts
beside the owner that may read; a file is what it holds and of which issuance.
A *scene* of `HostFilesMC` is a host: its spec, the administrator's files and
links, what a configuration names, and the bounds of that host. The core, the Windows
store's callers, the server and the people are external: they do whatever the
code in `src/` has to expect of them.

A module `<name>MC` gives the constants of `<name>` values for TLC, and
`<name>Proofs` holds its theorems: `FileInstall`, `StoreInstall`, `Issuance`,
`RunLoop`, `Enrolment`, `Renewal`, `StateDir` (which instantiates `EnrolmentProofs`
and extends `IssuanceProofs`) and `HostFiles`, whose proofs are also those of
`InstallSpec`, `Inventory` and `Directories`.

A definition whose name extends the name of the one after it (`TidyNever`
before `Tidy`) is that one with a plausible mistake. The specifications do not
use it; it shows that a property notices the mistake.

## Runs

Runs that pass:

| run | question | bounds | states |
|---|---|---|---|
| `file_cycle` | Do the files, the server and the report agree whatever fails, and is an installation one step of `Destination`? | 3 files, the administrator's release and 2 of the agent's, 4 faults, check and reload, crashes | 127 000 |
| `file_two` | Do two installers at once, crashing, with other programs editing, leave files that are repaired in the end? | 2 processes, 2 files, 3 releases, 1 fault, no commands | 778 000 |
| `store_replace` | Does the bound certificate survive its replacement, and every way that fails, and is what the administrator put into the store left alone? | 3 issuances and one certificate of the administrator, 3 faults, reload and verify, with and without bind, handshakes that stall | 250 000 |
| `loop` | Are jobs answered truthfully, does the core see the host, and does a revoked agent stop? | 3 destinations of 2 certificates, 1 job, 2 changes, 2 faults, revocation | 760 000 |
| `state_dir` | Is an identity that loads the core's, are files written in an order that can be relied on, and does a host that enrols again, under a running daemon, come to renew with what it holds? | 1 process and the daemon, 3 demands of which one brings no chain, 2 enrolments, 2 faults of issuance and 1 of enrolment | 670 000 |
| `host_files` | Does what is declared take effect and nothing else, does no accepted spec expose a key, is what the core takes to be in use held here, are modes and files put back, and does the inventory tell the truth about it? | some 550 hosts: one destination that differs from a usual one in one or two fields, pairs of usual ones, certbot's links, files put there by hand, certificates that share names or a directory; up to 3 issuances, 1 edit, 1 fault; certificates requested between any two steps | 62 000 |

Runs that find a disagreement with what the repository says:

| run | says | the run shows |
|---|---|---|
| `file_keystore` | `deploy.go:20` nothing is written or reloaded unless the bytes differ | a PKCS12 keystore is encoded with fresh salts, so it is rewritten and reloaded every cycle |
| `store_forced` | `store.go:552` removing a certificate a binding still names is worse than the failure | a forced deployment of the bound certificate that fails removes it |
| `issuance_key` | `request.go:147` what a failed save leaves is inert | on renewal it is the key of the certificate in use that was overwritten, and the pair is installed |
| `issuance_record` | `request.go:250` the next cycle tries again | a record cut short hides the certificate from every later cycle |
| `loop_removed` | `run.go:40` deleting the spec reports once | the one report is lost, and the core shows the old destinations for ever |
| `host_shared` | `docs/platforms/dovecot.md:48` two destinations of one certificate are reloaded independently | the profiles name the same files, so the second destination finds them up to date, is reported as installed, and its service is never reloaded |

Three remarks that have no run. `run.go:138` says that a revoked agent which kept
trying would be "a withdrawn credential knocking every five minutes"; the agent
does stop (`RevokedStops`), and `Restart=always` with `RestartSec=30` in
`packaging/certpilot-agent.service` starts it again for as long as the unit is
there, which `cmd/service_windows.go:138` takes care to avoid. Two destinations that
disagree about the bytes of a file rewrite it and reload their services in every
cycle, one after the other; `Consistent` leaves them out of the properties. And
a renewal goes to the directory of the first name in the record, which is the
core's list: where the core lists the names in another order than they were
asked for, the first renewal makes a second directory, the first one is due in
every cycle from then on, each of its renewals overwrites a certificate the core
takes to be in use, and a destination is given whichever directory sorts first.
`InUseIsHeld` is violated by that as soon as its first condition is dropped.

Bounds. Three files give a first, a middle and a last one to the loops of
`write` and `restore`. Three releases give the administrator's, one to replace
and one to replace it with. The fault bounds let a failure, a failure of its
rollback, and a stop or crash on top happen in one installation and in two
consecutive ones; in `file_cycle` four faults let a check fail and every file
fail to come back. The invariants and liveness properties of `file_cycle` (with
two files) also hold with 6 faults, those of `loop` with two destinations and 4
faults or 3 changes, and those of `state_dir` with 3 enrolments and 1 fault.
In `host_files`, `MaxFiles` and `MaxReported` are small enough that a walk is cut
short and that a report is, each without the other. One field away from a usual
destination reaches every rule of `validate` on its own; two fields reach the
rules about combinations.

What the properties leave out, and why it is left out:

- `WholeAtRest`, `ServedWasVetted`, `InstalledMeansServed` and `EventuallyServed`
  speak of behaviours without a crash after a write, a file that could not be
  put back, or a foreign edit (`intact`). The code has no way to keep them:
  what was captured is in memory, and a file that matches is not loaded again.
- `BoundSurvives` and `RolledBackMeansRebound` leave out a bind command that was
  reported as failed and took effect, which the agent cannot see, and a forced
  installation of the certificate in use, which is what `store_forced` shows.
- `RolledBackMeansRebound` promises that the service is back on what it was on,
  or on a certificate under the agent's name. The second is the weaker: after a
  crash between the bind and the name, a failed naming, or a failed tidying that
  left two names, the name is on an older certificate than the service is on;
  a renewal that fails then returns the service to the older one, and its report
  says RolledBack all the same. The agent has only the name to go by.
- `EventuallyInstalled` has a way out: a handshake that stalls for ever (see
  Fairness).
- `OrphansPerFailure`, `LeftBehindPerFailure` and `InUsePerDemand` count: a
  certificate, key or agent nobody uses is allowed when a failure of its own
  left it, never otherwise.
- `BoundSurvives`, `RolledBackMeansRebound`, `NamedWasBound` and
  `EventuallyInstalled` speak of destinations with a bind command. Without one
  `settle` removes the previous certificate although the agent has re-pointed
  nothing (`store.go:516`), and whether a service has found the new one by then
  is not the agent's to know.
- `EventuallyRenewedAll` holds while the record can be read, which is what
  `issuance_record` is about.
- `ReadTogether` lets an issuance that came without a chain be read with the
  chain of the one before, because `save` leaves `chain.pem` as it was
  (`request.go:157`).
- `EachIsServed` speaks of destinations with files of their own; `SharedIsServed`
  is the same without that, and `host_shared` refutes it. It also leaves out
  `MayFallBack`, a case the attempt to prove it found and the scene `Alone` now
  reaches: a reload is reported as failed and took effect, and the rollback
  puts the files back under a server that has loaded the newer release; then the
  destination is given the older one again, because a person's request
  overwrote its directory or the core lists the names in another order; the
  files match, and the destination is reported as installed without a reload.
- `InUseIsHeld` leaves out cores that list names in another order (see above),
  and counts the certificates a person's request displaced: `slugOf` sends
  `*.example.com` and `example.com` to one directory, and a second request for
  the same first name goes where the first one went.
- `EventuallyAsDeclared`, `EventuallyKnown` and `InstallsLookWell` leave out
  destinations that disagree about a file (`Consistent`).
- `InstallsLookWell` also leaves out a cycle in which somebody else touched the
  files or requested a certificate while it ran (`calm`). `certpilot-agent
  request` is a process of its own, and a cycle reads the records once (`listed`)
  but the files at each destination: of two destinations that share files the
  second then overwrites what the first was reported with, and an id that is
  reported may be an older issuance's than the bytes. A request between two
  cycles takes nothing away from the property, and the two `Eventually`
  properties hold with requests at any moment.
- No link is at a path that a destination declares (`HostFilesAssumption`):
  `os.Rename` would put the file in the link's place, and in the models a link
  stays one. Links elsewhere in the tree are in.
- A person's `request` is one step in `HostFiles`. `Issuance` has the four files
  one by one; an installation that reads in the middle of another process's save
  is in neither, and is listed as a hazard.
- `InstallsLookWell` speaks of the destination's own files. A key of somebody
  else's that a conventional name leads to beside an installed certificate gets a
  row that says so, and rightly. That a key is found at all is claimed where a
  profile laid the files out (`LaidOut`): a path written in the spec may put the
  key where no conventional name leads.
- `NothingIgnored` names the fields the code ignores on purpose: `cert_mode` of a
  combined file, and a password on a PEM destination. That `reload` of a store
  destination may be a relative path, which `validate` refuses everywhere else,
  is a rule `validateStore` does not have and the model does not either.
- `AlarmsAreReal` and `EveryCertificateIsReported` are about the rows. Of a file
  and a link to it the first the walk meets is the row; under certbot that is
  `archive/<name>/cert1.pem`, beside which no conventional name leads to the key.

Fairness. The daemon is one goroutine driven by a timer. Commands are killed at
`commandTimeout` and requests at the client's timeout, so the steps of a process
are weakly fair as a whole, without any choice among them: a failing call is as
fair as one that succeeds, and only the bound on faults makes failures stop. One
call has no end of its own: `verifyServes` does not use its context and dials with
a zero `net.Dialer`, so a peer that accepts and does not finish the handshake holds
`verify` past `verifyTimeout`, and the cycle with it. In `StoreInstall` that is a
step (`Stall`), its end is promised by nobody (`StallEnds` is not in the fair
`Step`), and `EventuallyInstalled` holds unless the handshake stalls for ever. The
other modules take a cycle to end: their liveness properties are about hosts on
which no store destination declares an endpoint to verify, or its peer hangs up. `StartRenew` is
strongly fair, because the daemon renews on every cycle while a person's
commands may interrupt it being enabled. A lease runs out, and systemd restarts
what has exited. In `StateDir` the daemon is started again after it ended (by a
service manager, or by the person whom its error message tells to), a running
one is weakly fair as a whole, and its heartbeat and its renewals are strongly
fair, because they come round in every cycle while a person's commands may
interrupt them being enabled. In `HostFiles` the cycle is weakly fair and so is
the passing of `inventoryEvery`. Nobody is bound to run a command, edit a file,
enrol again or revoke anything.

In every run the daemon goes on for ever, so a state with no step would be an
error, and deadlock checking is on.

## Proofs

Eight modules of theorems, for every value of the constants that the
assumption named in each module (`FileInstallAssumption` and so on) admits: any
number of files, certificates, faults, jobs, destinations, directories, and any
scene of a host. Those assumptions say which constants are numbers, functions or
sets of what; TLC evaluates them in every run.

### The file installer

| theorem | says | assumes besides |
|---|---|---|
| `TypeCorrect` | `Spec => []TypeOK` | nothing about the number of installers |
| `FilesStayWhole` | `Spec => []WholeAtRest` | one installer |
| `ServerStaysVetted` | `Spec => []ServedWasVetted` | one installer |
| `RollbackRestores` | `Spec => RolledBackMeansRestored` | one installer, no foreign edits |
| `InstalledIsServed` | `Spec => []InstalledMeansServed` | one installer |
| `ImplementsDestination` | `Spec => DestinationSpec` | one installer |

One installer is not a convenience: with two, each may capture what the other
has half written, and `WholeAtRest` is false.

`TypeOK` alone is not inductive in the shape the provers want, so
`TypeInv` splits it into what all installers share and what each keeps, with the
index of a loop in its range. `WholeAtRest` says nothing while an installer is
at work, so the invariant has to say what is on disk at every step of it:
before the first write the files are whole; while writing, the files below the
loop's index are of the new release and marked written, and the others are as
they were found; while undoing, the files still marked are of the new release
and the rest are back; and what was captured is what was found, because nobody
else writes. `ServedWasVetted` joins the same invariant, since a reload loads
the files as they are: it is only reached past the check, with every file of the
release the check accepted. `RollbackRestores` needs in addition that an
installer that works has not reported yet.

`InstalledIsServed` is the harder one, because an installation that finds the
files as they should be reports INSTALLED without a reload: it is right only if
every earlier way of leaving the release on disk had loaded it. `ReportInv` says
so: if the release the host holds is at every path, the server has loaded it
(`InUse`). A new issuance does not break it, because no file can hold a release
that did not exist yet (`Ordered`); a rollback does not, because it leaves the
files of before, of which the same was true; an installation that wrote does
not, because it ends with the reload. `ImplementsDestination` adds that the
reload steps are only reached where one is declared, and maps each action to
the step of `Destination` it shows as: the last write, the check or the reload
that completes an installation is `Install`, a reload that was reported failed
and took effect is `Stray`, the reload onto restored files is `Recover`, a crash
after a write, a lost file or an edit is `Damage`, and the rest show as nothing.

### The store installer

`StoreInstallProofs` assumes nothing further.

| theorem | says |
|---|---|
| `TypeCorrect` | `Spec => []TypeOK` |
| `OthersStay` | `Spec => OthersAreLeftAlone` |
| `NamedIsBound` | `Spec => []NamedWasBound` |
| `BoundStays` | `Spec => BoundSurvives` |
| `RolledBackIsRebound` | `Spec => RolledBackMeansRebound` |
| `LeftIsPaidFor` | `Spec => []LeftBehindPerFailure` |

`WorkInv` says what an installation remembers at each place of it, `NameInv`
which certificates carry the friendly name there, and `BoundInv` what the
service is bound to: what it was until the bind, the new certificate after it,
the previous one after a rollback. The name is how the agent finds the previous
certificate, so `BoundInv` needs `NameInv`: the certificate `settle` removes is
not the bound one because the name was on a certificate older than the one
being installed. `LeftInv` counts what nobody uses. Between installations that is
at most one per failure (`Kept`); while one is under way it is counted beside
the certificate to install, the bound one and the previous one, and a certificate
that was imported and cannot be removed is covered by the fault that began the
rollback (`Budget`).

### Issuance, enrolment, and the directory of both

| module | theorem | says | assumes besides |
|---|---|---|---|
| `IssuanceProofs` | `TypeCorrect` | `Spec => []TypeOK` | |
| | `NoFileAhead` | `Spec => []WrittenInOrder` | one process |
| | `IsReadTogether` | `Spec => []ReadTogether` | one process |
| | `UseIsPaidFor` | `Spec => []InUsePerDemand` | one process |
| `EnrolmentProofs` | `TypeCorrect` | `Spec => []TypeOK` | bounds that are numbers |
| | `LoadedIsWhole` | `Spec => []LoadableIsOne` | and one enrolment at a time |
| | `ToldIsLoadable` | `Spec => ToldMeansLoadable` | the same |
| | `OrphansArePaidFor` | `Spec => []OrphansPerFailure` | the same |
| `StateDirProofs` | `ImplementsEnrolment` | `SpecAll` implements `Enrolment` | |
| | `TypeCorrectAll` | `SpecAll => []TypeOKAll` | |
| | `NoFileAheadAll`, `IsReadTogetherAll`, `UseIsPaidForAll` | the three of issuance for `SpecAll` | one process |
| | `IdentityIsWhole`, `ToldIsLoadable`, `OrphansArePaidFor` | the three of enrolment for `SpecAll` | one process |

One process at a time is what the three properties of `save` need: two that
save at once mix their files, which nothing locks. Crashes, lost answers, faults of
every call and the removal of the directory under a running daemon are in.

`OrderInv` adds to `WrittenInOrder` what a `save` has written before it comes to
a file, and that the file it is at is cut short between its truncation and its
writing. `ReadInv` says that the four files are of one issuance while nobody
saves and no save was interrupted, and that what was read so far is what is
there, or the directory has gone since. `DemandInv` counts: the certificates
the core takes to be in use, with the one recorded here, are never more than
the requests that replaced nothing and the faults. A request that replaces
nothing makes room for its certificate before it asks; one that renews takes
the place of the recorded one; and what a lost answer or a save cut short leaves
behind is paid for by that fault. For enrolment `IdentityInv` says that
`agent.json` is gone by the time the key is touched, and that the key is the one
of the enrolment under way by the time `agent.json` is written; two enrolments
at once break exactly that.

`StateDirProofs` uses them all. A step of `StateDir` is a step of `Enrolment`, or
one of `Issuance` made with an identity the core takes, or one of those it adds:
a call or a heartbeat refused because of the identity, the daemon started or
ended, and starting over with the directory removed. Each of them is a step of
`Enrolment` on the identity or leaves it alone, so that the theorems about
`Enrolment` hold as they are; for the certificate the step lemmas of
`IssuanceProofs` are cited, and what `StateDir` adds is proved beside them.

### When a certificate is due

`RenewalProofs` assumes of `MaxDuration`, the longest duration, only that it is a
positive number. The dates are any.

| theorem | says of every record of a certificate |
|---|---|
| `AThirdIsLeft` | a date that replaces the core's leaves a third of the life |
| `TheCoreIsObeyed` | the core's date is taken where it can be meant, and is never anticipated |
| `NoOrderOnEveryCycle` | a certificate is due as it is issued only where the core says so |
| `AskedInTime` | by the expiry the host asks, unless the core named a later date |
| `TooLongIsAskedAtOnce` | beyond 146 years of life the rule fails |

The first three are about lives twice of which a duration can hold. `life * 2 / 3`
multiplies first: twice a longer life wraps to a negative number, and the date
that was to end the orders on every cycle is not after the issuance. Only a core
whose lead is longer than that reaches this, which is why it is a remark and
not a finding. `state_dir` evaluates all five over small dates, with a duration
of five bits, so that a life can be negative, counted, too long or saturated
(`RenewalIsSound` in `StateDirMC`).

### The run loop

| theorem | says |
|---|---|
| `TypeCorrect` | `Spec => []TypeOK` |
| `SuccessWasInstalled` | `Spec => SuccessIsInstalled` |

No further assumption: any number of destinations and jobs, with commands,
edits of the spec, crashes, lost answers and revocation at any moment. The
invariant is that what a cycle knows to be installed is current
(`OutcomeIsCurrent`): whatever makes a destination out of date while the outcome
of a cycle is still to be reported would break it.

### The files of a host

`HostFilesProofs` assumes nothing further: any spec, any tree of files, links
anywhere but at a destination's path, any limits, requests at any moment, and
whatever there is to choose from for a field, as long as it is a choice
(`OptionsAssumption`).

| theorem | says |
|---|---|
| `TypeCorrect` | `Spec => []TypeOK` |
| `KeysStayUnexposed` | `Spec => KeyNeverExposed` |
| `NoneForgotten` | `Spec => []InUseIsHeld` |
| `InstalledIsServed` | `Spec => []EachIsServed` |
| `NoFalseAlarm` | `Spec => []AlarmsAreReal` |
| `NothingOverlooked` | `Spec => EveryCertificateIsReported` |
| `NoFieldIgnored` | `Spec => []NothingIgnored` |
| `InstalledStaysAsDeclared` | `Spec => []InstalledIsAsDeclared` |
| `InstalledIsShown` | `Spec => InstallsLookWell` |

`KeysStayUnexposed` rests on what a destination that loads can be made to write
(`SafeTarget`): `validate` refuses a key's mode that everybody can read, and
`render` puts a key in no other file. `InUseInv` strengthens `InUseIsHeld` with what makes a
renewal end the issuance it replaces: the first name of a record leads to its
directory, and no two directories hold one issuance. `ServedInv` has two reasons
why files that match need no reload. As long as nothing failed, the server has
what its files were written with (`HasWritten`). After a failure only the files that
are wanted say what the server has (`HasWanted`), and only while what is wanted is
never an issuance that was wanted before; where it can be, `MayFallBack`.
A certificate requested in the middle of a cycle either displaces one, which
after a failure is in `MayFallBack`, or goes to a directory of its own, which the
cycle has not read, and no file holds it yet (`FreshInv`).
The two about the inventory follow the walk: every visible file or link is
visited, the first visit to a file makes its row, and no second visit makes
another.

`NoFieldIgnored` is a theorem about `validate` and `render` more than about the
cycle: the spec a state holds is a document that loads (`LoadedInv`), and of one
destination that is accepted the lemmas show field by field that a value which
was written there can be exchanged for another that changes what is done. What
is written is what `validate` sees, under its placeholders (`DeclaredIsSeen`);
exchanging it changes nothing `validate` sees elsewhere (`OneFieldApart`); what
is done tells the certificate, the store, the accounts, the passwords and which
commands run (`EffectTells`), and of the files where in `render`'s list each is,
with its path and mode (`RenderInOrder`). Where a field would go unseen, the
destination was not accepted: a store destination with a path, a mode or a
check, a keystore with a chain, a PEM destination with an alias. A rule dropped
from `ValidStore` or `ValidKeystore` leaves one of these cases open. The theorem
says that another value makes a difference, not that this value too would be
accepted. `OptionsAssumption` says what an administrator can choose from: two
paths with different names for each path field, two stores, both formats, two
modes, a command or none, and an account that no profile of the catalogue
already has; without it there would be no other value to try.

`InstalledIsShown` needs to know what a cycle leaves on disk when its report is
made, and that is `InstalledStaysAsDeclared`: a destination installed early in a
cycle still has its bytes, modes and owners after the later destinations wrote,
failed and rolled back. No run checks `InstalledIsAsDeclared` by itself; it is
the invariant behind `InstallsLookWell`. It holds because destinations that share a file
declare it alike (`DeclaredAlike`): what another one writes, or a rollback of
another one puts back, is what was there. For the rollback that takes a second
invariant: `enforce` leaves an owner alone that the spec does not name, so a file's owner
is nobody's or one that some destination declares for it (`OwnedInv`). And for the release and the id that are reported, a third: while
nobody requests a certificate in the middle of a cycle, the records the cycle has
read are the ones that are there (`CalmInv`). The rest
is about the report: a row that is a leaf in the destination's file has its
release; a key in the destination's file is the key of that release, in the
mode that was declared or the default (`OwnRowLooksWell`); and each profile of the catalogue
gives key and certificate names that `findPrivateKey` brings together
(`ProfilesLayOut`, `KeyIsFound`). The attempt to prove an earlier form of
`InstallsLookWell` showed that it held only of the scenes a run enumerates: a
`haproxy` destination with a `fullchain_path`, or a stranger's key beside the
certificate, would have refuted it.

### Only model-checked

- Liveness: `EventuallyServed`, `EventuallyRepaired`, `EventuallyInstalled`,
  `EventuallyAsDeclared`, `EventuallyKnown`, `EventuallyItself`,
  `EventuallyRenewedAll`, `JobsAreAnswered`, `CoreSeesTheHost`, `RevokedStops`.
  TLAPS proves nothing under fairness.
- The runs that find a disagreement, which show a behaviour.

## Plan

The order in which the modules were and will be written, the most important
behaviour first.

1. Done: `Destination`, `FileInstall` and its proofs; `StoreInstall`;
   `Issuance`; `RunLoop`; `Enrolment`.
2. Done: `install --force` and `--offline` beside the daemon (`RunLoop`); a
   store destination without a bind command; an issuance without a chain; the
   spec, its validation and the catalogue (`InstallSpec`); the inventory and
   its step of the cycle (`Inventory`); several destinations on the same files
   and several certificate directories (`HostFiles`, `Directories`); identity,
   issuance and daemon on one directory (`StateDir`).
3. Left to model: `certpilot-agent install` without a flag as a second process
   of `RunLoop` that claims beside the daemon; `backoff` as a function checked
   against what it is for; `Issuance` writing what `FileInstall` reads, step by
   step.
4. Abstract specifications left to state: a deployment job as the core sees it,
   refined by `RunLoop`. A store destination as a binding that moves in one step
   was considered and dropped: where the rollback cannot rebind, or nothing was
   bound before, a failed installation leaves the new certificate bound, so that
   the one step would promise less than `BoundSurvives` and
   `RolledBackMeansRebound` do.
5. Proved: every invariant of a passing run, every action property, that
   `FileInstall` implements `Destination` and `StateDir` implements `Enrolment`,
   and what `renewAt` is for. Left to prove: the refinement of item 4 once it is
   stated.

## Not modelled

Permissions and access lists beyond who may read (system calls whose failure is
a failing write here), the parsing and encoding of keystores, the signing of
requests, Windows service registration, the intermediates a store destination
adds to the CA store, and everything that is text: the paths a configuration
names are given, not parsed. A scan's depth limit, its list of skipped
directories, files over `maxFileBytes` and DER are left out: the tree of a model
is what lies within them. Lengths of time are left out except in
`Renewal`: elsewhere a timeout, a lease and a renewal date are the moment they
pass. The temporary files `writeAtomic` may
leave after a crash, and commands that never return although they were killed,
are listed as hazards no property covers.
