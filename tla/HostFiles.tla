------------------------------ MODULE HostFiles ------------------------------
(***************************************************************************)
(* The files of one host over the cycles of the daemon: the spec is read   *)
(* (LoadInstallSpec), every destination it declares is brought into line   *)
(* (Installer.Apply), and the host is scanned and reported (inventoryIfDue *)
(* and ReportInventory, run.go).  InstallSpec has what a destination may   *)
(* say, Inventory what a scan sees, Directories what the host holds.       *)
(*                                                                         *)
(* What installing one destination does is one step here, all of it or     *)
(* none: FileInstall has the steps, the crashes and the rollbacks that     *)
(* fail.  Here there are several destinations, of several kinds, which may *)
(* name the same files.                                                    *)
(*                                                                         *)
(* A definition that stands before another one and has its name and more   *)
(* is that one with a plausible mistake in it, for seeing that a property  *)
(* notices.  Nothing in the specification uses it.                         *)
(***************************************************************************)
EXTENDS InstallSpec, Inventory, Directories

CONSTANTS
    Scenes,     \* hosts: a spec, the administrator's files, links to them, what
                \* a configuration names, which names are asked for, how the core
                \* lists them (asked, reversed, none), how many of the first
                \* issuances come without a chain, and the bounds of that host
    Options     \* what an administrator may write into each field

Readers  == SUBSET {"group", "other"}
Contents == SUBSET {"cert", "chain", "key", "roots"}
Nobody   == <<"", "">>
PathName == [dir : STRING, stem : STRING, suffix : STRING]

\* A scene's bounds are of issuances, of edits of the agent's files by others,
\* and of failing calls and lost reports.
ASSUME HostFilesAssumption ==
    \A s \in Scenes :
        /\ {s.chainless, s.MaxIssued, s.MaxEdits, s.MaxFaults} \subseteq Nat
        /\ DOMAIN s.document = 1..Len(s.document) /\ Len(s.document) \in Nat
        /\ \A i \in DOMAIN s.document :
              /\ DOMAIN s.document[i] = Field
              /\ \A f \in Templated : s.document[i][f] \in PathName
        /\ \A path \in DOMAIN s.tree :
              s.tree[path] \in [holds : Contents, readers : Readers, owner : {Nobody},
                                release : {Unissued, <<"admin", 1>>, <<"admin", 2>>}]
        /\ \A names \in s.requests :
              DOMAIN names = 1..Len(names) /\ Len(names) \in Nat \ {0}
        /\ s.sans \in {"asked", "reversed", "none"}
        \* No link is at a path that is declared: os.Rename would put the file
        \* in the link's place.
        /\ \A i \in DOMAIN s.document : \A f \in PathField :
              Completed(s.document[i])[f] \notin DOMAIN s.links

\* Somebody who fills in a field has a choice: of paths and stores between two,
\* of modes between two that are no key's undoing, of accounts one that is no
\* profile's, and of commands between one and none.
ASSUME OptionsAssumption ==
    /\ \A f \in Templated : \E v, w \in Options[f] :
          {v, w} \subseteq PathName /\ v.stem # w.stem /\ "" \notin {v.stem, w.stem}
    /\ {"PEM", "PKCS12"} \subseteq Options["format"]
    /\ \E v, w \in Options["store"] : v # w /\ "" \notin {v, w}
    /\ \A f \in {"bind", "check", "reload"} : {"[]", "absolute"} \subseteq Options[f]
    /\ \A f \in {"cert_mode", "key_mode"} : {"0600", "0640"} \subseteq Options[f]
    /\ \A f \in {"owner", "group"} : \E v \in Options[f] :
          v # "" /\ \A p \in DOMAIN Catalogue : Catalogue[p][f] # v

VARIABLES
    scene,      \* the host
    spec,       \* the destinations as LoadInstallSpec returns them
    targets,    \* the files render has each of them write
    held,       \* the record of each directory of certificates/
    listed,     \* those the cycle under way has read; between cycles, held
    issued,     \* the core: how many certificates it has issued to this host
    active,     \* the core: those it takes to be in use
    displaced,  \* history: requests that went to a directory already in use
    files,      \* the tree: path to what is there
    serves,     \* the issuance each destination's server has loaded
    outcome,    \* the last Installation of each destination
    place,      \* 0 between cycles, then each destination, then the inventory
    calm,       \* history: since the cycle began nobody else has touched a file
                \* or asked for a certificate
    inventory,  \* the report the core was sent last
    due,        \* inventoryEvery has passed since
    edits,      \* how much of its MaxEdits has been used
    faults      \* how much of its MaxFaults has been used

core == <<held, listed, issued, active, displaced>>
host == <<scene, spec, targets>>
vars == <<host, core, files, serves, outcome, place, calm, inventory, due, edits, faults>>

Document == scene.document
Last     == Len(spec) + 1

Init ==
    /\ scene \in Scenes
    /\ spec = IF Loads(scene.document, scene.windows)
              THEN [i \in DOMAIN scene.document |-> Completed(scene.document[i])] ELSE <<>>
    /\ targets = [i \in DOMAIN spec |-> IF ToStore(spec[i]) THEN <<>> ELSE Render(spec[i])]
    /\ held = [d \in {} |-> Nobody]
    /\ listed = held
    /\ issued = 0
    /\ active = {}
    /\ displaced = 0
    /\ files = scene.tree
    /\ serves = [i \in DOMAIN spec |-> Unissued]
    /\ outcome = [i \in DOMAIN spec |-> [status |-> "pending", release |-> Unissued, id |-> Unissued]]
    /\ place = 0
    /\ calm = TRUE
    /\ inventory = [rows |-> <<>>, truncated |-> FALSE]
    /\ due = TRUE
    /\ edits = 0
    /\ faults = 0

-----------------------------------------------------------------------------
(* What a destination should hold.                                         *)

Fault == faults < scene.MaxFaults /\ faults' = faults + 1

Of(n)        == <<"core", n>>
Paths(i)     == {targets[i][k].path : k \in DOMAIN targets[i]}
InFiles(i)   == ~ToStore(spec[i])

\* applyOne: the directory is looked up in the records of the cycle's start,
\* and its files are read as they are now (readMaterial).
Fulfilled(i) == Holds(listed, spec[i].certificate)
Directory(i) == FindHeld(listed, spec[i].certificate)
Given(i)     == held[Directory(i)]
Wanted(i)    == IF Fulfilled(i) THEN Of(Given(i).release) ELSE Unissued
\* The CertificateID of the report is the record's.
Recorded(i)  == IF Fulfilled(i) THEN Of(listed[Directory(i)].release) ELSE Unissued
\* No issuance brought a chain yet; one that comes without leaves chain.pem.
Bare(i)    == Fulfilled(i) => ~Given(i).chain

\* render refuses a chain_path when there is no chain; fullchain_path it fills.
CanRender(i) == Bare(i) => Keystore(spec[i]) \/ spec[i].chain_path = NoPath

\* owner.apply leaves what no owner or group was declared for.
OwnerOf(i, previous) ==
    IF <<spec[i].owner, spec[i].group>> = Nobody THEN previous
    ELSE <<spec[i].owner, spec[i].group>>

Becomes(i, target) ==
    [holds   |-> IF Bare(i) THEN target.holds \ {"chain"} ELSE target.holds,
     release |-> IF target.holds = {"chain"} THEN Unissued ELSE Wanted(i),
     readers |-> target.readers,
     owner   |-> OwnerOf(i, Nobody)]

\* Of two targets of a destination at one path the later one stays.
TargetAt(i, path) ==
    targets[i][CHOOSE k \in DOMAIN targets[i] :
                 /\ targets[i][k].path = path
                 /\ \A l \in DOMAIN targets[i] : targets[i][l].path = path => l <= k]

Written(i) ==
    [path \in DOMAIN files \cup Paths(i) |->
       IF path \in Paths(i) THEN Becomes(i, TargetAt(i, path)) ELSE files[path]]

SameBytes(file, other) == file.holds = other.holds /\ file.release = other.release

\* matches: every target in turn; a fresh keystore is never the one written.
Matches(i) ==
    /\ ~Keystore(spec[i])
    /\ \A k \in DOMAIN targets[i] :
         /\ targets[i][k].path \in DOMAIN files
         /\ SameBytes(files[targets[i][k].path], Becomes(i, targets[i][k]))

\* enforce: the declared mode and owner, contents untouched.
EnforcedNot(i, paths) == files
Enforced(i, paths) ==
    [path \in DOMAIN files |->
       IF path \in paths
       THEN [files[path] EXCEPT !.readers = TargetAt(i, path).readers, !.owner = OwnerOf(i, @)]
       ELSE files[path]]

\* restore: the bytes and modes of before, under the owner of now.
Restored(i, k) ==
    [path \in DOMAIN files |->
       IF path \in {targets[i][l].path : l \in 1..k}
       THEN [files[path] EXCEPT !.owner = OwnerOf(i, @)] ELSE files[path]]

\* A server that reads its files has an issuance if they are all of one.
Loaded(i, tree) ==
    LET mine     == Paths(i)
        releases == {tree[path].release : path \in mine \cap DOMAIN tree} \ {Unissued}
    IN  IF mine \subseteq DOMAIN tree /\ Cardinality(releases) = 1
        THEN CHOOSE r \in releases : TRUE ELSE Unissued

\* reload comes after the last rename.
ServedBefore(i) ==
    IF Runs(spec[i].reload) THEN [serves EXCEPT ![i] = Loaded(i, files)] ELSE serves
Served(i) ==
    IF Runs(spec[i].reload) THEN [serves EXCEPT ![i] = Loaded(i, Written(i))] ELSE serves

Return(i, status) ==
    /\ outcome' = [outcome EXCEPT ![i] =
                      [status |-> status, release |-> Wanted(i), id |-> Recorded(i)]]
    /\ place' = place + 1

Turn(i) == place = i /\ i \in DOMAIN spec
FilesTurn(i) == Turn(i) /\ Fulfilled(i) /\ InFiles(i)

-----------------------------------------------------------------------------
(* The cycle.                                                              *)

\* InstallCycle reads the spec; of one that does not load nothing is left.
StartCycle ==
    /\ place = 0
    /\ place' = 1
    /\ calm' = TRUE
    /\ UNCHANGED <<host, core, files, serves, outcome, inventory, due, edits, faults>>

Unfulfilled(i) ==
    /\ Turn(i) /\ ~Fulfilled(i)
    /\ Return(i, "unfulfilled")
    /\ UNCHANGED <<host, core, files, serves, calm, inventory, due, edits, faults>>

\* A chain that did not come.
NotRendered(i) ==
    /\ FilesTurn(i) /\ ~CanRender(i)
    /\ Return(i, "failed")
    /\ UNCHANGED <<host, core, files, serves, calm, inventory, due, edits, faults>>

\* The keystore's password cannot be read, or the owner is not known here.
NotResolved(i) ==
    /\ FilesTurn(i) /\ CanRender(i)
    /\ Keystore(spec[i]) \/ OwnerOf(i, Nobody) # Nobody
    /\ Fault
    /\ Return(i, "failed")
    /\ UNCHANGED <<host, core, files, serves, calm, inventory, due, edits>>

UpToDate(i) ==
    /\ FilesTurn(i) /\ CanRender(i) /\ Matches(i)
    /\ files' = Enforced(i, Paths(i))
    /\ Return(i, "installed")
    /\ UNCHANGED <<host, core, serves, calm, inventory, due, edits, faults>>

\* A chmod or chown fails, and the files before it are as declared.
NotEnforced(i) ==
    /\ FilesTurn(i) /\ CanRender(i) /\ Matches(i)
    /\ Fault
    /\ \E k \in 1..Len(targets[i]) : files' = Enforced(i, {targets[i][l].path : l \in 1..(k-1)})
    /\ Return(i, "failed")
    /\ UNCHANGED <<host, core, serves, calm, inventory, due, edits>>

\* write and confirm.
Install(i) ==
    /\ FilesTurn(i) /\ CanRender(i) /\ ~Matches(i)
    /\ files' = Written(i)
    /\ serves' = Served(i)
    /\ Return(i, "installed")
    /\ UNCHANGED <<host, core, calm, inventory, due, edits, faults>>

\* A write or the check fails, and the files before it are put back.
NotInstalled(i) ==
    /\ FilesTurn(i) /\ CanRender(i) /\ ~Matches(i)
    /\ Fault
    /\ \E k \in 0..Len(targets[i]) : files' = Restored(i, k)
    /\ Return(i, "failed")
    /\ UNCHANGED <<host, core, serves, calm, inventory, due, edits>>

\* The reload fails, having taken effect or not, and so may the one onto the
\* files that were put back.
NotReloaded(i) ==
    /\ FilesTurn(i) /\ CanRender(i) /\ ~Matches(i) /\ Runs(spec[i].reload)
    /\ Fault
    /\ files' = Restored(i, Len(targets[i]))
    /\ serves' \in {serves, Served(i), [serves EXCEPT ![i] = Loaded(i, files)]}
    /\ Return(i, "failed")
    /\ UNCHANGED <<host, core, calm, inventory, due, edits>>

\* applyStore, which writes no file.
Import(i) ==
    /\ Turn(i) /\ Fulfilled(i) /\ ~InFiles(i)
    /\ serves' = [serves EXCEPT ![i] = Wanted(i)]
    /\ Return(i, "installed")
    /\ UNCHANGED <<host, core, files, calm, inventory, due, edits, faults>>

\* The next cycle reads the records there are then.
EndCycle ==
    /\ place = Last /\ place' = 0
    /\ listed' = held
    /\ UNCHANGED <<host, held, issued, active, displaced, files, serves, outcome, calm, edits>>

\* inventoryIfDue, when it is not.
SkipInventory ==
    /\ ~due
    /\ EndCycle
    /\ UNCHANGED <<inventory, due, faults>>

\* The heartbeat of this cycle or the report itself did not arrive: the next
\* cycle scans again.
LoseInventory ==
    /\ due
    /\ Fault
    /\ EndCycle
    /\ UNCHANGED <<inventory, due>>

ReportInventoryOnce ==
    /\ due
    /\ EndCycle
    /\ inventory' = IF inventory.rows # <<>> THEN inventory
                    ELSE Scan(files, scene.links, scene.named)
    /\ due' = FALSE
    /\ UNCHANGED faults

ReportInventory ==
    /\ due
    /\ EndCycle
    /\ inventory' = Scan(files, scene.links, scene.named)
    /\ due' = FALSE
    /\ UNCHANGED faults

Cycle ==
    \/ StartCycle \/ SkipInventory \/ LoseInventory \/ ReportInventory
    \/ \E i \in DOMAIN spec :
          \/ Unfulfilled(i) \/ NotRendered(i) \/ NotResolved(i) \/ UpToDate(i)
          \/ NotEnforced(i) \/ Install(i) \/ NotInstalled(i) \/ NotReloaded(i)
          \/ Import(i)

-----------------------------------------------------------------------------
(* What happens around it.                                                 *)

\* The core issues a certificate in place of others and Request saves it.
Obtain(names, others) ==
    /\ issued < scene.MaxIssued
    /\ issued' = issued + 1
    /\ active' = (active \ others) \cup {issued + 1}
    /\ held' = Saved(held, names, scene.sans, issued + 1, issued >= scene.chainless)
    /\ listed' = IF place = 0 THEN held' ELSE listed
    /\ UNCHANGED <<host, files, serves, outcome, place, inventory, due, edits, faults>>

\* `certpilot-agent request', for names of this host: a process of its own, that
\* nothing keeps from saving in the middle of a cycle.
Request(names) ==
    /\ Obtain(names, {})
    /\ calm' = (calm /\ place = 0)
    /\ displaced' = displaced + (IF DirectoryOf(names) \in DOMAIN held THEN 1 ELSE 0)

\* RenewDue, before the installations: for the names of the record, in place of
\* its certificate.
RenewAnew(dir) ==
    /\ place = 0
    /\ Obtain(held[dir].names, {})
    /\ UNCHANGED <<calm, displaced>>

Renew(dir) ==
    /\ place = 0
    /\ Obtain(held[dir].names, {held[dir].release})
    /\ UNCHANGED <<calm, displaced>>

IntervalPasses ==
    /\ ~due
    /\ due' = TRUE
    /\ UNCHANGED <<host, core, files, serves, outcome, place, calm, inventory, edits, faults>>

\* Somebody opens one of the agent's files to everybody, or takes it away.
Edit(path) ==
    /\ edits < scene.MaxEdits /\ path \notin DOMAIN scene.tree
    /\ edits' = edits + 1
    /\ calm' = FALSE
    /\ \/ files' = [files EXCEPT ![path].readers = {"group", "other"}]
       \/ files' = [p \in DOMAIN files \ {path} |-> files[p]]
    /\ UNCHANGED <<host, core, serves, outcome, place, inventory, due, faults>>

Next ==
    \/ Cycle
    \/ IntervalPasses
    \/ \E names \in scene.requests : Request(names)
    \/ \E dir \in DOMAIN held : Renew(dir)
    \/ \E path \in DOMAIN files : Edit(path)

Spec == Init /\ [][Next]_vars
\* A cycle that was begun ends, unless a peer stalls the verify of a store
\* destination (StoreInstall.Stall); time passes.
FairSpec == Spec /\ WF_vars(Cycle) /\ WF_vars(IntervalPasses)

-----------------------------------------------------------------------------
(* Properties.                                                             *)

Issuances == {Of(n) : n \in 1..issued} \cup {Unissued, <<"admin", 1>>, <<"admin", 2>>}

TypeOK ==
    /\ spec = <<>> \/ DOMAIN spec = DOMAIN Document
    /\ issued \in 0..scene.MaxIssued /\ displaced \in 0..issued
    /\ active \subseteq 1..issued
    /\ \A dir \in DOMAIN held :
         /\ held[dir].names # <<>> /\ held[dir].chain \in BOOLEAN
         /\ held[dir].release \in 1..issued
    /\ DOMAIN listed \subseteq DOMAIN held /\ (place = 0 => listed = held)
    /\ \A dir \in DOMAIN listed :
         /\ listed[dir].names # <<>>
         /\ listed[dir].release \in 1..held[dir].release
    /\ \A path \in DOMAIN files :
         /\ files[path].holds \in Contents
         /\ files[path].release \in Issuances
         /\ files[path].readers \in Readers
    /\ serves \in [DOMAIN spec -> Issuances]
    /\ \A i \in DOMAIN spec :
         /\ outcome[i].status \in {"pending", "unfulfilled", "failed", "installed"}
         /\ {outcome[i].release, outcome[i].id} \subseteq Issuances
    /\ place \in 0..Last
    /\ {calm, due, inventory.truncated} \subseteq BOOLEAN
    /\ Cardinality(DOMAIN inventory.rows) <= MaxReported
    /\ edits \in 0..scene.MaxEdits
    /\ faults \in 0..scene.MaxFaults

\* No file has two uses, or they want the same in it.
Apart ==
    \A i, j \in DOMAIN spec : \A k \in DOMAIN targets[i], l \in DOMAIN targets[j] :
        targets[i][k].path = targets[j][l].path => <<i, k>> = <<j, l>>
Consistent ==
    \A i, j \in DOMAIN spec : \A k \in DOMAIN targets[i], l \in DOMAIN targets[j] :
        targets[i][k].path = targets[j][l].path
            => Becomes(i, targets[i][k]) = Becomes(j, targets[j][l])

\* Request.Renews: "Without it the core recorded the renewal as a new certificate
\* and left the old one ISSUED, alerting later about a certificate nothing was
\* serving".  Every certificate the core takes to be in use is in a directory of
\* this host, where RenewDue finds it, but for those displaced by a request of a
\* person for the same directory -- and the core takes to be in use what the
\* destinations are given.  If the core lists names in another order, a renewal
\* goes to another directory and neither holds.
InUseIsHeld ==
    LET here == {held[dir].release : dir \in DOMAIN held}
    IN  scene.sans # "reversed" =>
            Cardinality(active \ here) <= displaced /\ here \subseteq active

\* validate: "The agent must not create the finding it exists to report."  No
\* spec that loads makes the agent write a key, or leave one, in a file that
\* every account can read: such files are only made by others.
Exposed == {path \in DOMAIN files :
              "key" \in files[path].holds /\ "other" \in files[path].readers}
KeyNeverExposed == [][edits' = edits => Exposed' \subseteq Exposed]_vars

\* validateStore: "a field the operator will believe took effect".  Whatever
\* somebody wrote into a destination that loads, another value of that field
\* would make a difference to what is done.  The exceptions the code makes: a
\* name is a label, a profile fills in what is left, a combined file takes the
\* key's mode whatever cert_mode says (install.go:334), and a PEM destination
\* has no password.
Says(d, f) ==
    /\ f \notin {"name", "profile"} /\ d[f] # Nothing[f]
    /\ f \in {"bind", "check", "reload"} => d[f] # "[]"
Excepted(d, f) ==
    \/ f = "cert_mode" /\ Combined(d)
       /\ {d.chain_path, d.fullchain_path} = {NoPath}
    \/ f \in {"keystore_password", "keystore_password_file"} /\ ~Keystore(d) /\ ~ToStore(d)
Another(f, v) == f \in {"cert_mode", "key_mode"} => IsMode(v)
NothingIgnored ==
    place = 0 =>
        \A i \in DOMAIN spec : \A f \in Field :
            Says(Document[i], f) /\ ~Excepted(spec[i], f) =>
                \E v \in Options[f] \cup {Nothing[f]} :
                    /\ Another(f, v)
                    /\ Effect(Completed([Document[i] EXCEPT ![f] = v])) # Effect(spec[i])

\* confirm: a destination that is reported as installed is served, where a
\* reload is declared and no other destination writes the same files.
SharedIsServed ==
    \A i \in DOMAIN spec :
        InFiles(i) /\ Runs(spec[i].reload) /\ outcome[i].status = "installed"
            => serves[i] = outcome[i].release
\* A rollback may leave the server on what it took back from the files, and a
\* destination that is then given the issuance before finds it there: its
\* directory was overwritten by a request, or the core lists names in another
\* order.
MayFallBack == faults > 0 /\ (displaced > 0 \/ scene.sans = "reversed")
EachIsServed == SharedIsServed \/ ~Apart \/ MayFallBack

\* write: "A key somebody chmodded to 0644 in an incident three weeks ago is
\* exactly the finding ..., and this is the one process in the system that can
\* quietly put it back."  Whatever failed and whatever others did, every file
\* is in the end what its destination says, in bytes, mode and owner.
AsDeclared(i) ==
    \A k \in DOMAIN targets[i] :
        LET target == targets[i][k]
        IN  target.path \in DOMAIN files /\ files[target.path] = Becomes(i, target)
EventuallyAsDeclared ==
    <>[](\/ ~Consistent
         \/ \A i \in DOMAIN spec :
               InFiles(i) /\ Fulfilled(i) /\ CanRender(i) => AsDeclared(i))

Reports == place = Last /\ due /\ ~due'

\* walkRoot: "reporting both would double every certbot host's inventory", and
\* scanConfigReferences, "so a reference to a symlink finds the file it points
\* at".  Unless the report says that it was cut short, every file that holds a
\* certificate and can be told by its name, or a link's, has exactly one row,
\* which says whether a configuration names it.
Visible == {Real(scene.links, Walk[n]) :
              n \in {n \in DOMAIN Walk : LooksLikeCertificate(Walk[n])}}
EveryCertificateIsReported ==
    [][Reports /\ ~inventory'.truncated =>
         \A file \in Visible \cap DOMAIN files : HoldsCertificate(files[file]) =>
            \E n \in DOMAIN inventory'.rows :
                /\ \A m \in DOMAIN inventory'.rows :
                     Real(scene.links, inventory'.rows[m].path) = file <=> m = n
                /\ inventory'.rows[n].referenced
                     <=> \E p \in scene.named : Real(scene.links, p) = file]_vars

\* findPrivateKey: "the kind of false positive that teaches people to ignore
\* the real ones".  A key that is reported as not matching is in the same file
\* or goes by the certificate's own name.
AlarmsAreReal ==
    \A n \in DOMAIN inventory.rows :
        LET row == inventory.rows[n]
        IN  row.key # NoPath /\ ~row.matches
              => row.key.dir = row.path.dir /\ row.key.stem = row.path.stem

\* confirm: "INSTALLED" is said of what is there.  In a cycle during which nobody
\* else touches the files or requests a certificate, what has been reported as
\* installed holds the issuance it was given, which is the one reported, with
\* the declared mode and owner, whatever the destinations after it do and
\* whatever fails of them.  A request saved between two destinations that share
\* files gives the second another issuance than the first was reported with,
\* and one saved before a destination's turn makes the reported id stale.
InstalledIsAsDeclared ==
    calm /\ Consistent =>
        \A i \in DOMAIN spec :
            i < place /\ InFiles(i) /\ outcome[i].status = "installed"
                => AsDeclared(i) /\ {outcome[i].release, outcome[i].id} = {Wanted(i)}

\* Run: "a certificate replaced this cycle is inventoried as the file it is
\* now", and defaultKeyMode: "an install through the nginx profile raised that
\* finding against the file the agent had just written".  A report that follows
\* an installation, in a cycle during which nobody else touched a file or
\* requested a certificate, shows the agent's own leaves as of the issuance
\* that was reported,
\* with a key where a profile laid them out; and a key that the destination
\* wrote itself matches, and is readable by a group only where the spec speaks
\* of a group or of the mode.
SharedWith(d) == IF d.group = "" /\ d.key_mode = "" THEN {} ELSE {"group"}
IsOwn(i, path) == Real(scene.links, path) \in Paths(i)
LaidOut(i) ==
    /\ spec[i].profile # ""
    /\ \A f \in {"cert_path", "key_path", "fullchain_path"} : Document[i][f] = NoPath
LooksWell(row, i) ==
    /\ row.release = outcome[i].release /\ row.release = outcome[i].id
    /\ LaidOut(i) /\ row.path \in Paths(i) => row.key # NoPath
    /\ row.key # NoPath /\ IsOwn(i, row.key)
         => row.matches /\ row.readers \subseteq SharedWith(spec[i])
InstallsLookWell ==
    [][Reports /\ calm /\ Consistent =>
         \A n \in DOMAIN inventory'.rows : \A i \in DOMAIN spec :
             LET row == inventory'.rows[n]
             IN  (/\ InFiles(i) /\ outcome[i].status = "installed"
                  /\ IsOwn(i, row.path) /\ row.kind = "leaf")
                     => LooksWell(row, i)]_vars

\* ReportInventory: lost reports, failed installations and edits included, the
\* core is in the end, between any two cycles, shown the host as it is.
EventuallyKnown ==
    <>[](\/ place # 0 \/ ~Consistent
         \/ inventory = Scan(files, scene.links, scene.named))
=============================================================================
