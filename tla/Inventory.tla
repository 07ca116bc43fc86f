------------------------------ MODULE Inventory ------------------------------
(***************************************************************************)
(* What a scan of the host reports: Scan, walkRoot, inspect, findPrivateKey *)
(* and scanConfigReferences (inventory.go).                                *)
(*                                                                         *)
(* A tree is a function from paths to files, and links a function from     *)
(* paths to paths.  A file is what it holds -- certificate, chain, key, or *)
(* a store of roots -- which issuance they are of, and who may read it.    *)
(* Chains and roots are Unissued, and their keys are on no host.           *)
(*                                                                         *)
(* A definition that stands before another one and has its name and more   *)
(* is that one with a plausible mistake in it, for seeing that a property  *)
(* notices.  Nothing in the specification uses it.                         *)
(***************************************************************************)
EXTENDS Naturals, Sequences, FiniteSets
LOCAL INSTANCE InstallSpec

CONSTANTS
    Walk,         \* every path of the scanned directories, as WalkDir visits them
    MaxFiles,     \* maxFiles
    MaxReported   \* maxReported

\* What has no name is a directory, and has no suffix either.
ASSUME InventoryAssumption ==
    /\ Len(Walk) \in Nat /\ DOMAIN Walk = 1..Len(Walk)
    /\ \A n \in DOMAIN Walk : Walk[n].stem = "" => Walk[n].suffix = ""
    /\ MaxReported \in Nat

\* An issuance is a name and a number; this is none.
Unissued == <<"", 0>>

\* EvalSymlinks: links are to files, because those to directories are not followed.
IsDirectory(path) == path.stem = ""
Real(links, path) == IF path \in DOMAIN links THEN links[path] ELSE path

\* Extensions of certificates, and the names they are kept under without one.
LooksLikeCertificate(path) ==
    \/ path.suffix \in {".pem", ".crt", "-key.pem", ".key.pem"}
    \/ path.suffix = "" /\ path.stem \in {"fullchain", "cert", "server", "tls"}

HoldsCertificate(file) == {"cert", "chain", "roots"} \cap file.holds # {}

-----------------------------------------------------------------------------
(* inspect: one row.                                                       *)

\* A store of roots is a bundle; a file that begins with a chain is an
\* authority's.
Kind(file) == IF "roots" \in file.holds THEN "bundle"
              ELSE IF "cert" \in file.holds THEN "leaf" ELSE "ca"

\* The issuance of the first certificate in the file.
Leaf(file) == IF "cert" \in file.holds THEN file.release ELSE Unissued

\* keyCandidates: named after the certificate, and names in common use.
Suffixes == <<".key", "-key.pem", ".key.pem", "_key.pem">>
Names    == <<<<"privkey", ".pem">>, <<"private", ".key">>, <<"server", ".key">>,
              <<"tls", ".key">>, <<"key", ".pem">>>>
Specific(path, n)     == At(path.dir, path.stem, Suffixes[n])
Conventional(path, n) == At(path.dir, Names[n][1], Names[n][2])

HasKey(tree, links, path, p) ==
    /\ p # path
    /\ Real(links, p) \in DOMAIN tree
    /\ "key" \in tree[Real(links, p)].holds
KeyMatches(tree, links, path, p) ==
    tree[Real(links, p)].release = Leaf(tree[Real(links, path)])

\* findPrivateKey: a key under a conventional name counts only if it matches.
Specifically(tree, links, path) ==
    {n \in DOMAIN Suffixes :
       /\ path.suffix \in {".pem", ".crt", ""}
       /\ HasKey(tree, links, path, Specific(path, n))}
ConventionallyAny(tree, links, path) ==
    {n \in DOMAIN Names : HasKey(tree, links, path, Conventional(path, n))}
Conventionally(tree, links, path) ==
    {n \in DOMAIN Names :
       /\ HasKey(tree, links, path, Conventional(path, n))
       /\ KeyMatches(tree, links, path, Conventional(path, n))}

First(places) == CHOOSE n \in places : \A m \in places : n <= m

KeyOf(tree, links, path) ==
    LET file           == tree[Real(links, path)]
        specifically   == Specifically(tree, links, path)
        conventionally == Conventionally(tree, links, path)
    IN  IF Kind(file) = "bundle" THEN NoPath
        ELSE IF "key" \in file.holds THEN path
        ELSE IF specifically # {} THEN Specific(path, First(specifically))
        ELSE IF conventionally # {} THEN Conventional(path, First(conventionally))
        ELSE NoPath

Row(tree, links, named, path) ==
    LET file == tree[Real(links, path)]
        key  == KeyOf(tree, links, path)
    IN  [path |-> path, kind |-> Kind(file), release |-> Leaf(file), key |-> key,
         matches |-> key # NoPath /\ KeyMatches(tree, links, path, key),
         readers |-> IF key = NoPath THEN {} ELSE tree[Real(links, key)].readers,
         \* scanConfigReferences: what a server's configuration names
         referenced |-> Real(links, path) \in {Real(links, p) : p \in named}]

-----------------------------------------------------------------------------
(* walkRoot, for all roots in turn: a place is an index of Walk.            *)

Files        == {n \in DOMAIN Walk : ~IsDirectory(Walk[n])}
Certificates == {n \in Files : LooksLikeCertificate(Walk[n])}

\* A file or link that leads to none is not there to be visited.
IsThere(tree, links, n) == Real(links, Walk[n]) \in DOMAIN tree

\* The walk ends where FilesSeen has reached maxFiles.  A directory's entry
\* comes before its files.
Visited(tree, links, n) ==
    Cardinality({m \in Files : m < n /\ IsThere(tree, links, m)}) < MaxFiles

Found(tree, links, n) ==
    IsThere(tree, links, n) /\ HoldsCertificate(tree[Real(links, Walk[n])])

\* A file reached a second time, by a link, is no second row.
ReportedAgain(tree, links, n) == Found(tree, links, n) /\ Visited(tree, links, n)
Reported(tree, links, n) ==
    /\ Found(tree, links, n) /\ Visited(tree, links, n)
    /\ \A m \in Certificates :
          m < n /\ Found(tree, links, m) => Real(links, Walk[m]) # Real(links, Walk[n])

\* A row for each, in the order of the walk, as far as maxReported goes.
ListedOneMore(places) == {n \in places : Cardinality({m \in places : m < n}) <= MaxReported}
Listed(places) == {n \in places : Cardinality({m \in places : m < n}) < MaxReported}

Scan(tree, links, named) ==
    LET places == {n \in Certificates : Reported(tree, links, n)}
    IN  [rows |-> [n \in Listed(places) |-> Row(tree, links, named, Walk[n])],
         truncated |->
            \/ Cardinality(places) > MaxReported
            \/ \E n \in DOMAIN Walk : /\ n \in Files => IsThere(tree, links, n)
                                      /\ ~Visited(tree, links, n)]
=============================================================================
