--------------------------- MODULE HostFilesProofs ---------------------------
(* Theorems about HostFiles, for every host: whatever an administrator     *)
(* declares, whatever was on the host before, any number of destinations,  *)
(* directories, issuances, edits and failures.                             *)
EXTENDS HostFiles, FiniteSetTheorems, SequenceTheorems, WellFoundedInduction, TLAPS

-----------------------------------------------------------------------------
(* What render writes for a destination that was accepted.                 *)

\* The paths a destination names, and what may be written to one: a file that
\* holds the key is not for everybody.
PathsOf(d) == {d.cert_path, d.key_path, d.chain_path, d.fullchain_path}
SafeTarget(d) ==
    {t \in [path : PathsOf(d), holds : SUBSET {"cert", "chain", "key"}, readers : Readers] :
       "key" \in t.holds => "other" \notin t.readers}

LEMMA ModesRead ==
    ASSUME NEW d, ValidModes(d)
    PROVE  /\ ReadersOf[KeyMode(d)] \in Readers /\ ReadersOf[CertMode(d)] \in Readers
           /\ "other" \notin ReadersOf[KeyMode(d)]
BY DEF ValidModes, IsMode, ReadersOf, KeyMode, CertMode, DefaultKeyMode, Readers

LEMMA TargetIsSafe ==
    ASSUME NEW d, ValidModes(d), NEW p \in PathsOf(d), NEW h \in SUBSET {"cert", "chain", "key"}
    PROVE  /\ Target(p, h, KeyMode(d)) \in SafeTarget(d)
           /\ "key" \notin h => Target(p, h, CertMode(d)) \in SafeTarget(d)
BY ModesRead DEF Target, SafeTarget

LEMMA RenderIsSafe ==
    ASSUME NEW d, ValidModes(d)
    PROVE  /\ Render(d) \in Seq(SafeTarget(d))
           /\ Render(d) # <<>> /\ "cert" \in Render(d)[1].holds
<1>1. /\ \A h \in SUBSET {"cert", "chain", "key"} :
            /\ Target(d.cert_path, h, KeyMode(d)) \in SafeTarget(d)
            /\ Target(d.key_path, h, KeyMode(d)) \in SafeTarget(d)
            /\ "key" \notin h =>
                  /\ Target(d.cert_path, h, CertMode(d)) \in SafeTarget(d)
                  /\ Target(d.chain_path, h, CertMode(d)) \in SafeTarget(d)
                  /\ Target(d.fullchain_path, h, CertMode(d)) \in SafeTarget(d)
  BY TargetIsSafe DEF PathsOf
<1> DEFINE S == SafeTarget(d)
           all   == Target(d.cert_path, {"cert", "chain", "key"}, KeyMode(d))
           cert  == Target(d.cert_path, {"cert"}, CertMode(d))
           key   == Target(d.key_path, {"key"}, KeyMode(d))
           chain == Target(d.chain_path, {"chain"}, CertMode(d))
           full  == Target(d.fullchain_path, {"cert", "chain"}, CertMode(d))
           one   == IF Combined(d) THEN <<all>> ELSE <<cert, key>>
           two   == Unless(d.chain_path = NoPath, <<chain>>)
           three == Unless(d.fullchain_path = NoPath, <<full>>)
<1>2. all \in S /\ cert \in S /\ key \in S /\ chain \in S /\ full \in S
  BY <1>1
<1>3. "cert" \in all.holds /\ "cert" \in cert.holds
  BY DEF Target
<1> HIDE DEF S, all, cert, key, chain, full
<1>4. <<all>> \in Seq(S) /\ one \in Seq(S) /\ two \in Seq(S) /\ three \in Seq(S)
  BY <1>2 DEF Unless
<1>5. one # <<>> /\ Len(one) >= 1 /\ "cert" \in one[1].holds
  BY <1>3
<1> HIDE DEF one, two, three
<1>6. /\ one \o two \in Seq(S) /\ Len(one \o two) = Len(one) + Len(two)
      /\ (one \o two)[1] = one[1]
  BY <1>4, <1>5, ConcatProperties, LenProperties
<1>7. /\ (one \o two) \o three \in Seq(S)
      /\ Len((one \o two) \o three) >= 1
      /\ ((one \o two) \o three)[1] = one[1]
  <2>1. Len(two) \in Nat /\ Len(one) \in Nat /\ Len(three) \in Nat
    BY <1>4, LenProperties
  <2>2. /\ (one \o two) \o three \in Seq(S)
        /\ Len((one \o two) \o three) = Len(one \o two) + Len(three)
        /\ \A k \in 1..Len(one \o two) + Len(three) :
              ((one \o two) \o three)[k] =
                  IF k <= Len(one \o two) THEN (one \o two)[k]
                  ELSE three[k - Len(one \o two)]
    BY <1>4, <1>6, ConcatProperties
  <2> QED
    BY <2>1, <2>2, <1>5, <1>6
<1>8. Render(d) = IF Keystore(d) THEN <<all>> ELSE (one \o two) \o three
  BY DEF Render, one, two, three, all, cert, key, chain, full
<1>9. (one \o two) \o three # <<>>
  BY <1>7, EmptySeq
<1> QED
  BY <1>3, <1>4, <1>5, <1>7, <1>8, <1>9 DEF S

-----------------------------------------------------------------------------
(* Places: the least and the greatest, and how many come first.            *)

LEMMA LeastExists ==
    ASSUME NEW S, S \subseteq Nat, S # {}
    PROVE  \E n \in S : \A m \in S : n <= m
<1>1. PICK n \in S : \A m \in S : ~(<<m, n>> \in OpToRel(<, Nat))
  BY WFMin, NatLessThanWellFounded
<1>2. ASSUME NEW m \in S, m < n PROVE FALSE
  <2>1. <<m, n>> \in Nat \X Nat /\ <<m, n>>[1] < <<m, n>>[2]
    BY <1>2
  <2>2. <<m, n>> \in OpToRel(<, Nat)
    BY <2>1, Zenon DEF OpToRel
  <2> QED
    BY <2>2, <1>1, Zenon
<1>3. \A m \in S : ~(m < n) => n <= m
  OBVIOUS
<1> QED
  BY <1>2, <1>3

LEMMA GreatestExists ==
    ASSUME NEW N \in Nat, NEW S, S \subseteq 0..N, S # {}
    PROVE  \E n \in S : \A m \in S : m <= n
<1> DEFINE Down == {N - n : n \in S}
<1>1. Down \subseteq Nat /\ Down # {}
  <2>1. \A n \in S : n \in 0..N /\ N - n \in Nat
    OBVIOUS
  <2> QED
    BY <2>1
<1>2. PICK x \in Down : \A y \in Down : x <= y
  BY <1>1, LeastExists
<1>3. PICK n \in S : x = N - n
  OBVIOUS
<1>4. ASSUME NEW m \in S PROVE m <= n
  <2>1. x <= N - m
    BY <1>2
  <2> QED
    BY <2>1, <1>3
<1> QED
  BY <1>4

\* The first so many of a set of places are no more than so many.
LEMMA ListedIsBounded ==
    ASSUME NEW places, places \subseteq DOMAIN Walk
    PROVE  /\ IsFiniteSet(Listed(places))
           /\ Cardinality(Listed(places)) <= MaxReported
<1> DEFINE N == Len(Walk)
           L == Listed(places)
<1>0. N \in Nat /\ DOMAIN Walk = 1..N /\ MaxReported \in Nat
  BY InventoryAssumption
<1>1. IsFiniteSet(places)
  <2>1. IsFiniteSet(1..N)
    BY <1>0, FS_Interval, 1 \in Int, N \in Int
  <2> QED
    BY <1>0, <2>1, FS_Subset, places \in SUBSET (1..N)
<1>2. L \in SUBSET places
  BY DEF Listed
<1>3. IsFiniteSet(L) /\ Cardinality(L) \in Nat
  BY <1>1, <1>2, FS_Subset, FS_CardinalityType
<1>4. CASE L = {}
  <2>1. Cardinality(L) = 0
    BY <1>4, FS_EmptySet
  <2> QED
    BY <1>0, <1>3, <2>1
<1>5. CASE L # {}
  <2>1. PICK n \in L : \A m \in L : m <= n
    <3>1. L \subseteq 0..N
      BY <1>0, <1>2
    <3> QED
      BY <1>0, <3>1, <1>5, GreatestExists
  <2> DEFINE before == {m \in places : m < n}
  <2>2. before \in SUBSET places
    OBVIOUS
  <2>3. IsFiniteSet(before) /\ Cardinality(before) \in Nat
    BY <1>1, <2>2, FS_Subset, FS_CardinalityType
  <2>4. L \in SUBSET (before \cup {n})
    BY <1>0, <1>2, <2>1
  <2>5. /\ IsFiniteSet(before \cup {n})
        /\ Cardinality(before \cup {n}) = Cardinality(before) + 1
    <3>1. n \notin before
      BY <1>0, <1>2
    <3> QED
      BY <2>3, <3>1, FS_AddElement
  <2>6. Cardinality(L) <= Cardinality(before \cup {n})
    BY <2>4, <2>5, FS_Subset
  <2>7. Cardinality(before) < MaxReported
    BY <2>1 DEF Listed
  <2> HIDE DEF L, before
  <2>8. Cardinality(L) <= MaxReported
    BY <1>0, <1>3, <2>3, <2>5, <2>6, <2>7
  <2> QED
    BY <1>3, <2>8 DEF L
<1> QED
  BY <1>4, <1>5

-----------------------------------------------------------------------------
(* What is so of a host from its first state on.                           *)

\* Every destination that was accepted is rendered, and into what is safe.
HostInv ==
    /\ scene \in Scenes
    /\ Len(spec) \in Nat /\ DOMAIN spec = 1..Len(spec)
    /\ spec = <<>> \/ DOMAIN spec = DOMAIN Document
    /\ targets = [i \in DOMAIN spec |-> targets[i]]
    /\ \A i \in DOMAIN spec :
         /\ targets[i] \in Seq(SafeTarget(spec[i]))
         /\ InFiles(i) => targets[i] # <<>> /\ "cert" \in targets[i][1].holds

LEMMA CompletedIsValid ==
    ASSUME NEW document, NEW windows, Loads(document, windows), NEW i \in DOMAIN document,
           ~ToStore(Completed(document[i]))
    PROVE  ValidModes(Completed(document[i]))
BY DEF Loads, Accepted, Valid, ValidFiles

LEMMA HostStarts == Init => HostInv
<1> SUFFICES ASSUME Init PROVE HostInv
  OBVIOUS
<1> DEFINE doc == scene.document
           made == [i \in DOMAIN doc |-> Completed(doc[i])]
           loads == Loads(doc, scene.windows)
<1>1. scene \in Scenes /\ DOMAIN doc = 1..Len(doc) /\ Len(doc) \in Nat
  BY HostFilesAssumption DEF Init
<1>2. spec = IF loads THEN made ELSE <<>>
  BY DEF Init
<1>3. targets = [i \in DOMAIN spec |-> IF ToStore(spec[i]) THEN <<>> ELSE Render(spec[i])]
  BY DEF Init
<1>4. made \in Seq({Completed(doc[i]) : i \in DOMAIN doc})
  <2>1. made \in [1..Len(doc) -> {Completed(doc[i]) : i \in DOMAIN doc}]
    BY <1>1
  <2> QED
    BY <1>1, <2>1, SeqDef
<1>5. Len(made) \in Nat /\ DOMAIN made = 1..Len(made) /\ DOMAIN made = DOMAIN doc
  BY <1>4, LenProperties
<1>6. Len(<<>>) = 0 /\ DOMAIN <<>> = 1..0
  OBVIOUS
<1>7. /\ Len(spec) \in Nat /\ DOMAIN spec = 1..Len(spec)
      /\ spec = <<>> \/ DOMAIN spec = DOMAIN doc
  <2> HIDE DEF made, loads
  <2> QED
    BY <1>2, <1>5, <1>6
<1>8. ASSUME NEW i \in DOMAIN spec
      PROVE  /\ targets[i] \in Seq(SafeTarget(spec[i]))
             /\ InFiles(i) => targets[i] # <<>> /\ "cert" \in targets[i][1].holds
  <2>1. CASE ToStore(spec[i])
    BY <1>3, <2>1, EmptySeq DEF InFiles
  <2>2. CASE ~ToStore(spec[i])
    <3>1. loads /\ i \in DOMAIN doc /\ spec[i] = Completed(doc[i])
      <4>1. loads
        BY <1>2, <1>6
      <4> QED
        BY <4>1, <1>2, <1>5
    <3>2. ValidModes(spec[i])
      BY <2>2, <3>1, CompletedIsValid
    <3>3. targets[i] = Render(spec[i])
      BY <1>3, <2>2
    <3> QED
      BY <3>2, <3>3, RenderIsSafe
  <2> QED
    BY <2>1, <2>2
<1> QED
  BY <1>1, <1>3, <1>7, <1>8 DEF HostInv, Document

LEMMA HostIsGiven == [Next]_vars => scene' = scene /\ spec' = spec /\ targets' = targets
<1>1. [Next]_vars => UNCHANGED host
  BY DEF Next, Cycle, StartCycle, Unfulfilled, NotRendered, NotResolved, UpToDate,
         NotEnforced, Install, NotInstalled, NotReloaded, Import, SkipInventory,
         LoseInventory, ReportInventory, EndCycle, IntervalPasses, Request, Renew, Obtain, Edit,
         vars, host
<1> QED
  BY <1>1 DEF host

LEMMA HostStays == HostInv /\ [Next]_vars => HostInv' /\ UNCHANGED host
<1> SUFFICES ASSUME HostInv, [Next]_vars PROVE HostInv' /\ UNCHANGED host
  OBVIOUS
<1>1. scene' = scene /\ spec' = spec /\ targets' = targets
  BY HostIsGiven
<1> QED
  BY <1>1 DEF HostInv, Document, InFiles, host

-----------------------------------------------------------------------------
(* What a step may do to the files.                                        *)

\* A destination's target at one of its paths is the last one it has there.
LEMMA TargetIsThere ==
    ASSUME HostInv, NEW i \in DOMAIN spec, NEW path \in Paths(i)
    PROVE  /\ \E k \in DOMAIN targets[i] :
                 TargetAt(i, path) = targets[i][k] /\ targets[i][k].path = path
           /\ TargetAt(i, path) \in SafeTarget(spec[i])
           /\ TargetAt(i, path).path = path
<1>1. /\ targets[i] \in Seq(SafeTarget(spec[i])) /\ Len(targets[i]) \in Nat
      /\ DOMAIN targets[i] = 1..Len(targets[i])
  BY LenProperties DEF HostInv
<1> DEFINE S == {k \in DOMAIN targets[i] : targets[i][k].path = path}
<1>2. S \subseteq 0..Len(targets[i]) /\ S # {}
  BY <1>1 DEF Paths
<1>3. PICK n \in S : \A m \in S : m <= n
  BY <1>1, <1>2, GreatestExists
<1> DEFINE IsLast(k) == /\ targets[i][k].path = path
                        /\ \A l \in DOMAIN targets[i] : targets[i][l].path = path => l <= k
           chosen == CHOOSE k \in DOMAIN targets[i] : IsLast(k)
<1>4. n \in DOMAIN targets[i] /\ IsLast(n)
  BY <1>3
<1>5. chosen \in DOMAIN targets[i] /\ IsLast(chosen)
  BY <1>4
<1>6. TargetAt(i, path) = targets[i][chosen]
  BY DEF TargetAt
<1> HIDE DEF chosen
<1>7. targets[i][chosen] \in SafeTarget(spec[i])
  BY <1>1, <1>5, ElementOfSeq
<1> QED
  BY <1>5, <1>6, <1>7

LEMMA FilesChange ==
    HostInv /\ [Next]_vars =>
        \/ files' = files
        \/ \E i \in DOMAIN spec : Install(i)
        \/ \E i \in DOMAIN spec : \E paths \in SUBSET Paths(i) :
              Matches(i) /\ files' = Enforced(i, paths)
        \/ \E i \in DOMAIN spec : \E k \in Nat : k <= Len(targets[i]) /\ files' = Restored(i, k)
        \/ \E path \in DOMAIN files : Edit(path)
<1> SUFFICES ASSUME HostInv, [Next]_vars, files' # files,
                    ~\E path \in DOMAIN files : Edit(path)
             PROVE  \E i \in DOMAIN spec :
                       \/ Install(i)
                       \/ \E paths \in SUBSET Paths(i) :
                             Matches(i) /\ files' = Enforced(i, paths)
                       \/ \E k \in Nat : k <= Len(targets[i]) /\ files' = Restored(i, k)
  OBVIOUS
<1>2. \E i \in DOMAIN spec : UpToDate(i) \/ NotEnforced(i) \/ Install(i)
                                \/ NotInstalled(i) \/ NotReloaded(i)
  BY DEF Next, Cycle, StartCycle, Unfulfilled, NotRendered, NotResolved, Import,
              SkipInventory, LoseInventory, ReportInventory, EndCycle, IntervalPasses, Request,
              Renew, Obtain, vars
<1>3. PICK i \in DOMAIN spec : UpToDate(i) \/ NotEnforced(i) \/ Install(i)
                                  \/ NotInstalled(i) \/ NotReloaded(i)
  BY <1>2
<1>4. Len(targets[i]) \in Nat /\ DOMAIN targets[i] = 1..Len(targets[i])
  BY LenProperties DEF HostInv
<1>5. CASE UpToDate(i)
  <2>1. Paths(i) \in SUBSET Paths(i) /\ Matches(i) /\ files' = Enforced(i, Paths(i))
    BY <1>5 DEF UpToDate
  <2> QED
    BY <2>1
<1>6. CASE NotEnforced(i)
  <2>1. PICK k \in 1..Len(targets[i]) :
              files' = Enforced(i, {targets[i][l].path : l \in 1..(k-1)})
    BY <1>6 DEF NotEnforced
  <2>2. {targets[i][l].path : l \in 1..(k-1)} \in SUBSET Paths(i)
    BY <1>4 DEF Paths
  <2>3. Matches(i)
    BY <1>6 DEF NotEnforced
  <2> QED
    BY <2>1, <2>2, <2>3
<1>7. CASE Install(i)
  BY <1>7
<1>8. CASE NotInstalled(i)
  <2>1. PICK k \in 0..Len(targets[i]) : files' = Restored(i, k)
    BY <1>8 DEF NotInstalled
  <2> QED
    BY <2>1, <1>4
<1>9. CASE NotReloaded(i)
  BY <1>9, <1>4 DEF NotReloaded
<1> QED
  BY <1>3, <1>5, <1>6, <1>7, <1>8, <1>9

-----------------------------------------------------------------------------
(* Type correctness.                                                       *)

Statuses == {"pending", "unfulfilled", "failed", "installed"}
Owners   == {Nobody} \cup {<<spec[i].owner, spec[i].group>> : i \in DOMAIN spec}
Outcome  == [status : Statuses, release : Issuances, id : Issuances]
File     == [holds : Contents, readers : Readers, owner : Owners, release : Issuances]

\* A record is of a certificate for one name or more; what a cycle has read is
\* still there when it is used, and not older than it was.
HeldInv ==
    /\ issued \in 0..scene.MaxIssued
    /\ active \subseteq 1..issued
    /\ \A dir \in DOMAIN held :
         /\ DOMAIN held[dir].names = 1..Len(held[dir].names)
         /\ Len(held[dir].names) \in Nat \ {0}
         /\ held[dir].chain \in BOOLEAN
         /\ held[dir].release \in 1..issued
    /\ DOMAIN listed \subseteq DOMAIN held /\ (place = 0 => listed = held)
    /\ \A dir \in DOMAIN listed :
         /\ DOMAIN listed[dir].names = 1..Len(listed[dir].names)
         /\ Len(listed[dir].names) \in Nat \ {0}
         /\ listed[dir].release \in 1..held[dir].release

FilesInv == \A path \in DOMAIN files : files[path] \in File

CountInv ==
    /\ displaced \in 0..issued
    /\ edits \in 0..scene.MaxEdits
    /\ faults \in 0..scene.MaxFaults

ServerInv ==
    /\ serves \in [DOMAIN spec -> Issuances]
    /\ outcome \in [DOMAIN spec -> Outcome]

ReportInv ==
    /\ inventory.truncated \in BOOLEAN
    /\ Cardinality(DOMAIN inventory.rows) <= MaxReported

TurnInv == place \in 0..Last /\ calm \in BOOLEAN /\ due \in BOOLEAN

TypeInv ==
    HostInv /\ HeldInv /\ FilesInv /\ CountInv /\ ServerInv /\ ReportInv /\ TurnInv

LEMMA FoundIsHeld ==
    ASSUME NEW h, NEW name, Holds(h, name)
    PROVE  /\ FindHeld(h, name) \in DOMAIN h
           /\ \E n \in Covering(h, name) :
                 FindHeld(h, name) = Listing[n] /\ \A m \in Covering(h, name) : n <= m
<1> DEFINE S == Covering(h, name)
           IsLeast(n) == \A m \in S : n <= m
           chosen == CHOOSE n \in S : IsLeast(n)
<1>1. S \subseteq Nat /\ S # {}
  BY DirectoriesAssumption DEF Holds, Covering
<1>2. \E n \in S : IsLeast(n)
  BY <1>1, LeastExists
<1>3. chosen \in S /\ IsLeast(chosen)
  BY <1>2
<1>4. FindHeld(h, name) = Listing[chosen]
  BY DEF FindHeld
<1>5. Listing[chosen] \in DOMAIN h
  BY <1>3 DEF Covering
<1> HIDE DEF chosen
<1> QED
  BY <1>3, <1>4, <1>5

LEMMA WantedIsIssued ==
    ASSUME HeldInv, NEW i \in DOMAIN spec
    PROVE  /\ Wanted(i) \in Issuances /\ Recorded(i) \in Issuances
           /\ Fulfilled(i) => /\ Directory(i) \in DOMAIN listed
                              /\ Directory(i) \in DOMAIN held
                              /\ \E n \in 1..issued : Wanted(i) = Of(n) /\ Given(i).release = n
<1>1. CASE Fulfilled(i)
  <2>1. Directory(i) \in DOMAIN listed
    BY <1>1, FoundIsHeld DEF Directory, Fulfilled
  <2>2. Directory(i) \in DOMAIN held
    BY <2>1 DEF HeldInv
  <2>3. Given(i).release \in 1..issued
    BY <2>2 DEF HeldInv, Given
  <2>4. listed[Directory(i)].release \in 1..issued
    <3>1. listed[Directory(i)].release \in 1..Given(i).release /\ issued \in Nat
      BY <2>1 DEF HeldInv, Given
    <3> QED
      BY <2>3, <3>1
  <2> QED
    BY <1>1, <2>1, <2>2, <2>3, <2>4 DEF Wanted, Recorded, Issuances
<1>2. CASE ~Fulfilled(i)
  BY <1>2 DEF Wanted, Recorded, Issuances
<1> QED
  BY <1>1, <1>2

LEMMA BecomesFile ==
    ASSUME HeldInv, NEW i \in DOMAIN spec, NEW target \in SafeTarget(spec[i])
    PROVE  Becomes(i, target) \in File
<1>1. Wanted(i) \in Issuances /\ Unissued \in Issuances
  BY WantedIsIssued DEF Issuances
<1>2. OwnerOf(i, Nobody) \in Owners
  BY DEF OwnerOf, Owners
<1>3. target.holds \in Contents /\ target.readers \in Readers
  BY DEF SafeTarget, Contents
<1>4. target.holds \ {"chain"} \in Contents
  BY <1>3 DEF Contents
<1> QED
  BY <1>1, <1>2, <1>3, <1>4 DEF Becomes, File

LEMMA WrittenFiles ==
    ASSUME HostInv, HeldInv, FilesInv, NEW i \in DOMAIN spec, NEW path \in DOMAIN Written(i)
    PROVE  Written(i)[path] \in File
<1>1. CASE path \in Paths(i)
  <2>1. Written(i)[path] = Becomes(i, TargetAt(i, path))
    BY <1>1 DEF Written
  <2> QED
    BY <1>1, <2>1, TargetIsThere, BecomesFile
<1>2. CASE path \notin Paths(i)
  <2>1. path \in DOMAIN files /\ Written(i)[path] = files[path]
    BY <1>2 DEF Written
  <2> QED
    BY <2>1 DEF FilesInv
<1> QED
  BY <1>1, <1>2

\* What enforce and restore change is nobody's contents.
LEMMA EnforcedFiles ==
    ASSUME HostInv, FilesInv, NEW i \in DOMAIN spec, NEW paths \in SUBSET Paths(i),
           NEW path \in DOMAIN files
    PROVE  /\ DOMAIN Enforced(i, paths) = DOMAIN files
           /\ Enforced(i, paths)[path] \in File
           /\ SameBytes(Enforced(i, paths)[path], files[path])
           /\ Enforced(i, paths)[path].readers =
                IF path \in paths THEN TargetAt(i, path).readers ELSE files[path].readers
<1>1. files[path] \in File
  BY DEF FilesInv
<1>2. CASE path \in paths
  <2> DEFINE r == TargetAt(i, path).readers
             o == OwnerOf(i, files[path].owner)
  <2>1. r \in Readers
    BY <1>2, TargetIsThere DEF SafeTarget
  <2>2. o \in Owners
    BY <1>1 DEF OwnerOf, Owners, File
  <2>3. Enforced(i, paths)[path] = [files[path] EXCEPT !.readers = r, !.owner = o]
    BY <1>2 DEF Enforced
  <2> HIDE DEF r, o
  <2>4. /\ Enforced(i, paths)[path] \in File
        /\ Enforced(i, paths)[path].holds = files[path].holds
        /\ Enforced(i, paths)[path].release = files[path].release
        /\ Enforced(i, paths)[path].readers = r
    BY <1>1, <2>1, <2>2, <2>3 DEF File
  <2>5. DOMAIN Enforced(i, paths) = DOMAIN files
    BY DEF Enforced
  <2> QED
    BY <1>2, <2>4, <2>5 DEF SameBytes, r
<1>3. CASE path \notin paths
  BY <1>1, <1>3 DEF Enforced, SameBytes
<1> QED
  BY <1>2, <1>3

LEMMA RestoredFiles ==
    ASSUME HostInv, FilesInv, NEW i \in DOMAIN spec, NEW k \in Nat,
           NEW path \in DOMAIN files
    PROVE  /\ DOMAIN Restored(i, k) = DOMAIN files
           /\ Restored(i, k)[path] \in File
           /\ SameBytes(Restored(i, k)[path], files[path])
           /\ Restored(i, k)[path].readers = files[path].readers
<1>1. files[path] \in File
  BY DEF FilesInv
<1> DEFINE o == OwnerOf(i, files[path].owner)
<1>2. o \in Owners
  BY <1>1 DEF OwnerOf, Owners, File
<1>3. \/ Restored(i, k)[path] = [files[path] EXCEPT !.owner = o]
      \/ Restored(i, k)[path] = files[path]
  BY DEF Restored
<1> HIDE DEF o
<1>4. /\ Restored(i, k)[path] \in File
      /\ Restored(i, k)[path].holds = files[path].holds
      /\ Restored(i, k)[path].release = files[path].release
      /\ Restored(i, k)[path].readers = files[path].readers
  BY <1>1, <1>2, <1>3 DEF File
<1>5. DOMAIN Restored(i, k) = DOMAIN files
  BY DEF Restored
<1> QED
  BY <1>4, <1>5 DEF SameBytes

LEMMA LoadedIsIssued ==
    ASSUME NEW i, NEW tree, \A path \in DOMAIN tree : tree[path].release \in Issuances
    PROVE  Loaded(i, tree) \in Issuances
<1> DEFINE releases == {tree[path].release : path \in Paths(i) \cap DOMAIN tree} \ {Unissued}
           one == CHOOSE r \in releases : TRUE
<1>1. releases \subseteq Issuances
  OBVIOUS
<1>2. Cardinality(releases) = 1 => releases # {}
  <2>1. Cardinality({}) = 0
    BY FS_EmptySet
  <2> QED
    BY <2>1
<1>3. Cardinality(releases) = 1 => one \in releases
  BY <1>2
<1>4. \/ Loaded(i, tree) = one /\ Cardinality(releases) = 1
      \/ Loaded(i, tree) = Unissued
  BY DEF Loaded
<1>5. Unissued \in Issuances
  BY DEF Issuances
<1> HIDE DEF releases, one
<1> QED
  BY <1>1, <1>3, <1>4, <1>5

\* Names of a certificate: one at least.
AreNames(names) == DOMAIN names = 1..Len(names) /\ Len(names) \in Nat \ {0}

LEMMA AnsweredAreNames ==
    ASSUME NEW names, AreNames(names), NEW sans \in {"asked", "reversed", "none"}
    PROVE  /\ AreNames(Answered(names, sans))
           /\ sans # "reversed" => Head(Answered(names, sans)) = Head(names)
<1>1. CASE sans = "asked"
  BY <1>1 DEF Answered
<1>2. CASE sans = "none"
  <2>1. Answered(names, sans) = <<Head(names)>>
    BY <1>2 DEF Answered
  <2> QED
    BY <2>1 DEF AreNames
<1>3. CASE sans = "reversed"
  <2> DEFINE n == Len(names)
             back == [k \in 1..n |-> names[n + 1 - k]]
  <2>1. n \in Nat \ {0} /\ Answered(names, sans) = back
    BY <1>3 DEF Answered, AreNames
  <2>2. back \in [1..n -> {names[n + 1 - k] : k \in 1..n}]
    OBVIOUS
  <2>3. back \in Seq({names[n + 1 - k] : k \in 1..n})
    BY <2>1, <2>2, SeqDef
  <2>4. DOMAIN back = 1..Len(back) /\ Len(back) \in Nat
    BY <2>3, LenProperties
  <2>5. DOMAIN back = 1..n
    OBVIOUS
  <2> HIDE DEF n, back
  <2>6. Len(back) # 0
    BY <2>1, <2>4, <2>5
  <2> QED
    BY <1>3, <2>1, <2>4, <2>6 DEF AreNames
<1> QED
  BY <1>1, <1>2, <1>3

LEMMA SceneBounds ==
    ASSUME HostInv
    PROVE  /\ scene.chainless \in Nat /\ scene.MaxIssued \in Nat
           /\ scene.MaxEdits \in Nat /\ scene.MaxFaults \in Nat
           /\ scene.sans \in {"asked", "reversed", "none"}
           /\ \A names \in scene.requests : AreNames(names)
BY HostFilesAssumption DEF HostInv, AreNames

\* A cycle that goes on leaves the records as they are, and those it has read.
LEMMA CoreChange ==
    ASSUME HostInv, [Next]_vars
    PROVE  \/ UNCHANGED core /\ (place' = 0 => place = 0)
           \/ EndCycle
           \/ \E names \in scene.requests : Request(names)
           \/ \E dir \in DOMAIN held : Renew(dir)
<1> DEFINE Same == UNCHANGED core /\ (place' = 0 => place = 0)
<1>1. ASSUME NEW i \in DOMAIN spec, NEW status, place = i, Return(i, status), UNCHANGED core
      PROVE  Same
  <2>1. i \in Nat /\ place' = i + 1
    BY <1>1 DEF HostInv, Return
  <2> QED
    BY <1>1, <2>1
<1>2. ASSUME NEW i \in DOMAIN spec,
             \/ Unfulfilled(i) \/ NotRendered(i) \/ NotResolved(i) \/ UpToDate(i)
             \/ NotEnforced(i) \/ Install(i) \/ NotInstalled(i) \/ NotReloaded(i) \/ Import(i)
      PROVE  Same
  <2>1. \E status : place = i /\ Return(i, status) /\ UNCHANGED core
    BY <1>2 DEF Unfulfilled, NotRendered, NotResolved, UpToDate, NotEnforced, Install,
           NotInstalled, NotReloaded, Import, FilesTurn, Turn
  <2> QED
    BY <1>1, <2>1
<1>3. ASSUME StartCycle PROVE Same
  BY <1>3 DEF StartCycle
<1>4. ASSUME SkipInventory \/ LoseInventory \/ ReportInventory PROVE EndCycle
  BY <1>4 DEF SkipInventory, LoseInventory, ReportInventory
<1>5. ASSUME IntervalPasses \/ (\E path : Edit(path)) \/ UNCHANGED vars PROVE Same
  BY <1>5 DEF IntervalPasses, Edit, vars
<1> HIDE DEF Same
<1>6. \/ Same \/ EndCycle
      \/ \E names \in scene.requests : Request(names)
      \/ \E dir \in DOMAIN held : Renew(dir)
  BY <1>2, <1>3, <1>4, <1>5 DEF Next, Cycle
<1> QED
  BY <1>6 DEF Same

LEMMA ObtainKeeps ==
    ASSUME HostInv, HeldInv, NEW names, AreNames(names), NEW others, Obtain(names, others)
    PROVE  HeldInv' /\ issued' = issued + 1
<1>0. place' = place /\ listed' = IF place = 0 THEN held' ELSE listed
  BY DEF Obtain
<1>1. scene' = scene /\ issued \in Nat /\ issued < scene.MaxIssued /\ issued' = issued + 1
  BY DEF Obtain, host, HeldInv
<1>2. issued' \in 0..scene.MaxIssued
  BY <1>1, SceneBounds
<1>3. active' \subseteq 1..issued'
  <2>1. active' = (active \ others) \cup {issued + 1} /\ active \subseteq 1..issued
    BY DEF Obtain, HeldInv
  <2>2. 1..issued \subseteq 1..issued' /\ issued + 1 \in 1..issued'
    BY <1>1
  <2> QED
    BY <2>1, <2>2
<1> DEFINE dir == DirectoryOf(names)
           chain == issued >= scene.chainless
           new == [names |-> Answered(names, scene.sans), release |-> issued + 1,
                   chain |-> chain \/ (dir \in DOMAIN held /\ held[dir].chain)]
<1>4. held' = [d \in DOMAIN held \cup {dir} |-> IF d # dir THEN held[d] ELSE new]
  BY DEF Obtain, Saved
<1>5. AreNames(Answered(names, scene.sans))
  BY SceneBounds, AnsweredAreNames
<1>6. new.names = Answered(names, scene.sans) /\ new.release = issued + 1
      /\ new.chain \in BOOLEAN
  OBVIOUS
<1> HIDE DEF new, dir
<1>7. ASSUME NEW d \in DOMAIN held'
      PROVE  /\ DOMAIN held'[d].names = 1..Len(held'[d].names)
             /\ Len(held'[d].names) \in Nat \ {0}
             /\ held'[d].chain \in BOOLEAN
             /\ held'[d].release \in 1..issued'
  <2>1. CASE d = dir
    <3>1. held'[d] = new
      BY <1>4, <2>1
    <3> QED
      BY <3>1, <1>1, <1>5, <1>6 DEF AreNames
  <2>2. CASE d # dir
    <3>1. d \in DOMAIN held /\ held'[d] = held[d]
      BY <1>4, <2>2
    <3> QED
      BY <3>1, <1>1 DEF HeldInv
  <2> QED
    BY <2>1, <2>2
<1>8. ASSUME NEW d \in DOMAIN held
      PROVE  d \in DOMAIN held' /\ held[d].release \in Nat /\ held'[d].release \in Nat
             /\ held[d].release <= held'[d].release
  <2>1. held[d].release \in 1..issued /\ d \in DOMAIN held'
    BY <1>4 DEF HeldInv
  <2>2. held'[d].release \in {held[d].release, issued + 1}
    BY <1>4, <1>6
  <2> QED
    BY <1>1, <2>1, <2>2
<1>9. DOMAIN listed' \subseteq DOMAIN held'
  BY <1>0, <1>8 DEF HeldInv
<1>10. ASSUME NEW d \in DOMAIN listed'
       PROVE  /\ DOMAIN listed'[d].names = 1..Len(listed'[d].names)
              /\ Len(listed'[d].names) \in Nat \ {0}
              /\ listed'[d].release \in 1..held'[d].release
  <2>1. CASE place = 0
    <3>1. listed' = held' /\ d \in DOMAIN held'
      BY <1>0, <2>1
    <3>2. held'[d].release \in 1..held'[d].release
      BY <1>1, <1>7, <3>1
    <3> QED
      BY <1>7, <3>1, <3>2
  <2>2. CASE place # 0
    <3>1. listed' = listed /\ d \in DOMAIN listed /\ d \in DOMAIN held
      BY <1>0, <2>2 DEF HeldInv
    <3>2. listed[d].release \in 1..held[d].release
      BY <3>1 DEF HeldInv
    <3>3. listed[d].release \in 1..held'[d].release
      BY <1>8, <3>1, <3>2
    <3> QED
      BY <3>1, <3>3 DEF HeldInv
  <2> QED
    BY <2>1, <2>2
<1>11. place' = 0 => listed' = held'
  BY <1>0
<1> QED
  BY <1>1, <1>2, <1>3, <1>7, <1>9, <1>10, <1>11 DEF HeldInv

LEMMA HeldStays ==
    HostInv /\ HeldInv /\ [Next]_vars => HeldInv' /\ issued' \in {issued, issued + 1}
<1> SUFFICES ASSUME HostInv, HeldInv, [Next]_vars
             PROVE  HeldInv' /\ issued' \in {issued, issued + 1}
  OBVIOUS
<1>1. scene' = scene
  BY HostStays DEF host
<1>2. CASE UNCHANGED core /\ (place' = 0 => place = 0)
  BY <1>1, <1>2 DEF core, HeldInv
<1>3. ASSUME NEW names \in scene.requests, Request(names)
      PROVE  HeldInv' /\ issued' \in {issued, issued + 1}
  <2>1. AreNames(names) /\ Obtain(names, {})
    BY <1>3, SceneBounds DEF Request
  <2> QED
    BY <2>1, ObtainKeeps
<1>4. ASSUME NEW dir \in DOMAIN held, Renew(dir)
      PROVE  HeldInv' /\ issued' \in {issued, issued + 1}
  <2>1. AreNames(held[dir].names) /\ Obtain(held[dir].names, {held[dir].release})
    BY <1>4 DEF Renew, HeldInv, AreNames
  <2> QED
    BY <2>1, ObtainKeeps
<1>5. CASE EndCycle
  <2>1. listed' = held /\ UNCHANGED <<held, issued, active>>
    BY <1>5 DEF EndCycle
  <2>2. \A dir \in DOMAIN held : held[dir].release \in 1..held[dir].release
    BY DEF HeldInv
  <2> QED
    BY <1>1, <2>1, <2>2 DEF HeldInv
<1> QED
  BY <1>2, <1>3, <1>4, <1>5, CoreChange

LEMMA CountStays ==
    HostInv /\ HeldInv /\ CountInv /\ [Next]_vars => CountInv'
<1> SUFFICES ASSUME HostInv, HeldInv, CountInv, [Next]_vars PROVE CountInv'
  OBVIOUS
<1>1. scene' = scene /\ issued \in Nat
  BY HostStays DEF host, HeldInv
<1>2. displaced' \in 0..issued'
  <2>1. displaced \in 0..issued
    BY DEF CountInv
  <2>2. CASE UNCHANGED core \/ EndCycle
    BY <2>1, <2>2 DEF core, EndCycle
  <2>3. ASSUME NEW names \in scene.requests, Request(names)
        PROVE  displaced' \in 0..issued'
    <3>1. issued' = issued + 1 /\ (displaced' = displaced + 0 \/ displaced' = displaced + 1)
      BY <2>3 DEF Request, Obtain
    <3> QED
      BY <1>1, <2>1, <3>1
  <2>4. ASSUME NEW dir \in DOMAIN held, Renew(dir)
        PROVE  displaced' \in 0..issued'
    <3>1. issued' = issued + 1 /\ displaced' = displaced
      BY <2>4 DEF Renew, Obtain
    <3> QED
      BY <1>1, <2>1, <3>1
  <2> QED
    BY <2>2, <2>3, <2>4, CoreChange
<1>3. /\ edits' = edits \/ (edits < scene.MaxEdits /\ edits' = edits + 1)
      /\ faults' = faults \/ (faults < scene.MaxFaults /\ faults' = faults + 1)
  BY DEF Next, Cycle, StartCycle, Unfulfilled, NotRendered, NotResolved, UpToDate,
         NotEnforced, Install, NotInstalled, NotReloaded, Import, SkipInventory,
         LoseInventory, ReportInventory, EndCycle, IntervalPasses, Edit, Fault, Request, Renew,
         Obtain, vars
<1>4. edits' \in 0..scene'.MaxEdits /\ faults' \in 0..scene'.MaxFaults
  <2>1. edits \in 0..scene.MaxEdits /\ faults \in 0..scene.MaxFaults
    BY DEF CountInv
  <2>2. scene.MaxEdits \in Nat /\ scene.MaxFaults \in Nat
    BY SceneBounds
  <2> QED
    BY <1>1, <1>3, <2>1, <2>2
<1> QED
  BY <1>2, <1>4 DEF CountInv

\* A larger count leaves room for every issuance there was.
LEMMA IssuancesGrow ==
    HostInv /\ HeldInv /\ [Next]_vars =>
        /\ Issuances \subseteq Issuances' /\ Owners' = Owners /\ File \subseteq File'
<1> SUFFICES ASSUME HostInv, HeldInv, [Next]_vars
             PROVE  Issuances \subseteq Issuances' /\ Owners' = Owners /\ File \subseteq File'
  OBVIOUS
<1>1. issued \in Nat /\ issued' \in {issued, issued + 1}
  BY HeldStays DEF HeldInv
<1>2. \A n \in 1..issued : n \in 1..issued'
  BY <1>1
<1>3. Issuances \subseteq Issuances'
  BY <1>2 DEF Issuances
<1>4. Owners' = Owners
  BY HostStays DEF host, Owners
<1>5. File \subseteq File'
  BY <1>3, <1>4 DEF File
<1> QED
  BY <1>3, <1>4, <1>5

LEMMA FilesStay ==
    HostInv /\ HeldInv /\ FilesInv /\ [Next]_vars => FilesInv'
<1> SUFFICES ASSUME HostInv, HeldInv, FilesInv, [Next]_vars,
                    NEW path \in DOMAIN files'
             PROVE  files'[path] \in File'
  BY DEF FilesInv
<1>1. SUFFICES files'[path] \in File
  BY IssuancesGrow
<1>2. \A p \in DOMAIN files : files[p] \in File
  BY DEF FilesInv
<1>3. CASE files' = files
  BY <1>2, <1>3
<1>4. ASSUME NEW i \in DOMAIN spec, Install(i) PROVE files'[path] \in File
  BY <1>4, WrittenFiles DEF Install
<1>5. ASSUME NEW i \in DOMAIN spec, NEW paths \in SUBSET Paths(i), files' = Enforced(i, paths)
      PROVE  files'[path] \in File
  <2>1. DOMAIN files' = DOMAIN files
    BY <1>5 DEF Enforced
  <2> QED
    BY <1>5, <2>1, EnforcedFiles
<1>6. ASSUME NEW i \in DOMAIN spec, NEW k \in Nat, files' = Restored(i, k)
      PROVE  files'[path] \in File
  <2>1. DOMAIN files' = DOMAIN files
    BY <1>6 DEF Restored
  <2> QED
    BY <1>6, <2>1, RestoredFiles
<1>7. ASSUME NEW p \in DOMAIN files, Edit(p) PROVE files'[path] \in File
  <2> DEFINE open == {"group", "other"}
  <2>1. \/ files' = [files EXCEPT ![p] = [files[p] EXCEPT !.readers = open]]
        \/ files' = [q \in DOMAIN files \ {p} |-> files[q]]
    BY <1>7 DEF Edit
  <2>2. open \in Readers
    BY DEF Readers
  <2> HIDE DEF open
  <2>3. [files[p] EXCEPT !.readers = open] \in File
    BY <1>2, <2>2 DEF File
  <2> QED
    BY <1>2, <2>1, <2>3
<1> QED
  BY <1>3, <1>4, <1>5, <1>6, <1>7, FilesChange

LEMMA ServersStay ==
    HostInv /\ HeldInv /\ FilesInv /\ ServerInv /\ [Next]_vars => ServerInv'
<1> SUFFICES ASSUME HostInv, HeldInv, FilesInv, ServerInv, [Next]_vars PROVE ServerInv'
  OBVIOUS
<1> DEFINE D == DOMAIN spec
<1>1. spec' = spec
  BY HostStays DEF host
<1>2. Issuances \subseteq Issuances'
  BY IssuancesGrow
<1>3. serves \in [D -> Issuances] /\ outcome \in [D -> Outcome]
  BY DEF ServerInv
<1>4. serves' \in [D -> Issuances]
  <2>1. ASSUME NEW i \in D PROVE Loaded(i, files) \in Issuances /\ Loaded(i, Written(i)) \in Issuances
                                   /\ Wanted(i) \in Issuances
    <3>1. \A p \in DOMAIN files : files[p].release \in Issuances
      BY DEF FilesInv, File
    <3>2. \A p \in DOMAIN Written(i) : Written(i)[p].release \in Issuances
      BY WrittenFiles DEF File
    <3> QED
      BY <3>1, <3>2, LoadedIsIssued, WantedIsIssued
  <2>2. ASSUME NEW i \in D PROVE Served(i) \in [D -> Issuances]
    BY <1>3, <2>1 DEF Served
  <2>3. \/ serves' = serves
        \/ \E i \in D : \/ serves' \in {Served(i), [serves EXCEPT ![i] = Loaded(i, files)]}
                        \/ serves' = [serves EXCEPT ![i] = Wanted(i)]
    BY DEF Next, Cycle, StartCycle, Unfulfilled, NotRendered, NotResolved, UpToDate,
           NotEnforced, Install, NotInstalled, NotReloaded, Import, SkipInventory,
           LoseInventory, ReportInventory, EndCycle, IntervalPasses, Edit, Request, Renew, Obtain, vars
  <2> QED
    BY <1>3, <2>1, <2>2, <2>3
<1>5. outcome' \in [D -> Outcome]
  <2>1. \/ outcome' = outcome
        \/ \E i \in D : \E status \in Statuses : Return(i, status)
    BY DEF Next, Cycle, StartCycle, Unfulfilled, NotRendered, NotResolved, UpToDate,
           NotEnforced, Install, NotInstalled, NotReloaded, Import, SkipInventory,
           LoseInventory, ReportInventory, EndCycle, IntervalPasses, Edit, Request, Renew, Obtain, vars,
           Statuses
  <2>2. ASSUME NEW i \in D, NEW status \in Statuses, Return(i, status)
        PROVE  outcome' \in [D -> Outcome]
    <3> DEFINE said == [status |-> status, release |-> Wanted(i), id |-> Recorded(i)]
    <3>1. said \in Outcome
      BY WantedIsIssued DEF Outcome
    <3>2. outcome' = [outcome EXCEPT ![i] = said]
      BY <2>2 DEF Return
    <3> HIDE DEF said
    <3> QED
      BY <1>3, <3>1, <3>2
  <2> QED
    BY <1>3, <2>1, <2>2
<1>6. serves' \in [D -> Issuances'] /\ outcome' \in [D -> Outcome']
  <2>1. \A R, T : R \subseteq T => [D -> R] \subseteq [D -> T]
    OBVIOUS
  <2>2. Outcome \subseteq Outcome'
    BY <1>2 DEF Outcome, Statuses
  <2> QED
    BY <1>2, <1>4, <1>5, <2>1, <2>2
<1> QED
  BY <1>1, <1>6 DEF ServerInv

LEMMA ReportStays ==
    ReportInv /\ [Next]_vars => ReportInv'
<1> SUFFICES ASSUME ReportInv, [Next]_vars PROVE ReportInv'
  OBVIOUS
<1>1. inventory' = inventory \/ inventory' = Scan(files, scene.links, scene.named)
  BY DEF Next, Cycle, StartCycle, Unfulfilled, NotRendered, NotResolved, UpToDate,
         NotEnforced, Install, NotInstalled, NotReloaded, Import, SkipInventory,
         LoseInventory, ReportInventory, EndCycle, IntervalPasses, Edit, Request, Renew, Obtain, vars
<1>2. CASE inventory' = inventory
  BY <1>2 DEF ReportInv
<1>3. CASE inventory' = Scan(files, scene.links, scene.named)
  <2> DEFINE places == {n \in Certificates : Reported(files, scene.links, n)}
             rows == [n \in Listed(places) |-> Row(files, scene.links, scene.named, Walk[n])]
             cut == \/ Cardinality(places) > MaxReported
                    \/ \E n \in DOMAIN Walk : /\ n \in Files => IsThere(files, scene.links, n)
                                              /\ ~Visited(files, scene.links, n)
  <2>1. inventory' = [rows |-> rows, truncated |-> cut]
    BY <1>3 DEF Scan
  <2>2. DOMAIN rows = Listed(places) /\ cut \in BOOLEAN
    OBVIOUS
  <2>3. places \subseteq DOMAIN Walk
    BY DEF Certificates, Files
  <2>4. Cardinality(Listed(places)) <= MaxReported
    BY <2>3, ListedIsBounded
  <2> HIDE DEF places, rows, cut
  <2> QED
    BY <2>1, <2>2, <2>4 DEF ReportInv
<1> QED
  BY <1>1, <1>2, <1>3

LEMMA TurnStays ==
    HostInv /\ TurnInv /\ [Next]_vars => TurnInv'
<1> SUFFICES ASSUME HostInv, TurnInv, [Next]_vars PROVE TurnInv'
  OBVIOUS
<1>1. spec' = spec /\ Last' = Last /\ Last \in Nat \ {0} /\ DOMAIN spec = 1..(Last - 1)
  BY HostStays DEF host, Last, HostInv
<1>2. calm' \in BOOLEAN /\ due' \in BOOLEAN
  BY DEF Next, Cycle, StartCycle, Unfulfilled, NotRendered, NotResolved, UpToDate,
         NotEnforced, Install, NotInstalled, NotReloaded, Import, SkipInventory,
         LoseInventory, ReportInventory, EndCycle, IntervalPasses, Edit, Request, Renew, Obtain, vars,
         TurnInv
<1>3. \/ place' \in {place, 0}
      \/ place' = 1
      \/ \E i \in DOMAIN spec : place = i /\ place' = place + 1
  BY DEF Next, Cycle, StartCycle, Unfulfilled, NotRendered, NotResolved, UpToDate,
         NotEnforced, Install, NotInstalled, NotReloaded, Import, SkipInventory,
         LoseInventory, ReportInventory, EndCycle, IntervalPasses, Edit, Request, Renew, Obtain, vars,
         Return, FilesTurn, Turn
<1>4. place' \in 0..Last
  BY <1>1, <1>3 DEF TurnInv
<1> QED
  BY <1>1, <1>2, <1>4 DEF TurnInv

LEMMA Typed == Spec => []TypeInv
<1>1. Init => TypeInv
  <2> SUFFICES ASSUME Init PROVE TypeInv
    OBVIOUS
  <2>1. HostInv
    BY HostStarts
  <2>2. /\ issued = 0 /\ active = {} /\ displaced = 0 /\ edits = 0 /\ faults = 0
        /\ place = 0 /\ calm = TRUE /\ due = TRUE /\ DOMAIN held = {} /\ listed = held
        /\ files = scene.tree
        /\ serves = [i \in DOMAIN spec |-> Unissued]
        /\ outcome = [i \in DOMAIN spec |->
                        [status |-> "pending", release |-> Unissued, id |-> Unissued]]
        /\ inventory = [rows |-> <<>>, truncated |-> FALSE]
    BY DEF Init
  <2>3. HeldInv /\ CountInv
    BY <2>1, <2>2, SceneBounds DEF HeldInv, CountInv
  <2>4. FilesInv
    <3>1. \A path \in DOMAIN scene.tree :
             scene.tree[path] \in [holds : Contents, readers : Readers, owner : {Nobody},
                                   release : {Unissued, <<"admin", 1>>, <<"admin", 2>>}]
      BY <2>1, HostFilesAssumption DEF HostInv
    <3>2. {Unissued, <<"admin", 1>>, <<"admin", 2>>} \subseteq Issuances
      BY DEF Issuances
    <3>3. {Nobody} \subseteq Owners
      BY DEF Owners
    <3> QED
      BY <2>2, <3>1, <3>2, <3>3 DEF FilesInv, File
  <2>5. ServerInv
    BY <2>2 DEF ServerInv, Issuances, Statuses, Outcome
  <2>6. ReportInv
    <3>1. DOMAIN inventory.rows = {} /\ inventory.truncated = FALSE
      BY <2>2
    <3>2. Cardinality({}) = 0 /\ MaxReported \in Nat
      BY FS_EmptySet, InventoryAssumption
    <3>3. Cardinality({}) <= MaxReported
      BY <3>2
    <3>4. Cardinality(DOMAIN inventory.rows) <= MaxReported
      BY <3>1, <3>3
    <3> QED
      BY <3>1, <3>4, Zenon DEF ReportInv
  <2>7. TurnInv
    BY <2>1, <2>2 DEF TurnInv, HostInv, Last
  <2> QED
    BY <2>1, <2>3, <2>4, <2>5, <2>6, <2>7 DEF TypeInv
<1>2. TypeInv /\ [Next]_vars => TypeInv'
  BY HostStays, HeldStays, FilesStay, CountStays, ServersStay, ReportStays, TurnStays
  DEF TypeInv
<1> QED
  BY <1>1, <1>2, PTL DEF Spec

\* Whatever the host and however it is used, every part of the state has its
\* type, and a report is never longer than it may be.
THEOREM TypeCorrect == Spec => []TypeOK
<1>1. TypeInv => TypeOK
  <2> SUFFICES ASSUME TypeInv PROVE TypeOK
    OBVIOUS
  <2>1. HostInv /\ HeldInv /\ FilesInv /\ CountInv /\ ServerInv /\ ReportInv /\ TurnInv
    BY DEF TypeInv
  <2>2. /\ \A dir \in DOMAIN held : held[dir].names # <<>>
        /\ \A dir \in DOMAIN listed : listed[dir].names # <<>>
    BY <2>1 DEF HeldInv
  <2>3. \A path \in DOMAIN files : /\ files[path].holds \in Contents
                                   /\ files[path].release \in Issuances
                                   /\ files[path].readers \in Readers
    BY <2>1 DEF FilesInv, File
  <2>4. \A i \in DOMAIN spec :
          /\ outcome[i].status \in {"pending", "unfulfilled", "failed", "installed"}
          /\ {outcome[i].release, outcome[i].id} \subseteq Issuances
    BY <2>1 DEF ServerInv, Statuses, Outcome
  <2>5. {calm, due, inventory.truncated} \subseteq BOOLEAN
    BY <2>1 DEF TurnInv, ReportInv
  <2> QED
    BY <2>1, <2>2, <2>3, <2>4, <2>5
    DEF TypeOK, HostInv, HeldInv, CountInv, ServerInv, ReportInv, TurnInv
<1> QED
  BY <1>1, Typed, PTL

-----------------------------------------------------------------------------
(* Nobody's key is put where everybody can read it.                        *)

\* Whatever spec loads, and whatever fails, no step of the agent writes a key
\* into a file that every account can read, or opens one that holds a key:
\* validate refuses the mode, a combined file and a keystore have the key's, and
\* enforce and restore set modes of the same targets only.
THEOREM KeysStayUnexposed == Spec => KeyNeverExposed
<1>1. TypeInv /\ [Next]_vars => [edits' = edits => Exposed' \subseteq Exposed]_vars
  <2> SUFFICES ASSUME TypeInv, [Next]_vars, edits' = edits, NEW path \in Exposed'
               PROVE  path \in Exposed
    OBVIOUS
  <2>1. HostInv /\ HeldInv /\ FilesInv /\ edits \in Nat
    BY DEF TypeInv, CountInv
  <2>2. /\ path \in DOMAIN files' /\ "key" \in files'[path].holds
        /\ "other" \in files'[path].readers
    BY DEF Exposed
  <2>3. CASE files' = files
    BY <2>2, <2>3 DEF Exposed
  <2>4. ASSUME NEW i \in DOMAIN spec, Install(i) PROVE path \in Exposed
    <3>0. files' = Written(i)
      BY <2>4 DEF Install
    <3>1. CASE path \in Paths(i)
      <4>1. files'[path] = Becomes(i, TargetAt(i, path))
        BY <3>0, <3>1 DEF Written
      <4>2. /\ "key" \in TargetAt(i, path).holds
            /\ "other" \in TargetAt(i, path).readers
        BY <2>2, <4>1 DEF Becomes
      <4>3. TargetAt(i, path) \in SafeTarget(spec[i])
        BY <2>1, <3>1, TargetIsThere
      <4> QED
        BY <4>2, <4>3 DEF SafeTarget
    <3>2. CASE path \notin Paths(i)
      <4>1. path \in DOMAIN files /\ files'[path] = files[path]
        BY <2>2, <3>0, <3>2 DEF Written
      <4> QED
        BY <2>2, <4>1 DEF Exposed
    <3> QED
      BY <3>1, <3>2
  <2>5. ASSUME NEW i \in DOMAIN spec, NEW paths \in SUBSET Paths(i), Matches(i),
               files' = Enforced(i, paths)
        PROVE  path \in Exposed
    <3>1. DOMAIN files' = DOMAIN files
      BY <2>5 DEF Enforced
    <3>2. /\ SameBytes(files'[path], files[path])
          /\ files'[path].readers =
               IF path \in paths THEN TargetAt(i, path).readers ELSE files[path].readers
      BY <2>1, <2>2, <2>5, <3>1, EnforcedFiles
    <3>3. "key" \in files[path].holds
      BY <2>2, <3>2 DEF SameBytes
    <3>4. CASE path \in paths
      <4>1. PICK k \in DOMAIN targets[i] :
                  TargetAt(i, path) = targets[i][k] /\ targets[i][k].path = path
        BY <2>1, <2>5, <3>4, TargetIsThere
      <4>2. SameBytes(files[path], Becomes(i, targets[i][k]))
        BY <2>5, <4>1 DEF Matches
      <4>3. "key" \in targets[i][k].holds
        BY <3>3, <4>2 DEF SameBytes, Becomes
      <4>4. TargetAt(i, path) \in SafeTarget(spec[i])
        BY <2>1, <2>5, <3>4, TargetIsThere
      <4> QED
        BY <2>2, <3>2, <3>4, <4>1, <4>3, <4>4 DEF SafeTarget
    <3>5. CASE path \notin paths
      BY <2>2, <3>1, <3>2, <3>3, <3>5 DEF Exposed
    <3> QED
      BY <3>4, <3>5
  <2>6. ASSUME NEW i \in DOMAIN spec, NEW k \in Nat, files' = Restored(i, k)
        PROVE  path \in Exposed
    <3>1. DOMAIN files' = DOMAIN files
      BY <2>6 DEF Restored
    <3>2. /\ SameBytes(files'[path], files[path])
          /\ files'[path].readers = files[path].readers
      BY <2>1, <2>2, <2>6, <3>1, RestoredFiles
    <3> QED
      BY <2>2, <3>1, <3>2 DEF Exposed, SameBytes
  <2>7. ASSUME NEW p \in DOMAIN files, Edit(p) PROVE FALSE
    <3>1. edits' = edits + 1
      BY <2>7 DEF Edit
    <3> QED
      BY <2>1, <3>1
  <2> QED
    BY <2>1, <2>3, <2>4, <2>5, <2>6, <2>7, FilesChange
<1> QED
  BY <1>1, Typed, PTL DEF Spec, KeyNeverExposed

-----------------------------------------------------------------------------
(* What the core takes to be in use.                                       *)

Here == {held[dir].release : dir \in DOMAIN held}

\* Where the names of a record begin with the name it was asked for, a renewal
\* goes to the directory it came from; no two directories hold one issuance, so
\* that the renewal of one ends no other's.
InUseInv ==
    scene.sans # "reversed" =>
        /\ \A dir \in DOMAIN held : DirectoryOf(held[dir].names) = dir
        /\ \A c, d \in DOMAIN held : held[c].release = held[d].release => c = d
        /\ Here \subseteq active
        /\ Cardinality(active \ Here) <= displaced

\* Where an issuance goes, and what is then in the directories.
LEMMA ObtainedInto ==
    ASSUME HostInv, HeldInv, NEW names, AreNames(names), NEW others, Obtain(names, others),
           scene.sans # "reversed"
    PROVE  LET dir == DirectoryOf(names)
           IN  /\ DOMAIN held' = DOMAIN held \cup {dir}
               /\ DirectoryOf(held'[dir].names) = dir
               /\ held'[dir].names = Answered(names, scene.sans)
               /\ held'[dir].release = issued + 1
               /\ \A d \in DOMAIN held \ {dir} : held'[d] = held[d]
               /\ \A d \in DOMAIN held : held[d].release # issued + 1
<1> DEFINE dir == DirectoryOf(names)
           chain == issued >= scene.chainless
           new == [names |-> Answered(names, scene.sans), release |-> issued + 1,
                   chain |-> chain \/ (dir \in DOMAIN held /\ held[dir].chain)]
<1>1. held' = [d \in DOMAIN held \cup {dir} |-> IF d # dir THEN held[d] ELSE new]
  BY DEF Obtain, Saved
<1>2. new.names = Answered(names, scene.sans) /\ new.release = issued + 1
  OBVIOUS
<1>3. Head(Answered(names, scene.sans)) = Head(names)
  BY SceneBounds, AnsweredAreNames
<1>4. DirectoryOf(new.names) = dir
  BY <1>2, <1>3 DEF DirectoryOf
<1>5. \A d \in DOMAIN held : held[d].release # issued + 1
  <2>1. issued \in Nat /\ \A d \in DOMAIN held : held[d].release \in 1..issued
    BY DEF HeldInv
  <2> QED
    BY <2>1
<1> HIDE DEF new, dir
<1>6. /\ DOMAIN held' = DOMAIN held \cup {dir} /\ held'[dir] = new
      /\ \A d \in DOMAIN held \ {dir} : held'[d] = held[d]
  BY <1>1
<1> QED
  BY <1>2, <1>4, <1>5, <1>6 DEF dir

LEMMA ActiveIsFinite ==
    ASSUME HeldInv, NEW S
    PROVE  IsFiniteSet(active \ S) /\ Cardinality(active \ S) \in Nat
<1>1. issued \in Nat /\ active \ S \in SUBSET (1..issued)
  <2>1. issued \in Nat /\ active \subseteq 1..issued
    BY DEF HeldInv
  <2> QED
    BY <2>1
<1>2. IsFiniteSet(1..issued)
  BY <1>1, FS_Interval, 1 \in Int, issued \in Int
<1> QED
  BY <1>1, <1>2, FS_Subset, FS_CardinalityType

LEMMA InUseStays ==
    TypeInv /\ InUseInv /\ [Next]_vars => InUseInv'
<1> SUFFICES ASSUME TypeInv, InUseInv, [Next]_vars PROVE InUseInv'
  OBVIOUS
<1>0. scene' = scene
  BY HostStays DEF TypeInv, host
<1> SUFFICES ASSUME scene.sans # "reversed"
             PROVE  /\ \A dir \in DOMAIN held' : DirectoryOf(held'[dir].names) = dir
                    /\ \A c, d \in DOMAIN held' : held'[c].release = held'[d].release => c = d
                    /\ Here' \subseteq active'
                    /\ Cardinality(active' \ Here') <= displaced'
  BY <1>0 DEF InUseInv
<1>1. HostInv /\ HeldInv /\ displaced \in Nat
  BY DEF TypeInv, CountInv, HeldInv
<1>2. /\ \A dir \in DOMAIN held : DirectoryOf(held[dir].names) = dir
      /\ \A c, d \in DOMAIN held : held[c].release = held[d].release => c = d
      /\ Here \subseteq active
      /\ Cardinality(active \ Here) <= displaced
  BY DEF InUseInv
<1>3. issued + 1 \notin active /\ issued + 1 \notin Here
  <2>1. issued \in Nat /\ active \subseteq 1..issued
    BY <1>1 DEF HeldInv
  <2>2. issued + 1 \notin 1..issued
    BY <2>1
  <2> QED
    BY <1>2, <2>1, <2>2
<1>4. CASE UNCHANGED core \/ EndCycle
  BY <1>2, <1>4 DEF core, EndCycle, Here
<1>5. ASSUME NEW names \in scene.requests, Request(names)
      PROVE  /\ \A dir \in DOMAIN held' : DirectoryOf(held'[dir].names) = dir
             /\ \A c, d \in DOMAIN held' : held'[c].release = held'[d].release => c = d
             /\ Here' \subseteq active'
             /\ Cardinality(active' \ Here') <= displaced'
  <2> DEFINE dir == DirectoryOf(names)
             new == issued + 1
  <2>1. AreNames(names) /\ Obtain(names, {})
    BY <1>1, <1>5, SceneBounds DEF Request
  <2>2. /\ DOMAIN held' = DOMAIN held \cup {dir}
        /\ DirectoryOf(held'[dir].names) = dir /\ held'[dir].release = new
        /\ \A d \in DOMAIN held \ {dir} : held'[d] = held[d]
        /\ \A d \in DOMAIN held : held[d].release # new
    BY <1>1, <2>1, ObtainedInto
  <2>3. active' = active \cup {new}
    BY <2>1 DEF Obtain
  <2>4. displaced' = displaced + (IF dir \in DOMAIN held THEN 1 ELSE 0)
    BY <1>5 DEF Request
  <2> HIDE DEF dir, new
  <2>5. Here' = {held[d].release : d \in DOMAIN held \ {dir}} \cup {new}
    BY <2>2 DEF Here
  <2>6. Here' \subseteq active'
    BY <1>2, <2>3, <2>5 DEF Here
  <2>7. Cardinality(active' \ Here') <= displaced'
    <3> DEFINE gone == active \ Here
    <3>1. IsFiniteSet(gone) /\ Cardinality(gone) \in Nat
      BY <1>1, ActiveIsFinite
    <3>2. CASE dir \notin DOMAIN held
      <4>1. active' \ Here' = gone
        BY <1>3, <2>3, <2>5, <3>2 DEF Here, new
      <4>2. Cardinality(gone) <= displaced
        BY <1>2
      <4>3. displaced' = displaced
        BY <1>1, <2>4, <3>2
      <4> QED
        BY <4>1, <4>2, <4>3
    <3>3. CASE dir \in DOMAIN held
      <4> DEFINE old == held[dir].release
      <4>1. active' \ Here' \in SUBSET (gone \cup {old})
        BY <2>3, <2>5 DEF Here
      <4>2. /\ IsFiniteSet(gone \cup {old})
            /\ Cardinality(gone \cup {old}) \in {Cardinality(gone), Cardinality(gone) + 1}
        BY <3>1, FS_AddElement
      <4>3. Cardinality(active' \ Here') <= Cardinality(gone \cup {old})
        BY <4>1, <4>2, FS_Subset
      <4>4. Cardinality(active' \ Here') \in Nat
        BY <4>1, <4>2, FS_Subset, FS_CardinalityType
      <4>5. displaced' = displaced + 1
        BY <2>4, <3>3
      <4>6. Cardinality(gone) <= displaced
        BY <1>2
      <4> HIDE DEF gone, old
      <4> QED
        BY <1>1, <3>1, <4>2, <4>3, <4>4, <4>5, <4>6
    <3> QED
      BY <3>2, <3>3
  <2> QED
    BY <1>2, <2>2, <2>6, <2>7
<1>6. ASSUME NEW from \in DOMAIN held, Renew(from)
      PROVE  /\ \A dir \in DOMAIN held' : DirectoryOf(held'[dir].names) = dir
             /\ \A c, d \in DOMAIN held' : held'[c].release = held'[d].release => c = d
             /\ Here' \subseteq active'
             /\ Cardinality(active' \ Here') <= displaced'
  <2> DEFINE new == issued + 1
             old == held[from].release
  <2>1. /\ AreNames(held[from].names) /\ Obtain(held[from].names, {old})
        /\ displaced' = displaced
    BY <1>1, <1>6 DEF Renew, HeldInv, AreNames
  <2>2. DirectoryOf(held[from].names) = from
    BY <1>2
  <2>3. /\ DOMAIN held' = DOMAIN held
        /\ DirectoryOf(held'[from].names) = from /\ held'[from].release = new
        /\ \A d \in DOMAIN held \ {from} : held'[d] = held[d]
        /\ \A d \in DOMAIN held : held[d].release # new
    BY <1>1, <2>1, <2>2, ObtainedInto
  <2>4. active' = (active \ {old}) \cup {new}
    BY <2>1 DEF Obtain
  <2>5. Here' = {held[d].release : d \in DOMAIN held \ {from}} \cup {new}
    BY <2>3 DEF Here
  <2>6. \A d \in DOMAIN held \ {from} : held[d].release # old
    BY <1>2
  <2> HIDE DEF new, old
  <2>7. Here' \subseteq active'
    BY <1>2, <2>4, <2>5, <2>6 DEF Here
  <2>8. active' \ Here' \in SUBSET (active \ Here)
    BY <2>4, <2>5 DEF Here, old
  <2>9. Cardinality(active' \ Here') <= displaced'
    <3>1. /\ IsFiniteSet(active \ Here) /\ Cardinality(active \ Here) \in Nat
      BY <1>1, ActiveIsFinite
    <3>2. Cardinality(active' \ Here') <= Cardinality(active \ Here)
      BY <2>8, <3>1, FS_Subset
    <3>3. Cardinality(active' \ Here') \in Nat
      BY <2>8, <3>1, FS_Subset, FS_CardinalityType
    <3> QED
      BY <1>1, <1>2, <2>1, <3>1, <3>2, <3>3
  <2> QED
    BY <1>2, <2>3, <2>7, <2>9
<1> QED
  BY <1>1, <1>4, <1>5, <1>6, CoreChange

LEMMA InUseHolds == Spec => []InUseInv
<1>1. Init => InUseInv
  <2> SUFFICES ASSUME Init PROVE InUseInv
    OBVIOUS
  <2>1. DOMAIN held = {} /\ active = {} /\ displaced = 0
    BY DEF Init
  <2>2. Here = {} /\ active \ Here = {}
    BY <2>1 DEF Here
  <2>3. Cardinality(active \ Here) <= displaced
    BY <2>1, <2>2, FS_EmptySet
  <2> QED
    BY <2>1, <2>2, <2>3 DEF InUseInv
<1> QED
  BY <1>1, InUseStays, Typed, PTL DEF Spec

\* Whatever is requested and renewed, in whatever order: every certificate the
\* core takes to be in use is in a directory of this host, where RenewDue finds
\* it, but for one for each request that went to a directory in use; and it
\* takes to be in use all that is there.
THEOREM NoneForgotten == Spec => []InUseIsHeld
<1>1. InUseInv => InUseIsHeld
  BY DEF InUseInv, InUseIsHeld, Here
<1> QED
  BY <1>1, InUseHolds, PTL

-----------------------------------------------------------------------------
(* The report.                                                             *)

LEMMA KeyIsItsOwn ==
    ASSUME NEW tree, NEW links, NEW path, KeyOf(tree, links, path) # NoPath,
           ~KeyMatches(tree, links, path, KeyOf(tree, links, path))
    PROVE  /\ KeyOf(tree, links, path).dir = path.dir
           /\ KeyOf(tree, links, path).stem = path.stem
<1> DEFINE specifically   == Specifically(tree, links, path)
           conventionally == Conventionally(tree, links, path)
           key == KeyOf(tree, links, path)
<1>1. \/ key = path
      \/ \E n \in DOMAIN Suffixes : key = Specific(path, n)
      \/ conventionally # {} /\ key = Conventional(path, First(conventionally))
  <2>1. \/ key \in {NoPath, path}
        \/ specifically # {} /\ key = Specific(path, First(specifically))
        \/ conventionally # {} /\ key = Conventional(path, First(conventionally))
    BY DEF KeyOf
  <2>2. specifically # {} => First(specifically) \in DOMAIN Suffixes
    <3>1. specifically \subseteq Nat
      <4>1. specifically \subseteq DOMAIN Suffixes
        BY DEF Specifically
      <4>2. DOMAIN Suffixes \subseteq Nat
        BY DEF Suffixes
      <4> QED
        BY <4>1, <4>2
    <3>2. specifically # {} => \E n \in specifically : \A m \in specifically : n <= m
      BY <3>1, LeastExists
    <3>3. specifically # {} => First(specifically) \in specifically
      BY <3>2 DEF First
    <3> QED
      BY <3>3 DEF Specifically
  <2> QED
    BY <2>1, <2>2
<1>2. conventionally # {} => First(conventionally) \in conventionally
  <2>1. conventionally \subseteq Nat
    BY DEF Conventionally, Names
  <2>2. conventionally # {} => \E n \in conventionally : \A m \in conventionally : n <= m
    BY <2>1, LeastExists
  <2> QED
    BY <2>2 DEF First
<1>3. ~(conventionally # {} /\ key = Conventional(path, First(conventionally)))
  BY <1>2 DEF Conventionally
<1>4. CASE key = path
  BY <1>4
<1>5. ASSUME NEW n \in DOMAIN Suffixes, key = Specific(path, n)
      PROVE  key.dir = path.dir /\ key.stem = path.stem
  BY <1>5 DEF Specific, At
<1> QED
  BY <1>1, <1>3, <1>4, <1>5

\* A key that a report gives as not matching lies in the certificate's own file
\* or beside it under its own name: for the names in common use findPrivateKey
\* reports a match or nothing.
THEOREM NoFalseAlarm == Spec => []AlarmsAreReal
<1>1. Init => AlarmsAreReal
  BY DEF Init, AlarmsAreReal
<1>2. AlarmsAreReal /\ [Next]_vars => AlarmsAreReal'
  <2> SUFFICES ASSUME AlarmsAreReal, [Next]_vars PROVE AlarmsAreReal'
    OBVIOUS
  <2>1. inventory' = inventory \/ inventory' = Scan(files, scene.links, scene.named)
    BY DEF Next, Cycle, StartCycle, Unfulfilled, NotRendered, NotResolved, UpToDate,
           NotEnforced, Install, NotInstalled, NotReloaded, Import, SkipInventory,
           LoseInventory, ReportInventory, EndCycle, IntervalPasses, Edit, Request, Renew, Obtain, vars
  <2>2. CASE inventory' = inventory
    BY <2>2 DEF AlarmsAreReal
  <2>3. CASE inventory' = Scan(files, scene.links, scene.named)
    <3> SUFFICES ASSUME NEW n \in DOMAIN inventory'.rows,
                        inventory'.rows[n].key # NoPath, ~inventory'.rows[n].matches
                 PROVE  /\ inventory'.rows[n].key.dir = inventory'.rows[n].path.dir
                        /\ inventory'.rows[n].key.stem = inventory'.rows[n].path.stem
      BY DEF AlarmsAreReal
    <3> DEFINE row == Row(files, scene.links, scene.named, Walk[n])
               key == KeyOf(files, scene.links, Walk[n])
    <3>1. inventory'.rows[n] = row
      BY <2>3 DEF Scan
    <3>2. /\ row.key = key /\ row.path = Walk[n]
          /\ row.matches <=> key # NoPath /\ KeyMatches(files, scene.links, Walk[n], key)
      BY DEF Row
    <3> HIDE DEF row
    <3> QED
      BY <3>1, <3>2, KeyIsItsOwn
  <2> QED
    BY <2>1, <2>2, <2>3
<1> QED
  BY <1>1, <1>2, PTL DEF Spec

\* A report that was not cut short has exactly one row for a file that a name in
\* the walk leads to, and it says whether a configuration names the file.
LEMMA ReportIsComplete ==
    ASSUME NEW tree, NEW links, NEW named, ~Scan(tree, links, named).truncated,
           NEW place0 \in DOMAIN Walk, LooksLikeCertificate(Walk[place0]),
           Real(links, Walk[place0]) \in DOMAIN tree,
           HoldsCertificate(tree[Real(links, Walk[place0])])
    PROVE  LET rows == Scan(tree, links, named).rows
               file == Real(links, Walk[place0])
           IN  \E n \in DOMAIN rows :
                  /\ \A m \in DOMAIN rows : Real(links, rows[m].path) = file <=> m = n
                  /\ rows[n].referenced <=> \E p \in named : Real(links, p) = file
<1> DEFINE file == Real(links, Walk[place0])
           places == {n \in Certificates : Reported(tree, links, n)}
           rows == [n \in Listed(places) |-> Row(tree, links, named, Walk[n])]
           cut == \/ Cardinality(places) > MaxReported
                  \/ \E n \in DOMAIN Walk : /\ n \in Files => IsThere(tree, links, n)
                                            /\ ~Visited(tree, links, n)
           leading == {n \in DOMAIN Walk :
                         LooksLikeCertificate(Walk[n]) /\ Real(links, Walk[n]) = file}
<1>1. Scan(tree, links, named).rows = rows /\ ~cut /\ ~(Cardinality(places) > MaxReported)
  <2>1. Scan(tree, links, named) = [rows |-> rows, truncated |-> cut]
    BY DEF Scan
  <2>2. Cardinality(places) > MaxReported => cut
    OBVIOUS
  <2> HIDE DEF rows, cut, places
  <2> QED
    BY <2>1, <2>2
<1>2. DOMAIN Walk = 1..Len(Walk) /\ Len(Walk) \in Nat /\ MaxReported \in Nat
  BY InventoryAssumption
<1>3. \A n \in leading : n \in Certificates /\ Found(tree, links, n) /\ IsThere(tree, links, n)
  <2> SUFFICES ASSUME NEW n \in leading
               PROVE  n \in Certificates /\ Found(tree, links, n) /\ IsThere(tree, links, n)
    OBVIOUS
  <2>1. n \in DOMAIN Walk /\ LooksLikeCertificate(Walk[n]) /\ Real(links, Walk[n]) = file
    OBVIOUS
  <2>2. Walk[n].stem # ""
    BY <2>1, InventoryAssumption DEF LooksLikeCertificate
  <2>3. n \in Certificates
    BY <2>1, <2>2 DEF Certificates, Files, IsDirectory
  <2>4. IsThere(tree, links, n) /\ Found(tree, links, n)
    BY <2>1 DEF IsThere, Found
  <2> QED
    BY <2>3, <2>4
<1>4. PICK n \in leading : \A m \in leading : n <= m
  <2>1. place0 \in leading
    OBVIOUS
  <2>2. leading \subseteq DOMAIN Walk /\ DOMAIN Walk \subseteq Nat
    BY <1>2
  <2>3. leading \subseteq Nat /\ leading # {}
    BY <2>1, <2>2
  <2> HIDE DEF leading
  <2> QED
    BY <2>3, LeastExists
<1>5. n \in DOMAIN Walk /\ n \in Certificates /\ Found(tree, links, n)
      /\ Real(links, Walk[n]) = file
  BY <1>3
<1>6. Visited(tree, links, n)
  BY <1>1, <1>3, <1>5
<1>7. Certificates \subseteq 1..Len(Walk)
  BY <1>2 DEF Certificates, Files
<1>8. \A m \in Certificates : Real(links, Walk[m]) = file => m \in leading
  BY DEF Certificates, Files
<1>9. Reported(tree, links, n)
  <2>1. ASSUME NEW m \in Certificates, m < n, Real(links, Walk[m]) = Real(links, Walk[n])
        PROVE  FALSE
    <3>1. m \in leading
      BY <1>5, <1>8, <2>1
    <3>2. n <= m
      BY <1>4, <3>1
    <3> QED
      BY <1>5, <1>7, <2>1, <3>2
  <2> QED
    BY <1>5, <1>6, <2>1 DEF Reported
<1>10. n \in Listed(places)
  <2> DEFINE before == {m \in places : m < n}
  <2>1. n \in places
    BY <1>5, <1>9
  <2>2. IsFiniteSet(places)
    <3>1. places \in SUBSET (1..Len(Walk))
      BY <1>7
    <3>2. IsFiniteSet(1..Len(Walk))
      <4>1. 1 \in Int /\ Len(Walk) \in Int
        BY <1>2
      <4> QED
        BY <4>1, FS_Interval
    <3> QED
      BY <3>1, <3>2, FS_Subset
  <2>3. before \in SUBSET places /\ n \notin before
    BY <1>5, <1>7
  <2>4. Cardinality(before) <= Cardinality(places) /\ Cardinality(before) # Cardinality(places)
    BY <2>1, <2>2, <2>3, FS_Subset
  <2>5. Cardinality(places) \in Nat /\ Cardinality(before) \in Nat
    BY <2>2, <2>3, FS_Subset, FS_CardinalityType
  <2> HIDE DEF places, before, rows, cut
  <2>6. ~(Cardinality(places) > MaxReported)
    BY <1>1
  <2>7. Cardinality(before) < MaxReported
    BY <1>2, <2>4, <2>5, <2>6
  <2> QED
    BY <2>1, <2>7 DEF Listed, before
<1>11. ASSUME NEW m \in Listed(places), Real(links, Walk[m]) = file PROVE m = n
  <2>1. m \in Certificates /\ Reported(tree, links, m)
    BY DEF Listed
  <2>2. m \in leading
    BY <1>8, <1>11, <2>1
  <2>3. n <= m
    BY <1>4, <2>2
  <2>4. ~(n < m)
    BY <1>5, <1>11, <2>1 DEF Reported
  <2> QED
    BY <1>5, <1>7, <2>1, <2>3, <2>4
<1>12. \A m \in Listed(places) :
          /\ rows[m].path = Walk[m]
          /\ rows[m].referenced <=> \E p \in named : Real(links, p) = Real(links, Walk[m])
  BY DEF Row
<1>13. DOMAIN rows = Listed(places)
  OBVIOUS
<1> HIDE DEF rows, places, leading, cut
<1> QED
  BY <1>1, <1>5, <1>10, <1>11, <1>12, <1>13

\* Whatever is on the host, however its files are linked and named, and
\* wherever the limits are: a report that does not say it was cut short has one
\* row, and no second one, for every file with a certificate that has the name
\* of one or a link with such a name, and tells which of them a server's
\* configuration names.
THEOREM NothingOverlooked == Spec => EveryCertificateIsReported
<1>1. TypeInv /\ [Next]_vars =>
        [Reports /\ ~inventory'.truncated =>
         \A file \in Visible \cap DOMAIN files : HoldsCertificate(files[file]) =>
            \E n \in DOMAIN inventory'.rows :
                /\ \A m \in DOMAIN inventory'.rows :
                     Real(scene.links, inventory'.rows[m].path) = file <=> m = n
                /\ inventory'.rows[n].referenced
                     <=> \E p \in scene.named : Real(scene.links, p) = file]_vars
  <2> SUFFICES ASSUME TypeInv, [Next]_vars, Reports, ~inventory'.truncated,
                      NEW file \in Visible \cap DOMAIN files, HoldsCertificate(files[file])
               PROVE  \E n \in DOMAIN inventory'.rows :
                        /\ \A m \in DOMAIN inventory'.rows :
                             Real(scene.links, inventory'.rows[m].path) = file <=> m = n
                        /\ inventory'.rows[n].referenced
                             <=> \E p \in scene.named : Real(scene.links, p) = file
    OBVIOUS
  <2>1. due /\ ~due'
    BY DEF Reports
  <2>2. inventory' = Scan(files, scene.links, scene.named)
    BY <2>1 DEF Next, Cycle, StartCycle, Unfulfilled, NotRendered, NotResolved, UpToDate,
           NotEnforced, Install, NotInstalled, NotReloaded, Import, SkipInventory,
           LoseInventory, ReportInventory, EndCycle, IntervalPasses, Edit, Request, Renew, Obtain, vars
  <2>3. PICK n \in DOMAIN Walk : LooksLikeCertificate(Walk[n]) /\ file = Real(scene.links, Walk[n])
    BY DEF Visible
  <2> QED
    BY <2>2, <2>3, ReportIsComplete
<1> QED
  BY <1>1, Typed, PTL DEF Spec, EveryCertificateIsReported

-----------------------------------------------------------------------------
(* Who serves what.                                                        *)

FromCore == {Of(n) : n \in Nat}

\* What a server has, where no other destination writes its files.  As long as
\* nothing failed it has what its files were written with, whatever was edited
\* since.  After a reload that failed that is so no more: the files went back
\* and the server may not have.  But then they are not the issuance wanted, and
\* never are until they are written again, if what is wanted is never one that
\* was wanted before.
HasWritten(i) ==
    faults = 0 => \A path \in Paths(i) \cap DOMAIN files :
                     files[path].release \in FromCore => files[path].release = serves[i]
HasWanted(i) ==
    displaced = 0 /\ scene.sans # "reversed" /\ Matches(i) /\ Fulfilled(i)
        => serves[i] = Wanted(i)
HasReported(i) ==
    ~MayFallBack /\ outcome[i].status = "installed" => serves[i] = outcome[i].release

ServedInv ==
    Apart =>
        \A i \in DOMAIN spec : InFiles(i) /\ Runs(spec[i].reload) =>
            HasWritten(i) /\ HasWanted(i) /\ HasReported(i)

LEMMA UnissuedIsNotFromCore ==
    /\ \A n \in Nat : Of(n) \notin {Unissued, <<"admin", 1>>, <<"admin", 2>>}
    /\ \A r \in {Unissued, <<"admin", 1>>, <<"admin", 2>>} : r \notin FromCore
<1>1. \A n \in Nat : Of(n) \notin {Unissued, <<"admin", 1>>, <<"admin", 2>>}
  <2> SUFFICES ASSUME NEW n \in Nat, NEW x, NEW m, Of(n) = <<x, m>>
               PROVE  x = "core"
    BY DEF Unissued
  <2> QED
    BY DEF Of
<1> QED
  BY <1>1 DEF FromCore

\* A record that the core made is the one it makes of its names again.
NamesInv ==
    scene.sans # "reversed" =>
        \A dir \in DOMAIN held : Answered(held[dir].names, scene.sans) = held[dir].names

LEMMA NamesStay ==
    HostInv /\ HeldInv /\ NamesInv /\ [Next]_vars => NamesInv'
<1> SUFFICES ASSUME HostInv, HeldInv, NamesInv, [Next]_vars PROVE NamesInv'
  OBVIOUS
<1>0. scene' = scene
  BY HostStays DEF host
<1> SUFFICES ASSUME scene.sans # "reversed", NEW d \in DOMAIN held'
             PROVE  Answered(held'[d].names, scene.sans) = held'[d].names
  BY <1>0 DEF NamesInv
<1>1. \A dir \in DOMAIN held : Answered(held[dir].names, scene.sans) = held[dir].names
  BY DEF NamesInv
<1>2. \A names : Answered(Answered(names, scene.sans), scene.sans) = Answered(names, scene.sans)
  <2>1. scene.sans \in {"asked", "none"}
    BY SceneBounds
  <2>2. CASE scene.sans = "asked"
    BY <2>2 DEF Answered
  <2>3. CASE scene.sans = "none"
    <3>1. \A names : Answered(names, scene.sans) = <<Head(names)>>
      BY <2>3 DEF Answered
    <3>2. \A x : Head(<<x>>) = x
      OBVIOUS
    <3> QED
      BY <3>1, <3>2
  <2> QED
    BY <2>1, <2>2, <2>3
<1>3. ASSUME NEW names, AreNames(names), NEW others, Obtain(names, others)
      PROVE  Answered(held'[d].names, scene.sans) = held'[d].names
  <2> DEFINE dir == DirectoryOf(names)
  <2>1. /\ DOMAIN held' = DOMAIN held \cup {dir}
        /\ held'[dir].names = Answered(names, scene.sans)
        /\ \A c \in DOMAIN held \ {dir} : held'[c] = held[c]
    BY <1>3, ObtainedInto
  <2> HIDE DEF dir
  <2>2. CASE d = dir
    BY <1>2, <2>1, <2>2
  <2>3. CASE d # dir
    <3>1. d \in DOMAIN held /\ held'[d] = held[d]
      BY <2>1, <2>3
    <3> QED
      BY <1>1, <3>1
  <2> QED
    BY <2>2, <2>3
<1>4. CASE UNCHANGED core \/ EndCycle
  BY <1>1, <1>4 DEF core, EndCycle
<1>5. ASSUME NEW names \in scene.requests, Request(names)
      PROVE  Answered(held'[d].names, scene.sans) = held'[d].names
  BY <1>3, <1>5, SceneBounds DEF Request
<1>6. ASSUME NEW dir \in DOMAIN held, Renew(dir)
      PROVE  Answered(held'[d].names, scene.sans) = held'[d].names
  BY <1>3, <1>6 DEF Renew, HeldInv, AreNames
<1> QED
  BY <1>4, <1>5, <1>6, CoreChange

\* What fails or is displaced stays counted.
LEMMA CountsGrow ==
    ASSUME TypeInv, [Next]_vars
    PROVE  /\ faults' = 0 => faults = 0
           /\ displaced' = 0 => displaced = 0
           /\ ~MayFallBack' => ~MayFallBack
           /\ \A i \in DOMAIN spec : NotReloaded(i) => faults' # 0
<1>1. faults \in Nat /\ displaced \in Nat
  BY DEF TypeInv, CountInv, HeldInv, SceneBounds
<1>2. faults' \in {faults, faults + 1}
  BY DEF Next, Cycle, StartCycle, Unfulfilled, NotRendered, NotResolved, UpToDate,
         NotEnforced, Install, NotInstalled, NotReloaded, Import, SkipInventory,
         LoseInventory, ReportInventory, EndCycle, IntervalPasses, Edit, Fault, Request, Renew,
         Obtain, vars
<1>3. displaced' = displaced \/ displaced' = displaced + 0 \/ displaced' = displaced + 1
  BY DEF Next, Cycle, StartCycle, Unfulfilled, NotRendered, NotResolved, UpToDate,
         NotEnforced, Install, NotInstalled, NotReloaded, Import, SkipInventory,
         LoseInventory, ReportInventory, EndCycle, IntervalPasses, Edit, Request, Renew,
         Obtain, core, vars
<1>4. ASSUME NEW i \in DOMAIN spec, NotReloaded(i) PROVE faults' = faults + 1
  BY <1>4 DEF NotReloaded, Fault
<1>5. scene' = scene
  BY HostStays DEF TypeInv, host
<1>6. (faults' = 0 => faults = 0) /\ (displaced' = 0 => displaced = 0)
      /\ faults' \in Nat /\ displaced' \in Nat
  BY <1>1, <1>2, <1>3
<1>7. ~MayFallBack' => ~MayFallBack
  <2>1. (faults > 0 => faults' > 0) /\ (displaced > 0 => displaced' > 0)
    BY <1>1, <1>6
  <2> QED
    BY <1>5, <2>1 DEF MayFallBack
<1>8. \A i \in DOMAIN spec : NotReloaded(i) => faults' # 0
  BY <1>1, <1>4
<1> QED
  BY <1>6, <1>7, <1>8

\* As long as nothing is displaced, a request beside a cycle leaves the
\* directories the cycle has read as they are, and no file is of the issuance it
\* brought.
FreshInv ==
    displaced = 0 /\ scene.sans # "reversed" =>
        /\ \A d \in DOMAIN listed : held[d] = listed[d]
        /\ \A d \in DOMAIN held \ DOMAIN listed : \A path \in DOMAIN files :
              files[path].release # Of(held[d].release)

\* What a request that displaces nothing, or a renewal, does to the directories.
LEMMA ObtainedBeside ==
    ASSUME TypeInv, InUseInv, NamesInv, scene.sans # "reversed", displaced' = 0,
           (\E names \in scene.requests : Request(names)) \/ (\E from \in DOMAIN held : Renew(from))
    PROVE  /\ files' = files /\ listed' = (IF place = 0 THEN held' ELSE listed)
           /\ DOMAIN held \subseteq DOMAIN held'
           /\ \A d \in DOMAIN held' :
                 \/ held'[d].release = issued + 1
                 \/ d \in DOMAIN held /\ held'[d] = held[d]
           /\ \A d \in DOMAIN held : held'[d].names = held[d].names
           /\ place # 0 => \A d \in DOMAIN held : held'[d] = held[d]
<1>1. HostInv /\ HeldInv /\ displaced \in Nat
  BY DEF TypeInv, CountInv, HeldInv
<1>2. PICK names, others :
        /\ AreNames(names) /\ Obtain(names, others)
        /\ DirectoryOf(names) \in DOMAIN held =>
             place = 0 /\ names = held[DirectoryOf(names)].names
  <2>1. ASSUME NEW names \in scene.requests, Request(names)
        PROVE  /\ AreNames(names) /\ Obtain(names, {})
               /\ DirectoryOf(names) \notin DOMAIN held
    <3>1. /\ AreNames(names) /\ Obtain(names, {})
          /\ displaced' = displaced + (IF DirectoryOf(names) \in DOMAIN held THEN 1 ELSE 0)
      BY <1>1, <2>1, SceneBounds DEF Request
    <3> QED
      BY <1>1, <3>1
  <2>2. ASSUME NEW from \in DOMAIN held, Renew(from)
        PROVE  /\ AreNames(held[from].names) /\ Obtain(held[from].names, {held[from].release})
               /\ DirectoryOf(held[from].names) = from /\ place = 0
    BY <1>1, <2>2 DEF Renew, HeldInv, AreNames, InUseInv
  <2>3. CASE \E names \in scene.requests : Request(names)
    BY <2>1, <2>3
  <2>4. CASE \E from \in DOMAIN held : Renew(from)
    <3>1. PICK from \in DOMAIN held : Renew(from)
      BY <2>4
    <3> QED
      BY <2>2, <3>1
  <2> QED
    BY <2>3, <2>4
<1>3. PICK dir : dir = DirectoryOf(names)
  OBVIOUS
<1>4. /\ DOMAIN held' = DOMAIN held \cup {dir}
      /\ held'[dir].names = Answered(names, scene.sans)
      /\ held'[dir].release = issued + 1
      /\ \A d \in DOMAIN held \ {dir} : held'[d] = held[d]
  BY <1>1, <1>2, <1>3, ObtainedInto
<1>5. dir \in DOMAIN held => place = 0 /\ held'[dir].names = held[dir].names
  BY <1>2, <1>3, <1>4 DEF NamesInv
<1>6. \A d \in DOMAIN held : held'[d].names = held[d].names
  BY <1>4, <1>5
<1>7. files' = files /\ listed' = (IF place = 0 THEN held' ELSE listed)
  BY <1>2 DEF Obtain
<1> QED
  BY <1>4, <1>5, <1>6, <1>7

\* A name that is found in more records, under a directory that was there
\* before, was found there.
LEMMA FoundAgain ==
    ASSUME NEW h, NEW g, NEW name, Holds(g, name), DOMAIN h \subseteq DOMAIN g,
           \A d \in DOMAIN h : g[d].names = h[d].names, FindHeld(g, name) \in DOMAIN h
    PROVE  Holds(h, name) /\ FindHeld(h, name) = FindHeld(g, name)
<1>1. PICK n \in Covering(g, name) :
             FindHeld(g, name) = Listing[n] /\ \A m \in Covering(g, name) : n <= m
  BY FoundIsHeld
<1>2. n \in Covering(h, name)
  BY <1>1 DEF Covering
<1>3. Covering(h, name) \subseteq Covering(g, name)
  BY DEF Covering
<1>4. Holds(h, name)
  BY <1>2 DEF Holds
<1>5. PICK k \in Covering(h, name) :
             FindHeld(h, name) = Listing[k] /\ \A m \in Covering(h, name) : k <= m
  BY <1>4, FoundIsHeld
<1>6. n <= k /\ k <= n
  BY <1>1, <1>2, <1>3, <1>5
<1>7. n \in Nat /\ k \in Nat
  BY <1>2, <1>5, DirectoriesAssumption DEF Covering
<1>8. n = k
  BY <1>6, <1>7
<1> QED
  BY <1>1, <1>4, <1>5, <1>8

\* No file is of an issuance to come.
LEMMA NoFileIsNewer ==
    ASSUME HeldInv, FilesInv, NEW path \in DOMAIN files
    PROVE  files[path].release # Of(issued + 1)
<1>1. issued \in Nat /\ files[path].release \in Issuances
  BY DEF HeldInv, FilesInv, File
<1>2. \A n \in 1..issued : n # issued + 1
  BY <1>1
<1>3. Of(issued + 1) \notin Issuances
  BY <1>1, <1>2, UnissuedIsNotFromCore DEF Of, Issuances
<1> QED
  BY <1>1, <1>3

\* So a destination is given what it was given before, or what no file is of.
LEMMA GivenIsNewOrSame ==
    ASSUME TypeInv, InUseInv, NamesInv, FreshInv, [Next]_vars, scene.sans # "reversed",
           displaced = 0, displaced' = 0, NEW i \in DOMAIN spec, Fulfilled(i)'
    PROVE  \/ \A path \in DOMAIN files' : files'[path].release # Of(Given(i)'.release)
           \/ Fulfilled(i) /\ Given(i)' = Given(i)
<1>1. HostInv /\ HeldInv /\ FilesInv /\ spec' = spec
  BY HostIsGiven DEF TypeInv
<1>2. PICK name : name = spec[i].certificate
  OBVIOUS
<1>3. /\ Fulfilled(i) <=> Holds(listed, name)
      /\ Given(i) = held[FindHeld(listed, name)]
      /\ Holds(listed', name)
      /\ Given(i)' = held'[FindHeld(listed', name)]
  BY <1>1, <1>2 DEF Fulfilled, Given, Directory
<1>4. PICK d : d = FindHeld(listed', name) /\ d \in DOMAIN listed'
  BY <1>3, FoundIsHeld
<1>5. CASE UNCHANGED core
  <2>1. held' = held /\ listed' = listed
    BY <1>5 DEF core
  <2> QED
    BY <1>3, <2>1
<1>6. CASE EndCycle
  <2>1. listed' = held /\ held' = held /\ files' = files
    BY <1>6 DEF EndCycle
  <2>2. CASE d \in DOMAIN listed
    <3>1. /\ DOMAIN listed \subseteq DOMAIN listed'
          /\ \A c \in DOMAIN listed : listed'[c].names = listed[c].names
      BY <1>1, <2>1 DEF HeldInv, FreshInv
    <3>2. Holds(listed, name) /\ FindHeld(listed, name) = FindHeld(listed', name)
      BY <1>3, <1>4, <2>2, <3>1, FoundAgain
    <3> QED
      BY <1>3, <2>1, <3>2
  <2>3. CASE d \notin DOMAIN listed
    <3>1. d \in DOMAIN held \ DOMAIN listed
      BY <1>4, <2>1, <2>3
    <3>2. \A path \in DOMAIN files : files[path].release # Of(held[d].release)
      BY <3>1 DEF FreshInv
    <3> QED
      BY <1>3, <1>4, <2>1, <3>2
  <2> QED
    BY <2>2, <2>3
<1>7. CASE (\E names \in scene.requests : Request(names)) \/ (\E from \in DOMAIN held : Renew(from))
  <2>1. /\ files' = files /\ listed' = (IF place = 0 THEN held' ELSE listed)
        /\ DOMAIN held \subseteq DOMAIN held'
        /\ \A c \in DOMAIN held' :
              \/ held'[c].release = issued + 1
              \/ c \in DOMAIN held /\ held'[c] = held[c]
        /\ \A c \in DOMAIN held : held'[c].names = held[c].names
        /\ place # 0 => \A c \in DOMAIN held : held'[c] = held[c]
    BY <1>7, ObtainedBeside
  <2>2. CASE place = 0
    <3>1. listed = held /\ listed' = held'
      BY <1>1, <2>1, <2>2 DEF HeldInv
    <3>2. CASE held'[d].release = issued + 1
      <4>1. \A path \in DOMAIN files : files[path].release # Of(issued + 1)
        BY <1>1, NoFileIsNewer
      <4> QED
        BY <1>3, <1>4, <2>1, <3>2, <4>1
    <3>3. CASE d \in DOMAIN held /\ held'[d] = held[d]
      <4>1. Holds(held, name) /\ FindHeld(held, name) = FindHeld(held', name)
        <5>1. /\ Holds(held', name) /\ FindHeld(held', name) \in DOMAIN held
              /\ DOMAIN held \subseteq DOMAIN held'
              /\ \A c \in DOMAIN held : held'[c].names = held[c].names
          BY <1>3, <1>4, <2>1, <3>1, <3>3
        <5> QED
          BY <5>1, FoundAgain
      <4> QED
        BY <1>3, <1>4, <3>1, <3>3, <4>1
    <3> QED
      BY <1>4, <2>1, <3>1, <3>2, <3>3
  <2>3. CASE place # 0
    <3>1. listed' = listed /\ d \in DOMAIN held /\ held'[d] = held[d]
      BY <1>1, <1>4, <2>1, <2>3 DEF HeldInv
    <3> QED
      BY <1>3, <1>4, <3>1
  <2> QED
    BY <2>2, <2>3
<1> QED
  BY <1>1, <1>5, <1>6, <1>7, CoreChange

LEMMA FreshStays ==
    ASSUME TypeInv, InUseInv, NamesInv, FreshInv, [Next]_vars
    PROVE  FreshInv'
<1>1. HostInv /\ HeldInv /\ FilesInv /\ scene' = scene
  BY HostIsGiven DEF TypeInv
<1> SUFFICES ASSUME displaced' = 0, scene.sans # "reversed"
             PROVE  /\ \A d \in DOMAIN listed' : held'[d] = listed'[d]
                    /\ \A d \in DOMAIN held' \ DOMAIN listed' : \A path \in DOMAIN files' :
                          files'[path].release # Of(held'[d].release)
  BY <1>1 DEF FreshInv
<1>2. displaced = 0
  BY CountsGrow
<1>3. /\ \A d \in DOMAIN listed : held[d] = listed[d]
      /\ \A d \in DOMAIN held \ DOMAIN listed : \A path \in DOMAIN files :
            files[path].release # Of(held[d].release)
  BY <1>2 DEF FreshInv
<1>4. CASE UNCHANGED core
  <2>1. held' = held /\ listed' = listed
    BY <1>4 DEF core
  <2>2. ASSUME NEW d \in DOMAIN held \ DOMAIN listed, NEW path \in DOMAIN files'
        PROVE  files'[path].release # Of(held[d].release)
    <3>1. CASE files' = files
      BY <1>3, <3>1
    <3>2. ASSUME NEW i \in DOMAIN spec, Install(i)
          PROVE  files'[path].release # Of(held[d].release)
      <4>1. files' = Written(i) /\ Fulfilled(i)
        BY <3>2 DEF Install, FilesTurn
      <4>2. CASE path \in Paths(i)
        <5>1. files'[path] = Becomes(i, TargetAt(i, path))
          BY <4>1, <4>2 DEF Written
        <5>2. files'[path].release \in {Unissued, Wanted(i)}
          BY <5>1 DEF Becomes
        <5>3. /\ Directory(i) \in DOMAIN listed /\ Directory(i) \in DOMAIN held
              /\ Wanted(i) = Of(held[Directory(i)].release)
          BY <1>1, <4>1, WantedIsIssued DEF Wanted, Given
        <5>4. held[d].release # held[Directory(i)].release
          BY <5>3 DEF InUseInv
        <5>5. Of(held[d].release) # Unissued
          BY DEF Of, Unissued
        <5> QED
          BY <5>2, <5>3, <5>4, <5>5 DEF Of
      <4>3. CASE path \notin Paths(i)
        <5>1. path \in DOMAIN files /\ files'[path] = files[path]
          BY <4>1, <4>3 DEF Written
        <5> QED
          BY <1>3, <5>1
      <4> QED
        BY <4>2, <4>3
    <3>3. ASSUME NEW j \in DOMAIN spec, NEW paths \in SUBSET Paths(j), files' = Enforced(j, paths)
          PROVE  files'[path].release # Of(held[d].release)
      <4>1. DOMAIN files' = DOMAIN files
        BY <3>3 DEF Enforced
      <4>2. SameBytes(files'[path], files[path])
        BY <1>1, <3>3, <4>1, EnforcedFiles
      <4> QED
        BY <1>3, <4>1, <4>2 DEF SameBytes
    <3>4. ASSUME NEW j \in DOMAIN spec, NEW k \in Nat, files' = Restored(j, k)
          PROVE  files'[path].release # Of(held[d].release)
      <4>1. DOMAIN files' = DOMAIN files
        BY <3>4 DEF Restored
      <4>2. SameBytes(files'[path], files[path])
        BY <1>1, <3>4, <4>1, RestoredFiles
      <4> QED
        BY <1>3, <4>1, <4>2 DEF SameBytes
    <3>5. ASSUME NEW p \in DOMAIN files, Edit(p)
          PROVE  files'[path].release # Of(held[d].release)
      <4> DEFINE opened == [files[p] EXCEPT !.readers = {"group", "other"}]
      <4>1. \/ files' = [files EXCEPT ![p] = opened]
            \/ files' = [q \in DOMAIN files \ {p} |-> files[q]]
        BY <3>5 DEF Edit
      <4>2. opened.release = files[p].release
        BY <1>1 DEF FilesInv, File
      <4> HIDE DEF opened
      <4>3. path \in DOMAIN files /\ files'[path].release = files[path].release
        BY <4>1, <4>2
      <4> QED
        BY <1>3, <4>3
    <3> QED
      BY <1>1, <3>1, <3>2, <3>3, <3>4, <3>5, FilesChange
  <2> QED
    BY <1>3, <2>1, <2>2
<1>5. CASE EndCycle
  BY <1>5 DEF EndCycle
<1>6. CASE (\E names \in scene.requests : Request(names)) \/ (\E from \in DOMAIN held : Renew(from))
  <2>1. /\ files' = files /\ listed' = (IF place = 0 THEN held' ELSE listed)
        /\ DOMAIN held \subseteq DOMAIN held'
        /\ \A d \in DOMAIN held' :
              \/ held'[d].release = issued + 1
              \/ d \in DOMAIN held /\ held'[d] = held[d]
        /\ place # 0 => \A d \in DOMAIN held : held'[d] = held[d]
    BY <1>6, ObtainedBeside
  <2>2. CASE place = 0
    BY <2>1, <2>2
  <2>3. CASE place # 0
    <3>1. listed' = listed /\ \A d \in DOMAIN listed : held'[d] = listed[d]
      BY <1>1, <1>3, <2>1, <2>3 DEF HeldInv
    <3>2. ASSUME NEW d \in DOMAIN held' \ DOMAIN listed, NEW path \in DOMAIN files
          PROVE  files[path].release # Of(held'[d].release)
      <4>1. CASE held'[d].release = issued + 1
        BY <1>1, <4>1, NoFileIsNewer
      <4>2. CASE d \in DOMAIN held /\ held'[d] = held[d]
        BY <1>3, <4>2
      <4> QED
        BY <2>1, <4>1, <4>2
    <3> QED
      BY <2>1, <3>1, <3>2
  <2> QED
    BY <2>2, <2>3
<1> QED
  BY <1>1, <1>4, <1>5, <1>6, CoreChange

\* A destination whose files are what it wants has one of that issuance.
LEMMA MatchesHasWanted ==
    ASSUME HostInv, NEW i \in DOMAIN spec, InFiles(i), Matches(i)
    PROVE  \E path \in Paths(i) \cap DOMAIN files : files[path].release = Wanted(i)
<1>1. /\ targets[i] \in Seq(SafeTarget(spec[i])) /\ targets[i] # <<>>
      /\ "cert" \in targets[i][1].holds
  BY DEF HostInv
<1>2. 1 \in DOMAIN targets[i]
  BY <1>1, EmptySeq, LenProperties
<1>3. targets[i][1].holds # {"chain"}
  BY <1>1
<1>4. /\ targets[i][1].path \in DOMAIN files
      /\ files[targets[i][1].path].release = Wanted(i)
  BY <1>2, <1>3 DEF Matches, SameBytes, Becomes
<1>5. targets[i][1].path \in Paths(i)
  BY <1>2 DEF Paths
<1> QED
  BY <1>4, <1>5

\* What a server loads from files just written is what they were written with.
LEMMA LoadedIsWritten ==
    ASSUME HostInv, HeldInv, Apart, NEW i \in DOMAIN spec, InFiles(i), Fulfilled(i)
    PROVE  /\ Loaded(i, Written(i)) = Wanted(i)
           /\ \A path \in Paths(i) : Written(i)[path].release \in {Wanted(i), Unissued}
<1> DEFINE tree == Written(i)
           releases == {tree[path].release : path \in Paths(i) \cap DOMAIN tree} \ {Unissued}
           first == targets[i][1].path
<1>1. /\ targets[i] \in Seq(SafeTarget(spec[i])) /\ targets[i] # <<>>
      /\ "cert" \in targets[i][1].holds
  BY DEF HostInv
<1>2. 1 \in DOMAIN targets[i]
  BY <1>1, EmptySeq, LenProperties
<1>3. Paths(i) \subseteq DOMAIN tree /\ first \in Paths(i)
  BY <1>2 DEF Written, Paths
<1>4. \A path \in Paths(i) : tree[path] = Becomes(i, TargetAt(i, path))
  BY DEF Written
<1>0. \A target : Becomes(i, target).release =
                    IF target.holds = {"chain"} THEN Unissued ELSE Wanted(i)
  BY DEF Becomes
<1> HIDE DEF tree, first
<1>5. \A path \in Paths(i) : tree[path].release \in {Wanted(i), Unissued}
  BY <1>0, <1>4
<1>6. tree[first].release = Wanted(i)
  <2>1. PICK k \in DOMAIN targets[i] :
              TargetAt(i, first) = targets[i][k] /\ targets[i][k].path = first
    BY <1>3, TargetIsThere
  <2>2. <<i, k>> = <<i, 1>>
    BY <1>2, <2>1 DEF Apart, first
  <2>3. k = 1
    BY <2>2
  <2>4. targets[i][1].holds # {"chain"}
    BY <1>1
  <2> QED
    BY <1>0, <1>3, <1>4, <2>1, <2>3, <2>4
<1>7. Wanted(i) # Unissued
  <2>1. PICK n \in 1..issued : Wanted(i) = Of(n)
    BY WantedIsIssued
  <2> QED
    BY <2>1 DEF Of, Unissued
<1>8. releases = {Wanted(i)}
  BY <1>3, <1>5, <1>6, <1>7
<1>9. Cardinality(releases) = 1
  BY <1>8, FS_Singleton
<1>10. (CHOOSE r \in releases : TRUE) = Wanted(i)
  BY <1>8
<1>11. Loaded(i, tree) = Wanted(i)
  BY <1>3, <1>9, <1>10 DEF Loaded
<1> QED
  BY <1>5, <1>11 DEF tree

\* What a step leaves of a destination's files, unless it writes them.
Untouched(i) ==
    \A path \in Paths(i) \cap DOMAIN files' :
        path \in DOMAIN files /\ SameBytes(files'[path], files[path])

LEMMA OthersUntouched ==
    ASSUME HostInv, FilesInv, Apart, [Next]_vars, NEW i \in DOMAIN spec, ~Install(i)
    PROVE  Untouched(i)
<1> SUFFICES ASSUME NEW path \in Paths(i) \cap DOMAIN files'
             PROVE  path \in DOMAIN files /\ SameBytes(files'[path], files[path])
  BY DEF Untouched
<1>1. CASE files' = files
  BY <1>1 DEF SameBytes
<1>2. ASSUME NEW j \in DOMAIN spec, Install(j)
      PROVE  path \in DOMAIN files /\ SameBytes(files'[path], files[path])
  <2>1. files' = Written(j) /\ i # j
    BY <1>2 DEF Install
  <2>2. path \notin Paths(j)
    <3>1. ASSUME path \in Paths(j) PROVE FALSE
      <4>1. PICK k \in DOMAIN targets[i] : targets[i][k].path = path
        BY DEF Paths
      <4>2. PICK l \in DOMAIN targets[j] : targets[j][l].path = path
        BY <3>1 DEF Paths
      <4>3. <<i, k>> = <<j, l>>
        BY <4>1, <4>2 DEF Apart
      <4> QED
        BY <2>1, <4>3
    <3> QED
      BY <3>1
  <2>3. path \in DOMAIN files /\ files'[path] = files[path]
    BY <2>1, <2>2 DEF Written
  <2> QED
    BY <2>3 DEF SameBytes
<1>3. ASSUME NEW j \in DOMAIN spec, NEW paths \in SUBSET Paths(j), files' = Enforced(j, paths)
      PROVE  path \in DOMAIN files /\ SameBytes(files'[path], files[path])
  <2>1. DOMAIN files' = DOMAIN files
    BY <1>3 DEF Enforced
  <2> QED
    BY <1>3, <2>1, EnforcedFiles
<1>4. ASSUME NEW j \in DOMAIN spec, NEW k \in Nat, files' = Restored(j, k)
      PROVE  path \in DOMAIN files /\ SameBytes(files'[path], files[path])
  <2>1. DOMAIN files' = DOMAIN files
    BY <1>4 DEF Restored
  <2> QED
    BY <1>4, <2>1, RestoredFiles
<1>5. ASSUME NEW p \in DOMAIN files, Edit(p)
      PROVE  path \in DOMAIN files /\ SameBytes(files'[path], files[path])
  <2> DEFINE open == {"group", "other"}
             opened == [files[p] EXCEPT !.readers = open]
  <2>1. \/ files' = [files EXCEPT ![p] = opened]
        \/ files' = [q \in DOMAIN files \ {p} |-> files[q]]
    BY <1>5 DEF Edit
  <2>2. SameBytes(opened, files[p])
    BY DEF SameBytes, FilesInv, File
  <2> HIDE DEF opened
  <2>3. \A q \in DOMAIN files : SameBytes(files[q], files[q])
    BY DEF SameBytes
  <2> QED
    BY <2>1, <2>2, <2>3
<1> QED
  BY <1>1, <1>2, <1>3, <1>4, <1>5, FilesChange

\* What a step may do to one server, and to what is reported of it.
LEMMA ServerChange ==
    ASSUME ServerInv, [Next]_vars, NEW i \in DOMAIN spec, InFiles(i), Runs(spec[i].reload)
    PROVE  /\ \/ Install(i) /\ serves'[i] = Loaded(i, Written(i))
              \/ NotReloaded(i)
              \/ serves'[i] = serves[i]
           /\ \/ (Install(i) \/ UpToDate(i)) /\ outcome'[i].release = Wanted(i)
              \/ outcome'[i].status # "installed"
              \/ outcome'[i] = outcome[i] /\ ~NotReloaded(i) /\ ~Install(i)
<1> DEFINE D == DOMAIN spec
<1>1. serves = [j \in D |-> serves[j]] /\ outcome = [j \in D |-> outcome[j]]
  BY DEF ServerInv
<1>2. \/ serves' = serves
      \/ \E j \in D : \/ Install(j) /\ serves' = Served(j)
                      \/ NotReloaded(j) /\ serves' \in {serves, Served(j), [serves EXCEPT ![j] = Loaded(j, files)]}
                      \/ ~InFiles(j) /\ serves' = [serves EXCEPT ![j] = Wanted(j)]
  BY DEF Next, Cycle, StartCycle, Unfulfilled, NotRendered, NotResolved, UpToDate,
         NotEnforced, Install, NotInstalled, NotReloaded, Import, SkipInventory,
         LoseInventory, ReportInventory, EndCycle, IntervalPasses, Edit, Request, Renew, Obtain, vars
<1>3. ASSUME NEW j \in D PROVE j # i => Served(j)[i] = serves[i]
  BY <1>1 DEF Served
<1>4. Served(i)[i] = Loaded(i, Written(i))
  BY <1>1 DEF Served
<1>5. \/ Install(i) /\ serves'[i] = Loaded(i, Written(i))
      \/ NotReloaded(i)
      \/ serves'[i] = serves[i]
  BY <1>1, <1>2, <1>3, <1>4
<1>6. ASSUME NEW j \in D, NEW status, Return(j, status)
      PROVE  /\ i = j => outcome'[i].status = status /\ outcome'[i].release = Wanted(i)
             /\ i # j => outcome'[i] = outcome[i]
  <2> DEFINE new == [status |-> status, release |-> Wanted(j), id |-> Recorded(j)]
  <2>1. outcome' = [outcome EXCEPT ![j] = new]
    BY <1>6 DEF Return
  <2>2. new.status = status /\ new.release = Wanted(j)
    OBVIOUS
  <2> HIDE DEF new
  <2> QED
    BY <1>1, <2>1, <2>2
<1>7. CASE Install(i)
  <2>1. Return(i, "installed") /\ serves' = Served(i)
    BY <1>7 DEF Install
  <2> QED
    BY <1>4, <1>6, <1>7, <2>1
<1>8. CASE NotReloaded(i)
  <2>1. Return(i, "failed")
    BY <1>8 DEF NotReloaded
  <2>2. "failed" # "installed"
    OBVIOUS
  <2> QED
    BY <1>6, <1>8, <2>1, <2>2
<1>9. \/ outcome' = outcome
      \/ \E j \in D : Return(j, "installed") /\ (Install(j) \/ UpToDate(j) \/ ~InFiles(j))
      \/ \E j \in D, status \in {"unfulfilled", "failed"} : Return(j, status)
  BY DEF Next, Cycle, StartCycle, Unfulfilled, NotRendered, NotResolved, UpToDate,
         NotEnforced, Install, NotInstalled, NotReloaded, Import, SkipInventory,
         LoseInventory, ReportInventory, EndCycle, IntervalPasses, Edit, Request, Renew, Obtain, vars
<1>10. CASE ~Install(i) /\ ~NotReloaded(i)
  <2>1. CASE outcome' = outcome
    BY <1>5, <1>10, <2>1
  <2>2. ASSUME NEW j \in D, Return(j, "installed"), Install(j) \/ UpToDate(j) \/ ~InFiles(j)
        PROVE  \/ UpToDate(i) /\ outcome'[i].release = Wanted(i)
               \/ outcome'[i] = outcome[i]
    <3>1. CASE i = j
      BY <1>6, <1>10, <2>2, <3>1
    <3>2. CASE i # j
      BY <1>6, <2>2, <3>2
    <3> QED
      BY <3>1, <3>2
  <2>3. ASSUME NEW j \in D, NEW status \in {"unfulfilled", "failed"}, Return(j, status)
        PROVE  outcome'[i].status # "installed" \/ outcome'[i] = outcome[i]
    BY <1>6, <2>3
  <2> QED
    BY <1>5, <1>9, <1>10, <2>1, <2>2, <2>3
<1> QED
  BY <1>7, <1>8, <1>10

LEMMA ServedStays ==
    TypeInv /\ InUseInv /\ NamesInv /\ FreshInv /\ ServedInv /\ [Next]_vars => ServedInv'
<1> SUFFICES ASSUME TypeInv, InUseInv, NamesInv, FreshInv, ServedInv, [Next]_vars
             PROVE  ServedInv'
  OBVIOUS
<1>1. HostInv /\ HeldInv /\ FilesInv /\ ServerInv /\ issued \in Nat
  BY DEF TypeInv, HeldInv
<1>2. scene' = scene /\ spec' = spec /\ targets' = targets
  BY <1>1, HostStays DEF host
<1>3. (Apart' => Apart) /\ \A i \in DOMAIN spec : InFiles(i)' = InFiles(i) /\ Paths(i)' = Paths(i)
  BY <1>2 DEF Apart, InFiles, Paths
<1> SUFFICES ASSUME Apart, NEW i \in DOMAIN spec, InFiles(i), Runs(spec[i].reload)
             PROVE  HasWritten(i)' /\ HasWanted(i)' /\ HasReported(i)'
  BY <1>2, <1>3 DEF ServedInv
<1>4. HasWritten(i) /\ HasWanted(i) /\ HasReported(i)
  BY DEF ServedInv
<1>5. /\ faults' = 0 => faults = 0
      /\ displaced' = 0 => displaced = 0
      /\ ~MayFallBack' => ~MayFallBack
      /\ NotReloaded(i) => faults' # 0
  BY CountsGrow
<1>6. /\ \/ Install(i) /\ serves'[i] = Loaded(i, Written(i))
         \/ NotReloaded(i)
         \/ serves'[i] = serves[i]
      /\ \/ (Install(i) \/ UpToDate(i)) /\ outcome'[i].release = Wanted(i)
         \/ outcome'[i].status # "installed"
         \/ outcome'[i] = outcome[i] /\ ~NotReloaded(i) /\ ~Install(i)
  BY <1>1, ServerChange
<1>7. CASE Install(i)
  <2>1. Fulfilled(i) /\ files' = Written(i) /\ held' = held /\ listed' = listed /\ serves' = Served(i)
        /\ Return(i, "installed")
    BY <1>7 DEF Install, FilesTurn, core
  <2>2. /\ Loaded(i, Written(i)) = Wanted(i)
        /\ \A path \in Paths(i) : Written(i)[path].release \in {Wanted(i), Unissued}
    BY <1>1, <2>1, LoadedIsWritten
  <2>3. serves'[i] = Wanted(i)
    BY <1>1, <2>1, <2>2 DEF Served, ServerInv
  <2>4. outcome'[i].release = Wanted(i)
    <3> DEFINE new == [status |-> "installed", release |-> Wanted(i), id |-> Recorded(i)]
    <3>1. outcome' = [outcome EXCEPT ![i] = new] /\ new.release = Wanted(i)
      BY <2>1 DEF Return
    <3> HIDE DEF new
    <3> QED
      BY <1>1, <3>1 DEF ServerInv
  <2>5. Wanted(i)' = Wanted(i)
    BY <1>2, <2>1 DEF Wanted, Fulfilled, Given, Directory
  <2>6. Unissued \notin FromCore
    BY UnissuedIsNotFromCore
  <2>7. HasWritten(i)'
    <3> SUFFICES ASSUME NEW path \in Paths(i), files'[path].release \in FromCore
                 PROVE  files'[path].release = serves'[i]
      BY <1>3 DEF HasWritten
    <3> QED
      BY <2>1, <2>2, <2>3, <2>6
  <2>8. HasWanted(i)' /\ HasReported(i)'
    BY <2>3, <2>4, <2>5 DEF HasWanted, HasReported
  <2> QED
    BY <2>7, <2>8
<1>8. CASE ~Install(i)
  <2>1. Untouched(i)
    BY <1>1, <1>8, OthersUntouched
  <2>2. HasWritten(i)'
    <3> SUFFICES ASSUME faults' = 0, NEW path \in Paths(i) \cap DOMAIN files',
                        files'[path].release \in FromCore
                 PROVE  files'[path].release = serves'[i]
      BY <1>3 DEF HasWritten
    <3>1. path \in DOMAIN files /\ files'[path].release = files[path].release
      BY <2>1 DEF Untouched, SameBytes
    <3> QED
      BY <1>4, <1>5, <1>6, <1>8, <3>1 DEF HasWritten
  <2>3. ASSUME displaced' = 0, scene.sans # "reversed", Matches(i)', Fulfilled(i)'
        PROVE  serves'[i] = Wanted(i)'
    <3>1. \/ \A path \in DOMAIN files' : files'[path].release # Of(Given(i)'.release)
          \/ Fulfilled(i) /\ Given(i)' = Given(i)
      BY <1>5, <2>3, GivenIsNewOrSame
    <3>2. Wanted(i)' = Of(Given(i)'.release)
      BY <2>3 DEF Wanted, Of
    <3>3. CASE \A path \in DOMAIN files' : files'[path].release # Of(Given(i)'.release)
      <4>1. /\ targets[i] \in Seq(SafeTarget(spec[i])) /\ targets[i] # <<>>
            /\ "cert" \in targets[i][1].holds
        BY <1>1 DEF HostInv
      <4>2. 1 \in DOMAIN targets[i]
        BY <4>1, EmptySeq, LenProperties
      <4>3. targets[i][1].holds # {"chain"}
        BY <4>1
      <4>4. /\ targets[i][1].path \in DOMAIN files'
            /\ files'[targets[i][1].path].release = Wanted(i)'
        BY <1>2, <2>3, <4>2, <4>3 DEF Matches, SameBytes, Becomes
      <4> QED
        BY <3>2, <3>3, <4>4
    <3>4. CASE Fulfilled(i) /\ Given(i)' = Given(i)
      <4>1. Fulfilled(i) /\ Given(i)' = Given(i)
        BY <3>4
      <4>2. Wanted(i)' = Wanted(i) /\ Bare(i)' = Bare(i)
        BY <2>3, <4>1 DEF Wanted, Bare
      <4>3. Matches(i)
        <5>1. ~Keystore(spec[i])
          BY <1>2, <2>3 DEF Matches
        <5>2. ASSUME NEW k \in DOMAIN targets[i]
              PROVE  /\ targets[i][k].path \in DOMAIN files
                     /\ SameBytes(files[targets[i][k].path], Becomes(i, targets[i][k]))
          <6> DEFINE path == targets[i][k].path
          <6>1. path \in DOMAIN files' /\ SameBytes(files'[path], Becomes(i, targets[i][k])')
            BY <1>2, <2>3 DEF Matches, SameBytes, Becomes, OwnerOf
          <6>2. path \in Paths(i)
            BY DEF Paths
          <6>3. path \in DOMAIN files /\ SameBytes(files'[path], files[path])
            BY <2>1, <6>1, <6>2 DEF Untouched
          <6>4. SameBytes(Becomes(i, targets[i][k])', Becomes(i, targets[i][k]))
            BY <1>2, <4>2 DEF SameBytes, Becomes
          <6> QED
            BY <6>1, <6>3, <6>4 DEF SameBytes
        <5> QED
          BY <5>1, <5>2 DEF Matches
      <4>4. serves[i] = Wanted(i)
        BY <1>4, <1>5, <2>3, <4>1, <4>3 DEF HasWanted
      <4>5. ~NotReloaded(i)
        BY <4>3 DEF NotReloaded
      <4> QED
        BY <1>6, <1>8, <4>2, <4>4, <4>5
    <3> QED
      BY <3>1, <3>3, <3>4
  <2>4. ASSUME ~MayFallBack', outcome'[i].status = "installed"
        PROVE  serves'[i] = outcome'[i].release
    <3>1. CASE UpToDate(i) /\ outcome'[i].release = Wanted(i)
      <4>1. Fulfilled(i) /\ Matches(i) /\ serves' = serves
        BY <3>1 DEF UpToDate, FilesTurn
      <4>2. faults = 0 \/ (displaced = 0 /\ scene.sans # "reversed")
        BY <1>1, <1>5, <2>4 DEF MayFallBack, TypeInv, CountInv
      <4>3. CASE faults = 0
        <5>1. PICK path \in Paths(i) \cap DOMAIN files : files[path].release = Wanted(i)
          BY <1>1, <4>1, MatchesHasWanted
        <5>2. Wanted(i) \in FromCore
          <6>1. PICK n \in 1..issued : Wanted(i) = Of(n)
            BY <1>1, <4>1, WantedIsIssued
          <6> QED
            BY <1>1, <6>1 DEF FromCore
        <5> QED
          BY <1>4, <3>1, <4>1, <4>3, <5>1, <5>2 DEF HasWritten
      <4>4. CASE displaced = 0 /\ scene.sans # "reversed"
        BY <1>4, <3>1, <4>1, <4>4 DEF HasWanted
      <4> QED
        BY <4>2, <4>3, <4>4
    <3>2. CASE outcome'[i] = outcome[i] /\ ~NotReloaded(i) /\ ~Install(i)
      BY <1>4, <1>5, <1>6, <2>4, <3>2 DEF HasReported
    <3> QED
      BY <1>6, <1>8, <2>4, <3>1, <3>2
  <2>5. HasWanted(i)'
    BY <1>2, <2>3 DEF HasWanted
  <2>6. HasReported(i)'
    BY <2>4 DEF HasReported
  <2> QED
    BY <2>2, <2>5, <2>6
<1> QED
  BY <1>7, <1>8

\* Where no two destinations write one file, a destination reported as installed
\* is served by the server it reloads, whatever is issued, edited and fails, but
\* for the case MayFallBack names.
THEOREM InstalledIsServed == Spec => []EachIsServed
<1>1. Init => NamesInv /\ FreshInv /\ ServedInv
  <2> SUFFICES ASSUME Init PROVE NamesInv /\ FreshInv /\ ServedInv
    OBVIOUS
  <2>1. HostInv
    BY HostStarts
  <2>2. /\ DOMAIN held = {} /\ listed = held /\ files = scene.tree
        /\ outcome = [i \in DOMAIN spec |->
                        [status |-> "pending", release |-> Unissued, id |-> Unissued]]
    BY DEF Init
  <2>3. NamesInv /\ FreshInv
    BY <2>2 DEF NamesInv, FreshInv
  <2>4. \A path \in DOMAIN files : files[path].release \notin FromCore
    <3>1. \A path \in DOMAIN files :
             files[path].release \in {Unissued, <<"admin", 1>>, <<"admin", 2>>}
      BY <2>1, <2>2, HostFilesAssumption DEF HostInv
    <3> QED
      BY <3>1, UnissuedIsNotFromCore
  <2>5. \A i \in DOMAIN spec : ~Fulfilled(i)
    BY <2>2 DEF Fulfilled, Holds, Covering
  <2>6. \A i \in DOMAIN spec : outcome[i].status # "installed"
    BY <2>2
  <2> QED
    BY <2>3, <2>4, <2>5, <2>6 DEF ServedInv, HasWritten, HasWanted, HasReported
<1>2. NamesInv /\ TypeInv /\ [Next]_vars => NamesInv'
  BY NamesStay DEF TypeInv
<1>3. ServedInv => EachIsServed
  BY DEF ServedInv, HasReported, EachIsServed, SharedIsServed
<1>4. TypeInv /\ InUseInv /\ NamesInv /\ FreshInv /\ [Next]_vars => FreshInv'
  BY FreshStays
<1> QED
  BY <1>1, <1>2, <1>3, <1>4, ServedStays, InUseHolds, Typed, PTL DEF Spec

-----------------------------------------------------------------------------
(* Everything that is declared has an effect.                              *)

LEMMA Fields ==
    /\ Field = {"name", "certificate", "profile", "format", "cert_path", "key_path",
                "chain_path", "fullchain_path", "keystore_password",
                "keystore_password_file", "keystore_alias", "store", "bind", "verify",
                "owner", "group", "cert_mode", "key_mode", "check", "reload"}
    /\ Templated \subseteq Field
    /\ \A f \in PathField : Nothing[f] = NoPath
    /\ Nothing["verify"] = NoPath
    /\ \A f \in {"certificate", "format", "store", "owner", "group", "cert_mode", "key_mode",
                 "keystore_password", "keystore_password_file", "keystore_alias"} :
          Nothing[f] = ""
    /\ \A f \in {"bind", "check", "reload"} : Nothing[f] = "nil"
BY DEF Field, Nothing, Templated, PathField

\* No profile chooses the certificate or a password.
Unset == {"certificate", "keystore_password", "keystore_password_file", "keystore_alias"}

LEMMA ProfilesLeave ==
    ASSUME NEW f \in Unset, NEW p \in DOMAIN Catalogue
    PROVE  Catalogue[p][f] = ""
<1> DEFINE Blank(q) == /\ q.certificate = "" /\ q.keystore_password = ""
                       /\ q.keystore_password_file = "" /\ q.keystore_alias = ""
<1>1. DOMAIN Catalogue = {"nginx", "apache", "caddy", "haproxy", "postgresql", "postfix",
                          "dovecot", "mariadb", "tomcat", "iis"}
  BY DEF Catalogue
<1>2. Blank(Catalogue.nginx) /\ Blank(Catalogue.apache) /\ Blank(Catalogue.caddy)
  BY DEF Catalogue, Nothing, ThreeFiles
<1>3. Blank(Catalogue.haproxy) /\ Blank(Catalogue.tomcat) /\ Blank(Catalogue.iis)
  BY DEF Catalogue, Nothing, ThreeFiles
<1>4. Blank(Catalogue.postfix) /\ Blank(Catalogue.dovecot)
  BY DEF Catalogue, Nothing, ThreeFiles
<1>5. Blank(Catalogue.postgresql) /\ Blank(Catalogue.mariadb)
  BY DEF Catalogue, Nothing, ThreeFiles
<1> HIDE DEF Blank
<1>6. Blank(Catalogue[p])
  BY <1>1, <1>2, <1>3, <1>4, <1>5
<1> QED
  BY <1>6 DEF Blank, Unset

WithProfile(d) ==
    IF d.profile \in DOMAIN Catalogue THEN Filled(d, Catalogue[d.profile]) ELSE d

LEMMA ProfileFills ==
    ASSUME NEW d, NEW f \in Field
    PROVE  /\ d[f] # Nothing[f] => WithProfile(d)[f] = d[f]
           /\ d[f] = Nothing[f] =>
                 WithProfile(d)[f] \in {Nothing[f]} \cup {Catalogue[p][f] : p \in DOMAIN Catalogue}
BY DEF WithProfile, Filled

\* What validate sees of a field.
LEMMA Seen ==
    ASSUME NEW d, NEW f \in Field
    PROVE  /\ f \notin Templated => Completed(d)[f] = WithProfile(d)[f]
           /\ f \in Templated =>
                 Completed(d)[f] =
                    IF WithProfile(d)[f].dir = Placeholder
                    THEN [WithProfile(d)[f] EXCEPT !.dir = WithProfile(d).certificate]
                    ELSE WithProfile(d)[f]
BY DEF Completed, WithProfile, Expanded

\* Another value in one field.
With(d, f, v) == [d EXCEPT ![f] = v]

LEMMA OthersSeenAlike ==
    ASSUME NEW d, DOMAIN d = Field, NEW f \in Field \ {"profile"}, NEW v,
           NEW g \in Field \ {f}, f = "certificate" => g \notin Templated
    PROVE  Completed(With(d, f, v))[g] = Completed(d)[g]
<1> DEFINE e == With(d, f, v)
<1>1. /\ \A h \in Field \ {f} : e[h] = d[h]
      /\ e.profile = d.profile
  BY Fields DEF With
<1> HIDE DEF e
<1>2. \A h \in Field \ {f} : WithProfile(e)[h] = WithProfile(d)[h]
  BY <1>1 DEF WithProfile, Filled
<1>3. g \in Templated => WithProfile(e).certificate = WithProfile(d).certificate
  BY <1>2, Fields
<1>4. Completed(e)[g] = Completed(d)[g]
  <2>1. /\ WithProfile(e)[g] = WithProfile(d)[g]
        /\ g \notin Templated => Completed(e)[g] = WithProfile(e)[g]
        /\ g \notin Templated => Completed(d)[g] = WithProfile(d)[g]
    BY <1>2, Seen
  <2>2. CASE g \notin Templated
    BY <2>1, <2>2
  <2>3. CASE g \in Templated
    <3>1. /\ WithProfile(e)[g] = WithProfile(d)[g]
          /\ WithProfile(e).certificate = WithProfile(d).certificate
      BY <1>3, <2>1, <2>3
    <3>2. /\ Completed(e)[g] = IF WithProfile(e)[g].dir = Placeholder
                THEN [WithProfile(e)[g] EXCEPT !.dir = WithProfile(e).certificate]
                ELSE WithProfile(e)[g]
          /\ Completed(d)[g] = IF WithProfile(d)[g].dir = Placeholder
                THEN [WithProfile(d)[g] EXCEPT !.dir = WithProfile(d).certificate]
                ELSE WithProfile(d)[g]
      BY <2>3, Seen
    <3> QED
      BY <3>1, <3>2
  <2> QED
    BY <2>2, <2>3
<1> QED
  BY <1>4 DEF e

\* What somebody wrote into a field is what validate sees there.
LEMMA DeclaredIsSeen ==
    ASSUME NEW d, NEW f \in Field, d[f] # Nothing[f]
    PROVE  /\ f \notin Templated => Completed(d)[f] = d[f]
           /\ f \in Templated /\ d[f] \in PathName =>
                 /\ Completed(d)[f].stem = d[f].stem
                 /\ Completed(d).certificate # "" => Completed(d)[f] # NoPath
<1>1. WithProfile(d)[f] = d[f]
  BY ProfileFills
<1>2. Completed(d).certificate = WithProfile(d).certificate
  <2>1. "certificate" \in Field /\ "certificate" \notin Templated
    BY Fields DEF Templated, PathField
  <2> QED
    BY <2>1, Seen
<1>3. CASE f \notin Templated
  BY <1>1, <1>3, Seen
<1>4. CASE f \in Templated
  <2> DEFINE c == WithProfile(d).certificate
  <2>1. Completed(d)[f] = IF d[f].dir = Placeholder THEN [d[f] EXCEPT !.dir = c] ELSE d[f]
    BY <1>1, <1>4, Seen
  <2>2. d[f] # NoPath
    BY <1>4, Fields DEF Templated
  <2> HIDE DEF c
  <2>3. ASSUME d[f] \in PathName
        PROVE  /\ Completed(d)[f].stem = d[f].stem
               /\ c # "" => Completed(d)[f] # NoPath
    <3>1. PICK x \in STRING, y \in STRING, z \in STRING :
                 d[f] = [dir |-> x, stem |-> y, suffix |-> z]
      BY <2>3 DEF PathName
    <3>2. CASE x = Placeholder
      <4>1. Completed(d)[f] = [dir |-> c, stem |-> y, suffix |-> z]
        BY <3>1, <3>2, <2>1
      <4>2. NoPath.dir = ""
        BY DEF NoPath, At
      <4>3. d[f].stem = y /\ Completed(d)[f].stem = y /\ Completed(d)[f].dir = c
        BY <3>1, <4>1
      <4> QED
        BY <4>2, <4>3
    <3>3. CASE x # Placeholder
      <4>1. Completed(d)[f] = d[f]
        BY <3>1, <3>3, <2>1
      <4> QED
        BY <4>1, <2>2
    <3> QED
      BY <3>2, <3>3
  <2> QED
    BY <1>2, <1>4, <2>3 DEF c
<1> QED
  BY <1>3, <1>4

\* What is left of a field when it is left out.
LEMMA LeftOutIsSeen ==
    ASSUME NEW d, NEW f \in Field \ Templated, d[f] = Nothing[f]
    PROVE  /\ f \in Unset => Completed(d)[f] = ""
           /\ f \in {"owner", "group"} =>
                 Completed(d)[f] \in {""} \cup {Catalogue[p][f] : p \in DOMAIN Catalogue}
<1>1. Completed(d)[f] \in {Nothing[f]} \cup {Catalogue[p][f] : p \in DOMAIN Catalogue}
  <2>1. Completed(d)[f] = WithProfile(d)[f]
    BY Seen
  <2>2. WithProfile(d)[f] \in {Nothing[f]} \cup {Catalogue[p][f] : p \in DOMAIN Catalogue}
    BY ProfileFills
  <2> QED
    BY <2>1, <2>2
<1>2. f \in Unset \cup {"owner", "group"} => Nothing[f] = ""
  BY Fields DEF Unset
<1>3. f \in Unset => \A p \in DOMAIN Catalogue : Catalogue[p][f] = ""
  BY ProfilesLeave
<1> QED
  BY <1>1, <1>2, <1>3

-----------------------------------------------------------------------------
(* Where in its list render puts each target.                              *)

ChainAt(d)     == IF Combined(d) THEN 2 ELSE 3
FullchainAt(d) == IF d.chain_path = NoPath THEN ChainAt(d) ELSE ChainAt(d) + 1

LEMMA RenderInOrder ==
    ASSUME NEW d
    PROVE  /\ Render(d)[1].path = d.cert_path
           /\ Keystore(d) \/ Combined(d) =>
                 /\ Render(d)[1].readers = ReadersOf[KeyMode(d)]
                 /\ Render(d)[1].holds = {"cert", "chain", "key"}
           /\ ~Keystore(d) =>
                 /\ ~Combined(d) => /\ Render(d)[1].readers = ReadersOf[CertMode(d)]
                                    /\ Render(d)[1].holds = {"cert"}
                                    /\ Render(d)[2].readers = ReadersOf[KeyMode(d)]
                                    /\ Render(d)[2].path = d.key_path
                 /\ d.chain_path # NoPath =>
                       /\ Render(d)[ChainAt(d)].path = d.chain_path
                       /\ Render(d)[ChainAt(d)].readers = ReadersOf[CertMode(d)]
                 /\ d.fullchain_path # NoPath =>
                       /\ Render(d)[FullchainAt(d)].path = d.fullchain_path
                       /\ Render(d)[FullchainAt(d)].readers = ReadersOf[CertMode(d)]
<1> DEFINE all   == Target(d.cert_path, {"cert", "chain", "key"}, KeyMode(d))
           cert  == Target(d.cert_path, {"cert"}, CertMode(d))
           key   == Target(d.key_path, {"key"}, KeyMode(d))
           chain == Target(d.chain_path, {"chain"}, CertMode(d))
           full  == Target(d.fullchain_path, {"cert", "chain"}, CertMode(d))
           one   == IF Combined(d) THEN <<all>> ELSE <<cert, key>>
           two   == Unless(d.chain_path = NoPath, <<chain>>)
           three == Unless(d.fullchain_path = NoPath, <<full>>)
<1>1. Render(d) = IF Keystore(d) THEN <<all>> ELSE (one \o two) \o three
  BY DEF Render
<1>2. /\ all.path = d.cert_path /\ all.readers = ReadersOf[KeyMode(d)]
      /\ all.holds = {"cert", "chain", "key"} /\ cert.path = d.cert_path
      /\ cert.holds = {"cert"} /\ cert.readers = ReadersOf[CertMode(d)]
      /\ key.path = d.key_path /\ key.readers = ReadersOf[KeyMode(d)]
      /\ chain.path = d.chain_path /\ chain.readers = ReadersOf[CertMode(d)]
      /\ full.path = d.fullchain_path /\ full.readers = ReadersOf[CertMode(d)]
  BY DEF Target
<1> HIDE DEF all, cert, key, chain, full
<1>3. CASE Keystore(d)
  BY <1>1, <1>2, <1>3
<1>4. CASE ~Keystore(d)
  <2> DEFINE S    == {all, cert, key, chain, full}
             pair == one \o two
             list == pair \o three
  <2>1. /\ Combined(d) => one = <<all>>
        /\ ~Combined(d) => one = <<cert, key>>
        /\ two = IF d.chain_path = NoPath THEN << >> ELSE <<chain>>
        /\ three = IF d.fullchain_path = NoPath THEN << >> ELSE <<full>>
    BY DEF Unless
  <2> HIDE DEF one, two, three
  <2>2. /\ one \in Seq(S) /\ Len(one) \in Nat
        /\ Combined(d) => Len(one) = 1 /\ one[1] = all
        /\ ~Combined(d) => Len(one) = 2 /\ one[1] = cert /\ one[2] = key
    <3>1. <<all>> \in Seq(S) /\ Len(<<all>>) = 1 /\ <<all>>[1] = all
      OBVIOUS
    <3>2. /\ <<cert, key>> \in Seq(S) /\ Len(<<cert, key>>) = 2
          /\ <<cert, key>>[1] = cert /\ <<cert, key>>[2] = key
      OBVIOUS
    <3> HIDE DEF S
    <3> QED
      BY <2>1, <3>1, <3>2
  <2>3. /\ two \in Seq(S) /\ Len(two) \in Nat
        /\ d.chain_path = NoPath => Len(two) = 0
        /\ d.chain_path # NoPath => Len(two) = 1 /\ two[1] = chain
    <3>1. <<chain>> \in Seq(S) /\ Len(<<chain>>) = 1 /\ <<chain>>[1] = chain
      OBVIOUS
    <3>2. << >> \in Seq(S) /\ Len(<< >>) = 0
      OBVIOUS
    <3> HIDE DEF S
    <3> QED
      BY <2>1, <3>1, <3>2
  <2>4. /\ three \in Seq(S) /\ Len(three) \in Nat
        /\ d.fullchain_path # NoPath => Len(three) = 1 /\ three[1] = full
    <3>1. <<full>> \in Seq(S) /\ Len(<<full>>) = 1 /\ <<full>>[1] = full
      OBVIOUS
    <3>2. << >> \in Seq(S) /\ Len(<< >>) = 0
      OBVIOUS
    <3> HIDE DEF S
    <3> QED
      BY <2>1, <3>1, <3>2
  <2> HIDE DEF S
  <2>5. /\ pair \in Seq(S) /\ Len(pair) = Len(one) + Len(two)
        /\ \A k \in 1..(Len(one) + Len(two)) :
              pair[k] = IF k <= Len(one) THEN one[k] ELSE two[k - Len(one)]
    BY <2>2, <2>3, ConcatProperties
  <2> HIDE DEF pair
  <2>6. \A k \in 1..(Len(pair) + Len(three)) :
              list[k] = IF k <= Len(pair) THEN pair[k] ELSE three[k - Len(pair)]
    BY <2>5, <2>4, ConcatProperties
  <2>7. Render(d) = list
    BY <1>1, <1>4 DEF pair
  <2> HIDE DEF list
  <2> DEFINE n == Len(one)
             m == Len(two)
  <2>8. /\ n \in {1, 2} /\ m \in {0, 1} /\ n = (IF Combined(d) THEN 1 ELSE 2)
        /\ m = (IF d.chain_path = NoPath THEN 0 ELSE 1)
        /\ Len(pair) = n + m
    BY <2>2, <2>3, <2>5
  <2>9. /\ ChainAt(d) = n + 1 /\ FullchainAt(d) = n + m + 1
    <3> HIDE DEF n, m
    <3> QED
      BY <2>8 DEF ChainAt, FullchainAt
  <2>10. /\ list[1] = pair[1] /\ pair[1] = one[1]
         /\ ~Combined(d) => list[2] = pair[2] /\ pair[2] = one[2]
    BY <2>4, <2>5, <2>6, <2>8
  <2>11. d.chain_path # NoPath => list[n + 1] = pair[n + 1] /\ pair[n + 1] = two[1]
    BY <2>4, <2>5, <2>6, <2>8
  <2>12. d.fullchain_path # NoPath => list[n + m + 1] = three[1]
    BY <2>4, <2>5, <2>6, <2>8
  <2>13. /\ Combined(d) => list[1] = all
         /\ ~Combined(d) => list[1] = cert /\ list[2] = key
         /\ d.chain_path # NoPath => list[ChainAt(d)] = chain
         /\ d.fullchain_path # NoPath => list[FullchainAt(d)] = full
    BY <2>2, <2>3, <2>4, <2>10, <2>11, <2>12, <2>9
  <2>14. /\ Combined(d) => Render(d)[1] = all
         /\ ~Combined(d) => Render(d)[1] = cert /\ Render(d)[2] = key
         /\ d.chain_path # NoPath => Render(d)[ChainAt(d)] = chain
         /\ d.fullchain_path # NoPath => Render(d)[FullchainAt(d)] = full
    BY <2>7, <2>13
  <2> QED
    BY <1>2, <1>4, <2>14
<1> QED
  BY <1>3, <1>4

-----------------------------------------------------------------------------
(* What can be told of a destination from what is done with it.            *)

LEMMA EffectTells ==
    ASSUME NEW c, NEW e, ToStore(c) <=> ToStore(e), Effect(c) = Effect(e)
    PROVE  /\ c.certificate = e.certificate
           /\ Runs(c.reload) <=> Runs(e.reload)
           /\ ToStore(c) => /\ c.store = e.store /\ c.verify = e.verify
                            /\ Runs(c.bind) <=> Runs(e.bind)
           /\ ~ToStore(c) => /\ Render(c) = Render(e)
                             /\ Runs(c.check) <=> Runs(e.check)
                             /\ c.owner = e.owner /\ c.group = e.group
                             /\ Keystore(c) <=> Keystore(e)
                             /\ Keystore(c) =>
                                   /\ c.keystore_password = e.keystore_password
                                   /\ c.keystore_password_file = e.keystore_password_file
                                   /\ c.keystore_alias = e.keystore_alias
<1>1. CASE ToStore(c)
  <2>1. /\ Effect(c).inside = <<c.certificate, c.store, c.verify>>
        /\ Effect(c).runs = <<Runs(c.bind), Runs(c.reload)>>
    BY <1>1 DEF Effect
  <2>2. /\ Effect(e).inside = <<e.certificate, e.store, e.verify>>
        /\ Effect(e).runs = <<Runs(e.bind), Runs(e.reload)>>
    BY <1>1 DEF Effect
  <2>3. /\ <<c.certificate, c.store, c.verify>> = <<e.certificate, e.store, e.verify>>
        /\ <<Runs(c.bind), Runs(c.reload)>> = <<Runs(e.bind), Runs(e.reload)>>
    BY <2>1, <2>2
  <2>4. /\ c.certificate = e.certificate /\ c.store = e.store /\ c.verify = e.verify
    BY <2>3
  <2>5. (Runs(c.bind) <=> Runs(e.bind)) /\ (Runs(c.reload) <=> Runs(e.reload))
    BY <2>3 DEF Runs
  <2> QED
    BY <1>1, <2>4, <2>5
<1>2. CASE ~ToStore(c)
  <2> DEFINE first(d) == <<d.certificate, d.owner, d.group>>
             last(d)  == <<d.keystore_password, d.keystore_password_file, d.keystore_alias>>
             rest(d)  == Unless(~Keystore(d), last(d))
  <2>1. ASSUME NEW d, ~ToStore(d)
        PROVE  /\ Effect(d).files = Render(d)
               /\ Effect(d).runs = <<Runs(d.check), Runs(d.reload)>>
               /\ Effect(d).inside = first(d) \o rest(d)
    BY <2>1 DEF Effect
  <2>2. Render(c) = Render(e)
    BY <1>2, <2>1
  <2>3. <<Runs(c.check), Runs(c.reload)>> = <<Runs(e.check), Runs(e.reload)>>
    BY <1>2, <2>1
  <2>4. (Runs(c.check) <=> Runs(e.check)) /\ (Runs(c.reload) <=> Runs(e.reload))
    BY <2>3 DEF Runs
  <2>5. Effect(c).inside = first(c) \o rest(c) /\ Effect(e).inside = first(e) \o rest(e)
    BY <1>2, <2>1
  <2>6. ASSUME NEW d
        PROVE  /\ Keystore(d) =>
                     /\ Len(first(d) \o rest(d)) = 6
                     /\ (first(d) \o rest(d))[4] = d.keystore_password
                     /\ (first(d) \o rest(d))[5] = d.keystore_password_file
                     /\ (first(d) \o rest(d))[6] = d.keystore_alias
               /\ ~Keystore(d) => Len(first(d) \o rest(d)) = 3
               /\ (first(d) \o rest(d))[1] = d.certificate
               /\ (first(d) \o rest(d))[2] = d.owner
               /\ (first(d) \o rest(d))[3] = d.group
    <3>1. CASE Keystore(d)
      <4>1. rest(d) = last(d)
        BY <3>1 DEF Unless
      <4>2. /\ first(d)[1] = d.certificate /\ first(d)[2] = d.owner /\ first(d)[3] = d.group
            /\ last(d)[1] = d.keystore_password /\ last(d)[2] = d.keystore_password_file
            /\ last(d)[3] = d.keystore_alias
        OBVIOUS
      <4>3. Len(first(d)) = 3 /\ Len(last(d)) = 3
        OBVIOUS
      <4> DEFINE S == {first(d)[1], first(d)[2], first(d)[3],
                       last(d)[1], last(d)[2], last(d)[3]}
      <4>4. first(d) \in Seq(S) /\ last(d) \in Seq(S)
        OBVIOUS
      <4> HIDE DEF first, last, rest, S
      <4>5. /\ Len(first(d) \o last(d)) = 6
            /\ \A k \in 1..6 : (first(d) \o last(d))[k] =
                  IF k <= 3 THEN first(d)[k] ELSE last(d)[k - 3]
        <5>1. /\ Len(first(d) \o last(d)) = Len(first(d)) + Len(last(d))
              /\ \A k \in 1..(Len(first(d)) + Len(last(d))) :
                    (first(d) \o last(d))[k] =
                        IF k <= Len(first(d)) THEN first(d)[k] ELSE last(d)[k - Len(first(d))]
          BY <4>4, ConcatProperties
        <5>2. Len(first(d)) + Len(last(d)) = 6
          BY <4>3
        <5> QED
          BY <4>3, <5>1, <5>2
      <4> DEFINE s == first(d) \o last(d)
      <4>6. /\ Len(s) = 6 /\ \A k \in 1..6 : s[k] = IF k <= 3 THEN first(d)[k] ELSE last(d)[k - 3]
        BY <4>5
      <4> HIDE DEF s
      <4>7. /\ s[1] = first(d)[1] /\ s[2] = first(d)[2] /\ s[3] = first(d)[3]
            /\ s[4] = last(d)[1] /\ s[5] = last(d)[2] /\ s[6] = last(d)[3]
        BY <4>6
      <4>8. first(d) \o rest(d) = s
        BY <4>1 DEF s
      <4> QED
        BY <3>1, <4>2, <4>6, <4>7, <4>8
    <3>2. CASE ~Keystore(d)
      <4>1. rest(d) = << >>
        BY <3>2 DEF Unless
      <4> QED
        BY <3>2, <4>1
    <3> QED
      BY <3>1, <3>2
  <2> HIDE DEF first, rest
  <2>7. /\ c.certificate = e.certificate /\ c.owner = e.owner /\ c.group = e.group
    BY <2>5, <2>6
  <2>8. Keystore(c) <=> Keystore(e)
    BY <2>5, <2>6
  <2>9. Keystore(c) => /\ c.keystore_password = e.keystore_password
                       /\ c.keystore_password_file = e.keystore_password_file
                       /\ c.keystore_alias = e.keystore_alias
    BY <2>5, <2>6, <2>8
  <2> QED
    BY <1>2, <2>2, <2>4, <2>7, <2>8, <2>9
<1> QED
  BY <1>1, <1>2

\* What another value of one field does to the destination, and to no other.
LEMMA OneFieldApart ==
    ASSUME NEW d, DOMAIN d = Field, NEW f \in Field \ {"profile", "certificate"}, NEW v,
           NEW c, c = Completed(d), NEW e, e = Completed(With(d, f, v))
    PROVE  \A g \in Field \ {f} : e[g] = c[g]
<1>1. f \in Field \ {"profile"} /\ f # "certificate"
  OBVIOUS
<1>2. \A g \in Field \ {f} : Completed(With(d, f, v))[g] = Completed(d)[g]
  BY <1>1, OthersSeenAlike
<1> QED
  BY <1>2

LEMMA ChosenIsSeen ==
    ASSUME NEW d, DOMAIN d = Field, NEW f \in Field \ Templated,
           NEW v, v # Nothing[f], NEW e, e = Completed(With(d, f, v))
    PROVE  e[f] = v
<1>1. PICK other : other = With(d, f, v)
  OBVIOUS
<1>2. other[f] = v
  BY <1>1 DEF With
<1>3. Completed(other)[f] = other[f]
  BY <1>2, DeclaredIsSeen
<1> QED
  BY <1>1, <1>2, <1>3

\* Two paths with one file name, whatever their directories.
SameStem(p, q) == p.stem = q.stem

LEMMA ChosenPathIsSeen ==
    ASSUME NEW d, DOMAIN d = Field, NEW f \in Templated,
           NEW v \in PathName, v # Nothing[f], NEW e, e = Completed(With(d, f, v))
    PROVE  SameStem(e[f], v)
<1>1. PICK other : other = With(d, f, v)
  OBVIOUS
<1>2. other[f] = v
  BY <1>1, Fields DEF With
<1>3. f \in Field /\ other[f] # Nothing[f] /\ other[f] \in PathName
  BY <1>2, Fields
<1>4. Completed(other)[f].stem = other[f].stem
  BY <1>3, DeclaredIsSeen
<1> QED
  BY <1>1, <1>2, <1>4 DEF SameStem

\* What leaving a field out does.
LEMMA WithoutIsLeftOut ==
    ASSUME NEW d, DOMAIN d = Field, NEW f \in Field \ Templated,
           NEW v, v = Nothing[f], NEW e, e = Completed(With(d, f, v))
    PROVE  /\ f \in Unset => e[f] = ""
           /\ f \in {"owner", "group"} =>
                 e[f] \in {""} \cup {Catalogue[p][f] : p \in DOMAIN Catalogue}
<1>1. PICK other : other = With(d, f, v)
  OBVIOUS
<1>2. other[f] = Nothing[f]
  BY <1>1 DEF With
<1>3. e = Completed(other)
  BY <1>1
<1> QED
  BY <1>2, <1>3, LeftOutIsSeen

LEMMA PathMatters ==
    ASSUME NEW c, NEW e, NEW f \in PathField, ~ToStore(c), Keystore(c) => f = "cert_path",
           c[f] # NoPath, e[f] # NoPath, e[f] # c[f],
           \A g \in Field \ {f} : e[g] = c[g]
    PROVE  Effect(e) # Effect(c)
<1> SUFFICES ASSUME Effect(e) = Effect(c) PROVE FALSE
  OBVIOUS
<1>1. "store" \in Field \ {f} /\ "format" \in Field \ {f} /\ PathField \subseteq Field
  BY Fields DEF PathField, Templated
<1>2. e.store = c.store /\ e.format = c.format
  <2>1. e["store"] = c["store"]
    BY <1>1
  <2>2. e["format"] = c["format"]
    BY <1>1
  <2> QED
    BY <2>1, <2>2
<1>3. Render(e) = Render(c) /\ (Keystore(e) <=> Keystore(c))
  <2>1. (ToStore(e) <=> ToStore(c)) /\ (Keystore(e) <=> Keystore(c))
    BY <1>2 DEF ToStore, Keystore
  <2>2. Render(e) = Render(c)
    BY <2>1, EffectTells
  <2> QED
    BY <2>1, <2>2
<1>4. e.cert_path = c.cert_path
  BY <1>3, RenderInOrder
<1>5. ~Keystore(c) /\ f # "cert_path"
  BY <1>4
<1>6. Combined(e) <=> Combined(c)
  <2>1. ASSUME NEW x \in {c, e}
        PROVE  Combined(x) <=> Render(x)[1].holds = {"cert", "chain", "key"}
    <3>1. ~Keystore(x)
      BY <1>3, <1>5
    <3>2. ~Combined(x) => Render(x)[1].holds = {"cert"}
      BY <3>1, RenderInOrder
    <3>3. {"cert"} # {"cert", "chain", "key"}
      OBVIOUS
    <3> QED
      BY <3>2, <3>3, RenderInOrder
  <2> QED
    BY <1>3, <2>1
<1>7. CASE f = "key_path"
  <2>1. ~Combined(e) /\ ~Combined(c)
    BY <1>4, <1>6, <1>7 DEF Combined
  <2>2. Render(e)[2].path = e.key_path /\ Render(c)[2].path = c.key_path
    BY <1>3, <1>5, <2>1, RenderInOrder
  <2> QED
    BY <1>3, <1>7, <2>2
<1>8. CASE f = "chain_path"
  <2>1. ChainAt(e) = ChainAt(c)
    BY <1>6 DEF ChainAt
  <2>2. Render(e)[ChainAt(e)].path = e.chain_path /\ Render(c)[ChainAt(c)].path = c.chain_path
    BY <1>3, <1>5, <1>8, RenderInOrder
  <2> QED
    BY <1>3, <1>8, <2>1, <2>2
<1>9. CASE f = "fullchain_path"
  <2>1. e.chain_path = c.chain_path
    BY <1>1, <1>9 DEF PathField
  <2>2. FullchainAt(e) = FullchainAt(c)
    BY <1>6, <2>1 DEF ChainAt, FullchainAt
  <2>3. /\ Render(e)[FullchainAt(e)].path = e.fullchain_path
        /\ Render(c)[FullchainAt(c)].path = c.fullchain_path
    BY <1>3, <1>5, <1>9, RenderInOrder
  <2> QED
    BY <1>3, <1>9, <2>2, <2>3
<1> QED
  BY <1>5, <1>7, <1>8, <1>9 DEF PathField

\* Who may read the certificate, and who the key.
LEMMA ModeMatters ==
    ASSUME NEW c, NEW e, ~ToStore(c), ToStore(e) <=> ToStore(c),
           e.cert_path = c.cert_path, e.key_path = c.key_path, e.format = c.format,
           e.chain_path = c.chain_path, e.fullchain_path = c.fullchain_path,
           \/ ReadersOf[KeyMode(e)] # ReadersOf[KeyMode(c)]
           \/ /\ ReadersOf[CertMode(e)] # ReadersOf[CertMode(c)] /\ ~Keystore(c)
              /\ Combined(c) => c.chain_path # NoPath \/ c.fullchain_path # NoPath
    PROVE  Effect(e) # Effect(c)
<1> SUFFICES ASSUME Effect(e) = Effect(c) PROVE FALSE
  OBVIOUS
<1>1. Render(e) = Render(c)
  BY EffectTells
<1>2. (Keystore(e) <=> Keystore(c)) /\ (Combined(e) <=> Combined(c))
  BY DEF Keystore, Combined
<1>3. ReadersOf[KeyMode(e)] = ReadersOf[KeyMode(c)]
  <2>1. CASE Keystore(c) \/ Combined(c)
    BY <1>1, <1>2, <2>1, RenderInOrder
  <2>2. CASE ~Keystore(c) /\ ~Combined(c)
    <3>1. /\ Render(e)[2].readers = ReadersOf[KeyMode(e)]
          /\ Render(c)[2].readers = ReadersOf[KeyMode(c)]
      BY <1>2, <2>2, RenderInOrder
    <3> QED
      BY <1>1, <3>1
  <2> QED
    BY <2>1, <2>2
<1>4. ASSUME ~Keystore(c), Combined(c) => c.chain_path # NoPath \/ c.fullchain_path # NoPath
      PROVE  ReadersOf[CertMode(e)] = ReadersOf[CertMode(c)]
  <2>1. ChainAt(e) = ChainAt(c) /\ FullchainAt(e) = FullchainAt(c)
    BY <1>2 DEF ChainAt, FullchainAt
  <2>2. CASE ~Combined(c)
    <3>1. /\ Render(e)[1].readers = ReadersOf[CertMode(e)]
          /\ Render(c)[1].readers = ReadersOf[CertMode(c)]
      BY <1>2, <1>4, <2>2, RenderInOrder
    <3> QED
      BY <1>1, <3>1
  <2>3. CASE c.chain_path # NoPath
    <3>1. /\ Render(e)[ChainAt(e)].readers = ReadersOf[CertMode(e)]
          /\ Render(c)[ChainAt(c)].readers = ReadersOf[CertMode(c)]
      BY <1>2, <1>4, <2>3, RenderInOrder
    <3> QED
      BY <1>1, <2>1, <3>1
  <2>4. CASE c.fullchain_path # NoPath
    <3>1. /\ Render(e)[FullchainAt(e)].readers = ReadersOf[CertMode(e)]
          /\ Render(c)[FullchainAt(c)].readers = ReadersOf[CertMode(c)]
      BY <1>2, <1>4, <2>4, RenderInOrder
    <3> QED
      BY <1>1, <2>1, <3>1
  <2> QED
    BY <1>4, <2>2, <2>3, <2>4
<1> QED
  BY <1>3, <1>4

-----------------------------------------------------------------------------
(* Another value for each thing that was declared.                         *)

\* A destination that was accepted, and what was accepted of it.
LEMMA AcceptedSays ==
    ASSUME NEW d, NEW windows, Accepted(d, windows), NEW c, c = Completed(d)
    PROVE  /\ c.certificate # ""
           /\ ToStore(c) => ValidStore(c, windows)
           /\ ~ToStore(c) => ValidFiles(c, windows)
BY DEF Accepted, Valid

LEMMA OtherPathMatters ==
    ASSUME NEW d, DOMAIN d = Field, \A f \in Templated : d[f] \in PathName,
           NEW windows, Accepted(d, windows), NEW f \in Templated, d[f] # Nothing[f]
    PROVE  \E v \in Options[f] :
              Effect(Completed(With(d, f, v))) # Effect(Completed(d))
<1>c. PICK c : c = Completed(d)
  OBVIOUS
<1>1. /\ f \in Field \ {"profile", "certificate"} /\ Nothing[f] = NoPath
      /\ {"store", "format"} \subseteq Field /\ f \notin {"store", "format"}
  BY Fields DEF Templated, PathField
<1>2. /\ c.certificate # ""
      /\ ToStore(c) => ValidStore(c, windows)
      /\ ~ToStore(c) => ValidFiles(c, windows)
  BY <1>c, AcceptedSays
<1>3. c[f] # NoPath
  BY <1>c, <1>1, <1>2, DeclaredIsSeen
<1>4. PICK v \in Options[f] : v \in PathName /\ v.stem # "" /\ v.stem # c[f].stem
  <2>1. PICK x \in Options[f], y \in Options[f] :
              {x, y} \subseteq PathName /\ x.stem # y.stem /\ "" \notin {x.stem, y.stem}
    BY OptionsAssumption
  <2>2. CASE x.stem # c[f].stem
    BY <2>1, <2>2
  <2>3. CASE x.stem = c[f].stem
    BY <2>1, <2>3
  <2> QED
    BY <2>2, <2>3
<1>e. PICK e : e = Completed(With(d, f, v))
  OBVIOUS
<1>5. NoPath.stem = ""
  BY DEF NoPath, At
<1>6. v # Nothing[f]
  BY <1>1, <1>4, <1>5
<1>7. e[f].stem = v.stem /\ \A g \in Field \ {f} : e[g] = c[g]
  <2>1. e[f].stem = v.stem
    <3>1. v \in PathName /\ v # Nothing[f]
      BY <1>4, <1>6
    <3>2. f \in Templated
      OBVIOUS
    <3>3. SameStem(e[f], v)
      BY <1>e, <3>1, <3>2, ChosenPathIsSeen
    <3> QED
      BY <3>3 DEF SameStem
  <2>2. \A g \in Field \ {f} : e[g] = c[g]
    <3>1. f \in Field \ {"profile", "certificate"}
      BY <1>1
    <3> QED
      BY <1>c, <1>e, <3>1, OneFieldApart
  <2> QED
    BY <2>1, <2>2
<1>8. e[f] # c[f] /\ e[f] # NoPath /\ e.store = c.store
  BY <1>1, <1>4, <1>5, <1>7
<1>9. Effect(e) # Effect(c)
  <2>1. CASE ToStore(c)
    <3>1. f = "verify"
      BY <1>2, <1>3, <2>1 DEF ValidStore, Templated
    <3>2. e.verify # c.verify
      BY <1>8, <3>1
    <3> QED
      <4>1. ToStore(e) <=> ToStore(c)
        BY <1>8, <2>1, <3>2 DEF ToStore
      <4> QED
        BY <1>8, <2>1, <3>2, <4>1, EffectTells
  <2>2. CASE ~ToStore(c)
    <3>1. f \in PathField /\ (Keystore(c) => f = "cert_path")
      BY <1>2, <1>3, <2>2 DEF ValidFiles, ValidKeystore, Templated, PathField
    <3>2. \A g \in Field \ {f} : e[g] = c[g]
      BY <1>7
    <3> QED
      BY <1>3, <1>8, <2>2, <3>1, <3>2, PathMatters
  <2> QED
    BY <2>1, <2>2
<1> QED
  BY <1>9, <1>c, <1>e

\* The password and the alias of a keystore.
LEMMA NoPasswordMatters ==
    ASSUME NEW d, DOMAIN d = Field, NEW windows, Accepted(d, windows),
           NEW f \in Unset \ {"certificate"}, Says(d, f), ~Excepted(Completed(d), f)
    PROVE  Effect(Completed(With(d, f, Nothing[f]))) # Effect(Completed(d))
<1>c. PICK c : c = Completed(d)
  OBVIOUS
<1>e. PICK e : e = Completed(With(d, f, Nothing[f]))
  OBVIOUS
<1>1. /\ f \in Field \ {"profile", "certificate"} /\ f \notin Templated /\ Nothing[f] = ""
      /\ {"store", "format"} \subseteq Field /\ f \notin {"store", "format"}
  BY Fields DEF Unset, Templated, PathField
<1>2. c[f] = d[f] /\ d[f] # ""
  <2>1. d[f] # Nothing[f]
    BY DEF Says
  <2>2. c[f] = d[f]
    BY <1>c, <1>1, <2>1, DeclaredIsSeen
  <2> QED
    BY <1>1, <2>1, <2>2
<1>3. e[f] = "" /\ \A g \in Field \ {f} : e[g] = c[g]
  <2>1. e[f] = ""
    BY <1>e, <1>1, WithoutIsLeftOut
  <2>2. \A g \in Field \ {f} : e[g] = c[g]
    <3>1. f \in Field \ {"profile", "certificate"}
      BY <1>1
    <3> QED
      BY <1>c, <1>e, <3>1, OneFieldApart
  <2> QED
    BY <2>1, <2>2
<1>4. /\ ToStore(c) => ValidStore(c, windows)
      /\ ~ToStore(c) => ValidFiles(c, windows)
  BY <1>c, <1>e, AcceptedSays
<1>5. ~Excepted(c, f)
  BY <1>c
<1>6. ~ToStore(c)
  BY <1>2, <1>4 DEF ValidStore, Unset
<1>7. Keystore(c)
  BY <1>2, <1>4, <1>5, <1>6 DEF ValidFiles, ValidPEM, Unset, Excepted
<1>8. e.store = c.store /\ e[f] # c[f]
  BY <1>1, <1>2, <1>3
<1>9. Effect(e) # Effect(c)
  <2>1. ToStore(e) <=> ToStore(c)
    BY <1>6, <1>7, <1>8 DEF ToStore
  <2> QED
    <3>1. SUFFICES ASSUME Effect(e) = Effect(c) PROVE FALSE
      OBVIOUS
    <3>2. /\ e.keystore_password = c.keystore_password
          /\ e.keystore_password_file = c.keystore_password_file
          /\ e.keystore_alias = c.keystore_alias
      BY <1>6, <1>7, <2>1, <3>1, EffectTells
    <3> QED
      BY <1>8, <3>2 DEF Unset
<1> QED
  BY <1>9, <1>c, <1>e

LEMMA OtherStoreMatters ==
    ASSUME NEW d, DOMAIN d = Field, Says(d, "store")
    PROVE  \E v \in Options["store"] :
              Effect(Completed(With(d, "store", v))) # Effect(Completed(d))
<1>c. PICK c : c = Completed(d)
  OBVIOUS
<1>1. /\ "store" \in Field \ {"profile", "certificate"} /\ "store" \notin Templated
      /\ Nothing["store"] = ""
  BY Fields DEF Templated, PathField
<1>2. c.store = d.store /\ d.store # ""
  <2>1. d["store"] # Nothing["store"]
    BY DEF Says
  <2>2. c["store"] = d["store"]
    BY <1>c, <1>1, <2>1, DeclaredIsSeen
  <2> QED
    BY <1>1, <2>1, <2>2
<1>3. PICK v \in Options["store"] : v # "" /\ v # d.store
  BY OptionsAssumption
<1>e. PICK e : e = Completed(With(d, "store", v))
  OBVIOUS
<1>4. e["store"] = v
  <2>1. "store" \in Field \ Templated /\ v # Nothing["store"]
    BY <1>1, <1>3
  <2> QED
    BY <1>e, <2>1, ChosenIsSeen
<1>5. Effect(e) # Effect(c)
  <2>1. ToStore(e) <=> ToStore(c)
    BY <1>2, <1>3, <1>4 DEF ToStore
  <2> QED
    <3>1. SUFFICES ASSUME Effect(e) = Effect(c) PROVE FALSE
      OBVIOUS
    <3>2. ToStore(c) /\ e.store = v
      BY <1>2, <1>4 DEF ToStore
    <3>3. e.store = c.store
      BY <2>1, <3>1, <3>2, EffectTells
    <3> QED
      BY <1>2, <1>3, <3>2, <3>3
<1> QED
  BY <1>5, <1>c, <1>e

LEMMA OtherFormatMatters ==
    ASSUME NEW d, DOMAIN d = Field, NEW windows, Accepted(d, windows),
           Says(d, "format")
    PROVE  \E v \in Options["format"] :
              Effect(Completed(With(d, "format", v))) # Effect(Completed(d))
<1>c. PICK c : c = Completed(d)
  OBVIOUS
<1>1. /\ "format" \in Field \ {"profile", "certificate"} /\ "format" \notin Templated
      /\ Nothing["format"] = "" /\ "store" \in Field \ {"format"}
  BY Fields DEF Templated, PathField
<1>2. c.format = d.format /\ d.format # ""
  <2>1. d["format"] # Nothing["format"]
    BY DEF Says
  <2>2. c["format"] = d["format"]
    BY <1>c, <1>1, <2>1, DeclaredIsSeen
  <2> QED
    BY <1>1, <2>1, <2>2
<1>3. ToStore(c) => ValidStore(c, windows)
  BY <1>c, AcceptedSays
<1>4. PICK v : v = (IF Keystore(c) THEN "PEM" ELSE "PKCS12")
  OBVIOUS
<1>5. v \in Options["format"] /\ v # Nothing["format"]
  BY <1>1, <1>4, OptionsAssumption
<1>e. PICK e : e = Completed(With(d, "format", v))
  OBVIOUS
<1>6. e["format"] = v /\ \A g \in Field \ {"format"} : e[g] = c[g]
  <2>1. e["format"] = v
    <3>1. "format" \in Field \ Templated /\ v # Nothing["format"]
      BY <1>1, <1>5
    <3> QED
      BY <1>e, <3>1, ChosenIsSeen
  <2>2. \A g \in Field \ {"format"} : e[g] = c[g]
    <3>1. "format" \in Field \ {"profile", "certificate"}
      BY <1>1
    <3> QED
      BY <1>c, <1>e, <3>1, OneFieldApart
  <2> QED
    BY <2>1, <2>2
<1>7. ~ToStore(c) /\ e.store = c.store
  BY <1>1, <1>2, <1>3, <1>6 DEF ValidStore
<1>8. ~(Keystore(e) <=> Keystore(c))
  BY <1>4, <1>6 DEF Keystore
<1>9. Effect(e) # Effect(c)
  <2>1. ToStore(e) <=> ToStore(c)
    BY <1>7, <1>8 DEF ToStore
  <2> QED
    BY <1>7, <1>8, <2>1, EffectTells
<1> QED
  BY <1>5, <1>9, <1>c, <1>e

\* A command in place of none, or none in place of it.
LEMMA OtherCommandMatters ==
    ASSUME NEW d, DOMAIN d = Field, NEW windows, Accepted(d, windows),
           NEW f \in {"bind", "check", "reload"}, Says(d, f)
    PROVE  \E v \in Options[f] :
              Effect(Completed(With(d, f, v))) # Effect(Completed(d))
<1>c. PICK c : c = Completed(d)
  OBVIOUS
<1>1. /\ f \in Field \ {"profile", "certificate"} /\ f \notin Templated
      /\ Nothing[f] = "nil" /\ "store" \in Field \ {f}
  BY Fields DEF Templated, PathField
<1>2. c[f] = d[f] /\ d[f] \notin {"nil", "[]"}
  <2>1. d[f] # Nothing[f] /\ d[f] # "[]"
    BY DEF Says
  <2>2. c[f] = d[f]
    BY <1>c, <1>1, <2>1, DeclaredIsSeen
  <2> QED
    BY <1>1, <2>1, <2>2
<1>3. /\ ToStore(c) => ValidStore(c, windows)
      /\ ~ToStore(c) => ValidFiles(c, windows)
  BY <1>c, AcceptedSays
<1>4. PICK v : v = (IF Runs(c[f]) THEN "[]" ELSE "absolute")
  OBVIOUS
<1>5. v \in Options[f] /\ v # Nothing[f]
  BY <1>1, <1>4, OptionsAssumption
<1>e. PICK e : e = Completed(With(d, f, v))
  OBVIOUS
<1>6. e[f] = v /\ \A g \in Field \ {f} : e[g] = c[g]
  <2>1. e[f] = v
    <3>1. f \in Field \ Templated /\ v # Nothing[f]
      BY <1>1, <1>5
    <3> QED
      BY <1>e, <3>1, ChosenIsSeen
  <2>2. \A g \in Field \ {f} : e[g] = c[g]
    <3>1. f \in Field \ {"profile", "certificate"}
      BY <1>1
    <3> QED
      BY <1>c, <1>e, <3>1, OneFieldApart
  <2> QED
    BY <2>1, <2>2
<1>7. /\ e.store = c.store /\ ~(Runs(e[f]) <=> Runs(c[f]))
  BY <1>1, <1>4, <1>6 DEF Runs
<1>8. CASE ToStore(c)
  <2>1. f \in {"bind", "reload"}
    BY <1>2, <1>3, <1>8 DEF ValidStore
  <2>2. Effect(e) # Effect(c)
    <3>1. ToStore(e) <=> ToStore(c)
      BY <1>7, <1>8, <2>1 DEF ToStore
    <3> QED
      BY <1>7, <1>8, <2>1, <3>1, EffectTells
  <2> QED
    BY <1>5, <2>2, <1>c, <1>e
<1>9. CASE ~ToStore(c)
  <2>1. f \in {"check", "reload"}
    BY <1>2, <1>3, <1>9 DEF ValidFiles
  <2>2. Effect(e) # Effect(c)
    <3>1. ToStore(e) <=> ToStore(c)
      BY <1>7, <1>9, <2>1 DEF ToStore
    <3> QED
      BY <1>7, <1>9, <2>1, <3>1, EffectTells
  <2> QED
    BY <1>5, <2>2, <1>c, <1>e
<1> QED
  BY <1>8, <1>9

LEMMA OtherAccountMatters ==
    ASSUME NEW d, DOMAIN d = Field, NEW windows, Accepted(d, windows),
           NEW f \in {"owner", "group"}, Says(d, f)
    PROVE  \E v \in Options[f] \cup {Nothing[f]} :
              Effect(Completed(With(d, f, v))) # Effect(Completed(d))
<1>c. PICK c : c = Completed(d)
  OBVIOUS
<1>1. /\ f \in Field \ {"profile", "certificate"} /\ f \notin Templated
      /\ Nothing[f] = "" /\ "store" \in Field \ {f}
  BY Fields DEF Templated, PathField
<1>2. c[f] = d[f] /\ d[f] # ""
  <2>1. d[f] # Nothing[f]
    BY DEF Says
  <2>2. c[f] = d[f]
    BY <1>c, <1>1, <2>1, DeclaredIsSeen
  <2> QED
    BY <1>1, <2>1, <2>2
<1>3. ToStore(c) => ValidStore(c, windows)
  BY <1>c, AcceptedSays
<1>4. PICK x \in Options[f] : x # "" /\ \A p \in DOMAIN Catalogue : Catalogue[p][f] # x
  BY OptionsAssumption
<1>5. PICK v : v = (IF d[f] = x THEN Nothing[f] ELSE x)
  OBVIOUS
<1>e. PICK e : e = Completed(With(d, f, v))
  OBVIOUS
<1>6. /\ v # Nothing[f] => e[f] = v
      /\ v = Nothing[f] => e[f] \in {""} \cup {Catalogue[p][f] : p \in DOMAIN Catalogue}
      /\ \A g \in Field \ {f} : e[g] = c[g]
  <2>1. v # Nothing[f] => e[f] = v
    <3>1. f \in Field \ Templated
      BY <1>1
    <3> QED
      BY <1>e, <3>1, ChosenIsSeen
  <2>2. v = Nothing[f] => e[f] \in {""} \cup {Catalogue[p][f] : p \in DOMAIN Catalogue}
    BY <1>e, <1>1, WithoutIsLeftOut
  <2>3. \A g \in Field \ {f} : e[g] = c[g]
    <3>1. f \in Field \ {"profile", "certificate"}
      BY <1>1
    <3> QED
      BY <1>c, <1>e, <3>1, OneFieldApart
  <2> QED
    BY <2>1, <2>2, <2>3
<1>7. e[f] # c[f] /\ e.store = c.store
  BY <1>1, <1>2, <1>4, <1>5, <1>6
<1>8. ~ToStore(c)
  BY <1>2, <1>3 DEF ValidStore
<1>9. Effect(e) # Effect(c)
  <2>1. ToStore(e) <=> ToStore(c)
    BY <1>7, <1>8 DEF ToStore
  <2> QED
    <3>1. SUFFICES ASSUME Effect(e) = Effect(c) PROVE FALSE
      OBVIOUS
    <3>2. e.owner = c.owner /\ e.group = c.group
      BY <1>8, <2>1, <3>1, EffectTells
    <3> QED
      BY <1>7, <3>2
<1> QED
  BY <1>4, <1>5, <1>9, <1>c, <1>e

LEMMA OtherModeMatters ==
    ASSUME NEW d, DOMAIN d = Field, NEW windows, Accepted(d, windows),
           NEW f \in {"cert_mode", "key_mode"}, Says(d, f), ~Excepted(Completed(d), f)
    PROVE  \E v \in Options[f] :
              /\ IsMode(v)
              /\ Effect(Completed(With(d, f, v))) # Effect(Completed(d))
<1>c. PICK c : c = Completed(d)
  OBVIOUS
<1>1. /\ f \in Field \ {"profile", "certificate"} /\ f \notin Templated
      /\ Nothing[f] = ""
      /\ {"store", "cert_path", "key_path", "chain_path", "fullchain_path", "format"}
            \subseteq Field \ {f}
  BY Fields DEF Templated, PathField
<1>2. c[f] = d[f] /\ d[f] # ""
  <2>1. d[f] # Nothing[f]
    BY DEF Says
  <2>2. c[f] = d[f]
    BY <1>c, <1>1, <2>1, DeclaredIsSeen
  <2> QED
    BY <1>1, <2>1, <2>2
<1>3. /\ ToStore(c) => ValidStore(c, windows)
      /\ ~ToStore(c) => ValidFiles(c, windows)
  BY <1>c, AcceptedSays
<1>4. PICK v : v = (IF d[f] = "0600" THEN "0640" ELSE "0600")
  OBVIOUS
<1>5. v \in Options[f] /\ IsMode(v) /\ v # ""
  BY <1>4, OptionsAssumption DEF IsMode, ReadersOf
<1>e. PICK e : e = Completed(With(d, f, v))
  OBVIOUS
<1>6. e[f] = v /\ \A g \in Field \ {f} : e[g] = c[g]
  <2>1. e[f] = v
    <3>1. f \in Field \ Templated /\ v # Nothing[f]
      BY <1>1, <1>5
    <3> QED
      BY <1>e, <3>1, ChosenIsSeen
  <2>2. \A g \in Field \ {f} : e[g] = c[g]
    <3>1. f \in Field \ {"profile", "certificate"}
      BY <1>1
    <3> QED
      BY <1>c, <1>e, <3>1, OneFieldApart
  <2> QED
    BY <2>1, <2>2
<1>7. ~Excepted(c, f)
  BY <1>c
<1>8. ~ToStore(c) /\ ValidFiles(c, windows)
  BY <1>2, <1>3 DEF ValidStore
<1>9. /\ e.store = c.store /\ e.format = c.format /\ e.cert_path = c.cert_path
      /\ e.key_path = c.key_path /\ e.chain_path = c.chain_path
      /\ e.fullchain_path = c.fullchain_path
  BY <1>1, <1>6
<1>10. d[f] \in {"0600", "0640", "0644"} /\ ReadersOf[v] # ReadersOf[d[f]]
  <2>1. d[f] \in DOMAIN ReadersOf
    BY <1>2, <1>8 DEF ValidFiles, ValidModes, IsMode
  <2>2. DOMAIN ReadersOf = {"0600", "0640", "0644"}
    BY DEF ReadersOf
  <2>3. ReadersOf["0600"] = {} /\ ReadersOf["0640"] = {"group"}
        /\ ReadersOf["0644"] = {"group", "other"}
    BY DEF ReadersOf
  <2> QED
    BY <1>4, <2>1, <2>2, <2>3
<1>11. ASSUME f = "key_mode" PROVE Effect(e) # Effect(c)
  <2>1. KeyMode(e) = v /\ KeyMode(c) = d[f]
    BY <1>2, <1>5, <1>6, <1>11 DEF KeyMode
  <2> QED
    <3>1. ToStore(e) <=> ToStore(c)
      BY <1>8, <1>9, <1>10, <2>1 DEF ToStore
    <3> QED
      BY <1>8, <1>9, <1>10, <2>1, <3>1, ModeMatters
<1>12. ASSUME f = "cert_mode" PROVE Effect(e) # Effect(c)
  <2>1. CertMode(e) = v /\ CertMode(c) = d[f]
    BY <1>2, <1>5, <1>6, <1>12 DEF CertMode
  <2>2. ~Keystore(c)
    BY <1>2, <1>8, <1>12 DEF ValidFiles, ValidKeystore
  <2>3. Combined(c) => c.chain_path # NoPath \/ c.fullchain_path # NoPath
    BY <1>7, <1>12 DEF Excepted
  <2> QED
    <3>1. ToStore(e) <=> ToStore(c)
      BY <1>8, <1>9, <1>10, <2>1, <2>2, <2>3 DEF ToStore
    <3> QED
      BY <1>8, <1>9, <1>10, <2>1, <2>2, <2>3, <3>1, ModeMatters
<1>13. Effect(e) # Effect(c)
  BY <1>11, <1>12
<1> QED
  BY <1>5, <1>13, <1>c, <1>e

LEMMA NoCertificateMatters ==
    ASSUME NEW d, DOMAIN d = Field, NEW windows, Accepted(d, windows)
    PROVE  Effect(Completed(With(d, "certificate", Nothing["certificate"]))) # Effect(Completed(d))
<1>c. PICK c : c = Completed(d)
  OBVIOUS
<1>o. PICK other : other = With(d, "certificate", Nothing["certificate"])
  OBVIOUS
<1>e. PICK e : e = Completed(other)
  OBVIOUS
<1>1. /\ "certificate" \in Field \ {"profile"} /\ "certificate" \in Field \ Templated
      /\ Nothing["certificate"] = "" /\ "certificate" \in Unset
      /\ "store" \in Field \ {"certificate"} /\ "store" \notin Templated
  BY Fields DEF Templated, PathField, Unset
<1>2. c.certificate # ""
  BY <1>c, AcceptedSays
<1>3. other["certificate"] = ""
  BY <1>o, <1>1 DEF With
<1>4. e.store = c.store
  <2>1. /\ "certificate" \in Field \ {"profile"} /\ "store" \in Field \ {"certificate"}
        /\ "store" \notin Templated
    BY <1>1
  <2>2. Completed(With(d, "certificate", Nothing["certificate"]))["store"]
          = Completed(d)["store"]
    BY <2>1, OthersSeenAlike
  <2> QED
    BY <1>c, <1>o, <1>e, <2>2
<1>5. e.certificate = ""
  <2>1. "certificate" \in Field \ Templated /\ other["certificate"] = Nothing["certificate"]
    BY <1>1, <1>3
  <2>2. Completed(other)["certificate"] = ""
    BY <1>1, <2>1, LeftOutIsSeen
  <2> QED
    BY <1>e, <2>2
<1>6. ToStore(e) <=> ToStore(c)
  BY <1>4 DEF ToStore
<1>7. Effect(e) # Effect(c)
  BY <1>2, <1>5, <1>6, EffectTells
<1> QED
  BY <1>7, <1>c, <1>o, <1>e

\* Whatever an accepted destination says, another value would matter.
LEMMA AnotherValueMatters ==
    ASSUME NEW d, DOMAIN d = Field, \A f \in Templated : d[f] \in PathName,
           NEW windows, Accepted(d, windows),
           NEW f \in Field, Says(d, f), ~Excepted(Completed(d), f)
    PROVE  \E v \in Options[f] \cup {Nothing[f]} :
              /\ Another(f, v)
              /\ Effect(Completed(With(d, f, v))) # Effect(Completed(d))
<1>1. f \in Templated \/ f \in Unset \/ f \in {"store", "format"}
         \/ f \in {"bind", "check", "reload"} \/ f \in {"owner", "group"}
         \/ f \in {"cert_mode", "key_mode"}
  BY Fields DEF Says, Templated, PathField, Unset
<1>2. f \notin {"cert_mode", "key_mode"} => \A v : Another(f, v)
  BY DEF Another
<1>3. d[f] # Nothing[f]
  BY DEF Says
<1>4. CASE f \in Templated
  <2>1. f \notin {"cert_mode", "key_mode"}
    BY <1>4 DEF Templated, PathField
  <2>2. \E v \in Options[f] : Effect(Completed(With(d, f, v))) # Effect(Completed(d))
    BY <1>3, <1>4, OtherPathMatters
  <2> QED
    BY <1>2, <2>1, <2>2
<1>5. CASE f \in Unset
  <2>1. f \notin {"cert_mode", "key_mode"} /\ Nothing[f] = ""
    BY <1>5, Fields DEF Unset
  <2>2. Effect(Completed(With(d, f, Nothing[f]))) # Effect(Completed(d))
    <3>1. CASE f = "certificate"
      BY <2>1, <3>1, NoCertificateMatters
    <3>2. CASE f # "certificate"
      BY <1>5, <3>2, NoPasswordMatters
    <3> QED
      BY <3>1, <3>2
  <2> QED
    BY <1>2, <2>1, <2>2
<1>6. CASE f \in {"store", "format"}
  <2>1. f \notin {"cert_mode", "key_mode"}
    BY <1>6
  <2>2. \E v \in Options[f] : Effect(Completed(With(d, f, v))) # Effect(Completed(d))
    BY <1>6, OtherStoreMatters, OtherFormatMatters
  <2> QED
    BY <1>2, <2>1, <2>2
<1>7. CASE f \in {"bind", "check", "reload"}
  <2>1. f \notin {"cert_mode", "key_mode"}
    BY <1>7
  <2>2. \E v \in Options[f] : Effect(Completed(With(d, f, v))) # Effect(Completed(d))
    BY <1>7, OtherCommandMatters
  <2> QED
    BY <1>2, <2>1, <2>2
<1>8. CASE f \in {"owner", "group"}
  <2>1. f \notin {"cert_mode", "key_mode"}
    BY <1>8
  <2>2. \E v \in Options[f] \cup {Nothing[f]} :
           Effect(Completed(With(d, f, v))) # Effect(Completed(d))
    BY <1>8, OtherAccountMatters
  <2> QED
    BY <1>2, <2>1, <2>2
<1>9. CASE f \in {"cert_mode", "key_mode"}
  <2>1. \E v \in Options[f] :
           IsMode(v) /\ Effect(Completed(With(d, f, v))) # Effect(Completed(d))
    BY <1>9, OtherModeMatters
  <2> QED
    BY <2>1 DEF Another
<1> QED
  BY <1>1, <1>4, <1>5, <1>6, <1>7, <1>8, <1>9

-----------------------------------------------------------------------------

\* The spec is nothing, or the document of the host and accepted.
LoadedInv ==
    /\ scene \in Scenes
    /\ \/ spec = <<>>
       \/ /\ Loads(scene.document, scene.windows)
          /\ spec = [i \in DOMAIN scene.document |-> Completed(scene.document[i])]

LEMMA LoadedStays ==
    /\ Init => LoadedInv
    /\ LoadedInv /\ [Next]_vars => LoadedInv'
<1>1. Init => LoadedInv
  <2> SUFFICES ASSUME Init PROVE LoadedInv
    OBVIOUS
  <2> DEFINE made == [i \in DOMAIN scene.document |-> Completed(scene.document[i])]
             loads == Loads(scene.document, scene.windows)
  <2>1. scene \in Scenes /\ spec = IF loads THEN made ELSE <<>>
    BY DEF Init
  <2>2. LoadedInv <=> scene \in Scenes /\ (spec = <<>> \/ (loads /\ spec = made))
    BY DEF LoadedInv
  <2> HIDE DEF made, loads
  <2> QED
    BY <2>1, <2>2
<1>2. LoadedInv /\ [Next]_vars => LoadedInv'
  <2> SUFFICES ASSUME LoadedInv, [Next]_vars PROVE LoadedInv'
    OBVIOUS
  <2> QED
    BY HostIsGiven DEF LoadedInv
<1> QED
  BY <1>1, <1>2

\* Whatever any administrator writes into any number of destinations of a file
\* that loads, no field is read and then ignored.
THEOREM NoFieldIgnored == Spec => []NothingIgnored
<1>1. LoadedInv => NothingIgnored
  <2> SUFFICES ASSUME LoadedInv, NEW i \in DOMAIN spec, NEW f \in Field,
                      Says(Document[i], f), ~Excepted(spec[i], f)
               PROVE  \E v \in Options[f] \cup {Nothing[f]} :
                         /\ Another(f, v)
                         /\ Effect(Completed([Document[i] EXCEPT ![f] = v])) # Effect(spec[i])
    BY DEF NothingIgnored
  <2>1. PICK d : d = Document[i]
    OBVIOUS
  <2>2. /\ scene \in Scenes /\ i \in DOMAIN scene.document /\ spec[i] = Completed(d)
        /\ Accepted(d, scene.windows)
    <3>1. spec # <<>>
      OBVIOUS
    <3>2. Loads(scene.document, scene.windows)
      BY <3>1 DEF LoadedInv
    <3>3. i \in DOMAIN scene.document /\ spec[i] = Completed(scene.document[i])
      BY <3>1 DEF LoadedInv
    <3> QED
      BY <2>1, <3>2, <3>3 DEF LoadedInv, Loads, Document
  <2>3. DOMAIN d = Field /\ \A g \in Templated : d[g] \in PathName
    BY <2>1, <2>2, HostFilesAssumption DEF Document
  <2>4. Says(d, f) /\ ~Excepted(Completed(d), f)
    BY <2>1, <2>2
  <2>5. PICK v \in Options[f] \cup {Nothing[f]} :
             Another(f, v) /\ Effect(Completed(With(d, f, v))) # Effect(Completed(d))
    BY <2>2, <2>3, <2>4, AnotherValueMatters
  <2>6. With(d, f, v) = [Document[i] EXCEPT ![f] = v]
    BY <2>1 DEF With
  <2> QED
    BY <2>2, <2>5, <2>6
<1> QED
  BY <1>1, LoadedStays, PTL DEF Spec

-----------------------------------------------------------------------------
(* What was installed is there.                                            *)

\* The same as AsDeclared, of any tree.
DeclaredIn(tree, i) ==
    \A k \in DOMAIN targets[i] :
        /\ targets[i][k].path \in DOMAIN tree
        /\ tree[targets[i][k].path] = Becomes(i, targets[i][k])

\* A file belongs to nobody in particular, or to whom a destination that writes
\* it gives it.
OwnedInv ==
    \A path \in DOMAIN files :
        files[path].owner # Nobody =>
            \E j \in DOMAIN spec : /\ path \in Paths(j)
                                   /\ files[path].owner = <<spec[j].owner, spec[j].group>>

\* Until somebody requests a certificate beside it, the records a cycle has read
\* are those of now.
CalmInv == calm => listed = held

DeclaredInv == OwnedInv /\ CalmInv /\ InstalledIsAsDeclared

LEMMA CalmStays ==
    ASSUME HostInv, HeldInv, CalmInv, [Next]_vars
    PROVE  CalmInv'
<1>1. CASE UNCHANGED core /\ (place' = 0 => place = 0)
  <2>1. held' = held /\ listed' = listed
    BY <1>1 DEF core
  <2>2. calm' => calm \/ place = 0
    BY DEF Next, Cycle, StartCycle, Unfulfilled, NotRendered, NotResolved, UpToDate,
           NotEnforced, Install, NotInstalled, NotReloaded, Import, SkipInventory,
           LoseInventory, ReportInventory, EndCycle, IntervalPasses, Edit, Request, Renew,
           vars
  <2> QED
    BY <2>1, <2>2 DEF CalmInv, HeldInv
<1>2. CASE EndCycle
  BY <1>2 DEF EndCycle, CalmInv
<1>3. ASSUME NEW names \in scene.requests, Request(names) PROVE CalmInv'
  BY <1>3 DEF Request, Obtain, CalmInv
<1>4. ASSUME NEW dir \in DOMAIN held, Renew(dir) PROVE CalmInv'
  BY <1>4 DEF Renew, Obtain, CalmInv
<1> QED
  BY <1>1, <1>2, <1>3, <1>4, CoreChange

LEMMA RecordedIsWanted ==
    ASSUME NEW i, listed = held
    PROVE  Recorded(i) = Wanted(i)
BY DEF Recorded, Wanted, Given

LEMMA OwnerIs ==
    ASSUME NEW j, NEW previous
    PROVE  /\ OwnerOf(j, previous) # Nobody =>
                 OwnerOf(j, previous) \in {previous, <<spec[j].owner, spec[j].group>>}
           /\ previous \in {Nobody, OwnerOf(j, Nobody)} =>
                 OwnerOf(j, previous) = OwnerOf(j, Nobody)
BY DEF OwnerOf

LEMMA BecomesIs ==
    ASSUME NEW i, NEW target
    PROVE  /\ Becomes(i, target) =
                 [holds |-> Becomes(i, target).holds, release |-> Becomes(i, target).release,
                  readers |-> target.readers, owner |-> OwnerOf(i, Nobody)]
           /\ Becomes(i, target).readers = target.readers
           /\ Becomes(i, target).owner = OwnerOf(i, Nobody)
           /\ Becomes(i, target).holds \subseteq target.holds
           /\ target.holds # {"chain"} => Becomes(i, target).release = Wanted(i)
BY DEF Becomes

\* Where destinations do not disagree, each has its files as the other has them.
LEMMA DeclaredAlike ==
    ASSUME HostInv, Consistent, NEW i \in DOMAIN spec, NEW k \in DOMAIN targets[i],
           NEW j \in DOMAIN spec, targets[i][k].path \in Paths(j)
    PROVE  /\ Becomes(j, TargetAt(j, targets[i][k].path)) = Becomes(i, targets[i][k])
           /\ TargetAt(j, targets[i][k].path).readers = targets[i][k].readers
           /\ OwnerOf(j, Nobody) = OwnerOf(i, Nobody)
<1>1. PICK l \in DOMAIN targets[j] :
             /\ TargetAt(j, targets[i][k].path) = targets[j][l]
             /\ targets[j][l].path = targets[i][k].path
  BY TargetIsThere
<1>2. Becomes(j, targets[j][l]) = Becomes(i, targets[i][k])
  BY <1>1 DEF Consistent
<1>3. /\ Becomes(j, targets[j][l]).readers = targets[j][l].readers
      /\ Becomes(j, targets[j][l]).owner = OwnerOf(j, Nobody)
      /\ Becomes(i, targets[i][k]).readers = targets[i][k].readers
      /\ Becomes(i, targets[i][k]).owner = OwnerOf(i, Nobody)
  BY BecomesIs
<1> QED
  BY <1>1, <1>2, <1>3

LEMMA WrittenDeclares ==
    ASSUME HostInv, Consistent, NEW j \in DOMAIN spec, NEW i \in DOMAIN spec,
           i = j \/ DeclaredIn(files, i)
    PROVE  DeclaredIn(Written(j), i)
<1> SUFFICES ASSUME NEW k \in DOMAIN targets[i]
             PROVE  /\ targets[i][k].path \in DOMAIN Written(j)
                    /\ Written(j)[targets[i][k].path] = Becomes(i, targets[i][k])
  BY DEF DeclaredIn
<1>1. PICK path : path = targets[i][k].path
  OBVIOUS
<1>2. CASE path \in Paths(j)
  <2>1. Becomes(j, TargetAt(j, path)) = Becomes(i, targets[i][k])
    BY <1>1, <1>2, DeclaredAlike
  <2> QED
    BY <1>1, <1>2, <2>1 DEF Written
<1>3. CASE path \notin Paths(j)
  <2>1. i # j
    BY <1>1, <1>3 DEF Paths
  <2>2. path \in DOMAIN files /\ files[path] = Becomes(i, targets[i][k])
    BY <1>1, <2>1 DEF DeclaredIn
  <2> QED
    BY <1>1, <1>3, <2>2 DEF Written
<1> QED
  BY <1>2, <1>3

LEMMA EnforcedDeclares ==
    ASSUME HostInv, Consistent, NEW j \in DOMAIN spec, NEW i \in DOMAIN spec,
           DeclaredIn(files, i), NEW paths \in SUBSET Paths(j)
    PROVE  DeclaredIn(Enforced(j, paths), i)
<1> SUFFICES ASSUME NEW k \in DOMAIN targets[i]
             PROVE  /\ targets[i][k].path \in DOMAIN Enforced(j, paths)
                    /\ Enforced(j, paths)[targets[i][k].path] = Becomes(i, targets[i][k])
  BY DEF DeclaredIn
<1>1. PICK path : path = targets[i][k].path
  OBVIOUS
<1>2. path \in DOMAIN files /\ files[path] = Becomes(i, targets[i][k])
  BY <1>1 DEF DeclaredIn
<1>3. path \in DOMAIN Enforced(j, paths)
  BY <1>2 DEF Enforced
<1>4. CASE path \in paths
  <2>1. TargetAt(j, path).readers = targets[i][k].readers /\ OwnerOf(j, Nobody) = OwnerOf(i, Nobody)
    BY <1>1, <1>4, DeclaredAlike
  <2>2. files[path] = [holds |-> files[path].holds, release |-> files[path].release,
                       readers |-> targets[i][k].readers, owner |-> OwnerOf(i, Nobody)]
    BY <1>2, BecomesIs
  <2>3. OwnerOf(j, files[path].owner) = OwnerOf(i, Nobody)
    <3>1. files[path].owner = OwnerOf(j, Nobody)
      BY <2>1, <2>2
    <3> QED
      BY <2>1, <3>1, OwnerIs
  <2>4. Enforced(j, paths)[path] =
           [files[path] EXCEPT !.readers = TargetAt(j, path).readers,
                               !.owner = OwnerOf(j, files[path].owner)]
    BY <1>2, <1>4 DEF Enforced
  <2>5. Enforced(j, paths)[path] = files[path]
    BY <2>1, <2>2, <2>3, <2>4
  <2> QED
    BY <1>1, <1>2, <1>3, <2>5
<1>5. CASE path \notin paths
  BY <1>1, <1>2, <1>3, <1>5 DEF Enforced
<1> QED
  BY <1>4, <1>5

LEMMA RestoredDeclares ==
    ASSUME HostInv, Consistent, NEW j \in DOMAIN spec, NEW i \in DOMAIN spec,
           DeclaredIn(files, i), NEW n \in Nat, n <= Len(targets[j])
    PROVE  DeclaredIn(Restored(j, n), i)
<1> SUFFICES ASSUME NEW k \in DOMAIN targets[i]
             PROVE  /\ targets[i][k].path \in DOMAIN Restored(j, n)
                    /\ Restored(j, n)[targets[i][k].path] = Becomes(i, targets[i][k])
  BY DEF DeclaredIn
<1>1. PICK path : path = targets[i][k].path
  OBVIOUS
<1>2. path \in DOMAIN files /\ files[path] = Becomes(i, targets[i][k])
  BY <1>1 DEF DeclaredIn
<1>3. path \in DOMAIN Restored(j, n)
  BY <1>2 DEF Restored
<1>4. PICK paths : paths = {targets[j][l].path : l \in 1..n}
  OBVIOUS
<1>5. paths \subseteq Paths(j)
  <2>1. Len(targets[j]) \in Nat /\ DOMAIN targets[j] = 1..Len(targets[j])
    BY LenProperties DEF HostInv
  <2>2. 1..n \subseteq DOMAIN targets[j]
    BY <2>1
  <2> QED
    BY <1>4, <2>2 DEF Paths
<1>6. CASE path \in paths
  <2>1. OwnerOf(j, Nobody) = OwnerOf(i, Nobody)
    BY <1>1, <1>5, <1>6, DeclaredAlike
  <2>2. files[path] = [holds |-> files[path].holds, release |-> files[path].release,
                       readers |-> targets[i][k].readers, owner |-> OwnerOf(i, Nobody)]
    BY <1>2, BecomesIs
  <2>3. OwnerOf(j, files[path].owner) = OwnerOf(i, Nobody)
    <3>1. files[path].owner = OwnerOf(j, Nobody)
      BY <2>1, <2>2
    <3> QED
      BY <2>1, <3>1, OwnerIs
  <2>4. Restored(j, n)[path] = [files[path] EXCEPT !.owner = OwnerOf(j, files[path].owner)]
    BY <1>2, <1>4, <1>6 DEF Restored
  <2>5. Restored(j, n)[path] = files[path]
    BY <2>2, <2>3, <2>4
  <2> QED
    BY <1>1, <1>2, <1>3, <2>5
<1>7. CASE path \notin paths
  <2>1. Restored(j, n)[path] = files[path]
    BY <1>2, <1>4, <1>7 DEF Restored
  <2> QED
    BY <1>1, <1>2, <1>3, <2>1
<1> QED
  BY <1>6, <1>7

\* Files that have the right bytes are as declared once their modes and owners
\* are enforced: an owner nobody declared is nobody's.
LEMMA MatchedIsDeclared ==
    ASSUME HostInv, FilesInv, OwnedInv, Consistent, NEW i \in DOMAIN spec, Matches(i)
    PROVE  DeclaredIn(Enforced(i, Paths(i)), i)
<1> SUFFICES ASSUME NEW k \in DOMAIN targets[i]
             PROVE  /\ targets[i][k].path \in DOMAIN Enforced(i, Paths(i))
                    /\ Enforced(i, Paths(i))[targets[i][k].path] = Becomes(i, targets[i][k])
  BY DEF DeclaredIn
<1>1. PICK path : path = targets[i][k].path
  OBVIOUS
<1>2. path \in Paths(i)
  BY <1>1 DEF Paths
<1>3. /\ path \in DOMAIN files
      /\ files[path].holds = Becomes(i, targets[i][k]).holds
      /\ files[path].release = Becomes(i, targets[i][k]).release
  BY <1>1 DEF Matches, SameBytes
<1>4. path \in DOMAIN Enforced(i, Paths(i))
  BY <1>3 DEF Enforced
<1>5. TargetAt(i, path).readers = targets[i][k].readers
  BY <1>1, <1>2, DeclaredAlike
<1>6. OwnerOf(i, files[path].owner) = OwnerOf(i, Nobody)
  <2>1. CASE files[path].owner = Nobody
    BY <2>1
  <2>2. CASE files[path].owner # Nobody
    <3>1. PICK j \in DOMAIN spec : /\ path \in Paths(j)
                                   /\ files[path].owner = <<spec[j].owner, spec[j].group>>
      BY <1>3, <2>2 DEF OwnedInv
    <3>2. OwnerOf(j, Nobody) = OwnerOf(i, Nobody)
      BY <1>1, <3>1, DeclaredAlike
    <3>3. OwnerOf(j, Nobody) = files[path].owner
      BY <2>2, <3>1 DEF OwnerOf
    <3> QED
      BY <3>2, <3>3, OwnerIs
  <2> QED
    BY <2>1, <2>2
<1>7. PICK h, r, a, o : files[path] = [holds |-> h, readers |-> a, owner |-> o, release |-> r]
  BY <1>3 DEF FilesInv, File
<1>8. Enforced(i, Paths(i))[path] =
         [files[path] EXCEPT !.readers = TargetAt(i, path).readers,
                             !.owner = OwnerOf(i, files[path].owner)]
  BY <1>2, <1>3 DEF Enforced
<1>9. Enforced(i, Paths(i))[path] =
         [holds |-> Becomes(i, targets[i][k]).holds, release |-> Becomes(i, targets[i][k]).release,
          readers |-> targets[i][k].readers, owner |-> OwnerOf(i, Nobody)]
  BY <1>3, <1>5, <1>6, <1>7, <1>8
<1>10. Enforced(i, Paths(i))[path] = Becomes(i, targets[i][k])
  BY <1>9, BecomesIs
<1> QED
  BY <1>1, <1>4, <1>10

LEMMA OwnedStays ==
    ASSUME HostInv, FilesInv, OwnedInv, [Next]_vars
    PROVE  OwnedInv'
<1>1. spec' = spec /\ targets' = targets
  BY HostIsGiven
<1>2. \A i : Paths(i)' = Paths(i)
  BY <1>1 DEF Paths
<1> DEFINE Owned(path, owner) ==
             owner # Nobody =>
               \E j \in DOMAIN spec : path \in Paths(j) /\ owner = <<spec[j].owner, spec[j].group>>
<1>3. \A path \in DOMAIN files : Owned(path, files[path].owner)
  BY DEF OwnedInv
<1>4. SUFFICES ASSUME NEW path \in DOMAIN files'
               PROVE  Owned(path, files'[path].owner)
  BY <1>1, <1>2 DEF OwnedInv
\* To hand a path to a destination that writes it keeps this.
<1>5. ASSUME NEW i \in DOMAIN spec, path \in Paths(i), NEW previous, Owned(path, previous)
      PROVE  Owned(path, OwnerOf(i, previous))
  BY <1>5, OwnerIs
<1>6. CASE files' = files
  BY <1>3, <1>4, <1>6
<1>7. ASSUME NEW i \in DOMAIN spec, Install(i)
      PROVE  Owned(path, files'[path].owner)
  <2>1. files' = Written(i)
    BY <1>7 DEF Install
  <2>2. CASE path \in Paths(i)
    <3>1. files'[path] = Becomes(i, TargetAt(i, path))
      BY <1>4, <2>1, <2>2 DEF Written
    <3>2. files'[path].owner = OwnerOf(i, Nobody)
      BY <3>1, BecomesIs
    <3>3. Owned(path, Nobody)
      OBVIOUS
    <3> QED
      BY <1>5, <2>2, <3>2, <3>3
  <2>3. CASE path \notin Paths(i)
    <3>1. path \in DOMAIN files /\ files'[path] = files[path]
      BY <1>4, <2>1, <2>3 DEF Written
    <3> QED
      BY <1>3, <3>1
  <2> QED
    BY <2>2, <2>3
<1>8. ASSUME NEW i \in DOMAIN spec,
             \/ \E paths \in SUBSET Paths(i) : files' = Enforced(i, paths)
             \/ \E k \in Nat : k <= Len(targets[i]) /\ files' = Restored(i, k)
      PROVE  Owned(path, files'[path].owner)
  <2>1. PICK paths \in SUBSET Paths(i) :
               \/ files' = Enforced(i, paths)
               \/ files' = [p \in DOMAIN files |->
                              IF p \in paths
                              THEN [files[p] EXCEPT !.owner = OwnerOf(i, files[p].owner)]
                              ELSE files[p]]
    <3>1. CASE \E paths \in SUBSET Paths(i) : files' = Enforced(i, paths)
      BY <3>1
    <3>2. CASE \E k \in Nat : k <= Len(targets[i]) /\ files' = Restored(i, k)
      <4>1. PICK k \in Nat : k <= Len(targets[i]) /\ files' = Restored(i, k)
        BY <3>2
      <4>2. {targets[i][l].path : l \in 1..k} \in SUBSET Paths(i)
        <5>1. Len(targets[i]) \in Nat /\ DOMAIN targets[i] = 1..Len(targets[i])
          BY LenProperties DEF HostInv
        <5>2. 1..k \subseteq DOMAIN targets[i]
          BY <4>1, <5>1
        <5> QED
          BY <5>2 DEF Paths
      <4> QED
        BY <4>1, <4>2 DEF Restored
    <3> QED
      BY <1>8, <3>1, <3>2
  <2>2. path \in DOMAIN files
    BY <1>4, <2>1 DEF Enforced
  <2>3. PICK h, r, a, o : files[path] = [holds |-> h, readers |-> a, owner |-> o, release |-> r]
    BY <2>2 DEF FilesInv, File
  <2>4. \/ files'[path].owner = files[path].owner
        \/ path \in Paths(i) /\ files'[path].owner = OwnerOf(i, files[path].owner)
    BY <1>4, <2>1, <2>2, <2>3 DEF Enforced
  <2>5. PICK owner : owner = files[path].owner /\ Owned(path, owner)
    BY <1>3, <2>2
  <2>6. CASE files'[path].owner = files[path].owner
    BY <2>5, <2>6
  <2>7. CASE path \in Paths(i) /\ files'[path].owner = OwnerOf(i, files[path].owner)
    <3>1. Owned(path, OwnerOf(i, owner))
      BY <1>5, <2>5, <2>7
    <3> QED
      BY <2>5, <2>7, <3>1
  <2> QED
    BY <2>4, <2>6, <2>7
<1>9. ASSUME NEW p \in DOMAIN files, Edit(p)
      PROVE  Owned(path, files'[path].owner)
  <2>1. \/ files' = [files EXCEPT ![p].readers = {"group", "other"}]
        \/ files' = [q \in DOMAIN files \ {p} |-> files[q]]
    BY <1>9 DEF Edit
  <2>2. path \in DOMAIN files
    BY <1>4, <2>1
  <2>3. PICK h, r, a, o : files[path] = [holds |-> h, readers |-> a, owner |-> o, release |-> r]
    BY <2>2 DEF FilesInv, File
  <2>4. files'[path].owner = files[path].owner
    BY <1>4, <2>1, <2>2, <2>3
  <2> QED
    BY <1>3, <2>2, <2>4
<1> QED
  BY <1>6, <1>7, <1>8, <1>9, FilesChange

\* What a destination wants does not change while a cycle goes on.
LEMMA WantsStay ==
    ASSUME held' = held, listed' = listed, HostInv, [Next]_vars
    PROVE  /\ Consistent' <=> Consistent
           /\ \A i \in DOMAIN spec : /\ Wanted(i)' = Wanted(i)
                                     /\ AsDeclared(i)' <=> DeclaredIn(files', i)
                                     /\ InFiles(i)' <=> InFiles(i)
<1>1. spec' = spec /\ targets' = targets
  BY HostIsGiven
<1>2. ASSUME NEW i PROVE /\ Fulfilled(i)' = Fulfilled(i)
                         /\ Given(i)' = Given(i)
  BY <1>1 DEF Fulfilled, Given, Directory
<1>3. ASSUME NEW i PROVE Wanted(i)' = Wanted(i) /\ Bare(i)' = Bare(i)
  BY <1>2 DEF Wanted, Bare
<1>4. ASSUME NEW i, NEW previous PROVE OwnerOf(i, previous)' = OwnerOf(i, previous)
  BY <1>1 DEF OwnerOf
<1>5. ASSUME NEW i, NEW target PROVE Becomes(i, target)' = Becomes(i, target)
  BY <1>3, <1>4 DEF Becomes
<1>6. Consistent' <=> Consistent
  BY <1>1, <1>5 DEF Consistent
<1>7. ASSUME NEW i PROVE AsDeclared(i)' <=> DeclaredIn(files', i)
  BY <1>1, <1>5 DEF AsDeclared, DeclaredIn
<1> QED
  BY <1>1, <1>3, <1>6, <1>7 DEF InFiles

\* A step of a destination's turn: only its own outcome is said anew.
LEMMA TurnsInOrder ==
    ASSUME TypeInv, [Next]_vars, place' # 0, place # 0
    PROVE  \/ UNCHANGED <<files, held, listed, place, outcome, calm>>
           \/ calm' = FALSE
           \/ \E j \in DOMAIN spec, status \in Statuses :
                 /\ place = j /\ Return(j, status) /\ UNCHANGED <<held, listed, calm>>
                 /\ \/ status = "installed" => ~InFiles(j)
                    \/ Install(j) \/ UpToDate(j)
<1> DEFINE Said(j) == \E status \in Statuses :
             /\ place = j /\ Return(j, status) /\ UNCHANGED <<held, listed, calm>>
             /\ \/ status = "installed" => ~InFiles(j)
                \/ Install(j) \/ UpToDate(j)
<1>1. ASSUME UNCHANGED vars PROVE UNCHANGED <<files, held, listed, place, outcome, calm>>
  BY <1>1 DEF vars, core
<1>2. ASSUME NEW j \in DOMAIN spec, Unfulfilled(j) PROVE Said(j)
  BY <1>2 DEF Unfulfilled, Turn, Statuses, core
<1>3. ASSUME NEW j \in DOMAIN spec, NotRendered(j) \/ NotResolved(j) PROVE Said(j)
  BY <1>3 DEF NotRendered, NotResolved, FilesTurn, Turn, Statuses, core
<1>4. ASSUME NEW j \in DOMAIN spec, UpToDate(j) \/ Install(j) PROVE Said(j)
  BY <1>4 DEF UpToDate, Install, FilesTurn, Turn, Statuses, core
<1>5. ASSUME NEW j \in DOMAIN spec, NotEnforced(j) \/ NotInstalled(j) \/ NotReloaded(j)
      PROVE  Said(j)
  BY <1>5 DEF NotEnforced, NotInstalled, NotReloaded, FilesTurn, Turn, Statuses, core
<1>6. ASSUME NEW j \in DOMAIN spec, Import(j) PROVE Said(j)
  BY <1>6 DEF Import, Turn, Statuses, core
<1>7. ASSUME StartCycle \/ SkipInventory \/ LoseInventory \/ ReportInventory PROVE FALSE
  BY <1>7 DEF StartCycle, SkipInventory, LoseInventory, ReportInventory, EndCycle
<1>8. ASSUME IntervalPasses PROVE UNCHANGED <<files, held, listed, place, outcome, calm>>
  BY <1>8 DEF IntervalPasses, core
<1>9. ASSUME NEW names, Request(names) PROVE calm' = FALSE
  BY <1>9 DEF Request
<1>10. ASSUME NEW dir, Renew(dir) PROVE FALSE
  BY <1>10 DEF Renew
<1>11. ASSUME NEW path, Edit(path) PROVE calm' = FALSE
  BY <1>11 DEF Edit
<1> HIDE DEF Said
<1>12. \/ UNCHANGED <<files, held, listed, place, outcome, calm>>
       \/ calm' = FALSE
       \/ \E j \in DOMAIN spec : Said(j)
  BY <1>1, <1>2, <1>3, <1>4, <1>5, <1>6, <1>7, <1>8, <1>9, <1>10, <1>11 DEF Next, Cycle
<1> QED
  BY <1>12 DEF Said

\* A destination whose turn it is not, or that was up to date, keeps its files.
LEMMA DeclaredKept ==
    ASSUME HostInv, Consistent, [Next]_vars, NEW i \in DOMAIN spec, DeclaredIn(files, i)
    PROVE  DeclaredIn(files', i) \/ \E path \in DOMAIN files : Edit(path)
<1>1. CASE files' = files
  BY <1>1 DEF DeclaredIn
<1>2. ASSUME NEW j \in DOMAIN spec, Install(j) PROVE DeclaredIn(files', i)
  <2>1. files' = Written(j)
    BY <1>2 DEF Install
  <2> QED
    BY <2>1, WrittenDeclares
<1>3. ASSUME NEW j \in DOMAIN spec, NEW paths \in SUBSET Paths(j), files' = Enforced(j, paths)
      PROVE  DeclaredIn(files', i)
  BY <1>3, EnforcedDeclares
<1>4. ASSUME NEW j \in DOMAIN spec, NEW k \in Nat, k <= Len(targets[j]),
             files' = Restored(j, k)
      PROVE  DeclaredIn(files', i)
  BY <1>4, RestoredDeclares
<1> QED
  BY <1>1, <1>2, <1>3, <1>4, FilesChange

LEMMA DeclaredStays ==
    ASSUME TypeInv, DeclaredInv, [Next]_vars
    PROVE  DeclaredInv'
<1>1. HostInv /\ HeldInv /\ FilesInv /\ OwnedInv /\ CalmInv
  BY DEF TypeInv, DeclaredInv
<1>2. OwnedInv' /\ CalmInv'
  BY <1>1, OwnedStays, CalmStays
<1>3. spec' = spec /\ DOMAIN spec = 1..Len(spec)
  BY <1>1, HostIsGiven DEF HostInv
<1>4. place \in Nat
  BY <1>1 DEF TypeInv, TurnInv, Last, HostInv
<1> DEFINE Told(said, wanted) == said.release = wanted /\ said.id = wanted
<1>5. SUFFICES ASSUME calm', Consistent', NEW i \in DOMAIN spec, i < place',
                      InFiles(i)', outcome'[i].status = "installed"
               PROVE  AsDeclared(i)' /\ Told(outcome'[i], Wanted(i)')
  BY <1>2, <1>3 DEF DeclaredInv, InstalledIsAsDeclared
<1>6. place' # 0
  BY <1>3, <1>5
<1>7. place # 0
  <2>1. ASSUME place = 0 PROVE place' \in {0, 1}
    <3>1. \A j \in DOMAIN spec : ~Turn(j) /\ ~FilesTurn(j)
      BY <1>3, <2>1 DEF Turn, FilesTurn
    <3> QED
      BY <2>1, <3>1 DEF Next, Cycle, StartCycle, Unfulfilled, NotRendered, NotResolved,
             UpToDate, NotEnforced, Install, NotInstalled, NotReloaded, Import,
             SkipInventory, LoseInventory, ReportInventory, EndCycle, IntervalPasses, Edit, Request,
             Renew, Obtain, vars
  <2> QED
    BY <1>3, <1>5, <2>1
<1>8. \A path \in DOMAIN files : ~Edit(path)
  BY <1>5 DEF Edit
<1>9. SUFFICES ASSUME UNCHANGED <<held, listed>>,
                      \/ UNCHANGED <<place, outcome, files, calm>>
                      \/ \E j \in DOMAIN spec, status \in Statuses :
                           /\ place = j /\ Return(j, status) /\ calm' = calm
                           /\ \/ status = "installed" => ~InFiles(j)
                              \/ Install(j) \/ UpToDate(j)
               PROVE  AsDeclared(i)' /\ Told(outcome'[i], Wanted(i)')
  BY <1>5, <1>6, <1>7, TurnsInOrder
<1>10. /\ Consistent /\ InFiles(i) /\ Wanted(i)' = Wanted(i)
       /\ AsDeclared(i)' <=> DeclaredIn(files', i)
  BY <1>1, <1>5, <1>9, WantsStay
<1>11. calm
  BY <1>5, <1>9
\* What was said before.
<1>12. ASSUME i < place, outcome'[i] = outcome[i]
       PROVE  AsDeclared(i)' /\ Told(outcome'[i], Wanted(i)')
  <2>1. AsDeclared(i) /\ Told(outcome[i], Wanted(i))
    BY <1>5, <1>10, <1>11, <1>12 DEF DeclaredInv, InstalledIsAsDeclared
  <2>2. DeclaredIn(files, i)
    BY <2>1 DEF AsDeclared, DeclaredIn
  <2>3. DeclaredIn(files', i)
    BY <1>1, <1>8, <1>10, <2>2, DeclaredKept
  <2> QED
    BY <1>10, <1>12, <2>1, <2>3
<1>13. CASE UNCHANGED <<place, outcome, files, calm>>
  BY <1>5, <1>12, <1>13
<1>14. ASSUME NEW j \in DOMAIN spec, NEW status \in Statuses, place = j, Return(j, status),
              \/ status = "installed" => ~InFiles(j)
              \/ Install(j) \/ UpToDate(j)
       PROVE  AsDeclared(i)' /\ Told(outcome'[i], Wanted(i)')
  <2> DEFINE said == [status |-> status, release |-> Wanted(j), id |-> Recorded(j)]
  <2>1. /\ outcome' = [outcome EXCEPT ![j] = said] /\ place' = j + 1
        /\ said.status = status /\ said.release = Wanted(j) /\ said.id = Recorded(j)
    BY <1>14 DEF Return
  <2> HIDE DEF said
  <2>5. Recorded(j) = Wanted(j)
    BY <1>1, <1>11, RecordedIsWanted DEF CalmInv
  <2>2. /\ i # j => outcome'[i] = outcome[i]
        /\ i = j => outcome'[i] = said
    BY <2>1 DEF TypeInv, ServerInv
  <2>3. CASE i # j
    <3>1. i < place
      BY <1>3, <1>5, <1>14, <2>1, <2>3
    <3> QED
      BY <1>12, <2>2, <2>3, <3>1
  <2>4. CASE i = j
    <3>1. Install(i) \/ UpToDate(i)
      BY <1>5, <1>10, <1>14, <2>1, <2>2, <2>4
    <3>2. CASE Install(i)
      <4>1. files' = Written(i)
        BY <3>2 DEF Install
      <4>2. DeclaredIn(files', i)
        BY <1>1, <1>10, <4>1, WrittenDeclares
      <4> QED
        BY <1>10, <2>1, <2>2, <2>4, <2>5, <4>2
    <3>3. CASE UpToDate(i)
      <4>1. files' = Enforced(i, Paths(i)) /\ Matches(i)
        BY <3>3 DEF UpToDate
      <4>2. DeclaredIn(files', i)
        BY <1>1, <1>10, <4>1, MatchedIsDeclared
      <4> QED
        BY <1>10, <2>1, <2>2, <2>4, <2>5, <4>2
    <3> QED
      BY <3>1, <3>2, <3>3
  <2> QED
    BY <2>3, <2>4
<1> QED
  BY <1>9, <1>13, <1>14

LEMMA Declared == Spec => []DeclaredInv
<1>1. Init => DeclaredInv
  <2> SUFFICES ASSUME Init PROVE DeclaredInv
    OBVIOUS
  <2>1. HostInv /\ files = scene.tree /\ place = 0 /\ listed = held
    BY HostStarts DEF Init
  <2>2. OwnedInv
    <3>1. \A path \in DOMAIN files : files[path].owner = Nobody
      BY <2>1, HostFilesAssumption DEF HostInv
    <3> QED
      BY <3>1 DEF OwnedInv
  <2>3. \A i \in DOMAIN spec : ~(i < place)
    BY <2>1 DEF HostInv
  <2> QED
    BY <2>1, <2>2, <2>3 DEF DeclaredInv, CalmInv, InstalledIsAsDeclared
<1>2. TypeInv /\ DeclaredInv /\ [Next]_vars => DeclaredInv'
  BY DeclaredStays
<1> QED
  BY <1>1, <1>2, Typed, PTL DEF Spec

\* Whatever the destinations, what fails of them and what they share, as long as
\* they do not disagree, and in a cycle during which nobody else touches a file
\* or requests a certificate: what this cycle reported as installed has the
\* bytes, modes and owners that were declared, and the issuance and the id that
\* were reported, until the cycle ends.
THEOREM InstalledStaysAsDeclared == Spec => []InstalledIsAsDeclared
<1>1. DeclaredInv => InstalledIsAsDeclared
  BY DEF DeclaredInv
<1> QED
  BY <1>1, Declared, PTL

-----------------------------------------------------------------------------
(* What a report says of it.                                               *)

\* Everything render may put into its list.
Whole(d)    == Target(d.cert_path, {"cert", "chain", "key"}, KeyMode(d))
CertOf(d)   == Target(d.cert_path, {"cert"}, CertMode(d))
KeyOnly(d)  == Target(d.key_path, {"key"}, KeyMode(d))
ChainOf(d)  == Target(d.chain_path, {"chain"}, CertMode(d))
FullOf(d)   == Target(d.fullchain_path, {"cert", "chain"}, CertMode(d))
Rendered(d) ==
    IF Keystore(d) THEN {Whole(d)}
    ELSE (IF Combined(d) THEN {Whole(d)} ELSE {CertOf(d), KeyOnly(d)})
         \cup (IF d.chain_path = NoPath THEN {} ELSE {ChainOf(d)})
         \cup (IF d.fullchain_path = NoPath THEN {} ELSE {FullOf(d)})

LEMMA RenderedOnly ==
    ASSUME NEW d
    PROVE  /\ Render(d) \in Seq(Rendered(d))
           /\ ~Keystore(d) /\ ~Combined(d) =>
                 \E k \in DOMAIN Render(d) : Render(d)[k] = KeyOnly(d)
<1> DEFINE one   == IF Combined(d) THEN <<Whole(d)>> ELSE <<CertOf(d), KeyOnly(d)>>
           two   == Unless(d.chain_path = NoPath, <<ChainOf(d)>>)
           three == Unless(d.fullchain_path = NoPath, <<FullOf(d)>>)
           pair  == one \o two
           S     == Rendered(d)
<1>1. Render(d) = IF Keystore(d) THEN <<Whole(d)>> ELSE pair \o three
  BY DEF Render, Whole, CertOf, KeyOnly, ChainOf, FullOf
<1>2. CASE Keystore(d)
  <2>1. Whole(d) \in S
    BY <1>2 DEF Rendered
  <2> HIDE DEF S
  <2>2. <<Whole(d)>> \in Seq(S)
    BY <2>1
  <2> QED
    BY <1>1, <1>2, <2>2 DEF S
<1>3. CASE ~Keystore(d)
  <2>1. /\ Combined(d) => Whole(d) \in S
        /\ ~Combined(d) => CertOf(d) \in S /\ KeyOnly(d) \in S
        /\ d.chain_path # NoPath => ChainOf(d) \in S
        /\ d.fullchain_path # NoPath => FullOf(d) \in S
    BY <1>3 DEF Rendered
  <2> HIDE DEF S
  <2>2. one \in Seq(S)
    BY <2>1
  <2>3. two \in Seq(S)
    BY <2>1 DEF Unless
  <2>4. three \in Seq(S)
    BY <2>1 DEF Unless
  <2>5. ~Combined(d) => Len(one) = 2 /\ one[2] = KeyOnly(d)
    OBVIOUS
  <2> HIDE DEF one, two, three
  <2>6. /\ pair \in Seq(S) /\ Len(pair) = Len(one) + Len(two)
        /\ \A k \in 1..(Len(one) + Len(two)) :
              pair[k] = IF k <= Len(one) THEN one[k] ELSE two[k - Len(one)]
    BY <2>2, <2>3, ConcatProperties
  <2> HIDE DEF pair
  <2>7. /\ pair \o three \in Seq(S) /\ Len(pair \o three) = Len(pair) + Len(three)
        /\ \A k \in 1..(Len(pair) + Len(three)) :
              (pair \o three)[k] = IF k <= Len(pair) THEN pair[k] ELSE three[k - Len(pair)]
    <3>1. pair \in Seq(S)
      BY <2>6
    <3> QED
      BY <2>4, <3>1, ConcatProperties
  <2>8. Len(two) \in Nat /\ Len(three) \in Nat
    BY <2>3, <2>4, LenProperties
  <2>9. ASSUME ~Combined(d)
        PROVE  2 \in DOMAIN (pair \o three) /\ (pair \o three)[2] = KeyOnly(d)
    <3>1. DOMAIN (pair \o three) = 1..Len(pair \o three)
      BY <2>7, LenProperties
    <3>2. Len(one) = 2 /\ Len(pair) = 2 + Len(two) /\ Len(pair \o three) = 2 + Len(two) + Len(three)
      BY <2>5, <2>6, <2>7, <2>9
    <3>3. pair[2] = one[2] /\ (pair \o three)[2] = pair[2]
      BY <2>6, <2>7, <2>8, <3>2
    <3> QED
      BY <2>5, <2>8, <2>9, <3>1, <3>2, <3>3
  <2>10. Render(d) = pair \o three
    BY <1>1, <1>3
  <2> QED
    BY <2>7, <2>9, <2>10 DEF S
<1> QED
  BY <1>2, <1>3

LEMMA RenderedHolds ==
    ASSUME NEW d, NEW t \in Rendered(d)
    PROVE  /\ "key" \in t.holds =>
                 t.readers = ReadersOf[KeyMode(d)] /\ t.path \in {d.cert_path, d.key_path}
           /\ "cert" \in t.holds =>
                 \/ t.path = d.cert_path
                 \/ d.fullchain_path # NoPath /\ t.path = d.fullchain_path
           /\ "cert" \in t.holds /\ "key" \notin t.holds =>
                 ~Keystore(d) /\ (Combined(d) => d.fullchain_path # NoPath)
<1>1. /\ Whole(d).path = d.cert_path /\ Whole(d).holds = {"cert", "chain", "key"}
      /\ Whole(d).readers = ReadersOf[KeyMode(d)]
      /\ CertOf(d).path = d.cert_path /\ CertOf(d).holds = {"cert"}
      /\ KeyOnly(d).path = d.key_path /\ KeyOnly(d).holds = {"key"}
      /\ KeyOnly(d).readers = ReadersOf[KeyMode(d)]
      /\ ChainOf(d).holds = {"chain"}
      /\ FullOf(d).path = d.fullchain_path /\ FullOf(d).holds = {"cert", "chain"}
  BY DEF Target, Whole, CertOf, KeyOnly, ChainOf, FullOf
<1>2. \/ t = Whole(d)
      \/ t = CertOf(d) /\ ~Keystore(d) /\ ~Combined(d)
      \/ t = KeyOnly(d)
      \/ t = ChainOf(d)
      \/ t = FullOf(d) /\ ~Keystore(d) /\ d.fullchain_path # NoPath
  BY DEF Rendered
<1> QED
  BY <1>1, <1>2

\* The mode a key gets is not for a group that nobody spoke of.
LEMMA KeyModeIsShared ==
    ASSUME NEW d, ValidModes(d)
    PROVE  ReadersOf[KeyMode(d)] \subseteq SharedWith(d)
<1>1. ReadersOf[KeyMode(d)] \in Readers /\ "other" \notin ReadersOf[KeyMode(d)]
  BY ModesRead
<1>2. ReadersOf["0600"] = {}
  BY DEF ReadersOf
<1>3. CASE d.group = "" /\ d.key_mode = ""
  <2>1. KeyMode(d) = "0600"
    BY <1>3 DEF KeyMode, DefaultKeyMode
  <2> QED
    BY <1>2, <2>1
<1>4. CASE ~(d.group = "" /\ d.key_mode = "")
  <2>1. SharedWith(d) = {"group"}
    BY <1>4 DEF SharedWith
  <2> QED
    BY <1>1, <2>1 DEF Readers
<1> QED
  BY <1>3, <1>4

\* A profile puts the key into the file of the certificate or beside it, under a
\* name findPrivateKey knows.
Beside(cert_path, key_path, fullchain_path) ==
    \/ key_path = NoPath
    \/ key_path = cert_path /\ fullchain_path = NoPath
    \/ /\ key_path = Live("privkey", ".pem")
       /\ cert_path = Live("cert", ".pem") /\ fullchain_path = Live("fullchain", ".pem")

LEMMA ProfilesLayOut ==
    ASSUME NEW p \in DOMAIN Catalogue
    PROVE  Beside(Catalogue[p].cert_path, Catalogue[p].key_path, Catalogue[p].fullchain_path)
<1> DEFINE Well(q) == Beside(q.cert_path, q.key_path, q.fullchain_path)
<1>1. DOMAIN Catalogue = {"nginx", "apache", "caddy", "haproxy", "postgresql", "postfix",
                          "dovecot", "mariadb", "tomcat", "iis"}
  BY DEF Catalogue
<1>2. Well(Catalogue.nginx) /\ Well(Catalogue.apache) /\ Well(Catalogue.caddy)
  BY DEF Catalogue, Nothing, ThreeFiles, Beside
<1>3. Well(Catalogue.haproxy)
  BY DEF Catalogue, Nothing, ThreeFiles, Beside
<1>4. Well(Catalogue.tomcat) /\ Well(Catalogue.iis)
  BY DEF Catalogue, Nothing, ThreeFiles, Beside
<1>5. Well(Catalogue.postfix) /\ Well(Catalogue.dovecot)
  BY DEF Catalogue, Nothing, ThreeFiles, Beside
<1>6. Well(Catalogue.postgresql) /\ Well(Catalogue.mariadb)
  BY DEF Catalogue, Nothing, ThreeFiles, Beside
<1> HIDE DEF Well
<1>7. Well(Catalogue[p])
  BY <1>1, <1>2, <1>3, <1>4, <1>5, <1>6
<1> QED
  BY <1>7 DEF Well

\* What validate sees where a profile's three paths were left as they are.
LEMMA LaidOutBeside ==
    ASSUME NEW d, d.profile \in DOMAIN Catalogue,
           \A f \in {"cert_path", "key_path", "fullchain_path"} : d[f] = NoPath
    PROVE  LET e == Completed(d)
           IN  \/ e.key_path = NoPath
               \/ e.key_path = e.cert_path /\ e.fullchain_path = NoPath
               \/ /\ e.key_path = At(e.certificate, "privkey", ".pem")
                  /\ e.cert_path = At(e.certificate, "cert", ".pem")
                  /\ e.fullchain_path = At(e.certificate, "fullchain", ".pem")
<1> DEFINE F == {"cert_path", "key_path", "fullchain_path"}
           c == WithProfile(d).certificate
<1>1. F \subseteq Field /\ F \subseteq Templated /\ F \subseteq PathField
  BY Fields DEF Templated, PathField
<1>2. \A f \in F : WithProfile(d)[f] = Catalogue[d.profile][f]
  BY <1>1, Fields DEF WithProfile, Filled
<1>3. Completed(d).certificate = c
  <2>1. "certificate" \in Field /\ "certificate" \notin Templated
    BY Fields, Zenon DEF Templated, PathField
  <2>2. Completed(d)["certificate"] = WithProfile(d)["certificate"]
    BY <2>1, Seen
  <2> QED
    BY <2>2
<1>4. \A f \in F : Completed(d)[f] =
         IF Catalogue[d.profile][f].dir = Placeholder
         THEN [Catalogue[d.profile][f] EXCEPT !.dir = c] ELSE Catalogue[d.profile][f]
  BY <1>1, <1>2, Seen
<1> HIDE DEF c
<1>5. PICK x : x = Catalogue[d.profile]
  OBVIOUS
<1>6. /\ Completed(d).key_path = IF x.key_path.dir = Placeholder
                                  THEN [x.key_path EXCEPT !.dir = c] ELSE x.key_path
      /\ Completed(d).cert_path = IF x.cert_path.dir = Placeholder
                                   THEN [x.cert_path EXCEPT !.dir = c] ELSE x.cert_path
      /\ Completed(d).fullchain_path = IF x.fullchain_path.dir = Placeholder
                                        THEN [x.fullchain_path EXCEPT !.dir = c]
                                        ELSE x.fullchain_path
  BY <1>4, <1>5
<1>7. Beside(x.cert_path, x.key_path, x.fullchain_path)
  BY <1>5, ProfilesLayOut
<1>8. /\ NoPath.dir # Placeholder
      /\ \A s, z : /\ Live(s, z).dir = Placeholder
                   /\ [Live(s, z) EXCEPT !.dir = c] = At(c, s, z)
  <2>1. NoPath.dir = "" /\ "" # Placeholder
    BY DEF NoPath, At, Placeholder
  <2>2. ASSUME NEW s, NEW z
        PROVE  /\ Live(s, z).dir = Placeholder
               /\ [Live(s, z) EXCEPT !.dir = c] = At(c, s, z)
    BY DEF At, Live
  <2> QED
    BY <2>1, <2>2
<1>9. CASE x.key_path = NoPath
  BY <1>6, <1>8, <1>9
<1>10. CASE x.key_path = x.cert_path /\ x.fullchain_path = NoPath
  BY <1>6, <1>8, <1>10
<1>11. CASE /\ x.key_path = Live("privkey", ".pem") /\ x.cert_path = Live("cert", ".pem")
            /\ x.fullchain_path = Live("fullchain", ".pem")
  BY <1>3, <1>6, <1>8, <1>11
<1> QED
  BY <1>7, <1>9, <1>10, <1>11 DEF Beside

LEMMA FirstOfPlaces ==
    ASSUME NEW places, \/ places \subseteq DOMAIN Suffixes
                       \/ places \subseteq DOMAIN Names
    PROVE  places # {} => First(places) \in places
<1>1. DOMAIN Suffixes \subseteq Nat /\ DOMAIN Names \subseteq Nat
  BY DEF Suffixes, Names
<1>2. places \subseteq Nat
  BY <1>1
<1>3. places # {} => \E n \in places : \A m \in places : n <= m
  BY <1>2, LeastExists
<1> QED
  BY <1>3 DEF First

\* A key that is reported is in the file it is reported in.
LEMMA KeyIsThere ==
    ASSUME NEW tree, NEW links, NEW path, KeyOf(tree, links, path) # NoPath
    PROVE  "key" \in tree[Real(links, KeyOf(tree, links, path))].holds
<1> DEFINE specifically   == Specifically(tree, links, path)
           conventionally == Conventionally(tree, links, path)
           key == KeyOf(tree, links, path)
<1>1. \/ key = path /\ "key" \in tree[Real(links, path)].holds
      \/ specifically # {} /\ key = Specific(path, First(specifically))
      \/ conventionally # {} /\ key = Conventional(path, First(conventionally))
  BY DEF KeyOf
<1>2. /\ specifically # {} => First(specifically) \in specifically
      /\ conventionally # {} => First(conventionally) \in conventionally
  <2>1. specifically \subseteq DOMAIN Suffixes /\ conventionally \subseteq DOMAIN Names
    BY DEF Specifically, Conventionally
  <2> HIDE DEF specifically, conventionally
  <2> QED
    BY <2>1, FirstOfPlaces
<1>3. CASE key = path /\ "key" \in tree[Real(links, path)].holds
  BY <1>3
<1>4. CASE specifically # {} /\ key = Specific(path, First(specifically))
  BY <1>2, <1>4 DEF Specifically, HasKey
<1>5. CASE conventionally # {} /\ key = Conventional(path, First(conventionally))
  BY <1>2, <1>5 DEF Conventionally, HasKey
<1> QED
  BY <1>1, <1>3, <1>4, <1>5

\* Where one of the conventional names leads to the key, a key is reported.
LEMMA KeyIsFound ==
    ASSUME NEW tree, NEW links, NEW path, path # NoPath,
           "roots" \notin tree[Real(links, path)].holds,
           \/ "key" \in tree[Real(links, path)].holds
           \/ Conventionally(tree, links, path) # {}
    PROVE  KeyOf(tree, links, path) # NoPath
<1> DEFINE specifically   == Specifically(tree, links, path)
           conventionally == Conventionally(tree, links, path)
<1>1. Kind(tree[Real(links, path)]) # "bundle"
  BY DEF Kind
<1>2. /\ specifically # {} => First(specifically) \in DOMAIN Suffixes
      /\ conventionally # {} => First(conventionally) \in DOMAIN Names
  <2>1. specifically \subseteq DOMAIN Suffixes /\ conventionally \subseteq DOMAIN Names
    BY DEF Specifically, Conventionally
  <2> HIDE DEF specifically, conventionally
  <2> QED
    BY <2>1, FirstOfPlaces
<1>3. NoPath.suffix = ""
  BY DEF NoPath, At
<1>4. ASSUME NEW n \in DOMAIN Suffixes PROVE Specific(path, n) # NoPath
  <2>1. n \in 1..4
    BY DEF Suffixes
  <2>2. Suffixes[n] \in {".key", "-key.pem", ".key.pem", "_key.pem"}
    BY <2>1 DEF Suffixes
  <2>3. Specific(path, n).suffix = Suffixes[n]
    BY DEF Specific, At
  <2> QED
    BY <1>3, <2>2, <2>3
<1>5. ASSUME NEW n \in DOMAIN Names PROVE Conventional(path, n) # NoPath
  <2>1. n \in 1..5
    BY DEF Names
  <2>2. Names[n][2] \in {".pem", ".key"}
    BY <2>1 DEF Names
  <2>3. Conventional(path, n).suffix = Names[n][2]
    BY DEF Conventional, At
  <2> QED
    BY <1>3, <2>2, <2>3
<1> QED
  BY <1>1, <1>2, <1>4, <1>5 DEF KeyOf

-----------------------------------------------------------------------------

\* The spec is what was loaded, and what is written what was rendered.
LaidOutInv ==
    /\ LoadedInv
    /\ \A i \in DOMAIN spec : InFiles(i) => targets[i] = Render(spec[i])

LEMMA LaidOutStays ==
    /\ Init => LaidOutInv
    /\ LaidOutInv /\ [Next]_vars => LaidOutInv'
<1>1. Init => \A i \in DOMAIN spec : InFiles(i) => targets[i] = Render(spec[i])
  BY DEF Init, InFiles
<1>2. ASSUME LaidOutInv, [Next]_vars
      PROVE  \A i \in DOMAIN spec' : InFiles(i)' => targets'[i] = Render(spec'[i])
  BY <1>2, HostIsGiven DEF LaidOutInv, InFiles
<1> QED
  BY <1>1, <1>2, LoadedStays DEF LaidOutInv

LEMMA LoadedIs ==
    ASSUME LoadedInv, NEW i \in DOMAIN spec
    PROVE  /\ i \in DOMAIN Document /\ spec[i] = Completed(Document[i])
           /\ Accepted(Document[i], scene.windows)
<1>1. spec # <<>>
  OBVIOUS
<1>2. Loads(scene.document, scene.windows)
  BY <1>1 DEF LoadedInv
<1>3. i \in DOMAIN scene.document /\ spec[i] = Completed(scene.document[i])
  BY <1>1 DEF LoadedInv
<1> QED
  BY <1>2, <1>3 DEF Loads, Document

\* What a destination's own file tells of it.
LEMMA OwnFile ==
    ASSUME HostInv, LaidOutInv, NEW i \in DOMAIN spec, InFiles(i), AsDeclared(i),
           NEW path \in Paths(i)
    PROVE  \E t \in Rendered(spec[i]) :
              /\ t.path = path /\ path \in DOMAIN files
              /\ files[path] = Becomes(i, t)
<1>1. PICK k \in DOMAIN targets[i] : targets[i][k].path = path
  BY DEF Paths
<1>2. targets[i] = Render(spec[i])
  BY DEF LaidOutInv
<1>3. targets[i] \in Seq(Rendered(spec[i]))
  BY <1>2, RenderedOnly
<1>4. targets[i][k] \in Rendered(spec[i])
  BY <1>3, ElementOfSeq, LenProperties
<1>5. path \in DOMAIN files /\ files[path] = Becomes(i, targets[i][k])
  BY <1>1 DEF AsDeclared
<1> QED
  BY <1>1, <1>4, <1>5

LEMMA OwnRelease ==
    ASSUME NEW i, NEW t, "cert" \in Becomes(i, t).holds \/ "key" \in Becomes(i, t).holds
    PROVE  /\ Becomes(i, t).release = Wanted(i)
           /\ "cert" \in Becomes(i, t).holds => "cert" \in t.holds
           /\ "key" \in Becomes(i, t).holds => "key" \in t.holds
<1>1. Becomes(i, t).holds \subseteq t.holds
  BY BecomesIs
<1>2. t.holds # {"chain"}
  BY <1>1
<1> QED
  BY <1>1, <1>2, BecomesIs

\* Where a destination writes there are no links.
LEMMA NotLinked ==
    ASSUME LaidOutInv, NEW i \in DOMAIN spec, InFiles(i), NEW path \in Paths(i)
    PROVE  path \notin DOMAIN scene.links
<1>1. /\ i \in DOMAIN scene.document /\ spec[i] = Completed(scene.document[i])
      /\ scene \in Scenes
  BY LoadedIs DEF LaidOutInv, LoadedInv, Document
<1>2. \A f \in PathField : spec[i][f] \notin DOMAIN scene.links
  BY <1>1, HostFilesAssumption
<1>3. PICK k \in DOMAIN targets[i] : targets[i][k].path = path
  BY DEF Paths
<1>4. targets[i] \in Seq(Rendered(spec[i]))
  BY RenderedOnly DEF LaidOutInv
<1>5. targets[i][k] \in Rendered(spec[i])
  BY <1>4, ElementOfSeq, LenProperties
<1>6. path \in {spec[i].cert_path, spec[i].key_path, spec[i].chain_path, spec[i].fullchain_path}
  BY <1>3, <1>5 DEF Rendered, Whole, CertOf, KeyOnly, ChainOf, FullOf, Target
<1> QED
  BY <1>2, <1>6 DEF PathField

\* What inspect makes of a file a destination wrote.
LEMMA OwnRowLooksWell ==
    ASSUME HostInv, LaidOutInv, NEW i \in DOMAIN spec, InFiles(i), AsDeclared(i),
           outcome[i].release = Wanted(i), outcome[i].id = Wanted(i), NEW path, path # NoPath, IsOwn(i, path),
           Kind(files[Real(scene.links, path)]) = "leaf"
    PROVE  LooksWell(Row(files, scene.links, scene.named, path), i)
<1>1. PICK d : d = spec[i]
  OBVIOUS
<1>2. PICK own : own = Real(scene.links, path)
  OBVIOUS
<1>3. PICK key : key = KeyOf(files, scene.links, path)
  OBVIOUS
<1>4. PICK row : row = Row(files, scene.links, scene.named, path)
  OBVIOUS
<1>5. PICK t \in Rendered(d) : t.path = own /\ own \in DOMAIN files /\ files[own] = Becomes(i, t)
  BY <1>1, <1>2, OwnFile DEF IsOwn
<1>6. "cert" \in files[own].holds /\ "roots" \notin files[own].holds
  BY <1>2 DEF Kind
<1>7. "cert" \in t.holds /\ files[own].release = Wanted(i)
  BY <1>5, <1>6, OwnRelease
<1>8. Leaf(files[own]) = Wanted(i)
  BY <1>6, <1>7 DEF Leaf
<1>9. /\ row.release = Wanted(i) /\ row.path = path /\ row.key = key
      /\ row.matches <=> key # NoPath /\ files[Real(scene.links, key)].release = Wanted(i)
      /\ key # NoPath => row.readers = files[Real(scene.links, key)].readers
  BY <1>2, <1>3, <1>4, <1>8 DEF Row, KeyMatches
<1>10. /\ i \in DOMAIN Document /\ d = Completed(Document[i])
       /\ Accepted(Document[i], scene.windows)
  BY <1>1, LoadedIs DEF LaidOutInv
<1>11. ValidFiles(d, scene.windows)
  BY <1>1, <1>10 DEF Accepted, Valid, InFiles
<1>12. ASSUME key # NoPath, IsOwn(i, key)
       PROVE  row.matches /\ row.readers \subseteq SharedWith(d)
  <2>1. PICK k \in Rendered(d) : /\ Real(scene.links, key) \in DOMAIN files
                                 /\ files[Real(scene.links, key)] = Becomes(i, k)
    BY <1>1, <1>12, OwnFile DEF IsOwn
  <2>2. "key" \in Becomes(i, k).holds
    BY <1>3, <1>12, <2>1, KeyIsThere
  <2>3. Becomes(i, k).release = Wanted(i) /\ "key" \in k.holds
    BY <2>2, OwnRelease
  <2>4. k.readers = ReadersOf[KeyMode(d)] /\ Becomes(i, k).readers = k.readers
    BY <2>3, RenderedHolds, BecomesIs
  <2>5. ReadersOf[KeyMode(d)] \subseteq SharedWith(d)
    BY <1>11, KeyModeIsShared DEF ValidFiles
  <2> QED
    BY <1>9, <1>12, <2>1, <2>3, <2>4, <2>5
<1>13. ASSUME LaidOut(i), path \in Paths(i)
       PROVE  key # NoPath
  <2>1. path \notin DOMAIN scene.links /\ own = path
    BY <1>2, <1>13, NotLinked DEF Real
  <2>2. CASE "key" \in files[own].holds
    BY <1>2, <1>3, <1>6, <2>2, KeyIsFound
  \* Then the key is the file beside it.
  <2>3. CASE "key" \notin files[own].holds
    <3>1. "key" \notin t.holds
      BY <1>5, <2>3 DEF Becomes
    <3>2. ~Keystore(d) /\ (Combined(d) => d.fullchain_path # NoPath)
      BY <1>7, <3>1, RenderedHolds
    <3>3. d.key_path # NoPath
      BY <1>11, <3>2 DEF ValidFiles, ValidPEM
    <3>4. /\ d.key_path = At(d.certificate, "privkey", ".pem")
          /\ d.cert_path = At(d.certificate, "cert", ".pem")
          /\ d.fullchain_path = At(d.certificate, "fullchain", ".pem")
      <4>1. Document[i].profile \in DOMAIN Catalogue
        <5>1. Document[i].profile = "" => d.profile = ""
          <6>1. ASSUME Document[i].profile = "" PROVE d.profile = ""
            <7>1. Document[i].profile \notin DOMAIN Catalogue
              BY <6>1 DEF Catalogue
            <7>2. WithProfile(Document[i]) = Document[i]
              BY <7>1 DEF WithProfile
            <7>3. "profile" \in Field \ Templated
              BY Fields DEF Templated, PathField
            <7> QED
              BY <1>10, <6>1, <7>2, <7>3, Seen
          <6> QED
            BY <6>1
        <5>2. d.profile # ""
          BY <1>1, <1>13 DEF LaidOut
        <5> QED
          BY <1>10, <5>1, <5>2 DEF Accepted
      <4>2. \A f \in {"cert_path", "key_path", "fullchain_path"} : Document[i][f] = NoPath
        BY <1>13 DEF LaidOut
      <4>3. PICK doc : doc = Document[i]
        OBVIOUS
      <4>4. \/ d.key_path = NoPath
            \/ d.key_path = d.cert_path /\ d.fullchain_path = NoPath
            \/ /\ d.key_path = At(d.certificate, "privkey", ".pem")
               /\ d.cert_path = At(d.certificate, "cert", ".pem")
               /\ d.fullchain_path = At(d.certificate, "fullchain", ".pem")
        BY <1>10, <4>1, <4>2, <4>3, LaidOutBeside
      <4> QED
        BY <3>2, <3>3, <4>4 DEF Combined
    <3>5. path.dir = d.certificate
      <4>1. path \in {d.cert_path, d.fullchain_path}
        BY <1>5, <1>7, <2>1, RenderedHolds
      <4> QED
        BY <3>4, <4>1 DEF At
    <3>6. ~Combined(d)
      <4>1. At(d.certificate, "privkey", ".pem").stem = "privkey"
        BY DEF At
      <4>2. At(d.certificate, "cert", ".pem").stem = "cert"
        BY DEF At
      <4> QED
        BY <3>4, <4>1, <4>2 DEF Combined
    <3>7. d.key_path \in Paths(i) /\ files[d.key_path] = Becomes(i, KeyOnly(d)) /\ d.key_path \in DOMAIN files
      <4>1. targets[i] = Render(d)
        BY <1>1 DEF LaidOutInv
      <4>2. PICK k \in DOMAIN targets[i] : targets[i][k] = KeyOnly(d)
        BY <3>2, <3>6, <4>1, RenderedOnly
      <4>3. targets[i][k].path = d.key_path
        BY <4>2 DEF KeyOnly, Target
      <4> QED
        BY <4>2, <4>3 DEF Paths, AsDeclared
    <3>8. "key" \in files[d.key_path].holds
      BY <3>7 DEF Becomes, KeyOnly, Target
    <3>9. Conventional(path, 1) = d.key_path
      BY <3>4, <3>5 DEF Conventional, Names
    <3>10. Real(scene.links, d.key_path) = d.key_path
      BY <3>7, NotLinked DEF Real
    <3>11. files[d.key_path].release = Wanted(i)
      BY <3>7, <3>8, OwnRelease
    <3>12. d.key_path # path
      BY <2>1, <2>3, <3>8
    <3>13. /\ HasKey(files, scene.links, path, Conventional(path, 1))
           /\ KeyMatches(files, scene.links, path, Conventional(path, 1))
      BY <1>2, <1>8, <3>7, <3>8, <3>9, <3>10, <3>11, <3>12 DEF HasKey, KeyMatches
    <3>14. 1 \in Conventionally(files, scene.links, path)
      BY <3>13 DEF Conventionally, Names
    <3> QED
      BY <1>2, <1>3, <1>6, <3>14, KeyIsFound
  <2> QED
    BY <2>2, <2>3
<1> QED
  BY <1>1, <1>4, <1>9, <1>12, <1>13 DEF LooksWell

\* For any host whose destinations do not disagree about a file, and with no link
\* at their paths: after a cycle during which nobody else touched a file or
\* requested a certificate, the inventory shows what was installed as it was
\* installed and reported, and never raises an alarm about a key the agent put
\* there.
THEOREM InstalledIsShown == Spec => InstallsLookWell
<1>1. TypeInv /\ LaidOutInv /\ DeclaredInv /\ [Next]_vars =>
        [Reports /\ calm /\ Consistent =>
         \A n \in DOMAIN inventory'.rows : \A i \in DOMAIN spec :
             LET row == inventory'.rows[n]
             IN  (/\ InFiles(i) /\ outcome[i].status = "installed"
                  /\ IsOwn(i, row.path) /\ row.kind = "leaf")
                     => LooksWell(row, i)]_vars
  <2> SUFFICES ASSUME TypeInv, LaidOutInv, DeclaredInv, [Next]_vars, Reports, calm, Consistent,
                      NEW n \in DOMAIN inventory'.rows, NEW i \in DOMAIN spec,
                      InFiles(i), outcome[i].status = "installed",
                      IsOwn(i, inventory'.rows[n].path), inventory'.rows[n].kind = "leaf"
               PROVE  LooksWell(inventory'.rows[n], i)
    OBVIOUS
  <2>1. place = Last /\ due /\ ~due'
    BY DEF Reports
  <2>2. inventory' = Scan(files, scene.links, scene.named)
    BY <2>1 DEF Next, Cycle, StartCycle, Unfulfilled, NotRendered, NotResolved, UpToDate,
           NotEnforced, Install, NotInstalled, NotReloaded, Import, SkipInventory,
           LoseInventory, ReportInventory, EndCycle, IntervalPasses, Edit, Request, Renew, Obtain, vars
  <2>3. PICK path : path = Walk[n]
    OBVIOUS
  <2>4. /\ inventory'.rows[n] = Row(files, scene.links, scene.named, path)
        /\ n \in Certificates
    <3>1. n \in Listed({m \in Certificates : Reported(files, scene.links, m)})
      BY <2>2 DEF Scan
    <3>2. n \in Certificates
      BY <3>1 DEF Listed
    <3>3. inventory'.rows[n] = Row(files, scene.links, scene.named, path)
      BY <2>2, <2>3 DEF Scan
    <3> QED
      BY <3>2, <3>3
  <2>5. path # NoPath
    <3>1. NoPath.stem = "" /\ NoPath.suffix = ""
      BY DEF NoPath, At
    <3>2. LooksLikeCertificate(path)
      BY <2>3, <2>4 DEF Certificates
    <3> QED
      BY <3>1, <3>2 DEF LooksLikeCertificate
  <2>6. IsOwn(i, path) /\ Kind(files[Real(scene.links, path)]) = "leaf"
    BY <2>4 DEF Row
  <2>7. AsDeclared(i) /\ outcome[i].release = Wanted(i) /\ outcome[i].id = Wanted(i)
    <3>1. i < place
      BY <2>1 DEF TypeInv, HostInv, Last
    <3> QED
      BY <3>1 DEF DeclaredInv, InstalledIsAsDeclared
  <2>8. LooksWell(Row(files, scene.links, scene.named, path), i)
    BY <2>5, <2>6, <2>7, OwnRowLooksWell DEF TypeInv
  <2> QED
    BY <2>4, <2>8
<1> QED
  BY <1>1, LaidOutStays, Typed, Declared, PTL DEF Spec, InstallsLookWell
=============================================================================
