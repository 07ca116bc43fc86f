----------------------------- MODULE Directories -----------------------------
(***************************************************************************)
(* The certificates of a state directory, each in a directory of its own:  *)
(* where Request puts one (request.go) and which of them a destination is  *)
(* given (findHeld, installfs.go).  Issuance has the files of one of these *)
(* directories; here a save is one step and the directory is its record.   *)
(*                                                                         *)
(* A certificate is for a sequence of names, without repetitions and in    *)
(* lower case, as normalizeNames leaves them.                              *)
(***************************************************************************)
EXTENDS Naturals, Sequences

CONSTANTS
    Listing,   \* names of directories, as ReadDir sorts them
    Wildcard   \* names with a wildcard, and for each the name it is below

ASSUME DirectoriesAssumption == DOMAIN Listing \subseteq Nat

\* slugOf: "*.site" becomes "_.site", and a leading "_." is taken away.
SlugOf(name) == IF name \in DOMAIN Wildcard THEN Wildcard[name] ELSE name
DirectoryOf(names) == SlugOf(Head(names))

\* The names of the record are the core's, or the common name where it sends none.
Answered(names, sans) ==
    CASE sans = "asked"    -> names
      [] sans = "reversed" -> [k \in DOMAIN names |-> names[Len(names) + 1 - k]]
      [] sans = "none"     -> <<Head(names)>>

\* save: what is in the directory is overwritten, but for a chain that does not
\* come again.
Saved(held, names, sans, release, hasChain) ==
    LET dir == DirectoryOf(names)
    IN  [d \in DOMAIN held \cup {dir} |->
           IF d # dir THEN held[d]
           ELSE [names |-> Answered(names, sans), release |-> release,
                 chain |-> hasChain \/ (d \in DOMAIN held /\ held[d].chain)]]

\* findHeld: the first directory whose certificate has the name, by its record.
Covering(held, name) ==
    {n \in DOMAIN Listing :
       /\ Listing[n] \in DOMAIN held
       /\ name \in {held[Listing[n]].names[k] : k \in DOMAIN held[Listing[n]].names}}
Holds(held, name) == Covering(held, name) # {}
FindHeld(held, name) ==
    Listing[CHOOSE n \in Covering(held, name) : \A m \in Covering(held, name) : n <= m]
=============================================================================
