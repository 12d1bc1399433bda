------------------------------- MODULE FolderDisk --------------------------------
(***************************************************************************)
(* What a rename or a delete works on: the entries of one folder, and the  *)
(* places they may be put.  A temporary name is in the folder too, but not *)
(* one the user gave; a holding folder is at the root of the volume, or    *)
(* beside the entry; the Recycle Bin is the shell's.  An entry is an id.   *)
(***************************************************************************)
EXTENDS Integers, SequencesExt

CONSTANT Names     \* the names an entry may have

ASSUME NamesAssumption == IsFiniteSet(Names)

VARIABLES disk,    \* what is at each place that is taken
          serial   \* the number of the next temporary name, holding folder or place in the bin

Places  == [at : {"folder", "aside", "held", "beside", "bin"}, no : Nat, name : Names]
Nowhere == [at |-> "nowhere", no |-> 0, name |-> ""]

In(name)           == [at |-> "folder", no |-> 0, name |-> name]
Put(at, no, place) == [at |-> at, no |-> no, name |-> place.name]

Exists(place)    == place \in DOMAIN disk
Without(places)  == Restrict(disk, DOMAIN disk \ places)
With(place, id)  == [p \in DOMAIN disk \union {place} |-> IF p = place THEN id ELSE disk[p]]
\* Mutant: what is moved is copied.
Copied(from, to) == [p \in DOMAIN disk \union {to} |-> IF p = to THEN disk[from] ELSE disk[p]]
Moved(from, to)  == [p \in (DOMAIN disk \ {from}) \union {to} |-> IF p = to THEN disk[from] ELSE disk[p]]
HeldIn(nos)      == {p \in DOMAIN disk : p.at \in {"held", "beside"} /\ p.no \in nos}
IdsAt(places)    == {disk[p] : p \in places \intersect DOMAIN disk}

\* What the user sees of the folder.
Looks(d) == {<<p.name, d[p]>> : p \in {q \in DOMAIN d : q.at = "folder"}}

DiskTypeOK == /\ \A p \in DOMAIN disk : p \in Places /\ disk[p] \in Nat
              /\ serial \in Nat
              /\ \A p, q \in DOMAIN disk : disk[p] = disk[q] => p = q
================================================================================
