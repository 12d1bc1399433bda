------------------------------ MODULE TransferDisk ------------------------------
(***************************************************************************)
(* The part of the disk a move or a copy works on: some source folders, one *)
(* destination and the staging folders the app makes in it.  A path is a   *)
(* place and a name with its number, "name (2)" being the second; an entry *)
(* is a file or a folder known by its id, which outlives a rename, and by  *)
(* what it holds, which a copy shares with its source.                     *)
(***************************************************************************)
EXTENDS Integers, SequencesExt

CONSTANTS Folders,   \* source folders
          Names      \* names an entry may have

VARIABLES disk,      \* what is at each path that is taken
          standing,  \* the source folders that exist
          nextId,    \* the id of the next entry to be made
          nextStage  \* the number of the next staging folder to be made

diskVars == <<disk, standing, nextId, nextStage>>

Paths  == [at : Folders \union {"destination", "staging"}, stage : Nat, name : Names, n : Nat \ {0}]
Entry  == [id : Nat, data : Nat, folder : BOOLEAN, edited : BOOLEAN]
NoPath == [at |-> "nowhere", stage |-> 0, name |-> "", n |-> 0]

In(folder, name)    == [at |-> folder, stage |-> 0, name |-> name, n |-> 1]
Staged(stage, path) == [path EXCEPT !.at = "staging", !.stage = stage]

Exists(path)  == path \in DOMAIN disk
New(id, data, folder) == [id |-> id, data |-> data, folder |-> folder, edited |-> FALSE]

Without(d, paths)  == Restrict(d, DOMAIN d \ paths)
With(d, path, e)   == [p \in DOMAIN d \union {path} |-> IF p = path THEN e ELSE d[p]]
Renamed(d, p, q)   == With(Without(d, {p}), q, d[p])
InFolder(d, place) == {p \in DOMAIN d : p.at = place}
InStages(d, ns)    == {p \in DOMAIN d : p.at = "staging" /\ p.stage \in ns}

\* UniquePath::for_path: the first free one of a name and its numbers.
UniquePath(d, path) ==
    LET Free == {m \in path.n..(path.n + Cardinality(DOMAIN d)) : [path EXCEPT !.n = m] \notin DOMAIN d}
    IN  [path EXCEPT !.n = Min(Free)]

\* What the user can see, staging being hidden.
Looks(d) == {<<p, d[p].data>> : p \in {q \in DOMAIN d : q.at # "staging"}}

\* EntryStamp: a file that was written to is another; a folder stays the same one.
NoStamp == [id |-> 0, edited |-> FALSE]
Stamp(path) == IF Exists(path) THEN [id |-> disk[path].id, edited |-> disk[path].edited] ELSE NoStamp
Matches(stamp, path) == /\ stamp.id = disk[path].id
                        /\ disk[path].folder \/ stamp.edited = disk[path].edited

DiskTypeOK == /\ \A p \in DOMAIN disk : p \in Paths /\ disk[p] \in Entry
              /\ standing \subseteq Folders
              /\ \A p \in DOMAIN disk : p.at \in Folders => p.at \in standing
              /\ nextId \in Nat /\ nextStage \in Nat
================================================================================
