------------------------------- MODULE IndexRows --------------------------------
(***************************************************************************)
(* The rows of fs_entry (bb-core/src/data/fs_index.rs) and what its writers *)
(* do to them.  A path is the sequence of names below the drive, so that    *)
(* "under" is "properly prefixed by", which is what PathKey::prefix_bounds *)
(* cuts out of the table.  A row keeps what the properties speak of: whether *)
(* the entry is a folder, whether it is effectively hidden, and the crawl  *)
(* generation it was last written in.                                      *)
(***************************************************************************)
EXTENDS Integers, SequencesExt

CONSTANTS Names,    \* the names an entry may have
          MaxDepth  \* bound: how deep the tree is

ASSUME RowsAssumption == MaxDepth \in Nat \ {0}

Paths == UNION {[1..n -> Names] : n \in 1..MaxDepth}
Row   == [folder : BOOLEAN, hidden : BOOLEAN, gen : Nat]

Under(path, top) == IsStrictPrefix(top, path)
Within(path, top) == IsPrefix(top, path)

\* The path of what was at or below `from`, after `from` has become `to`.
Rebased(path, from, to) == to \o SubSeq(path, Len(from) + 1, Len(path))

\* Mutant: a row comes without its generation.
UpsertUnstamped(rows, entries, gen) ==
    [p \in DOMAIN rows \union DOMAIN entries |->
        IF p \in DOMAIN entries THEN entries[p] ELSE rows[p]]

\* entries: what is to be written, by path.
UpsertEntries(rows, entries, gen) ==
    [p \in DOMAIN rows \union DOMAIN entries |->
        IF p \in DOMAIN entries
        THEN [folder |-> entries[p].folder, hidden |-> entries[p].hidden, gen |-> gen]
        ELSE rows[p]]

DeleteSubtree(rows, path) == Restrict(rows, {p \in DOMAIN rows : ~Within(p, path)})

\* Whatever was at the target goes first; nothing comes to it if the old path has no row.
Rename(rows, old, new, gen) ==
    LET kept   == IF old = new THEN rows ELSE DeleteSubtree(rows, new)
        moved  == {p \in DOMAIN kept : Within(p, old)}
        landed == {Rebased(p, old, new) : p \in moved}
    IN  [p \in (DOMAIN kept \ moved) \union landed |->
            IF p \in landed THEN [kept[Rebased(p, new, old)] EXCEPT !.gen = gen] ELSE kept[p]]

\* What a finished crawl of root did not touch has vanished from the disk.
SweepVanished(rows, root, gen) ==
    Restrict(rows, {p \in DOMAIN rows : Under(p, root) => rows[p].gen >= gen})

RowsTypeOK(rows) == \A p \in DOMAIN rows : p \in Seq(Names) /\ rows[p] \in Row
================================================================================
