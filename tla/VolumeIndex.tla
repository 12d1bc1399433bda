------------------------------ MODULE VolumeIndex -------------------------------
(***************************************************************************)
(* One NTFS volume kept in the index by the helper: build_initial_index    *)
(* reads the file table while programs go on changing it, and tail catches *)
(* up from the change journal, starting where the journal stood before the *)
(* build (bb-core/src/mft/volume_indexer.rs, path_builder.rs; run_volume   *)
(* in service.rs).  A record number names an entry; the number of one that *)
(* was deleted is used again.                                              *)
(***************************************************************************)
EXTENDS IndexRows

CONSTANTS
    MaxFiles,    \* bound: record numbers
    MaxChanges,  \* bound: changes made on the volume
    MaxBuilds,   \* bound: helpers that run, each building once
    Habits,      \* of AllHabits: what programs on the volume may do
    Mishaps      \* of AllMishaps: what may befall a build

\* A program moves an entry after the journal was opened and before
\* all records are read; an entry gets the record number of one deleted in that time;
\* a file is hidden or shown; a program goes on with the handle it created or moved an
\* entry with; a folder takes a path another folder has left; an entry becomes hidden, or
\* stops being so, because of the folders it is in.
AllHabits  == {"moves in build", "reuses number", "hides", "keeps handle", "reuses folder path",
               "hides by place"}
\* The names-only enumeration ends before the end of the table.
AllMishaps == {"cut short"}

ASSUME VolumeAssumption == /\ MaxFiles \in Nat /\ MaxChanges \in Nat /\ MaxBuilds \in Nat
                           /\ Habits \subseteq AllHabits /\ Mishaps \subseteq AllMishaps

VARIABLES
    disk,      \* the file table: a node for every record number in use
    handles,   \* reasons gathered by each handle that is still open
    journal,   \* the change journal from where the indexer has read it to, oldest first
    rows,      \* fs_entry
    root,      \* the volume's fs_index_root row
    phase,     \* where run_volume is
    build,     \* the build's crawl_gen
    source,    \* what the build reads: the raw table, or the names-only enumeration
    position,  \* the next record number to be read
    seen,      \* what the build has read
    dirs,      \* the resident directory map
    pending,   \* pending_renames
    indexed,   \* mark_complete: searches take the volume to be kept live
    changes,   \* history: changes made so far
    left       \* history: paths folders have left since the indexer opened the journal
diskVars    == <<disk, handles, journal>>
historyVars == <<changes, left>>
buildVars   == <<build, source, position, seen>>
tailVars    == <<dirs, pending>>
vars == <<diskVars, rows, root, phase, buildVars, tailVars, indexed, historyVars>>

Files  == 1..MaxFiles
Root   == 0
Node   == [parent : Files \union {Root}, name : Names, folder : BOOLEAN, hidden : BOOLEAN]
Reasons == {"create", "old name", "new name", "delete", "attributes", "close"}
Dir    == [path : Paths, hidden : BOOLEAN]

Without(f, gone)   == Restrict(f, DOMAIN f \ gone)
With(f, key, value) == [k \in DOMAIN f \union {key} |-> IF k = key THEN value ELSE f[k]]

\* MftPathBuilder::try_resolve: the chain of names from the root, through nodes of carriers.
\* A broken or endless chain resolves to nothing.
Nowhere == [path |-> <<>>, hidden |-> FALSE]
\* The places of all, the places of what carries them known.
PlacedBelow(nodes, carriers, above) ==
    [f \in Files |->
        IF f \notin DOMAIN nodes THEN Nowhere
        ELSE LET node == nodes[f]
             IN  IF node.parent = Root THEN [path |-> <<node.name>>, hidden |-> node.hidden]
                 ELSE IF node.parent \notin carriers \/ above[node.parent] = Nowhere THEN Nowhere
                 ELSE [path   |-> Append(above[node.parent].path, node.name),
                       hidden |-> above[node.parent].hidden \/ node.hidden]]
PlacesUpTo(nodes, carriers) ==
    LET placed[depth \in 0..MaxFiles] ==
            IF depth = 0 THEN [f \in Files |-> Nowhere]
            ELSE PlacedBelow(nodes, carriers, placed[depth - 1])
    IN  placed
Resolved(nodes, carriers) ==
    LET place == PlacesUpTo(nodes, carriers)[MaxFiles]
    IN  Restrict(place, {f \in DOMAIN nodes : place[f] # Nowhere})

FoldersOf(nodes) == {f \in DOMAIN nodes : nodes[f].folder}
Entries(nodes, places) ==
    LET at(p) == CHOOSE f \in DOMAIN places : places[f].path = p
    IN  [p \in {places[f].path : f \in DOMAIN places} |->
            [folder |-> nodes[at(p)].folder, hidden |-> places[at(p)].hidden]]

OnDisk == Resolved(disk, FoldersOf(disk))
--------------------------------------------------------------------------------
\* What programs do.

Record(f, node, reasons) ==
    [frn |-> f, parent |-> node.parent, name |-> node.name, folder |-> node.folder,
     hidden |-> node.hidden, reasons |-> reasons]

ChildrenOf(f) == {g \in DOMAIN disk : disk[g].parent = f}
FolderAt(parent) == parent = Root \/ (parent \in DOMAIN disk /\ disk[parent].folder)
FreeAt(parent, name) == ~ \E g \in ChildrenOf(parent) : disk[g].name = name
HeldReasons(f) == IF f \in DOMAIN handles THEN handles[f] ELSE {}

\* What is written to the journal while nobody has a place in it is never read.
Journals(records) == journal' = IF phase = "closed" THEN <<>> ELSE journal \o records

\* A handle's records say what it has done so far; the last is its close.
Closing(f, node, reasons, keep) ==
    LET so_far == HeldReasons(f) \union reasons
    IN  /\ handles' = IF keep THEN With(handles, f, so_far) ELSE Without(handles, {f})
        /\ Journals(<<Record(f, node, so_far \union IF keep THEN {} ELSE {"close"})>>)

Keeps == {FALSE} \union IF "keeps handle" \in Habits THEN {TRUE} ELSE {}

Changed(newDisk, f) ==
    LET below == {g \in DOMAIN disk : f \in DOMAIN disk /\ Within(OnDisk[g].path, OnDisk[f].path)}
        after == Resolved(newDisk, FoldersOf(newDisk))
        fallen == {OnDisk[g].path : g \in below \intersect FoldersOf(disk)}
        taken == {after[g].path : g \in {h \in FoldersOf(newDisk) \intersect DOMAIN after :
                                           h \notin DOMAIN disk \/ OnDisk[h].path # after[h].path}}
    IN  /\ changes < MaxChanges
        /\ changes' = changes + 1
        /\ disk' = newDisk
        /\ DOMAIN after = DOMAIN newDisk
        /\ \A g \in DOMAIN after : Len(after[g].path) <= MaxDepth
        /\ "reuses folder path" \in Habits \/ taken \intersect left = {}
        /\ "hides by place" \in Habits
           \/ \A g \in DOMAIN newDisk \intersect DOMAIN disk : after[g].hidden = OnDisk[g].hidden
        /\ left' = left \union fallen

Creates(f, keep) ==
    /\ f \notin DOMAIN disk
    /\ "reuses number" \in Habits \/ phase \notin {"open", "reading"}
       \/ \A i \in DOMAIN journal : ~(journal[i].frn = f /\ "delete" \in journal[i].reasons)
    /\ \E node \in Node :
        /\ node.hidden => "hides" \in Habits
        /\ FolderAt(node.parent) /\ FreeAt(node.parent, node.name)
        /\ Changed(With(disk, f, node), f)
        /\ Closing(f, node, {"create"}, keep)

Deletes(f) ==
    /\ f \in DOMAIN disk /\ ChildrenOf(f) = {}
    /\ Changed(Without(disk, {f}), f)
    /\ Closing(f, disk[f], {"delete"}, FALSE)

Moves(f, keep) ==
    /\ f \in DOMAIN disk
    /\ "moves in build" \in Habits \/ phase \notin {"open", "reading"}
    /\ \E parent \in Files \union {Root}, name \in Names :
        LET node == [disk[f] EXCEPT !.parent = parent, !.name = name]
            old  == Record(f, disk[f], HeldReasons(f) \union {"old name"})
            held == (HeldReasons(f) \union {"new name"})
        IN  /\ FolderAt(parent) /\ FreeAt(parent, name)
            /\ Changed([disk EXCEPT ![f] = node], f)
            /\ Journals(<<old, Record(f, node, held)>>
                        \o IF keep THEN <<>> ELSE <<Record(f, node, held \union {"close"})>>)
            /\ handles' = IF keep THEN With(handles, f, held) ELSE Without(handles, {f})

Hides(f) ==
    /\ f \in DOMAIN disk
    /\ LET node == [disk[f] EXCEPT !.hidden = ~@]
       IN  /\ "hides" \in Habits
           /\ disk[f].folder => "hides by place" \in Habits
           /\ changes < MaxChanges /\ changes' = changes + 1
           /\ disk' = [disk EXCEPT ![f] = node]
           /\ Closing(f, node, {"attributes"}, FALSE)
    /\ UNCHANGED left

Closes(f) ==
    /\ f \in DOMAIN handles
    /\ Closing(f, disk[f], {}, FALSE)
    /\ UNCHANGED <<disk, historyVars>>

ProgramsAct ==
    \* What was done before the first helper is in Init; what is done after a volume's
    \* thread has ended is seen by the next helper, as what is done between the two is.
    /\ phase # "over" /\ (phase = "closed" => build > 0)
    /\ \E f \in Files :
        \/ \E keep \in Keeps : Creates(f, keep) \/ Moves(f, keep)
        \/ Deletes(f) \/ Hides(f) \/ Closes(f)
    /\ UNCHANGED <<rows, root, phase, buildVars, tailVars, indexed>>
--------------------------------------------------------------------------------
\* The helper.

Opens ==
    /\ phase = "closed"
    /\ \/ phase' = "open" /\ left' = {}
       \/ phase' = "over" /\ UNCHANGED left
    /\ UNCHANGED <<diskVars, rows, root, buildVars, tailVars, indexed, changes>>

BeginsBuild ==
    /\ phase = "open"
    /\ phase' = "reading" /\ build' = build + 1 /\ source' = "raw" /\ position' = 1 /\ seen' = <<>>
    /\ UNCHANGED <<diskVars, rows, root, tailVars, indexed, historyVars>>

\* Whatever ends the enumeration of names is taken for the end of the table.
ReadsRecord ==
    /\ phase = "reading" /\ position <= MaxFiles
    /\ position' \in {position + 1} \union IF "cut short" \in Mishaps /\ source = "names"
                                          THEN {MaxFiles + 1} ELSE {}
    /\ seen' = IF position \in DOMAIN disk THEN With(seen, position, disk[position]) ELSE seen
    /\ UNCHANGED <<diskVars, rows, root, phase, build, source, tailVars, indexed, historyVars>>

\* The raw table cannot be read: what was read of it is dropped, and names are enumerated.
FallsBack ==
    /\ phase = "reading" /\ source = "raw"
    /\ source' = "names" /\ position' = 1 /\ seen' = <<>>
    /\ UNCHANGED <<diskVars, rows, root, phase, build, tailVars, indexed, historyVars>>

\* In the raw table only a record of a folder is anyone's parent.
Places == Resolved(seen, IF source = "raw" THEN FoldersOf(seen) ELSE DOMAIN seen)

WritesRows ==
    /\ phase = "reading" /\ position > MaxFiles
    /\ phase' = "written"
    /\ rows' = UpsertEntries(rows, Entries(seen, Places), build)
    /\ dirs' = Restrict(Places, DOMAIN Places \intersect FoldersOf(seen))
    /\ UNCHANGED <<diskVars, root, buildVars, pending, indexed, historyVars>>

Sweeps ==
    /\ phase = "written"
    /\ phase' = "swept"
    /\ rows' = SweepVanished(rows, <<>>, build)
    /\ UNCHANGED <<diskVars, root, buildVars, tailVars, indexed, historyVars>>

\* Mutant: the tail starts where the journal stands after the build.
RegistersAtEnd ==
    /\ phase = "swept"
    /\ phase' = "tailing"
    /\ root' = [complete |-> TRUE, stale |-> FALSE]
    /\ indexed' = TRUE
    /\ seen' = <<>> /\ position' = 1 /\ journal' = <<>>
    /\ UNCHANGED <<disk, handles, rows, build, source, tailVars, historyVars>>

Registers ==
    /\ phase = "swept"
    /\ phase' = "tailing"
    /\ root' = [complete |-> TRUE, stale |-> FALSE]
    /\ indexed' = TRUE
    /\ seen' = <<>> /\ position' = 1
    /\ UNCHANGED <<diskVars, rows, build, source, tailVars, historyVars>>

PathOf(rec) == IF rec.parent = Root THEN <<rec.name>>
               ELSE Append(dirs[rec.parent].path, rec.name)
Resolves(rec) == rec.parent = Root \/ rec.parent \in DOMAIN dirs
\* Mutant: the folders above are not asked.
HiddenByItself(rec) == rec.hidden
EffectiveHidden(rec) == rec.hidden \/ (rec.parent # Root /\ dirs[rec.parent].hidden)
DirOf(rec) == [path |-> PathOf(rec), hidden |-> EffectiveHidden(rec)]

RemoveDirSubtree(f, path) ==
    Restrict(dirs, {g \in DOMAIN dirs \ {f} : ~Under(dirs[g].path, path)})

\* Descendants keep the hidden flag they had.
RewriteDirSubtree(old, rec) ==
    LET with == With(dirs, rec.frn, DirOf(rec))
    IN  [g \in DOMAIN with |->
            IF Under(with[g].path, old)
            THEN [with[g] EXCEPT !.path = Rebased(@, old, PathOf(rec))] ELSE with[g]]

ApplyUpsert(rec) ==
    /\ rows' = UpsertEntries(rows, [p \in {PathOf(rec)} |-> [folder |-> rec.folder, hidden |-> EffectiveHidden(rec)]],
                             build)
    /\ dirs' = IF rec.folder THEN With(dirs, rec.frn, DirOf(rec)) ELSE dirs
    /\ UNCHANGED pending

ApplyDelete(rec) ==
    /\ rows' = DeleteSubtree(rows, PathOf(rec))
    /\ dirs' = IF rec.folder THEN RemoveDirSubtree(rec.frn, PathOf(rec)) ELSE dirs
    /\ UNCHANGED pending

ApplyRename(rec) ==
    IF rec.frn \in DOMAIN pending
    THEN /\ rows' = Rename(rows, pending[rec.frn], PathOf(rec), build)
         /\ dirs' = IF rec.folder THEN RewriteDirSubtree(pending[rec.frn], rec) ELSE dirs
         /\ pending' = Without(pending, {rec.frn})
    ELSE ApplyUpsert(rec)

Applies(rec) ==
    \/ ~Resolves(rec) /\ UNCHANGED <<rows, dirs, pending>>
    \/ /\ Resolves(rec) /\ "old name" \in rec.reasons
       /\ pending' = With(pending, rec.frn, PathOf(rec)) /\ UNCHANGED <<rows, dirs>>
    \/ /\ Resolves(rec) /\ rec.reasons \intersect {"old name", "close"} = {}
       /\ UNCHANGED <<rows, dirs, pending>>
    \/ /\ Resolves(rec) /\ "close" \in rec.reasons
       /\ \/ "delete" \in rec.reasons /\ ApplyDelete(rec)
          \/ {"delete", "new name"} \intersect rec.reasons = {"new name"} /\ ApplyRename(rec)
          \/ {"delete", "new name"} \intersect rec.reasons = {} /\ ApplyUpsert(rec)

TailApplies ==
    /\ phase = "tailing" /\ journal # <<>>
    /\ journal' = Tail(journal)
    /\ Applies(Head(journal))
    /\ UNCHANGED <<disk, handles, root, phase, buildVars, indexed, historyVars>>

\* Mutant: the root is not marked.
TailEndsQuietly ==
    /\ phase = "tailing"
    /\ phase' = "over" /\ journal' = <<>>
    /\ UNCHANGED <<disk, handles, rows, root, buildVars, tailVars, indexed, historyVars>>

\* The journal was deleted, or wrapped past what was read of it: the root is marked stale
\* and the thread ends.
TailEnds ==
    /\ phase = "tailing"
    /\ phase' = "over" /\ journal' = <<>>
    /\ root' = [root EXCEPT !.stale = TRUE]
    /\ UNCHANGED <<disk, handles, rows, buildVars, tailVars, indexed, historyVars>>

\* The helper ends, told to or not; what a build had written by then stays.  The next one
\* knows nothing.
HelperEnds ==
    /\ phase # "closed" /\ build < MaxBuilds
    /\ phase' = "closed"
    /\ \E written \in SUBSET DOMAIN Places :
        rows' = IF phase = "reading" /\ position > MaxFiles
                THEN UpsertEntries(rows, Entries(seen, Restrict(Places, written)), build) ELSE rows
    /\ source' = "raw" /\ position' = 1 /\ seen' = <<>> /\ journal' = <<>>
    /\ dirs' = <<>> /\ pending' = <<>> /\ indexed' = FALSE
    /\ UNCHANGED <<disk, handles, root, build, historyVars>>

IndexerActs == \/ Opens \/ BeginsBuild \/ ReadsRecord \/ WritesRows \/ Sweeps \/ Registers
               \/ TailApplies
Next == ProgramsAct \/ IndexerActs \/ FallsBack \/ TailEnds \/ HelperEnds

\* The volume has been in use for long, and so has the index: there may be rows for
\* entries that have gone since.
Init ==
    /\ disk \in UNION {[used -> Node] : used \in SUBSET Files}
    /\ DOMAIN OnDisk = DOMAIN disk
    /\ \A f \in DOMAIN disk : /\ FolderAt(disk[f].parent)
                              /\ disk[f].hidden => "hides" \in Habits
                              /\ Len(OnDisk[f].path) <= MaxDepth
                              /\ \A g \in ChildrenOf(disk[f].parent) : g # f => disk[g].name # disk[f].name
    /\ handles = <<>> /\ journal = <<>>
    /\ rows \in {Restrict([p \in Paths |-> [folder |-> FALSE, hidden |-> FALSE, gen |-> 0]], known) :
                    known \in {{}, {<<n>> : n \in Names}}}
    /\ root = [complete |-> rows # <<>>, stale |-> FALSE]
    /\ phase = "closed" /\ build = 0 /\ source = "raw" /\ position = 1 /\ seen = <<>>
    /\ dirs = <<>> /\ pending = <<>> /\ indexed = FALSE
    /\ changes = 0 /\ left = {}

Spec == Init /\ [][Next]_vars
--------------------------------------------------------------------------------
\* Rows and directory map name what there can be: record numbers of the volume, paths of
\* names, rows written with a kind, a hidden flag and a generation (upsert_entries).
TypeOK ==
    /\ DOMAIN disk \subseteq Files /\ DOMAIN dirs \subseteq Files
    /\ RowsTypeOK(rows)

CaughtUp == phase = "tailing" /\ journal = <<>> /\ handles = <<>>

\* When the tail has nothing more to apply, the index has a row for every entry of the
\* volume, at its path and of its kind, and none besides; and the directory map, from which
\* the path of whatever comes next is made, has every folder at the path it has by now
\* (note, rewrite_dir_subtree, remove_dir_subtree).
IndexedIsThere ==
    CaughtUp => /\ DOMAIN rows = {OnDisk[f].path : f \in DOMAIN disk}
                /\ \A f \in DOMAIN disk : rows[OnDisk[f].path].folder = disk[f].folder
                /\ DOMAIN dirs = FoldersOf(disk)
                /\ \A f \in DOMAIN dirs : dirs[f].path = OnDisk[f].path

\* ... and each is marked hidden exactly if the entry or a folder above it is, which is what
\* effective_hidden and the path builder make of two sources that know less.
HiddenIsHidden ==
    CaughtUp => \A f \in DOMAIN disk : OnDisk[f].path \in DOMAIN rows => rows[OnDisk[f].path].hidden = OnDisk[f].hidden

\* What searches take to be kept live has a tail that keeps it so.
LiveHasTail == indexed /\ root.complete /\ ~root.stale => phase = "tailing"
================================================================================
