------------------------------ MODULE CrawledIndex ------------------------------
(***************************************************************************)
(* Roots no volume index covers: a search that finds its root not fresh     *)
(* starts a crawl of it in the background (bb-core/src/fs/search_service.rs, *)
(* index_crawler.rs, walker.rs), and a watcher attached before the crawl    *)
(* patches the rows from then on (index_watcher.rs).  Programs change the   *)
(* disk meanwhile, and the app may be closed and started again.             *)
(***************************************************************************)
EXTENDS IndexRows, FiniteSets

CONSTANTS
    RootNames,    \* of Names: the searched folders are at the top
    BusyNames,    \* of RootNames, bound: programs work below these
    MaxWatchers,  \* MAX_WATCHERS
    Slots,        \* CONCURRENCY
    MaxHeld,      \* bound: entries there are at first
    MaxChanges,   \* bound: changes made on the disk
    MaxCrawls,    \* bound: crawls begun
    MaxRestarts,  \* bound: times the app is started again
    Circumstances \* of AllCircumstances: what may come about

\* An entry is removed or moved while its root is crawled; one is moved while what was
\* noticed of it is still to be applied; a crawl begins before what was noticed ahead of it
\* is applied; a write of the drain fails; one of a crawl does.
AllCircumstances == {"removes in crawl", "moves at once", "crawls at once", "drain fails", "crawl fails"}

ASSUME CrawledAssumption ==
    /\ RootNames \subseteq Names /\ BusyNames \subseteq RootNames
    /\ MaxWatchers \in Nat \ {0} /\ Slots \in Nat \ {0}
    /\ MaxHeld \in Nat /\ MaxChanges \in Nat /\ MaxCrawls \in Nat /\ MaxRestarts \in Nat
    /\ Circumstances \subseteq AllCircumstances

VARIABLES
    disk,      \* the entries below the roots: whether each is a folder
    rows,      \* fs_entry
    roots,     \* fs_index_root, all complete: whether each is stale
    watched,   \* the watched roots, least recently touched first
    pending,   \* what the watch loops have handed over and the next drain will take
    batch,     \* what the drain has taken and not applied
    batchGen,  \* the generation it writes
    upserts,   \* what it has collected to write
    crawls,    \* per root: where its crawl is
    clock,     \* crawls begun, which is the time as far as generations go
    changes, restarts
diskVars  == <<disk, changes>>
drainVars == <<pending, batch, batchGen, upserts>>
vars == <<diskVars, rows, roots, watched, drainVars, crawls, clock, restarts>>

Entry  == [folder : BOOLEAN, hidden : {FALSE}]
Roots  == {<<n>> : n \in RootNames}
RootOf(path) == SubSeq(path, 1, 1)
Inside == {p \in Paths : /\ Len(p) > 1 /\ p[1] \in BusyNames
                         /\ \A i \in 2..Len(p) : p[i] \notin RootNames}
Parent(path) == Front(path)

Change == [kind : {"created", "changed", "deleted"}, path : Inside]
          \union [kind : {"renamed"}, path : Inside, old : Inside]

Steps == {"none", "attaching", "queued", "walking", "written", "swept"}
Idle  == [step |-> "none", gen |-> 0, todo |-> {}, found |-> <<>>]

Without(f, gone)    == Restrict(f, DOMAIN f \ gone)
IsWatched(r)        == \E i \in DOMAIN watched : watched[i] = r
Unwatched(r)        == IF IsWatched(r) THEN RemoveAt(watched, CHOOSE i \in DOMAIN watched : watched[i] = r)
                       ELSE watched
Touched(r)          == Append(Unwatched(r), r)
ChildrenOf(dir)     == {p \in DOMAIN disk : Parent(p) = dir}
Below(path)         == {p \in DOMAIN disk : Within(p, path)}
AsRows(paths)       == [p \in paths |-> [folder |-> disk[p], hidden |-> FALSE]]
AreOf(r, path)      == RootOf(path) = r
Over(later, sooner) == [p \in DOMAIN later \union DOMAIN sooner |->
                           IF p \in DOMAIN later THEN later[p] ELSE sooner[p]]
\* What was noticed under r and is not in the rows yet.
Noticed(r) == {c \in Range(pending \o batch) : AreOf(r, c.path)}
Applied(r) == Noticed(r) = {} /\ \A p \in DOMAIN upserts : ~AreOf(r, p)
--------------------------------------------------------------------------------
\* What programs do.  A watch loop hears of what happens below its root; a folder that comes
\* from elsewhere is one event, and so is one that goes.  What a buffer holds when it is lost
\* counts as coming after that.

Heard(event) == IF IsWatched(RootOf(event.path)) THEN <<event>> ELSE <<>>

About(path, change) == \/ Within(path, change.path) \/ Within(change.path, path)
                       \/ change.kind = "renamed" /\ (Within(path, change.old) \/ Within(change.old, path))

MayGo(path)   == "removes in crawl" \in Circumstances \/ crawls[RootOf(path)].step = "none"
MayMove(path) == \/ "moves at once" \in Circumstances
                 \/ \A c \in Noticed(RootOf(path)) : ~About(path, c)

Changed(heard) ==
    /\ changes < MaxChanges
    /\ changes' = changes + 1
    /\ pending' = pending \o heard
    /\ UNCHANGED <<rows, roots, watched, batch, batchGen, upserts, crawls, clock, restarts>>

HasPlace(path) == Parent(path) \in Roots \/ (Parent(path) \in DOMAIN disk /\ disk[Parent(path)])

Creates(path, folder) ==
    /\ path \notin DOMAIN disk /\ HasPlace(path)
    /\ disk' = [p \in DOMAIN disk \union {path} |-> IF p = path THEN folder ELSE disk[p]]
    /\ Changed(Heard([kind |-> "created", path |-> path]))

Writes(path) ==
    /\ path \in DOMAIN disk
    /\ Changed(Heard([kind |-> "changed", path |-> path]))
    /\ UNCHANGED disk

Deletes(path) ==
    /\ path \in DOMAIN disk /\ ChildrenOf(path) = {} /\ MayGo(path)
    /\ disk' = Without(disk, {path})
    /\ Changed(Heard([kind |-> "deleted", path |-> path]))

\* A file that is in the way is removed first.
Moves(old, new) ==
    LET gone   == Below(old)
        landed == {Rebased(p, old, new) : p \in gone}
        moved  == IF RootOf(old) = RootOf(new)
                  THEN Heard([kind |-> "renamed", path |-> new, old |-> old])
                  ELSE Heard([kind |-> "deleted", path |-> old]) \o Heard([kind |-> "created", path |-> new])
    IN  /\ old \in DOMAIN disk /\ HasPlace(new) /\ ~Within(new, old) /\ landed \subseteq Paths
        /\ new \in DOMAIN disk => ~disk[new] /\ ~disk[old]
        /\ \A p \in {old, new} : MayGo(p) /\ MayMove(p)
        /\ disk' = [p \in (DOMAIN disk \ gone) \union landed |->
                       IF p \in landed THEN disk[Rebased(p, new, old)] ELSE disk[p]]
        /\ Changed((IF new \in DOMAIN disk THEN Heard([kind |-> "deleted", path |-> new]) ELSE <<>>) \o moved)

ProgramsAct ==
    \E path \in Inside :
        \/ \E folder \in BOOLEAN : Creates(path, folder)
        \/ Writes(path) \/ Deletes(path)
        \/ \E new \in Inside : Moves(path, new)
--------------------------------------------------------------------------------
\* search, ensure_indexed and the crawl's thread.

\* Mutant: the mark in the database is enough.
FreshByMark(r) == r \in DOMAIN roots /\ ~roots[r]
Fresh(r) == r \in DOMAIN roots /\ ~roots[r] /\ IsWatched(r)

\* A search under r that finds it fresh leaves its watcher touched; any other starts a
\* crawl, unless one is in flight.
Searches(r) ==
    /\ watched' = IF r \in DOMAIN roots /\ ~roots[r] /\ IsWatched(r) THEN Touched(r) ELSE watched
    /\ IF Fresh(r) \/ crawls[r].step # "none" THEN UNCHANGED crawls
       ELSE /\ clock + Cardinality({q \in Roots : crawls[q].step \in {"attaching", "queued"}}) < MaxCrawls
            /\ crawls' = [crawls EXCEPT ![r] = [Idle EXCEPT !.step = "attaching"]]
    /\ UNCHANGED <<diskVars, rows, roots, drainVars, clock, restarts>>

\* Mutant: nobody makes room.
AttachesBeside(r) ==
    /\ crawls[r].step = "attaching"
    /\ crawls' = [crawls EXCEPT ![r].step = "queued"]
    /\ watched' \in {Touched(r), watched}
    /\ UNCHANGED <<diskVars, rows, roots, drainVars, clock, restarts>>

\* IndexWatcherService::watch.  Room is made before it turns out whether r can be watched.
Attaches(r) ==
    /\ crawls[r].step = "attaching"
    /\ crawls' = [crawls EXCEPT ![r].step = "queued"]
    /\ IF IsWatched(r) THEN watched' = Touched(r)
       ELSE LET kept == IF Len(watched) >= MaxWatchers THEN Tail(watched) ELSE watched
            IN  watched' \in {kept, Append(kept, r)}
    /\ UNCHANGED <<diskVars, rows, roots, drainVars, clock, restarts>>

InSlot(r) == crawls[r].step \in {"walking", "written", "swept"}

Begins(r) ==
    /\ crawls[r].step = "queued"
    /\ Cardinality({s \in Roots : InSlot(s)}) < Slots
    /\ "crawls at once" \in Circumstances \/ Applied(r)
    /\ clock' = clock + 1
    /\ crawls' = [crawls EXCEPT ![r] = [step |-> "walking", gen |-> clock', todo |-> {r}, found |-> <<>>]]
    /\ UNCHANGED <<diskVars, rows, roots, watched, drainVars, restarts>>

\* One folder is listed: what it holds is buffered, and its folders are put on the stack.
Lists(r) ==
    /\ crawls[r].step = "walking"
    /\ \E dir \in crawls[r].todo :
        LET held == ChildrenOf(dir)
        IN  crawls' = [crawls EXCEPT ![r].todo = (@ \ {dir}) \union {p \in held : disk[p]},
                                     ![r].found = Over(AsRows(held), @)]
    /\ UNCHANGED <<diskVars, rows, roots, watched, drainVars, clock, restarts>>

WritesFound(r) ==
    /\ crawls[r].step = "walking"
    /\ crawls[r].found # <<>> \/ crawls[r].todo = {}
    /\ rows' = UpsertEntries(rows, crawls[r].found, crawls[r].gen)
    /\ crawls' = [crawls EXCEPT ![r].found = <<>>,
                                ![r].step = IF crawls[r].todo = {} THEN "written" ELSE @]
    /\ UNCHANGED <<diskVars, roots, watched, drainVars, clock, restarts>>

Sweeps(r) ==
    /\ crawls[r].step = "written"
    /\ rows' = SweepVanished(rows, r, crawls[r].gen)
    /\ crawls' = [crawls EXCEPT ![r].step = "swept"]
    /\ UNCHANGED <<diskVars, roots, watched, drainVars, clock, restarts>>

\* The root is told of, and is no longer being crawled; nor is it once a write has failed.
Registers(r) ==
    /\ \/ /\ crawls[r].step = "swept"
          /\ roots' = [s \in DOMAIN roots \union {r} |-> IF s = r THEN FALSE ELSE roots[s]]
       \/ InSlot(r) /\ "crawl fails" \in Circumstances /\ UNCHANGED roots
    /\ crawls' = [crawls EXCEPT ![r] = Idle]
    /\ UNCHANGED <<diskVars, rows, watched, drainVars, clock, restarts>>
--------------------------------------------------------------------------------
\* The watchers and the drain.

Staled(r) == [s \in DOMAIN roots |-> roots[s] \/ s = r]

\* on_watcher_error: the buffer overflowed, or cannot be read.
WatcherFails(r) ==
    /\ IsWatched(r)
    /\ watched' = Unwatched(r)
    /\ roots' = Staled(r)
    /\ UNCHANGED <<diskVars, rows, drainVars, crawls, clock, restarts>>

Drains ==
    /\ batch = <<>> /\ upserts = <<>> /\ pending # <<>>
    /\ batch' = pending /\ pending' = <<>> /\ batchGen' = clock
    /\ UNCHANGED <<diskVars, rows, roots, watched, upserts, crawls, clock, restarts>>

Flushed == UpsertEntries(rows, upserts, batchGen)

\* collect_upsert: the disk is asked what the entry is by now.  A folder that came is walked.
AppliesUpsert(c) ==
    /\ c.kind \in {"created", "changed"}
    /\ IF c.path \in DOMAIN disk
       THEN /\ upserts' = Over(AsRows(IF c.kind = "created" THEN Below(c.path) ELSE {c.path}), upserts)
            /\ UNCHANGED rows
       ELSE rows' = DeleteSubtree(rows, c.path) /\ UNCHANGED upserts

AppliesRemoval(c) ==
    /\ c.kind \in {"deleted", "renamed"}
    /\ upserts' = <<>>
    /\ rows' = IF c.kind = "deleted" THEN DeleteSubtree(Flushed, c.path)
               ELSE Rename(Flushed, c.old, c.path, batchGen)

\* What cannot be applied marks its root stale.
ApplyNext ==
    /\ batch # <<>>
    /\ batch' = Tail(batch)
    /\ \/ (AppliesUpsert(Head(batch)) \/ AppliesRemoval(Head(batch))) /\ UNCHANGED roots
       \/ /\ "drain fails" \in Circumstances
          /\ roots' = Staled(RootOf(Head(batch).path)) /\ UNCHANGED <<rows, upserts>>
    /\ UNCHANGED <<diskVars, watched, pending, batchGen, crawls, clock, restarts>>

FlushesLast ==
    /\ batch = <<>> /\ upserts # <<>>
    /\ rows' = Flushed /\ upserts' = <<>>
    /\ UNCHANGED <<diskVars, roots, watched, pending, batch, batchGen, crawls, clock, restarts>>

\* The app ends, however, and is started again: the database is all that is left.
Restarts ==
    /\ restarts < MaxRestarts /\ restarts' = restarts + 1
    /\ watched' = <<>>
    /\ pending' = <<>> /\ batch' = <<>> /\ upserts' = <<>> /\ batchGen' = 0
    /\ crawls' = [r \in Roots |-> Idle]
    /\ UNCHANGED <<diskVars, rows, roots, clock>>

CrawlActs(r) == Attaches(r) \/ Begins(r) \/ Lists(r) \/ WritesFound(r) \/ Sweeps(r)
                \/ Registers(r)
DrainActs == Drains \/ ApplyNext \/ FlushesLast
Next == \/ ProgramsAct \/ DrainActs \/ Restarts
        \/ \E r \in Roots : Searches(r) \/ CrawlActs(r) \/ WatcherFails(r)

Init ==
    /\ disk \in UNION {[held -> BOOLEAN] : held \in {h \in SUBSET Inside : Cardinality(h) <= MaxHeld}}
    /\ \A p \in DOMAIN disk : HasPlace(p)
    /\ rows = <<>> /\ roots = <<>> /\ watched = <<>>
    /\ pending = <<>> /\ batch = <<>> /\ batchGen = 0 /\ upserts = <<>>
    /\ crawls = [r \in Roots |-> Idle]
    /\ clock = 0 /\ changes = 0 /\ restarts = 0

Spec == Init /\ [][Next]_vars
--------------------------------------------------------------------------------
\* Rows are of entries below roots, no crawl writes a generation that is still to come, and
\* there are never more watchers than MAX_WATCHERS, nor two of one root (watch).
TypeOK ==
    /\ DOMAIN disk \subseteq Inside /\ RowsTypeOK(rows)
    /\ \A p \in DOMAIN rows : \E r \in Roots : Under(p, r)
    /\ DOMAIN roots \subseteq Roots
    /\ IsInjective(watched) /\ Range(watched) \subseteq Roots /\ Len(watched) <= MaxWatchers
    /\ \A r \in Roots : crawls[r].step \in Steps /\ crawls[r].gen <= clock

Settled(r) == Applied(r) /\ crawls[r].step = "none"

\* A root that searches are served from without being crawled again has a row for every entry
\* below it, of its kind, and none besides, once what was noticed has been applied: whatever
\* was dropped, evicted, forgotten by a restart or overtaken has made it not fresh.
FreshIsTrue ==
    \A r \in Roots : Fresh(r) /\ Settled(r) =>
        /\ {p \in DOMAIN rows : Under(p, r)} = {p \in DOMAIN disk : Under(p, r)}
        /\ \A p \in DOMAIN disk : Under(p, r) => rows[p].folder = disk[p]
================================================================================
