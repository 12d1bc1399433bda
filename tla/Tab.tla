---------------------------------- MODULE Tab ----------------------------------
(***************************************************************************)
(* One tab (bb-app/src/browse/tabs.rs): where it is, what it was asked to   *)
(* show, the rows it shows, and the jobs on the worker pool that fetch      *)
(* them.  Each operation is a few short sections under the tab's lock with  *)
(* work between them, on several threads at once: the window's, the one of  *)
(* the file operations, the index's reader, crawls, the delay of a search   *)
(* being typed, and a container being opened.  A job publishes only while   *)
(* the generation it began under is in force (`fresh`); a merge of what the *)
(* watcher noticed only while the rows it compared are the rows (`same`).   *)
(* Generations and versions only grow and are only compared with the one in *)
(* force, so a job keeps the outcome of that comparison.  The histories of  *)
(* Back and Forward are any folder; order, columns and selection are left   *)
(* out.                                                                     *)
(***************************************************************************)
EXTENDS Naturals, FiniteSets

CONSTANTS
    Folders, Nowhere,  \* a tab without a path is nowhere
    Entries, Gone,     \* what a folder may hold; or it is gone
    Queries, Refused,  \* texts that are searches; those the parser refuses
    NoText,
    Callers, Window,   \* threads that operate tabs; the one the user is at
    Slots,             \* bound: jobs at a time
    MaxEvents          \* bound: requests made of the tab, changes made in the folders
                       \* and reports of the volume index, together

ASSUME TabAssumption ==
    /\ Nowhere \notin Folders /\ Window \in Callers
    /\ \A S \in SUBSET Entries : S # Gone
    /\ Queries \intersect Refused = {} /\ NoText \notin Queries \union Refused
    /\ Slots \in Nat /\ MaxEvents \in Nat

VARIABLES
    disk,                               \* each folder's entries, or that it is gone
    path, searchText, globalText, flat, \* where the tab is, and what it was asked for
    typing,                             \* a search waits for the typing to pause
    listing,                            \* the rows, what they answer, and how they are labelled
    flattened, error, loading,          \* what the tab says of them
    rerun,                              \* index_rerun is the generation in force
    opening,                            \* so is the one a container is being read under
    watch, noticed,                     \* the folder watched; a change waits for quiet
    job,                                \* what each slot of the pool does
    at, goal,                           \* where each thread is, and the folder it makes for
    crawls,                             \* folders being crawled in the background
    stays,                              \* history: the tab let the rows be, and said so
    events
asked   == <<searchText, globalText, flat, typing>>
shown   == <<listing, flattened, error, loading>>
watcher == <<watch, noticed>>
threads == <<at, goal>>
vars == <<disk, path, asked, shown, rerun, opening, watcher, job, threads, crawls, stays, events>>

Texts   == Queries \union Refused
Actors  == Callers \union {"typist", "indexer", "crawler", "opener"}
Kinds   == {"Directory", "Search", "Flat"}
Answer  == [kind : Kinds, folder : Folders \union {Nowhere}, text : Texts \union {NoText}, global : BOOLEAN]
Rows    == [Entries -> {0, 1}]
Steps   == {"idle", "look", "check", "path", "watch", "refresh", "mark", "reinstall", "reading"}
Job     == [kind : Kinds \union {"none", "Merge"},
            at : {"start", "ask", "begin", "list", "run", "land"},
            fresh : BOOLEAN, same : BOOLEAN, answer : Answer,
            had : SUBSET Entries, read : (SUBSET Entries) \union {Gone}]

NoAnswer == [kind |-> "Directory", folder |-> Nowhere, text |-> NoText, global |-> FALSE]
Free == [kind |-> "none", at |-> "start", fresh |-> FALSE, same |-> FALSE, answer |-> NoAnswer,
         had |-> {}, read |-> {}]
Places == 1..Slots
RowsOf(S) == [e \in Entries |-> IF e \in S THEN 1 ELSE 0]
Listed(f) == IF f = Nowhere THEN Gone ELSE disk[f]
Held(rows) == {e \in Entries : rows[e] > 0}

active_search_text == IF globalText = NoText THEN searchText ELSE globalText
is_global_search   == globalText # NoText
has_search         == active_search_text # NoText

\* What the tab's fields ask for.
Kind == IF has_search THEN "Search" ELSE IF flat THEN "Flat" ELSE "Directory"
Wanted == [kind |-> Kind, folder |-> path,
           text |-> IF has_search THEN active_search_text ELSE NoText, global |-> is_global_search]

(* ------------------------------- publishing ------------------------------ *)

\* TabData::install and make_listing: a new version, which no comparison was made with.
Publish_SameVersion(jobs, rows, answer, many) ==
    /\ listing' = [rows |-> rows, answer |-> answer, flattened |-> many]
    /\ job' = jobs
Publish(jobs, rows, answer, many) ==
    /\ listing' = [rows |-> rows, answer |-> answer, flattened |-> many]
    /\ job' = [s \in Places |-> [jobs[s] EXCEPT !.same = FALSE]]

Install(jobs, rows, answer, many) == Publish(jobs, rows, answer, many) /\ loading' = FALSE

(* ------------------------------- navigation ------------------------------ *)

Occurs == events < MaxEvents /\ events' = events + 1
Ask(a) == at[a] = "idle" /\ Occurs
Goes(a, step) == at' = [at EXCEPT ![a] = step]
MakesFor(a, step, f) == Goes(a, step) /\ goal' = [goal EXCEPT ![a] = f]

\* Inner::navigate up to the change of path, with up, leave_gone_folders and
\* follow_renamed_folders, which end in it: a folder that is not there is refused.
Navigate(a, f) ==
    /\ Ask(a) /\ path # f /\ disk[f] # Gone
    /\ MakesFor(a, "path", f)
    /\ UNCHANGED <<disk, path, asked, shown, rerun, opening, watcher, job, crawls, stays>>

\* back and forward take the path away before they set the other.
StepHistory(f) ==
    /\ Ask(Window) /\ path # Nowhere
    /\ path' = Nowhere /\ MakesFor(Window, "path", f)
    /\ UNCHANGED <<disk, asked, shown, rerun, opening, watcher, job, crawls, stays>>

\* The first section of set_path_and_load, clear_search_state included.
SetPath(a) ==
    /\ at[a] = "path"
    /\ path' = goal[a] /\ searchText' = NoText /\ globalText' = NoText /\ typing' = FALSE
    /\ watch' = Nowhere /\ noticed' = FALSE
    /\ Goes(a, "watch")
    /\ UNCHANGED <<disk, flat, shown, rerun, opening, job, goal, crawls, stays, events>>

\* start_watching: a folder that cannot be opened has no watcher.
StartWatching(a) ==
    /\ at[a] = "watch"
    /\ watch' = IF disk[goal[a]] = Gone THEN Nowhere ELSE goal[a]
    /\ noticed' = FALSE
    /\ MakesFor(a, "refresh", Nowhere)
    /\ UNCHANGED <<disk, path, asked, shown, rerun, opening, job, crawls, stays, events>>

\* The generation is not bumped: what runs goes on as if it were wanted.
Superseding_NoNewGeneration(s) == [job EXCEPT ![s] = [Free EXCEPT !.kind = Kind, !.fresh = TRUE]]
\* The job of a new generation takes a slot.  Every job begun before is superseded: of one
\* that fetches, all that is left is that it ends, and a question that it asked.
Outdated(j) == IF j.kind \in Kinds THEN [Free EXCEPT !.kind = j.kind, !.at = IF j.at = "ask" THEN "ask" ELSE "start"]
               ELSE [j EXCEPT !.fresh = FALSE]
Superseding(s) ==
    [i \in Places |-> IF i = s THEN [Free EXCEPT !.kind = Kind, !.fresh = TRUE] ELSE Outdated(job[i])]

\* refresh_view, and for a crawl's listener the section that follows it.
RefreshView(a) ==
    /\ at[a] = "refresh"
    /\ Goes(a, IF a = "crawler" THEN "mark" ELSE "idle")
    /\ \/ path = Nowhere /\ UNCHANGED <<job, loading, rerun, opening, stays>>
       \/ /\ path # Nowhere
          /\ \E s \in Places :
                /\ job[s].kind = "none" /\ \A i \in 1..(s - 1) : job[i].kind # "none"
                /\ job' = Superseding(s)
          /\ loading' = TRUE /\ rerun' = FALSE /\ opening' = FALSE /\ stays' = FALSE
    /\ UNCHANGED <<disk, path, asked, listing, flattened, error, watcher, goal, crawls, events>>

(* -------------------------- requests at the window ----------------------- *)

\* set_search: the rows follow once the typing has paused.
SetSearch(text, global) ==
    /\ Ask(Window)
    /\ globalText' = IF global THEN text ELSE IF text # NoText THEN NoText ELSE globalText
    /\ searchText' = IF ~global THEN text ELSE IF text # NoText THEN NoText ELSE searchText
    /\ typing' = TRUE
    /\ UNCHANGED <<disk, path, flat, shown, rerun, opening, watcher, job, threads, crawls, stays>>

\* Between the pause and its refresh there is one at a time.
TypingPaused ==
    /\ typing /\ at["typist"] = "idle"
    /\ typing' = FALSE /\ Goes("typist", "refresh")
    /\ UNCHANGED <<disk, path, searchText, globalText, flat, shown, rerun, opening, watcher, job, goal, crawls,
                   stays, events>>

Cleared == searchText' = NoText /\ globalText' = NoText /\ typing' = FALSE

ClearSearch ==
    /\ Ask(Window) /\ Cleared /\ Goes(Window, "refresh")
    /\ UNCHANGED <<disk, path, flat, shown, rerun, opening, watcher, job, goal, crawls, stays>>

SetFlatView ==
    /\ Ask(Window) /\ flat' = ~flat /\ Goes(Window, "refresh")
    /\ UNCHANGED <<disk, path, searchText, globalText, typing, shown, rerun, opening, watcher, job, goal, crawls,
                   stays>>

\* refresh, and refresh_tabs_showing after an operation.
Refresh(a) ==
    /\ Ask(a) /\ Goes(a, "refresh")
    /\ UNCHANGED <<disk, path, asked, shown, rerun, opening, watcher, job, goal, crawls, stays>>

\* reveal_file, to the folder the file is in.
RevealFile(f) ==
    /\ Ask(Window) /\ Cleared /\ flat' = FALSE /\ MakesFor(Window, "look", f)
    /\ UNCHANGED <<disk, path, shown, rerun, opening, watcher, job, crawls, stays>>

RevealLooks ==
    /\ at[Window] = "look"
    /\ IF path = goal[Window] THEN MakesFor(Window, "refresh", Nowhere)
                              ELSE MakesFor(Window, "check", goal[Window])
    /\ UNCHANGED <<disk, path, asked, shown, rerun, opening, watcher, job, crawls, stays, events>>

\* navigate, called by reveal_file and by a container that was read.
CheckTarget(a) ==
    /\ at[a] = "check"
    /\ \/ path = goal[a] /\ MakesFor(a, "idle", Nowhere) /\ UNCHANGED stays
       \/ path # goal[a] /\ disk[goal[a]] = Gone /\ MakesFor(a, "idle", Nowhere) /\ stays' = (stays \/ a = Window)
       \/ path # goal[a] /\ disk[goal[a]] # Gone /\ MakesFor(a, "path", goal[a]) /\ UNCHANGED stays
    /\ UNCHANGED <<disk, path, asked, shown, rerun, opening, watcher, job, crawls, events>>

\* open_item on an archive: it is read on the pool, and entered if that is still wanted.
OpenArchive(f) ==
    /\ Ask(Window) /\ at["opener"] = "idle" /\ path # Nowhere
    /\ opening' = TRUE /\ loading' = TRUE
    /\ MakesFor("opener", "reading", f)
    /\ UNCHANGED <<disk, path, asked, listing, flattened, error, rerun, watcher, job, crawls, stays>>

ArchiveRead ==
    /\ at["opener"] = "reading"
    /\ \/ ~opening /\ MakesFor("opener", "idle", Nowhere) /\ UNCHANGED <<opening, loading>>
       \/ /\ opening /\ opening' = FALSE /\ loading' = FALSE
          /\ MakesFor("opener", "check", goal["opener"]) \/ MakesFor("opener", "idle", Nowhere)
    /\ UNCHANGED <<disk, path, asked, listing, flattened, error, rerun, watcher, job, crawls, stays, events>>

\* resort, by set_sort or by crossing to thumbnails: the same rows, another version.
Resort ==
    /\ Ask(Window) /\ Publish(job, listing.rows, listing.answer, flattened)
    /\ UNCHANGED <<disk, path, asked, flattened, error, loading, rerun, opening, watcher, threads, crawls, stays>>

(* ------------------------------ the pool's jobs -------------------------- *)

Done(s) == job' = [job EXCEPT ![s] = Free]
\* Found superseded at one of its checks, it ends without a word.
Superseded(s) ==
    /\ job[s].kind \in Kinds /\ ~job[s].fresh /\ job[s].at # "ask"
    /\ Done(s)
    /\ UNCHANGED <<disk, path, asked, shown, rerun, opening, watcher, threads, crawls, stays, events>>

Begins(s, kind, step) == job[s].kind = kind /\ job[s].at = step
InForce(s, kind, step) == Begins(s, kind, step) /\ job[s].fresh

\* load_directory: reset_view_flags and the path, the folder, the rows.
LoadStarts(s) ==
    /\ InForce(s, "Directory", "start")
    /\ flattened' = FALSE /\ error' = FALSE
    /\ job' = [job EXCEPT ![s].at = "list", ![s].answer = [NoAnswer EXCEPT !.folder = path]]
    /\ UNCHANGED <<disk, path, asked, listing, loading, rerun, opening, watcher, threads, crawls, stays, events>>

LoadLists(s) ==
    /\ InForce(s, "Directory", "list")
    /\ job' = [job EXCEPT ![s].at = "land", ![s].read = Listed(job[s].answer.folder)]
    /\ UNCHANGED <<disk, path, asked, shown, rerun, opening, watcher, threads, crawls, stays, events>>

LoadLands(s) ==
    /\ InForce(s, "Directory", "land")
    /\ error' = (error \/ job[s].read = Gone)
    /\ Install([job EXCEPT ![s] = Free], RowsOf(IF job[s].read = Gone THEN {} ELSE job[s].read),
               job[s].answer, flattened)
    /\ UNCHANGED <<disk, path, asked, flattened, rerun, opening, watcher, threads, crawls, stays, events>>

\* run_search takes the text it finds, which may be another than the one it was scheduled for.
SearchStarts(s) ==
    /\ InForce(s, "Search", "start")
    /\ IF ~has_search THEN Done(s) /\ loading' = FALSE
       ELSE /\ job' = [job EXCEPT ![s].at = "begin", ![s].answer = [Wanted EXCEPT !.kind = "Search"]]
            /\ UNCHANGED loading
    /\ UNCHANGED <<disk, path, asked, listing, flattened, error, rerun, opening, watcher, threads, crawls, stays, events>>

SearchRefused(s) ==
    /\ InForce(s, "Search", "begin") /\ job[s].answer.text \in Refused
    /\ Done(s) /\ loading' = FALSE /\ error' = TRUE /\ stays' = TRUE
    /\ UNCHANGED <<disk, path, asked, listing, flattened, rerun, opening, watcher, threads, crawls, events>>

\* run_flat: a tree that may be large is asked about first.
FlatStarts(s) ==
    /\ InForce(s, "Flat", "start")
    /\ \E step \in {"ask", "begin"} :
          job' = [job EXCEPT ![s].at = step, ![s].answer = [NoAnswer EXCEPT !.kind = "Flat", !.folder = path]]
    /\ UNCHANGED <<disk, path, asked, shown, rerun, opening, watcher, threads, crawls, stays, events>>

FlatAccepted(s) ==
    /\ Begins(s, "Flat", "ask") /\ job' = [job EXCEPT ![s].at = "begin"]
    /\ UNCHANGED <<disk, path, asked, shown, rerun, opening, watcher, threads, crawls, stays, events>>

FlatDeclined_StillLoading(s) ==
    /\ Begins(s, "Flat", "ask") /\ Done(s)
    /\ IF job[s].fresh THEN flat' = FALSE /\ stays' = TRUE ELSE UNCHANGED <<flat, stays>>
    /\ UNCHANGED <<disk, path, searchText, globalText, typing, listing, flattened, error, loading, rerun, opening,
                   watcher, threads, crawls, events>>
FlatDeclined(s) ==
    /\ Begins(s, "Flat", "ask") /\ Done(s)
    /\ IF job[s].fresh THEN flat' = FALSE /\ loading' = FALSE /\ stays' = TRUE
                       ELSE UNCHANGED <<flat, loading, stays>>
    /\ UNCHANGED <<disk, path, searchText, globalText, typing, listing, flattened, error, rerun, opening, watcher,
                   threads, crawls, events>>

\* begin_flattened, for a search or a flat view.  A search of a folder whose index is not
\* fresh has it crawled in the background.
BeginFlattened(s) ==
    /\ InForce(s, "Search", "begin") \/ InForce(s, "Flat", "begin")
    /\ job[s].answer.text \notin Refused
    /\ flattened' = TRUE /\ error' = FALSE /\ loading' = TRUE
    /\ Publish([job EXCEPT ![s].at = "run"], RowsOf({}), job[s].answer, TRUE)
    /\ \/ UNCHANGED crawls
       \/ /\ job[s].kind = "Search" /\ ~job[s].answer.global /\ job[s].answer.folder # Nowhere
          /\ crawls' = crawls \union {job[s].answer.folder}
    /\ UNCHANGED <<disk, path, asked, rerun, opening, watcher, threads, stays, events>>

\* append_hits.
HitsArrive(s) ==
    /\ InForce(s, "Search", "run") \/ InForce(s, "Flat", "run")
    /\ \E hits \in (SUBSET (Entries \ Held(listing.rows))) \ {{}} :
          Publish(job, RowsOf(Held(listing.rows) \union hits), listing.answer, flattened)
    /\ loading' = TRUE
    /\ UNCHANGED <<disk, path, asked, flattened, error, rerun, opening, watcher, threads, crawls, stays, events>>

RunLands(s) ==
    /\ InForce(s, "Search", "run") \/ InForce(s, "Flat", "run")
    /\ \E hits \in SUBSET Entries : Install([job EXCEPT ![s] = Free], RowsOf(hits), job[s].answer, flattened)
    /\ UNCHANGED <<disk, path, asked, flattened, error, rerun, opening, watcher, threads, crawls, stays, events>>

\* stop_loading, and the problem a flat listing may end with.
RunFails(s) ==
    /\ InForce(s, "Search", "run") \/ InForce(s, "Flat", "run")
    /\ Done(s) /\ loading' = FALSE
    /\ error' \in {error, error \/ job[s].kind = "Flat"}
    /\ UNCHANGED <<disk, path, asked, listing, flattened, rerun, opening, watcher, threads, crawls, stays, events>>

(* -------------------------------- the watcher ---------------------------- *)

\* Somebody changes a folder, or removes it, or makes it again.
Change(f) ==
    /\ Occurs
    /\ \E now \in ((SUBSET Entries) \union {Gone}) \ {disk[f]} : disk' = [disk EXCEPT ![f] = now]
    /\ noticed' = (noticed \/ watch = f)
    /\ UNCHANGED <<path, asked, shown, rerun, opening, watch, job, threads, crawls, stays>>

Quiet ==
    /\ noticed /\ noticed' = FALSE
    /\ \E s \in Places :
          /\ job[s].kind = "none" /\ \A i \in 1..(s - 1) : job[i].kind # "none"
          /\ job' = [job EXCEPT ![s] = [Free EXCEPT !.kind = "Merge"]]
    /\ UNCHANGED <<disk, path, asked, shown, rerun, opening, watch, threads, crawls, stays, events>>

\* merge_directory: what to compare with, the folder, the rows.
MergeStarts(s) ==
    /\ Begins(s, "Merge", "start")
    /\ IF flattened \/ listing.flattened \/ error \/ path = Nowhere THEN Done(s)
       ELSE job' = [job EXCEPT ![s] = [@ EXCEPT !.at = "list", !.fresh = TRUE, !.same = TRUE,
                        !.answer = [NoAnswer EXCEPT !.folder = path], !.had = Held(listing.rows)]]
    /\ UNCHANGED <<disk, path, asked, shown, rerun, opening, watcher, threads, crawls, stays, events>>

MergeLists(s) ==
    /\ Begins(s, "Merge", "list")
    /\ LET read == Listed(job[s].answer.folder) IN
       IF read \in {Gone, job[s].had} THEN Done(s)
       ELSE job' = [job EXCEPT ![s].at = "land", ![s].read = read]
    /\ UNCHANGED <<disk, path, asked, shown, rerun, opening, watcher, threads, crawls, stays, events>>

\* The rows less those that went, and those that came.
Merged(j) ==
    [e \in Entries |-> IF e \in j.had \ j.read THEN 0
                       ELSE listing.rows[e] + IF e \in j.read \ j.had THEN 1 ELSE 0]

Stands_AnyVersion(j) == j.fresh /\ ~flattened
Stands(j) == j.fresh /\ ~flattened /\ j.same

MergeLands(s) ==
    /\ Begins(s, "Merge", "land")
    /\ IF Stands(job[s]) THEN Publish([job EXCEPT ![s] = Free], Merged(job[s]), job[s].answer, FALSE)
                         ELSE Done(s) /\ UNCHANGED listing
    /\ UNCHANGED <<disk, path, asked, flattened, error, loading, rerun, opening, watcher, threads, crawls, stays,
                   events>>

(* -------------------------- what the indexes report ---------------------- *)

\* mft_index_refreshed: an active search of the whole computer runs again, a plain
\* folder's rows are published again with the sizes there are now.
IndexReports ==
    /\ Occurs /\ at["indexer"] = "idle"
    /\ \/ has_search /\ is_global_search /\ Goes("indexer", "refresh")
       \/ ~has_search /\ ~flattened /\ Goes("indexer", "reinstall")
    /\ UNCHANGED <<disk, path, asked, shown, rerun, opening, watcher, job, goal, crawls, stays>>

SizesInstalled ==
    /\ at["indexer"] = "reinstall" /\ Goes("indexer", "idle")
    /\ Install(job, listing.rows, listing.answer, flattened)
    /\ UNCHANGED <<disk, path, asked, flattened, error, rerun, opening, watcher, goal, crawls, stays, events>>

\* folder_index_refreshed: the search runs again over the index it had made, but not
\* over the index that run has made.
CrawlEnds_AlwaysReruns(f) ==
    /\ f \in crawls /\ at["crawler"] = "idle"
    /\ crawls' = crawls \ {f}
    /\ Goes("crawler", IF path = f /\ has_search /\ ~is_global_search THEN "refresh" ELSE "idle")
    /\ UNCHANGED <<disk, path, asked, shown, rerun, opening, watcher, job, goal, stays, events>>
CrawlEnds(f) ==
    /\ f \in crawls /\ at["crawler"] = "idle"
    /\ crawls' = crawls \ {f}
    /\ Goes("crawler", IF path = f /\ ~rerun /\ has_search /\ ~is_global_search THEN "refresh" ELSE "idle")
    /\ UNCHANGED <<disk, path, asked, shown, rerun, opening, watcher, job, goal, stays, events>>

RerunMarked ==
    /\ at["crawler"] = "mark" /\ Goes("crawler", "idle") /\ rerun' = TRUE
    /\ UNCHANGED <<disk, path, asked, shown, opening, watcher, job, goal, crawls, stays, events>>

(* ------------------------------ specification ---------------------------- *)

Init ==
    /\ disk \in [Folders -> SUBSET Entries]
    /\ path \in Folders /\ watch = path /\ noticed = FALSE
    /\ searchText = NoText /\ globalText = NoText /\ flat = FALSE /\ typing = FALSE
    /\ listing = [rows |-> RowsOf(disk[path]), answer |-> [NoAnswer EXCEPT !.folder = path], flattened |-> FALSE]
    /\ flattened = FALSE /\ error = FALSE /\ loading = FALSE
    /\ rerun = FALSE /\ opening = FALSE /\ crawls = {} /\ stays = FALSE
    /\ job = [s \in Places |-> Free]
    /\ at = [a \in Actors |-> "idle"] /\ goal = [a \in Actors |-> Nowhere]
    /\ events = 0

Operated ==
    \/ \E a \in Callers, f \in Folders : Navigate(a, f)
    \/ \E a \in Callers : Refresh(a)
    \/ \E f \in Folders : StepHistory(f) \/ RevealFile(f) \/ OpenArchive(f)
    \/ \E text \in Texts \union {NoText}, global \in BOOLEAN : SetSearch(text, global)
    \/ ClearSearch \/ SetFlatView \/ Resort

ThreadStep(a) ==
    \/ SetPath(a) \/ StartWatching(a) \/ RefreshView(a) \/ CheckTarget(a)
    \/ a = Window /\ RevealLooks
    \/ a = "typist" /\ TypingPaused
    \/ a = "indexer" /\ SizesInstalled
    \/ a = "opener" /\ ArchiveRead
    \/ a = "crawler" /\ (RerunMarked \/ \E f \in Folders : CrawlEnds(f))

JobStep(s) ==
    \/ Superseded(s)
    \/ LoadStarts(s) \/ LoadLists(s) \/ LoadLands(s)
    \/ SearchStarts(s) \/ SearchRefused(s) \/ FlatStarts(s)
    \/ BeginFlattened(s) \/ HitsArrive(s) \/ RunLands(s) \/ RunFails(s)
    \/ MergeStarts(s) \/ MergeLists(s) \/ MergeLands(s)

FlatAnswered(s) == FlatAccepted(s) \/ FlatDeclined(s)

Next ==
    \/ Operated
    \/ \E a \in Actors : ThreadStep(a)
    \/ \E s \in Places : JobStep(s) \/ FlatAnswered(s)
    \/ \E f \in Folders : Change(f)
    \/ Quiet \/ IndexReports

Spec == Init /\ [][Next]_vars

\* Threads run, and so do the workers of the pool; a pause in typing or in the changes of
\* a folder comes.  Nothing is asked of the user or of programs.
FairSpec ==
    /\ Spec
    /\ \A a \in Actors : WF_vars(ThreadStep(a))
    /\ \A s \in Places : WF_vars(JobStep(s))
    /\ WF_vars(Quiet)

(* -------------------------------- properties ----------------------------- *)

\* What the variables may hold; no entry is listed twice (the comment in merge_directory:
\* "applying it to the new ones would duplicate entries").
TypeOK ==
    /\ disk \in [Folders -> (SUBSET Entries) \union {Gone}]
    /\ path \in Folders \union {Nowhere} /\ watch \in Folders \union {Nowhere}
    /\ searchText \in Texts \union {NoText} /\ globalText \in Texts \union {NoText}
    /\ listing \in [rows : Rows, answer : Answer, flattened : BOOLEAN]
    /\ flat \in BOOLEAN /\ typing \in BOOLEAN /\ noticed \in BOOLEAN
    /\ flattened \in BOOLEAN /\ error \in BOOLEAN /\ loading \in BOOLEAN
    /\ rerun \in BOOLEAN /\ opening \in BOOLEAN /\ stays \in BOOLEAN
    /\ job \in [Places -> Job]
    /\ at \in [Actors -> Steps] /\ goal \in [Actors -> Folders \union {Nowhere}]
    /\ crawls \subseteq Folders
    /\ events \in 0..MaxEvents

\* A flat view's question is on the screen.
Asking == \E s \in Places : Begins(s, "Flat", "ask")

\* Nothing is under way for the tab on any thread.
AtRest ==
    /\ \A s \in Places : job[s].kind = "none"
    /\ \A a \in Actors : at[a] = "idle"
    /\ ~typing /\ ~noticed /\ crawls = {}

\* The activity bar goes out: jobs that are superseded, refused, declined or fail, containers
\* that are read and sizes that arrive raise and lower is_loading in any order, and it is not
\* left raised when nothing is going to lower it.
RestIsNotLoading == AtRest => ~loading

\* Whatever navigations, searches and switches of the view overlapped, on whatever threads,
\* the rows the tab comes to rest with are those that its path and its fields ask for, unless
\* it told the user that it leaves them: a query refused, a flat view declined, a file whose
\* folder is not there.
RestShowsWhatWasAsked ==
    AtRest /\ path # Nowhere /\ ~stays =>
        listing.answer = Wanted /\ listing.flattened = (Wanted.kind # "Directory")

\* A merge that takes leaves the rows exactly as it read the folder, although it applies a
\* difference that it worked out without the lock.
MergeIsWhole ==
    [][\A s \in Places :
          job[s].kind = "Merge" /\ job'[s].kind = "none" /\ listing' # listing
          => listing'.rows = RowsOf(job[s].read)]_vars

\* A tab nobody asks anything more of comes to rest: in particular a search over a folder
\* that nothing keeps indexed is not run again by the very crawl it set off ("or a root
\* nothing watches (so never fresh) would search and crawl for ever", app.rs).
SettlesDown == []<>(AtRest \/ Asking)
================================================================================
