------------------------------- MODULE Tab_proofs -------------------------------
(***************************************************************************)
(* For any folders, entries, texts, callers, and any number of jobs: what   *)
(* TLC checks of the tab's invariants on a small instance.                  *)
(***************************************************************************)
EXTENDS Tab, TLAPS

\* A merge whose rows are still the rows has compared with them.
Compared ==
    \A s \in Places : job[s].kind = "Merge" /\ job[s].same =>
        job[s].had = Held(listing.rows)
\* A merge that has read the folder found it.
Found == \A s \in Places : job[s].kind = "Merge" /\ job[s].at = "land" => job[s].read # Gone
MergeInv == TypeOK /\ Compared /\ Found

LEMMA FreeIsJob == Free \in Job /\ \A k \in Kinds \union {"none", "Merge"}, b \in BOOLEAN :
    [Free EXCEPT !.kind = k, !.fresh = b] \in Job /\ [Free EXCEPT !.kind = k] \in Job
<1>1. NoAnswer \in Answer
    BY DEF NoAnswer, Answer, Kinds
<1> QED
    BY <1>1 DEF Free, Job, Kinds

LEMMA OutdatedIsJob == ASSUME NEW j \in Job PROVE Outdated(j) \in Job
<1>1. CASE j.kind \in Kinds
  <2>1. \A step \in {"ask", "start"} : [Free EXCEPT !.kind = j.kind, !.at = step] \in Job
    BY <1>1, FreeIsJob DEF Job, Free
  <2>2. (IF j.at = "ask" THEN "ask" ELSE "start") \in {"ask", "start"}
    OBVIOUS
  <2> QED
    BY <1>1, <2>1, <2>2, Zenon DEF Outdated
<1>2. CASE j.kind \notin Kinds
    BY <1>2 DEF Outdated, Job
<1> QED
    BY <1>1, <1>2

LEMMA RowsAreRows == \A S : RowsOf(S) \in Rows
BY DEF RowsOf, Rows

LEMMA Asked == ASSUME TypeOK PROVE Kind \in Kinds /\ Wanted \in Answer
<1>1. active_search_text \in Texts \union {NoText} /\ is_global_search \in BOOLEAN /\ has_search \in BOOLEAN
    BY DEF TypeOK, active_search_text, is_global_search, has_search
<1>2. Kind \in Kinds
    BY <1>1 DEF Kind, Kinds
<1>3. (IF has_search THEN active_search_text ELSE NoText) \in Texts \union {NoText}
    BY <1>1
<1> QED
    BY <1>1, <1>2, <1>3 DEF Wanted, Answer, TypeOK

LEMMA PublishTyped ==
    ASSUME NEW jobs \in [Places -> Job], NEW rows \in Rows, NEW answer \in Answer, NEW many \in BOOLEAN,
           Publish(jobs, rows, answer, many)
    PROVE  /\ job' \in [Places -> Job] /\ listing' \in [rows : Rows, answer : Answer, flattened : BOOLEAN]
           /\ listing'.rows = rows /\ listing'.answer = answer /\ listing'.flattened = many
           /\ \A s \in Places : job'[s] = [jobs[s] EXCEPT !.same = FALSE]
BY DEF Publish, Job

LEMMA TypeInit == Init => MergeInv
<1> SUFFICES ASSUME Init PROVE MergeInv
    OBVIOUS
<1>1. job \in [Places -> Job] /\ \A s \in Places : job[s].kind = "none"
    BY FreeIsJob DEF Init, Free
<1>2. NoAnswer \in Answer /\ [NoAnswer EXCEPT !.folder = path] \in Answer
    BY DEF NoAnswer, Answer, Kinds, Init
<1>3. listing \in [rows : Rows, answer : Answer, flattened : BOOLEAN]
    BY <1>2, RowsAreRows DEF Init
<1>4. events \in 0..MaxEvents
    BY TabAssumption DEF Init
<1>5. at \in [Actors -> Steps] /\ goal \in [Actors -> Folders \union {Nowhere}]
    BY DEF Init, Steps
<1> QED
    BY <1>1, <1>3, <1>4, <1>5 DEF Init, MergeInv, TypeOK, Compared, Found

\* What leaves the rows and the jobs alone keeps what is said of merges.
LEMMA Untouched ==
    ASSUME MergeInv, UNCHANGED <<listing, job>>
    PROVE  Compared' /\ Found'
BY DEF MergeInv, Compared, Found, Held

LEMMA Counted == ASSUME TypeOK, Occurs PROVE events' \in 0..MaxEvents
BY TabAssumption DEF TypeOK, Occurs

LEMMA Moved ==
    ASSUME TypeOK, NEW a \in Actors, NEW step \in Steps, NEW f \in Folders \union {Nowhere}
    PROVE  /\ Goes(a, step) => at' \in [Actors -> Steps]
           /\ MakesFor(a, step, f) => at' \in [Actors -> Steps] /\ goal' \in [Actors -> Folders \union {Nowhere}]
BY DEF TypeOK, Goes, MakesFor

LEMMA Threads ==
    /\ Callers \subseteq Actors /\ {Window, "typist", "indexer", "crawler", "opener"} \subseteq Actors
    /\ \A step \in {"idle", "look", "check", "path", "watch", "refresh", "mark", "reinstall", "reading"} : step \in Steps
BY TabAssumption DEF Actors, Steps

LEMMA TypeOfRequests == ASSUME MergeInv, Operated PROVE MergeInv'
<1> USE DEF MergeInv
<1>1. ASSUME NEW a \in Callers, NEW f \in Folders, Navigate(a, f) PROVE MergeInv'
    BY <1>1, Untouched, Counted, Moved DEF Navigate, Ask, TypeOK, Actors, Steps, asked, shown, watcher, threads
<1>2. ASSUME NEW a \in Callers, Refresh(a) PROVE MergeInv'
    BY <1>2, Untouched, Counted, Moved DEF Refresh, Ask, TypeOK, Actors, Steps, asked, shown, watcher, threads
<1>3. ASSUME NEW f \in Folders, StepHistory(f) PROVE MergeInv'
    BY <1>3, Untouched, Counted, Moved, TabAssumption
    DEF StepHistory, Ask, TypeOK, Actors, Steps, asked, shown, watcher, threads
<1>4. ASSUME NEW f \in Folders, RevealFile(f) PROVE MergeInv'
    BY <1>4, Untouched, Counted, Moved, TabAssumption
    DEF RevealFile, Ask, Cleared, TypeOK, Actors, Steps, asked, shown, watcher, threads
<1>5. ASSUME NEW f \in Folders, OpenArchive(f) PROVE MergeInv'
  <2>1. at' \in [Actors -> Steps] /\ goal' \in [Actors -> Folders \union {Nowhere}] /\ events' \in 0..MaxEvents
    BY <1>5, Threads, Counted, Moved DEF OpenArchive, Ask
  <2> QED
    BY <1>5, <2>1, Untouched DEF OpenArchive, TypeOK, asked, shown, watcher, threads
<1>6. ASSUME NEW text \in Texts \union {NoText}, NEW global \in BOOLEAN, SetSearch(text, global) PROVE MergeInv'
    BY <1>6, Untouched, Counted DEF SetSearch, Ask, TypeOK, asked, shown, watcher, threads
<1>7. CASE ClearSearch
  <2>1. at' \in [Actors -> Steps] /\ events' \in 0..MaxEvents
    BY <1>7, Threads, Counted, Moved DEF ClearSearch, Ask
  <2> QED
    BY <1>7, <2>1, Untouched DEF ClearSearch, Cleared, TypeOK, asked, shown, watcher, threads
<1>8. CASE SetFlatView
    BY <1>8, Untouched, Counted, Moved, TabAssumption
    DEF SetFlatView, Ask, TypeOK, Actors, Steps, asked, shown, watcher, threads
<1>9. CASE Resort
  <2>1. /\ job' \in [Places -> Job] /\ listing' \in [rows : Rows, answer : Answer, flattened : BOOLEAN]
        /\ \A s \in Places : job'[s] = [job[s] EXCEPT !.same = FALSE]
    BY <1>9, PublishTyped DEF Resort, TypeOK
  <2>2. Compared' /\ Found'
    BY <2>1 DEF Compared, Found, TypeOK, Job
  <2> QED
    BY <1>9, <2>1, <2>2, Counted DEF Resort, Ask, TypeOK, asked, shown, watcher, threads
<1> QED
    BY <1>1, <1>2, <1>3, <1>4, <1>5, <1>6, <1>7, <1>8, <1>9 DEF Operated

LEMMA TypeOfThreads == ASSUME MergeInv, NEW a \in Actors, ThreadStep(a) PROVE MergeInv'
<1> USE DEF MergeInv
<1>1. CASE SetPath(a)
  <2>1. at' \in [Actors -> Steps] /\ path' \in Folders \union {Nowhere}
    BY <1>1, Threads, Moved DEF SetPath, TypeOK
  <2> QED
    BY <1>1, <2>1, Untouched DEF SetPath, TypeOK, shown, watcher
<1>2. CASE StartWatching(a)
  <2>1. /\ at' \in [Actors -> Steps] /\ goal' \in [Actors -> Folders \union {Nowhere}]
        /\ watch' \in Folders \union {Nowhere}
    BY <1>2, Threads, Moved DEF StartWatching, TypeOK
  <2>2. Compared' /\ Found'
    BY <1>2, Untouched DEF StartWatching, shown
  <2> QED
    BY <1>2, <2>1, <2>2 DEF StartWatching, TypeOK, asked, shown
<1>3. CASE RefreshView(a)
  <2>1. at' \in [Actors -> Steps]
    BY <1>3, Threads, Moved DEF RefreshView
  <2>2. CASE UNCHANGED <<job, loading, rerun, opening, stays>>
    BY <1>3, <2>1, <2>2, Untouched DEF RefreshView, TypeOK, asked, watcher
  <2>3. ASSUME NEW s \in Places, job' = Superseding(s), loading' = TRUE, rerun' = FALSE, opening' = FALSE,
               stays' = FALSE
        PROVE  MergeInv'
    <3>1. \A i \in Places : /\ Superseding(s)[i] \in Job
                            /\ Superseding(s)[i].kind = "Merge" =>
                                  Superseding(s)[i] = [job[i] EXCEPT !.fresh = FALSE]
      <4> SUFFICES ASSUME NEW i \in Places
                   PROVE  /\ Superseding(s)[i] \in Job
                          /\ Superseding(s)[i].kind = "Merge" =>
                                Superseding(s)[i] = [job[i] EXCEPT !.fresh = FALSE]
        OBVIOUS
      <4>1. CASE i = s
        BY <4>1, FreeIsJob, Asked DEF Superseding, Free, Kinds
      <4>2. CASE i # s /\ job[i].kind \in Kinds
        <5>1. Superseding(s)[i] = Outdated(job[i]) /\ job[i] \in Job
          BY <4>2 DEF Superseding, TypeOK
        <5>2. Outdated(job[i]).kind = job[i].kind /\ job[i].kind # "Merge"
          BY <4>2 DEF Outdated, Free, Kinds
        <5> QED
          BY <5>1, <5>2, OutdatedIsJob
      <4>3. CASE i # s /\ job[i].kind \notin Kinds
        <5>1. Superseding(s)[i] = [job[i] EXCEPT !.fresh = FALSE]
          BY <4>3 DEF Superseding, Outdated
        <5>2. job[i] \in Job
          BY DEF TypeOK
        <5> QED
          BY <5>1, <5>2 DEF Job
      <4> QED
        BY <4>1, <4>2, <4>3
    <3>2. job' \in [Places -> Job]
      BY <2>3, <3>1 DEF Superseding
    <3>3. \A i \in Places : /\ job'[i].kind = "Merge" => job'[i] = [job[i] EXCEPT !.fresh = FALSE]
                            /\ job[i] \in Job /\ listing' = listing
      BY <1>3, <2>3, <3>1 DEF RefreshView, TypeOK
    <3>4. ASSUME NEW i \in Places, job'[i].kind = "Merge"
          PROVE  /\ job[i].kind = "Merge" /\ job'[i].same = job[i].same /\ job'[i].had = job[i].had
                 /\ job'[i].at = job[i].at /\ job'[i].read = job[i].read
      BY <3>3, <3>4 DEF Job
    <3>5. Held(listing.rows)' = Held(listing.rows)
      BY <1>3 DEF RefreshView, Held
    <3>6. Compared' /\ Found'
      BY <3>4, <3>5 DEF Compared, Found
    <3> QED
      BY <1>3, <2>1, <2>3, <3>2, <3>6 DEF RefreshView, TypeOK, asked, watcher
  <2>4. CASE path = Nowhere /\ UNCHANGED <<job, loading, rerun, opening, stays>>
    BY <2>2, <2>4
  <2> QED
    BY <1>3, <2>3, <2>4, Zenon DEF RefreshView
<1>4. CASE CheckTarget(a)
  <2>1. at' \in [Actors -> Steps] /\ goal' \in [Actors -> Folders \union {Nowhere}] /\ stays' \in BOOLEAN
    BY <1>4, Threads, Moved DEF CheckTarget, TypeOK
  <2> QED
    BY <1>4, <2>1, Untouched DEF CheckTarget, TypeOK, asked, shown, watcher
<1>5. CASE RevealLooks
  <2>1. at' \in [Actors -> Steps] /\ goal' \in [Actors -> Folders \union {Nowhere}]
    BY <1>5, Threads, Moved DEF RevealLooks, TypeOK
  <2> QED
    BY <1>5, <2>1, Untouched DEF RevealLooks, TypeOK, asked, shown, watcher
<1>6. CASE TypingPaused
  <2>1. at' \in [Actors -> Steps]
    BY <1>6, Threads, Moved DEF TypingPaused
  <2>2. Compared' /\ Found'
    BY <1>6, Untouched DEF TypingPaused, shown
  <2>3. /\ UNCHANGED <<disk, path, searchText, globalText, flat, listing, flattened, error, loading, rerun, opening>>
        /\ UNCHANGED <<watch, noticed, job, goal, crawls, stays, events>> /\ typing' = FALSE
    BY <1>6 DEF TypingPaused, shown, watcher
  <2>4. flat' \in BOOLEAN /\ typing' \in BOOLEAN /\ noticed' \in BOOLEAN /\ flattened' \in BOOLEAN /\ error' \in BOOLEAN
        /\ loading' \in BOOLEAN /\ rerun' \in BOOLEAN /\ opening' \in BOOLEAN /\ stays' \in BOOLEAN
    BY <2>3 DEF TypeOK
  <2> QED
    BY <2>1, <2>2, <2>3, <2>4 DEF TypeOK
<1>7. CASE SizesInstalled
  <2>1. /\ job' \in [Places -> Job] /\ listing' \in [rows : Rows, answer : Answer, flattened : BOOLEAN]
        /\ \A s \in Places : job'[s] = [job[s] EXCEPT !.same = FALSE]
    BY <1>7, PublishTyped DEF SizesInstalled, Install, TypeOK
  <2>2. Compared' /\ Found'
    BY <2>1 DEF Compared, Found, TypeOK, Job
  <2>3. at' \in [Actors -> Steps] /\ loading' \in BOOLEAN
    BY <1>7, Threads, Moved DEF SizesInstalled, Install
  <2> QED
    BY <1>7, <2>1, <2>2, <2>3 DEF SizesInstalled, TypeOK, asked, watcher
<1>8. CASE ArchiveRead
  <2>1. /\ at' \in [Actors -> Steps] /\ goal' \in [Actors -> Folders \union {Nowhere}]
        /\ opening' \in BOOLEAN /\ loading' \in BOOLEAN
    BY <1>8, Threads, Moved DEF ArchiveRead, TypeOK
  <2> QED
    BY <1>8, <2>1, Untouched DEF ArchiveRead, TypeOK, asked, watcher
<1>9. CASE RerunMarked
  <2>1. at' \in [Actors -> Steps]
    BY <1>9, Threads, Moved DEF RerunMarked
  <2> QED
    BY <1>9, <2>1, Untouched DEF RerunMarked, TypeOK, asked, shown, watcher
<1>10. ASSUME NEW f \in Folders, CrawlEnds(f) PROVE MergeInv'
  <2>1. at' \in [Actors -> Steps]
    BY <1>10, Threads, Moved DEF CrawlEnds
  <2> QED
    BY <1>10, <2>1, Untouched DEF CrawlEnds, TypeOK, asked, shown, watcher
<1> QED
    BY <1>1, <1>2, <1>3, <1>4, <1>5, <1>6, <1>7, <1>8, <1>9, <1>10 DEF ThreadStep

\* A step of the job in one slot, with the rows left alone.
LEMMA OneSlot ==
    ASSUME MergeInv, NEW s \in Places, NEW j \in Job, job' = [job EXCEPT ![s] = j], UNCHANGED listing,
           j.kind = "Merge" => /\ j.same => j.had = Held(listing.rows)
                               /\ j.at = "land" => j.read # Gone
    PROVE  job' \in [Places -> Job] /\ Compared' /\ Found'
<1>1. job' \in [Places -> Job]
    BY DEF MergeInv, TypeOK
<1>2. \A i \in Places : job'[i] = j \/ job'[i] = job[i]
    BY DEF MergeInv, TypeOK
<1>3. Held(listing.rows)' = Held(listing.rows)
    BY DEF Held
<1> QED
    BY <1>1, <1>2, <1>3 DEF MergeInv, Compared, Found

\* One that publishes, and leaves no merge in its slot that has anything to apply.
LEMMA OneSlotPublishes ==
    ASSUME MergeInv, NEW s \in Places, NEW j \in Job, j.kind # "Merge",
           NEW rows \in Rows, NEW answer \in Answer, NEW many \in BOOLEAN,
           Publish([job EXCEPT ![s] = j], rows, answer, many)
    PROVE  /\ job' \in [Places -> Job] /\ Compared' /\ Found'
           /\ listing' \in [rows : Rows, answer : Answer, flattened : BOOLEAN]
<1>1. [job EXCEPT ![s] = j] \in [Places -> Job]
    BY DEF MergeInv, TypeOK
<1>2. /\ job' \in [Places -> Job] /\ listing' \in [rows : Rows, answer : Answer, flattened : BOOLEAN]
      /\ \A i \in Places : job'[i] = [[job EXCEPT ![s] = j][i] EXCEPT !.same = FALSE]
    BY <1>1 DEF Publish, Job
<1>3. ASSUME NEW i \in Places
      PROVE  job'[i].same = FALSE /\ (job'[i].kind = "Merge" =>
                job[i].kind = "Merge" /\ job'[i].at = job[i].at /\ job'[i].read = job[i].read)
  <2>1. CASE i = s
      BY <1>2, <2>1 DEF MergeInv, TypeOK, Job
  <2>2. CASE i # s
    <3>1. job'[i] = [job[i] EXCEPT !.same = FALSE] /\ job[i] \in Job
      BY <1>2, <2>2 DEF MergeInv, TypeOK
    <3> QED
      BY <3>1 DEF Job
  <2> QED
      BY <2>1, <2>2
<1> QED
    BY <1>2, <1>3 DEF MergeInv, Compared, Found

LEMMA TypeOfLoads ==
    ASSUME MergeInv, NEW s \in Places, Superseded(s) \/ LoadStarts(s) \/ LoadLists(s) \/ LoadLands(s)
    PROVE  MergeInv'
<1> USE DEF MergeInv
<1>1. job[s] \in Job /\ Free \in Job /\ Free.kind = "none" /\ NoAnswer \in Answer
    BY FreeIsJob DEF TypeOK, Free, NoAnswer, Answer, Kinds
<1>2. CASE Superseded(s)
  <2>1. job' \in [Places -> Job] /\ Compared' /\ Found'
    BY <1>1, <1>2, OneSlot DEF Superseded, Done, shown
  <2> QED
    BY <1>2, <2>1 DEF Superseded, TypeOK, asked, shown, watcher, threads
<1>3. CASE LoadStarts(s)
  <2> DEFINE j == [job[s] EXCEPT !.at = "list", !.answer = [NoAnswer EXCEPT !.folder = path]]
  <2>1. [NoAnswer EXCEPT !.folder = path] \in Answer
    BY DEF NoAnswer, Answer, Kinds, TypeOK
  <2>2. j \in Job /\ j.kind # "Merge"
    BY <1>1, <1>3, <2>1 DEF LoadStarts, InForce, Begins, Job
  <2>3. job' = [job EXCEPT ![s] = j]
    BY <1>3 DEF LoadStarts, TypeOK
  <2>4. job' \in [Places -> Job] /\ Compared' /\ Found'
    BY <1>3, <2>2, <2>3, OneSlot DEF LoadStarts
  <2> QED
    BY <1>3, <2>4 DEF LoadStarts, TypeOK, asked, watcher, threads
<1>4. CASE LoadLists(s)
  <2> DEFINE j == [job[s] EXCEPT !.at = "land", !.read = Listed(job[s].answer.folder)]
  <2>1. Listed(job[s].answer.folder) \in (SUBSET Entries) \union {Gone}
    BY <1>1 DEF Listed, Job, Answer, TypeOK
  <2>2. j \in Job /\ j.kind # "Merge"
    BY <1>1, <1>4, <2>1 DEF LoadLists, InForce, Begins, Job
  <2>3. job' = [job EXCEPT ![s] = j]
    BY <1>4 DEF LoadLists, TypeOK
  <2>4. job' \in [Places -> Job] /\ Compared' /\ Found'
    BY <1>4, <2>2, <2>3, OneSlot DEF LoadLists, shown
  <2> QED
    BY <1>4, <2>4 DEF LoadLists, TypeOK, asked, shown, watcher, threads
<1>5. CASE LoadLands(s)
  <2>1. /\ job' \in [Places -> Job] /\ Compared' /\ Found'
        /\ listing' \in [rows : Rows, answer : Answer, flattened : BOOLEAN]
    <3> DEFINE rows == RowsOf(IF job[s].read = Gone THEN {} ELSE job[s].read)
    <3>1. Publish([job EXCEPT ![s] = Free], rows, job[s].answer, flattened)
      BY <1>5 DEF LoadLands, Install
    <3>2. rows \in Rows /\ job[s].answer \in Answer /\ flattened \in BOOLEAN
      BY <1>1, RowsAreRows DEF TypeOK, Job
    <3> HIDE DEF rows
    <3> QED
      BY <1>1, <3>1, <3>2, OneSlotPublishes
  <2> QED
    BY <1>5, <2>1 DEF LoadLands, Install, TypeOK, asked, watcher, threads
<1> QED
    BY <1>2, <1>3, <1>4, <1>5

LEMMA TypeOfRuns ==
    ASSUME MergeInv, NEW s \in Places,
           \/ SearchStarts(s) \/ SearchRefused(s) \/ FlatStarts(s) \/ FlatAnswered(s)
           \/ BeginFlattened(s) \/ HitsArrive(s) \/ RunLands(s) \/ RunFails(s)
    PROVE  MergeInv'
<1> USE DEF MergeInv
<1>1. job[s] \in Job /\ Free \in Job /\ Free.kind = "none" /\ NoAnswer \in Answer
    BY FreeIsJob DEF TypeOK, Free, NoAnswer, Answer, Kinds
<1>2. Done(s) /\ UNCHANGED listing => job' \in [Places -> Job] /\ Compared' /\ Found'
    BY <1>1, OneSlot DEF Done
<1>3. CASE SearchStarts(s)
  <2> DEFINE j == [job[s] EXCEPT !.at = "begin", !.answer = [Wanted EXCEPT !.kind = "Search"]]
  <2>1. j \in Job /\ j.kind # "Merge"
    <3>1. [Wanted EXCEPT !.kind = "Search"] \in Answer
      BY Asked DEF Answer, Kinds
    <3> QED
      BY <1>1, <1>3, <3>1 DEF SearchStarts, InForce, Begins, Job
  <2>2. CASE Done(s) /\ loading' = FALSE
    <3>1. job' \in [Places -> Job] /\ Compared' /\ Found'
      BY <1>2, <1>3, <2>2 DEF SearchStarts
    <3>2. /\ UNCHANGED <<disk, path, searchText, globalText, flat, typing, listing, flattened, error, rerun, opening>>
          /\ UNCHANGED <<watch, noticed, at, goal, crawls, stays, events>> /\ loading' = FALSE
      BY <1>3, <2>2 DEF SearchStarts, asked, watcher, threads
    <3>3. error' \in BOOLEAN /\ flat' \in BOOLEAN /\ typing' \in BOOLEAN /\ noticed' \in BOOLEAN
          /\ flattened' \in BOOLEAN /\ loading' \in BOOLEAN /\ rerun' \in BOOLEAN /\ opening' \in BOOLEAN
          /\ stays' \in BOOLEAN
      BY <3>2 DEF TypeOK
    <3> QED
      BY <3>1, <3>2, <3>3 DEF TypeOK
  <2>3. CASE UNCHANGED loading /\ job' = [job EXCEPT ![s] = j]
    <3>1. job' \in [Places -> Job] /\ Compared' /\ Found'
      BY <1>3, <2>1, <2>3, OneSlot DEF SearchStarts
    <3> QED
      BY <1>3, <2>3, <3>1 DEF SearchStarts, TypeOK, asked, watcher, threads
  <2>4. job' = [job EXCEPT ![s].at = "begin", ![s].answer = [Wanted EXCEPT !.kind = "Search"]]
        => job' = [job EXCEPT ![s] = j]
    BY DEF TypeOK
  <2> QED
    BY <1>3, <2>2, <2>3, <2>4 DEF SearchStarts
<1>4. CASE SearchRefused(s)
  <2>1. job' \in [Places -> Job] /\ Compared' /\ Found'
    BY <1>2, <1>4 DEF SearchRefused
  <2> QED
    BY <1>4, <2>1 DEF SearchRefused, TypeOK, asked, watcher, threads
<1>5. CASE FlatStarts(s)
  <2>1. PICK step \in {"ask", "begin"} :
           job' = [job EXCEPT ![s].at = step, ![s].answer = [NoAnswer EXCEPT !.kind = "Flat", !.folder = path]]
    BY <1>5 DEF FlatStarts
  <2> DEFINE j == [job[s] EXCEPT !.at = step, !.answer = [NoAnswer EXCEPT !.kind = "Flat", !.folder = path]]
  <2>2. [NoAnswer EXCEPT !.kind = "Flat", !.folder = path] \in Answer
    BY DEF NoAnswer, Answer, Kinds, TypeOK
  <2>3. j \in Job /\ j.kind # "Merge"
    BY <1>1, <1>5, <2>2 DEF FlatStarts, InForce, Begins, Job
  <2>4. job' = [job EXCEPT ![s] = j]
    BY <2>1 DEF TypeOK
  <2>5. job' \in [Places -> Job] /\ Compared' /\ Found'
    BY <1>5, <2>3, <2>4, OneSlot DEF FlatStarts, shown
  <2> QED
    BY <1>5, <2>5 DEF FlatStarts, TypeOK, asked, shown, watcher, threads
<1>6. CASE FlatAccepted(s)
  <2> DEFINE j == [job[s] EXCEPT !.at = "begin"]
  <2>1. j \in Job /\ j.kind # "Merge" /\ job' = [job EXCEPT ![s] = j]
    BY <1>1, <1>6 DEF FlatAccepted, Begins, Job, TypeOK
  <2>2. job' \in [Places -> Job] /\ Compared' /\ Found'
    BY <1>6, <2>1, OneSlot DEF FlatAccepted, shown
  <2> QED
    BY <1>6, <2>2 DEF FlatAccepted, TypeOK, asked, shown, watcher, threads
<1>7. CASE FlatDeclined(s)
  <2>1. job' \in [Places -> Job] /\ Compared' /\ Found'
    BY <1>2, <1>7 DEF FlatDeclined
  <2>2. flat' \in BOOLEAN /\ loading' \in BOOLEAN /\ stays' \in BOOLEAN
    BY <1>7 DEF FlatDeclined, TypeOK
  <2> QED
    BY <1>7, <2>1, <2>2 DEF FlatDeclined, TypeOK, asked, watcher, threads
<1>8. CASE BeginFlattened(s)
  <2> DEFINE j == [job[s] EXCEPT !.at = "run"]
  <2>1. j \in Job /\ j.kind # "Merge" /\ [job EXCEPT ![s].at = "run"] = [job EXCEPT ![s] = j]
    BY <1>1, <1>8 DEF BeginFlattened, InForce, Begins, Job, TypeOK
  <2>2. RowsOf({}) \in Rows /\ job[s].answer \in Answer
    BY <1>1, RowsAreRows DEF Job
  <2>3. Publish([job EXCEPT ![s] = j], RowsOf({}), job[s].answer, TRUE)
    BY <1>8, <2>1 DEF BeginFlattened
  <2>4. /\ job' \in [Places -> Job] /\ Compared' /\ Found'
        /\ listing' \in [rows : Rows, answer : Answer, flattened : BOOLEAN]
    BY <2>1, <2>2, <2>3, OneSlotPublishes
  <2>5. crawls' \subseteq Folders
    BY <1>1, <1>8 DEF BeginFlattened, TypeOK, Job, Answer
  <2> QED
    BY <1>8, <2>4, <2>5 DEF BeginFlattened, TypeOK, asked, watcher, threads
<1>9. CASE HitsArrive(s)
  <2>1. PICK hits : Publish(job, RowsOf(Held(listing.rows) \union hits), listing.answer, flattened)
    BY <1>9 DEF HitsArrive
  <2>2. job = [job EXCEPT ![s] = job[s]] /\ job[s].kind # "Merge"
    BY <1>9 DEF TypeOK, HitsArrive, InForce, Begins
  <2>3. /\ RowsOf(Held(listing.rows) \union hits) \in Rows /\ listing.answer \in Answer /\ flattened \in BOOLEAN
    BY RowsAreRows DEF TypeOK
  <2>4. /\ job' \in [Places -> Job] /\ Compared' /\ Found'
        /\ listing' \in [rows : Rows, answer : Answer, flattened : BOOLEAN]
    BY <1>1, <2>1, <2>2, <2>3, OneSlotPublishes
  <2> QED
    BY <1>9, <2>4 DEF HitsArrive, TypeOK, asked, watcher, threads
<1>10. CASE RunLands(s)
  <2>1. PICK hits : Install([job EXCEPT ![s] = Free], RowsOf(hits), job[s].answer, flattened)
    BY <1>10 DEF RunLands
  <2>2. RowsOf(hits) \in Rows /\ job[s].answer \in Answer /\ flattened \in BOOLEAN
    BY <1>1, RowsAreRows DEF TypeOK, Job
  <2>3. /\ job' \in [Places -> Job] /\ Compared' /\ Found' /\ loading' \in BOOLEAN
        /\ listing' \in [rows : Rows, answer : Answer, flattened : BOOLEAN]
    BY <1>1, <2>1, <2>2, OneSlotPublishes DEF Install
  <2> QED
    BY <1>10, <2>3 DEF RunLands, TypeOK, asked, watcher, threads
<1>11. CASE RunFails(s)
  <2>1. job' \in [Places -> Job] /\ Compared' /\ Found'
    BY <1>2, <1>11 DEF RunFails
  <2>2. error' \in BOOLEAN
    BY <1>11 DEF RunFails, TypeOK
  <2> QED
    BY <1>11, <2>1, <2>2 DEF RunFails, TypeOK, asked, watcher, threads
<1> QED
    BY <1>3, <1>4, <1>5, <1>6, <1>7, <1>8, <1>9, <1>10, <1>11 DEF FlatAnswered

\* What it makes of rows that it compared with is the folder as it read it.
LEMMA MergedIsRead ==
    ASSUME MergeInv, NEW s \in Places, job[s].kind = "Merge", job[s].at = "land", Stands(job[s])
    PROVE  Merged(job[s]) = RowsOf(job[s].read)
<1>1. /\ job[s].had = Held(listing.rows) /\ listing.rows \in [Entries -> {0, 1}]
      /\ job[s].read \in SUBSET Entries
    BY DEF MergeInv, TypeOK, Compared, Found, Stands, Job, Rows
<1>2. \A e \in Entries : (e \in job[s].had => listing.rows[e] = 1) /\ (e \notin job[s].had => listing.rows[e] = 0)
    BY <1>1 DEF Held
<1> QED
    BY <1>1, <1>2 DEF Merged, RowsOf

LEMMA TypeOfMerges ==
    ASSUME MergeInv, NEW s \in Places, MergeStarts(s) \/ MergeLists(s) \/ MergeLands(s)
    PROVE  MergeInv'
<1> USE DEF MergeInv
<1>1. job[s] \in Job /\ Free \in Job /\ Free.kind = "none" /\ NoAnswer \in Answer
    BY FreeIsJob DEF TypeOK, Free, NoAnswer, Answer, Kinds
<1>2. Done(s) /\ UNCHANGED listing => job' \in [Places -> Job] /\ Compared' /\ Found'
    BY <1>1, OneSlot DEF Done
<1>3. CASE MergeStarts(s)
  <2> DEFINE had == Held(listing.rows)
             answer == [NoAnswer EXCEPT !.folder = path]
             j == [job[s] EXCEPT !.at = "list", !.fresh = TRUE, !.same = TRUE, !.answer = answer, !.had = had]
  <2>1. answer \in Answer /\ had \in SUBSET Entries
    BY DEF NoAnswer, Answer, Kinds, TypeOK, Held
  <2>2. Done(s) \/ job' = [job EXCEPT ![s] = j]
    BY <1>3 DEF MergeStarts, TypeOK
  <2>3. j \in Job /\ j.had = had /\ j.at = "list"
    <3> HIDE DEF had, answer
    <3> QED
      BY <1>1, <2>1 DEF Job
  <2>4. UNCHANGED listing
    BY <1>3 DEF MergeStarts, shown
  <2>5. job' \in [Places -> Job] /\ Compared' /\ Found'
    BY <1>2, <2>2, <2>3, <2>4, OneSlot
  <2> QED
    BY <1>3, <2>5 DEF MergeStarts, TypeOK, asked, shown, watcher, threads
<1>4. CASE MergeLists(s)
  <2> DEFINE read == Listed(job[s].answer.folder)
             j == [job[s] EXCEPT !.at = "land", !.read = read]
  <2>1. read \in (SUBSET Entries) \union {Gone}
    BY <1>1 DEF Listed, Job, Answer, TypeOK
  <2>2. Done(s) \/ (read # Gone /\ job' = [job EXCEPT ![s] = j])
    BY <1>4 DEF MergeLists, TypeOK
  <2>3. /\ j \in Job /\ j.had = job[s].had /\ j.same = job[s].same /\ j.kind = job[s].kind
        /\ j.at = "land" /\ j.read = read
    <3> HIDE DEF read
    <3> QED
      BY <1>1, <2>1 DEF Job
  <2>4. UNCHANGED listing /\ job[s].kind = "Merge"
    BY <1>4 DEF MergeLists, Begins, shown
  <2>5. CASE Done(s)
    BY <1>2, <1>4, <2>4, <2>5 DEF MergeLists, TypeOK, asked, shown, watcher, threads
  <2>6. CASE read # Gone /\ job' = [job EXCEPT ![s] = j]
    <3>1. j.same => j.had = Held(listing.rows)
      BY <2>3, <2>4 DEF Compared
    <3> HIDE DEF j, read
    <3>2. job' \in [Places -> Job] /\ Compared' /\ Found'
      BY <2>3, <2>4, <2>6, <3>1, OneSlot
    <3> QED
      BY <1>4, <3>2 DEF MergeLists, TypeOK, asked, shown, watcher, threads
  <2> QED
    BY <2>2, <2>5, <2>6
<1>5. CASE MergeLands(s)
  <2>1. job' \in [Places -> Job] /\ Compared' /\ Found' /\ listing' \in [rows : Rows, answer : Answer, flattened : BOOLEAN]
    <3>1. CASE Stands(job[s])
      <4>1. Merged(job[s]) = RowsOf(job[s].read)
        BY <1>1, <1>5, <3>1, MergedIsRead DEF MergeLands, Begins
      <4>2. Publish([job EXCEPT ![s] = Free], RowsOf(job[s].read), job[s].answer, FALSE)
        BY <1>5, <3>1, <4>1 DEF MergeLands
      <4>3. job[s].answer \in Answer /\ RowsOf(job[s].read) \in Rows
        BY <1>1, RowsAreRows DEF Job
      <4> QED
        BY <1>1, <4>2, <4>3, OneSlotPublishes
    <3>2. CASE ~Stands(job[s])
      BY <1>2, <1>5, <3>2 DEF MergeLands, TypeOK
    <3> QED
      BY <3>1, <3>2
  <2> QED
    BY <1>5, <2>1 DEF MergeLands, TypeOK, asked, watcher, threads
<1> QED
    BY <1>3, <1>4, <1>5

LEMMA TypeNext == MergeInv /\ [Next]_vars => MergeInv'
<1> SUFFICES ASSUME MergeInv, [Next]_vars PROVE MergeInv'
    OBVIOUS
<1> USE DEF MergeInv
<1>1. ASSUME NEW f \in Folders, Change(f) PROVE MergeInv'
  <2>1. events' \in 0..MaxEvents /\ disk' \in [Folders -> (SUBSET Entries) \union {Gone}] /\ noticed' \in BOOLEAN
    BY <1>1, Counted DEF Change, TypeOK
  <2> QED
    BY <1>1, <2>1, Untouched DEF Change, TypeOK, asked, shown, threads
<1>2. CASE Quiet
  <2>1. PICK s \in Places : job' = [job EXCEPT ![s] = [Free EXCEPT !.kind = "Merge"]]
    BY <1>2 DEF Quiet
  <2> DEFINE j == [Free EXCEPT !.kind = "Merge"]
  <2>2. j \in Job /\ j.same = FALSE /\ j.at = "start"
    BY FreeIsJob DEF Free
  <2>3. job' \in [Places -> Job] /\ Compared' /\ Found'
    BY <1>2, <2>1, <2>2, OneSlot DEF Quiet, shown
  <2>4. /\ UNCHANGED <<disk, path, searchText, globalText, flat, typing, listing, flattened, error, loading>>
        /\ UNCHANGED <<rerun, opening, watch, at, goal, crawls, stays, events>> /\ noticed' = FALSE
    BY <1>2 DEF Quiet, asked, shown, threads
  <2>5. flat' \in BOOLEAN /\ typing' \in BOOLEAN /\ noticed' \in BOOLEAN /\ flattened' \in BOOLEAN /\ error' \in BOOLEAN
        /\ loading' \in BOOLEAN /\ rerun' \in BOOLEAN /\ opening' \in BOOLEAN /\ stays' \in BOOLEAN
    BY <2>4 DEF TypeOK
  <2> QED
    BY <2>3, <2>4, <2>5 DEF TypeOK
<1>3. CASE IndexReports
  <2>1. at' \in [Actors -> Steps] /\ events' \in 0..MaxEvents
    BY <1>3, Threads, Moved, Counted DEF IndexReports
  <2> QED
    BY <1>3, <2>1, Untouched DEF IndexReports, TypeOK, asked, shown, watcher
<1>4. CASE UNCHANGED vars
  <2>1. Compared' /\ Found'
    BY <1>4, Untouched DEF vars, shown
  <2> QED
    BY <1>4, <2>1 DEF vars, TypeOK, asked, shown, watcher, threads
<1>5. ASSUME NEW s \in Places, JobStep(s) \/ FlatAnswered(s) PROVE MergeInv'
    BY <1>5, TypeOfLoads, TypeOfRuns, TypeOfMerges DEF JobStep
<1> QED
    BY <1>1, <1>2, <1>3, <1>4, <1>5, TypeOfRequests, TypeOfThreads DEF Next

LEMMA MergeAlways == Spec => []MergeInv
<1> QED
    BY TypeInit, TypeNext, PTL DEF Spec

\* Everything TypeOK says of the tab, whatever is asked of it and however the jobs overlap:
\* of all it says, that no name is listed twice needs the comparison of versions that
\* merge_directory ends with.
THEOREM TabTyped == Spec => []TypeOK
<1>1. MergeInv => TypeOK
    BY DEF MergeInv
<1> QED
    BY <1>1, MergeAlways, PTL

\* A merge ends in one of three ways, and takes rows with it in one.
LEMMA MergeEnds ==
    ASSUME MergeInv, Next, NEW s \in Places,
           job[s].kind = "Merge", job'[s].kind = "none", listing' # listing
    PROVE  listing'.rows = RowsOf(job[s].read)
<1> USE DEF MergeInv
<1>1. job[s] \in Job /\ job \in [Places -> Job]
    BY DEF TypeOK
<1>2. ASSUME NEW jobs, NEW rows, NEW answer, NEW many, Publish(jobs, rows, answer, many), jobs[s] = job[s]
      PROVE  FALSE
    BY <1>1, <1>2 DEF Publish, Job
<1>3. Resort \/ SizesInstalled => FALSE
    BY <1>2 DEF Resort, SizesInstalled, Install
<1>4. ASSUME NEW t \in Places, LoadLands(t) \/ RunLands(t) \/ BeginFlattened(t) \/ HitsArrive(t) PROVE FALSE
  <2>1. t # s
    BY <1>4 DEF LoadLands, RunLands, BeginFlattened, HitsArrive, InForce, Begins
  <2>2. [job EXCEPT ![t] = Free][s] = job[s] /\ [job EXCEPT ![t].at = "run"][s] = job[s]
    BY <1>1, <2>1
  <2> QED
    BY <1>2, <1>4, <2>2 DEF LoadLands, RunLands, BeginFlattened, HitsArrive, Install
<1>5. ASSUME NEW t \in Places, MergeLands(t) PROVE t = s /\ Stands(job[s])
  <2>1. Stands(job[t])
    BY <1>5 DEF MergeLands
  <2>2. t # s => [job EXCEPT ![t] = Free][s] = job[s]
    BY <1>1
  <2> QED
    BY <1>2, <1>5, <2>1, <2>2 DEF MergeLands
<1>6. \E t \in Places : MergeLands(t)
  <2>1. ~Operated
    BY <1>3 DEF Operated, Navigate, StepHistory, Refresh, RevealFile, OpenArchive, SetSearch, ClearSearch, SetFlatView, shown
  <2>2. ASSUME NEW a \in Actors, ThreadStep(a) PROVE FALSE
    BY <1>3, <2>2 DEF ThreadStep, SetPath, StartWatching, RefreshView, CheckTarget, RevealLooks, TypingPaused,
                      ArchiveRead, RerunMarked, CrawlEnds, shown
  <2>3. ~Quiet /\ ~IndexReports /\ \A f \in Folders : ~Change(f)
    BY DEF Quiet, IndexReports, Change, shown
  <2>4. ASSUME NEW t \in Places, JobStep(t) \/ FlatAnswered(t) PROVE MergeLands(t)
    BY <1>4, <2>4 DEF JobStep, FlatAnswered, Superseded, LoadStarts, LoadLists, SearchStarts, SearchRefused,
                      FlatStarts, FlatAccepted, FlatDeclined, RunFails, MergeStarts, MergeLists, shown
  <2> QED
    BY <2>1, <2>2, <2>3, <2>4 DEF Next
<1>7. MergeLands(s) /\ Stands(job[s])
    BY <1>5, <1>6
<1>8. Merged(job[s]) = RowsOf(job[s].read)
    BY <1>7, MergedIsRead DEF MergeLands, Begins
<1> QED
    BY <1>7, <1>8 DEF MergeLands, Publish

\* The difference that a merge worked out without the lock, applied under it, gives the
\* folder as it was read: the comparison of versions stands for the comparison of the rows.
THEOREM MergesAreWhole == Spec => MergeIsWhole
<1>1. MergeInv /\ [Next]_vars =>
         \A s \in Places : job[s].kind = "Merge" /\ job'[s].kind = "none" /\ listing' # listing
                            => listing'.rows = RowsOf(job[s].read)
    BY MergeEnds DEF vars, shown
<1> QED
    BY <1>1, MergeAlways, PTL DEF Spec, MergeIsWhole

(* ------------------------- the activity bar goes out --------------------- *)

\* A job that is still wanted: it will lower is_loading.
Fetches(s) == job[s].kind \in Kinds /\ job[s].fresh
\* So will the container that is being read.
Reads == opening /\ at["opener"] = "reading"
Lit == loading => (\E s \in Places : Fetches(s)) \/ Reads
LitInv == TypeOK /\ Lit

\* The three ways in which a step keeps it.
LEMMA StaysLit ==
    ASSUME Lit, loading' => loading, \A s \in Places : Fetches(s) => Fetches(s)', Reads => Reads'
    PROVE  Lit'
BY DEF Lit

LEMMA Kindled == ASSUME NEW s \in Places, Fetches(s)' PROVE Lit'
BY DEF Lit

LEMMA GoesOn ==
    ASSUME Lit, UNCHANGED <<job, loading, opening>>, at["opener"] = "reading" => at'["opener"] = "reading"
    PROVE  Lit'
<1>1. \A s \in Places : Fetches(s) => Fetches(s)'
    BY DEF Fetches
<1> QED
    BY <1>1, StaysLit DEF Reads

\* A step by which a slot's job ends or moves on, when it was not wanted or still is.
LEMMA OneJobMoves ==
    ASSUME LitInv, NEW s \in Places, NEW j, job' = [job EXCEPT ![s] = j], loading' => loading,
           UNCHANGED <<opening, at>>,
           Fetches(s) => j.kind \in Kinds /\ j.fresh
    PROVE  Lit'
<1>1. \A i \in Places : Fetches(i) => Fetches(i)'
    BY DEF Fetches, LitInv, TypeOK
<1> QED
    BY <1>1, StaysLit DEF LitInv, Reads

LEMMA LitOfRequests == ASSUME LitInv, Operated PROVE Lit'
<1> USE DEF LitInv
<1>1. at \in [Actors -> Steps] /\ Window \in Actors /\ Callers \subseteq Actors /\ "opener" \in Actors
    BY Threads DEF TypeOK
<1>2. ASSUME NEW a \in Callers, \/ \E f \in Folders : Navigate(a, f)
                               \/ Refresh(a)
      PROVE  Lit'
    BY <1>1, <1>2, GoesOn DEF Navigate, Refresh, Ask, Goes, MakesFor, shown
<1>3. ASSUME NEW f \in Folders, StepHistory(f) \/ RevealFile(f) PROVE Lit'
    BY <1>1, <1>3, GoesOn DEF StepHistory, RevealFile, Ask, Goes, MakesFor, shown
<1>4. ASSUME NEW f \in Folders, OpenArchive(f) PROVE Lit'
    BY <1>1, <1>4 DEF OpenArchive, MakesFor, Goes, Lit, Reads
<1>5. ASSUME NEW text, NEW global, SetSearch(text, global) PROVE Lit'
    BY <1>5, GoesOn DEF SetSearch, shown, threads
<1>6. ClearSearch \/ SetFlatView => Lit'
    BY <1>1, GoesOn DEF ClearSearch, SetFlatView, Ask, Goes, shown
<1>7. ASSUME Resort PROVE Lit'
  <2>1. \A s \in Places : Fetches(s) => Fetches(s)'
    BY <1>7 DEF Resort, Publish, Fetches, TypeOK, Job
  <2> QED
    BY <1>7, <2>1, StaysLit DEF Resort, Reads, threads
<1> QED
    BY <1>2, <1>3, <1>4, <1>5, <1>6, <1>7 DEF Operated

LEMMA LitOfThreads == ASSUME LitInv, NEW a \in Actors, ThreadStep(a) PROVE Lit'
<1> USE DEF LitInv
<1>1. at \in [Actors -> Steps] /\ Window \in Actors /\ {"typist", "indexer", "crawler", "opener"} \subseteq Actors
    BY Threads DEF TypeOK
<1>2. ASSUME SetPath(a) \/ StartWatching(a) \/ CheckTarget(a) PROVE Lit'
    BY <1>1, <1>2, GoesOn DEF SetPath, StartWatching, CheckTarget, MakesFor, Goes, shown
<1>3. CASE RevealLooks
    BY <1>1, <1>3, GoesOn DEF RevealLooks, MakesFor, Goes, shown
<1>4. CASE TypingPaused \/ RerunMarked \/ \E f \in Folders : CrawlEnds(f)
    BY <1>1, <1>4, GoesOn DEF TypingPaused, RerunMarked, CrawlEnds, Goes, shown
<1>5. CASE SizesInstalled \/ ArchiveRead
  <2>1. CASE ~loading'
    BY <2>1 DEF Lit
  <2>2. CASE loading'
    BY <1>1, <1>5, <2>2 DEF SizesInstalled, Install, ArchiveRead, Lit, Reads, Fetches, MakesFor, Goes
  <2> QED
    BY <2>1, <2>2
<1>6. CASE RefreshView(a)
  <2>1. CASE path = Nowhere /\ UNCHANGED <<job, loading, rerun, opening, stays>>
    BY <1>1, <1>6, <2>1, GoesOn DEF RefreshView, Goes
  <2>2. ASSUME NEW s \in Places, job' = Superseding(s) PROVE Lit'
    <3>1. job'[s].kind = Kind /\ job'[s].fresh
      BY <2>2 DEF Superseding, Free
    <3> QED
      BY <3>1, Asked, Kindled DEF Fetches
  <2> QED
    BY <1>6, <2>1, <2>2, Zenon DEF RefreshView
<1> QED
    BY <1>2, <1>3, <1>4, <1>5, <1>6 DEF ThreadStep

LEMMA LitOfJobs == ASSUME LitInv, NEW s \in Places, JobStep(s) \/ FlatAnswered(s) PROVE Lit'
<1> USE DEF LitInv
<1>1. job \in [Places -> Job] /\ job[s] \in Job
    BY DEF TypeOK
<1>2. ASSUME ~loading' PROVE Lit'
    BY <1>2 DEF Lit
<1>3. CASE LoadLands(s) \/ SearchRefused(s) \/ RunLands(s) \/ RunFails(s)
    BY <1>2, <1>3 DEF LoadLands, SearchRefused, RunLands, RunFails, Install
<1>4. CASE Superseded(s)
    BY <1>4, OneJobMoves DEF Superseded, Done, Fetches, shown, threads
<1>5. CASE LoadStarts(s)
  <2>1. PICK answer : job' = [job EXCEPT ![s] = [job[s] EXCEPT !.at = "list", !.answer = answer]]
    BY <1>1, <1>5 DEF LoadStarts
  <2>2. [job[s] EXCEPT !.at = "list", !.answer = answer].kind = job[s].kind
        /\ [job[s] EXCEPT !.at = "list", !.answer = answer].fresh = job[s].fresh
    BY <1>1 DEF Job
  <2> QED
    BY <1>5, <2>1, <2>2, OneJobMoves DEF LoadStarts, Fetches, threads
<1>6. CASE LoadLists(s)
  <2>1. PICK read : job' = [job EXCEPT ![s] = [job[s] EXCEPT !.at = "land", !.read = read]]
    BY <1>1, <1>6 DEF LoadLists
  <2>2. [job[s] EXCEPT !.at = "land", !.read = read].kind = job[s].kind
        /\ [job[s] EXCEPT !.at = "land", !.read = read].fresh = job[s].fresh
    BY <1>1 DEF Job
  <2> QED
    BY <1>6, <2>1, <2>2, OneJobMoves DEF LoadLists, Fetches, shown, threads
<1>7. CASE SearchStarts(s)
  <2>1. CASE ~has_search
    BY <1>2, <1>7, <2>1 DEF SearchStarts
  <2>2. CASE has_search
    <3>1. PICK answer : job' = [job EXCEPT ![s] = [job[s] EXCEPT !.at = "begin", !.answer = answer]]
      BY <1>1, <1>7, <2>2 DEF SearchStarts
    <3>2. [job[s] EXCEPT !.at = "begin", !.answer = answer].kind = job[s].kind
          /\ [job[s] EXCEPT !.at = "begin", !.answer = answer].fresh = job[s].fresh
      BY <1>1 DEF Job
    <3>3. UNCHANGED <<loading, opening, at>>
      BY <1>7, <2>2 DEF SearchStarts, threads
    <3> QED
      BY <3>1, <3>2, <3>3, OneJobMoves DEF Fetches
  <2> QED
    BY <2>1, <2>2
<1>8. CASE FlatStarts(s)
  <2>1. PICK step, answer : job' = [job EXCEPT ![s] = [job[s] EXCEPT !.at = step, !.answer = answer]]
    BY <1>1, <1>8 DEF FlatStarts
  <2>2. [job[s] EXCEPT !.at = step, !.answer = answer].kind = job[s].kind
        /\ [job[s] EXCEPT !.at = step, !.answer = answer].fresh = job[s].fresh
    BY <1>1 DEF Job
  <2> QED
    BY <1>8, <2>1, <2>2, OneJobMoves DEF FlatStarts, Fetches, shown, threads
<1>9. CASE FlatAccepted(s)
  <2>1. job' = [job EXCEPT ![s] = [job[s] EXCEPT !.at = "begin"]]
    BY <1>1, <1>9 DEF FlatAccepted
  <2>2. [job[s] EXCEPT !.at = "begin"].kind = job[s].kind /\ [job[s] EXCEPT !.at = "begin"].fresh = job[s].fresh
    BY <1>1 DEF Job
  <2> QED
    BY <1>9, <2>1, <2>2, OneJobMoves DEF FlatAccepted, Fetches, shown, threads
<1>10. CASE FlatDeclined(s)
  <2>1. CASE job[s].fresh
    BY <1>2, <1>10, <2>1 DEF FlatDeclined
  <2>2. CASE ~job[s].fresh
    <3>1. job' = [job EXCEPT ![s] = Free] /\ UNCHANGED <<loading, opening, at>>
      BY <1>10, <2>2 DEF FlatDeclined, Done, threads
    <3> QED
      BY <2>2, <3>1, OneJobMoves DEF Fetches
  <2> QED
    BY <2>1, <2>2
<1>11. CASE BeginFlattened(s) \/ HitsArrive(s)
  <2>1. PICK jobs : /\ jobs \in {[job EXCEPT ![s].at = "run"], job}
                    /\ job' = [i \in Places |-> [jobs[i] EXCEPT !.same = FALSE]]
    BY <1>11 DEF BeginFlattened, HitsArrive, Publish
  <2>2. job'[s].kind = job[s].kind /\ job'[s].fresh = job[s].fresh
    BY <1>1, <2>1 DEF Job
  <2>3. Fetches(s)
    BY <1>11 DEF BeginFlattened, HitsArrive, InForce, Begins, Fetches, Kinds
  <2> QED
    BY <2>3, <2>2, Kindled DEF Fetches
<1>12. CASE MergeStarts(s) \/ MergeLists(s)
  <2>1. PICK j : job' = [job EXCEPT ![s] = j]
    BY <1>12 DEF MergeStarts, MergeLists, Done
  <2>2. ~Fetches(s)
    BY <1>12 DEF MergeStarts, MergeLists, Begins, Fetches, Kinds
  <2> QED
    <3>1. UNCHANGED <<loading, opening, at>>
      BY <1>12 DEF MergeStarts, MergeLists, shown, threads
    <3> QED
      BY <2>1, <2>2, <3>1, OneJobMoves
<1>13. CASE MergeLands(s)
  <2>1. ASSUME NEW i \in Places, Fetches(i) PROVE Fetches(i)'
    <3>1. i # s
      BY <1>13, <2>1 DEF MergeLands, Begins, Fetches, Kinds
    <3>2. job'[i].kind = job[i].kind /\ job'[i].fresh = job[i].fresh
      BY <1>1, <1>13, <3>1 DEF MergeLands, Publish, Done, Job
    <3> QED
      BY <2>1, <3>2 DEF Fetches
  <2> QED
    BY <1>13, <2>1, StaysLit DEF MergeLands, Reads, threads
<1> QED
    BY <1>3, <1>4, <1>5, <1>6, <1>7, <1>8, <1>9, <1>10, <1>11, <1>12, <1>13 DEF JobStep, FlatAnswered

LEMMA LitInit == Init => Lit
BY DEF Init, Lit

LEMMA LitNext == TypeOK /\ Lit /\ [Next]_vars => Lit'
<1> SUFFICES ASSUME LitInv, [Next]_vars PROVE Lit'
    BY DEF LitInv
<1> USE DEF LitInv
<1>1. CASE Quiet
  <2>1. PICK s \in Places : job[s].kind = "none" /\ job' = [job EXCEPT ![s] = [Free EXCEPT !.kind = "Merge"]]
    BY <1>1 DEF Quiet
  <2>2. ~Fetches(s)
    BY <2>1 DEF Fetches, Kinds
  <2> QED
    BY <1>1, <2>1, <2>2, OneJobMoves DEF Quiet, shown, threads
<1>2. CASE IndexReports
    BY <1>2, Threads, GoesOn DEF IndexReports, Goes, shown, TypeOK
<1>3. ASSUME NEW f \in Folders, Change(f) PROVE Lit'
    BY <1>3, GoesOn DEF Change, shown, threads
<1>4. CASE UNCHANGED vars
    BY <1>4, GoesOn DEF vars, shown, threads
<1> QED
    BY <1>1, <1>2, <1>3, <1>4, LitOfRequests, LitOfThreads, LitOfJobs DEF Next

\* However many jobs and containers raised is_loading and were superseded, one that will
\* lower it is there as long as it is raised, so it is not raised when the tab is at rest.
THEOREM BarGoesOut == Spec => []RestIsNotLoading
<1>1. Lit /\ TypeOK => RestIsNotLoading
    BY Threads DEF Lit, Fetches, Kinds, Reads, RestIsNotLoading, AtRest
<1> QED
    BY <1>1, LitInit, LitNext, TabTyped, PTL DEF Spec

(* ---------------------- the rows are those asked for --------------------- *)

\* An operation has not come to its refresh yet, or a typed search to its pause.
Pending ==
    \/ typing
    \/ \E a \in Actors : at[a] \in {"path", "watch", "refresh"}
    \/ at[Window] = "look"
    \/ at[Window] = "check" /\ path # goal[Window]
Settled == ~Pending /\ path # Nowhere /\ ~stays
Plain == [NoAnswer EXCEPT !.folder = path]

\* One job at most is in force.
One == \A s, t \in Places : Fetches(s) /\ Fetches(t) => s = t
\* What it has done so far is on the screen.
Labelled ==
    \A s \in Places : Fetches(s) =>
        /\ job[s].kind = "Directory" /\ job[s].at # "start" => ~flattened
        /\ job[s].at = "run" => flattened /\ listing.flattened /\ listing.answer = job[s].answer
Shows == /\ listing.answer = Wanted
         /\ listing.flattened = (Kind # "Directory") /\ flattened = listing.flattened
\* What is asked for is what that job fetches, or else what the rows answer; and what a
\* merge in force read.
Fetched == \A s \in Places : Fetches(s) => job[s].kind = Kind /\ (job[s].at # "start" => job[s].answer = Wanted)
Merging == \A s \in Places : job[s].kind = "Merge" /\ job[s].fresh => job[s].answer = Plain
Answers == Settled => Fetched /\ Merging /\ ((\A s \in Places : ~Fetches(s)) => Shows)
Right == One /\ Labelled /\ Answers
RightInv == TypeOK /\ Right

LEMMA SameAnswer ==
    ASSUME NEW a \in Answer, NEW b \in Answer,
           a.kind = b.kind, a.folder = b.folder, a.text = b.text, a.global = b.global
    PROVE  a = b
BY DEF Answer

LEMMA WantedPlain == ASSUME TypeOK PROVE /\ Wanted.kind = Kind
                                         /\ Kind = "Directory" => Wanted = Plain
                                         /\ Kind = "Flat" => Wanted = [NoAnswer EXCEPT !.kind = "Flat", !.folder = path]
                                         /\ Kind = "Search" => has_search /\ [Wanted EXCEPT !.kind = "Search"] = Wanted
<1>1. ~has_search => is_global_search = FALSE
    BY DEF has_search, is_global_search, active_search_text
<1>2. Wanted \in Answer /\ Wanted.kind = Kind /\ Wanted.folder = path
    BY Asked DEF Wanted
<1>3. ~has_search => Wanted.text = NoText /\ Wanted.global = FALSE
    BY <1>1 DEF Wanted
<1>4. Kind # "Search" => ~has_search
    BY DEF Kind
<1> DEFINE tree == [NoAnswer EXCEPT !.kind = "Flat", !.folder = path]
<1>5. tree \in Answer /\ tree.kind = "Flat" /\ tree.folder = path /\ tree.text = NoText /\ tree.global = FALSE
    BY DEF NoAnswer, Answer, Kinds, TypeOK
<1>6. Plain \in Answer /\ Plain.kind = "Directory" /\ Plain.folder = path /\ Plain.text = NoText /\ Plain.global = FALSE
    BY DEF Plain, NoAnswer, Answer, Kinds, TypeOK
<1>7. Kind = "Directory" => Wanted = Plain
    BY <1>2, <1>3, <1>4, <1>6, SameAnswer
<1>8. Kind = "Flat" => Wanted = tree
  <2> HIDE DEF tree
  <2> QED
    BY <1>2, <1>3, <1>4, <1>5, SameAnswer
<1>9. Kind = "Search" => has_search /\ [Wanted EXCEPT !.kind = "Search"] = Wanted
  <2> SUFFICES ASSUME Kind = "Search" PROVE has_search /\ [Wanted EXCEPT !.kind = "Search"] = Wanted
    OBVIOUS
  <2>1. has_search
    BY DEF Kind
  <2>2. [Wanted EXCEPT !.kind = "Search"] = Wanted
    BY <1>2 DEF Answer
  <2> QED
    BY <2>1, <2>2
<1> QED
    BY <1>2, <1>7, <1>8, <1>9

\* Nobody has asked for anything else, or come nearer to it.
LEMMA SameQuestion ==
    ASSUME UNCHANGED <<path, searchText, globalText, flat>>
    PROVE  /\ Kind' = Kind /\ Wanted' = Wanted /\ Plain' = Plain
           /\ UNCHANGED <<typing, at, goal>> => Pending' = Pending
<1>1. Kind' = Kind /\ Wanted' = Wanted
    BY DEF Kind, Wanted, has_search, active_search_text, is_global_search
<1> QED
    BY <1>1 DEF Plain, Pending

\* A step that leaves the tab with something pending, or lets the rows be.
LEMMA NotSettled ==
    ASSUME Right, UNCHANGED <<job, listing, flattened>>, ~Settled'
    PROVE  Right'
BY DEF Right, One, Labelled, Answers, Fetches

\* A step of a thread that changes nothing of this.
LEMMA StaysRight ==
    ASSUME Right, UNCHANGED <<job, listing, flattened, path, searchText, globalText, flat>>, stays => stays',
           Pending => Pending'
    PROVE  Right'
<1>1. Kind' = Kind /\ Wanted' = Wanted /\ Plain' = Plain /\ (Settled' => Settled)
    BY SameQuestion DEF Settled
<1>2. \A s \in Places : Fetches(s)' = Fetches(s)
    BY DEF Fetches
<1>3. One' /\ Labelled'
    BY <1>2 DEF Right, One, Labelled
<1>4. (Fetched => Fetched') /\ (Merging => Merging') /\ (Shows => Shows')
    BY <1>1, <1>2 DEF Fetched, Merging, Shows
<1> QED
    BY <1>1, <1>2, <1>3, <1>4 DEF Right, Answers

Alike(s) == job'[s].kind = job[s].kind /\ job'[s].fresh = job[s].fresh /\ job'[s].answer = job[s].answer
            /\ job'[s].at = job[s].at
Undisturbed == UNCHANGED <<path, searchText, globalText, flat, typing, at, goal, stays>>

\* The same rows published once more.
LEMMA SameRowsRight ==
    ASSUME Right, \A s \in Places : Alike(s), UNCHANGED <<path, searchText, globalText, flat, flattened, stays>>,
           Pending => Pending', listing'.answer = listing.answer, listing'.flattened = flattened
    PROVE  Right'
<1>1. Kind' = Kind /\ Wanted' = Wanted /\ Plain' = Plain /\ (Settled' => Settled)
    BY SameQuestion DEF Settled
<1>2. \A s \in Places : Fetches(s)' = Fetches(s)
    BY DEF Fetches, Alike
<1>3. One' /\ Labelled'
    BY <1>2 DEF Right, One, Labelled, Alike
<1>4. (Fetched => Fetched') /\ (Merging => Merging') /\ (Shows => Shows')
    BY <1>1, <1>2 DEF Fetched, Merging, Shows, Alike
<1> QED
    BY <1>1, <1>2, <1>3, <1>4 DEF Right, Answers

\* The job in force takes a step, and goes on.
LEMMA OnItsWay ==
    ASSUME Right, Undisturbed, NEW s \in Places, Fetches(s), job'[s].kind = job[s].kind, job'[s].fresh = job[s].fresh,
           \A i \in Places : i # s => Alike(i),
           job'[s].kind = "Directory" /\ job'[s].at # "start" => ~flattened',
           job'[s].at = "run" => flattened' /\ listing'.flattened /\ listing'.answer = job'[s].answer,
           Settled /\ job[s].kind = Kind /\ (job[s].at # "start" => job[s].answer = Wanted)
              => (job'[s].at # "start" => job'[s].answer = Wanted)
    PROVE  Right'
<1>1. Kind' = Kind /\ Wanted' = Wanted /\ Plain' = Plain /\ Settled' = Settled
    BY SameQuestion DEF Settled, Undisturbed
<1>2. \A i \in Places : Fetches(i)' = Fetches(i) /\ (Fetches(i) => i = s)
    BY DEF Fetches, Alike, Right, One
<1>3. One' /\ Labelled'
    BY <1>2 DEF One, Labelled
<1>4. Settled => Fetched' /\ Merging'
  <2> SUFFICES ASSUME Settled PROVE Fetched' /\ Merging'
    OBVIOUS
  <2>1. Fetched /\ Merging
    BY DEF Right, Answers
  <2>2. Fetched'
    BY <1>1, <1>2, <2>1 DEF Fetched
  <2>3. Merging'
    BY <1>1, <2>1 DEF Merging, Alike, Fetches, Kinds
  <2> QED
    BY <2>2, <2>3
<1> QED
    BY <1>1, <1>2, <1>3, <1>4 DEF Right, Answers

\* It ends.
LEMMA AtItsEnd ==
    ASSUME Right, NEW s \in Places, Fetches(s), job'[s].kind = "none", \A i \in Places : i # s => Alike(i),
           UNCHANGED path,
           Settled' => Undisturbed /\ (job[s].kind = Kind /\ (job[s].at # "start" => job[s].answer = Wanted) => Shows')
    PROVE  Right'
<1>1. \A i \in Places : ~Fetches(i)'
    BY DEF Fetches, Alike, Right, One, Kinds
<1>2. One' /\ Labelled'
    BY <1>1 DEF One, Labelled
<1>3. ASSUME Settled' PROVE Fetched' /\ Merging' /\ Shows'
  <2>1. Kind' = Kind /\ Wanted' = Wanted /\ Plain' = Plain /\ Settled
    BY <1>3, SameQuestion DEF Settled, Undisturbed
  <2>2. Fetched /\ Merging
    BY <2>1 DEF Right, Answers
  <2>3. Fetched'
    BY <1>1 DEF Fetched
  <2>4. Merging'
    BY <2>1, <2>2 DEF Merging, Alike
  <2> QED
    BY <1>3, <2>2, <2>3, <2>4 DEF Fetched
<1> QED
    BY <1>1, <1>2, <1>3 DEF Right, Answers

\* A slot whose job was not in force, and is not.
LEMMA Elsewhere ==
    ASSUME Right, Undisturbed, UNCHANGED <<listing, flattened>>, NEW s \in Places, ~Fetches(s), ~Fetches(s)',
           \A i \in Places : i # s => Alike(i),
           Settled /\ Merging => (job'[s].kind = "Merge" /\ job'[s].fresh => job'[s].answer = Plain)
    PROVE  Right'
<1>1. Kind' = Kind /\ Wanted' = Wanted /\ Plain' = Plain /\ Settled' = Settled
    BY SameQuestion DEF Settled, Undisturbed
<1>2. \A i \in Places : Fetches(i)' = Fetches(i) /\ (Fetches(i) => i # s)
    BY DEF Fetches, Alike
<1>3. One' /\ Labelled'
    BY <1>2 DEF Right, One, Labelled, Alike
<1>4. ASSUME Settled PROVE (Fetched => Fetched') /\ (Merging => Merging') /\ (Shows => Shows')
    BY <1>1, <1>2, <1>4 DEF Fetched, Merging, Shows, Alike
<1> QED
    BY <1>1, <1>2, <1>3, <1>4 DEF Right, Answers

LEMMA RightInit == Init => Right
<1> SUFFICES ASSUME Init PROVE Right
    OBVIOUS
<1>1. \A s \in Places : job[s].kind = "none"
    BY DEF Init, Free
<1>2. ~has_search /\ Kind = "Directory"
    BY DEF Init, Kind, has_search, active_search_text
<1>3. Wanted = [NoAnswer EXCEPT !.folder = path]
    BY <1>2, TypeInit, WantedPlain DEF MergeInv, Plain
<1>4. Shows
    BY <1>2, <1>3 DEF Init, Shows
<1> QED
    BY <1>1, <1>4 DEF Right, One, Labelled, Answers, Fetched, Merging, Fetches, Kinds

LEMMA RightRequests == ASSUME RightInv, Operated PROVE Right'
<1> USE DEF RightInv
<1>1. at \in [Actors -> Steps] /\ Window \in Actors /\ Callers \subseteq Actors /\ "opener" \in Actors
    BY Threads DEF TypeOK
<1>2. ASSUME NEW a \in Callers, NEW f \in Folders, Navigate(a, f) PROVE Right'
  <2>1. at'[a] = "path"
    BY <1>1, <1>2 DEF Navigate, MakesFor, Goes
  <2> QED
    BY <1>1, <1>2, <2>1, NotSettled DEF Navigate, shown, Settled, Pending
<1>3. ASSUME NEW a \in Callers, Refresh(a) PROVE Right'
  <2>1. at'[a] = "refresh"
    BY <1>1, <1>3 DEF Refresh, Goes
  <2> QED
    BY <1>1, <1>3, <2>1, NotSettled DEF Refresh, shown, Settled, Pending
<1>4. ASSUME NEW f \in Folders, StepHistory(f) PROVE Right'
    BY <1>4, NotSettled DEF StepHistory, shown, Settled
<1>5. ASSUME NEW f \in Folders, RevealFile(f) PROVE Right'
  <2>1. at'[Window] = "look"
    BY <1>1, <1>5 DEF RevealFile, MakesFor, Goes
  <2> QED
    BY <1>5, <2>1, NotSettled DEF RevealFile, shown, Settled, Pending
<1>6. ASSUME NEW f \in Folders, OpenArchive(f) PROVE Right'
  <2>1. \A a \in Actors : at'[a] # at[a] => at[a] = "idle"
    BY <1>1, <1>6 DEF OpenArchive, MakesFor, Goes
  <2>2. at[Window] \in {"look", "check"} => Window # "opener" /\ goal'[Window] = goal[Window]
    BY <1>1, <1>6 DEF OpenArchive, MakesFor, Goes, TypeOK
  <2>3. Pending => Pending'
    BY <1>1, <1>6, <2>1, <2>2 DEF Pending, OpenArchive, asked
  <2> QED
    BY <1>6, <2>3, StaysRight DEF OpenArchive, asked
<1>7. ASSUME NEW text, NEW global, SetSearch(text, global) PROVE Right'
    BY <1>7, NotSettled DEF SetSearch, shown, Settled, Pending
<1>8. ASSUME ClearSearch \/ SetFlatView PROVE Right'
  <2>1. at'[Window] = "refresh"
    BY <1>1, <1>8 DEF ClearSearch, SetFlatView, Goes
  <2> QED
    BY <1>1, <1>8, <2>1, NotSettled DEF ClearSearch, SetFlatView, shown, Settled, Pending
<1>9. CASE Resort
  <2>1. \A s \in Places : Alike(s)
    BY <1>9 DEF Resort, Publish, Alike, TypeOK, Job
  <2>2. Pending' = Pending
    BY <1>9, SameQuestion DEF Resort, asked, threads
  <2> QED
    BY <1>9, <2>1, <2>2, SameRowsRight DEF Resort, Publish, asked
<1> QED
    BY <1>2, <1>3, <1>4, <1>5, <1>6, <1>7, <1>8, <1>9 DEF Operated

LEMMA RightThreads == ASSUME RightInv, NEW a \in Actors, ThreadStep(a) PROVE Right'
<1> USE DEF RightInv
<1>1. /\ at \in [Actors -> Steps] /\ goal \in [Actors -> Folders \union {Nowhere}]
      /\ {Window, "typist", "indexer", "crawler", "opener"} \subseteq Actors
    BY Threads DEF TypeOK
<1>2. ASSUME SetPath(a) \/ StartWatching(a) PROVE Right'
  <2>1. at'[a] \in {"watch", "refresh"}
    BY <1>1, <1>2 DEF SetPath, StartWatching, MakesFor, Goes
  <2> QED
    BY <1>2, <2>1, NotSettled DEF SetPath, StartWatching, shown, Settled, Pending
<1>3. CASE RefreshView(a)
  <2>1. CASE path = Nowhere /\ UNCHANGED <<job, loading, rerun, opening, stays>>
    BY <1>3, <2>1, NotSettled DEF RefreshView, Settled
  <2>2. ASSUME NEW s \in Places, job' = Superseding(s) PROVE Right'
    <3>1. job'[s].kind = Kind /\ job'[s].at = "start" /\ job'[s].fresh
      BY <2>2 DEF Superseding, Free
    <3>2. ASSUME NEW i \in Places, i # s PROVE ~job'[i].fresh
      <4>1. job'[i] = Outdated(job[i]) /\ job[i] \in Job
        BY <2>2, <3>2 DEF Superseding, TypeOK
      <4> QED
        BY <4>1 DEF Outdated, Free, Job
    <3>3. Kind' = Kind /\ Kind \in Kinds
      BY <1>3, SameQuestion, Asked DEF RefreshView, asked
    <3> QED
      BY <3>1, <3>2, <3>3 DEF Right, One, Labelled, Answers, Fetched, Merging, Fetches, Kinds
  <2> QED
    BY <1>3, <2>1, <2>2, Zenon DEF RefreshView
<1>4. CASE CheckTarget(a)
  <2>1. UNCHANGED <<job, listing, flattened, path, searchText, globalText, flat, typing>>
    BY <1>4 DEF CheckTarget, asked, shown
  <2>2. CASE at'[a] = "path"
    BY <2>1, <2>2, NotSettled DEF Settled, Pending
  <2>3. CASE at'[a] # "path"
    <3>1. at'[a] = "idle" /\ at[a] = "check" /\ (stays => stays') /\ (stays' \/ path = goal[a] \/ a # Window)
      <4>1. CASE path = goal[a]
        BY <1>1, <1>4, <2>3, <4>1 DEF CheckTarget, MakesFor, Goes
      <4>2. CASE path # goal[a]
        <5>1. at[a] = "check" /\ MakesFor(a, "idle", Nowhere) /\ stays' = (stays \/ a = Window)
          BY <1>1, <1>4, <2>3, <4>2 DEF CheckTarget, MakesFor, Goes
        <5> QED
          BY <1>1, <5>1 DEF MakesFor, Goes
      <4> QED
        BY <4>1, <4>2
    <3>2. \A b \in Actors : b # a => at'[b] = at[b] /\ goal'[b] = goal[b]
      BY <1>1, <1>4 DEF CheckTarget, MakesFor, Goes
    <3>3. CASE stays'
      BY <2>1, <3>3, NotSettled DEF Settled
    <3>4. CASE path = goal[a] \/ a # Window
      <4>1. Pending => Pending'
        BY <1>1, <2>1, <3>1, <3>2, <3>4 DEF Pending
      <4> QED
        BY <2>1, <3>1, <4>1, StaysRight
    <3> QED
      BY <3>1, <3>3, <3>4
  <2> QED
    BY <2>2, <2>3
<1>5. CASE RevealLooks
  <2>1. at'[Window] = "refresh" \/ (at'[Window] = "check" /\ path' # goal'[Window])
    BY <1>1, <1>5 DEF RevealLooks, MakesFor, Goes
  <2> QED
    BY <1>1, <1>5, <2>1, NotSettled DEF RevealLooks, shown, Settled, Pending
<1>6. CASE TypingPaused
  <2>1. at'["typist"] = "refresh"
    BY <1>1, <1>6 DEF TypingPaused, Goes
  <2> QED
    BY <1>1, <1>6, <2>1, NotSettled DEF TypingPaused, shown, Settled, Pending
<1>7. ASSUME NEW b \in Actors, at[b] \in {"idle", "mark", "reinstall", "reading"},
             at' = [at EXCEPT ![b] = at'[b]], \A c \in Actors : c # b => goal'[c] = goal[c], UNCHANGED <<path, typing>>
      PROVE  Pending => Pending'
    BY <1>1, <1>7 DEF Pending
<1>8. CASE SizesInstalled
  <2>1. \A s \in Places : Alike(s)
    BY <1>8 DEF SizesInstalled, Install, Publish, Alike, TypeOK, Job
  <2>2. at["indexer"] = "reinstall" /\ at' = [at EXCEPT !["indexer"] = at'["indexer"]] /\ goal' = goal /\ UNCHANGED <<path, typing>>
    BY <1>1, <1>8 DEF SizesInstalled, Goes, asked
  <2>3. Pending => Pending'
    BY <1>1, <1>7, <2>2
  <2> QED
    BY <1>8, <2>1, <2>3, SameRowsRight DEF SizesInstalled, Install, Publish, asked
<1>9. ASSUME ArchiveRead \/ RerunMarked \/ \E f \in Folders : CrawlEnds(f) PROVE Right'
  <2>1. PICK b \in {"opener", "crawler"} :
           /\ at[b] \in {"idle", "mark", "reinstall", "reading"} /\ at' = [at EXCEPT ![b] = at'[b]]
           /\ \A c \in Actors : c # b => goal'[c] = goal[c]
    BY <1>1, <1>9 DEF ArchiveRead, RerunMarked, CrawlEnds, MakesFor, Goes
  <2>2. UNCHANGED <<job, listing, flattened, path, searchText, globalText, flat, typing, stays>>
    BY <1>9 DEF ArchiveRead, RerunMarked, CrawlEnds, shown, asked
  <2>3. Pending => Pending'
    BY <1>1, <1>7, <2>1, <2>2
  <2> QED
    BY <2>2, <2>3, StaysRight
<1> QED
    BY <1>2, <1>3, <1>4, <1>5, <1>6, <1>8, <1>9 DEF ThreadStep

\* The steps of a load, while it is in force.
LEMMA RightLoads == ASSUME RightInv, NEW s \in Places, LoadStarts(s) \/ LoadLists(s) \/ LoadLands(s) PROVE Right'
<1> USE DEF RightInv
<1>1. job[s] \in Job /\ job \in [Places -> Job] /\ Fetches(s) /\ job[s].kind = "Directory"
    BY DEF TypeOK, LoadStarts, LoadLists, LoadLands, InForce, Begins, Fetches, Kinds
<1>2. CASE LoadStarts(s)
  <2>1. job' = [job EXCEPT ![s].at = "list", ![s].answer = Plain] /\ ~flattened' /\ Undisturbed
    BY <1>2 DEF LoadStarts, Plain, Undisturbed, asked, threads
  <2>2. /\ job'[s].kind = job[s].kind /\ job'[s].fresh = job[s].fresh /\ job'[s].answer = Plain /\ job'[s].at = "list"
        /\ \A i \in Places : i # s => Alike(i)
    BY <1>1, <2>1 DEF Alike, Job
  <2> QED
    BY <1>1, <2>1, <2>2, WantedPlain, OnItsWay
<1>3. CASE LoadLists(s)
  <2>1. job' = [job EXCEPT ![s].at = "land", ![s].read = Listed(job[s].answer.folder)]
        /\ UNCHANGED <<listing, flattened>> /\ Undisturbed /\ job[s].at = "list"
    BY <1>3 DEF LoadLists, InForce, Begins, Undisturbed, asked, shown, threads
  <2>2. /\ job'[s].kind = job[s].kind /\ job'[s].fresh = job[s].fresh /\ job'[s].answer = job[s].answer /\ job'[s].at = "land"
        /\ \A i \in Places : i # s => Alike(i)
    BY <1>1, <2>1 DEF Alike, Job
  <2>3. ~flattened'
    BY <1>1, <2>1 DEF Right, Labelled
  <2> QED
    BY <1>1, <2>1, <2>2, <2>3, OnItsWay
<1>4. CASE LoadLands(s)
  <2>1. Undisturbed /\ UNCHANGED flattened /\ job[s].at = "land"
    BY <1>4 DEF LoadLands, InForce, Begins, Undisturbed, asked, threads
  <2>2. PICK rows : Publish([job EXCEPT ![s] = Free], rows, job[s].answer, flattened)
    BY <1>4 DEF LoadLands, Install
  <2>3. /\ job'[s].kind = "none" /\ \A i \in Places : i # s => Alike(i)
        /\ listing'.answer = job[s].answer /\ listing'.flattened = flattened
    BY <1>1, <2>2 DEF Publish, Alike, Free, Job
  <2>4. flattened = FALSE
    BY <1>1, <2>1 DEF Right, Labelled, TypeOK
  <2>5. Kind' = Kind /\ Wanted' = Wanted
    BY <2>1, SameQuestion DEF Undisturbed
  <2>6. job[s].kind = Kind /\ job[s].answer = Wanted => Shows'
    BY <1>1, <2>1, <2>3, <2>4, <2>5 DEF Shows
  <2> QED
    BY <1>1, <2>1, <2>3, <2>6, AtItsEnd DEF Undisturbed
<1> QED
    BY <1>2, <1>3, <1>4

\* Of a search or a flat view before it shows anything.
LEMMA RightStarts ==
    ASSUME RightInv, NEW s \in Places, SearchStarts(s) \/ SearchRefused(s) \/ FlatStarts(s) \/ FlatAnswered(s)
    PROVE  Right'
<1> USE DEF RightInv
<1>1. job[s] \in Job /\ job \in [Places -> Job]
    BY DEF TypeOK
<1>2. Done(s) => job'[s].kind = "none" /\ \A i \in Places : i # s => Alike(i)
    BY <1>1 DEF Done, Alike, Free
<1>3. CASE SearchStarts(s)
  <2>1. Fetches(s) /\ job[s].kind = "Search" /\ Undisturbed /\ UNCHANGED <<listing, flattened>>
    BY <1>3 DEF SearchStarts, InForce, Begins, Fetches, Kinds, Undisturbed, asked, threads
  <2>2. CASE ~has_search
    <3>1. job'[s].kind = "none" /\ \A i \in Places : i # s => Alike(i)
      BY <1>2, <1>3, <2>2 DEF SearchStarts
    <3>2. job[s].kind # Kind
      BY <2>1, <2>2, WantedPlain
    <3> QED
      BY <2>1, <3>1, <3>2, AtItsEnd DEF Undisturbed
  <2>3. CASE has_search
    <3>1. job' = [job EXCEPT ![s].at = "begin", ![s].answer = [Wanted EXCEPT !.kind = "Search"]]
      BY <1>3, <2>3 DEF SearchStarts
    <3>2. /\ job'[s].kind = job[s].kind /\ job'[s].fresh = job[s].fresh /\ job'[s].at = "begin"
          /\ job'[s].answer = [Wanted EXCEPT !.kind = "Search"] /\ \A i \in Places : i # s => Alike(i)
      BY <1>1, <3>1 DEF Alike, Job
    <3> QED
      BY <2>1, <3>2, WantedPlain, OnItsWay
  <2> QED
    BY <2>2, <2>3
<1>4. CASE SearchRefused(s)
  <2>1. Fetches(s) /\ stays' /\ Done(s) /\ path' = path
    BY <1>4 DEF SearchRefused, InForce, Begins, Fetches, Kinds
  <2> QED
    BY <1>2, <2>1, AtItsEnd DEF Settled
<1>5. CASE FlatStarts(s)
  <2>1. Fetches(s) /\ job[s].kind = "Flat" /\ Undisturbed /\ UNCHANGED <<listing, flattened>>
    BY <1>5 DEF FlatStarts, InForce, Begins, Fetches, Kinds, Undisturbed, asked, shown, threads
  <2> DEFINE tree == [NoAnswer EXCEPT !.kind = "Flat", !.folder = path]
  <2>2. PICK step \in {"ask", "begin"} : job' = [job EXCEPT ![s].at = step, ![s].answer = tree]
    BY <1>5 DEF FlatStarts
  <2>3. Kind = "Flat" => Wanted = tree
    BY WantedPlain
  <2> HIDE DEF tree
  <2>4. /\ job'[s].kind = job[s].kind /\ job'[s].fresh = job[s].fresh /\ job'[s].at = step
        /\ job'[s].answer = tree /\ \A i \in Places : i # s => Alike(i)
    BY <1>1, <2>2 DEF Alike, Job
  <2> QED
    BY <2>1, <2>3, <2>4, OnItsWay
<1>6. CASE FlatAccepted(s)
  <2>1. /\ job[s].kind = "Flat" /\ job[s].at = "ask" /\ job' = [job EXCEPT ![s].at = "begin"]
        /\ Undisturbed /\ UNCHANGED <<listing, flattened>>
    BY <1>6 DEF FlatAccepted, Begins, Undisturbed, asked, shown, threads
  <2>2. /\ job'[s].kind = job[s].kind /\ job'[s].fresh = job[s].fresh /\ job'[s].at = "begin"
        /\ job'[s].answer = job[s].answer /\ \A i \in Places : i # s => Alike(i)
    BY <1>1, <2>1 DEF Alike, Job
  <2>3. CASE Fetches(s)
    BY <2>1, <2>2, <2>3, OnItsWay
  <2>4. CASE ~Fetches(s)
    BY <2>1, <2>2, <2>4, Elsewhere DEF Fetches
  <2> QED
    BY <2>3, <2>4
<1>7. CASE FlatDeclined(s)
  <2>1. job[s].kind = "Flat" /\ Done(s) /\ path' = path
    BY <1>7 DEF FlatDeclined, Begins
  <2>2. CASE job[s].fresh
    BY <1>2, <1>7, <2>1, <2>2, AtItsEnd DEF FlatDeclined, Fetches, Kinds, Settled
  <2>3. CASE ~job[s].fresh
    <3>1. Undisturbed /\ UNCHANGED <<listing, flattened>>
      BY <1>7, <2>3 DEF FlatDeclined, Undisturbed, threads
    <3> QED
      BY <1>2, <2>1, <2>3, <3>1, Elsewhere DEF Fetches, Kinds
  <2> QED
    BY <2>2, <2>3
<1> QED
    BY <1>3, <1>4, <1>5, <1>6, <1>7 DEF FlatAnswered

\* And once it shows something.
LEMMA RightRuns ==
    ASSUME RightInv, NEW s \in Places, BeginFlattened(s) \/ HitsArrive(s) \/ RunLands(s) \/ RunFails(s)
    PROVE  Right'
<1> USE DEF RightInv
<1>1. job[s] \in Job /\ job \in [Places -> Job] /\ Fetches(s) /\ job[s].kind \in {"Search", "Flat"}
    BY DEF TypeOK, BeginFlattened, HitsArrive, RunLands, RunFails, InForce, Begins, Fetches, Kinds
<1>2. CASE BeginFlattened(s)
  <2>1. Publish([job EXCEPT ![s].at = "run"], RowsOf({}), job[s].answer, TRUE) /\ flattened' = TRUE
        /\ job[s].at = "begin" /\ Undisturbed
    BY <1>2 DEF BeginFlattened, InForce, Begins, Undisturbed, asked, threads
  <2>2. /\ job'[s].kind = job[s].kind /\ job'[s].fresh = job[s].fresh /\ job'[s].at = "run"
        /\ job'[s].answer = job[s].answer /\ \A i \in Places : i # s => Alike(i)
        /\ listing'.flattened = TRUE /\ listing'.answer = job[s].answer
    BY <1>1, <2>1 DEF Publish, Alike, Job
  <2> QED
    BY <1>1, <2>1, <2>2, OnItsWay
<1>3. ASSUME HitsArrive(s) \/ RunLands(s) \/ RunFails(s)
      PROVE  job[s].at = "run" /\ flattened = TRUE /\ flattened' = TRUE /\ listing.flattened = TRUE
             /\ listing.answer = job[s].answer /\ Undisturbed
  <2>1. job[s].at = "run" /\ Undisturbed /\ UNCHANGED flattened
    BY <1>3 DEF HitsArrive, RunLands, RunFails, InForce, Begins, Undisturbed, asked, threads
  <2> QED
    BY <1>1, <2>1 DEF Right, Labelled, TypeOK
<1>4. CASE HitsArrive(s)
  <2>1. PICK rows : Publish(job, rows, listing.answer, flattened)
    BY <1>4 DEF HitsArrive
  <2>2. \A i \in Places : Alike(i)
    BY <1>1, <2>1 DEF Publish, Alike, Job
  <2>3. listing'.flattened = TRUE /\ listing'.answer = job[s].answer
    BY <1>3, <1>4, <2>1 DEF Publish
  <2> QED
    BY <1>1, <1>3, <1>4, <2>2, <2>3, OnItsWay DEF Alike
<1>5. CASE RunLands(s) \/ RunFails(s)
  <2>1. \/ \E rows : Publish([job EXCEPT ![s] = Free], rows, job[s].answer, flattened)
        \/ Done(s) /\ UNCHANGED listing
    BY <1>5 DEF RunLands, RunFails, Install
  <2>2. /\ job'[s].kind = "none" /\ \A i \in Places : i # s => Alike(i)
        /\ listing'.answer = job[s].answer /\ listing'.flattened = TRUE
    <3>1. ASSUME NEW rows, Publish([job EXCEPT ![s] = Free], rows, job[s].answer, flattened)
          PROVE  /\ job'[s].kind = "none" /\ \A i \in Places : i # s => Alike(i)
                 /\ listing'.answer = job[s].answer /\ listing'.flattened = flattened
      BY <1>1, <3>1 DEF Publish, Alike, Free, Job
    <3>2. ASSUME Done(s) PROVE job'[s].kind = "none" /\ \A i \in Places : i # s => Alike(i)
      BY <1>1, <3>2 DEF Done, Alike, Free
    <3> QED
      BY <1>3, <1>5, <2>1, <3>1, <3>2
  <2>3. Kind' = Kind /\ Wanted' = Wanted
    BY <1>3, <1>5, SameQuestion DEF Undisturbed
  <2>4. job[s].kind = Kind /\ job[s].answer = Wanted => Shows'
    BY <1>1, <1>3, <1>5, <2>2, <2>3 DEF Shows
  <2> QED
    BY <1>1, <1>3, <1>5, <2>2, <2>4, AtItsEnd DEF Undisturbed
<1> QED
    BY <1>2, <1>4, <1>5

LEMMA RightMerges ==
    ASSUME RightInv, NEW s \in Places, Superseded(s) \/ MergeStarts(s) \/ MergeLists(s) \/ MergeLands(s)
    PROVE  Right'
<1> USE DEF RightInv
<1>1. job[s] \in Job /\ job \in [Places -> Job] /\ ~Fetches(s)
    BY DEF TypeOK, Superseded, MergeStarts, MergeLists, MergeLands, Begins, Fetches, Kinds
<1>2. ASSUME Done(s) PROVE job'[s].kind = "none" /\ ~Fetches(s)' /\ \A i \in Places : i # s => Alike(i)
    BY <1>1, <1>2 DEF Done, Alike, Free, Fetches, Kinds
<1>3. ASSUME Done(s), UNCHANGED <<listing, flattened>>, Undisturbed PROVE Right'
    BY <1>1, <1>2, <1>3, Elsewhere
<1>4. CASE Superseded(s)
    BY <1>3, <1>4 DEF Superseded, Undisturbed, asked, shown, threads
<1>5. CASE MergeStarts(s)
  <2>1. UNCHANGED <<listing, flattened>> /\ Undisturbed /\ job[s].kind = "Merge"
    BY <1>5 DEF MergeStarts, Begins, Undisturbed, asked, shown, threads
  <2> DEFINE had == Held(listing.rows)
             j == [job[s] EXCEPT !.at = "list", !.fresh = TRUE, !.same = TRUE, !.answer = Plain, !.had = had]
  <2>2. Done(s) \/ job' = [job EXCEPT ![s] = j]
    BY <1>1, <1>5 DEF MergeStarts, Plain
  <2>3. CASE job' = [job EXCEPT ![s] = j]
    <3> HIDE DEF had
    <3>1. job'[s].kind = "Merge" /\ job'[s].answer = Plain /\ \A i \in Places : i # s => Alike(i)
      BY <1>1, <2>1, <2>3 DEF Alike, Job
    <3> QED
      BY <1>1, <2>1, <3>1, Elsewhere DEF Fetches, Kinds
  <2> QED
    BY <1>3, <2>1, <2>2, <2>3
<1>6. CASE MergeLists(s)
  <2>1. UNCHANGED <<listing, flattened>> /\ Undisturbed /\ job[s].kind = "Merge"
    BY <1>6 DEF MergeLists, Begins, Undisturbed, asked, shown, threads
  <2> DEFINE read == Listed(job[s].answer.folder)
  <2>2. Done(s) \/ job' = [job EXCEPT ![s].at = "land", ![s].read = read]
    BY <1>6 DEF MergeLists
  <2>3. CASE job' = [job EXCEPT ![s].at = "land", ![s].read = read]
    <3> HIDE DEF read
    <3>1. /\ job'[s].kind = "Merge" /\ job'[s].answer = job[s].answer /\ job'[s].fresh = job[s].fresh
          /\ \A i \in Places : i # s => Alike(i)
      BY <1>1, <2>1, <2>3 DEF Alike, Job
    <3> QED
      BY <1>1, <2>1, <3>1, Elsewhere DEF Fetches, Kinds, Merging
  <2> QED
    BY <1>3, <2>1, <2>2, <2>3
<1>7. CASE MergeLands(s)
  <2>1. UNCHANGED flattened /\ Undisturbed /\ job[s].kind = "Merge"
    BY <1>7 DEF MergeLands, Begins, Undisturbed, asked, threads
  <2>2. CASE ~Stands(job[s])
    BY <1>3, <1>7, <2>1, <2>2 DEF MergeLands
  <2>3. CASE Stands(job[s])
    <3>1. Publish([job EXCEPT ![s] = Free], Merged(job[s]), job[s].answer, FALSE) /\ job[s].fresh /\ flattened = FALSE
      BY <1>7, <2>3 DEF MergeLands, Stands, TypeOK
    <3>2. /\ job'[s].kind = "none" /\ \A i \in Places : i # s => Alike(i)
          /\ listing'.answer = job[s].answer /\ listing'.flattened = FALSE
      BY <1>1, <3>1 DEF Publish, Alike, Free, Job
    <3>3. Kind' = Kind /\ Wanted' = Wanted /\ Plain' = Plain /\ Settled' = Settled
      BY <2>1, SameQuestion DEF Settled, Undisturbed
    <3>4. \A i \in Places : Fetches(i)' = Fetches(i) /\ (Fetches(i) => i # s)
      BY <1>1, <3>2 DEF Fetches, Alike, Kinds
    <3>5. One' /\ Labelled'
      BY <2>1, <3>1, <3>2, <3>4 DEF Right, One, Labelled, Alike
    <3>6. ASSUME Settled, Fetched, Merging PROVE Fetched' /\ Merging'
      BY <3>2, <3>3, <3>4, <3>6 DEF Fetched, Merging, Alike
    <3>7. ASSUME Settled, Merging, Shows PROVE Shows'
      <4>1. job[s].answer = Plain
        BY <2>1, <3>1, <3>7 DEF Merging
      <4>2. Kind = "Directory"
        BY <3>1, <3>7 DEF Shows
      <4> QED
        BY <2>1, <3>1, <3>2, <3>3, <4>1, <4>2, WantedPlain DEF Shows
    <3> QED
      BY <3>3, <3>4, <3>5, <3>6, <3>7 DEF Right, Answers
  <2> QED
    BY <2>2, <2>3
<1> QED
    BY <1>4, <1>5, <1>6, <1>7

LEMMA RightNext == TypeOK /\ Right /\ [Next]_vars => Right'
<1> SUFFICES ASSUME RightInv, [Next]_vars PROVE Right'
    BY DEF RightInv
<1> USE DEF RightInv
<1>1. CASE Quiet
  <2>1. PICK s \in Places : job[s].kind = "none" /\ job' = [job EXCEPT ![s] = [Free EXCEPT !.kind = "Merge"]]
    BY <1>1 DEF Quiet
  <2>2. job'[s].kind = "Merge" /\ ~job'[s].fresh /\ \A i \in Places : i # s => Alike(i)
    BY <2>1 DEF Free, Alike, TypeOK
  <2>3. Undisturbed /\ UNCHANGED <<listing, flattened>>
    BY <1>1 DEF Quiet, Undisturbed, asked, shown, threads
  <2> QED
    BY <2>1, <2>2, <2>3, Elsewhere DEF Fetches, Kinds
<1>2. CASE IndexReports
  <2>1. at["indexer"] = "idle" /\ at' = [at EXCEPT !["indexer"] = at'["indexer"]] /\ at \in [Actors -> Steps]
        /\ UNCHANGED <<goal, path, typing>>
    BY <1>2, Threads DEF IndexReports, Goes, asked, TypeOK
  <2>2. Pending => Pending'
    BY <2>1, Threads DEF Pending
  <2> QED
    BY <1>2, <2>2, StaysRight DEF IndexReports, asked, shown
<1>3. ASSUME NEW f \in Folders, Change(f) PROVE Right'
    BY <1>3, StaysRight, SameQuestion DEF Change, asked, shown, threads
<1>4. CASE UNCHANGED vars
    BY <1>4, StaysRight, SameQuestion DEF vars, asked, shown, threads
<1>5. ASSUME NEW s \in Places, JobStep(s) \/ FlatAnswered(s) PROVE Right'
    BY <1>5, RightLoads, RightStarts, RightRuns, RightMerges DEF JobStep
<1> QED
    BY <1>1, <1>2, <1>3, <1>4, <1>5, RightRequests, RightThreads DEF Next

\* Whatever navigations, searches, switches of the view, reports and merges overlap, on any
\* number of threads and jobs, the rows that the tab comes to rest with are those it was
\* last asked for, unless it told the user that it leaves the others.
THEOREM RestsWithWhatWasAsked == Spec => []RestShowsWhatWasAsked
<1>1. Right => RestShowsWhatWasAsked
  <2> SUFFICES ASSUME Right, AtRest, path # Nowhere, ~stays
               PROVE  listing.answer = Wanted /\ listing.flattened = (Wanted.kind # "Directory")
    BY DEF RestShowsWhatWasAsked
  <2>1. Settled /\ \A s \in Places : ~Fetches(s)
    BY Threads DEF AtRest, Settled, Pending, Fetches, Kinds
  <2>2. Shows
    BY <2>1 DEF Right, Answers
  <2>3. Wanted.kind = Kind
    BY DEF Wanted
  <2> QED
    BY <2>2, <2>3 DEF Shows
<1> QED
    BY <1>1, RightInit, RightNext, TabTyped, PTL DEF Spec

================================================================================
