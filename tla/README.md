# A TLA+ model of bertbrowser

bertbrowser is a Windows file manager: a Rust core (`src/src/crates`) under a C++
window (`src/src/app`). Its listings and viewers are ordinary single-owner code. What is hard
to get right in it is a handful of components that run beside each other, or that
must be able to take back what they did. Those are what is modelled here.

Paths below are relative to the repository; `crates/` stands for `src/crates/` in it.

## Inventory

| component | state it keeps | operations | talks to |
|---|---|---|---|
| **index helper process** (`bb-indexer/src/main.rs`, `self_checks.rs`) | the presence claim, its lifetime token | start, look for an app, serve one, exit, crash | starts the service, serves the host over the pipe |
| **index service** (`bb-core/src/mft/service.rs`, `state.rs`) | finished roots, drives being built with a percentage, change-log policy | one thread per volume: open, build, report, tail | calls back the host |
| **index host** (`mft/host.rs`) | the session's stream, what this app was last told | greet, replay, report news, read messages | the service (subscription), the pipe |
| **index pipe** (`bb-shell/src/pipe.rs`, `bb-indexer/src/pipe.rs`) | one posted connect, one connection | accept, connect, read, write, close | host and client |
| **index client** (`mft/client.rs`, `transport.rs`, `bb-app/src/services/index.rs`) | the gate: worker, session token, stream, failure, offers, policy; a mirror of the service's state | start_with, stop, retry, dispose, set_change_log; one worker thread per session | the pipe, the prompt, the presence probe |
| **undo history** (`undo/stack.rs`, `budget.rs`) | entries, cursor, budget | push, applied, clear, set_budget, spans, eviction | owned by the app under one lock |
| **operation queue** (`bb-app/src/ops/mod.rs`, `undo/navigator.rs`, `transfer/pause_gate.rs`) | waiting jobs, the running one, draining, shutdown, tokens, the pause gate | accept, run, cancel, pause, undo walk, shutdown | the history, dialogs on the UI thread, the executors |
| **transfer executor and record** (`transfer/executor.rs`, `redo.rs`, `undo/transfer_record.rs`, `elevation/retry.rs`) | the disk, staging folders, an outcome | execute, elevated second pass, undo, undo_copies, redo, retire | the user's own changes to the same folders |
| **volume indexer** (`mft/volume_indexer.rs`, `path_builder.rs`, `mft_reader.rs`, `usn.rs`) | directory map, pending renames, journal cursor, generation | open, build from the raw table or from the names-only enumeration, sweep, register, tail | the index database, the service, the volume and its journal |
| **crawled index** (`fs/search_service.rs`, `index_watcher.rs`, `index_crawler.rs`, `walker.rs`) | roots being crawled, slots, watchers in the order of their use, what was noticed and is to be applied | serve or crawl, attach, evict, walk, sweep, register, drain, overflow | the index database, the folders |
| **index database** (`data/fs_index.rs`) | rows by path, roots and their freshness | upsert, sweep, mark stale, covering root | both indexers |
| **delete and rename executors and their records** (`delete/executor.rs`, `recycle_bin.rs`, `rename/executor.rs`, `undo/delete_record.rs`, `rename_record.rs`) | holding folders, temporary names, the Recycle Bin, outcomes | execute, elevated second pass, undo, redo, retire, purge at start | the queue, the user's own changes to the same folder |
| metadata and archive executors | one file written aside and put in place of another | execute, undo | the queue |
| elevation pipe (`elevation/`) | one request and its answer | run a pass as administrator | the queue |
| **tab** (`bb-app/src/browse/tabs.rs`, `fs/dir_watcher.rs`, `services/pool.rs`) | path, search texts, flat view, rows and what they answer, generation, listing version, watcher | navigate, back, search, flatten, refresh, reveal, open a container; load, search, flatten and merge on the pool | the pool, the operations thread, both indexes, the folder's watcher |
| everything else (search language, rename rules, panes, settings, theming, preview, updates, C ABI, window, benches) | | | |

What makes them correct, and what is hard:

* **Helper and app.** Two processes, one pipe instance, a gate whose lock is let go
  before anything is written, workers that are waited for only two seconds,
  helpers that were there before the app, die under it or speak an older version.
  At most one session may be live, a live one must be reachable, the mirror must be
  what the helper knows or nothing, every call must return and every start be
  answered.
* **Host.** It subscribes before it replays, so news and replay overlap; several
  volume threads report at once, to an app that may be the second of its life. No
  change may be lost, none told twice in a way that leaves a stale one standing.
* **Queue and history.** A UI thread that looks and then acts, a transfer thread that
  does the same in the opposite order, a history locked across a question to the
  user, eviction in the middle of a walk, panics, and closing at any moment. Every
  record must be in the history or on one way to being retired; an undo must take
  back what was shown; closing must come to an end.
* **Transfers.** An item displaces another, fails, is cancelled, is denied and done
  by a helper in a second pass, is undone in part, while the user goes on working. Nothing
  of the user's may be lost; undo restores, redo repeats.
* **Renames and deletes.** Chains and swaps go by way of temporary names, deleted items into holding
  folders whose only trace is a record; any item may be refused, denied and done by a helper that is
  lost, while the user goes on and the app may be killed. Nothing may be lost; what the
  history says must be so.
* **Index by journal and by crawl.** A snapshot that is fuzzy and then caught up from records that tell of a
  file by number while its folders move; a stale mark set while the build that
  will clear it is running; changes noticed now and applied later, in batches, by asking the disk what is there by then; a watcher that is evicted or overflows. What a
  search is served from without a new crawl must be what is there.

* **Tab.** Every operation is a few short sections under a lock with work between them, on six kinds of thread; a job that
  is no longer wanted is not stopped but ignored, by numbers it took when it began. What the tab comes to rest with must
  be what it was last asked for, a merge of a difference must not be applied to other rows than it was worked
  out from, the activity bar must go out, and a search must not set itself off for ever.

`PROJECT.json` lists each hazard at the line where it bites, with the properties that
watch it, or a note saying why none does.

## Modules

```
IndexWire --+--> IndexHelper --+--> HostFeed (implements IndexFeed) --> HostFeed_proofs
IndexState -+--> IndexClient --+--> IndexSession --> IndexSession_proofs
IndexRows --+--> VolumeIndex --> MCVolumeIndex, VolumeIndex_proofs
            +--> CrawledIndex -> MCCrawledIndex, CrawledIndex_proofs
UndoStack -----> OperationQueue (implements UndoLine) --> OperationQueue_proofs
TransferDisk --> Transfer --> Transfer_proofs
FolderDisk ----> FolderBatch --> FolderWork --> MCFolderWork, FolderWork_proofs
Tab -----------> Tab_proofs
```

**IndexWire** is the pipe. A stream, as either side holds it, is the number of the
connection it was opened on, and only the newest connection carries anything.
`PostConnect` and `TakeConnection` are the halves of `PipeServer::accept`;
`listening = "signalled"` is the state between the helper's connect and the accept that
takes it, and a `"pending"` or `"signalled"` connect outlives an accept that
timed out, as the code's `state.pending` does. Hanging up discards what
the client has not read, which is what `DisconnectNamedPipe` does; what the
*helper* wrote before it went can still be read. A helper parked in its blocking read
gets a message at once (`inbox`), and what its `LineReader` has
taken survives the hang-up.

**IndexState** is `MftIndexState`; the helper's service and the app's mirror are two values
of it. `Mirrored` is the part of `converse` that updates the mirror.

**IndexHelper** has three actors: the serving thread (`ServeNext`, phases named after the lines of
`host.run`: begun, subscribed, greeted, toldBuilding, replaying, reading), one thread per volume
(`VolumeNext`, the steps of `run_volume`, each change of the service apart from the
telling of it), and the process (start, crash, self-check). `News` is what `status_changed` sends
for the difference between the service now and `reported_building`.

**IndexClient** has one action for each stretch of a worker or a call between two points where
the gate is let go or the thread blocks. Each write to the gate and the update of the mirror beside it
(`fail`, `settle`, `announce`) is one step. `EndWaited` is the two-second wait: the worker is
done, or, if `WaitMayExpire`, still held up by a prompt or by an accept, which are the places the
code can be in that long. What a worker may do is not limited by being cancelled, except where
the code looks at the token.

**IndexSession** puts the two together with launching, starts by the sign-in task, crashes and
the user's calls. `inForce` is a history variable for the policy properties; `fresh`, for `MirrorAgrees`, tells whether
the mirror was empty when the latest session was begun (a session that follows a retry may find in it what a cancelled one
heard, see "Met on the way").

**UndoStack** is the history. `Evict` is the loop of `evict` in closed form: of n evictions
`FromFront` take the oldest done entry, the others the furthest undone one, and n is the least
number after which the history is within its budget. **UndoLine** is what it promises: a line
with a point on it that forgets only at its ends, and never what undo would take next.

**OperationQueue** is the transfer thread (`ThreadNext`) and the UI thread (`UiContinues`,
`UserActs`). Each job's own work is abstracted to what the queue sees of it: it finds names
taken, is refused something, did something worth recording or not. `ui` is the call the UI thread is in the middle
of where it lets a lock go and takes one again (`op_undo_step`, `cancel_op`, `set_undo_budget`,
`bb_app_destroy`). `owed` and `uiOwed` are records released and not yet retired.

**TransferDisk** and **Transfer** are one move or merged paste for its whole life. A path is a place
and a numbered name; an entry has an identity that outlives a rename and data that a copy shares. An item
is worked on in two steps, so that the user or a failure can come between the clearing of
a name (`Displaces`, `Numbers`) and the write (`Written`, `WriteFails`, `WriteCancelled`). `Prunes`,
`HelperAnswers`, `Records`, `UndoBegins`, `RedoBegins`, `Retires` are
`prune_emptied`, `merge_transfer`/`merge_transfer_undo`, `for_outcome`, the two sides of `step`, and `retire`.

**FolderDisk**, **FolderBatch** and **FolderWork** are renames and deletes in one folder. A place is a name in the folder, a
temporary name, a place in a holding folder (at the root of the volume, or beside the item) or one in
the Recycle Bin; an entry is an id. `FolderBatch` is one pass of an executor over its items, one item a step:
a rename first moves aside every item whose name another one wants (`StepsAside`), then
gives the names (`Renames`, or `RenameFails`, which puts back what stood aside if it can); a delete holds, erases or
gathers for the bin, which takes what was gathered in one call at the end; a restore puts back in
reverse. `Accepts` starts the elevated pass over what was denied, and `Merged` is
`merge_rename`, `merge_delete` and `merge_delete_undo`. `FolderWork` is around it: the plans the planners let pass, records, undo,
redo, `Forgets` (a record retired, which is where held items are erased), `Killed`, `Purges` (a start a day
later), and the user, who makes and removes entries and empties the bin at any moment. `Among`, which keeps some elements of
a list in their order, is given by counting, because the library's own filter is recursive and the
prover has nothing to say of a recursive operator; `Times` counts an item in a list for `Accounted`.

**IndexRows** is what `fs_index.rs` does for the indexers: rows by path with a generation; upsert, sweep by
generation, delete of a subtree, rename of one.

**VolumeIndex** is one NTFS volume for a run of helpers. Programs change the file table (`disk`) and the journal together;
a record tells the number, the parent's number, the name and the reasons its handle has gathered. The
helper opens the journal, then reads the table one record a step, from the raw table or, if that cannot be read, from the
enumeration of names; writes rows and directory map, sweeps, registers, and applies the journal from where it stood
before the build. `Applies` is the body of `tail`'s loop, `Resolves` its lookup of the parent. `HelperEnds` is any end of the
process, with the chunks a build had written by then. A journal that is lost is `TailEnds`.

**CrawledIndex** is the searched folders no volume index covers. A search (`Searches`) is served from a root that is fresh
(`Fresh`: complete, not stale and watched) or starts its crawl: `Attaches` (with the eviction of
the least recently used watcher), `Begins` when a slot is free, `Lists` one folder at a time, `WritesFound`, `Sweeps`,
`Registers`. What a watcher hears goes to `pending`; `Drains` takes it as a batch and `ApplyNext` applies one change, asking the disk what
an entry is by now, as `collect_upsert` does. `WatcherFails` is an overflow; `Restarts` leaves only the database.

**Tab** is one tab. `path`, `searchText`, `globalText` and `flat` are what it is asked for; `listing` is its rows with what
they answer and how they are labelled; `flattened`, `error` and `loading` are its flags. A job stands in a slot of the pool
(`job`) and takes one step for each section under the lock: `LoadStarts`, `LoadLists`, `LoadLands` are `load_directory`, `MergeStarts` to `MergeLands`
`merge_directory`, `SearchStarts`, `FlatStarts`, `BeginFlattened`, `HitsArrive`, `RunLands`, `RunFails` the searches and flat views. Threads that operate the
tab are at a step (`at`) with the folder they make for (`goal`): `Navigate` to `StartWatching` is `navigate` with `set_path_and_load`, then `RefreshView`.
Generation and listing version only grow and are only compared with what is in force, so a job keeps the outcome of the comparison
(`fresh`, `same`) and a new generation (`Superseding`) or a new listing (`Publish`) lowers it in all others. A listing has the entries
of the folder as it was read; a search or a flat view finds any set of entries.

## Runs

All constants are small sets; every bound is a CONSTANT with "bound" in its comment. Deadlock is not
checked anywhere: bounds run out, an app closes, a transfer is over, so every system here may stop.

| run | system | about |
|---|---|---|
| `HostFeed` | two volumes, two apps one after the other, one helper | the refinement of `IndexFeed` with its liveness |
| `IndexSession` | two sessions, two connections, one volume, one helper process, two policies, crashes | `SoleWorker`, `LiveStreamReachable`, `PolicyOfThisSession`, `NothingClaimedWithoutHelper`, `MirrorAgrees` |
| `IndexSessionLive` | no volume, two helper processes, two versions, one policy, with fairness | `StartIsAnswered`, `CallsReturn`, `LossIsNoticed` |
| `OperationQueue` | two jobs at once, three records, spans of two, budgets of 2 entries and 1 or 3 units | order, budget, retirement, busy flag, undo's meaning, cancel; refinement of `UndoLine`; `AcceptedEnds`, `CloseEnds` |
| `Transfer` | two items of one name from two folders, at most one a folder; one change by the user; three undos and redos | `NothingLost`, `RecordKnowsStaging`, `UndoRestores`, `RedoRepeats` |
| `FolderWork` | three names, two items in all operations together, four acts (operations, undos, redos, changes by the user, kills) | `NothingLost`, `RecordsAreTrue`, `Accounted` |
| `VolumeIndex` | two record numbers, two names, paths of two, three changes, two helpers | `IndexedIsThere`, `HiddenIsHidden`, `LiveHasTail` |
| `CrawledIndex` | two searched folders, one watcher, one slot, two names below, two changes, two crawls, one restart | `FreshIsTrue` |
| `Tab` | two folders of two entries, a text that is a search and one that is refused, two threads that navigate, two jobs, two events (requests, changes in the folders, reports) | `RestShowsWhatWasAsked`, `RestIsNotLoading`, `MergeIsWhole`, `SettlesDown` |
| `OperationQueueQuestion` | as `OperationQueue`, two records | violates `QuestionCanBeAnswered` |
| `TransferFolders` | as `Transfer`, one undo | violates `EditsKept` |
| `FolderWorkLeftovers` | as `FolderWork`, two entries, and a purge may take what no record tells of | violates `UnrestoredIsKept` |

Two properties that do not hold are kept as definitions without a run of their own, with the reason in their
comments: `PolicyRelayed` (`IndexSession`) and `SpanInHistory` (`OperationQueue`); a third, `DisplacedGoesBack`
(`Transfer`), fails only with the mishap `"half written"`. Each can be checked by naming it in a cfg.

Why these bounds are enough for the cases meant: two workers are what it takes for one to
be ended while the other begins, and two connections for a stale stream; two unread
messages let a writer block and a reader lag. Two volumes interleave in `status_changed`. One helper
process at a time is what the presence lock enforces; two over a behaviour (`IndexSessionLive`) let one
start itself while another is being launched, so that the wrong one answers, and one
still crashes, exits or is found by the second session. Three records exceed a budget of two entries at
either end, with the cursor between them; held sizes 0 and 2 against limits
1 and 3 make one entry, or two, too much. Two items of one name are the smallest plan in which one
displaces or numbers the other and order matters; a second name would add only unrelated
items. Two items over three names make a swap, a chain into a free name and a delete beside them; four acts are an
operation, its undo, its redo and something of the user's in between. Two record numbers with paths of two are a folder and what
is in it, and a number used again; three changes put one before, one during and one after the
reading of a record; two builds make rows of an older generation. Two roots for one watcher are what it takes to
evict; a crawl of one beside a drain of the other is what the slot and the batch interleave with. A tab needs two folders for a stale one, two jobs for one to
supersede the other, two entries for one that went and one that came, and two events for any two requests, or a request and
a change, to overlap in every order; what they set going takes as many steps as it takes.

What the runs do not allow, and why:

* `WaitMayExpire = FALSE` in the session runs. With it TRUE, `LiveStreamReachable` fails (see below);
  `SoleWorker` holds with both, and is proved for both. A retiring worker
  blocked for ever on a helper that is itself blocked on a full pipe would be an artefact of
  waiting without limit, so the live run has no volumes (nothing then fills the pipe).
* `Mishaps = {}` in `Transfer`. Each mishap names a case in which the executor knowingly or by a
  narrow window gives up: the user takes a name between the check and the write (`"user meddles"`), a folder's
  copy fails half way (`"half written"`), what a cancelled or cross-drive write left of a folder cannot be removed
  (`"not cleaned up"`), a displaced entry cannot be put back (`"not put back"`). `NothingLost` fails
  under each.
* `Habits` in `VolumeIndex`, of which the passing run allows only `"hides"`. With any other the index is wrong
  after the tail has caught up, and TLC shows how:
  * `"moves in build"`: an entry renamed after `open` noted the journal's position and before its record is read.
    `tail` finds the new name in the rows already and renames the old path onto it; with the
    old path absent the row that is there is lost, although keeping the snapshot true is the journal's job
    (`docs/search-indexing.md:204`).
  * `"keeps handle"`: a second old name overwrites the first in `pending_renames` before any close.
  * `"reuses number"`: a number deleted and used again during the build resolves old records against the new entry.
  * `"reuses folder path"`: a folder takes the path another has left, and rows below it are mixed up while the
    journal is applied.
  * `"hides by place"`: `rewrite_dir_subtree` and `FsIndex::rename` move paths, not hidden flags.

  `Mishaps = {}`: with `"cut short"` an enumeration that fails half way is taken for the end of the table, and the sweep
  then removes the rest.
* `Circumstances = {}` in `CrawledIndex`. `"moves at once"`: two moves of one entry within a batch of 250 ms, as a
  program does that saves by way of a temporary name, drop it from the index, because the first
  is applied as a look at a place that is empty by then. `"removes in crawl"`: an entry listed, deleted and
  then written has a row of the crawl's own generation, which the sweep spares. `"crawls at once"`: a crawl that begins
  before what was noticed ahead of it is applied has its rows patched by changes older than they are.
  `"drain fails"`, `"crawl fails"`: a write that fails marks a root stale that a crawl under way marks fresh
  again, or leaves a fresh root as it was with part of the rows rewritten. Besides, `FreshIsTrue` is about a root with no crawl in
  flight: a search during one is served what there is.
* `Circumstances = {}` in `FolderWork`, so that a purge takes only what the user gave up: the other case is the
  violation run.
* `OperationQueue` includes the walk that
  panics and the blocked UI thread, and `RecordsAccountedFor` has a place (`lost`) for
  what a panic drops.

**Fairness.** `HostFeed`: the serving thread, each volume thread and the app's reader. `IndexSession`: the serving
thread, each volume thread, each worker and each caller; a prompt is answered and an accept
times out because the code gives both a limit or a human. `OperationQueue`: the two threads, and that a raised question's
dialog is shown. `Tab`: each thread that is in the middle of an operation, each job, and that a pause in typing or in the changes of a
folder comes; whoever asks for a flat view may leave its question unanswered. In none is it assumed that the user does anything, that a helper starts or crashes. All of it is
weak: a thread that can run goes on being able to. The other modules state no fairness: what they say is about
every state, also of a process that has stopped.

Each property of a passing run has a mutant in the modules (an operator of its own before the one it
spoils, marked as such) that makes TLC find it violated.

## What is proved

Every theorem holds for all values of the constants under the named assumptions of the modules, and nothing else is
taken for granted but what a theorem says itself.

`IndexSession_proofs`:

* `OneLiveSession`, that `SoleWorker` is an invariant for any number of
  workers, callers, helpers, connections, policies and volumes, and whether or not the wait may expire. The inductive invariant is `SoleWorker`
  with the types of the three variables it reads (`worker`, `cancelled`, `at`). The point of the
  argument is in `StartWithKeepsInv` (no worker on record means no live one), `RetireKeepsInv` (the record is cleared only
  if it is one's own) and `EndTakesKeepsInv` (who is taken off the record is cancelled in the same step); every other step of a
  worker moves it from one live place to another.
* `LiveStreamIsOnTheGate`, that `LiveStreamReachable` is one if the wait never expires and start, stop
  and retry come from one thread, as they do in the app. `ReachInv` adds that nobody is on record while a session is being ended
  (`EndsAlone`), that a worker at work is on record or being waited for (`WaitedFor`), and that one that
  converses does so on the stream of the gate (`OnGate`). From these no two workers are at work at once
  (`OneAtWork`), which is why the unconditional `gate.stream = None` of a retiring worker harms nobody. Both
  assumptions are needed: TLC finds a counterexample without the first (`WaitMayExpire = TRUE` in the cfg), and with two callers a
  second one starts a session while the first is still waiting.

* `NothingIsClaimed`, that `NothingClaimedWithoutHelper` is one under the same two assumptions. `ClaimInv` adds that who reads from
  a helper was greeted by it (`Greeted`), and that nobody is at work any more when a stop clears the mirror (`StopOver`).
* `TheMirrorAgrees`, that `MirrorAgrees` is one under these assumptions. It speaks of quiet, so the invariant has to say
  what is on its way: `MirrorInv` follows everything the helper has said to this connection and the app has not yet heard, and states
  that the mirror, led through it message by message, comes to what the host believes it has told (`OpenedWhole`, `ReadsOn`), which
  differs from what the service knows only where a thread of a volume has changed something and not yet told it (`HostShape`), and that before
  the first word the mirror is empty (`EmptyUntilHeard`). What a list of messages makes of a mirror is not computed but related: `Leads` says that there
  is a sequence of mirrors, one to each message, and its lemmas (`LeadsNone`, `LeadsOne`, `LeadsThen`) take the place of induction over the list.
* `ThePolicyIsThisSessions`, that `PolicyOfThisSession` is one under the same assumptions: a policy that is on the pipe, in
  the helper's hand, or recorded, is one in force since the session was ready (`SendsNow`, `RelaysNow`, `LeftInForce`).

* `SessionTyped`, the type invariant of the composition. What a read takes from the pipe has the type of what
  some other process wrote, so the types of both ends and of the pipe are one invariant.

`HostFeed_proofs`, for any volumes, policies and number of connections (a finite set of volumes, `HelperAssumption`):

* `FeedIsKept`, that `HostFeed` implements the safety part of `IndexFeed` (`Feed!Safety`, its initial states and its next-state
  relation): `VolumeSteps`, `ComingSteps` and `ReadSteps` map each action to the one of `IndexFeed` it is, or to a stutter. The hard
  one is the app's reading, because what it reads was written while builds went on, some of which are over by now.
* `FeedIsSound`, that the invariant this rests on holds, `FeedInv`. `Built` says that a volume is begun once and where its thread is when it is building or
  finished; `Parties` that the app's end of the pipe and the host's session belong together; `Watched` that the app has seen begun
  only what was begun and seen ended only what is over, and, with `Line`, that every message still to be read is so (`Honest`), and in its
  turn (`InTurn`): no begin for a build that the app saw end or that a message ahead of it ends, no end without a begin seen or ahead. What
  `reported_building` holds as told, the app has seen or will read. `Honest` outlasts a message's way because what it says cannot become
  false again, which is where it matters that a volume is built once.
* The host's news are sequences put together by a fold, one for each drive: `Flattened` says what such a sequence holds and `NewsHold` what the news
  hold, by counting along the fold (`JoinOneMore`, `FlatOneMore`); `SaidKeeps` is what any message that may be said (`Sayable`) does to the line.

`OperationQueue_proofs`, for any jobs, sizes, limits and bounds:

* `HistoryStaysInOrder`. `Ordered(es, c, n)` is kept by eviction because what it leaves is a stretch that holds the
  cursor (`Kept`, `StretchOrdered`), by a push, by a step across the cursor, and by the
  rest; `StackStep` collects them.
* `BusyWhileWorking`, `UndoMeansWhatWasSeen`, `CancelledWhileWaitingNeverRuns`. None is inductive alone; `WorkInv`
  adds that the thread is between jobs exactly when none is running (`Between`), that waiting and running jobs are different
  operations (`Distinct`), that an undo is at the head of the queue with nothing running, or is running, and nothing was recorded since it was
  accepted (`UndoFirst`), and that a stopped job's token stays cancelled (`Stopped`). `UndoFirst` is where the
  refusal of an undo while draining is needed: without it a transfer could record in between.
* `HistoryStaysWithinBudget`, that `WithinBudget` is an invariant: a history over its budget is one entry in effect. Eviction is the least
  number that brings it back within, so `EvictWithin` has to show that there is one; after the undo or redo of an entry whose size
  has changed, and after a new budget, the same lemma applies.
* `QueueTyped`, the type invariant of the whole module.
* `EveryRecordHasItsPlace`, that `RecordsAccountedFor` is an invariant. The property counts; `RecordsInv` says the same with
  disjoint sets (`Known`, `Apart`), and that either thread owes records only between the change that released
  them and their retirement (`OwesInTime`), so that no assignment to `owed` overwrites
  what is still in it. `Counted` gets the count back from the sets.
* `HistoryIsALine`, that the queue implements `UndoLine`. The abstract line is the ids on either side of the
  cursor. `EvictLeaves` is the lemma about eviction in closed form; `PushIsDo`, `UndoneIsUndo`, `RedoneIsRedo`,
  `SetBudgetIsForget` and `ClearIsClear` are the operations; `LineStep` finds one of them, or a stutter, in every step of the queue.

`VolumeIndex_proofs`, for any names, any number of record numbers and any depth, changes and helpers:

* `LiveVolumeIsTailed` (`LiveHasTail`). A volume is marked indexed only as its thread goes on
  to tail, and the thread leaves that phase only with the root stale, or with its process.
* `VolumeTypeCorrect` (`TypeOK`), from `VolumeTyped`, which adds that nodes, records, directory map and pending renames are made of names. That the
  recursion which resolves a chain of parents has a value, and what it is, is an induction over depth (`PlacesExist`, `PlacesAre`), as the set of the
  depths at which it holds (`Counting`).
* `TailCatchesUp` (`IndexedIsThere`) and `HiddenCatchesUp` (`HiddenIsHidden`), if `Habits \subseteq {"hides"}` and `Mishaps = {}`, as in the run; with any other
  habit or mishap they are false (see "Runs"). Both speak of a journal that has been read to its end, so the invariant, `VolumeTrue`, has to say what it
  means to be behind, and does so by what the journal stands for: there are volumes `h[0]`, ..., `h[n]`, the last the present one, each of which
  the next record makes of the one before.
  * While the table is read the journal tells everything since it was opened (`Followed`), what was read was on one of those volumes, and what has been on all
    of them is not missing from what has been read (`ReadOf`); together they are `Watched`. No record number is used again and nothing moves in that time, so there
    is one table `U` that all those volumes are parts of, and one path to each entry.
  * `WritesKept` is the moment the rows are written: though they are of no volume there ever was, each path that no record of the journal speaks of has the row
    it has on `h[0]`, and each folder that stays is in the map (`Behind`). The sweep then takes what older builds wrote (`SweptRows`).
  * `BehindOn`: a record applied to such rows leaves rows that are one record less behind, also when its entry has gone since, or its parent is not in the map and it is
    left out, because a later record has the last word (`LastWord`, `Reached`). When that stretch of the journal is used up the rows are the volume's (`ExactIs`).
  * From then on records are applied to rows that are exact, and a move is three of them. `OldName`, `Heard` and `Happens` say which of the three is next and that
    `pending_renames` has the old path; `MoveExact` that the rename of rows and the rewriting of the directory map come to what the chains of parents come to on the
    changed volume (`MovedPaths`, `RebasedNext`), and that nothing is in the way (`MoveIsClear`). `TailStep` puts the two stretches together (`Kept`, from `Story`).
  * What programs do is one record of such a history, or three (`CreateTells`, `DeleteTells`, `HideTells`, `MoveTells`), and so lengthens it (`KeptWhileUsed`, `WatchedWhileUsed`).

`CrawledIndex_proofs`, for any names, roots, watchers, slots and depth, and any number of changes, crawls and restarts:

* `TypeCorrect` (`TypeOK`), from `Typed`, which assumes nothing about circumstances. Its one part that is not a type is `Placed`, that on the
  disk there is a folder around everything: the walk reaches an entry only through those. `PlacedAtFirst` is an induction over depth.
* `FreshTrue` (`FreshIsTrue`) if `Circumstances = {}`. The property speaks of a root when nothing is on its way, so the invariant, `InTruth`, says
  what is. `Queue` is what was noticed, in order, in the drain's batch and behind it, and `Known` is what the rows say once what the drain
  has collected is written. `WillBe` reads off the queue what will become of one path: the disk will be asked for it (`Given`), it is as it is known (`Kept`), or
  a rename brings it from where it is known (`Brought`); and `InStepWith` says that this is what the disk has. A change on the disk and its
  being noticed keep that (`InStepMore`), and so does applying the first of the queue (`InStepNext`), though the disk it asks is the present one and the queue is
  about earlier ones. Both need that no rename is of something noticed before it (`RenamesFirst`), which is what `"moves at once"` breaks.
  While a root is crawled its rows are in step with nothing yet. `SoundWith` says that all that was found, collected or written in this crawl's generation is there,
  and that what was noticed is of entries that are; `WholeWith`, if the root is watched, that what is there was found, is below a folder on the stack,
  was noticed, or has its row; `CrawlOrder` that the drain writes no older generation than the crawl's below that root, so that the sweep spares it. `CrawledInStep` is
  the moment the crawl registers: both together put the rows in step. What a root is not concerned in leaves it as it was (`Bystander`).

`Transfer_proofs`, for any items, names and folders and any number of undos, redos and changes by the user:
`NothingIsLost`, that `NothingLost` is an invariant if `Mishaps = {}`; with a mishap it is not. `NothingLost`
compares ids the user owns with ids on the disk, and every step that removes or renames an entry threatens it, so the inductive
invariant `Kept` says why each is allowed to. Ids are of one entry each (`Sound`); while an item is written its name is free and what was
there is at `run.staged` (`Cleared`), so a rename overwrites nothing; what an undo of a copy removes is a copy nobody
wrote to, since an entry with the id of a stamp that the user wrote to is marked as edited
(`CopiesStamped`, and `CopiesStand` for those the elevated pass has not stamped yet); and what is in a staging folder the record knows of was
displaced by one of its items (`StagedBefore`, `StagedNow`, `StagedOnRecord`), so that what `Retires` removes is what the
user gave up. `Passes` keeps the staging folders of two passes apart. There is a lemma for each action, and below them what a
rename, a removal and an addition do to a disk (`RenamedIs`, `WithoutIs`, `WithIs`) and that the search for a free name finds
one (`UniqueIsFree`, by counting).

The other four theorems, under the same assumption, rest on a second invariant, `More`, kept beside `Kept`:

* `RecordKnows` (`RecordKnowsStaging`). Every item of a pass, and of the record made of it, has what it displaced at a place of its own in
  a staging folder the pass knows (`ToldNow`, `ToldOnRecord`); as long as all was whole, those places are all that is staged, also in the
  middle of an undo (`StagesWhole`).
* `UndoIsExact` (`UndoRestores`) and `RedoIsExact` (`RedoRepeats`). These compare what the user sees with what he saw many steps ago, so the
  invariant has to say how every disk on the way is related to the next. `Lands` is what one item makes of a disk, and `Chain(h, items)` that there is
  a sequence of disks, each of which the next item lands on: the record's items make one from the disk before the operation to the disk after it. An operation under way is
  at the end of the chain of what it has completed (`ViewDone`), an undo at the link it has come back to (`ViewUndoing`), where the item it is at is
  the one that made that link (`Course`). `MovesBack` and `CopyGoes` say that taking an item back gives the disk before it exactly, and so need that what it displaced
  goes back and that nobody took the name. A redo builds a chain of its own, beside the record's: it may stage under other names and make copies
  with other ids, but its disks look the same link by link (`ViewRedoing`, `LandsAlike`), because the name an item lands at is free or cleared, and it
  gets it without a number (`FreeIsItself`).
* `TransferTyped` (`TypeOK`), which besides types says that no entry is in a source folder that is gone.

`FolderWork_proofs`, for any names (finitely many), plans of any length and any number of operations, undos, redos, kills and changes by
the user. Three invariants, each resting on the one before it:

* `Inv` gives `FolderTyped` (`TypeOK`), `NothingIsLost` (`NothingLost`) and `AllAccounted` (`Accounted`). `RunInv` says that every item
  of a pass is in exactly one of its lists, as what it was planned for, in the first pass and the second, and
  that what failed is where the failure says; without it nothing could be said of a list that two passes are merged into. `PhaseOK` and
  `HistoryOK` tie a pass to the record it undoes or redoes. `DiskOK` is that an entry is at one place and that places are numbered below
  `serial`. `HeldOK` is that the holding folders of the pass and of each record are different ones, numbered since this session of the app
  began, and that they are told of: so what `Forgets` removes is what its own record gave up, and what `Purges` removes is older than
  any of them. The second theorem assumes that the purge meets no leftover (the circumstance `"leftovers purged"`), under which a run
  shows the loss.
* `KeptOK` is the first half of `RecordsAreTrue` made inductive: what a delete in the history holds is there, or the pass under way is
  the one that puts it back and has done so.
* `CleanOK` is the second half. The folder, at every step of a pass, is what it was when the pass began, less what is done or stands aside,
  with what has come (`ViewOK`); each record turns the folder as it was before it into the folder as it was after it, and they join
  up to what is seen now (`LineOK`), with deleted entries where they were put (`HoldsOK`). `TurnsWhen`, `SwapTurns` and
  `TurnBack` are why a swap or a chain by way of temporary names is one change of the whole folder, and why the same list backwards
  undoes it. Together they give `RecordsTrue` (`RecordsAreTrue`), which assumes nothing about circumstances.

`Tab_proofs`, for any folders, entries, texts and threads, and any number of jobs:

* `TabTyped` and `MergesAreWhole`, the type invariant, which says that no entry is listed twice, and `MergeIsWhole`. Both come from `MergeInv`: a merge whose
  version is still in force compared with the rows there are (`Compared`), and one that has read the folder found it
  (`Found`). `MergedIsRead` is then the arithmetic of applying a difference; `OneSlotPublishes` is why whoever publishes rows puts all merges out of force.
* `BarGoesOut`, that `RestIsNotLoading` is an invariant, from `Lit`: while the bar is on there is a job in force that
  fetches, or a container being read that is still wanted. A job ends without a word only when it is not in force.
* `RestsWithWhatWasAsked`, that `RestShowsWhatWasAsked` is an invariant. `Right` says that at most one job is in force (`One`), that what it
  has done so far is on the screen (`Labelled`), and (`Answers`) that unless an operation has still to come to its refresh
  (`Pending`) it fetches what the tab's fields ask for, or there is none and the rows answer that (`Shows`), while a merge in force read
  the tab's folder. Every step is one of five shapes, each with its lemma: something becomes pending (`NotSettled`), nothing changes
  (`StaysRight`, `SameRowsRight`), the job in force goes on (`OnItsWay`) or ends (`AtItsEnd`), or another one does something (`Elsewhere`).

Only model-checked: the liveness properties, and with them the fairness part of `IndexFeed` (liveness under fairness is out of the prover's
reach). Every other property of a passing run is stated by a theorem.

Where an argument is by induction it is put as a least counterexample: `NatLessThanWellFounded` with `WFMin` gives the least
of a set of numbers, without an operator as a parameter (`LeastOf`).

## Not modelled

The components marked `not_modelled` in `PROJECT.json`, each with its reason there. They are most of the
repository's lines: a window and its marshalling, views with one owner, commands and their tables, decoders, pure
functions over text and listings, and calls into Windows. They are sequential, and the repository tests them by the hundred; a
model would repeat them.

Within the modelled ones:

* the pipe: `Ping` and `Pong`; whether the peer is our own binary (a peer that is not is hung up on like one with the
  wrong process id); the texts of failures beyond their kind;
* transfers: the contents of a folder (it is one entry with an identity
  and a mark that something was written inside); free space; links and shortcuts;
* the queue: the order in which the user reorders waiting jobs;
* renames and deletes: the part of a tree that an erase leaves when it fails half way, parent folders that are gone, the numbering of
  equal names inside a holding folder, renames that change only case, protected locations, empty holding folders, and a helper
  that outlives a killed app (`Killed` needs the first pass);
* the volume indexer: sizes, dates, the folder-size roll-up, the change log, the decoding of the table and of the journal;
* the crawled index: UNC roots, hidden flags, the cap of 25 000 entries for a walk of a folder that came,
  chunk sizes, live scans and content searches;
* tabs: how rows are sorted and columns filled, selection, what the histories of Back and Forward hold (any
  folder), searches inside containers, stopping a search, closing a tab, and which rows a search finds;
* the elevation pipe: one request and its answer; what is modelled is what comes back, or that nothing does;
* the database: queries, and SQL with its transactions, which is external.

Met on the way, and not stated as a property because no line of the repository claims otherwise, or because what it takes is
outside the models:

* Items deleted by a helper that is lost midway are reported as failed; they are in a holding folder
  no record tells of, and go with a later purge. So, if a helper is at work, are items a second
  running copy of the app holds for an undo, after 24 hours.
* Folders beside an item (where none could be made at the root) are never purged, nor are temporary
  names of a rename (`.bertbrowser-rename-…`) ever looked for.
* Cancelling a delete before or during its elevated pass drops the failures of the first; the elevated pass is offered after a cancel.
* A time-out of the shell in recycling or restoring is reported as a failure while the shell goes on.
* The comment of `tail` has it that a lost journal ends it "so the orchestrator can re-enumerate"; nothing
  does until the next helper starts. `docs/search-indexing.md` (under "Maintain") says that a rebuild runs.
* The watcher's filter has no attributes, so that a file hidden or shown is not noticed until the next crawl.
* `end_session` gives a retiring worker two seconds (`client.rs:452`). `retire_session` then clears the gate's stream
  although another session may have put its own there (`gate.stream = None`, `client.rs:266`, below a comment by which a session
  whose predecessor would not let go must not be touched). The new session goes on, but the gate no longer reaches it: a
  later stop or change of policy does not get to the helper.
* `retry` (`client.rs:547`) ends the session there is and starts another, without clearing the mirror as `stop` does. It may be called
  as long as the gate offers a retry, which it does after a start until the new worker has been greeted; if that worker greets and mirrors a
  volume as building just before `end_session` takes it, it ends as one that is cancelled, without a word, and the next session begins with
  that. A volume that stopped building in between stays `building` in the app, although the state "is mirrored exactly"
  (`mft_index_client_tests.rs:2`). `fresh` is what `MirrorAgrees` needs besides; TLC shows the case with three workers.
* Tabs. A flat view declined after a navigation or a cleared search leaves the other folder's rows, or the search's, under
  the tab's path; `reveal_file` into a folder that is gone clears the search and leaves its rows (these are what `stays` stands for in
  `RestShowsWhatWasAsked`). A merge that is out of force is dropped and not taken up again, and a load that was reading while a newer merge landed
  puts back what it read. What the volume index reports, and a container that was read, lower `is_loading` while a reload is under way.
  Sizes that arrive while a folder is loaded over a search's rows label those as a folder's until it lands. A sort order clicked
  between `load_directory`'s two sections is not applied to its rows. Two threads that navigate at once can leave the tab
  watching the other's folder. A container is entered after its generation was checked and let go.
