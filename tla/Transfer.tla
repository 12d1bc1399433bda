-------------------------------- MODULE Transfer --------------------------------
(***************************************************************************)
(* One move or merged paste from its plan to the day its record leaves the *)
(* undo history: the executor (bb-core/src/transfer/executor.rs) working   *)
(* through the plan, again through what was refused with the elevated      *)
(* helper, and the record (undo/transfer_record.rs) undoing it, doing it   *)
(* again from what the undo put back, and retiring.  The user goes on using *)
(* the folders it works on.                                                *)
(***************************************************************************)
EXTENDS TransferDisk

CONSTANTS
    MaxItems,    \* bound: items in the plan
    MaxMeddling, \* bound: changes the user makes
    MaxSteps,    \* bound: undos and redos
    MaxFolders,  \* bound: entries that are folders; the others are files
    Mishaps      \* of AllMishaps: what may befall an item while it is worked on

\* The user takes a name the executor has just found free or cleared; a folder's copy fails
\* half way; what a cancelled copy, or a move to another drive, had written of a folder cannot
\* be removed; a displaced entry cannot be put back.
AllMishaps == {"user meddles", "half written", "not cleaned up", "not put back"}

ASSUME TransferAssumption == /\ MaxFolders \in Nat /\ Mishaps \subseteq AllMishaps
                             /\ MaxItems \in Nat /\ MaxMeddling \in Nat /\ MaxSteps \in Nat
ASSUME FoldersAssumption == /\ IsFiniteSet(Folders) /\ IsFiniteSet(Names)
                            /\ Folders \intersect {"destination", "staging"} = {}

VARIABLES
    verb,       \* "move" or "copy"
    merged,     \* a folder landed on a folder, and the plan is what is inside it
    at,         \* how far the app is
    run,        \* the execute or undo under way
    record,     \* the TransferRecord
    meddled,    \* history: how often the user changed something ...
    touched,    \* ... and whether he did since the operation began
    steps,      \* history: undos and redos so far
    owned,      \* history: what the user made, and the files he wrote to
    inside,     \* history: the folders he wrote something into
    given,      \* history: what the user deleted, or chose to have replaced for good
    before,     \* history: what the user saw when the operation began ...
    after,      \* ... and when it ended
    clean       \* history: every undo and redo so far took in everything, in one pass

runVars     == <<verb, merged, at, run>>
userVars    == <<meddled, touched, owned, inside, given>>
historyVars == <<userVars, before, after, clean, steps>>
planVars    == <<verb, merged>>
vars == <<diskVars, runVars, record, historyVars>>

\* CompletedTransfer; displaced is the id of what was moved aside.
Completed(item, final, staged, displaced, stamp) ==
    [src |-> item.src, final |-> final, folder |-> item.folder, staged |-> staged,
     displaced |-> displaced, written |-> stamp]
Doings == {"do", "undo", "redo"}

\* A pass over todo.  completed holds what this and the pass before it did, the first
\* `first` of it by the pass before; an undo's completed is what it put back.
Pass(doing, todo, prune) ==
    [doing |-> doing, pass |-> 1, todo |-> todo, prune |-> prune, pruned |-> {}, denied |-> <<>>,
     completed |-> <<>>, first |-> 0, staging |-> 0, stagings |-> {}, cancelled |-> FALSE,
     to |-> NoPath, staged |-> NoPath, displaced |-> 0]
NoPass   == Pass("do", <<>>, {})
NoRecord == [state |-> "none", completed |-> <<>>, stagings |-> {}, pruned |-> {}]

Item == Head(run.todo)
Next1 == [run EXCEPT !.todo = Tail(@), !.to = NoPath, !.staged = NoPath, !.displaced = 0]

--------------------------------------------------------------------------------
(* What the user plans, and what he has. *)

\* ConflictDefaults and the dialog: a name that is free, and not promised to an item before,
\* is not asked about.
Resolutions(conflicts) ==
    IF ~conflicts THEN {"both"}
    ELSE {"skip", "both"} \union (IF verb = "move" \/ merged THEN {"replace"} ELSE {})

Planned(sources, d) ==
    {todo \in [DOMAIN sources -> [src : Range(sources), dst : {In("destination", nm) : nm \in Names},
                                  folder : BOOLEAN, res : {"skip", "both", "replace"}]] :
        \A i \in DOMAIN sources :
            /\ todo[i].src = sources[i] /\ todo[i].dst = In("destination", sources[i].name)
            /\ todo[i].folder = d[sources[i]].folder
            /\ todo[i].res \in Resolutions(\/ todo[i].dst \in DOMAIN d
                                           \/ \E j \in 1..(i - 1) : todo[j].dst = todo[i].dst)}

\* The entries that are there, known by their numbers.
AsFound(taken, dirs) ==
    LET all == SetToSeq(taken)
        Number(p) == CHOOSE i \in DOMAIN all : all[i] = p
    IN  [p \in taken |-> [id |-> Number(p), data |-> Number(p), folder |-> p \in dirs,
                         edited |-> FALSE]]

\* The plan is for what is at from, beside what is there.
Begins(from, there) ==
    LET taken == from \union there
    IN  /\ Cardinality(from) \in 1..MaxItems
        /\ \E dirs \in SUBSET taken :
              Cardinality(dirs) <= MaxFolders /\ disk = AsFound(taken, dirs)
        /\ standing = {p.at : p \in from}
        /\ nextId = Cardinality(taken) + 1 /\ nextStage = 1
        /\ owned = 1..Cardinality(taken)
        /\ verb \in {"move", "copy"} /\ merged \in BOOLEAN
        /\ \E todo \in Planned(SetToSeq(from), disk) :
              run = Pass("do", todo, IF merged /\ verb = "move" THEN standing ELSE {})

Init ==
    /\ \E from \in SUBSET {In(f, nm) : f \in Folders, nm \in Names},
          there \in SUBSET {In("destination", nm) : nm \in Names} : Begins(from, there)
    /\ at = "planned" /\ record = NoRecord
    /\ meddled = 0 /\ touched = FALSE /\ steps = 0 /\ clean = TRUE
    /\ inside = {} /\ given = {} /\ before = {} /\ after = {}

Starts == /\ at = "planned" /\ at' = "running"
          /\ before' = Looks(disk)
          /\ UNCHANGED <<diskVars, planVars, run, record, userVars, after, clean, steps>>

--------------------------------------------------------------------------------
(* execute: one item. *)

Executes == at = "running" /\ run.doing \in {"do", "redo"} /\ run.todo # <<>>
Found    == Exists(Item.src)
Taken    == Exists(Item.dst)
SameRun  == UNCHANGED <<planVars, record, historyVars>>
SameDisk == UNCHANGED diskVars

\* It is left where it is, and, if it is for want of permission, kept for the second pass.
Fails == \/ run' = Next1
         \/ run.pass = 1 /\ run' = [Next1 EXCEPT !.denied = Append(@, Item)]

\* Only the operation itself can be cancelled; a redo cannot.
Stops == /\ Executes /\ run.doing = "do"
         /\ run' = [run EXCEPT !.todo = <<>>, !.cancelled = TRUE]
         /\ UNCHANGED at /\ SameDisk /\ SameRun

Missing == /\ Executes /\ ~Found
           /\ run' = Next1
           /\ UNCHANGED at /\ SameDisk /\ SameRun
\* Refused before anything was touched: the destination or the staging folder, or the
\* entry in the way, will not have it.
Refused == /\ Executes /\ Found
           /\ Fails
           /\ UNCHANGED at /\ SameDisk /\ SameRun
Skips == /\ Executes /\ Found /\ Taken /\ Item.res = "skip"
         /\ run' = Next1
         /\ UNCHANGED at /\ SameDisk /\ SameRun

Writes(to, staged, displaced, stage) ==
    /\ at' = "writing"
    /\ run' = [run EXCEPT !.to = to, !.staged = staged, !.displaced = displaced, !.staging = stage]
    /\ SameRun

\* Replace and Overwrite: what is in the way is moved to this pass's staging folder.
Displaces ==
    /\ Executes /\ Found /\ Taken /\ Item.res = "replace"
    /\ LET stage  == IF run.staging = 0 THEN nextStage ELSE run.staging
           staged == UniquePath(disk, Staged(stage, Item.dst))
       IN  /\ disk' = Renamed(disk, Item.dst, staged)
           /\ Writes(Item.dst, staged, disk[Item.dst].id, stage)
           /\ nextStage' = IF run.staging = 0 THEN nextStage + 1 ELSE nextStage
    /\ UNCHANGED <<standing, nextId>>
Numbers ==
    /\ Executes /\ Found /\ (Taken => Item.res = "both")
    /\ Writes(UniquePath(disk, Item.dst), NoPath, 0, run.staging)
    /\ SameDisk

Writing == at = "writing" /\ at' = "running" /\ SameRun

\* What a helper wrote reaches the app without its stamp.
Written ==
    /\ Writing /\ Found /\ ~Exists(run.to)
    /\ IF verb = "move" THEN disk' = Renamed(disk, Item.src, run.to) /\ UNCHANGED nextId
       ELSE /\ disk' = With(disk, run.to, New(nextId, disk[Item.src].data, disk[Item.src].folder))
            /\ nextId' = nextId + 1
    /\ run' = [Next1 EXCEPT !.completed = Append(@,
                   Completed(Item, run.to, run.staged, run.displaced,
                             IF verb = "copy" /\ run.pass = 1 THEN [id |-> nextId, edited |-> FALSE]
                             ELSE NoStamp))]
    /\ UNCHANGED <<standing, nextStage>>

\* The displaced entry goes back, unless the name is taken again or it will not go.
PutBack(d, staged, to, d2) ==
    IF staged = NoPath \/ staged \notin DOMAIN d \/ to \in DOMAIN d THEN d2 = d
    ELSE d2 = Renamed(d, staged, to) \/ ("not put back" \in Mishaps /\ d2 = d)

\* Part of a folder may be left at the name: a copy that failed is not cleaned up after, one
\* that was cancelled is, and so is a move to another drive.
HalfWritten(d, mishaps) ==
    {d} \union (IF mishaps \intersect Mishaps # {} /\ Item.folder /\ run.to \notin DOMAIN d
                THEN {With(d, run.to, New(nextId, 0, TRUE))} ELSE {})
FailedHalfWay == IF verb = "copy" THEN {"half written"} ELSE {"not cleaned up"}
Numbered == nextId' = IF \E p \in DOMAIN disk' : disk'[p].id = nextId THEN nextId + 1 ELSE nextId
\* A mutant: the name stays cleared.
LeavesDisplaced ==
    /\ Writing
    /\ Fails
    /\ SameDisk
WriteFails ==
    /\ Writing
    /\ \E d \in HalfWritten(disk, FailedHalfWay) : PutBack(d, run.staged, run.to, disk')
    /\ Numbered
    /\ Fails
    /\ UNCHANGED <<standing, nextStage>>
\* A cancelled write removes what it had written: whatever is at the name, if it is a file.
WriteCancelled ==
    /\ Writing /\ run.doing = "do"
    /\ LET d == IF Exists(run.to) /\ ~Item.folder /\ ~disk[run.to].folder
                THEN Without(disk, {run.to}) ELSE disk
       IN  \E e \in HalfWritten(d, {"not cleaned up"}) : PutBack(e, run.staged, run.to, disk')
    /\ Numbered
    /\ run' = [Next1 EXCEPT !.todo = <<>>, !.cancelled = TRUE]
    /\ UNCHANGED <<standing, nextStage>>

Execute == \/ Stops \/ Missing \/ Refused \/ Skips \/ Displaces \/ Numbers
           \/ Written \/ WriteFails \/ WriteCancelled

--------------------------------------------------------------------------------
(* undo and undo_copies: one item, the last done first. *)

Undoes == at = "running" /\ run.doing = "undo" /\ run.todo # <<>>
UndoStep == /\ UNCHANGED <<at, standing, nextId, nextStage>> /\ SameRun
Reverted == run' = [Next1 EXCEPT !.completed = Append(@, Item)]

CanGoBack == /\ Exists(Item.final) /\ ~Exists(Item.src)
             /\ Item.src.at \in standing
MoveBack  == /\ Undoes /\ verb = "move" /\ CanGoBack
             /\ PutBack(Renamed(disk, Item.final, Item.src), Item.staged, Item.final, disk')
             /\ Reverted /\ UndoStep
StaysMoved == /\ Undoes /\ verb = "move"
              /\ run' = Next1 \/ (CanGoBack /\ Fails)
              /\ UNCHANGED disk /\ UndoStep

\* Nothing is removed that is not the copy as it was written.
StillTheCopy == Exists(Item.final) /\ (Item.written # NoStamp => Matches(Item.written, Item.final))
RemoveCopy ==
    /\ Undoes /\ verb = "copy"
    /\ StillTheCopy \/ (~Exists(Item.final) /\ Exists(Item.staged))
    /\ LET d == Without(disk, {Item.final})
       IN  /\ PutBack(d, Item.staged, Item.final, disk')
           /\ IF Exists(Item.staged) /\ disk' = d THEN run' = Next1 ELSE Reverted
    /\ UndoStep
CopyStays == /\ Undoes /\ verb = "copy"
             /\ run' = Next1
             /\ UNCHANGED disk /\ UndoStep

Undo == MoveBack \/ StaysMoved \/ RemoveCopy \/ CopyStays

--------------------------------------------------------------------------------
(* The end of a pass, and the elevated one. *)

PassOver == at = "running" /\ run.todo = <<>>

\* A mutant: the folders the plan opened, whatever is in them.
Opened == run.prune \intersect standing
Emptied == {f \in run.prune \intersect standing : InFolder(disk, f) = {}}
\* prune_emptied, after the pass's items, cancelled or not.
Prunes ==
    /\ PassOver /\ run.pass = 1
    /\ \E gone \in SUBSET Emptied :
          /\ standing' = standing \ gone
          /\ run' = [run EXCEPT !.pruned = gone,
                                !.stagings = IF run.staging = 0 THEN {} ELSE {run.staging}]
    /\ at' = IF ~run.cancelled /\ run.denied # <<>> THEN "offered" ELSE "ended"
    /\ UNCHANGED <<disk, nextId, nextStage, planVars, record, historyVars>>

Declined == /\ at = "offered" /\ at' = "ended"
            /\ UNCHANGED run /\ SameDisk /\ SameRun
Accepted == /\ at = "offered" /\ at' = "running"
            /\ run' = [run EXCEPT !.pass = 2, !.todo = run.denied, !.denied = <<>>, !.staging = 0,
                                  !.first = Len(run.completed)]
            /\ SameDisk /\ SameRun

First  == SubSeq(run.completed, 1, run.first)
Second == SubSeq(run.completed, run.first + 1, Len(run.completed))

\* The helper answers: merge_transfer and stamp_copies, or merge_transfer_undo, which knows
\* only what did not go back, and lists the rest as it was asked for them.
HelperAnswers ==
    /\ PassOver /\ run.pass = 2 /\ at' = "ended"
    /\ run' = [run EXCEPT
          !.completed = First \o (IF run.doing = "undo" THEN Reverse(Second)
                                  ELSE [i \in DOMAIN Second |->
                                           IF verb = "copy"
                                           THEN [Second[i] EXCEPT !.written = Stamp(Second[i].final)]
                                           ELSE Second[i]]),
          !.stagings = @ \union (IF run.staging = 0 THEN {} ELSE {run.staging})]
    /\ SameDisk /\ SameRun
\* The helper is lost, with all it did.
HelperLost ==
    /\ at \in {"running", "writing"} /\ run.pass = 2 /\ at' = "ended"
    /\ run' = [run EXCEPT !.completed = First, !.todo = <<>>]
    /\ clean' = FALSE
    /\ SameDisk /\ UNCHANGED <<planVars, record, userVars, before, after, steps>>

--------------------------------------------------------------------------------
(* The record. *)

Ended(doing) == at = "ended" /\ run.doing = doing /\ run' = NoPass
Whole == clean /\ Len(run.completed) = Len(record.completed)

\* A mutant: of two passes, the record keeps the first one's staging folder.
AppliedWithOneStaging ==
    [state |-> "applied", completed |-> run.completed, pruned |-> run.pruned,
     stagings |-> {s \in run.stagings : \A t \in run.stagings : s <= t}]
Applied == [state |-> "applied", completed |-> run.completed,
            stagings |-> run.stagings, pruned |-> run.pruned]

\* for_outcome, or nothing to record.
Records ==
    /\ Ended("do")
    /\ IF run.completed = <<>> \/ (verb = "copy" /\ ~merged)
       THEN at' = "over" /\ UNCHANGED record
       ELSE at' = "idle" /\ record' = Applied
    /\ after' = Looks(disk)
    /\ SameDisk /\ UNCHANGED <<planVars, userVars, before, clean, steps>>

\* A mutant: in the order it was done.
UndoOrderAsDone == record.completed
UndoOrder == Reverse(record.completed)
\* step, when it is an undo: the emptied folders first.
UndoBegins ==
    /\ at = "idle" /\ record.state = "applied" /\ steps < MaxSteps
    /\ at' = "running" /\ steps' = steps + 1
    /\ run' = Pass("undo", UndoOrder, {})
    /\ standing' = standing \union (IF verb = "move" THEN record.pruned ELSE {})
    /\ UNCHANGED <<disk, nextId, nextStage, planVars, record, userVars, before, after, clean>>
\* The record a redo runs from holds what went back, and no staging folder.
Undone ==
    /\ Ended("undo") /\ at' = "idle"
    /\ IF run.completed = <<>> THEN UNCHANGED <<record, clean>>
       ELSE /\ record' = [record EXCEPT !.state = "undone", !.completed = run.completed, !.stagings = {}]
            /\ clean' = (Whole /\ run.pass = 1)
    /\ SameDisk /\ UNCHANGED <<planVars, userVars, before, after, steps>>

\* A mutant: the items are done again in the order the undo took them back.
RedoPlanNewestFirst ==
    [i \in DOMAIN record.completed |->
        LET c == record.completed[i]
        IN  [src |-> c.src, dst |-> c.final, folder |-> c.folder,
             res |-> IF c.staged = NoPath THEN "skip" ELSE "replace"]]
\* TransferRedo::plan_for: to where each landed, displacing only where something was displaced.
RedoPlan ==
    LET done == Reverse(record.completed)
    IN  [i \in DOMAIN done |-> [src |-> done[i].src, dst |-> done[i].final, folder |-> done[i].folder,
                                res |-> IF done[i].staged = NoPath THEN "skip" ELSE "replace"]]
RedoBegins ==
    /\ at = "idle" /\ record.state = "undone" /\ steps < MaxSteps
    /\ at' = "running" /\ steps' = steps + 1
    /\ run' = Pass("redo", RedoPlan, IF verb = "move" THEN record.pruned ELSE {})
    /\ SameDisk /\ UNCHANGED <<planVars, record, userVars, before, after, clean>>
Redone ==
    /\ Ended("redo") /\ at' = "idle"
    /\ IF run.completed = <<>> THEN UNCHANGED <<record, clean>>
       ELSE record' = Applied /\ clean' = (Whole /\ run.pass = 1)
    /\ SameDisk /\ UNCHANGED <<planVars, userVars, before, after, steps>>

\* retire: with the record goes what its operation displaced.
Retires ==
    /\ at = "idle" /\ at' = "over"
    /\ record' = NoRecord
    /\ IF record.state = "applied"
       THEN /\ disk' = Without(disk, InStages(disk, record.stagings))
            /\ given' = given \union {c.displaced : c \in Range(record.completed)}
       ELSE UNCHANGED <<disk, given>>
    /\ UNCHANGED <<standing, nextId, nextStage, planVars, run,
                   meddled, touched, owned, inside, before, after, clean, steps>>

App == \/ Starts \/ Execute \/ Undo \/ Prunes \/ Declined \/ Accepted \/ HelperAnswers \/ HelperLost
       \/ Records \/ UndoBegins \/ Undone \/ RedoBegins \/ Redone \/ Retires

--------------------------------------------------------------------------------
(* The user, who sees no staging folder. *)

Meddles == /\ meddled < MaxMeddling /\ meddled' = meddled + 1
           /\ touched' = (at # "planned")
           /\ at \in {"planned", "idle"} \/ ("user meddles" \in Mishaps /\ at # "over")
           /\ UNCHANGED <<planVars, at, run, record, nextStage, before, after, clean, steps>>
Visible == {p \in DOMAIN disk : p.at # "staging"}

Makes == /\ Meddles
         /\ \E p \in {In(f, nm) : f \in standing \union {"destination"}, nm \in Names} :
               ~Exists(p) /\ disk' = With(disk, p, New(nextId, nextId, FALSE))
         /\ nextId' = nextId + 1 /\ owned' = owned \union {nextId}
         /\ UNCHANGED <<standing, inside, given>>
Edits == /\ Meddles
         /\ \E p \in Visible : /\ disk' = [disk EXCEPT ![p].edited = TRUE, ![p].data = nextId]
                               /\ IF disk[p].folder
                                  THEN inside' = inside \union {disk[p].id} /\ UNCHANGED owned
                                  ELSE owned' = owned \union {disk[p].id} /\ UNCHANGED inside
         /\ nextId' = nextId + 1
         /\ UNCHANGED <<standing, given>>
Deletes == /\ Meddles
           /\ \E p \in Visible : disk' = Without(disk, {p}) /\ given' = given \union {disk[p].id}
           /\ UNCHANGED <<standing, nextId, owned, inside>>
RemovesFolder == /\ Meddles
                 /\ \E f \in standing :
                       /\ standing' = standing \ {f}
                       /\ disk' = Without(disk, InFolder(disk, f))
                       /\ given' = given \union {disk[p].id : p \in InFolder(disk, f)}
                 /\ UNCHANGED <<nextId, owned, inside>>

User == Makes \/ Edits \/ Deletes \/ RemovesFolder

Next == App \/ User

Spec == Init /\ [][Next]_vars

--------------------------------------------------------------------------------

TypeOK ==
    /\ DiskTypeOK
    /\ verb \in {"move", "copy"} /\ merged \in BOOLEAN
    /\ at \in {"planned", "running", "writing", "offered", "ended", "idle", "over"}
    /\ run.doing \in Doings /\ run.pass \in {1, 2}
    /\ at = "writing" => run.to \in Paths /\ run.todo # <<>>
    /\ record.state \in {"none", "applied", "undone"}
    /\ run.prune \union run.pruned \union record.pruned \subseteq Folders
    /\ \A c \in Range(record.completed) : c.src \in Paths /\ c.final \in Paths

\* Nothing the user made or wrote is ever gone from the disk but what he deleted himself, or
\* had replaced by an operation that can no longer be undone: not after a refusal, a cancel, a
\* lost helper, an undo or a redo that went only part of the way.
NothingLost == owned \subseteq given \union {disk[p].id : p \in DOMAIN disk}

\* Nor is what he wrote into a folder, his own or one that was pasted.
EditsKept == inside \subseteq given \union {disk[p].id : p \in DOMAIN disk}

\* When an item fails after its name was cleared for it, what it displaced goes straight back,
\* so that staging never holds what no item of the outcome accounts for (the comment in
\* execute_one).
DisplacedGoesBack ==
    at = "ended" /\ run.doing = "do" /\ clean =>
        {p \in DOMAIN disk : p.at = "staging"} \subseteq {c.staged : c \in Range(run.completed)}

\* While an operation can be undone, what is staged under one of its items is what that item
\* displaced; and as long as every undo and redo was whole, all of it is still there, and
\* staging holds nothing else.
RecordKnowsStaging ==
    at = "idle" /\ record.state = "applied" =>
        LET staged == {c \in Range(record.completed) : c.staged # NoPath}
        IN  /\ \A c \in staged : Exists(c.staged) => /\ disk[c.staged].id = c.displaced
                                                     /\ c.staged.stage \in record.stagings
            /\ clean => {p \in DOMAIN disk : p.at = "staging"} = {c.staged : c \in staged}

\* An undo that took everything back leaves the user what he had before the operation, folders
\* that were emptied included, and staging empty.
UndoRestores ==
    at = "idle" /\ record.state = "undone" /\ clean /\ ~touched =>
        Looks(disk) = before /\ \A p \in DOMAIN disk : p.at # "staging"

\* A redo that did everything again leaves what the operation itself had left, each item where
\* it landed the first time.
RedoRepeats ==
    at = "idle" /\ record.state = "applied" /\ clean /\ ~touched => Looks(disk) = after
================================================================================
