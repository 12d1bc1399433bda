------------------------------- MODULE FolderWork -------------------------------
(***************************************************************************)
(* Renames and deletes, what of them is recorded (undo/rename_record.rs,   *)
(* undo/delete_record.rs), undone and done again, while the user goes on   *)
(* working in the folder, and what happens to what is held when a record   *)
(* leaves the history or the app is killed.                                *)
(***************************************************************************)
EXTENDS FolderBatch

CONSTANTS
    MaxHeld,     \* bound: entries there are at first
    MaxPlan,     \* bound: items of an operation
    MaxItems,    \* bound: items of all operations
    MaxActs,     \* bound: operations, undos, redos, changes the user makes, kills
    Circumstances \* of AllCircumstances: what may come about

\* A holding folder that is purged holds what no record told of.
AllCircumstances == {"leftovers purged"}

ASSUME FolderAssumption ==
    /\ MaxHeld \in Nat /\ MaxPlan \in Nat /\ MaxItems \in Nat /\ MaxActs \in Nat
    /\ Circumstances \subseteq AllCircumstances

VARIABLES
    past, undone, \* the history's records: in effect, oldest first; undone, to be redone first
    since,        \* the first number this session of the app gave out
    made,         \* history: ids the user has made
    begun,        \* history: what the user saw when the operation began
    items, acts,  \* history: items planned and acts so far
    clean,        \* history: all that changed is what the history tells of
    lost,         \* history: a helper was lost with what it did
    emptied       \* history: the user emptied the bin
historyVars == <<past, undone, since>>
countVars   == <<items, acts>>
userVars    == <<made, emptied>>
vars == <<batchVars, historyVars, countVars, userVars, begun, clean, lost>>

NoRun == run.job = "none"
--------------------------------------------------------------------------------
\* Operations.  What the planners let pass: items that are there, targets that are free or
\* about to be.

OnDisk == {p \in DOMAIN disk : p.at = "folder"}
Plans(item(_, _)) ==
    {plan \in UNION {[1..n -> {item(p, x) : p \in OnDisk, x \in Names \union {"bin", "hold", "erase"}}] : n \in 1..MaxPlan} :
        \A i, j \in DOMAIN plan : plan[i].src = plan[j].src => i = j}

RenamePlans ==
    LET item(p, x) == Item(p, IF x \in Names THEN In(x) ELSE p, "name", disk[p])
        leaves(plan) == {plan[i].src : i \in DOMAIN plan}
    IN  {plan \in Plans(item) :
            \A i, j \in DOMAIN plan : /\ plan[i].dst # plan[i].src
                                      /\ Exists(plan[i].dst) => plan[i].dst \in leaves(plan)
                                      /\ plan[i].dst = plan[j].dst => i = j}
\* With nothing that erases or holds, whatever has a bin goes there.
DeletePlans ==
    LET item(p, x) == Item(p, Nowhere, IF x \in Names THEN "bin" ELSE x, disk[p])
    IN  {plan \in Plans(item) : \A i, j \in DOMAIN plan : plan[i].way # plan[j].way => plan[i].way # "erase"}

Begins(pass) ==
    /\ run' = Onward(pass)
    /\ begun' = Looks(disk)
    /\ UNCHANGED <<disk, serial, given, historyVars, userVars, clean, lost>>

Acts == acts < MaxActs /\ acts' = acts + 1

Operates ==
    /\ NoRun /\ Acts
    /\ \E plan \in RenamePlans \union DeletePlans :
        /\ items' = items + Len(plan) /\ items' <= MaxItems
        /\ Begins(Pass(IF plan[1].way = "name" THEN "rename" ELSE "delete", "do", plan))

Swapped(done) == [i \in DOMAIN done |-> Item(done[i].dst, done[i].src, "name", done[i].id)]
\* DeleteRedo::plan_for.
RedoPlan(done) ==
    Reverse([i \in DOMAIN done |-> Item(done[i].src, Nowhere, IF done[i].dst.at = "bin" THEN "bin" ELSE "hold", done[i].id)])

Undoes ==
    /\ NoRun /\ past # <<>> /\ Acts
    /\ LET record == Last(past)
       IN  Begins(IF record.job = "rename" THEN Pass("rename", "undo", Swapped(record.done))
                  ELSE Pass("restore", "undo", record.done))
    /\ UNCHANGED items
Redoes ==
    /\ NoRun /\ undone # <<>> /\ Acts
    /\ LET record == Head(undone)
       IN  Begins(IF record.job = "rename" THEN Pass("rename", "redo", Swapped(record.done))
                  ELSE Pass("delete", "redo", RedoPlan(record.done)))
    /\ UNCHANGED items

BatchActs == /\ \/ RenameActs \/ DeleteActs \/ Restores \/ RestoreFails \/ Accepts
             /\ UNCHANGED <<historyVars, countVars, userVars, begun, clean, lost>>

Recoverable(done) == Among(done, {d \in Range(done) : d.dst # Nowhere})
\* All that changed is recorded, and a step took in all of its record, or nothing.
Settles(outcome) ==
    /\ Recoverable(outcome.done) = outcome.done
    /\ \A f \in Range(outcome.failed) : f.from.at = "folder"
    /\ run.doing = "do" \/ outcome.failed = <<>> \/ outcome.done = <<>>

\* Nothing done is nothing recorded: a new operation leaves the history alone, a step the record as
\* it was.
Ends(outcome, helperLost) ==
    LET kept   == Recoverable(outcome.done)
        job    == IF run.job = "rename" THEN "rename" ELSE "delete"
        record == [job |-> job, done |-> kept, stagings |-> IF run.doing = "undo" THEN {} ELSE outcome.stagings,
                   before |-> IF run.doing = "do" THEN begun ELSE IF run.doing = "undo" THEN Last(past).before ELSE Head(undone).before,
                   after  |-> IF run.doing = "do" THEN Looks(disk) ELSE IF run.doing = "undo" THEN Last(past).after ELSE Head(undone).after]
    IN  /\ CASE kept = <<>> -> UNCHANGED <<past, undone>>
             [] kept # <<>> /\ run.doing = "do" -> past' = Append(past, record) /\ undone' = <<>>
             [] kept # <<>> /\ run.doing = "undo" -> past' = Front(past) /\ undone' = <<record>> \o undone
             [] kept # <<>> /\ run.doing = "redo" -> past' = Append(past, record) /\ undone' = Tail(undone)
        /\ clean' = (clean /\ ~helperLost /\ Settles(outcome))
        /\ lost' = (lost \/ helperLost)
        /\ run' = Idle
        /\ UNCHANGED <<disk, serial, given, since, countVars, userVars, begun>>

\* A second pass is declined, or not called for, or over.
Finishes == Over /\ Ends(Merged, FALSE)
\* Its connection breaks, or it does: the first pass is all that is known.
HelperLost == run.pass = 2 /\ Ends(run.first, TRUE)
--------------------------------------------------------------------------------
\* The user, and the ends of things.

Meddles(newDisk) ==
    /\ Acts
    /\ disk' = newDisk
    /\ UNCHANGED <<serial, run, historyVars, items, begun, lost>>
Makes ==
    \E name \in Names : /\ ~Exists(In(name)) /\ made' = made + 1
                        /\ Meddles(With(In(name), made'))
                        /\ clean' = FALSE
                        /\ UNCHANGED <<given, emptied>>
Removes ==
    \E p \in OnDisk : /\ given' = given \union {disk[p]} /\ Meddles(Without({p}))
                      /\ clean' = FALSE
                      /\ UNCHANGED userVars
EmptiesBin ==
    LET bin == {p \in DOMAIN disk : p.at = "bin"}
    IN  /\ bin # {} /\ given' = given \union IdsAt(bin) /\ Meddles(Without(bin))
        /\ emptied' = TRUE /\ clean' = FALSE
        /\ UNCHANGED made

\* The oldest record leaves the history, and what it held goes for good.
Forgets ==
    /\ NoRun /\ past # <<>>
    /\ LET record == Head(past)
       IN  /\ given' = given \union IF record.job = "delete" THEN IdsAt({record.done[i].dst : i \in DOMAIN record.done} \intersect HeldIn(record.stagings)) ELSE {}
           /\ disk' = Without(HeldIn(record.stagings))
    /\ past' = Tail(past)
    /\ UNCHANGED <<serial, run, undone, since, countVars, userVars, begun, clean, lost>>

\* The history goes with the app.  A helper would go on, so none is at work.
HeldBy(record) == {record.done[i].dst : i \in DOMAIN record.done}
Killed ==
    /\ Acts /\ run.pass = 1
    /\ LET told == UNION {HeldBy(past[i]) : i \in DOMAIN past}
                   \union IF run.job = "delete" THEN HeldBy(Own) ELSE {}
       IN  given' = given \union IdsAt({p \in told : p.at \in {"held", "beside"}})
    /\ past' = <<>> /\ undone' = <<>> /\ run' = Idle /\ since' = serial /\ clean' = FALSE
    /\ UNCHANGED <<disk, serial, items, userVars, begun, lost>>

\* purge_abandoned_staging, at a start a day later.
Purges ==
    LET old == {p \in DOMAIN disk : p.at = "held" /\ p.no < since}
    IN  /\ old # {}
        /\ "leftovers purged" \in Circumstances \/ IdsAt(old) \subseteq given
        /\ disk' = Without(old)
        /\ UNCHANGED <<serial, run, given, historyVars, countVars, userVars, begun, clean, lost>>

Next == \/ Operates \/ Undoes \/ Redoes \/ BatchActs \/ Finishes \/ HelperLost
        \/ Makes \/ Removes \/ EmptiesBin \/ Forgets \/ Killed \/ Purges

Init ==
    /\ \E names \in SUBSET Names :
        /\ Cardinality(names) <= MaxHeld
        /\ LET taken == SetToSeq(names)
           IN  /\ disk = [p \in {In(n) : n \in names} |-> CHOOSE i \in DOMAIN taken : In(taken[i]) = p]
               /\ made = Len(taken)
    /\ serial = 1 /\ since = 1 /\ run = Idle /\ given = {} /\ past = <<>> /\ undone = <<>>
    /\ begun = {} /\ items = 0 /\ acts = 0
    /\ clean = TRUE /\ lost = FALSE /\ emptied = FALSE

Spec == Init /\ [][Next]_vars
--------------------------------------------------------------------------------
\* Every entry is at one place and of one identity, whatever moves it: a move takes it away
\* from where it was (move_entry, in both executors).
TypeOK == DiskTypeOK /\ given \subseteq 1..made /\ since <= serial

\* Whatever the user has is somewhere, unless he gave it up: he deleted it for good, emptied
\* the bin, or let the history forget the delete.
NothingLost == 1..made \subseteq given \union IdsAt(DOMAIN disk)

\* The history tells the truth of the folder.  A delete in it holds what it says it holds,
\* unless the user emptied the bin; and as long as every step was whole and recorded, what the
\* user sees is what the last operation made of the folder, and what the next undone one found.
RecordsAreTrue ==
    NoRun =>
        /\ lost \/ \A i \in DOMAIN past : past[i].job = "delete" =>
              \A p \in HeldBy(past[i]) : Exists(p) \/ (p.at = "bin" /\ emptied)
        /\ clean => /\ past # <<>> => Looks(disk) = Last(past).after
                    /\ undone # <<>> => Looks(disk) = Head(undone).before

\* An item that an undo could not put back stays where it is held: nothing is erased along with
\* a holding folder that the user did not give up (the comment in commit_staging).
UnrestoredIsKept == lost \/ NothingLost

Times(id, s) == Cardinality({i \in DOMAIN s : s[i].id = id})

\* Of a pass that is over and was not cancelled, every item is accounted for once.
Accounted ==
    Over /\ ~run.cancelled /\ (run.pass = 1 => DeniedSrcs = {}) =>
        \A item \in Range(run.plan) : Times(item.id, Merged.done) + Times(item.id, Merged.failed) = 1
================================================================================
