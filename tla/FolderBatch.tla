------------------------------- MODULE FolderBatch -------------------------------
(***************************************************************************)
(* One pass over a list of entries: a rename (rename/executor.rs), a delete *)
(* or the restoring of deleted entries (delete/executor.rs, recycle_bin.rs). *)
(* The first pass is the app's; the second, over what was refused for want *)
(* of permission, is the elevated helper's and is not refused that way.    *)
(***************************************************************************)
EXTENDS FolderDisk

VARIABLES run,    \* the pass under way
          given   \* history: the ids of what the user gave up

batchVars == <<disk, serial, run, given>>

\* The elements of s that are in S, in their order.
Among(s, S) ==
    LET at == {i \in DOMAIN s : s[i] \in S}
    IN  [n \in 1..Cardinality(at) |-> s[CHOOSE i \in at : Cardinality(at \intersect 1..i) = n]]

\* An item of a plan, and of what came of it: a rename's leads from src to dst; a deleted one
\* went from src to dst, which is Nowhere if it was erased, or is still to go to `way`.
\* from: where it stands while it waits for its name.  id: history, what it was planned for.
Item(src, dst, way, id) == [src |-> src, dst |-> dst, from |-> src, way |-> way, id |-> id]
Failure(item, denied, from) == [src |-> item.src, denied |-> denied, from |-> from, id |-> item.id]

NoOutcome == [done |-> <<>>, failed |-> <<>>, stagings |-> {}]
Pass(job, doing, plan) ==
    [job |-> job, doing |-> doing, pass |-> 1, phase |-> IF job = "rename" THEN "aside" ELSE "work",
     plan |-> plan, asked |-> plan, todo |-> IF job = "restore" THEN Reverse(plan) ELSE plan,
     ready |-> <<>>, outcome |-> NoOutcome, first |-> NoOutcome, batch |-> 0, cancelled |-> FALSE]
Idle == Pass("none", "do", <<>>)

Doing(job, phase) == run.job = job /\ run.phase = phase /\ run.todo # <<>>
Head1    == Head(run.todo)
Denials  == IF run.pass = 1 THEN BOOLEAN ELSE {FALSE}
\* Where the pass goes on once nothing is left of a phase: names are given after all who
\* stand in the way are aside, and the bin takes what was gathered for it.
Onward(r) == CASE r.todo # <<>> -> r
               [] r.todo = <<>> /\ r.phase = "aside" -> [r EXCEPT !.phase = "work", !.todo = r.ready, !.ready = <<>>]
               [] r.todo = <<>> /\ r.phase = "work" /\ r.ready # <<>> ->
                      [r EXCEPT !.phase = "bin", !.todo = r.ready, !.ready = <<>>]
               [] OTHER -> r
Over == run.job # "none" /\ run.todo = <<>>

Goes(r)     == run' = Onward([r EXCEPT !.todo = Tail(@)])
Done(d)     == [d EXCEPT !.from = d.src, !.way = "done"]
Succeeds(d) == Goes([run EXCEPT !.outcome.done = Append(@, Done(d))])
Fails(denied, from) == Goes([run EXCEPT !.outcome.failed = Append(@, Failure(Head1, denied, from))])
Same == UNCHANGED <<disk, serial, given>>
--------------------------------------------------------------------------------
\* Rename.

Wanted(item) == \E other \in Range(run.asked) : other # item /\ other.dst = item.src

\* An item whose name another one is to have goes aside first.
StandsBy ==
    /\ Doing("rename", "aside") /\ ~Wanted(Head1)
    /\ Goes([run EXCEPT !.ready = Append(@, Head1)])
    /\ Same
StepsAside ==
    /\ Doing("rename", "aside") /\ Wanted(Head1) /\ Exists(Head1.src)
    /\ LET aside == Put("aside", serial, Head1.src)
       IN  /\ disk' = Moved(Head1.src, aside) /\ serial' = serial + 1
           /\ Goes([run EXCEPT !.ready = Append(@, [Head1 EXCEPT !.from = aside])])
    /\ UNCHANGED given
Stumbles ==
    /\ Doing("rename", "aside") /\ Wanted(Head1)
    /\ \E denied \in Denials : (denied => Exists(Head1.src)) /\ Fails(denied, Head1.src)
    /\ Same

\* Mutant: what is at the name is replaced.
PlacesOver ==
    /\ Doing("rename", "work") /\ Exists(Head1.from)
    /\ disk' = Moved(Head1.from, Head1.dst)
    /\ Succeeds(Head1)
    /\ UNCHANGED <<serial, given>>
Renames ==
    /\ Doing("rename", "work") /\ Exists(Head1.from) /\ ~Exists(Head1.dst)
    /\ disk' = Moved(Head1.from, Head1.dst)
    /\ Succeeds(Head1)
    /\ UNCHANGED <<serial, given>>
\* It is put back if it stood aside, and if that cannot be done it stays there.
RenameFails ==
    /\ Doing("rename", "work")
    /\ \E denied \in Denials :
        /\ denied => Exists(Head1.from) /\ ~Exists(Head1.dst)
        /\ \/ /\ Head1.from # Head1.src /\ Exists(Head1.from) /\ ~Exists(Head1.src)
              /\ disk' = Moved(Head1.from, Head1.src)
              /\ Fails(denied, Head1.src)
           \/ Fails(denied, Head1.from) /\ UNCHANGED disk
    /\ UNCHANGED <<serial, given>>
RenameActs == StandsBy \/ StepsAside \/ Stumbles \/ Renames \/ RenameFails
--------------------------------------------------------------------------------
\* Delete.

DeleteFails ==
    /\ Doing("delete", "work") \/ Doing("delete", "bin")
    /\ \E denied \in Denials : (denied => Exists(Head1.src)) /\ Fails(denied, Head1.src)
    /\ Same
Gathers ==
    /\ Doing("delete", "work") /\ Exists(Head1.src) /\ Head1.way = "bin"
    /\ Goes([run EXCEPT !.ready = Append(@, Head1)])
    /\ Same
\* Into the pass's folder at the root of the volume or, where that cannot be, beside the
\* item.  An item whose volume has no bin any more is held too.
Stages ==
    /\ Doing("delete", "work") /\ Exists(Head1.src) /\ Head1.way \in {"hold", "bin"}
    /\ LET no == IF run.batch = 0 THEN serial ELSE run.batch
       IN  \E at \in {"held", "beside"} :
            LET to == Put(at, no, Head1.src)
            IN  /\ disk' = Moved(Head1.src, to)
                /\ serial' = IF run.batch = 0 THEN serial + 1 ELSE serial
                /\ Goes([run EXCEPT !.batch = no, !.outcome.stagings = {no},
                                    !.outcome.done = Append(@, Done([Head1 EXCEPT !.dst = to]))])
    /\ UNCHANGED given
\* Asked for, or for the shell to decide when the bin is full.
Erases ==
    /\ \/ Doing("delete", "work") /\ Head1.way = "erase"
       \/ Doing("delete", "bin")
    /\ Exists(Head1.src)
    /\ given' = given \union {disk[Head1.src]} /\ disk' = Without({Head1.src})
    /\ Succeeds(Head1)
    /\ UNCHANGED serial
Recycles ==
    /\ Doing("delete", "bin") /\ Exists(Head1.src)
    /\ LET to == Put("bin", serial, Head1.src)
       IN  /\ disk' = Moved(Head1.src, to) /\ serial' = serial + 1
           /\ Succeeds([Head1 EXCEPT !.dst = to])
    /\ UNCHANGED given
\* The shell gives up, or is cancelled before it began: nothing is done of what is left.
BinFails ==
    /\ Doing("delete", "bin")
    /\ run' = [run EXCEPT !.todo = <<>>,
                          !.outcome.failed = @ \o [i \in DOMAIN run.todo |-> Failure(run.todo[i], FALSE, run.todo[i].src)]]
    /\ Same
\* What is left is in neither list.
Cancels ==
    /\ Doing("delete", "work") /\ run.doing = "do"
    /\ run' = [run EXCEPT !.todo = <<>>, !.ready = <<>>, !.cancelled = TRUE]
    /\ Same
DeleteActs == DeleteFails \/ Gathers \/ Stages \/ Erases \/ Recycles \/ BinFails \/ Cancels
--------------------------------------------------------------------------------
\* DeleteExecutor::undo.

Restores ==
    /\ Doing("restore", "work") /\ Exists(Head1.dst) /\ ~Exists(Head1.src)
    /\ disk' = Moved(Head1.dst, Head1.src)
    /\ Succeeds(Head1)
    /\ UNCHANGED <<serial, given>>
RestoreFails ==
    /\ Doing("restore", "work")
    /\ \E denied \in Denials :
        /\ denied => Exists(Head1.dst) /\ ~Exists(Head1.src) /\ Head1.dst.at # "bin"
        /\ Fails(denied, Head1.src)
    /\ Same
--------------------------------------------------------------------------------
\* elevation/retry.rs.

Own == run.outcome

DeniedSrcs == {f.src : f \in {g \in Range(Own.failed) : g.denied}}
\* A denied item is tried again from where it is by now.
Retry ==
    LET where(item) == (CHOOSE f \in Range(Own.failed) : f.src = item.src).from
        again(item) == IF run.job = "rename" THEN [item EXCEPT !.src = where(item), !.from = where(item)] ELSE item
        asked == Among(run.plan, {item \in Range(run.plan) : item.src \in DeniedSrcs})
    IN  [i \in DOMAIN asked |-> again(asked[i])]

\* Mutant: the temporary name is taken for the item's own.
OriginAsMoved(item) == item
\* What was parked under a temporary name is recorded under the name it had.
Origin(item) ==
    LET parked == {f \in Range(run.first.failed) : f.from # f.src /\ f.from = item.src}
    IN  IF parked = {} THEN item ELSE [item EXCEPT !.src = (CHOOSE f \in parked : TRUE).src]

\* The helper says how many it restored, and which failed.
SecondDone ==
    CASE run.job = "rename"  -> [i \in DOMAIN Own.done |-> Origin(Own.done[i])]
      [] run.job = "restore" -> Among(run.asked, {item \in Range(run.asked) : \A f \in Range(Own.failed) : f.src # item.src})
      [] OTHER -> Own.done

\* Mutant: the first pass's failures all stay.
SurvivorsAll == run.first.failed
Survivors == Among(run.first.failed, {f \in Range(run.first.failed) : ~f.denied})

Merged == IF run.pass = 1 THEN Own
          ELSE [done |-> run.first.done \o SecondDone, failed |-> Survivors \o Own.failed,
                stagings |-> run.first.stagings \union Own.stagings]

Accepts ==
    /\ Over /\ run.pass = 1 /\ DeniedSrcs # {}
    /\ run' = [Pass(run.job, run.doing, Retry) EXCEPT
                  !.pass = 2, !.plan = run.plan, !.first = Own, !.cancelled = run.cancelled]
    /\ Same
================================================================================
