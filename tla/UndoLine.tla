-------------------------------- MODULE UndoLine --------------------------------
(***************************************************************************)
(* What the undo history promises: one line of operations with a point on  *)
(* it.  Undo takes back the newest operation in effect, redo does again    *)
(* the one undone last, and a new operation abandons whatever could still  *)
(* have been redone.  The history may forget, but only the oldest of what  *)
(* is in effect or, when a single operation is left in effect, what was    *)
(* undone first; it never forgets the operation that undo would take.      *)
(***************************************************************************)
EXTENDS Naturals, Sequences

VARIABLES made,     \* operations ever done; operation n is the n-th
          done,     \* those in effect, oldest first
          undone    \* those undone, the one undone last first

vars == <<made, done, undone>>

Init == made = 0 /\ done = <<>> /\ undone = <<>>

\* The line becomes d and u, less what is forgotten.
Becomes(d, u) ==
    \E i \in 0..Len(d), j \in 0..Len(u) :
        /\ i = Len(d) => i = 0
        /\ j > 0 => Len(d) - i <= 1
        /\ done'   = SubSeq(d, i + 1, Len(d))
        /\ undone' = SubSeq(u, 1, Len(u) - j)

Do   == /\ made' = made + 1
        /\ Becomes(Append(done, made'), <<>>)
Undo == /\ done # <<>>
        /\ Becomes(SubSeq(done, 1, Len(done) - 1), <<done[Len(done)]>> \o undone)
        /\ UNCHANGED made
Redo == /\ undone # <<>>
        /\ Becomes(Append(done, Head(undone)), Tail(undone))
        /\ UNCHANGED made
Forget == Becomes(done, undone) /\ UNCHANGED made
Clear  == done' = <<>> /\ undone' = <<>> /\ UNCHANGED made

Next == Do \/ Undo \/ Redo \/ Forget \/ Clear

Spec == Init /\ [][Next]_vars
================================================================================
