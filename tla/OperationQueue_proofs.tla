-------------------------- MODULE OperationQueue_proofs --------------------------
(***************************************************************************)
(* For any number of jobs, any budget and any sizes of held data, whatever *)
(* the two threads do: the undo history stays in order and within its      *)
(* budget; its records are conserved, each of them in the history, on one  *)
(* thread's way to being retired, retired, or gone down with a panic; and  *)
(* the history implements the line of operations that UndoLine describes,  *)
(* each change of it one step on the line, the queue's other steps none.   *)
(***************************************************************************)
EXTENDS OperationQueue, SequenceTheorems, FiniteSetTheorems, TLAPS

\* A history es with c entries in effect, made before entry n.
Ordered(es, c, n) ==
    /\ es \in Seq(Entries) /\ c \in 0..Len(es)
    /\ \A i \in 1..Len(es) : es[i].applied = (i <= c)
    /\ \A i, j \in 1..Len(es) : i < j => es[i].id < es[j].id
    /\ \A i \in 1..Len(es) : es[i].id < n

\* The stack's own invariant.
StackInv == nextId \in Nat \ {0} /\ budget \in Budgets /\ Ordered(entries, cursor, nextId)

\* What eviction leaves is a stretch of the history that still holds the cursor.
LEMMA Kept ==
    ASSUME NEW L \in Nat, NEW c \in 0..L, NEW n \in 0..(IF c > 0 THEN L - 1 ELSE L)
    PROVE  /\ FromFront(c, n) \in 0..c
           /\ L - (n - FromFront(c, n)) \in FromFront(c, n)..L
           /\ c <= L - (n - FromFront(c, n))
BY DEF FromFront

\* A stretch of an ordered history that holds the cursor is ordered.
LEMMA StretchOrdered ==
    ASSUME NEW es, NEW c, NEW n \in Nat, Ordered(es, c, n),
           NEW a \in 0..c, NEW z \in a..Len(es), c <= z
    PROVE  Ordered(SubSeq(es, a + 1, z), c - a, n)
<1> DEFINE part == SubSeq(es, a + 1, z)
<1>1. es \in Seq(Entries) /\ c \in 0..Len(es) /\ Len(es) \in Nat
  BY DEF Ordered
<1>2. /\ part \in Seq(Entries) /\ Len(part) = z - a
      /\ \A i \in 1..(z - a) : part[i] = es[a + i]
  <2>1. a + 1 \in 1..(Len(es) + 1) /\ z \in a..Len(es)
    BY <1>1
  <2> QED
    BY <1>1, <2>1, SubSeqProperties
<1>3. \A i \in 1..(z - a) : a + i \in 1..Len(es)
  BY <1>1
<1>4. \A i \in 1..(z - a) : part[i].applied = (i <= c - a)
  BY <1>1, <1>2, <1>3 DEF Ordered
<1>5. \A i, j \in 1..(z - a) : i < j => part[i].id < part[j].id
  BY <1>1, <1>2, <1>3 DEF Ordered
<1>6. \A i \in 1..(z - a) : part[i].id < n
  BY <1>2, <1>3 DEF Ordered
<1>7. c - a \in 0..Len(part)
  BY <1>1, <1>2
<1> QED
  BY <1>2, <1>4, <1>5, <1>6, <1>7 DEF Ordered

\* Eviction keeps a history in order.
LEMMA EvictOrdered ==
    ASSUME NEW es, NEW c, NEW b, NEW n \in Nat, Ordered(es, c, n), Evict(es, c, b)
    PROVE  Ordered(entries', cursor', n)
<1>1. PICK k \in 0..Evictable(es, c) :
         entries' = Without(es, c, k) /\ cursor' = c - FromFront(c, k)
  BY DEF Evict
<1> DEFINE a == FromFront(c, k)
           z == Len(es) - (k - FromFront(c, k))
<1>2. Len(es) \in Nat /\ c \in 0..Len(es)
  BY DEF Ordered
<1>3. a \in 0..c /\ z \in a..Len(es) /\ c <= z
  BY <1>1, <1>2, Kept DEF Evictable
<1>4. Ordered(SubSeq(es, a + 1, z), c - a, n)
  BY <1>3, StretchOrdered
<1> QED
  BY <1>1, <1>4 DEF Without

\* A new operation, once what could have been redone is dropped, is the newest in effect.
LEMMA PushOrdered ==
    ASSUME UndoAssumption, StackInv, NEW held \in HeldSizes, Push(held)
    PROVE  StackInv'
<1> DEFINE front == SubSeq(entries, 1, cursor)
           new == [id |-> nextId, applied |-> TRUE, held |-> held]
           grown == Append(front, new)
<1>1. entries \in Seq(Entries) /\ cursor \in 0..Len(entries) /\ Len(entries) \in Nat
      /\ nextId \in Nat
  BY DEF StackInv, Ordered
<1>2. Ordered(front, cursor, nextId)
  <2>1. Ordered(SubSeq(entries, 0 + 1, cursor), cursor - 0, nextId)
    BY <1>1, StretchOrdered DEF StackInv
  <2> QED
    BY <1>1, <2>1
<1>3. Len(front) = cursor
  BY <1>1, SubSeqProperties
<1>4. new \in Entries
  BY <1>1 DEF Entries
<1>5. /\ grown \in Seq(Entries) /\ Len(grown) = cursor + 1
      /\ \A i \in 1..cursor : grown[i] = front[i]
      /\ grown[cursor + 1] = new
  BY <1>1, <1>2, <1>3, <1>4, AppendProperties DEF Ordered
<1>6. \A i \in 1..(cursor + 1) : i \in 1..cursor \/ i = cursor + 1
  BY <1>1
<1>7. \A i \in 1..cursor : /\ front[i].applied = (i <= cursor)
                           /\ front[i].id < nextId /\ front[i].id \in Nat
  BY <1>2, <1>3, ElementOfSeq DEF Ordered, Entries
<1>8. \A i \in 1..(cursor + 1) : grown[i].applied = (i <= cursor + 1)
  <2>1. \A i \in 1..cursor : grown[i].applied = TRUE
    <3>1. \A i \in 1..cursor : (i <= cursor) = TRUE
      BY <1>1
    <3> HIDE DEF grown, front
    <3> QED
      BY <1>5, <1>7, <3>1
  <2>2. grown[cursor + 1].applied = TRUE
    BY <1>5
  <2>3. \A i \in 1..(cursor + 1) : (i <= cursor + 1) = TRUE
    BY <1>1
  <2> HIDE DEF grown
  <2> QED
    BY <1>6, <2>1, <2>2, <2>3
<1>9. \A i, j \in 1..(cursor + 1) : i < j => grown[i].id < grown[j].id
  BY <1>1, <1>2, <1>3, <1>5, <1>6, <1>7 DEF Ordered
<1>10. \A i \in 1..(cursor + 1) : grown[i].id < nextId + 1
  BY <1>1, <1>5, <1>6, <1>7
<1>11. Ordered(grown, cursor + 1, nextId + 1)
  <2>1. cursor + 1 \in 0..Len(grown) /\ 1..Len(grown) = 1..(cursor + 1)
    BY <1>1, <1>5
  <2> HIDE DEF grown
  <2> QED
    BY <1>5, <1>8, <1>9, <1>10, <2>1 DEF Ordered
<1>12. /\ Evict(grown, cursor + 1, budget)
       /\ nextId' = nextId + 1 /\ budget' = budget
  BY DEF Push
<1>13. Ordered(entries', cursor', nextId + 1)
  BY <1>1, <1>11, <1>12, EvictOrdered
<1> QED
  BY <1>1, <1>12, <1>13 DEF StackInv

\* A step moves one entry across the cursor.
LEMMA AppliedOrdered ==
    ASSUME StackInv, NEW id, NEW held \in HeldSizes, Applied(id, held)
    PROVE  StackInv'
<1>1. entries \in Seq(Entries) /\ cursor \in 0..Len(entries) /\ Len(entries) \in Nat
      /\ nextId \in Nat /\ nextId' = nextId /\ budget' = budget
  BY DEF StackInv, Ordered, Applied, Undone, Redone
<1>2. \A i \in 1..Len(entries) : entries[i] \in Entries
  BY <1>1, ElementOfSeq
<1>3. ASSUME NEW k \in 1..Len(entries), NEW state \in BOOLEAN, NEW c \in 0..Len(entries),
             entries[k].id = id,
             \A i \in 1..Len(entries) : i # k => (i <= cursor) = (i <= c),
             state = (k <= c)
      PROVE  Ordered([entries EXCEPT ![k] = [id |-> id, applied |-> state, held |-> held]], c, nextId)
  <2> DEFINE next == [id |-> id, applied |-> state, held |-> held]
             es == [entries EXCEPT ![k] = next]
  <2>1. next \in Entries
    BY <1>2, <1>3 DEF Entries
  <2>2. es \in Seq(Entries) /\ Len(es) = Len(entries)
    BY <1>1, <2>1, ExceptSeq
  <2>3. /\ es[k] = next
        /\ \A i \in 1..Len(entries) : i # k => es[i] = entries[i]
    BY <1>1
  <2>4. \A i \in 1..Len(entries) : es[i].id = entries[i].id
    BY <1>3, <2>3
  <2>5. \A i \in 1..Len(entries) : es[i].applied = (i <= c)
    BY <1>3, <2>3 DEF StackInv, Ordered
  <2>6. \A i, j \in 1..Len(entries) : i < j => es[i].id < es[j].id
    BY <2>4 DEF StackInv, Ordered
  <2>7. \A i \in 1..Len(entries) : es[i].id < nextId
    BY <2>4 DEF StackInv, Ordered
  <2> QED
    BY <2>2, <2>5, <2>6, <2>7 DEF Ordered
<1>4. CASE Undone(id, held)
  <2>1. /\ cursor \in 1..Len(entries) /\ entries[cursor].id = id
        /\ Evict([entries EXCEPT ![cursor] = [id |-> id, applied |-> FALSE, held |-> held]],
                 cursor - 1, budget)
    BY <1>1, <1>4 DEF Undone, NextUndo
  <2>2. /\ \A i \in 1..Len(entries) : i # cursor => (i <= cursor) = (i <= cursor - 1)
        /\ FALSE = (cursor <= cursor - 1) /\ cursor - 1 \in 0..Len(entries)
    BY <1>1, <2>1
  <2>3. Ordered([entries EXCEPT ![cursor] = [id |-> id, applied |-> FALSE, held |-> held]],
                cursor - 1, nextId)
    BY <1>3, <2>1, <2>2
  <2>4. Ordered(entries', cursor', nextId)
    BY <1>1, <2>1, <2>3, EvictOrdered
  <2> QED
    BY <1>1, <2>4 DEF StackInv
<1>5. CASE Redone(id, held)
  <2>1. /\ cursor + 1 \in 1..Len(entries) /\ entries[cursor + 1].id = id
        /\ Evict([entries EXCEPT ![cursor + 1] = [id |-> id, applied |-> TRUE, held |-> held]],
                 cursor + 1, budget)
    BY <1>1, <1>5 DEF Redone, NextRedo
  <2>2. /\ \A i \in 1..Len(entries) : i # cursor + 1 => (i <= cursor) = (i <= cursor + 1)
        /\ TRUE = (cursor + 1 <= cursor + 1) /\ cursor + 1 \in 0..Len(entries)
    BY <1>1, <2>1
  <2>3. Ordered([entries EXCEPT ![cursor + 1] = [id |-> id, applied |-> TRUE, held |-> held]],
                cursor + 1, nextId)
    BY <1>3, <2>1, <2>2
  <2>4. Ordered(entries', cursor', nextId)
    BY <1>1, <2>1, <2>3, EvictOrdered
  <2> QED
    BY <1>1, <2>4 DEF StackInv
<1> QED
  BY <1>4, <1>5 DEF Applied

LEMMA SetBudgetOrdered ==
    ASSUME StackInv, NEW b \in Budgets, SetBudget(b)
    PROVE  StackInv'
<1>1. nextId \in Nat /\ nextId' = nextId /\ budget' = b /\ Evict(entries, cursor, b)
  BY DEF StackInv, SetBudget
<1>2. Ordered(entries', cursor', nextId)
  BY <1>1, EvictOrdered DEF StackInv
<1> QED
  BY <1>1, <1>2 DEF StackInv

LEMMA EmptyOrdered == ASSUME NEW n PROVE Ordered(<<>>, 0, n)
<1>1. <<>> \in Seq(Entries) /\ Len(<<>>) = 0
  OBVIOUS
<1> QED
  BY <1>1 DEF Ordered

\* The history is empty at first, and only these actions touch it.
LEMMA StackStep ==
    ASSUME UndoAssumption, StackInv, [Next]_vars
    PROVE  StackInv'
<1>1. CASE UNCHANGED stackVars
  BY <1>1 DEF StackInv, stackVars, Ordered
<1>2. CASE Records
  BY <1>1, <1>2, PushOrdered DEF Records
<1>3. ASSUME NEW from, NEW next, Steps(from, next)
      PROVE  StackInv'
  BY <1>1, <1>3, AppliedOrdered DEF Steps
<1>4. ASSUME ClearHistory
      PROVE  StackInv'
  BY <1>4, EmptyOrdered DEF ClearHistory, StackInv
<1>5. CASE SetsBudget
  BY <1>5, SetBudgetOrdered DEF SetsBudget
<1>6. ASSUME ThreadNext
      PROVE  StackInv'
  BY <1>1, <1>2, <1>3, <1>6
     DEF ThreadNext, Exit, Pop, Drained, Cleared, Skipped, Begins, Begin, Plans, ConflictAnswered,
         Works, ElevationAnswered, WalkBegins, WalkSteps, StepAsks, StepAnswered, StepEnds,
         WalkPanics, WalkEnds, Retires, Finishes, Ends, Moves, Ask, Answered, SameStack, stackVars
<1>7. ASSUME UiContinues
      PROVE  StackInv'
  BY <1>1, <1>4, <1>5, <1>7
     DEF UiContinues, UndoChecked, UndoSubmits, CancelsRunning, CancelsWaiting, ClearsHistory,
         Clears, UiRetires, UiRetireAll, CloseReleases, CloseRetires, ShutsDown, OpensGate, Joined,
         stackVars
<1>8. ASSUME ShowsQuestion \/ UserActs
      PROVE  StackInv'
  BY <1>1, <1>8
     DEF ShowsQuestion, UserActs, Submit, AskUndo, Cancel, SetPaused, CallsHistory,
         AnswersQuestion, Closes, stackVars
<1>9. CASE UNCHANGED vars
  BY <1>1, <1>9 DEF vars
<1> QED
  BY <1>6, <1>7, <1>8, <1>9 DEF Next

LEMMA StackInit_ == ASSUME Init PROVE StackInv
BY EmptyOrdered DEF Init, StackInit, StackInv

\* Through every undo, redo, abandoned branch and eviction the history stays in order:
\* what is in effect before the cursor, what has been undone after it, and the entries in
\* the order they were made, each with an id of its own (stack.rs: "Entries [0, cursor)
\* are done and [cursor, len) are undone, strictly").
THEOREM HistoryStaysInOrder == Spec => []HistoryInOrder
<1>1. Init => StackInv
  BY StackInit_
<1>2. StackInv /\ [Next]_vars => StackInv'
  BY StackStep, UndoAssumption
<1>3. StackInv => HistoryInOrder
  BY DEF StackInv, Ordered, HistoryInOrder, DoneBeforeCursor, IdsInOrder
<1> QED
  BY <1>1, <1>2, <1>3, PTL DEF Spec

--------------------------------------------------------------------------------
(* The budget. *)

\* Nothing holds nothing: the one case of the sum that its recursion ends with.
LEMMA SumOfNone == ASSUME NEW es, DOMAIN es = {} PROVE Held(es) = 0
<1> DEFINE some(s) == CHOOSE i \in s : TRUE
           Sums(f) == f = [s \in SUBSET DOMAIN es |-> IF s = {} THEN 0 ELSE es[some(s)].held + f[s \ {some(s)}]]
<1>1. Held(es) = (CHOOSE f : Sums(f))[DOMAIN es]
  BY DEF Held, MapThenSumSet, MapThenFoldSet
<1>2. Sums([s \in {{}} |-> 0])
  <2>1. SUBSET DOMAIN es = {{}}
    OBVIOUS
  <2> QED
    BY <2>1
<1>3. Sums(CHOOSE f : Sums(f))
  <2> HIDE DEF Sums
  <2> QED
    BY <1>2
<1> QED
  BY <1>1, <1>3

\* A history with nothing in it is within every budget.
LEMMA EmptyIsWithin == ASSUME NEW b \in Budgets, UndoAssumption PROVE ~OverBudget(<<>>, b)
<1>1. Held(<<>>) = 0
  BY SumOfNone
<1>2. b.max_entries \in Nat /\ b.max_held \in Nat /\ Len(<<>>) = 0
  BY DEF Budgets, UndoAssumption
<1> QED
  BY <1>1, <1>2 DEF OverBudget

\* Where eviction stops, what is left is within the budget, or the next undo is alone.
LEMMA EvictWithin ==
    ASSUME UndoAssumption, NEW es \in Seq(Entries), NEW c \in 0..Len(es), NEW b \in Budgets, Evict(es, c, b)
    PROVE  OverBudget(entries', b) => Len(entries') = 1 /\ cursor' = 1
<1>1. PICK n \in 0..Evictable(es, c) :
         StopsAfter(es, c, b, n) /\ entries' = Without(es, c, n) /\ cursor' = c - FromFront(c, n)
  BY DEF Evict
<1>2. SUFFICES ASSUME n = Evictable(es, c)
               PROVE  entries' = <<>> \/ (Len(entries') = 1 /\ cursor' = 1)
  BY <1>1, EmptyIsWithin DEF StopsAfter
<1>3. Len(es) \in Nat
  OBVIOUS
<1>4. CASE c > 0
  <2>1. FromFront(c, n) = c - 1 /\ Len(es) - (n - FromFront(c, n)) = c
    BY <1>2, <1>3, <1>4 DEF FromFront, Evictable
  <2>2. entries' = SubSeq(es, c, c) /\ cursor' = 1
    BY <1>1, <1>3, <2>1 DEF Without
  <2>3. Len(SubSeq(es, c, c)) = 1
    BY <1>3, <1>4, SubSeqProperties
  <2> QED
    BY <2>2, <2>3
<1>5. CASE c = 0
  <2>1. FromFront(c, n) = 0 /\ Len(es) - (n - FromFront(c, n)) = 0
    BY <1>2, <1>3, <1>5 DEF FromFront, Evictable
  <2>2. entries' = SubSeq(es, 1, 0)
    BY <1>1, <2>1 DEF Without
  <2> QED
    BY <2>2
<1> QED
  BY <1>3, <1>4, <1>5

LEMMA PushWithin ==
    ASSUME UndoAssumption, StackInv, NEW held \in HeldSizes, Push(held)
    PROVE  WithinBudget'
<1> DEFINE front == SubSeq(entries, 1, cursor)
           new == [id |-> nextId, applied |-> TRUE, held |-> held]
           grown == Append(front, new)
<1>1. entries \in Seq(Entries) /\ cursor \in 0..Len(entries) /\ nextId \in Nat /\ budget \in Budgets
  BY DEF StackInv, Ordered
<1>2. front \in Seq(Entries) /\ Len(front) = cursor /\ new \in Entries
  <2>1. 1 \in 1..(Len(entries) + 1) /\ cursor \in (1 - 1)..Len(entries)
    BY <1>1
  <2>2. front \in Seq(Entries) /\ Len(front) = cursor
    BY <1>1, <2>1, SubSeqProperties
  <2> QED
    BY <1>1, <2>2 DEF Entries
<1> HIDE DEF front, new
<1>3. grown \in Seq(Entries) /\ cursor + 1 \in 0..Len(grown)
  BY <1>1, <1>2
<1>4. Evict(grown, cursor + 1, budget) /\ budget' = budget
  BY DEF Push, front, new
<1> HIDE DEF grown
<1> QED
  BY <1>1, <1>3, <1>4, EvictWithin DEF WithinBudget

LEMMA AppliedWithin ==
    ASSUME UndoAssumption, StackInv, NEW id, NEW held \in HeldSizes, Applied(id, held)
    PROVE  WithinBudget'
<1>1. entries \in Seq(Entries) /\ cursor \in 0..Len(entries) /\ budget \in Budgets /\ budget' = budget
  BY DEF StackInv, Ordered, Applied, Undone, Redone
<1>2. ASSUME NEW k \in 1..Len(entries), NEW state \in BOOLEAN, NEW c \in 0..Len(entries), entries[k].id = id,
             Evict([entries EXCEPT ![k] = [id |-> id, applied |-> state, held |-> held]], c, budget)
      PROVE  WithinBudget'
  <2> DEFINE es == [entries EXCEPT ![k] = [id |-> id, applied |-> state, held |-> held]]
  <2>1. entries[k] \in Entries
    BY <1>1, ElementOfSeq
  <2>2. [id |-> id, applied |-> state, held |-> held] \in Entries
    BY <1>2, <2>1 DEF Entries
  <2>3. es \in Seq(Entries) /\ Len(es) = Len(entries)
    BY <1>1, <2>2, ExceptSeq
  <2> HIDE DEF es
  <2> QED
    BY <1>1, <1>2, <2>3, EvictWithin DEF WithinBudget, es
<1>3. CASE Undone(id, held)
  <2>1. cursor \in 1..Len(entries) /\ entries[cursor].id = id /\ cursor - 1 \in 0..Len(entries)
    BY <1>1, <1>3 DEF Undone, NextUndo
  <2> QED
    BY <1>2, <1>3, <2>1 DEF Undone
<1>4. CASE Redone(id, held)
  <2>1. cursor + 1 \in 1..Len(entries) /\ entries[cursor + 1].id = id /\ cursor + 1 \in 0..Len(entries)
    BY <1>1, <1>4 DEF Redone, NextRedo
  <2> QED
    BY <1>2, <1>4, <2>1 DEF Redone
<1> QED
  BY <1>3, <1>4 DEF Applied

\* Only these actions touch the history or its budget.
LEMMA WithinStep ==
    ASSUME UndoAssumption, StackInv, WithinBudget, [Next]_vars
    PROVE  WithinBudget'
<1>1. CASE UNCHANGED stackVars
  BY <1>1 DEF WithinBudget, stackVars
<1>2. CASE Records
  BY <1>1, <1>2, PushWithin DEF Records
<1>3. ASSUME NEW from, NEW next, Steps(from, next)
      PROVE  WithinBudget'
  BY <1>1, <1>3, AppliedWithin DEF Steps
<1>4. ASSUME ClearHistory
      PROVE  WithinBudget'
  BY <1>4, EmptyIsWithin DEF ClearHistory, StackInv, WithinBudget
<1>5. CASE SetsBudget
  BY <1>5, EvictWithin DEF SetsBudget, SetBudget, StackInv, Ordered, WithinBudget
<1>6. ASSUME ThreadNext
      PROVE  WithinBudget'
  BY <1>1, <1>2, <1>3, <1>6
     DEF ThreadNext, Exit, Pop, Drained, Cleared, Skipped, Begins, Begin, Plans, ConflictAnswered,
         Works, ElevationAnswered, WalkBegins, WalkSteps, StepAsks, StepAnswered, StepEnds,
         WalkPanics, WalkEnds, Retires, Finishes, Ends, Moves, Ask, Answered, SameStack, stackVars
<1>7. ASSUME UiContinues
      PROVE  WithinBudget'
  BY <1>1, <1>4, <1>5, <1>7
     DEF UiContinues, UndoChecked, UndoSubmits, CancelsRunning, CancelsWaiting, ClearsHistory,
         Clears, UiRetires, UiRetireAll, CloseReleases, CloseRetires, ShutsDown, OpensGate, Joined,
         stackVars
<1>8. ASSUME ShowsQuestion \/ UserActs
      PROVE  WithinBudget'
  BY <1>1, <1>8
     DEF ShowsQuestion, UserActs, Submit, AskUndo, Cancel, SetPaused, CallsHistory,
         AnswersQuestion, Closes, stackVars
<1>9. CASE UNCHANGED vars
  BY <1>1, <1>9 DEF vars
<1> QED
  BY <1>6, <1>7, <1>8, <1>9 DEF Next

\* However records grow or shrink as they are undone and redone, and whenever the user
\* chooses another budget, what the history holds is within it, the next undo excepted.
THEOREM HistoryStaysWithinBudget == Spec => []WithinBudget
<1>1. Init => WithinBudget
  BY EmptyIsWithin, UndoAssumption DEF Init, StackInit, WithinBudget
<1>2. StackInv /\ WithinBudget /\ [Next]_vars => WithinBudget'
  BY WithinStep, UndoAssumption
<1>3. Spec => []StackInv
  <2>1. StackInv /\ [Next]_vars => StackInv'
    BY StackStep, UndoAssumption
  <2>2. Init => StackInv
    BY StackInit_
  <2> QED
    BY <2>1, <2>2, PTL DEF Spec
<1> QED
  BY <1>1, <1>2, <1>3, PTL DEF Spec

--------------------------------------------------------------------------------
(* The queue's own state. *)

StepRange == -MaxSteps..MaxSteps
UiCalls == [op : Calls, job : Jobs \union {0}, steps : StepRange]

QueueTypeOK ==
    /\ jobs \in Seq(Jobs) /\ running \in Jobs \union {0} /\ target \in Jobs \union {0}
    /\ draining \in BOOLEAN /\ shutdown \in BOOLEAN /\ paused \in BOOLEAN
    /\ work \in [Jobs -> Job] /\ status \in [Jobs -> Statuses]
    /\ cancelled \subseteq Jobs /\ stopped \subseteq Jobs
    /\ at \in Places
    /\ ui \in UiCalls

\* The thread is between jobs exactly when none is running.
Between == at \in {"idle", "clearing", "gone"} <=> running = 0

UndoPlaces  == {"locking", "walking", "askingStep", "stepping"}
WritePlaces == {"planning", "askingConflict", "working", "askingElevation", "recording"}

\* What stands in the queue and what is running are operations of their own.
Distinct ==
    /\ \A i \in 1..Len(jobs) : status[jobs[i]] = "queued" /\ jobs[i] # running
    /\ \A i, j \in 1..Len(jobs) : jobs[i] = jobs[j] => i = j
    /\ running # 0 => status[running] # "free"

\* An undo is at the head of the queue or running, and nothing was recorded since.
UndoFirst ==
    /\ \A i \in 1..Len(jobs) :
          work[jobs[i]].kind = "undo" => i = 1 /\ running = 0 /\ work[jobs[i]].made = nextId - 1
    /\ running # 0 /\ work[running].kind = "undo" => work[running].made = nextId - 1
    /\ at \in UndoPlaces => work[running].kind = "undo"
    /\ at \in WritePlaces => work[running].kind # "undo"

Stopped == stopped \subseteq cancelled /\ StoppedNeverRuns

WorkInv == BusyCoversWork /\ Between /\ Distinct /\ UndoFirst /\ Stopped
QueueInv == StackInv /\ QueueTypeOK /\ WorkInv

\* What a step of the transfer thread leaves alone in every case.
LEMMA MovesKeep ==
    ASSUME QueueInv, NEW from, NEW to \in Places, Thread(from, to), SameQueue,
           from \notin {"idle", "clearing", "gone"}, to \notin {"idle", "clearing", "gone"},
           to \in UndoPlaces => from \in UndoPlaces,
           to \in WritePlaces => from \in WritePlaces,
           nextId' = nextId
    PROVE  QueueTypeOK' /\ WorkInv'
<1>1. QueueTypeOK' /\ at' = to /\ at = from
  BY DEF QueueInv, QueueTypeOK, Thread, SameQueue, SameJobs
<1>2. BusyCoversWork' /\ Between' /\ Distinct' /\ Stopped'
  BY <1>1 DEF QueueInv, WorkInv, BusyCoversWork, Between, Distinct, Stopped, StoppedNeverRuns,
              Thread, SameQueue, SameJobs
<1>3. UndoFirst'
  BY <1>1 DEF QueueInv, WorkInv, UndoFirst, Thread, SameQueue, SameJobs
<1> QED
  BY <1>1, <1>2, <1>3 DEF WorkInv

\* Taking the next job, or finding that there is none.
LEMMA PopKeeps ==
    ASSUME QueueAssumption, QueueInv, Pop \/ Exit \/ Drained \/ Cleared
    PROVE  QueueTypeOK' /\ WorkInv'
<1>1. CASE Pop
  <2>1. /\ jobs \in Seq(Jobs) /\ jobs # <<>> /\ running = 0 /\ Len(jobs) \in Nat \ {0}
        /\ running' = jobs[1] /\ jobs' = Tail(jobs) /\ running' \in Jobs /\ running' # 0
        /\ jobs' \in Seq(Jobs) /\ Len(jobs') = Len(jobs) - 1
        /\ \A i \in 1..Len(jobs') : jobs'[i] = jobs[i + 1]
    BY <1>1 DEF Pop, Thread, QueueInv, QueueTypeOK, WorkInv, Between, QueueAssumption
  <2>2. QueueTypeOK'
    BY <1>1, <2>1 DEF QueueInv, QueueTypeOK, Pop, Thread, SameJobs, Places
  <2>3. BusyCoversWork' /\ Between' /\ Stopped'
    BY <1>1, <2>1 DEF QueueInv, WorkInv, BusyCoversWork, Between, Stopped, StoppedNeverRuns,
                      Pop, Thread, SameJobs
  <2>4. Distinct'
    BY <1>1, <2>1 DEF QueueInv, WorkInv, Distinct, Pop, Thread, SameJobs
  <2>5. UndoFirst'
    BY <1>1, <2>1 DEF QueueInv, WorkInv, UndoFirst, Pop, Thread, SameJobs, SameStack, stackVars,
                      UndoPlaces, WritePlaces
  <2> QED
    BY <2>2, <2>3, <2>4, <2>5 DEF WorkInv
<1>2. CASE Exit \/ Drained \/ Cleared
  <2>1. QueueTypeOK'
    BY <1>2 DEF Exit, Drained, Cleared, Thread, SameQueue, SameJobs, QueueInv, QueueTypeOK, Places
  <2>2. BusyCoversWork' /\ Between' /\ Stopped' /\ Distinct'
    BY <1>2 DEF QueueInv, WorkInv, BusyCoversWork, Between, Stopped, StoppedNeverRuns, Distinct,
                Exit, Drained, Cleared, Thread, SameQueue, SameJobs
  <2>3. UndoFirst'
    BY <1>2 DEF QueueInv, WorkInv, UndoFirst, UndoPlaces, WritePlaces,
                Exit, Drained, Cleared, Thread, SameQueue, SameJobs, SameStack, stackVars
  <2> QED
    BY <2>1, <2>2, <2>3 DEF WorkInv
<1> QED
  BY <1>1, <1>2

\* Starting the job taken, into the place of its kind.
LEMMA BeginKeeps ==
    ASSUME QueueAssumption, QueueInv, Begins
    PROVE  QueueTypeOK' /\ WorkInv'
<1>1. /\ at = "popped" /\ running # 0 /\ running \in Jobs /\ running \notin cancelled
      /\ work[running].kind \in Kinds
  BY DEF Begins, Begin, Thread, QueueInv, QueueTypeOK, WorkInv, Between, Job
<1>2. /\ FirstPlace \in {"planning", "working", "locking"}
      /\ FirstPlace = "locking" <=> work[running].kind = "undo"
  BY <1>1 DEF FirstPlace, Kind, Kinds
<1>3. QueueTypeOK' /\ at' = FirstPlace
  BY <1>1, <1>2 DEF Begins, Begin, Thread, QueueInv, QueueTypeOK, Places, Statuses
<1>4. BusyCoversWork' /\ Between' /\ Stopped' /\ Distinct'
  BY <1>1, <1>2, <1>3 DEF QueueInv, QueueTypeOK, WorkInv, BusyCoversWork, Between, Stopped,
                     StoppedNeverRuns, Distinct, Begins, Begin, Thread
<1>5. UndoFirst'
  BY <1>1, <1>2, <1>3 DEF QueueInv, WorkInv, UndoFirst, UndoPlaces, WritePlaces, Begins, Begin,
                     Thread, SameStack, stackVars
<1> QED
  BY <1>3, <1>4, <1>5 DEF WorkInv

\* A job that is over leaves the ids of the others alone.
LEMMA FreesKeeps ==
    ASSUME QueueAssumption, QueueInv, Skipped \/ Ends
    PROVE  QueueTypeOK' /\ WorkInv'
<1>1. /\ at' = "idle" /\ running' = 0 /\ running \in Jobs
      /\ Frees(running) /\ jobs' = jobs /\ draining' = draining /\ nextId' = nextId
      /\ shutdown' = shutdown /\ ui' = ui /\ target' = target /\ paused' = paused
  <2>1. Frees(running) /\ running' = 0
    BY DEF Skipped, Ends, Frees
  <2> QED
    BY <2>1 DEF Skipped, Ends, Thread, QueueInv, QueueTypeOK, WorkInv, Between, SameStack, stackVars
<1>2. NoJob \in Job
  BY DEF NoJob, Job, Kinds, QueueAssumption
<1>3. QueueTypeOK'
  BY <1>1, <1>2 DEF Frees, QueueInv, QueueTypeOK, Places, Statuses
<1>4. BusyCoversWork' /\ Between' /\ Stopped' /\ Distinct'
  BY <1>1 DEF QueueInv, QueueTypeOK, WorkInv, BusyCoversWork, Between, Stopped,
              StoppedNeverRuns, Distinct, Frees
<1>5. \A i \in 1..Len(jobs) : jobs[i] # running /\ jobs[i] \in Jobs /\ work'[jobs[i]] = work[jobs[i]]
  BY <1>1 DEF Frees, QueueInv, QueueTypeOK, WorkInv, Distinct
<1>6. UndoFirst'
  BY <1>1, <1>5 DEF QueueInv, WorkInv, UndoFirst, UndoPlaces, WritePlaces
<1> QED
  BY <1>3, <1>4, <1>6 DEF WorkInv

\* What a job did is recorded while no undo is waiting.
LEMMA RecordKeeps ==
    ASSUME QueueInv, Records
    PROVE  QueueTypeOK' /\ WorkInv'
<1>1. /\ at = "recording" /\ at' = "retiring" /\ running # 0 /\ work[running].kind # "undo"
      /\ UNCHANGED <<jobs, running, draining, target, paused, work, status, cancelled, stopped,
                     shutdown, ui>>
  BY DEF Records, Thread, SameQueue, SameJobs, QueueInv, WorkInv, Between, UndoFirst, WritePlaces
<1>2. QueueTypeOK'
  BY <1>1 DEF QueueInv, QueueTypeOK, Places
<1>3. BusyCoversWork' /\ Between' /\ Stopped' /\ Distinct'
  BY <1>1 DEF QueueInv, WorkInv, BusyCoversWork, Between, Stopped, StoppedNeverRuns, Distinct
<1>4. UndoFirst'
  BY <1>1 DEF QueueInv, WorkInv, UndoFirst, UndoPlaces, WritePlaces
<1> QED
  BY <1>2, <1>3, <1>4 DEF WorkInv

LEMMA ThreadKeeps ==
    ASSUME QueueAssumption, QueueInv, ThreadNext
    PROVE  QueueTypeOK' /\ WorkInv'
<1>1. CASE Pop \/ Exit \/ Drained \/ Cleared
  BY <1>1, PopKeeps
<1>2. CASE Begins
  BY <1>2, BeginKeeps
<1>3. CASE Skipped \/ Ends
  BY <1>3, FreesKeeps
<1>4. CASE Records
  BY <1>4, RecordKeeps
<1>5. CASE Plans \/ ConflictAnswered \/ Works \/ ElevationAnswered
  BY <1>5, MovesKeep
     DEF Plans, ConflictAnswered, Works, ElevationAnswered, Moves, Ask, Answered, Thread, SameStack,
         stackVars, Places, UndoPlaces, WritePlaces
<1>6. CASE WalkBegins \/ StepAsks \/ StepAnswered \/ WalkPanics \/ WalkEnds \/ Retires
  BY <1>6, MovesKeep
     DEF WalkBegins, StepAsks, StepAnswered, WalkPanics, WalkEnds, Retires, Moves, Ask, Answered,
         Thread, SameStack, stackVars, Places, UndoPlaces, WritePlaces
<1>7. ASSUME NEW from \in {"walking", "stepping"}, Steps(from, "walking")
      PROVE  QueueTypeOK' /\ WorkInv'
  BY <1>7, MovesKeep
     DEF Steps, Applied, Undone, Redone, Thread, stackVars, Places, UndoPlaces, WritePlaces
<1>8. CASE WalkSteps \/ StepEnds
  BY <1>7, <1>8 DEF WalkSteps, StepEnds
<1>9. CASE Finishes
  <2>1. QueueTypeOK'
    BY <1>9 DEF Finishes, Thread, SameJobs, QueueInv, QueueTypeOK, Places
  <2>2. BusyCoversWork' /\ Between' /\ Stopped' /\ Distinct' /\ UndoFirst'
    BY <1>9 DEF QueueInv, WorkInv, BusyCoversWork, Between, Stopped, StoppedNeverRuns, Distinct,
                UndoFirst, UndoPlaces, WritePlaces, Finishes, Thread, SameJobs, SameStack, stackVars
  <2> QED
    BY <2>1, <2>2 DEF WorkInv
<1> QED
  BY <1>1, <1>2, <1>3, <1>4, <1>5, <1>6, <1>8, <1>9 DEF ThreadNext

\* A job accepted joins the end of the queue under an id that nothing else has.
LEMMA EnqueueKeeps ==
    ASSUME QueueAssumption, QueueInv, NEW kind \in Kinds, NEW steps \in StepRange,
           Enqueue(kind, steps), draining' = TRUE, kind # "undo" \/ ~draining,
           at' = at, stopped' = stopped, nextId' = nextId,
           ui' \in UiCalls
    PROVE  QueueTypeOK' /\ WorkInv'
<1>1. PICK j \in Jobs :
         /\ status[j] = "free"
         /\ work' = [work EXCEPT ![j] = [kind |-> kind, steps |-> steps, made |-> nextId - 1]]
         /\ status' = [status EXCEPT ![j] = "queued"]
         /\ jobs' = Append(jobs, j)
  BY DEF Enqueue
<1>2. /\ UNCHANGED <<running, shutdown, cancelled, target, paused>>
      /\ jobs \in Seq(Jobs) /\ Len(jobs) \in Nat /\ j # 0 /\ nextId - 1 \in Nat
  BY DEF Enqueue, QueueInv, QueueTypeOK, StackInv, QueueAssumption
<1>3. /\ jobs' \in Seq(Jobs) /\ Len(jobs') = Len(jobs) + 1
      /\ \A i \in 1..Len(jobs) : jobs'[i] = jobs[i]
      /\ jobs'[Len(jobs) + 1] = j
      /\ \A i \in 1..(Len(jobs) + 1) : i \in 1..Len(jobs) \/ i = Len(jobs) + 1
  BY <1>1, <1>2
<1>4. /\ \A i \in 1..Len(jobs) : jobs[i] # j /\ jobs[i] \in Jobs
      /\ running # j
  BY <1>1, <1>2 DEF QueueInv, WorkInv, Distinct
<1>5. /\ \A k \in Jobs : k # j => work'[k] = work[k] /\ status'[k] = status[k]
      /\ work'[j].kind = kind /\ work'[j].made = nextId - 1 /\ status'[j] = "queued"
      /\ running \in Jobs \union {0}
  BY <1>1 DEF QueueInv, QueueTypeOK
<1>6. QueueTypeOK'
  <2>1. [kind |-> kind, steps |-> steps, made |-> nextId - 1] \in Job
    BY <1>2 DEF Job, StepRange
  <2> QED
    BY <1>1, <1>2, <1>3, <2>1 DEF QueueInv, QueueTypeOK, Statuses
<1>7. BusyCoversWork' /\ Between'
  BY <1>2 DEF BusyCoversWork, QueueInv, WorkInv, Between
<1>8. Distinct'
  <2>1. \A i \in 1..Len(jobs') : status'[jobs'[i]] = "queued" /\ jobs'[i] # running'
    <3>1. \A i \in 1..Len(jobs) : status'[jobs'[i]] = "queued" /\ jobs'[i] # running'
      <4>1. \A i \in 1..Len(jobs) : status[jobs[i]] = "queued" /\ jobs[i] # running
        BY DEF QueueInv, WorkInv, Distinct
      <4>2. \A i \in 1..Len(jobs) : status'[jobs[i]] = status[jobs[i]]
        BY <1>4, <1>5
      <4> QED
        BY <1>2, <1>3, <4>1, <4>2
    <3>2. status'[jobs'[Len(jobs) + 1]] = "queued" /\ jobs'[Len(jobs) + 1] # running'
      BY <1>2, <1>3, <1>4, <1>5
    <3> QED
      BY <1>3, <3>1, <3>2
  <2>2. ASSUME NEW i \in 1..Len(jobs'), NEW k \in 1..Len(jobs'), jobs'[i] = jobs'[k]
        PROVE  i = k
    <3>1. CASE i \in 1..Len(jobs) /\ k \in 1..Len(jobs)
      BY <1>3, <2>2, <3>1 DEF QueueInv, WorkInv, Distinct
    <3>2. CASE i = Len(jobs) + 1 \/ k = Len(jobs) + 1
      BY <1>3, <1>4, <2>2, <3>2
    <3> QED
      BY <1>3, <3>1, <3>2
  <2>3. running' # 0 => status'[running'] # "free"
    BY <1>2, <1>4, <1>5 DEF QueueInv, WorkInv, Distinct
  <2> QED
    BY <2>1, <2>2, <2>3 DEF Distinct
<1>9. Stopped'
  BY <1>2, <1>5, <1>1 DEF QueueInv, QueueTypeOK, WorkInv, Stopped, StoppedNeverRuns
<1>10. kind = "undo" => running = 0 /\ Len(jobs) = 0
  BY <1>2 DEF QueueInv, WorkInv, BusyCoversWork
<1>11. UndoFirst'
  <2>1. at' \in UndoPlaces \union WritePlaces => running # 0
    BY DEF QueueInv, WorkInv, Between, UndoPlaces, WritePlaces
  <2>2. running # 0 => work'[running] = work[running]
    BY <1>4, <1>5
  <2>3. ASSUME NEW i \in 1..Len(jobs'), work'[jobs'[i]].kind = "undo"
        PROVE  i = 1 /\ running' = 0 /\ work'[jobs'[i]].made = nextId' - 1
    <3>1. CASE i \in 1..Len(jobs)
      BY <1>2, <1>3, <1>4, <1>5, <2>3, <3>1 DEF QueueInv, WorkInv, UndoFirst
    <3>2. CASE i = Len(jobs) + 1
      BY <1>2, <1>3, <1>5, <1>10, <2>3, <3>2
    <3> QED
      BY <1>3, <3>1, <3>2
  <2> QED
    BY <1>2, <2>1, <2>2, <2>3 DEF QueueInv, WorkInv, UndoFirst
<1> QED
  BY <1>6, <1>7, <1>8, <1>9, <1>11 DEF WorkInv

\* What the UI thread leaves alone in all its other steps.
LEMMA UiKeeps ==
    ASSUME QueueInv, UNCHANGED <<running, draining, work, status, target, at, nextId>>,
           jobs' = jobs \/ jobs' = <<>>,
           shutdown' \in BOOLEAN, paused' \in BOOLEAN,
           cancelled' \subseteq Jobs, cancelled \subseteq cancelled',
           stopped \subseteq stopped', stopped' \subseteq cancelled',
           \A j \in stopped' \ stopped : status[j] = "queued",
           ui' \in UiCalls
    PROVE  QueueTypeOK' /\ WorkInv'
<1>1. QueueTypeOK'
  <2>1. <<>> \in Seq(Jobs)
    OBVIOUS
  <2> QED
    BY <2>1 DEF QueueInv, QueueTypeOK, WorkInv, Stopped
<1>2. BusyCoversWork' /\ Between' /\ Stopped'
  BY DEF QueueInv, WorkInv, BusyCoversWork, Between, Stopped, StoppedNeverRuns
<1>3. Distinct'
  BY DEF QueueInv, WorkInv, Distinct
<1>4. UndoFirst'
  BY DEF QueueInv, WorkInv, UndoFirst
<1> QED
  BY <1>1, <1>2, <1>3, <1>4 DEF WorkInv

\* Steps of the UI thread that change only what it is in the middle of, the history, or
\* what has been retired.
LEMMA UiOnlyKeeps ==
    ASSUME QueueInv, UiQueue, UNCHANGED <<at, nextId, stopped>>,
           ui' \in UiCalls
    PROVE  QueueTypeOK' /\ WorkInv'
<1>1. /\ UNCHANGED <<running, draining, work, status, target, at, nextId, jobs, shutdown, paused,
                     cancelled, stopped>>
      /\ shutdown \in BOOLEAN /\ paused \in BOOLEAN /\ cancelled \subseteq Jobs
      /\ stopped \subseteq cancelled
  BY DEF UiQueue, QueueInv, QueueTypeOK, WorkInv, Stopped
<1> QED
  BY <1>1, UiKeeps

\* The calls of the UI thread, one by one.
LEMMA UiStepKeeps ==
    ASSUME QueueAssumption, QueueInv, UiContinues \/ ShowsQuestion \/ UserActs
    PROVE  QueueTypeOK' /\ WorkInv'
<1>1. /\ ui \in UiCalls /\ Idle \in UiCalls
      /\ \A op \in Calls : [ui EXCEPT !.op = op] \in UiCalls
      /\ \A op \in Calls, j \in Jobs \union {0}, n \in StepRange :
            [op |-> op, job |-> j, steps |-> n] \in UiCalls
      /\ 0 \in StepRange
  <2>1. ui \in UiCalls /\ 0 \in StepRange /\ "none" \in Calls
    BY DEF QueueInv, QueueTypeOK, Calls, QueueAssumption, StepRange
  <2> QED
    BY <2>1 DEF Idle, UiCalls
<1>2. CASE UndoChecked \/ ClearsHistory \/ SetsBudget \/ UiRetires \/ CloseReleases \/ CloseRetires
           \/ Joined \/ ShowsQuestion
  <2>1. UiQueue /\ UNCHANGED <<at, nextId, stopped>>
    BY <1>2 DEF UndoChecked, ClearsHistory, Clears, SetsBudget, UiRetires, UiRetireAll,
                CloseReleases, CloseRetires, Joined, ShowsQuestion, UiOnly, walkVars, stackVars,
                ClearHistory, SetBudget
  <2>2. ui' \in UiCalls
    BY <1>1, <1>2 DEF UndoChecked, ClearsHistory, Clears, SetsBudget, UiRetires, CloseReleases,
                CloseRetires, Joined, ShowsQuestion, UiGoes, UiReturns, Calls
  <2> QED
    BY <2>1, <2>2, UiOnlyKeeps
<1>3. CASE AskUndo \/ Cancel \/ CallsHistory \/ AnswersQuestion \/ Closes
  <2>1. UiQueue /\ UNCHANGED <<at, nextId, stopped>>
    BY <1>3 DEF AskUndo, Cancel, CallsHistory, AnswersQuestion, Closes, UiOnly, walkVars, stackVars
  <2>2. ui' \in UiCalls
    <3>1. ASSUME NEW op \in {"undo check", "cancel running", "cancel waiting", "clear", "budget",
                               "release"},
                 NEW j \in Jobs \union {0}, NEW n \in StepRange, Call(op, j, n)
          PROVE  ui' \in UiCalls
      <4>1. op \in Calls
        BY DEF Calls
      <4> QED
        BY <1>1, <3>1, <4>1 DEF Call
    <3>2. CASE AskUndo
      BY <1>1, <3>1, <3>2 DEF AskUndo, StepRange
    <3>3. CASE Cancel
      BY <1>1, <3>1, <3>3 DEF Cancel
    <3>4. CASE CallsHistory \/ Closes
      BY <1>1, <3>1, <3>4 DEF CallsHistory, Closes
    <3>5. CASE AnswersQuestion
      BY <1>1, <3>5 DEF AnswersQuestion
    <3> QED
      BY <1>3, <3>2, <3>3, <3>4, <3>5
  <2> QED
    BY <2>1, <2>2, UiOnlyKeeps
<1>4. CASE Submit \/ UndoSubmits
  <2>1. /\ UNCHANGED <<at, nextId, stopped>> /\ ui' \in UiCalls
    BY <1>1, <1>4 DEF Submit, UndoSubmits, UiOnly, walkVars, stackVars, UiReturns
  <2>2. ASSUME NEW kind \in Kinds, NEW steps \in StepRange, Accept(kind, steps)
        PROVE  QueueTypeOK' /\ WorkInv'
    BY <2>1, <2>2, EnqueueKeeps DEF Accept
  <2>3. CASE UndoSubmits /\ UiQueue
    BY <2>1, <2>3, UiOnlyKeeps
  <2>4. ui.steps \in StepRange
    BY <1>1 DEF UiCalls
  <2> QED
    BY <1>1, <1>4, <2>2, <2>3, <2>4 DEF Submit, UndoSubmits, Kinds
<1>5. CASE CancelsRunning \/ SetPaused \/ ShutsDown \/ OpensGate
  <2>1. /\ UNCHANGED <<running, draining, work, status, target, at, nextId, stopped>>
        /\ jobs' = jobs \/ jobs' = <<>>
    BY <1>5 DEF CancelsRunning, SetPaused, ShutsDown, OpensGate, UiOnly, walkVars, stackVars
  <2>2. ui' \in UiCalls /\ shutdown' \in BOOLEAN /\ paused' \in BOOLEAN
    BY <1>1, <1>5 DEF CancelsRunning, CancelRunning, SetPaused, ShutsDown, OpensGate, UiReturns,
                      UiGoes, QueueInv, QueueTypeOK, Calls
  <2>3. \A i \in DOMAIN jobs : jobs[i] \in Jobs
    BY DEF QueueInv, QueueTypeOK
  <2>4. cancelled' \subseteq Jobs /\ cancelled \subseteq cancelled'
    BY <1>5, <2>3 DEF CancelsRunning, CancelRunning, SetPaused, ShutsDown, OpensGate,
                      QueueInv, QueueTypeOK
  <2> QED
    BY <2>1, <2>2, <2>4, UiKeeps DEF QueueInv, WorkInv, Stopped
<1>6. CASE CancelsWaiting
  <2>1. UNCHANGED <<running, draining, work, status, target, at, nextId, jobs, shutdown, paused>>
    BY <1>6 DEF CancelsWaiting, UiOnly, walkVars, stackVars
  <2>2. ui' \in UiCalls /\ shutdown \in BOOLEAN /\ paused \in BOOLEAN
    BY <1>1, <1>6 DEF CancelsWaiting, UiReturns, QueueInv, QueueTypeOK
  <2> DEFINE found == {ui.job} \intersect {jobs[i] : i \in DOMAIN jobs}
  <2>3. cancelled' = cancelled \union found /\ stopped' = stopped \union found
    BY <1>6 DEF CancelsWaiting
  <2>4. found \subseteq Jobs /\ \A j \in found : status[j] = "queued"
    BY DEF QueueInv, QueueTypeOK, WorkInv, Distinct
  <2> HIDE DEF found
  <2>5. /\ cancelled' \subseteq Jobs /\ cancelled \subseteq cancelled'
        /\ stopped \subseteq stopped' /\ stopped' \subseteq cancelled'
        /\ \A j \in stopped' \ stopped : status[j] = "queued"
    BY <2>3, <2>4 DEF QueueInv, QueueTypeOK, WorkInv, Stopped
  <2> QED
    BY <2>1, <2>2, <2>5, UiKeeps
<1> QED
  BY <1>2, <1>3, <1>4, <1>5, <1>6 DEF UiContinues, UserActs

LEMMA QueueStep ==
    ASSUME UndoAssumption, QueueAssumption, QueueInv, [Next]_vars
    PROVE  QueueInv'
<1>1. StackInv'
  BY StackStep DEF QueueInv
<1>2. QueueTypeOK' /\ WorkInv'
  <2>1. CASE UNCHANGED vars
    BY <2>1 DEF vars, stackVars, queueVars, walkVars, QueueInv, QueueTypeOK, WorkInv, BusyCoversWork,
                Between, Distinct, UndoFirst, Stopped, StoppedNeverRuns
  <2> QED
    BY <2>1, ThreadKeeps, UiStepKeeps DEF Next
<1> QED
  BY <1>1, <1>2 DEF QueueInv

LEMMA QueueInit ==
    ASSUME QueueAssumption, Init
    PROVE  QueueInv
<1>1. StackInv
  BY StackInit_
<1>2. NoJob \in Job /\ Idle \in UiCalls
  BY DEF NoJob, Job, Kinds, QueueAssumption, Idle, UiCalls, StepRange, Calls
<1>3. QueueTypeOK
  <2>1. <<>> \in Seq(Jobs)
    OBVIOUS
  <2> QED
    BY <1>2, <2>1 DEF Init, QueueTypeOK, Places, Statuses
<1>4. WorkInv
  BY DEF Init, WorkInv, BusyCoversWork, Between, Distinct, UndoFirst, Stopped, StoppedNeverRuns,
         UndoPlaces, WritePlaces
<1> QED
  BY <1>1, <1>3, <1>4 DEF QueueInv

\* While an operation waits or runs the app knows it is writing, so an undo is refused
\* (ops/mod.rs: draining is "Distinct from running on purpose").
THEOREM BusyWhileWorking == Spec => []BusyCoversWork
<1>1. Init => QueueInv
  BY QueueInit, QueueAssumption
<1>2. QueueInv /\ [Next]_vars => QueueInv'
  BY QueueStep, UndoAssumption, QueueAssumption
<1>3. QueueInv => BusyCoversWork
  BY DEF QueueInv, WorkInv
<1> QED
  BY <1>1, <1>2, <1>3, PTL DEF Spec

\* Nothing is recorded between the acceptance of an undo and its walk, so it takes back the
\* operations that were the newest when it was asked for.
THEOREM UndoMeansWhatWasSeen == Spec => []UndoOfWhatWasThere
<1>1. Init => QueueInv
  BY QueueInit, QueueAssumption
<1>2. QueueInv /\ [Next]_vars => QueueInv'
  BY QueueStep, UndoAssumption, QueueAssumption
<1>3. QueueInv => UndoOfWhatWasThere
  BY DEF QueueInv, WorkInv, Between, UndoFirst, UndoPlaces, UndoOfWhatWasThere
<1> QED
  BY <1>1, <1>2, <1>3, PTL DEF Spec

\* A job cancelled while it waited is skipped by the transfer thread, never run.
THEOREM CancelledWhileWaitingNeverRuns == Spec => []StoppedNeverRuns
<1>1. Init => QueueInv
  BY QueueInit, QueueAssumption
<1>2. QueueInv /\ [Next]_vars => QueueInv'
  BY QueueStep, UndoAssumption, QueueAssumption
<1>3. QueueInv => StoppedNeverRuns
  BY DEF QueueInv, WorkInv, Stopped
<1> QED
  BY <1>1, <1>2, <1>3, PTL DEF Spec

--------------------------------------------------------------------------------
(* What is left of the type invariant: the walk, the questions and what is owed. *)

RestTypeOK ==
    /\ span \in Seq(Nat)
    /\ question \in {"none", "raised", "shown", "yes", "no"}
    /\ owed \subseteq Nat /\ uiOwed \subseteq Nat /\ retired \subseteq Nat /\ lost \subseteq Nat

LEMMA IdsAreNat == ASSUME StackInv PROVE Ids(entries) \subseteq Nat /\ nextId \in Nat
<1>1. entries \in Seq(Entries) /\ nextId \in Nat
  BY DEF StackInv, Ordered
<1>2. \A i \in 1..Len(entries) : entries[i] \in Entries
  BY <1>1, ElementOfSeq
<1> QED
  BY <1>1, <1>2 DEF Ids, Entries

LEMMA SpanTyped ==
    ASSUME StackInv, NEW steps \in Int
    PROVE  Span(steps) \in Seq(Nat)
<1>1. cursor \in Nat /\ Len(entries) \in Nat /\ cursor <= Len(entries)
  BY DEF StackInv, Ordered
<1>2. \A i \in 1..Len(entries) : entries[i].id \in Nat
  BY IdsAreNat DEF Ids, StackInv, Ordered
<1>3. CASE steps > 0
  <2> DEFINE n == IF steps < cursor THEN steps ELSE cursor
  <2>1. n \in Nat /\ \A i \in 1..n : cursor + 1 - i \in 1..Len(entries)
    BY <1>1, <1>3
  <2>2. \A i \in 1..n : entries[cursor + 1 - i].id \in Nat
    BY <1>2, <2>1
  <2>3. [i \in 1..n |-> entries[cursor + 1 - i].id] \in Seq(Nat)
    <3> HIDE DEF n
    <3> QED
      BY <2>1, <2>2, IsASeq
  <2> QED
    BY <1>3, <2>3 DEF Span
<1>4. CASE ~(steps > 0)
  <2> DEFINE n == IF -steps < Len(entries) - cursor THEN -steps ELSE Len(entries) - cursor
  <2>1. n \in Nat /\ \A i \in 1..n : cursor + i \in 1..Len(entries)
    BY <1>1, <1>4
  <2>2. \A i \in 1..n : entries[cursor + i].id \in Nat
    BY <1>2, <2>1
  <2>3. [i \in 1..n |-> entries[cursor + i].id] \in Seq(Nat)
    <3> HIDE DEF n
    <3> QED
      BY <2>1, <2>2, IsASeq
  <2> QED
    BY <1>4, <2>3 DEF Span
<1> QED
  BY <1>3, <1>4

LEMMA RestStep ==
    ASSUME QueueAssumption, QueueInv, RestTypeOK, [Next]_vars
    PROVE  RestTypeOK'
<1>1. Ids(entries) \subseteq Nat /\ Ids(entries) \union {nextId} \subseteq Nat
  BY IdsAreNat DEF QueueInv
<1>2. \A before : before \subseteq Nat => Released(before) \subseteq Nat
  BY DEF Released
<1>3. span \in Seq(Nat) /\ <<>> \in Seq(Nat)
  BY DEF RestTypeOK
<1>4. CASE Records
  BY <1>1, <1>2, <1>4 DEF Records, Thread, RestTypeOK
<1>5. CASE WalkBegins
  <2>1. running \in Jobs
    BY <1>5 DEF WalkBegins, Thread, QueueInv, QueueTypeOK, WorkInv, Between
  <2>2. work[running].steps \in Int
    BY <2>1 DEF QueueInv, QueueTypeOK, Job, QueueAssumption
  <2>3. Span(work[running].steps) \in Seq(Nat)
    BY <2>2, SpanTyped DEF QueueInv
  <2> QED
    BY <1>5, <2>3 DEF WalkBegins, Thread, RestTypeOK
<1>6. ASSUME NEW from, Steps(from, "walking")
      PROVE  RestTypeOK'
  <2>1. span # <<>> => Tail(span) \in Seq(Nat)
    BY <1>3
  <2>2. span' \in Seq(Nat) /\ owed' \subseteq Nat
    BY <1>1, <1>2, <1>3, <1>6, <2>1 DEF Steps, RestTypeOK
  <2> QED
    BY <1>6, <2>2 DEF Steps, Thread, RestTypeOK
<1>7. CASE WalkPanics \/ Retires
  BY <1>3, <1>7 DEF WalkPanics, Retires, Thread, RestTypeOK
<1>8. CASE Exit \/ Pop \/ Drained \/ Cleared \/ Skipped \/ Begins \/ Plans \/ ConflictAnswered
           \/ Works \/ ElevationAnswered \/ StepAsks \/ StepAnswered \/ WalkEnds \/ Finishes \/ Ends
  BY <1>8 DEF Exit, Pop, Drained, Cleared, Skipped, Begins, Begin, Plans, ConflictAnswered, Works,
              ElevationAnswered, StepAsks, StepAnswered, WalkEnds, Finishes, Ends, Moves, Ask,
              Answered, Thread, SameStack, RestTypeOK
<1>9. ASSUME ThreadNext PROVE RestTypeOK'
  BY <1>4, <1>5, <1>6, <1>7, <1>8, <1>9 DEF ThreadNext, WalkSteps, StepEnds
<1>10. CASE ClearsHistory \/ SetsBudget \/ CloseReleases
  BY <1>1, <1>2, <1>10 DEF ClearsHistory, SetsBudget, CloseReleases, Clears, UiOnly, walkVars,
                           RestTypeOK
<1>11. CASE UiRetires \/ CloseRetires
  BY <1>11 DEF UiRetires, CloseRetires, UiRetireAll, walkVars, RestTypeOK
<1>12. CASE UndoChecked \/ UndoSubmits \/ CancelsRunning \/ CancelsWaiting \/ ShutsDown \/ OpensGate
            \/ Joined \/ ShowsQuestion \/ UserActs
  BY <1>12 DEF UndoChecked, UndoSubmits, CancelsRunning, CancelsWaiting, ShutsDown, OpensGate,
               Joined, ShowsQuestion, UserActs, Submit, AskUndo, Cancel, SetPaused, CallsHistory,
               AnswersQuestion, Closes, UiOnly, walkVars, RestTypeOK
<1>13. CASE UNCHANGED vars
  BY <1>13 DEF vars, walkVars, RestTypeOK
<1> QED
  BY <1>9, <1>10, <1>11, <1>12, <1>13 DEF Next, UiContinues

\* Every variable of the queue and of the history keeps its type, whatever the threads do;
\* the cursor in particular never leaves the history.
THEOREM QueueTyped == Spec => []TypeOK
<1>1. Init => QueueInv /\ RestTypeOK
  <2>1. <<>> \in Seq(Nat)
    OBVIOUS
  <2> QED
    BY <2>1, QueueInit, QueueAssumption DEF Init, RestTypeOK
<1>2. QueueInv /\ RestTypeOK /\ [Next]_vars => (QueueInv /\ RestTypeOK)'
  BY QueueStep, RestStep, UndoAssumption, QueueAssumption
<1>3. QueueInv /\ RestTypeOK => TypeOK
  BY DEF QueueInv, StackInv, Ordered, QueueTypeOK, RestTypeOK, TypeOK, StackTypeOK, UiCalls, StepRange
<1> QED
  BY <1>1, <1>2, <1>3, PTL DEF Spec

--------------------------------------------------------------------------------
(* Where the records are. *)

\* Where a record can be.
Known == Ids(entries) \union owed \union uiOwed \union retired \union lost

Apart ==
    /\ Ids(entries) \intersect (owed \union uiOwed \union retired \union lost) = {}
    /\ owed \intersect (uiOwed \union retired \union lost) = {}
    /\ uiOwed \intersect (retired \union lost) = {}
    /\ retired \intersect lost = {}

\* The transfer thread owes something only from its first change of the history until it has
\* retired what that released, and the UI thread only between a call's change and its retiring:
\* neither forgets what it owes by owing something else.
OwesInTime ==
    /\ owed # {} => at \in {"walking", "askingStep", "stepping", "retiring"}
    /\ uiOwed # {} => ui.op \in {"retire", "release retire"}

RecordsInv == 1..(nextId - 1) = Known /\ Apart /\ OwesInTime

LEMMA StretchIds ==
    ASSUME NEW es \in Seq(Entries), NEW a \in Nat, NEW z \in a..Len(es)
    PROVE  Ids(SubSeq(es, a + 1, z)) \subseteq Ids(es)
<1> DEFINE part == SubSeq(es, a + 1, z)
<1>1. /\ part \in Seq(Entries) /\ Len(part) = z - a
      /\ \A i \in 1..(z - a) : part[i] = es[a + i]
  <2>1. Len(es) \in Nat
    OBVIOUS
  <2>2. a + 1 \in 1..(Len(es) + 1) /\ z \in a..Len(es)
    BY <2>1
  <2> QED
    BY <2>1, <2>2, SubSeqProperties
<1>2. DOMAIN part = 1..(z - a) /\ DOMAIN es = 1..Len(es)
  BY <1>1
<1>3. \A i \in 1..(z - a) : a + i \in DOMAIN es
  BY <1>2
<1> HIDE DEF part
<1> QED
  BY <1>1, <1>2, <1>3 DEF Ids, part

\* Eviction only takes entries away.
LEMMA EvictIds ==
    ASSUME NEW es, NEW c, NEW b, NEW n \in Nat, Ordered(es, c, n), Evict(es, c, b)
    PROVE  Ids(entries') \subseteq Ids(es)
<1>1. PICK k \in 0..Evictable(es, c) : entries' = Without(es, c, k)
  BY DEF Evict
<1>2. es \in Seq(Entries) /\ Len(es) \in Nat /\ c \in 0..Len(es)
  BY DEF Ordered
<1>3. /\ FromFront(c, k) \in 0..c
      /\ Len(es) - (k - FromFront(c, k)) \in FromFront(c, k)..Len(es)
  BY <1>1, <1>2, Kept DEF Evictable
<1> QED
  BY <1>1, <1>2, <1>3, StretchIds DEF Without

\* A new operation adds its own id, and takes others away.
LEMMA PushIds ==
    ASSUME UndoAssumption, StackInv, NEW held \in HeldSizes, Push(held)
    PROVE  Ids(entries') \subseteq Ids(entries) \union {nextId} /\ nextId' = nextId + 1
<1> DEFINE front == SubSeq(entries, 1, cursor)
           new == [id |-> nextId, applied |-> TRUE, held |-> held]
           grown == Append(front, new)
<1>1. entries \in Seq(Entries) /\ cursor \in 0..Len(entries) /\ Len(entries) \in Nat
      /\ nextId \in Nat
  BY DEF StackInv, Ordered
<1>2. front \in Seq(Entries) /\ Len(front) = cursor /\ Ids(front) \subseteq Ids(entries)
  <2>1. Ids(SubSeq(entries, 0 + 1, cursor)) \subseteq Ids(entries)
    BY <1>1, StretchIds
  <2> QED
    BY <1>1, <2>1, SubSeqProperties
<1>3. new \in Entries
  BY <1>1 DEF Entries
<1>4. /\ grown \in Seq(Entries) /\ Len(grown) = cursor + 1
      /\ \A i \in 1..cursor : grown[i] = front[i]
      /\ grown[cursor + 1] = new
  BY <1>1, <1>2, <1>3, AppendProperties
<1>5. Ids(grown) \subseteq Ids(front) \union {nextId}
  <2>1. \A i \in DOMAIN grown : i \in 1..cursor \/ i = cursor + 1
    BY <1>1, <1>4
  <2>2. DOMAIN front = 1..cursor
    BY <1>2
  <2>3. new.id = nextId
    OBVIOUS
  <2> HIDE DEF grown, front, new
  <2> QED
    BY <1>4, <2>1, <2>2, <2>3 DEF Ids
<1>6. Evict(grown, cursor + 1, budget) /\ nextId' = nextId + 1
  BY DEF Push
<1>7. Ids(entries') \subseteq Ids(grown)
  <2>1. /\ \A i \in 1..cursor : grown[i] = entries[i]
        /\ \A i \in 1..cursor : i \in 1..Len(entries)
    BY <1>1, <1>2, <1>4, SubSeqProperties
  <2>2. PICK k \in 0..Evictable(grown, cursor + 1) : entries' = Without(grown, cursor + 1, k)
    BY <1>6 DEF Evict
  <2>3. /\ FromFront(cursor + 1, k) \in 0..(cursor + 1)
        /\ Len(grown) - (k - FromFront(cursor + 1, k)) \in FromFront(cursor + 1, k)..Len(grown)
    <3>1. Len(grown) \in Nat /\ cursor + 1 \in 0..Len(grown)
      BY <1>1, <1>4
    <3> HIDE DEF grown
    <3> QED
      BY <2>2, <3>1, Kept DEF Evictable
  <2> HIDE DEF grown
  <2> QED
    BY <1>1, <1>4, <2>2, <2>3, StretchIds DEF Without
<1> QED
  BY <1>2, <1>5, <1>6, <1>7

\* A step of a walk only takes others away.
LEMMA AppliedIds ==
    ASSUME StackInv, NEW id, NEW held \in HeldSizes, Applied(id, held)
    PROVE  Ids(entries') \subseteq Ids(entries) /\ nextId' = nextId
<1>1. entries \in Seq(Entries) /\ cursor \in 0..Len(entries) /\ Len(entries) \in Nat
  BY DEF StackInv, Ordered
<1>2. ASSUME NEW k \in 1..Len(entries), NEW state \in BOOLEAN, NEW c, NEW b, c \in 0..Len(entries),
             entries[k].id = id,
             Evict([entries EXCEPT ![k] = [id |-> id, applied |-> state, held |-> held]], c, b)
      PROVE  Ids(entries') \subseteq Ids(entries)
  <2> DEFINE next == [id |-> id, applied |-> state, held |-> held]
             es == [entries EXCEPT ![k] = next]
  <2>1. next \in Entries
    <3>1. entries[k] \in Entries
      BY <1>1, ElementOfSeq
    <3> QED
      BY <1>2, <3>1 DEF Entries
  <2>2. es \in Seq(Entries) /\ Len(es) = Len(entries)
    BY <1>1, <2>1, ExceptSeq
  <2>3. \A i \in 1..Len(entries) : es[i].id = entries[i].id
    BY <1>1, <1>2
  <2>4. Ids(es) \subseteq Ids(entries)
    <3> HIDE DEF es
    <3> QED
      BY <1>1, <2>2, <2>3 DEF Ids
  <2>5. PICK n \in 0..Evictable(es, c) : entries' = Without(es, c, n)
    BY <1>2 DEF Evict
  <2> HIDE DEF es
  <2>6. /\ FromFront(c, n) \in 0..c
        /\ Len(es) - (n - FromFront(c, n)) \in FromFront(c, n)..Len(es)
    BY <1>1, <1>2, <2>2, <2>5, Kept DEF Evictable
  <2>7. Ids(entries') \subseteq Ids(es)
    BY <1>2, <2>2, <2>5, <2>6, StretchIds DEF Without
  <2> QED
    BY <2>4, <2>7
<1>3. CASE Undone(id, held)
  <2>1. cursor \in 1..Len(entries) /\ entries[cursor].id = id /\ cursor - 1 \in 0..Len(entries)
    BY <1>1, <1>3 DEF Undone, NextUndo
  <2> QED
    BY <1>2, <1>3, <2>1 DEF Undone
<1>4. CASE Redone(id, held)
  <2>1. cursor + 1 \in 1..Len(entries) /\ entries[cursor + 1].id = id /\ cursor + 1 \in 0..Len(entries)
    BY <1>1, <1>4 DEF Redone, NextRedo
  <2> QED
    BY <1>2, <1>4, <2>1 DEF Redone
<1> QED
  BY <1>3, <1>4 DEF Applied

--------------------------------------------------------------------------------
\* Steps that touch no record.
LEMMA NoneTouched ==
    ASSUME RecordsInv, UNCHANGED <<entries, nextId, at, ui, owed, uiOwed, retired, lost>>
    PROVE  RecordsInv'
<1>1. Ids(entries)' = Ids(entries)
  BY DEF Ids
<1> QED
  BY <1>1 DEF RecordsInv, Known, Apart, OwesInTime

\* The thread changes the history: what leaves it is owed.
LEMMA RecordAccounted ==
    ASSUME UndoAssumption, QueueInv, RecordsInv, Records
    PROVE  RecordsInv'
<1>1. /\ at = "recording" /\ at' = "retiring" /\ owed = {}
      /\ UNCHANGED <<ui, uiOwed, retired, lost>>
  BY DEF Records, Thread, RecordsInv, OwesInTime
<1>2. nextId \in Nat \ {0}
  BY DEF QueueInv, StackInv
<1>3. CASE UNCHANGED <<stackVars, owed>>
  <2>1. Ids(entries)' = Ids(entries) /\ nextId' = nextId
    BY <1>3 DEF stackVars, Ids
  <2> QED
    BY <1>1, <1>3, <2>1 DEF RecordsInv, Known, Apart, OwesInTime
<1>4. ASSUME NEW held \in HeldSizes, Push(held), owed' = Released(Ids(entries) \union {nextId})
      PROVE  RecordsInv'
  <2>1. Ids(entries') \subseteq Ids(entries) \union {nextId} /\ nextId' = nextId + 1
    BY <1>4, PushIds DEF QueueInv
  <2>2. 1..(nextId' - 1) = (1..(nextId - 1)) \union {nextId} /\ nextId \notin 1..(nextId - 1)
    BY <1>2, <2>1
  <2>3. 1..(nextId - 1) = Known /\ Apart /\ OwesInTime
    BY DEF RecordsInv
  <2>4. owed' = (Ids(entries) \union {nextId}) \ Ids(entries')
    BY <1>4 DEF Released
  <2>5. Ids(entries)' = Ids(entries')
    BY DEF Ids
  <2>6. Known' = Known \union {nextId}
    BY <1>1, <2>1, <2>4, <2>5 DEF Known
  <2>7. Apart'
    BY <1>1, <2>1, <2>2, <2>3, <2>4, <2>5 DEF Known, Apart
  <2>8. OwesInTime'
    BY <1>1, <2>3 DEF OwesInTime
  <2> QED
    BY <2>2, <2>3, <2>6, <2>7, <2>8 DEF RecordsInv
<1> QED
  BY <1>3, <1>4 DEF Records

LEMMA StepAccounted ==
    ASSUME QueueInv, RecordsInv, NEW from \in {"walking", "stepping"}, Steps(from, "walking")
    PROVE  RecordsInv'
<1>1. at' = "walking" /\ UNCHANGED <<ui, uiOwed, retired, lost>>
  BY DEF Steps, Thread
<1>2. CASE UNCHANGED <<stackVars, owed>>
  BY <1>1, <1>2 DEF stackVars, RecordsInv, Known, Apart, OwesInTime, Ids
<1>3. ASSUME NEW held \in HeldSizes, Applied(Head(span), held),
             owed' = owed \union Released(Ids(entries))
      PROVE  RecordsInv'
  <2>1. Ids(entries') \subseteq Ids(entries) /\ nextId' = nextId
    BY <1>3, AppliedIds DEF QueueInv
  <2>2. owed' = owed \union (Ids(entries) \ Ids(entries')) /\ Ids(entries)' = Ids(entries')
    BY <1>3 DEF Released, Ids
  <2>3. Known' = Known /\ (Apart => Apart')
    BY <1>1, <2>1, <2>2 DEF Known, Apart
  <2>4. OwesInTime'
    BY <1>1 DEF RecordsInv, OwesInTime
  <2> QED
    BY <2>1, <2>3, <2>4 DEF RecordsInv
<1> QED
  BY <1>2, <1>3 DEF Steps

LEMMA ThreadAccounted ==
    ASSUME UndoAssumption, QueueInv, RecordsInv, ThreadNext
    PROVE  RecordsInv'
<1>1. CASE Records
  BY <1>1, RecordAccounted
<1>2. CASE WalkSteps \/ StepEnds
  BY <1>2, StepAccounted DEF WalkSteps, StepEnds
<1>3. CASE WalkPanics
  BY <1>3 DEF WalkPanics, Thread, stackVars, RecordsInv, Known, Apart, OwesInTime, Ids
<1>4. CASE Retires
  BY <1>4 DEF Retires, Thread, stackVars, RecordsInv, Known, Apart, OwesInTime, Ids
<1>5. CASE WalkBegins
  BY <1>5 DEF WalkBegins, Thread, stackVars, RecordsInv, Known, Apart, OwesInTime, Ids
<1>6. CASE StepAsks \/ StepAnswered \/ WalkEnds
  BY <1>6 DEF StepAsks, StepAnswered, WalkEnds, Moves, Ask, Answered, SameStack, Thread, stackVars,
              RecordsInv, Known, Apart, OwesInTime, Ids
<1>7. CASE Exit \/ Pop \/ Drained \/ Cleared \/ Skipped \/ Begins \/ Plans \/ ConflictAnswered
           \/ Works \/ ElevationAnswered \/ Finishes \/ Ends
  <2>1. SameStack /\ UNCHANGED <<ui, uiOwed>> /\ at \notin {"walking", "askingStep", "stepping", "retiring"}
    BY <1>7 DEF Exit, Pop, Drained, Cleared, Skipped, Begins, Begin, Plans, ConflictAnswered, Works,
                ElevationAnswered, Finishes, Ends, Moves, Ask, Answered, Thread
  <2> QED
    BY <2>1 DEF SameStack, stackVars, RecordsInv, Known, Apart, OwesInTime, Ids
<1> QED
  BY <1>1, <1>2, <1>3, <1>4, <1>5, <1>6, <1>7 DEF ThreadNext

\* The UI thread changes the history, and retires what that released.
LEMMA HistoryCallAccounted ==
    ASSUME QueueInv, RecordsInv, ClearsHistory \/ SetsBudget \/ CloseReleases
    PROVE  RecordsInv'
<1>1. /\ uiOwed = {} /\ ui'.op \in {"retire", "release retire"}
      /\ UNCHANGED <<at, owed, retired, lost>> /\ nextId' = nextId
  <2>1. uiOwed = {}
    BY DEF ClearsHistory, SetsBudget, CloseReleases, Clears, UiGoes, RecordsInv, OwesInTime
  <2>2. \A op : [ui EXCEPT !.op = op].op = op
    BY DEF QueueInv, QueueTypeOK, UiCalls
  <2> QED
    BY <2>1, <2>2 DEF ClearsHistory, SetsBudget, CloseReleases, Clears, UiGoes, UiOnly, walkVars,
                      ClearHistory, SetBudget
<1>2. Ids(entries') \subseteq Ids(entries) /\ uiOwed' = Ids(entries) \ Ids(entries')
  <2>1. CASE SetsBudget
    <3>1. PICK b \in Budgets : Evict(entries, cursor, b)
      BY <2>1 DEF SetsBudget, SetBudget
    <3> QED
      BY <2>1, <3>1, EvictIds DEF SetsBudget, Released, QueueInv, StackInv
  <2>2. CASE ClearsHistory \/ CloseReleases
    <3>1. entries' = <<>> /\ uiOwed' = Ids(entries)
      BY <2>2 DEF ClearsHistory, CloseReleases, Clears, ClearHistory
    <3>2. Ids(<<>>) = {}
      BY DEF Ids
    <3> QED
      BY <3>1, <3>2
  <2> QED
    BY <2>1, <2>2
<1>3. Ids(entries)' = Ids(entries')
  BY DEF Ids
<1>4. Known' = Known /\ (Apart => Apart')
  BY <1>1, <1>2, <1>3 DEF Known, Apart
<1> QED
  BY <1>1, <1>4 DEF RecordsInv, OwesInTime

LEMMA UiAccounted ==
    ASSUME QueueInv, RecordsInv, UiContinues \/ ShowsQuestion \/ UserActs
    PROVE  RecordsInv'
<1>1. CASE ClearsHistory \/ SetsBudget \/ CloseReleases
  BY <1>1, HistoryCallAccounted
<1>2. CASE UiRetires \/ CloseRetires
  <2>1. UiRetireAll
    BY <1>2 DEF UiRetires, CloseRetires
  <2> QED
    BY <2>1 DEF UiRetireAll, walkVars, stackVars, RecordsInv, Known, Apart, OwesInTime, Ids
<1>3. CASE UndoChecked \/ UndoSubmits \/ CancelsRunning \/ CancelsWaiting \/ ShutsDown \/ OpensGate
           \/ Joined \/ ShowsQuestion \/ UserActs
  <2>1. UNCHANGED stackVars /\ UiOnly /\ UNCHANGED uiOwed
    BY <1>3 DEF UndoChecked, UndoSubmits, CancelsRunning, CancelsWaiting, ShutsDown, OpensGate,
                Joined, ShowsQuestion, UserActs, Submit, AskUndo, Cancel, SetPaused, CallsHistory,
                AnswersQuestion, Closes, UiOnly
  <2>2. uiOwed # {} => ui' = ui
    <3>1. uiOwed # {} => ui.op \in {"retire", "release retire"}
      BY DEF RecordsInv, OwesInTime
    <3>2. ui = Idle => ui.op = "none"
      BY DEF Idle
    <3> QED
      BY <1>3, <3>1, <3>2
         DEF UndoChecked, UndoSubmits, CancelsRunning, CancelsWaiting, ShutsDown, OpensGate, UiGoes,
             UiReturns, Joined, ShowsQuestion, UserActs, Submit, AskUndo, Cancel, SetPaused,
             CallsHistory, AnswersQuestion, Closes
  <2> QED
    BY <2>1, <2>2 DEF stackVars, UiOnly, walkVars, RecordsInv, Known, Apart, OwesInTime, Ids
<1> QED
  BY <1>1, <1>2, <1>3 DEF UiContinues

LEMMA RecordsStep ==
    ASSUME UndoAssumption, QueueInv, RecordsInv, [Next]_vars
    PROVE  RecordsInv'
<1>1. CASE UNCHANGED vars
  BY <1>1, NoneTouched DEF vars, stackVars, walkVars
<1> QED
  BY <1>1, ThreadAccounted, UiAccounted DEF Next

\* Apart and all of 1..n, the places hold n records between them.
LEMMA Counted ==
    ASSUME QueueInv, RecordsInv
    PROVE  RecordsAccountedFor
<1> DEFINE n == nextId - 1
           A == Ids(entries)
           all == 1..n
<1>1. n \in Nat
  BY DEF QueueInv, StackInv
<1>2. IsFiniteSet(all) /\ Cardinality(all) = n
  BY <1>1, FS_Interval
<1>3. all = A \union owed \union uiOwed \union retired \union lost
  BY DEF RecordsInv, Known
<1>4. /\ IsFiniteSet(A) /\ IsFiniteSet(owed) /\ IsFiniteSet(uiOwed) /\ IsFiniteSet(retired)
      /\ IsFiniteSet(lost)
  <2> HIDE DEF all, A
  <2> QED
    BY <1>2, <1>3, FS_Subset
<1>5. ASSUME NEW S, NEW T, IsFiniteSet(S), IsFiniteSet(T), S \intersect T = {}
      PROVE  /\ IsFiniteSet(S \union T)
             /\ Cardinality(S \union T) = Cardinality(S) + Cardinality(T)
  <2>1. Cardinality(S \union T)
          = Cardinality(S) + Cardinality(T) - Cardinality(S \intersect T)
        /\ IsFiniteSet(S \union T)
    BY <1>5, FS_Union
  <2>2. Cardinality(S \intersect T) = 0
    BY <1>5, FS_EmptySet
  <2>3. Cardinality(S) \in Nat /\ Cardinality(T) \in Nat
    BY <1>5, FS_CardinalityType
  <2> QED
    BY <2>1, <2>2, <2>3
<1> DEFINE rl == retired \union lost
           url == uiOwed \union rl
           ourl == owed \union url
<1>6. /\ A \intersect ourl = {} /\ owed \intersect url = {} /\ uiOwed \intersect rl = {}
      /\ retired \intersect lost = {} /\ all = A \union ourl
  BY <1>3 DEF RecordsInv, Apart
<1> HIDE DEF A, all
<1>7. IsFiniteSet(rl) /\ Cardinality(rl) = Cardinality(retired) + Cardinality(lost)
  BY <1>4, <1>5, <1>6
<1> HIDE DEF rl
<1>8. IsFiniteSet(url) /\ Cardinality(url) = Cardinality(uiOwed) + Cardinality(rl)
  BY <1>4, <1>5, <1>6, <1>7
<1> HIDE DEF url
<1>9. IsFiniteSet(ourl) /\ Cardinality(ourl) = Cardinality(owed) + Cardinality(url)
  BY <1>4, <1>5, <1>6, <1>8
<1> HIDE DEF ourl
<1>10. Cardinality(all) = Cardinality(A) + Cardinality(ourl)
  BY <1>4, <1>5, <1>6, <1>9
<1>11. /\ Cardinality(A) \in Nat /\ Cardinality(owed) \in Nat /\ Cardinality(uiOwed) \in Nat
       /\ Cardinality(retired) \in Nat /\ Cardinality(lost) \in Nat
  BY <1>4, FS_CardinalityType
<1>12. n = Cardinality(A) + Cardinality(owed) + Cardinality(uiOwed) + Cardinality(retired)
           + Cardinality(lost)
  BY <1>2, <1>7, <1>8, <1>9, <1>10, <1>11
<1> QED
  BY <1>3, <1>12 DEF RecordsAccountedFor, A, all

\* A record that was ever made is in exactly one place: the history, one thread's hands, retired,
\* or dropped by a panic of a walk (record, run_undo, release_undo_history, set_undo_budget): no
\* data is committed while an undo could still put it back, and none that is held is forgotten.
THEOREM EveryRecordHasItsPlace == Spec => []RecordsAccountedFor
<1>1. Init => QueueInv /\ RecordsInv
  <2>1. ASSUME Init PROVE RecordsInv
    <3>1. Ids(<<>>) = {} /\ 1..(1 - 1) = {}
      BY DEF Ids
    <3> QED
      BY <2>1, <3>1 DEF Init, StackInit, RecordsInv, Known, Apart, OwesInTime
  <2> QED
    BY <2>1, QueueInit, QueueAssumption
<1>2. QueueInv /\ RecordsInv /\ [Next]_vars => (QueueInv /\ RecordsInv)'
  BY QueueStep, RecordsStep, UndoAssumption, QueueAssumption
<1>3. QueueInv /\ RecordsInv => RecordsAccountedFor
  BY Counted
<1> QED
  BY <1>1, <1>2, <1>3, PTL DEF Spec

--------------------------------------------------------------------------------
(* The line of operations. *)

\* The line as a history es with c entries in effect shows it.
DoneIds(es, c)   == [i \in 1..c |-> es[i].id]
UndoneIds(es, c) == [i \in 1..(Len(es) - c) |-> es[c + i].id]

\* Line!Becomes, of the history this one becomes.
Leaves(d, u) ==
    \E i \in 0..Len(d), j \in 0..Len(u) :
        /\ i = Len(d) => i = 0
        /\ j > 0 => Len(d) - i <= 1
        /\ DoneIds(entries', cursor')   = SubSeq(d, i + 1, Len(d))
        /\ UndoneIds(entries', cursor') = SubSeq(u, 1, Len(u) - j)

\* A history, and where its cursor may be.
IsHistory(es, c) == es \in Seq(Entries) /\ c \in 0..Len(es)

\* A stretch of a sequence, after its first a elements and up to element z.
LEMMA Stretch ==
    ASSUME NEW S, NEW s \in Seq(S), NEW a \in Nat, NEW z \in a..Len(s)
    PROVE  /\ SubSeq(s, a + 1, z) \in Seq(S) /\ Len(SubSeq(s, a + 1, z)) = z - a
           /\ \A x \in 1..(z - a) : SubSeq(s, a + 1, z)[x] = s[a + x]
<1>1. Len(s) \in Nat
  OBVIOUS
<1>2. a + 1 \in 1..(Len(s) + 1) /\ z \in (a + 1) - 1..Len(s)
  BY <1>1
<1> QED
  BY <1>1, <1>2, SubSeqProperties

LEMMA LineOfHistory ==
    ASSUME NEW es, NEW c, IsHistory(es, c)
    PROVE  /\ DoneIds(es, c) \in Seq(Nat) /\ Len(DoneIds(es, c)) = c
           /\ UndoneIds(es, c) \in Seq(Nat) /\ Len(UndoneIds(es, c)) = Len(es) - c
<1>1. Len(es) \in Nat /\ c \in Nat /\ Len(es) - c \in Nat
  BY DEF IsHistory
<1>2. \A i \in 1..Len(es) : es[i].id \in Nat
  <2>1. \A i \in 1..Len(es) : es[i] \in Entries
    BY ElementOfSeq DEF IsHistory
  <2> QED
    BY <2>1 DEF Entries
<1>3. \A i \in 1..c : es[i].id \in Nat
  BY <1>1, <1>2 DEF IsHistory
<1>4. \A i \in 1..(Len(es) - c) : es[c + i].id \in Nat
  BY <1>1, <1>2 DEF IsHistory
<1>5. DoneIds(es, c) \in Seq(Nat)
  BY <1>1, <1>3, IsASeq DEF DoneIds
<1>6. UndoneIds(es, c) \in Seq(Nat)
  BY <1>1, <1>4, IsASeq DEF UndoneIds
<1>7. DOMAIN DoneIds(es, c) = 1..c /\ DOMAIN UndoneIds(es, c) = 1..(Len(es) - c)
  BY DEF DoneIds, UndoneIds
<1> QED
  BY <1>1, <1>5, <1>6, <1>7, LenProperties

\* What eviction leaves of a line, it leaves as the line may be left.
LEMMA EvictLeaves ==
    ASSUME NEW es, NEW c, NEW b, IsHistory(es, c), Evict(es, c, b)
    PROVE  Leaves(DoneIds(es, c), UndoneIds(es, c))
<1> DEFINE d == DoneIds(es, c)
           u == UndoneIds(es, c)
<1>1. PICK k \in 0..Evictable(es, c) :
         entries' = Without(es, c, k) /\ cursor' = c - FromFront(c, k)
  BY DEF Evict
<1> DEFINE L == Len(es)
           i == FromFront(c, k)
           j == k - FromFront(c, k)
<1>2. es \in Seq(Entries) /\ L \in Nat /\ c \in 0..L
  BY DEF IsHistory
<1>3. /\ i \in 0..c /\ j \in 0..(L - c)
      /\ i = c => i = 0
      /\ j > 0 => c - i <= 1
  <2>1. k \in 0..(IF c > 0 THEN L - 1 ELSE L)
    BY <1>1 DEF Evictable
  <2> HIDE DEF L
  <2> QED
    BY <1>2, <2>1 DEF FromFront
<1>4. entries' = SubSeq(es, i + 1, L - j) /\ cursor' = c - i
  BY <1>1 DEF Without
<1>5. d \in Seq(Nat) /\ Len(d) = c /\ u \in Seq(Nat) /\ Len(u) = L - c
  BY LineOfHistory
<1>6. /\ \A x \in 1..c : d[x] = es[x].id
      /\ \A x \in 1..(L - c) : u[x] = es[c + x].id
  BY DEF DoneIds, UndoneIds
<1> HIDE DEF d, u, L, i, j
<1>7. /\ entries' \in Seq(Entries) /\ Len(entries') = L - j - i
      /\ \A x \in 1..(L - j - i) : entries'[x] = es[i + x]
  <2>1. L - j \in i..Len(es) /\ i \in Nat /\ (L - j) - i = L - j - i
    BY <1>2, <1>3 DEF L
  <2>2. /\ SubSeq(es, i + 1, L - j) \in Seq(Entries) /\ Len(SubSeq(es, i + 1, L - j)) = (L - j) - i
        /\ \A x \in 1..((L - j) - i) : SubSeq(es, i + 1, L - j)[x] = es[i + x]
    BY <1>2, <2>1, Stretch
  <2> QED
    BY <1>4, <2>1, <2>2
<1>8. DoneIds(entries', cursor') = SubSeq(d, i + 1, c)
  <2>1. /\ SubSeq(d, i + 1, c) \in Seq(Nat) /\ Len(SubSeq(d, i + 1, c)) = c - i
        /\ \A x \in 1..(c - i) : SubSeq(d, i + 1, c)[x] = d[i + x]
    <3>1. c \in i..Len(d) /\ i \in Nat
      BY <1>2, <1>3, <1>5
    <3> QED
      BY <1>5, <3>1, Stretch
  <2>2. \A x \in 1..(c - i) : /\ x \in 1..(L - j - i) /\ i + x \in 1..c
    BY <1>2, <1>3
  <2>3. \A x \in 1..(c - i) : entries'[x].id = SubSeq(d, i + 1, c)[x]
    BY <1>6, <1>7, <2>1, <2>2
  <2>4. SubSeq(d, i + 1, c) = [x \in 1..(c - i) |-> SubSeq(d, i + 1, c)[x]]
    BY <2>1, LenProperties
  <2> QED
    BY <1>4, <2>3, <2>4, Zenon DEF DoneIds
<1>9. UndoneIds(entries', cursor') = SubSeq(u, 1, (L - c) - j)
  <2>1. /\ SubSeq(u, 1, (L - c) - j) \in Seq(Nat) /\ Len(SubSeq(u, 1, (L - c) - j)) = (L - c) - j
        /\ \A x \in 1..((L - c) - j) : SubSeq(u, 1, (L - c) - j)[x] = u[x]
    <3>1. /\ (L - c) - j \in 0..Len(u) /\ 0 + 1 = 1 /\ (L - c) - j - 0 = (L - c) - j
          /\ \A x \in 1..((L - c) - j) : 0 + x = x
      BY <1>2, <1>3, <1>5
    <3>2. /\ SubSeq(u, 0 + 1, (L - c) - j) \in Seq(Nat)
          /\ Len(SubSeq(u, 0 + 1, (L - c) - j)) = (L - c) - j - 0
          /\ \A x \in 1..((L - c) - j - 0) : SubSeq(u, 0 + 1, (L - c) - j)[x] = u[0 + x]
      BY <1>5, <3>1, Stretch
    <3> QED
      BY <3>1, <3>2
  <2>2. \A x \in 1..((L - c) - j) : /\ (c - i) + x \in 1..(L - j - i) /\ x \in 1..(L - c)
                                  /\ i + ((c - i) + x) = c + x
    BY <1>2, <1>3
  <2>3. \A x \in 1..((L - c) - j) : entries'[cursor' + x].id = SubSeq(u, 1, (L - c) - j)[x]
    BY <1>4, <1>6, <1>7, <2>1, <2>2
  <2>4. SubSeq(u, 1, (L - c) - j) = [x \in 1..((L - c) - j) |-> SubSeq(u, 1, (L - c) - j)[x]]
    BY <2>1, LenProperties
  <2>5. Len(entries') - cursor' = (L - c) - j
    BY <1>2, <1>3, <1>4, <1>7
  <2> QED
    BY <2>3, <2>4, <2>5, Zenon DEF UndoneIds
<1>10. /\ i \in 0..Len(d) /\ j \in 0..Len(u)
       /\ i = Len(d) => i = 0
       /\ j > 0 => Len(d) - i <= 1
       /\ DoneIds(entries', cursor') = SubSeq(d, i + 1, Len(d))
       /\ UndoneIds(entries', cursor') = SubSeq(u, 1, Len(u) - j)
  BY <1>3, <1>5, <1>8, <1>9
<1>11. Leaves(d, u)
  BY <1>10, Zenon DEF Leaves
<1> QED
  BY <1>11 DEF d, u

--------------------------------------------------------------------------------
\* Two sequences of one length and the same elements are one.
LEMMA SameElements ==
    ASSUME NEW s \in Seq(Nat), NEW t \in Seq(Nat), Len(s) = Len(t),
           \A i \in 1..Len(s) : s[i] = t[i]
    PROVE  s = t
<1>1. /\ s = [i \in 1..Len(s) |-> s[i]]
      /\ t = [i \in 1..Len(t) |-> t[i]]
  BY LenProperties
<1> QED
  BY <1>1, Zenon

LEMMA StackIsHistory ==
    ASSUME StackInv
    PROVE  /\ IsHistory(entries, cursor) /\ Len(entries) \in Nat /\ nextId \in Nat
           /\ \A i \in 1..Len(entries) : entries[i] \in Entries
<1>1. IsHistory(entries, cursor) /\ nextId \in Nat
  BY DEF StackInv, Ordered, IsHistory
<1> QED
  BY <1>1, ElementOfSeq DEF IsHistory

LEMMA PushIsDo ==
    ASSUME UndoAssumption, StackInv, NEW held \in HeldSizes, Push(held)
    PROVE  Line!Do
<1> DEFINE front == SubSeq(entries, 1, cursor)
           new == [id |-> nextId, applied |-> TRUE, held |-> held]
           grown == Append(front, new)
           d == DoneIds(entries, cursor)
<1>1. /\ entries \in Seq(Entries) /\ cursor \in 0..Len(entries) /\ Len(entries) \in Nat
      /\ nextId \in Nat
  BY StackIsHistory DEF IsHistory
<1>2. front \in Seq(Entries) /\ Len(front) = cursor /\ \A i \in 1..cursor : front[i] = entries[i]
  <2>1. /\ cursor \in 0..Len(entries) /\ 0 + 1 = 1 /\ cursor - 0 = cursor
        /\ \A i \in 1..cursor : 0 + i = i
    BY <1>1
  <2>2. /\ SubSeq(entries, 0 + 1, cursor) \in Seq(Entries)
        /\ Len(SubSeq(entries, 0 + 1, cursor)) = cursor - 0
        /\ \A i \in 1..(cursor - 0) : SubSeq(entries, 0 + 1, cursor)[i] = entries[0 + i]
    BY <1>1, <2>1, Stretch
  <2> QED
    BY <2>1, <2>2
<1>3. new \in Entries /\ new.id = nextId
  BY <1>1 DEF Entries
<1>4. /\ grown \in Seq(Entries) /\ Len(grown) = cursor + 1
      /\ \A i \in 1..cursor : grown[i] = front[i]
      /\ grown[cursor + 1] = new
  BY <1>1, <1>2, <1>3, AppendProperties
<1>5. Evict(grown, cursor + 1, budget) /\ nextId' = nextId + 1
  BY DEF Push
<1>6. d \in Seq(Nat) /\ Len(d) = cursor /\ \A i \in 1..cursor : d[i] = entries[i].id
  BY LineOfHistory, StackIsHistory DEF DoneIds
<1> HIDE DEF front, new, grown, d
<1>7. IsHistory(grown, cursor + 1)
  BY <1>1, <1>4 DEF IsHistory
<1>8. DoneIds(grown, cursor + 1) = Append(d, nextId)
  <2>1. /\ Append(d, nextId) \in Seq(Nat) /\ Len(Append(d, nextId)) = cursor + 1
        /\ \A i \in 1..cursor : Append(d, nextId)[i] = d[i]
        /\ Append(d, nextId)[cursor + 1] = nextId
    BY <1>1, <1>6, AppendProperties
  <2>2. DoneIds(grown, cursor + 1) \in Seq(Nat) /\ Len(DoneIds(grown, cursor + 1)) = cursor + 1
    BY <1>7, LineOfHistory
  <2>3. \A i \in 1..(cursor + 1) : DoneIds(grown, cursor + 1)[i] = grown[i].id
    BY DEF DoneIds
  <2>4. \A i \in 1..(cursor + 1) : i \in 1..cursor \/ i = cursor + 1
    BY <1>1
  <2>5. \A i \in 1..(cursor + 1) : DoneIds(grown, cursor + 1)[i] = Append(d, nextId)[i]
    BY <1>2, <1>3, <1>4, <1>6, <2>1, <2>3, <2>4
  <2> QED
    BY <2>1, <2>2, <2>5, SameElements
<1>9. UndoneIds(grown, cursor + 1) = <<>>
  <2>1. UndoneIds(grown, cursor + 1) \in Seq(Nat) /\ Len(UndoneIds(grown, cursor + 1)) = 0
    BY <1>1, <1>4, <1>7, LineOfHistory
  <2> QED
    BY <2>1, EmptySeq
<1>10. Leaves(Append(d, nextId), <<>>)
  BY <1>5, <1>7, <1>8, <1>9, EvictLeaves
<1>11. nextId' - 1 = (nextId - 1) + 1 /\ nextId' - 1 = nextId
  BY <1>1, <1>5
<1>12. Leaves(Append(d, nextId' - 1), <<>>)
  BY <1>10, <1>11, Zenon
<1> QED
  BY <1>11, <1>12, Zenon DEF Line!Do, Line!Becomes, Leaves, d, DoneIds, UndoneIds

Exchanged(k, next) == [entries EXCEPT ![k] = next]

\* One entry is exchanged for another of its id: the ids stay.
LEMMA ExchangeKeepsIds ==
    ASSUME StackInv, NEW k \in 1..Len(entries), NEW c \in 0..Len(entries), NEW next \in Entries,
           next.id = entries[k].id
    PROVE  /\ IsHistory(Exchanged(k, next), c)
           /\ Len(Exchanged(k, next)) = Len(entries)
           /\ \A i \in 1..Len(entries) : Exchanged(k, next)[i].id = entries[i].id
<1>1. entries \in Seq(Entries) /\ Len(entries) \in Nat
  BY StackIsHistory DEF IsHistory
<1>2. Exchanged(k, next) \in Seq(Entries) /\ Len(Exchanged(k, next)) = Len(entries)
  BY <1>1, ExceptSeq DEF Exchanged
<1>3. \A i \in 1..Len(entries) : Exchanged(k, next)[i].id = entries[i].id
  BY <1>1 DEF Exchanged
<1> QED
  BY <1>2, <1>3 DEF IsHistory

LEMMA UndoneIsUndo ==
    ASSUME StackInv, NEW id, NEW held \in HeldSizes, Undone(id, held)
    PROVE  Line!Undo
<1> DEFINE next == [id |-> id, applied |-> FALSE, held |-> held]
           es == Exchanged(cursor, next)
           d == DoneIds(entries, cursor)
           u == UndoneIds(entries, cursor)
<1>1. /\ entries \in Seq(Entries) /\ cursor \in 1..Len(entries) /\ Len(entries) \in Nat
      /\ entries[cursor].id = id /\ nextId' = nextId /\ cursor - 1 \in 0..Len(entries)
      /\ Evict(es, cursor - 1, budget)
  BY StackIsHistory DEF IsHistory, Undone, NextUndo, Exchanged
<1>2. /\ IsHistory(es, cursor - 1) /\ Len(es) = Len(entries)
      /\ \A i \in 1..Len(entries) : es[i].id = entries[i].id
  <2>1. next \in Entries /\ next.id = entries[cursor].id
    BY <1>1, StackIsHistory DEF Entries
  <2> HIDE DEF next
  <2> QED
    BY <1>1, <2>1, ExchangeKeepsIds
<1>3. /\ d \in Seq(Nat) /\ Len(d) = cursor /\ \A i \in 1..cursor : d[i] = entries[i].id
      /\ u \in Seq(Nat) /\ Len(u) = Len(entries) - cursor
      /\ \A i \in 1..(Len(entries) - cursor) : u[i] = entries[cursor + i].id
  BY LineOfHistory, StackIsHistory DEF DoneIds, UndoneIds
<1> HIDE DEF es, d, u
<1>4. DoneIds(es, cursor - 1) = SubSeq(d, 1, cursor - 1)
  <2>1. /\ cursor - 1 \in 0..Len(d) /\ 0 + 1 = 1 /\ (cursor - 1) - 0 = cursor - 1
        /\ \A i \in 1..(cursor - 1) : 0 + i = i /\ i \in 1..cursor /\ i \in 1..Len(entries)
    BY <1>1, <1>3
  <2>2. /\ SubSeq(d, 0 + 1, cursor - 1) \in Seq(Nat)
        /\ Len(SubSeq(d, 0 + 1, cursor - 1)) = (cursor - 1) - 0
        /\ \A i \in 1..((cursor - 1) - 0) : SubSeq(d, 0 + 1, cursor - 1)[i] = d[0 + i]
    BY <1>3, <2>1, Stretch
  <2>3. /\ DoneIds(es, cursor - 1) \in Seq(Nat) /\ Len(DoneIds(es, cursor - 1)) = cursor - 1
        /\ \A i \in 1..(cursor - 1) : DoneIds(es, cursor - 1)[i] = es[i].id
    BY <1>2, LineOfHistory DEF DoneIds
  <2>4. ASSUME NEW i \in 1..(cursor - 1)
        PROVE  DoneIds(es, cursor - 1)[i] = SubSeq(d, 1, cursor - 1)[i]
    <3>1. DoneIds(es, cursor - 1)[i] = entries[i].id /\ d[i] = entries[i].id
      BY <1>2, <1>3, <2>1, <2>3
    <3>2. SubSeq(d, 1, cursor - 1)[i] = d[i]
      BY <2>1, <2>2
    <3> QED
      BY <3>1, <3>2
  <2> QED
    BY <2>1, <2>2, <2>3, <2>4, SameElements
<1>5. UndoneIds(es, cursor - 1) = <<d[cursor]>> \o u
  <2>1. d[cursor] \in Nat /\ d[cursor] = entries[cursor].id
    BY <1>1, <1>3, ElementOfSeq
  <2>2. <<d[cursor]>> \in Seq(Nat) /\ Len(<<d[cursor]>>) = 1 /\ <<d[cursor]>>[1] = d[cursor]
    BY <2>1
  <2>3. /\ <<d[cursor]>> \o u \in Seq(Nat)
        /\ Len(<<d[cursor]>> \o u) = 1 + Len(u)
        /\ (<<d[cursor]>> \o u)[1] = d[cursor]
        /\ \A i \in 2..(1 + Len(u)) : (<<d[cursor]>> \o u)[i] = u[i - 1]
    BY <1>3, <2>2, ConcatProperties
  <2>4. /\ UndoneIds(es, cursor - 1) \in Seq(Nat)
        /\ Len(UndoneIds(es, cursor - 1)) = 1 + Len(u)
        /\ \A i \in 1..(Len(es) - (cursor - 1)) :
              UndoneIds(es, cursor - 1)[i] = es[(cursor - 1) + i].id
    <3>1. Len(es) - (cursor - 1) = 1 + Len(u)
      BY <1>1, <1>2, <1>3
    <3> QED
      BY <1>2, <3>1, LineOfHistory DEF UndoneIds
  <2>5. \A i \in 1..(1 + Len(u)) : /\ i \in 1..(Len(es) - (cursor - 1))
                                   /\ (cursor - 1) + i \in 1..Len(entries)
                                   /\ i = 1 \/ (i \in 2..(1 + Len(u)) /\ i - 1 \in 1..(Len(entries) - cursor))
                                   /\ (cursor - 1) + i = cursor + (i - 1)
    BY <1>1, <1>2, <1>3
  <2>6. ASSUME NEW i \in 1..(1 + Len(u))
        PROVE  UndoneIds(es, cursor - 1)[i] = (<<d[cursor]>> \o u)[i]
    <3>1. UndoneIds(es, cursor - 1)[i] = entries[(cursor - 1) + i].id
      BY <1>2, <2>4, <2>5
    <3>2. CASE i = 1
      BY <1>1, <2>1, <2>3, <3>1, <3>2
    <3>3. CASE i \in 2..(1 + Len(u)) /\ i - 1 \in 1..(Len(entries) - cursor)
      BY <1>3, <2>3, <2>5, <3>1, <3>3
    <3> QED
      BY <2>5, <3>2, <3>3
  <2> QED
    BY <2>3, <2>4, <2>6, SameElements
<1>6. Leaves(DoneIds(es, cursor - 1), UndoneIds(es, cursor - 1))
  BY <1>1, <1>2, EvictLeaves
<1>7. d # <<>> /\ Len(d) = cursor /\ nextId' - 1 = nextId - 1
  BY <1>1, <1>3
<1>8. Leaves(SubSeq(d, 1, Len(d) - 1), <<d[Len(d)]>> \o u)
  BY <1>4, <1>5, <1>6, <1>7, Zenon
<1> QED
  BY <1>7, <1>8, Zenon DEF Line!Undo, Line!Becomes, Leaves, d, u, DoneIds, UndoneIds

LEMMA RedoneIsRedo ==
    ASSUME StackInv, NEW id, NEW held \in HeldSizes, Redone(id, held)
    PROVE  Line!Redo
<1> DEFINE next == [id |-> id, applied |-> TRUE, held |-> held]
           es == Exchanged(cursor + 1, next)
           d == DoneIds(entries, cursor)
           u == UndoneIds(entries, cursor)
<1>1. /\ entries \in Seq(Entries) /\ cursor \in 0..Len(entries) /\ Len(entries) \in Nat
      /\ entries[cursor + 1].id = id /\ nextId' = nextId
      /\ cursor + 1 \in 1..Len(entries) /\ cursor + 1 \in 0..Len(entries)
      /\ Evict(es, cursor + 1, budget)
  BY StackIsHistory DEF IsHistory, Redone, NextRedo, Exchanged
<1>2. /\ IsHistory(es, cursor + 1) /\ Len(es) = Len(entries)
      /\ \A i \in 1..Len(entries) : es[i].id = entries[i].id
  <2>1. next \in Entries /\ next.id = entries[cursor + 1].id
    BY <1>1, StackIsHistory DEF Entries
  <2> HIDE DEF next
  <2> QED
    BY <1>1, <2>1, ExchangeKeepsIds
<1>3. /\ d \in Seq(Nat) /\ Len(d) = cursor /\ \A i \in 1..cursor : d[i] = entries[i].id
      /\ u \in Seq(Nat) /\ Len(u) = Len(entries) - cursor
      /\ \A i \in 1..(Len(entries) - cursor) : u[i] = entries[cursor + i].id
  BY LineOfHistory, StackIsHistory DEF DoneIds, UndoneIds
<1> HIDE DEF es, d, u
<1>4. u # <<>> /\ Head(u) = entries[cursor + 1].id /\ Head(u) \in Nat
  BY <1>1, <1>3
<1>5. DoneIds(es, cursor + 1) = Append(d, Head(u))
  <2>1. /\ Append(d, Head(u)) \in Seq(Nat) /\ Len(Append(d, Head(u))) = cursor + 1
        /\ \A i \in 1..cursor : Append(d, Head(u))[i] = d[i]
        /\ Append(d, Head(u))[cursor + 1] = Head(u)
    BY <1>3, <1>4, AppendProperties
  <2>2. /\ DoneIds(es, cursor + 1) \in Seq(Nat) /\ Len(DoneIds(es, cursor + 1)) = cursor + 1
        /\ \A i \in 1..(cursor + 1) : DoneIds(es, cursor + 1)[i] = es[i].id
    BY <1>2, LineOfHistory DEF DoneIds
  <2>3. \A i \in 1..(cursor + 1) : i \in 1..Len(entries) /\ (i \in 1..cursor \/ i = cursor + 1)
    BY <1>1
  <2>4. ASSUME NEW i \in 1..(cursor + 1)
        PROVE  DoneIds(es, cursor + 1)[i] = Append(d, Head(u))[i]
    <3>1. DoneIds(es, cursor + 1)[i] = entries[i].id
      BY <1>2, <2>2, <2>3
    <3>2. CASE i \in 1..cursor
      BY <1>3, <2>1, <3>1, <3>2
    <3>3. CASE i = cursor + 1
      BY <1>4, <2>1, <3>1, <3>3
    <3> QED
      BY <2>3, <3>2, <3>3
  <2> QED
    BY <2>1, <2>2, <2>4, SameElements
<1>6. UndoneIds(es, cursor + 1) = Tail(u)
  <2>1. /\ Tail(u) \in Seq(Nat) /\ Len(Tail(u)) = Len(u) - 1
        /\ \A i \in 1..(Len(u) - 1) : Tail(u)[i] = u[i + 1]
    BY <1>3, <1>4, HeadTailProperties
  <2>2. /\ UndoneIds(es, cursor + 1) \in Seq(Nat)
        /\ Len(UndoneIds(es, cursor + 1)) = Len(u) - 1
        /\ \A i \in 1..(Len(u) - 1) : UndoneIds(es, cursor + 1)[i] = es[(cursor + 1) + i].id
    <3>1. Len(es) - (cursor + 1) = Len(u) - 1
      BY <1>1, <1>2, <1>3
    <3> QED
      BY <1>2, <3>1, LineOfHistory DEF UndoneIds
  <2>3. \A i \in 1..(Len(u) - 1) : /\ (cursor + 1) + i \in 1..Len(entries)
                                   /\ i + 1 \in 1..(Len(entries) - cursor)
                                   /\ (cursor + 1) + i = cursor + (i + 1)
    BY <1>1, <1>3
  <2>4. ASSUME NEW i \in 1..(Len(u) - 1)
        PROVE  UndoneIds(es, cursor + 1)[i] = Tail(u)[i]
    <3>1. UndoneIds(es, cursor + 1)[i] = entries[cursor + (i + 1)].id
      BY <1>2, <2>2, <2>3
    <3>2. Tail(u)[i] = entries[cursor + (i + 1)].id
      BY <1>3, <2>1, <2>3
    <3> QED
      BY <3>1, <3>2
  <2> QED
    BY <2>1, <2>2, <2>4, SameElements
<1>7. Leaves(DoneIds(es, cursor + 1), UndoneIds(es, cursor + 1))
  BY <1>1, <1>2, EvictLeaves
<1>8. Leaves(Append(d, Head(u)), Tail(u)) /\ nextId' - 1 = nextId - 1
  BY <1>1, <1>5, <1>6, <1>7, Zenon
<1> QED
  BY <1>4, <1>8, Zenon DEF Line!Redo, Line!Becomes, Leaves, d, u, DoneIds, UndoneIds

LEMMA SetBudgetIsForget ==
    ASSUME StackInv, NEW b, SetBudget(b)
    PROVE  Line!Forget
<1>1. Leaves(DoneIds(entries, cursor), UndoneIds(entries, cursor))
  <2>1. IsHistory(entries, cursor)
    BY StackIsHistory
  <2>2. Evict(entries, cursor, b)
    BY DEF SetBudget
  <2> QED
    BY <2>1, <2>2, EvictLeaves
<1>2. nextId' - 1 = nextId - 1
  BY DEF SetBudget
<1> QED
  BY <1>1, <1>2, Zenon DEF Line!Forget, Line!Becomes, Leaves, DoneIds, UndoneIds

LEMMA ClearIsClear ==
    ASSUME StackInv, ClearHistory
    PROVE  Line!Clear
<1>1. entries' = <<>> /\ cursor' = 0 /\ nextId' - 1 = nextId - 1
  BY DEF ClearHistory
<1>2. IsHistory(<<>>, 0)
  BY DEF IsHistory
<1>3. DoneIds(<<>>, 0) = <<>> /\ UndoneIds(<<>>, 0) = <<>>
  BY <1>2, LineOfHistory, EmptySeq
<1> QED
  BY <1>1, <1>3, Zenon DEF Line!Clear, DoneIds, UndoneIds

LEMMA LineStep ==
    ASSUME UndoAssumption, StackInv, [Next]_vars
    PROVE  [Line!Next]_Line!vars
<1>1. CASE UNCHANGED stackVars
  <2>1. entries' = entries /\ cursor' = cursor /\ nextId' = nextId
    BY <1>1 DEF stackVars
  <2> QED
    BY <2>1 DEF Line!vars
<1>2. CASE Records
  BY <1>1, <1>2, PushIsDo DEF Records, Line!Next
<1>3. ASSUME NEW from, NEW next, Steps(from, next)
      PROVE  [Line!Next]_Line!vars
  BY <1>1, <1>3, UndoneIsUndo, RedoneIsRedo DEF Steps, Applied, Line!Next
<1>4. ASSUME ClearHistory
      PROVE  [Line!Next]_Line!vars
  BY <1>4, ClearIsClear DEF Line!Next
<1>5. CASE SetsBudget
  BY <1>5, SetBudgetIsForget DEF SetsBudget, Line!Next
<1>6. ASSUME ThreadNext
      PROVE  [Line!Next]_Line!vars
  <2>1. CASE Records \/ WalkSteps \/ StepEnds
    BY <1>2, <1>3, <2>1 DEF WalkSteps, StepEnds
  <2>2. CASE ~(Records \/ WalkSteps \/ StepEnds)
    <3>1. UNCHANGED stackVars
      BY <1>6, <2>2
         DEF ThreadNext, Exit, Pop, Drained, Cleared, Skipped, Begins, Begin, Plans,
             ConflictAnswered, Works, ElevationAnswered, WalkBegins, StepAsks, StepAnswered,
             WalkPanics, WalkEnds, Retires, Finishes, Ends, Moves, Ask, Answered, SameStack
    <3> QED
      BY <1>1, <3>1
  <2> QED
    BY <2>1, <2>2
<1>7. ASSUME UiContinues \/ ShowsQuestion \/ UserActs
      PROVE  [Line!Next]_Line!vars
  <2>1. CASE ClearsHistory \/ SetsBudget \/ CloseReleases
    BY <1>4, <1>5, <2>1 DEF ClearsHistory, CloseReleases, Clears
  <2>2. CASE ~(ClearsHistory \/ SetsBudget \/ CloseReleases)
    <3>1. UNCHANGED stackVars
      BY <1>7, <2>2
         DEF UiContinues, UndoChecked, UndoSubmits, CancelsRunning, CancelsWaiting, UiRetires,
             UiRetireAll, CloseRetires, ShutsDown, OpensGate, Joined, ShowsQuestion, UserActs,
             Submit, AskUndo, Cancel, SetPaused, CallsHistory, AnswersQuestion, Closes
    <3> QED
      BY <1>1, <3>1
  <2> QED
    BY <2>1, <2>2
<1>8. CASE UNCHANGED vars
  BY <1>1, <1>8 DEF vars
<1> QED
  BY <1>6, <1>7, <1>8 DEF Next

LEMMA LineInit == ASSUME Init PROVE Line!Init
<1>1. entries = <<>> /\ cursor = 0 /\ nextId = 1
  BY DEF Init, StackInit
<1>2. IsHistory(<<>>, 0)
  BY DEF IsHistory
<1>3. DoneIds(<<>>, 0) = <<>> /\ UndoneIds(<<>>, 0) = <<>>
  BY <1>2, LineOfHistory, EmptySeq
<1>4. nextId - 1 = 0
  BY <1>1
<1> QED
  BY <1>1, <1>3, <1>4, Zenon DEF Line!Init, DoneIds, UndoneIds

\* Every push, walk step, smaller budget and clear of the history (stack.rs) is one step of the
\* line the user is shown: undo takes the newest operation in effect, redo the one undone last, a
\* new one abandons what could have been redone, and eviction forgets only at the ends and never
\* what undo would take next.
THEOREM HistoryIsALine == Spec => ImplementsUndoLine
<1>1. Init => StackInv /\ Line!Init
  BY StackInit_, LineInit
<1>2. StackInv /\ [Next]_vars => StackInv' /\ [Line!Next]_Line!vars
  BY StackStep, LineStep, UndoAssumption
<1> QED
  BY <1>1, <1>2, PTL DEF Spec, ImplementsUndoLine, Line!Spec
================================================================================
