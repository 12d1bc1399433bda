-------------------------------- MODULE UndoStack --------------------------------
(***************************************************************************)
(* The undo history (bb-core/src/undo/stack.rs, UndoStack): every operation *)
(* this session can still take back or do again, oldest first, with a      *)
(* cursor between what is in effect and what has been undone, kept within  *)
(* a budget of entries and of held data.  An entry stands for its record;  *)
(* of the record only its state and the size of what it holds are kept.    *)
(***************************************************************************)
EXTENDS Integers, Sequences, FiniteSetsExt

CONSTANTS HeldSizes,     \* what one record may hold, in units of data
          EntryLimits,   \* budgets the user may choose: entries ...
          HeldLimits     \* ... and held data

ASSUME UndoAssumption == /\ HeldSizes \subseteq Nat /\ HeldSizes # {}
                         /\ EntryLimits \subseteq Nat /\ EntryLimits # {}
                         /\ HeldLimits \subseteq Nat /\ HeldLimits # {}

VARIABLES entries,   \* the history, oldest first
          cursor,    \* how many entries are in effect
          nextId,    \* the id the next entry gets
          budget

stackVars == <<entries, cursor, nextId, budget>>

Budgets == [max_entries : EntryLimits, max_held : HeldLimits]
Entries == [id : Nat, applied : BOOLEAN, held : HeldSizes]

Ids(es)  == {es[i].id : i \in DOMAIN es}
Held(es) == MapThenSumSet(LAMBDA i : es[i].held, DOMAIN es)

StackInit == /\ entries = <<>> /\ cursor = 0 /\ nextId = 1
             /\ budget \in Budgets

--------------------------------------------------------------------------------
(* evict: the oldest done entries go first, the next undo excepted, then the *)
(* furthest undone ones.                                                     *)

OverBudget(es, b) == Len(es) > b.max_entries \/ Held(es) > b.max_held

\* How many of n evictions take the oldest done entry, and how many there can be at all.
FromFront(c, n)  == IF n < c THEN n ELSE IF c > 0 THEN c - 1 ELSE 0
Evictable(es, c) == IF c > 0 THEN Len(es) - 1 ELSE Len(es)

Without(es, c, n) == SubSeq(es, FromFront(c, n) + 1, Len(es) - (n - FromFront(c, n)))

\* The loop stops at the first history within budget, or when only the next undo is left.
StopsAfter(es, c, b, n) ==
    /\ ~OverBudget(Without(es, c, n), b) \/ n = Evictable(es, c)
    /\ \A m \in 0..(n - 1) : OverBudget(Without(es, c, m), b)

\* A mutant: the next undo is taken like any other done entry.
EvictTakesNextUndo(es, c, b) ==
    \E n \in 0..Len(es) :
        /\ ~OverBudget(SubSeq(es, n + 1, Len(es)), b) \/ n = Len(es)
        /\ \A m \in 0..(n - 1) : OverBudget(SubSeq(es, m + 1, Len(es)), b)
        /\ entries' = SubSeq(es, n + 1, Len(es))
        /\ cursor' = IF n < c THEN c - n ELSE 0

Evict(es, c, b) ==
    \E n \in 0..Evictable(es, c) :
        /\ StopsAfter(es, c, b, n)
        /\ entries' = Without(es, c, n)
        /\ cursor' = c - FromFront(c, n)

--------------------------------------------------------------------------------
(* The operations.  Of the ids before, what has left the history is returned for the *)
(* caller to retire.                                                                 *)

Released(before) == before \ Ids(entries')

\* A mutant: the redo branch stays.
PushKeepsBranch(held) ==
    LET new == [id |-> nextId, applied |-> TRUE, held |-> held]
    IN  /\ Evict(SubSeq(entries, 1, cursor) \o <<new>> \o SubSeq(entries, cursor + 1, Len(entries)),
                 cursor + 1, budget)
        /\ nextId' = nextId + 1
        /\ UNCHANGED budget

\* A new operation goes after the cursor, and what could have been redone is dropped.
Push(held) ==
    LET new == [id |-> nextId, applied |-> TRUE, held |-> held]
    IN  /\ Evict(Append(SubSeq(entries, 1, cursor), new), cursor + 1, budget)
        /\ nextId' = nextId + 1
        /\ UNCHANGED budget

NextUndo(id) == cursor > 0 /\ entries[cursor].id = id
NextRedo(id) == cursor < Len(entries) /\ entries[cursor + 1].id = id
BesideCursor(id) == NextUndo(id) \/ NextRedo(id)

\* A step moved something: the entry swaps to the record the step returned.
Undone(id, held) ==
    /\ NextUndo(id)
    /\ Evict([entries EXCEPT ![cursor] = [id |-> id, applied |-> FALSE, held |-> held]],
             cursor - 1, budget)
    /\ UNCHANGED <<nextId, budget>>
Redone(id, held) ==
    /\ NextRedo(id)
    /\ Evict([entries EXCEPT ![cursor + 1] = [id |-> id, applied |-> TRUE, held |-> held]],
             cursor + 1, budget)
    /\ UNCHANGED <<nextId, budget>>
Applied(id, held) == Undone(id, held) \/ (~NextUndo(id) /\ Redone(id, held))

\* A mutant: a smaller budget is noted, and applied to what comes after.
SetBudgetOnly(b) == budget' = b /\ UNCHANGED <<entries, cursor, nextId>>
SetBudget(b) == /\ budget' = b
                /\ Evict(entries, cursor, b)
                /\ UNCHANGED nextId

\* A mutant: the cursor stays.
ClearKeepsCursor == entries' = <<>> /\ UNCHANGED <<cursor, nextId, budget>>
ClearHistory == /\ entries' = <<>> /\ cursor' = 0
                /\ UNCHANGED <<nextId, budget>>

\* undo_span and redo_span to the entry so many steps away, the next step first.
Span(steps) ==
    IF steps > 0
    THEN [i \in 1..(IF steps < cursor THEN steps ELSE cursor) |-> entries[cursor + 1 - i].id]
    ELSE [i \in 1..(IF -steps < Len(entries) - cursor THEN -steps ELSE Len(entries) - cursor)
              |-> entries[cursor + i].id]

--------------------------------------------------------------------------------

StackTypeOK == /\ entries \in Seq(Entries)
               /\ cursor \in 0..Len(entries)
               /\ nextId \in Nat \ {0}
               /\ budget \in Budgets

\* What is in effect lies before the cursor, and what has been undone after it.
DoneBeforeCursor == \A i \in 1..Len(entries) : entries[i].applied = (i <= cursor)

\* No id names two entries, and the entries are in the order they were made.
IdsInOrder == /\ \A i, j \in 1..Len(entries) : i < j => entries[i].id < entries[j].id
              /\ \A i \in 1..Len(entries) : entries[i].id < nextId

\* What is held stays within the budget, the next undo excepted.
WithinBudget == OverBudget(entries, budget) => Len(entries) = 1 /\ cursor = 1
================================================================================
