---------------------------- MODULE Transfer_proofs ----------------------------
(***************************************************************************)
(* For any number of items, names and folders, and however often it is     *)
(* undone and redone, as long as none of the mishaps befalls it: a transfer *)
(* loses nothing of the user's, its record knows what is staged, an undo   *)
(* that takes everything back restores what was there before, and a redo   *)
(* of everything what the operation left.                                  *)
(***************************************************************************)
EXTENDS Transfer, FiniteSetTheorems, SequenceTheorems, WellFoundedInduction, TLAPS

--------------------------------------------------------------------------------
(* The disk. *)

\* A set of numbers has a least one.
Less == {ss \in Nat \X Nat : ss[1] < ss[2]}
LEMMA LeastOf ==
    ASSUME NEW S \in SUBSET Nat, S # {}
    PROVE  Min(S) \in S /\ \A y \in S : Min(S) <= y
<1>1. IsWellFoundedOn(Less, Nat)
  BY NatLessThanWellFounded, SMT DEF OpToRel, Less
<1>2. PICK x \in S : \A y \in S : ~ <<y, x>> \in Less
  <2> HIDE DEF Less
  <2> QED
    BY <1>1, WFMin, Zenon
<1>3. \A y \in S : x <= y
  <2> SUFFICES ASSUME NEW y \in S, y < x PROVE FALSE
    OBVIOUS
  <2>1. <<y, x>> \in Nat \X Nat /\ <<y, x>>[1] < <<y, x>>[2]
    OBVIOUS
  <2>2. <<y, x>> \in Less
    BY <2>1, Zenon DEF Less
  <2> QED
    BY <1>2, <2>2
<1> QED
  BY <1>3 DEF Min

LEMMA NumbersFrom ==
    ASSUME NEW a \in Nat, NEW c \in Nat
    PROVE  IsFiniteSet(a..(a + c)) /\ Cardinality(a..(a + c)) = c + 1
<1>1. a \in Int /\ a + c \in Int /\ ~ (a > a + c) /\ (a + c) - a + 1 = c + 1
  OBVIOUS
<1> QED
  BY <1>1, FS_Interval, Zenon

\* for_path finds a name: there are more numbers to try than entries on the disk.
LEMMA UniqueIsFree ==
    ASSUME NEW d, IsFiniteSet(DOMAIN d), NEW path \in Paths
    PROVE  /\ UniquePath(d, path) \notin DOMAIN d
           /\ UniquePath(d, path) \in Paths
           /\ UniquePath(d, path).at = path.at
           /\ UniquePath(d, path).stage = path.stage
<1> DEFINE C    == Cardinality(DOMAIN d)
           Nums == path.n..(path.n + C)
           Free == {m \in Nums : [path EXCEPT !.n = m] \notin DOMAIN d}
           f    == [m \in Nums |-> [path EXCEPT !.n = m]]
<1>1. C \in Nat /\ path.n \in Nat \ {0}
  BY FS_CardinalityType DEF Paths
<1>2. IsFiniteSet(Nums) /\ Cardinality(Nums) = C + 1
  <2> HIDE DEF C
  <2>1. path.n \in Nat
    BY <1>1
  <2> QED
    BY <1>1, <2>1, NumbersFrom
<1>3. Free # {}
  <2> SUFFICES ASSUME Free = {} PROVE FALSE
    OBVIOUS
  <2>1. f \in [Nums -> DOMAIN d]
    OBVIOUS
  <2>2. PICK x, y \in Nums : x # y /\ f[x] = f[y]
    <3>1. Cardinality(DOMAIN d) < Cardinality(Nums)
      BY <1>1, <1>2
    <3> HIDE DEF f, Nums, C
    <3> QED
      BY <1>2, <2>1, <3>1, FS_PigeonHole
  <2>3. f[x].n = x /\ f[y].n = y
    BY DEF Paths
  <2> QED
    BY <2>2, <2>3
<1>4. Min(Free) \in Free
  <2>1. Free \in SUBSET Nat
    <3> HIDE DEF C
    <3> QED
      BY <1>1
  <2> HIDE DEF Free
  <2> QED
    BY <1>3, <2>1, LeastOf
<1>5. UniquePath(d, path) = [path EXCEPT !.n = Min(Free)]
  BY DEF UniquePath
<1>6. Min(Free) \in Nat \ {0} /\ [path EXCEPT !.n = Min(Free)] \notin DOMAIN d
  <2> HIDE DEF C
  <2> QED
    BY <1>1, <1>4
<1> HIDE DEF Free
<1> QED
  BY <1>5, <1>6 DEF Paths

\* Every entry is somewhere, was made before the next one, and is an entry of its own.
Sound(d, n) ==
    /\ IsFiniteSet(DOMAIN d)
    /\ \A p \in DOMAIN d : p \in Paths /\ d[p] \in Entry /\ d[p].id > 0 /\ d[p].id < n
    /\ \A p, q \in DOMAIN d : d[p].id = d[q].id => p = q

\* e is d but for the entries at ps; but for the entry at p, which is now at q; but for a new
\* entry x at q.
Drops(d, ps, e) == /\ DOMAIN e = DOMAIN d \ ps
                   /\ \A r \in DOMAIN e : e[r] = d[r]
Moves(d, p, q, e) == /\ DOMAIN e = (DOMAIN d \ {p}) \union {q}
                     /\ e[q] = d[p]
                     /\ \A r \in DOMAIN d : r # p => e[r] = d[r]
Adds(d, q, x, e) == /\ DOMAIN e = DOMAIN d \union {q}
                    /\ e[q] = x
                    /\ \A r \in DOMAIN d : e[r] = d[r]

LEMMA WithoutIs ==
    ASSUME NEW d, NEW n, Sound(d, n), NEW ps
    PROVE  Sound(Without(d, ps), n) /\ Drops(d, ps, Without(d, ps))
<1> DEFINE e == Without(d, ps)
<1>1. DOMAIN e = DOMAIN d \ ps /\ \A r \in DOMAIN e : e[r] = d[r]
  BY DEF Without, Restrict
<1> HIDE DEF e
<1>2. IsFiniteSet(DOMAIN e)
  BY <1>1, FS_Subset DEF Sound
<1>3. Sound(e, n) /\ Drops(d, ps, e)
  BY <1>1, <1>2 DEF Sound, Drops
<1> QED
  BY <1>3 DEF e

LEMMA RenamedIs ==
    ASSUME NEW d, NEW n, Sound(d, n), NEW p \in DOMAIN d, NEW q \in Paths, q \notin DOMAIN d
    PROVE  Sound(Renamed(d, p, q), n) /\ Moves(d, p, q, Renamed(d, p, q))
<1> DEFINE e == Renamed(d, p, q)
<1>1. /\ DOMAIN e = (DOMAIN d \ {p}) \union {q}
      /\ e[q] = d[p]
      /\ \A r \in DOMAIN d : r # p => e[r] = d[r]
  BY DEF Renamed, With, Without, Restrict
<1> HIDE DEF e
<1>2. IsFiniteSet(DOMAIN e)
  <2>1. IsFiniteSet(DOMAIN d \ {p})
    BY FS_RemoveElement DEF Sound
  <2> QED
    BY <1>1, <2>1, FS_AddElement
<1>3. Sound(e, n) /\ Moves(d, p, q, e)
  BY <1>1, <1>2 DEF Sound, Moves
<1> QED
  BY <1>3 DEF e

LEMMA WithIs ==
    ASSUME NEW d, NEW n \in Nat \ {0}, Sound(d, n),
           NEW q \in Paths, q \notin DOMAIN d, NEW x \in Entry, x.id = n
    PROVE  Sound(With(d, q, x), n + 1) /\ Adds(d, q, x, With(d, q, x))
<1> DEFINE e == With(d, q, x)
<1>1. /\ DOMAIN e = DOMAIN d \union {q}
      /\ e[q] = x
      /\ \A r \in DOMAIN d : e[r] = d[r]
  BY DEF With
<1> HIDE DEF e
<1>2. IsFiniteSet(DOMAIN e)
  BY <1>1, FS_AddElement DEF Sound
<1>3. \A r \in DOMAIN d : d[r].id \in Nat
  BY DEF Sound, Entry
<1>4. Sound(e, n + 1) /\ Adds(d, q, x, e)
  BY <1>1, <1>2, <1>3 DEF Sound, Adds
<1> QED
  BY <1>4 DEF e

LEMMA NoPathIsNone == NoPath \notin Paths
  BY DEF NoPath, Paths

\* The displaced entry goes back to a name that is free, or stays where it is.
LEMMA PutBackIs ==
    ASSUME NEW d, NEW n, Sound(d, n), NEW staged, NEW to \in Paths, NEW e,
           PutBack(d, staged, to, e), Mishaps = {}
    PROVE  IF staged \in DOMAIN d /\ to \notin DOMAIN d
           THEN e = Renamed(d, staged, to) ELSE e = d
  BY NoPathIsNone DEF PutBack, Sound

--------------------------------------------------------------------------------
(* The invariant. *)

Sources == {p \in Paths : p.at \in Folders}
Targets == {p \in Paths : p.at = "destination"}
Items   == [src : Sources, dst : Targets, folder : BOOLEAN, res : {"skip", "both", "replace"}]
Stamps  == [id : Nat, edited : BOOLEAN]
Stagings == {p \in Paths : p.at = "staging"}
Dones   == [src : Sources, final : Targets, folder : BOOLEAN, staged : Stagings \union {NoPath},
            displaced : Nat, written : Stamps]
Todos   == Seq(Items) \union Seq(Dones)
Runs    == [doing : Doings, pass : {1, 2}, todo : Todos, prune : SUBSET Folders,
            pruned : SUBSET Folders, denied : Todos, completed : Seq(Dones), first : Nat,
            staging : Nat, stagings : SUBSET (Nat \ {0}), cancelled : BOOLEAN,
            to : Paths \union {NoPath}, staged : Paths \union {NoPath}, displaced : Nat]
Recs    == [state : {"none", "applied", "undone"}, completed : Seq(Dones),
            stagings : SUBSET (Nat \ {0}), pruned : SUBSET Folders]

Executing == run.doing \in {"do", "redo"}
Working   == at \in {"running", "writing"}

Typed ==
    /\ verb \in {"move", "copy"}
    /\ at \in {"planned", "running", "writing", "offered", "ended", "idle", "over"}
    /\ run \in Runs /\ record \in Recs
    /\ Executing => run.todo \in Seq(Items) /\ run.denied \in Seq(Items)
    /\ run.doing = "undo" => run.todo \in Seq(Dones) /\ run.denied \in Seq(Dones)
    /\ nextId \in Nat \ {0} /\ nextStage \in Nat \ {0}
    /\ standing \subseteq Folders
    /\ \A i \in owned : i \in Nat /\ i < nextId

\* While an item is written, the name it goes to is free, and what was there is staged.
Cleared ==
    at = "writing" =>
        /\ Executing /\ run.todo # <<>>
        /\ run.to \in Targets /\ run.to \notin DOMAIN disk
        /\ run.staged # NoPath => /\ run.staged \in DOMAIN disk /\ run.staged.at = "staging"
                                 /\ disk[run.staged].id = run.displaced

\* A staging folder is of one pass only.
Passes ==
    /\ run.doing = "undo" => run.staging = 0 /\ run.stagings = {}
    /\ at \in {"planned", "idle"} => /\ run.completed = <<>> /\ run.first = 0 /\ run.pass = 1
                                    /\ run.staging = 0 /\ run.stagings = {}
    /\ Working /\ run.pass = 1 => run.stagings = {} /\ run.first = 0
    /\ at = "offered" => run.pass = 1
    /\ run.first <= Len(run.completed)
    /\ run.staging < nextStage
    /\ \A s \in run.stagings : s < nextStage
    /\ Working => run.staging \notin run.stagings
    /\ \A p \in DOMAIN disk : p.at = "staging" => p.stage < nextStage
    /\ Executing /\ at \notin {"idle", "over"} => record.state # "applied"

\* No entry the user wrote to since would pass for the copy the stamp is of.
OfACopy(s, d, own, n) ==
    /\ s.id \in Nat \ {0} /\ s.id < n /\ ~ s.edited
    /\ \A p \in DOMAIN d : d[p].id = s.id /\ d[p].id \in own => d[p].edited /\ ~ d[p].folder
Stamped(cs, last) ==
    \A i \in DOMAIN cs : i <= last => OfACopy(cs[i].written, disk, owned, nextId)
LastStamped == IF Working /\ run.pass = 2 THEN run.first ELSE Len(run.completed)
CopiesStamped ==
    verb = "copy" =>
        /\ record.state = "applied" => Stamped(record.completed, Len(record.completed))
        /\ Executing => Stamped(run.completed, LastStamped)
        /\ run.doing = "undo" => /\ Stamped(run.todo, Len(run.todo))
                                /\ Stamped(run.denied, Len(run.denied))

\* What the elevated pass has copied so far, and will be stamped when it ends, is where it
\* was copied to, or a later copy is, and the user has written to neither.
Untouched(e) == ~ e.edited /\ e.id \notin owned
CopiesStand ==
    verb = "copy" /\ Working /\ Executing /\ run.pass = 2 =>
        \A i \in DOMAIN run.completed : i > run.first =>
            \/ run.completed[i].final \in DOMAIN disk /\ Untouched(disk[run.completed[i].final])
            \/ /\ at = "writing" /\ run.completed[i].final = run.to /\ run.staged # NoPath
               /\ Untouched(disk[run.staged])

\* Every entry in a staging folder the run or the record knows of was displaced by an item
\* it knows of.
Displaced(cs, last, id) == \E i \in DOMAIN cs : i <= last /\ cs[i].displaced = id
InStage(p, s) == p \in DOMAIN disk /\ p.at = "staging" /\ p.stage = s
FromBefore == IF Working THEN run.first ELSE Len(run.completed)
StagedBefore ==
    \A s \in run.stagings : \A p \in DOMAIN disk :
        InStage(p, s) => Displaced(run.completed, FromBefore, disk[p].id)
StagedNow ==
    Working /\ run.staging # 0 =>
        \A p \in DOMAIN disk : InStage(p, run.staging) =>
            \/ Displaced(run.completed, Len(run.completed), disk[p].id)
            \/ at = "writing" /\ p = run.staged
StagedOnRecord ==
    record.state = "applied" =>
        \A s \in record.stagings : \A p \in DOMAIN disk :
            InStage(p, s) => Displaced(record.completed, Len(record.completed), disk[p].id)

Kept == /\ Typed /\ Sound(disk, nextId) /\ Cleared /\ Passes
        /\ CopiesStamped /\ CopiesStand
        /\ StagedBefore /\ StagedNow /\ StagedOnRecord
        /\ NothingLost

--------------------------------------------------------------------------------
(* Steps that turn to the next item and touch nothing. *)

\* What a run keeps while it goes through its items.
SameButTodo ==
    /\ run' \in Runs /\ run'.doing = run.doing /\ run'.pass = run.pass
    /\ run'.first = run.first /\ run'.staging = run.staging /\ run'.stagings = run.stagings
    /\ Executing => run'.todo \in Seq(Items) /\ run'.denied \in Seq(Items)
    /\ run.doing = "undo" => run'.todo \in Seq(Dones) /\ run'.denied \in Seq(Dones)

LEMMA TailStamped ==
    ASSUME NEW cs \in Seq(Dones), cs # <<>>, Stamped(cs, Len(cs))
    PROVE  Stamped(Tail(cs), Len(Tail(cs))) /\ OfACopy(Head(cs).written, disk, owned, nextId)
<1>1. /\ Len(Tail(cs)) = Len(cs) - 1 /\ Len(cs) \in Nat /\ Len(cs) > 0
      /\ DOMAIN Tail(cs) = 1..Len(Tail(cs)) /\ DOMAIN cs = 1..Len(cs)
      /\ \A i \in 1..Len(Tail(cs)) : Tail(cs)[i] = cs[i + 1]
      /\ Head(cs) = cs[1]
  BY HeadTailProperties, LenProperties
<1>2. \A i \in 1..Len(cs) : OfACopy(cs[i].written, disk, owned, nextId)
  BY <1>1 DEF Stamped
<1>3. \A i \in 1..Len(Tail(cs)) : OfACopy(Tail(cs)[i].written, disk, owned, nextId)
  BY <1>1, <1>2
<1> QED
  BY <1>1, <1>2, <1>3 DEF Stamped

LEMMA NextIs ==
    ASSUME Kept, run.todo # <<>>
    PROVE  /\ Next1 \in Runs /\ Next1.doing = run.doing /\ Next1.pass = run.pass
           /\ Next1.completed = run.completed /\ Next1.first = run.first
           /\ Next1.staging = run.staging /\ Next1.stagings = run.stagings
           /\ Next1.todo = Tail(run.todo) /\ Next1.denied = run.denied
           /\ Executing => Tail(run.todo) \in Seq(Items) /\ Item \in Items
           /\ run.doing = "undo" => Tail(run.todo) \in Seq(Dones) /\ Item \in Dones
<1>1. /\ Executing => Tail(run.todo) \in Seq(Items) /\ Item \in Items
      /\ run.doing = "undo" => Tail(run.todo) \in Seq(Dones) /\ Item \in Dones
  BY HeadTailProperties DEF Kept, Typed, Item
<1>2. Tail(run.todo) \in Todos
  BY <1>1 DEF Kept, Typed, Runs, Doings, Executing, Todos
<1>3. run \in Runs
  BY DEF Kept, Typed
<1> QED
  BY <1>1, <1>2, <1>3 DEF Next1, Runs

LEMMA TurnsOver ==
    ASSUME Kept, at = "running", at' = "running", SameButTodo, run'.completed = run.completed,
           verb = "copy" /\ run.doing = "undo" => Stamped(run'.todo, Len(run'.todo)),
           verb = "copy" /\ run.doing = "undo" => Stamped(run'.denied, Len(run'.denied)),
           UNCHANGED diskVars, UNCHANGED <<verb, record, owned, given>>
    PROVE  Kept'
<1> USE DEF diskVars
<1>1. Typed'
  BY DEF Kept, Typed, SameButTodo, Executing
<1>2. Sound(disk, nextId)'
  BY DEF Kept
<1>3. Cleared'
  BY DEF Cleared
<1>4. Passes'
  BY DEF Kept, Passes, SameButTodo, Executing, Working
<1>5. CopiesStamped'
  <2>1. disk' = disk /\ owned' = owned /\ nextId' = nextId /\ at' = at /\ verb' = verb
    OBVIOUS
  <2>2. ASSUME NEW cs, NEW last, Stamped(cs, last)
        PROVE  \A i \in DOMAIN cs : i <= last => OfACopy(cs[i].written, disk, owned, nextId)'
    BY <2>1, <2>2 DEF Stamped
  <2>3. ASSUME verb = "copy", record.state = "applied"
        PROVE  Stamped(record.completed, Len(record.completed))
    BY <2>3 DEF Kept, CopiesStamped
  <2>4. ASSUME verb = "copy", Executing
        PROVE  Stamped(run.completed, LastStamped)
    BY <2>4 DEF Kept, CopiesStamped
  <2>5. LastStamped' = LastStamped
    BY DEF LastStamped, Working, SameButTodo
  <2> QED
    BY <2>1, <2>2, <2>3, <2>4, <2>5 DEF CopiesStamped, Stamped, SameButTodo, Executing
<1>6. CopiesStand'
  BY DEF Kept, CopiesStand, SameButTodo, Executing, Working, Untouched
<1>7. StagedBefore' /\ StagedNow' /\ StagedOnRecord'
  BY DEF Kept, StagedBefore, StagedNow, StagedOnRecord, SameButTodo, Working, FromBefore,
         Displaced, InStage
<1>8. NothingLost'
  BY DEF Kept, NothingLost
<1> QED
  BY <1>1, <1>2, <1>3, <1>4, <1>5, <1>6, <1>7, <1>8 DEF Kept

LEMMA FailsIs ==
    ASSUME Kept, run.todo # <<>>, Fails
    PROVE  SameButTodo /\ run'.completed = run.completed
<1>1. CASE run' = Next1
  BY <1>1, NextIs DEF SameButTodo, Kept, Typed
<1>2. CASE run' = [Next1 EXCEPT !.denied = Append(@, Item)]
  <2>1. /\ Executing => Append(run.denied, Item) \in Seq(Items)
        /\ run.doing = "undo" => Append(run.denied, Item) \in Seq(Dones)
    BY NextIs, AppendProperties DEF Kept, Typed
  <2>2. Append(run.denied, Item) \in Todos
    BY <2>1 DEF Kept, Typed, Runs, Doings, Executing, Todos
  <2>3. /\ run' \in Runs /\ run'.doing = run.doing /\ run'.pass = run.pass
        /\ run'.completed = run.completed /\ run'.first = run.first
        /\ run'.staging = run.staging /\ run'.stagings = run.stagings
        /\ run'.todo = Tail(run.todo) /\ run'.denied = Append(run.denied, Item)
    BY <1>2, <2>2, NextIs DEF Runs
  <2> QED
    BY <2>1, <2>3, NextIs DEF SameButTodo
<1> QED
  BY <1>1, <1>2 DEF Fails

LEMMA LeavesItemKeeps ==
    ASSUME Kept, Stops \/ Missing \/ Refused \/ Skips \/ StaysMoved \/ CopyStays
    PROVE  Kept'
<1> USE DEF historyVars, planVars, userVars
<1>1. CASE Stops
  <2>1. /\ at = "running" /\ at' = "running" /\ Executing /\ run.doing # "undo"
        /\ UNCHANGED diskVars /\ UNCHANGED <<verb, record, owned, given>>
    BY <1>1 DEF Stops, Executes, SameDisk, SameRun, Executing
  <2>2. <<>> \in Seq(Items) /\ <<>> \in Todos
    BY EmptySeq DEF Todos
  <2>3. /\ run' \in Runs /\ run'.doing = run.doing /\ run'.pass = run.pass
        /\ run'.completed = run.completed /\ run'.first = run.first
        /\ run'.staging = run.staging /\ run'.stagings = run.stagings
        /\ run'.todo = <<>> /\ run'.denied = run.denied
    BY <1>1, <2>2 DEF Stops, Kept, Typed, Runs
  <2>4. SameButTodo /\ run'.completed = run.completed
    BY <2>1, <2>2, <2>3 DEF SameButTodo, Kept, Typed
  <2> QED
    BY <2>1, <2>4, TurnsOver
<1>2. CASE Missing \/ Refused \/ Skips
  <2>1. /\ at = "running" /\ at' = "running" /\ Executing /\ run.doing # "undo"
        /\ UNCHANGED diskVars /\ UNCHANGED <<verb, record, owned, given>>
        /\ Fails /\ run.todo # <<>>
    BY <1>2 DEF Missing, Refused, Skips, Fails, Executes, SameDisk, SameRun, Executing
  <2>2. SameButTodo /\ run'.completed = run.completed
    BY <2>1, FailsIs
  <2> QED
    BY <2>1, <2>2, TurnsOver
<1>3. CASE StaysMoved
  <2>1. /\ at = "running" /\ at' = "running" /\ verb # "copy"
        /\ UNCHANGED diskVars /\ UNCHANGED <<verb, record, owned, given>>
        /\ Fails /\ run.todo # <<>>
    BY <1>3 DEF StaysMoved, Undoes, UndoStep, Fails, SameRun, diskVars
  <2>2. SameButTodo /\ run'.completed = run.completed
    BY <2>1, FailsIs
  <2> QED
    BY <2>1, <2>2, TurnsOver
<1>4. CASE CopyStays
  <2>1. /\ at = "running" /\ at' = "running" /\ verb = "copy" /\ run.doing = "undo"
        /\ UNCHANGED diskVars /\ UNCHANGED <<verb, record, owned, given>>
        /\ Fails /\ run.todo # <<>> /\ run' = Next1
    BY <1>4 DEF CopyStays, Undoes, UndoStep, Fails, SameRun, diskVars
  <2>2. SameButTodo /\ run'.completed = run.completed
    BY <2>1, FailsIs
  <2>3. /\ run.todo \in Seq(Dones)
        /\ Stamped(run.todo, Len(run.todo)) /\ Stamped(run.denied, Len(run.denied))
    BY <2>1 DEF Kept, Typed, CopiesStamped
  <2>4. Stamped(Tail(run.todo), Len(Tail(run.todo)))
    BY <2>1, <2>3, TailStamped
  <2>5. run'.todo = Tail(run.todo) /\ run'.denied = run.denied
    BY <2>1, NextIs
  <2> QED
    BY <2>1, <2>2, <2>3, <2>4, <2>5, TurnsOver
<1> QED
  BY <1>1, <1>2, <1>3, <1>4

--------------------------------------------------------------------------------
(* Steps that change the disk. *)

\* What is on the disk was there before, as it was, or is new.
Follows ==
    /\ \A p \in DOMAIN disk' : disk'[p].id = nextId \/ \E q \in DOMAIN disk : disk'[p] = disk[q]
    /\ \A i \in owned' : i = nextId \/ i \in owned
    /\ nextId' \in Nat /\ nextId <= nextId'

LEMMA StampFollows ==
    ASSUME Kept, Follows
    PROVE  \A cs, last : Stamped(cs, last) =>
               \A i \in DOMAIN cs : i <= last => OfACopy(cs[i].written, disk', owned', nextId')
<1>1. ASSUME NEW s, OfACopy(s, disk, owned, nextId)
      PROVE  OfACopy(s, disk', owned', nextId')
  BY <1>1 DEF OfACopy, Follows, Kept, Typed
<1> QED
  BY <1>1 DEF Stamped

\* The stamps of an operation that goes on.
LEMMA CopiesStayStamped ==
    ASSUME Kept, Follows, Executing, Working, verb' = verb, record' = record,
           run'.doing = run.doing, run'.completed = run.completed, LastStamped' = LastStamped
    PROVE  CopiesStamped'
<1>1. record.state # "applied" /\ run.doing # "undo"
  BY DEF Kept, Passes, Executing, Working
<1>2. ASSUME verb = "copy"
      PROVE  \A i \in DOMAIN run.completed : i <= LastStamped =>
                 OfACopy(run.completed[i].written, disk', owned', nextId')
  <2>1. Stamped(run.completed, LastStamped)
    BY <1>2 DEF Kept, CopiesStamped
  <2> QED
    BY <2>1, StampFollows
<1> QED
  BY <1>1, <1>2 DEF CopiesStamped, Stamped

\* What displaces an entry stages it, whole, under a name of its own.
LEMMA DisplacesKeeps ==
    ASSUME Kept, Displaces
    PROVE  Kept'
<1> DEFINE dst    == Item.dst
           stage  == IF run.staging = 0 THEN nextStage ELSE run.staging
           staged == UniquePath(disk, Staged(stage, dst))
<1>1. /\ at = "running" /\ at' = "writing" /\ Executing /\ run.doing # "undo" /\ run.todo # <<>>
      /\ dst \in DOMAIN disk
      /\ disk' = Renamed(disk, dst, staged)
      /\ run' = [run EXCEPT !.to = dst, !.staged = staged, !.displaced = disk[dst].id,
                            !.staging = stage]
      /\ nextStage' = IF run.staging = 0 THEN nextStage + 1 ELSE nextStage
      /\ UNCHANGED <<standing, nextId, verb, record, owned, given>>
  BY DEF Displaces, Executes, Taken, Exists, Writes, SameRun, planVars, historyVars, userVars,
         Executing
<1>2. dst \in Targets /\ dst \in Paths
  BY <1>1, NextIs DEF Items, Targets
<1>3. /\ stage \in Nat \ {0} /\ stage < nextStage' /\ nextStage <= nextStage'
      /\ nextStage' \in Nat \ {0} /\ stage \notin run.stagings
      /\ run.staging # 0 => stage = run.staging
      /\ run.staging = 0 => stage = nextStage
  BY <1>1 DEF Kept, Typed, Runs, Passes, Working
<1>4. /\ staged \notin DOMAIN disk /\ staged \in Paths
      /\ staged.at = "staging" /\ staged.stage = stage
  <2>1. /\ Staged(stage, dst) \in Paths
        /\ Staged(stage, dst).at = "staging" /\ Staged(stage, dst).stage = stage
    <3> HIDE DEF stage, dst
    <3> QED
      BY <1>2, <1>3 DEF Staged, Paths
  <2> HIDE DEF stage, dst
  <2> QED
    BY <2>1, UniqueIsFree DEF Kept, Sound
<1> HIDE DEF stage, staged, dst
<1>5. /\ Sound(disk', nextId)
      /\ DOMAIN disk' = (DOMAIN disk \ {dst}) \union {staged}
      /\ disk'[staged] = disk[dst]
      /\ \A r \in DOMAIN disk \ {dst} : disk'[r] = disk[r]
  <2>1. Sound(disk', nextId) /\ Moves(disk, dst, staged, disk')
    BY <1>1, <1>4, RenamedIs DEF Kept
  <2> QED
    BY <2>1 DEF Moves
<1>6. /\ run' \in Runs /\ run'.doing = run.doing /\ run'.pass = run.pass
      /\ run'.completed = run.completed /\ run'.first = run.first
      /\ run'.staging = stage /\ run'.stagings = run.stagings
      /\ run'.todo = run.todo /\ run'.denied = run.denied
      /\ run'.to = dst /\ run'.staged = staged /\ run'.displaced = disk[dst].id
  <2>1. run \in Runs /\ disk[dst].id \in Nat
    BY <1>1 DEF Kept, Typed, Sound, Entry
  <2> QED
    BY <1>1, <1>2, <1>3, <1>4, <2>1 DEF Runs
<1>7. Typed'
  BY <1>1, <1>3, <1>6 DEF Kept, Typed, Executing
<1>8. Cleared'
  BY <1>1, <1>2, <1>4, <1>5, <1>6 DEF Cleared, Executing
<1>9. Passes'
  <2>1. /\ run.first <= Len(run.completed) /\ record.state # "applied"
        /\ run.pass = 1 => run.stagings = {} /\ run.first = 0
        /\ \A s \in run.stagings : s < nextStage'
    BY <1>1, <1>3 DEF Kept, Passes, Working, Executing, Typed, Runs
  <2>2. \A p \in DOMAIN disk' : p.at = "staging" => p.stage < nextStage'
    BY <1>3, <1>4, <1>5 DEF Kept, Passes, Typed, Sound, Paths
  <2> QED
    BY <1>1, <1>3, <1>6, <2>1, <2>2 DEF Passes, Working, Executing
<1>10. CopiesStamped'
  <2>1. Follows
    BY <1>1, <1>5 DEF Follows, Kept, Typed
  <2>2. Working /\ LastStamped' = LastStamped
    BY <1>1, <1>6 DEF LastStamped, Working
  <2> QED
    BY <1>1, <1>6, <2>1, <2>2, CopiesStayStamped
<1>11. CopiesStand'
  <2> SUFFICES ASSUME verb = "copy", run.pass = 2, NEW i \in DOMAIN run.completed, i > run.first
               PROVE  LET f == run.completed[i].final
                      IN  \/ f \in DOMAIN disk' /\ Untouched(disk'[f])
                          \/ f = dst /\ Untouched(disk'[staged])
    <3>1. staged # NoPath
      BY <1>4, NoPathIsNone
    <3> QED
      BY <1>1, <1>6, <3>1 DEF CopiesStand, Untouched
  <2>1. run.completed[i].final \in DOMAIN disk /\ Untouched(disk[run.completed[i].final])
    BY <1>1 DEF Kept, CopiesStand, Working
  <2> QED
    BY <1>5, <2>1
<1>12. StagedBefore'
  <2> SUFFICES ASSUME NEW s \in run.stagings, NEW p \in DOMAIN disk', p.at = "staging", p.stage = s
               PROVE  Displaced(run.completed, run.first, disk'[p].id)
    BY <1>1, <1>6 DEF StagedBefore, InStage, FromBefore, Working, Displaced
  <2>1. p \in DOMAIN disk \ {dst}
    BY <1>3, <1>4, <1>5
  <2> QED
    BY <1>1, <1>5, <2>1 DEF Kept, StagedBefore, InStage, FromBefore, Working
<1>13. StagedNow'
  <2> SUFFICES ASSUME NEW p \in DOMAIN disk', p.at = "staging", p.stage = stage, p # staged
               PROVE  Displaced(run.completed, Len(run.completed), disk'[p].id)
    BY <1>1, <1>6 DEF StagedNow, InStage, Displaced
  <2>1. p \in DOMAIN disk \ {dst}
    BY <1>5
  <2>2. p.stage < nextStage /\ p.stage \in Nat
    BY <2>1 DEF Kept, Passes, Sound, Paths
  <2>3. run.staging = stage /\ run.staging # 0
    BY <1>3, <2>2 DEF Kept, Typed
  <2> QED
    BY <1>1, <1>5, <2>1, <2>3 DEF Kept, StagedNow, InStage, Working
<1>14. StagedOnRecord'
  BY <1>1 DEF Kept, Passes, StagedOnRecord
<1>15. NothingLost'
  BY <1>1, <1>5 DEF Kept, NothingLost
<1> QED
  BY <1>1, <1>5, <1>7, <1>8, <1>9, <1>10, <1>11, <1>12, <1>13, <1>14, <1>15 DEF Kept

LEMMA NumbersKeeps ==
    ASSUME Kept, Numbers
    PROVE  Kept'
<1> DEFINE to == UniquePath(disk, Item.dst)
<1>1. /\ at = "running" /\ at' = "writing" /\ Executing /\ run.doing # "undo" /\ run.todo # <<>>
      /\ run' = [run EXCEPT !.to = to, !.staged = NoPath, !.displaced = 0, !.staging = run.staging]
      /\ UNCHANGED <<disk, standing, nextId, nextStage, verb, record, owned, given>>
  BY DEF Numbers, Executes, Writes, SameRun, SameDisk, diskVars, planVars, historyVars, userVars,
         Executing
<1>2. to \notin DOMAIN disk /\ to \in Targets
  <2>1. Item.dst \in Paths /\ Item.dst.at = "destination"
    BY <1>1, NextIs DEF Items, Targets
  <2> QED
    BY <2>1, UniqueIsFree DEF Kept, Sound, Targets
<1> HIDE DEF to
<1>3. /\ run' \in Runs /\ run'.doing = run.doing /\ run'.pass = run.pass
      /\ run'.completed = run.completed /\ run'.first = run.first
      /\ run'.staging = run.staging /\ run'.stagings = run.stagings
      /\ run'.todo = run.todo /\ run'.denied = run.denied
      /\ run'.to = to /\ run'.staged = NoPath
  BY <1>1, <1>2 DEF Runs, Kept, Typed, Targets
<1>4. Typed' /\ Sound(disk, nextId)'
  BY <1>1, <1>3 DEF Kept, Typed, Executing
<1>5. Cleared'
  BY <1>1, <1>2, <1>3 DEF Cleared, Executing
<1>6. Passes'
  BY <1>1, <1>3 DEF Kept, Passes, Working, Executing
<1>7. CopiesStamped'
  <2>1. Follows
    BY <1>1 DEF Follows, Kept, Typed
  <2>2. Working /\ LastStamped' = LastStamped
    BY <1>1, <1>3 DEF LastStamped, Working
  <2> QED
    BY <1>1, <1>3, <2>1, <2>2, CopiesStayStamped
<1>8. CopiesStand'
  BY <1>1, <1>3 DEF Kept, CopiesStand, Working, Executing, Untouched
<1>9. StagedBefore' /\ StagedNow'
  BY <1>1, <1>3 DEF Kept, StagedBefore, StagedNow, InStage, FromBefore, Working, Displaced
<1>10. StagedOnRecord' /\ NothingLost'
  BY <1>1 DEF Kept, StagedOnRecord, InStage, Displaced, NothingLost
<1> QED
  BY <1>4, <1>5, <1>6, <1>7, <1>8, <1>9, <1>10 DEF Kept

LEMMA GoesBack ==
    ASSUME Kept, Mishaps = {}, at = "writing", PutBack(disk, run.staged, run.to, disk')
    PROVE  IF run.staged # NoPath
           THEN Sound(disk', nextId) /\ Moves(disk, run.staged, run.to, disk')
           ELSE disk' = disk
<1>1. /\ run.to \in Paths /\ run.to \notin DOMAIN disk /\ Sound(disk, nextId)
      /\ run.staged # NoPath => run.staged \in DOMAIN disk
  BY DEF Kept, Cleared, Targets
<1>2. NoPath \notin DOMAIN disk
  BY <1>1, NoPathIsNone DEF Sound
<1>3. IF run.staged \in DOMAIN disk /\ run.to \notin DOMAIN disk
      THEN disk' = Renamed(disk, run.staged, run.to) ELSE disk' = disk
  BY <1>1, PutBackIs
<1> QED
  BY <1>1, <1>2, <1>3, RenamedIs

\* When a write comes to nothing, what was displaced for it is where it was again.
LEMMA PutsBackKeeps ==
    ASSUME Kept, Mishaps = {}, at = "writing", at' = "running",
           PutBack(disk, run.staged, run.to, disk'),
           UNCHANGED <<standing, nextId, nextStage, verb, record, owned, given>>,
           SameButTodo, run'.completed = run.completed
    PROVE  Kept'
<1>1. /\ Executing /\ run.doing # "undo" /\ Working
      /\ run.to \in Targets /\ run.to \in Paths /\ run.to \notin DOMAIN disk
      /\ run.staged # NoPath => run.staged \in DOMAIN disk /\ run.staged.at = "staging"
  BY DEF Kept, Cleared, Executing, Working, Targets
<1>2. Sound(disk, nextId)
  BY DEF Kept
<1>3. IF run.staged # NoPath
      THEN Sound(disk', nextId) /\ Moves(disk, run.staged, run.to, disk')
      ELSE disk' = disk
  BY GoesBack
<1>4. Typed'
  BY <1>1 DEF Kept, Typed, SameButTodo, Executing
<1>5. Sound(disk, nextId)'
  BY <1>2, <1>3
<1>6. Cleared'
  BY DEF Cleared
\* What is staged now was staged before, but what has just gone back.
<1>7. \A p \in DOMAIN disk' : p.at = "staging" =>
          p \in DOMAIN disk /\ disk'[p] = disk[p] /\ p # run.staged
  BY <1>1, <1>2, <1>3, NoPathIsNone DEF Moves, Targets, Sound
<1>8. Passes'
  BY <1>1, <1>7 DEF Kept, Passes, SameButTodo, Executing, Working
<1>9. CopiesStamped'
  <2>1. Follows
    <3>1. \A p \in DOMAIN disk' : \E q \in DOMAIN disk : disk'[p] = disk[q]
      BY <1>1, <1>3 DEF Moves
    <3> QED
      BY <3>1 DEF Follows, Kept, Typed
  <2>2. LastStamped' = LastStamped
    BY <1>1 DEF LastStamped, Working, SameButTodo
  <2> QED
    BY <1>1, <2>1, <2>2, CopiesStayStamped DEF SameButTodo
<1>10. CopiesStand'
  <2> SUFFICES ASSUME verb = "copy", run.pass = 2, NEW i \in DOMAIN run.completed, i > run.first
               PROVE  LET f == run.completed[i].final
                      IN  f \in DOMAIN disk' /\ Untouched(disk'[f])
    BY <1>1 DEF CopiesStand, Untouched, SameButTodo
  <2>1. run.completed[i].final \in Targets
    <3>1. run.completed \in Seq(Dones)
      BY DEF Kept, Typed, Runs
    <3>2. run.completed[i] \in Dones
      BY <3>1, LenProperties
    <3> QED
      BY <3>2 DEF Dones
  <2>2. \/ run.completed[i].final \in DOMAIN disk /\ Untouched(disk[run.completed[i].final])
        \/ /\ run.completed[i].final = run.to /\ run.staged # NoPath
           /\ Untouched(disk[run.staged])
    BY <1>1 DEF Kept, CopiesStand
  <2> QED
    BY <1>1, <1>3, <2>1, <2>2 DEF Moves, Targets
<1>11. StagedBefore'
  BY <1>1, <1>7 DEF Kept, StagedBefore, InStage, FromBefore, Working, Displaced, SameButTodo
<1>12. StagedNow'
  BY <1>1, <1>7 DEF Kept, StagedNow, InStage, Working, Displaced, SameButTodo
<1>13. StagedOnRecord'
  BY <1>1 DEF Kept, Passes, StagedOnRecord, Working
<1>14. NothingLost'
  BY <1>3 DEF Kept, NothingLost, Moves
<1> QED
  BY <1>4, <1>5, <1>6, <1>8, <1>9, <1>10, <1>11, <1>12, <1>13, <1>14 DEF Kept

LEMMA WriteEndsKeeps ==
    ASSUME Kept, Mishaps = {}, WriteFails \/ WriteCancelled
    PROVE  Kept'
<1>1. /\ at = "writing" /\ at' = "running"
      /\ Executing /\ run.doing # "undo" /\ run.todo # <<>>
      /\ run.to \notin DOMAIN disk /\ run.to \in Paths
      /\ run.staged # NoPath => run.staged \in DOMAIN disk
      /\ UNCHANGED <<standing, nextStage, verb, record, owned, given>>
  BY DEF WriteFails, WriteCancelled, Writing, SameRun, planVars, historyVars, userVars,
         Kept, Cleared, Executing, Targets
<1>2. \A d, mishaps : HalfWritten(d, mishaps) = {d}
  BY DEF HalfWritten
<1>3. PutBack(disk, run.staged, run.to, disk')
  BY <1>1, <1>2 DEF WriteFails, WriteCancelled, Exists
<1>4. nextId' = nextId
  <2>1. Sound(disk, nextId)
    BY DEF Kept
  <2>2. \/ disk' = disk
        \/ Sound(disk', nextId) /\ Moves(disk, run.staged, run.to, disk')
    BY <1>1, <1>3, GoesBack
  <2>3. \A p \in DOMAIN disk' : disk'[p].id # nextId
    BY <2>1, <2>2 DEF Sound, Kept, Typed
  <2> QED
    BY <2>3 DEF WriteFails, WriteCancelled, Numbered
<1>5. SameButTodo /\ run'.completed = run.completed
  <2>1. CASE WriteFails
    BY <1>1, <2>1, FailsIs DEF WriteFails
  <2>2. CASE WriteCancelled
    <3>1. <<>> \in Seq(Items) /\ <<>> \in Todos
      BY EmptySeq DEF Todos
    <3>2. /\ run' \in Runs /\ run'.doing = run.doing /\ run'.pass = run.pass
          /\ run'.completed = run.completed /\ run'.first = run.first
          /\ run'.staging = run.staging /\ run'.stagings = run.stagings
          /\ run'.todo = <<>> /\ run'.denied = run.denied
      BY <1>1, <2>2, <3>1, NextIs DEF WriteCancelled, Runs
    <3> QED
      BY <1>1, <3>1, <3>2 DEF SameButTodo, Kept, Typed
  <2> QED
    BY <2>1, <2>2
<1> QED
  BY <1>1, <1>3, <1>4, <1>5, PutsBackKeeps

LEMMA DoneOf ==
    ASSUME NEW cs \in Seq(Dones), NEW i \in DOMAIN cs
    PROVE  cs[i] \in Dones
  BY LenProperties

\* What an append adds to what is known.
LEMMA AppendIs ==
    ASSUME NEW cs \in Seq(Dones), NEW c \in Dones
    PROVE  /\ Append(cs, c) \in Seq(Dones) /\ Len(Append(cs, c)) = Len(cs) + 1
           /\ Len(cs) \in Nat /\ DOMAIN cs = 1..Len(cs)
           /\ DOMAIN Append(cs, c) = 1..(Len(cs) + 1)
           /\ Append(cs, c)[Len(cs) + 1] = c
           /\ \A i \in DOMAIN cs : Append(cs, c)[i] = cs[i]
  BY AppendProperties, LenProperties

\* An item that is done is on the list, with what was displaced for it.
LEMMA WrittenKeeps ==
    ASSUME Kept, Written
    PROVE  Kept'
<1> DEFINE stamp == IF verb = "copy" /\ run.pass = 1 THEN [id |-> nextId, edited |-> FALSE]
                    ELSE NoStamp
           c     == Completed(Item, run.to, run.staged, run.displaced, stamp)
           done  == Append(run.completed, c)
           copy  == New(nextId, disk[Item.src].data, disk[Item.src].folder)
<1>1. /\ at = "writing" /\ at' = "running" /\ Working /\ Working'
      /\ Executing /\ run.doing # "undo" /\ run.todo # <<>>
      /\ run.to \notin DOMAIN disk /\ run.to \in Targets /\ run.to \in Paths
      /\ run.staged # NoPath => run.staged.at = "staging" /\ disk[run.staged].id = run.displaced
      /\ Item.src \in DOMAIN disk
      /\ IF verb = "move" THEN disk' = Renamed(disk, Item.src, run.to) /\ nextId' = nextId
         ELSE disk' = With(disk, run.to, copy) /\ nextId' = nextId + 1
      /\ run' = [Next1 EXCEPT !.completed = done]
      /\ UNCHANGED <<standing, nextStage, verb, record, owned, given>>
  <2>1. Next1.completed = run.completed
    BY NextIs DEF Written, Writing, Kept, Cleared
  <2> QED
    BY <2>1 DEF Written, Writing, SameRun, planVars, historyVars, userVars, Found, Exists,
         Kept, Cleared, Executing, Working, Targets
<1>2. /\ verb \in {"move", "copy"} /\ run \in Runs /\ record.state # "applied"
      /\ nextId \in Nat \ {0} /\ run.completed \in Seq(Dones)
      /\ Item \in Items /\ Item.src \in Sources /\ disk[Item.src] \in Entry
      /\ Sound(disk, nextId)
  BY <1>1, NextIs DEF Kept, Typed, Runs, Passes, Items, Sound
<1>3. c \in Dones /\ c.final = run.to /\ c.displaced = run.displaced /\ c.written = stamp
  <2>1. stamp \in Stamps
    BY <1>2 DEF Stamps, NoStamp
  <2>2. /\ Item.folder \in BOOLEAN /\ run.staged \in Stagings \union {NoPath}
        /\ run.displaced \in Nat
    BY <1>1, <1>2 DEF Items, Runs, Stagings
  <2> HIDE DEF stamp
  <2> QED
    BY <1>1, <1>2, <2>1, <2>2 DEF Completed, Dones
<1>4. /\ done \in Seq(Dones) /\ Len(done) = Len(run.completed) + 1
      /\ Len(run.completed) \in Nat /\ DOMAIN run.completed = 1..Len(run.completed)
      /\ DOMAIN done = 1..(Len(run.completed) + 1)
      /\ done[Len(run.completed) + 1] = c
      /\ \A i \in DOMAIN run.completed : done[i] = run.completed[i]
  <2> HIDE DEF c
  <2> QED
    BY <1>2, <1>3, AppendIs
<1>5. /\ Sound(disk', nextId') /\ run.to \in DOMAIN disk' /\ nextId <= nextId'
      /\ verb = "move" => Moves(disk, Item.src, run.to, disk')
      /\ verb = "copy" => Adds(disk, run.to, copy, disk')
  <2>1. CASE verb = "move"
    <3>1. disk' = Renamed(disk, Item.src, run.to) /\ nextId' = nextId
      BY <1>1, <2>1
    <3>2. Sound(disk', nextId) /\ Moves(disk, Item.src, run.to, disk')
      BY <1>1, <1>2, <3>1, RenamedIs
    <3> QED
      BY <1>2, <2>1, <3>1, <3>2 DEF Moves
  <2>2. CASE verb = "copy"
    <3>1. copy \in Entry /\ copy.id = nextId
      BY <1>2 DEF New, Entry
    <3> HIDE DEF copy
    <3>2. disk' = With(disk, run.to, copy) /\ nextId' = nextId + 1
      BY <1>1, <2>2
    <3>3. Sound(disk', nextId + 1) /\ Adds(disk, run.to, copy, disk')
      BY <1>1, <1>2, <3>1, <3>2, WithIs
    <3> QED
      BY <1>2, <2>2, <3>2, <3>3 DEF Adds
  <2> QED
    BY <1>2, <2>1, <2>2
<1>6. copy.id = nextId /\ ~ copy.edited
  BY DEF New
<1>7. stamp = IF verb = "copy" /\ run.pass = 1 THEN [id |-> nextId, edited |-> FALSE] ELSE NoStamp
  OBVIOUS
<1> HIDE DEF stamp, c, done, copy
<1>8. /\ run' \in Runs /\ run'.doing = run.doing /\ run'.pass = run.pass
      /\ run'.completed = done /\ run'.first = run.first
      /\ run'.staging = run.staging /\ run'.stagings = run.stagings
      /\ run'.todo = Tail(run.todo) /\ run'.denied = run.denied
      /\ Tail(run.todo) \in Seq(Items)
  BY <1>1, <1>4, NextIs DEF Runs
<1>9. Typed'
  <2>1. nextId' \in Nat \ {0} /\ \A i \in owned : i \in Nat /\ i < nextId'
    BY <1>1, <1>2 DEF Kept, Typed
  <2> QED
    BY <1>1, <1>8, <2>1 DEF Kept, Typed, Executing
<1>10. Cleared'
  BY <1>1 DEF Cleared
\* What is staged now was staged before.
<1>11. \A p \in DOMAIN disk' : p.at = "staging" => p \in DOMAIN disk /\ disk'[p] = disk[p]
  BY <1>1, <1>2, <1>5 DEF Moves, Adds, Targets
<1>12. Passes'
  BY <1>1, <1>2, <1>4, <1>8, <1>11 DEF Kept, Passes, Typed, Runs, Executing, Working
<1>13. CopiesStamped'
  <2> SUFFICES ASSUME verb = "copy", NEW i \in DOMAIN done, i <= LastStamped'
               PROVE  OfACopy(done[i].written, disk', owned, nextId')
    BY <1>1, <1>2, <1>8 DEF CopiesStamped, Stamped, Executing
  <2>1. CASE i \in DOMAIN run.completed
    <3>1. i <= LastStamped
      BY <1>1, <1>4, <1>8, <2>1 DEF LastStamped
    <3>2. Stamped(run.completed, LastStamped)
      BY <1>1 DEF Kept, CopiesStamped
    <3>3. \A p \in DOMAIN disk' : disk'[p].id = nextId \/ \E q \in DOMAIN disk : disk'[p] = disk[q]
      BY <1>5, <1>6 DEF Adds
    <3>4. Follows
      BY <1>1, <1>2, <1>5, <3>3 DEF Follows, Kept, Typed
    <3> QED
      BY <1>1, <1>4, <2>1, <3>1, <3>2, <3>4, StampFollows
  <2>2. CASE i = Len(run.completed) + 1
    <3>1. run.pass = 1
      BY <1>1, <1>2, <1>4, <1>8, <2>2 DEF LastStamped, Kept, Passes, Runs
    <3>2. stamp.id = nextId /\ ~ stamp.edited
      BY <1>7, <3>1
    <3> QED
      BY <1>1, <1>2, <1>3, <1>4, <2>2, <3>2 DEF OfACopy, Kept, Typed
  <2> QED
    BY <1>4, <2>1, <2>2
<1>14. CopiesStand'
  <2> SUFFICES ASSUME verb = "copy", run.pass = 2, NEW i \in DOMAIN done, i > run.first
               PROVE  done[i].final \in DOMAIN disk' /\ Untouched(disk'[done[i].final])
    BY <1>1, <1>8 DEF CopiesStand, Untouched
  <2>1. Untouched(disk'[run.to])
    BY <1>2, <1>5, <1>6 DEF Adds, Untouched, Kept, Typed
  <2>2. CASE i \in DOMAIN run.completed
    <3>1. \/ run.completed[i].final \in DOMAIN disk /\ Untouched(disk[run.completed[i].final])
          \/ run.completed[i].final = run.to
      BY <1>1, <2>2 DEF Kept, CopiesStand
    <3> QED
      BY <1>4, <1>5, <2>1, <2>2, <3>1 DEF Adds
  <2>3. CASE i = Len(run.completed) + 1
    BY <1>3, <1>4, <1>5, <2>1, <2>3
  <2> QED
    BY <1>4, <2>2, <2>3
<1>15. StagedBefore'
  <2> SUFFICES ASSUME NEW s \in run.stagings, NEW p \in DOMAIN disk', p.at = "staging", p.stage = s
               PROVE  Displaced(done, run.first, disk'[p].id)
    BY <1>1, <1>8 DEF StagedBefore, InStage, FromBefore, Displaced
  <2>1. Displaced(run.completed, run.first, disk[p].id)
    BY <1>1, <1>11 DEF Kept, StagedBefore, InStage, FromBefore
  <2> QED
    BY <1>4, <1>11, <2>1 DEF Displaced
<1>16. StagedNow'
  <2> SUFFICES ASSUME run.staging # 0,
                      NEW p \in DOMAIN disk', p.at = "staging", p.stage = run.staging
               PROVE  Displaced(done, Len(run.completed) + 1, disk'[p].id)
    BY <1>1, <1>4, <1>8 DEF StagedNow, InStage, Displaced
  <2>1. Displaced(run.completed, Len(run.completed), disk[p].id) \/ p = run.staged
    BY <1>1, <1>11 DEF Kept, StagedNow, InStage
  <2>2. CASE Displaced(run.completed, Len(run.completed), disk[p].id)
    BY <1>4, <1>11, <2>2 DEF Displaced
  <2>3. CASE p = run.staged
    <3>1. run.staged # NoPath
      BY <1>2, <1>11, <2>3, NoPathIsNone DEF Sound
    <3>2. c.displaced = disk'[p].id
      BY <1>1, <1>3, <1>11, <2>3, <3>1
    <3> QED
      BY <1>4, <3>2 DEF Displaced
  <2> QED
    BY <2>1, <2>2, <2>3
<1>17. StagedOnRecord'
  BY <1>1, <1>2 DEF StagedOnRecord
<1>18. NothingLost'
  <2>1. \A p \in DOMAIN disk : \E q \in DOMAIN disk' : disk'[q] = disk[p]
    BY <1>1, <1>2, <1>5 DEF Moves, Adds
  <2> QED
    BY <1>1, <2>1 DEF Kept, NothingLost
<1> QED
  BY <1>5, <1>9, <1>10, <1>12, <1>13, <1>14, <1>15, <1>16, <1>17, <1>18 DEF Kept

--------------------------------------------------------------------------------
(* Undoing. *)

LEMMA RevertedIs ==
    ASSUME Kept, run.doing = "undo", run.todo # <<>>, run' = Next1 \/ Reverted
    PROVE  /\ SameButTodo /\ Len(run.completed) <= Len(run'.completed)
           /\ run'.todo = Tail(run.todo) /\ run'.denied = run.denied
<1>1. run.completed \in Seq(Dones) /\ Item \in Dones
  BY NextIs DEF Kept, Typed, Runs
<1>2. /\ Append(run.completed, Item) \in Seq(Dones)
      /\ Len(run.completed) <= Len(Append(run.completed, Item))
      /\ Len(run.completed) \in Nat
  BY <1>1, AppendIs
<1>3. CASE run' = Next1
  <2>1. run.denied \in Seq(Dones) /\ run.doing # "do" /\ run.doing # "redo"
    BY DEF Kept, Typed
  <2>2. /\ run' \in Runs /\ run'.doing = run.doing /\ run'.pass = run.pass
        /\ run'.completed = run.completed /\ run'.first = run.first
        /\ run'.staging = run.staging /\ run'.stagings = run.stagings
        /\ run'.todo = Tail(run.todo) /\ run'.denied = run.denied
        /\ Tail(run.todo) \in Seq(Dones)
    BY <1>3, NextIs
  <2>3. SameButTodo
    BY <2>1, <2>2 DEF SameButTodo, Executing
  <2> QED
    BY <1>2, <2>2, <2>3
<1>4. CASE Reverted
  <2>1. /\ run' \in Runs /\ run'.doing = run.doing /\ run'.pass = run.pass
        /\ run'.completed = Append(run.completed, Item) /\ run'.first = run.first
        /\ run'.staging = run.staging /\ run'.stagings = run.stagings
        /\ run'.todo = Tail(run.todo) /\ run'.denied = run.denied
    BY <1>2, <1>4, NextIs DEF Reverted, Runs
  <2> QED
    BY <1>2, <2>1, NextIs DEF SameButTodo, Kept, Typed
<1> QED
  BY <1>3, <1>4

\* A step of an undo may move what is there, and take away what is not the user's.
LEMMA UndoStepKeeps ==
    ASSUME Kept, at = "running", at' = "running", run.doing = "undo", run.todo # <<>>,
           run' = Next1 \/ Reverted,
           UNCHANGED <<standing, nextId, nextStage, verb, record, owned, given>>,
           Sound(disk', nextId),
           \A p \in DOMAIN disk' : p.at = "staging" => p \in DOMAIN disk /\ disk'[p] = disk[p],
           \A p \in DOMAIN disk' : \E q \in DOMAIN disk : disk'[p] = disk[q],
           \A p \in DOMAIN disk : disk[p].id \in owned =>
               \E q \in DOMAIN disk' : disk'[q].id = disk[p].id
    PROVE  Kept'
<1>1. /\ SameButTodo /\ Len(run.completed) <= Len(run'.completed)
      /\ run'.todo = Tail(run.todo) /\ run'.denied = run.denied
  BY RevertedIs
<1>2. ~ Executing /\ run.staging = 0 /\ run.stagings = {}
  BY DEF Kept, Passes, Executing
<1>3. Typed'
  <2>1. /\ run' \in Runs /\ run'.doing = "undo"
        /\ run'.todo \in Seq(Dones) /\ run'.denied \in Seq(Dones)
    BY <1>1 DEF SameButTodo
  <2> QED
    BY <2>1 DEF Kept, Typed, Executing
<1>4. Sound(disk, nextId)'
  OBVIOUS
<1>5. Cleared' /\ CopiesStand'
  BY <1>1, <1>2 DEF Cleared, CopiesStand, SameButTodo, Executing
<1>6. Passes'
  <2>1. /\ run.first <= Len(run.completed) /\ run.first \in Nat
        /\ Len(run.completed) \in Nat /\ Len(run'.completed) \in Nat
    <3>1. run.completed \in Seq(Dones) /\ run'.completed \in Seq(Dones) /\ run.first \in Nat
      BY <1>1 DEF Kept, Typed, Runs, SameButTodo
    <3> QED
      BY <3>1, LenProperties DEF Kept, Passes
  <2>2. run.first <= Len(run'.completed)
    BY <1>1, <2>1
  <2> QED
    BY <1>1, <1>2, <2>2 DEF Kept, Passes, SameButTodo, Executing, Working
<1>7. CopiesStamped'
  <2> SUFFICES ASSUME verb = "copy"
               PROVE  CopiesStamped'
    BY DEF CopiesStamped
  <2>1. Follows
    BY DEF Follows, Kept, Typed
  <2>2. /\ run.todo \in Seq(Dones)
        /\ Stamped(run.todo, Len(run.todo)) /\ Stamped(run.denied, Len(run.denied))
        /\ record.state = "applied" => Stamped(record.completed, Len(record.completed))
    BY DEF Kept, Typed, CopiesStamped
  <2>3. Stamped(Tail(run.todo), Len(Tail(run.todo)))
    BY <2>2, TailStamped
  <2> QED
    BY <1>1, <1>2, <2>1, <2>2, <2>3, StampFollows
       DEF CopiesStamped, Stamped, SameButTodo, Executing
<1>8. StagedBefore' /\ StagedNow'
  BY <1>1, <1>2 DEF StagedBefore, StagedNow, SameButTodo
<1>9. StagedOnRecord'
  BY DEF Kept, StagedOnRecord, InStage, Displaced
<1>10. NothingLost'
  BY DEF Kept, NothingLost
<1> QED
  BY <1>3, <1>4, <1>5, <1>6, <1>7, <1>8, <1>9, <1>10 DEF Kept

LEMMA MoveBackKeeps ==
    ASSUME Kept, Mishaps = {}, MoveBack
    PROVE  Kept'
<1> DEFINE d == Renamed(disk, Item.final, Item.src)
<1>1. /\ at = "running" /\ at' = "running" /\ run.doing = "undo" /\ run.todo # <<>>
      /\ Reverted /\ UNCHANGED <<standing, nextId, nextStage, verb, record, owned, given>>
      /\ Item.final \in DOMAIN disk /\ Item.src \notin DOMAIN disk
      /\ PutBack(d, Item.staged, Item.final, disk')
  BY DEF MoveBack, Undoes, CanGoBack, Exists, UndoStep, SameRun, planVars, historyVars, userVars
<1>2. /\ Item.final \in Targets /\ Item.final \in Paths
      /\ Item.src \in Sources /\ Item.src \in Paths
  BY <1>1, NextIs DEF Dones, Sources, Targets
<1>3. Sound(disk, nextId)
  BY DEF Kept
<1>4. Sound(d, nextId) /\ Moves(disk, Item.final, Item.src, d)
  BY <1>1, <1>2, <1>3, RenamedIs
<1> HIDE DEF d
<1>5. IF Item.staged \in DOMAIN d /\ Item.final \notin DOMAIN d
      THEN disk' = Renamed(d, Item.staged, Item.final) ELSE disk' = d
  BY <1>1, <1>2, <1>4, PutBackIs
<1>6. \/ disk' = d
      \/ /\ Sound(disk', nextId) /\ Item.staged \in DOMAIN d
         /\ Moves(d, Item.staged, Item.final, disk')
  BY <1>2, <1>4, <1>5, RenamedIs
<1>7. Sound(disk', nextId)
  BY <1>4, <1>6
<1>8. \A p \in DOMAIN disk' : p.at = "staging" => p \in DOMAIN disk /\ disk'[p] = disk[p]
  <2>1. \A p \in DOMAIN d : p.at = "staging" => p \in DOMAIN disk /\ d[p] = disk[p]
    BY <1>1, <1>2, <1>4, FoldersAssumption DEF Moves, Sources, Targets
  <2>2. \A p \in DOMAIN disk' : p.at = "staging" => p \in DOMAIN d /\ disk'[p] = d[p]
    BY <1>2, <1>6 DEF Moves, Targets
  <2> QED
    BY <2>1, <2>2
<1>9. \A p \in DOMAIN disk' : \E q \in DOMAIN disk : disk'[p] = disk[q]
  <2>1. \A p \in DOMAIN d : \E q \in DOMAIN disk : d[p] = disk[q]
    BY <1>1, <1>4 DEF Moves
  <2>2. \A p \in DOMAIN disk' : \E q \in DOMAIN d : disk'[p] = d[q]
    BY <1>6 DEF Moves
  <2> QED
    BY <2>1, <2>2
<1>10. \A p \in DOMAIN disk : \E q \in DOMAIN disk' : disk'[q].id = disk[p].id
  <2>1. \A p \in DOMAIN disk : \E q \in DOMAIN d : d[q] = disk[p]
    BY <1>1, <1>4 DEF Moves
  <2>2. \A p \in DOMAIN d : \E q \in DOMAIN disk' : disk'[q] = d[p]
    BY <1>6 DEF Moves
  <2> QED
    BY <2>1, <2>2
<1> QED
  BY <1>1, <1>7, <1>8, <1>9, <1>10, UndoStepKeeps

\* What is taken away is the copy as it was written, which the user never wrote to.
LEMMA RemoveCopyKeeps ==
    ASSUME Kept, Mishaps = {}, RemoveCopy
    PROVE  Kept'
<1> DEFINE d == Without(disk, {Item.final})
<1>1. /\ at = "running" /\ at' = "running" /\ run.doing = "undo" /\ run.todo # <<>>
      /\ run' = Next1 \/ Reverted
      /\ UNCHANGED <<standing, nextId, nextStage, verb, record, owned, given>>
      /\ verb = "copy"
      /\ Item.final \in DOMAIN disk => StillTheCopy
      /\ PutBack(d, Item.staged, Item.final, disk')
  BY DEF RemoveCopy, Undoes, Exists, UndoStep, SameRun, planVars, historyVars, userVars
<1>2. Item.final \in Targets /\ Item.final \in Paths
  BY <1>1, NextIs DEF Dones, Targets
<1>3. Sound(disk, nextId)
  BY DEF Kept
<1>4. Sound(d, nextId) /\ Drops(disk, {Item.final}, d)
  BY <1>3, WithoutIs
<1> HIDE DEF d
<1>5. IF Item.staged \in DOMAIN d /\ Item.final \notin DOMAIN d
      THEN disk' = Renamed(d, Item.staged, Item.final) ELSE disk' = d
  BY <1>1, <1>2, <1>4, PutBackIs
<1>6. \/ disk' = d
      \/ /\ Sound(disk', nextId) /\ Item.staged \in DOMAIN d
         /\ Moves(d, Item.staged, Item.final, disk')
  BY <1>2, <1>4, <1>5, RenamedIs
<1>7. Sound(disk', nextId)
  BY <1>4, <1>6
<1>8. \A p \in DOMAIN disk' : p.at = "staging" => p \in DOMAIN disk /\ disk'[p] = disk[p]
  BY <1>2, <1>4, <1>6 DEF Drops, Moves, Targets
<1>9. \A p \in DOMAIN disk' : \E q \in DOMAIN disk : disk'[p] = disk[q]
  <2>1. \A p \in DOMAIN disk' : \E q \in DOMAIN d : disk'[p] = d[q]
    BY <1>6 DEF Moves
  <2> QED
    BY <1>4, <2>1 DEF Drops
<1>10. Item.final \in DOMAIN disk => disk[Item.final].id \notin owned
  <2> SUFFICES ASSUME Item.final \in DOMAIN disk, disk[Item.final].id \in owned
               PROVE  FALSE
    OBVIOUS
  <2>1. OfACopy(Item.written, disk, owned, nextId)
    <3>1. run.todo \in Seq(Dones) /\ Stamped(run.todo, Len(run.todo))
      BY <1>1 DEF Kept, Typed, CopiesStamped
    <3> QED
      BY <1>1, <3>1, TailStamped DEF Item
  <2>2. Item.written # NoStamp
    BY <2>1 DEF OfACopy, NoStamp
  <2>3. Matches(Item.written, Item.final)
    BY <1>1, <2>2 DEF StillTheCopy
  <2>4. disk[Item.final].edited /\ ~ disk[Item.final].folder
    BY <2>1, <2>3 DEF OfACopy, Matches
  <2> QED
    BY <2>1, <2>3, <2>4 DEF OfACopy, Matches
<1>11. \A p \in DOMAIN disk : disk[p].id \in owned =>
           \E q \in DOMAIN disk' : disk'[q].id = disk[p].id
  <2>1. \A p \in DOMAIN disk : disk[p].id \in owned => p \in DOMAIN d /\ d[p] = disk[p]
    BY <1>4, <1>10 DEF Drops
  <2>2. \A p \in DOMAIN d : \E q \in DOMAIN disk' : disk'[q] = d[p]
    BY <1>6 DEF Moves
  <2> QED
    BY <2>1, <2>2
<1> QED
  BY <1>1, <1>7, <1>8, <1>9, <1>11, UndoStepKeeps

--------------------------------------------------------------------------------
(* The passes. *)

LEMMA StartsKeeps ==
    ASSUME Kept, Starts
    PROVE  Kept'
<1>1. /\ at = "planned" /\ at' = "running"
      /\ UNCHANGED <<disk, standing, nextId, nextStage, verb, run, record, owned, given>>
  BY DEF Starts, diskVars, planVars, userVars
<1>2. /\ run.completed = <<>> /\ run.first = 0 /\ run.pass = 1
      /\ run.staging = 0 /\ run.stagings = {}
  BY <1>1 DEF Kept, Passes
<1>3. Typed' /\ Sound(disk, nextId)' /\ Cleared'
  BY <1>1 DEF Kept, Typed, Executing, Cleared
<1>4. Passes'
  BY <1>1, <1>2 DEF Kept, Passes, Working, Executing
<1>5. CopiesStamped'
  BY <1>1, <1>2 DEF Kept, CopiesStamped, Stamped, LastStamped, Working, Executing
<1>6. CopiesStand' /\ StagedBefore' /\ StagedNow'
  BY <1>1, <1>2 DEF CopiesStand, StagedBefore, StagedNow
<1>7. StagedOnRecord' /\ NothingLost'
  BY <1>1 DEF Kept, StagedOnRecord, InStage, Displaced, NothingLost
<1> QED
  BY <1>3, <1>4, <1>5, <1>6, <1>7 DEF Kept

LEMMA PrunesKeeps ==
    ASSUME Kept, Prunes
    PROVE  Kept'
<1> DEFINE stagings == IF run.staging = 0 THEN {} ELSE {run.staging}
<1>1. /\ at = "running" /\ at' \in {"offered", "ended"} /\ run.pass = 1
      /\ ~ Working' /\ run.stagings = {} /\ run.first = 0
      /\ UNCHANGED <<disk, nextId, nextStage, verb, record, owned, given>>
  BY DEF Prunes, PassOver, Kept, Passes, Working, planVars, historyVars, userVars
<1>2. PICK gone \in SUBSET Emptied :
          /\ standing' = standing \ gone
          /\ run' = [run EXCEPT !.pruned = gone, !.stagings = stagings]
  BY DEF Prunes
<1>3. run \in Runs /\ gone \in SUBSET Folders /\ stagings \in SUBSET (Nat \ {0})
  BY DEF Kept, Typed, Runs, Emptied
<1> HIDE DEF stagings
<1>4. /\ run' \in Runs /\ run'.doing = run.doing /\ run'.pass = run.pass
      /\ run'.completed = run.completed /\ run'.first = run.first
      /\ run'.staging = run.staging /\ run'.stagings = stagings
      /\ run'.todo = run.todo /\ run'.denied = run.denied
  BY <1>2, <1>3 DEF Runs
<1>5. Typed' /\ Sound(disk, nextId)' /\ Cleared'
  BY <1>1, <1>2, <1>4 DEF Kept, Typed, Executing, Cleared
<1>6. Passes'
  BY <1>1, <1>4 DEF Kept, Passes, Working, Executing, stagings
<1>7. CopiesStamped'
  BY <1>1, <1>4 DEF Kept, CopiesStamped, Stamped, LastStamped, Executing
<1>8. CopiesStand' /\ StagedNow'
  BY <1>1 DEF CopiesStand, StagedNow
<1>9. StagedBefore'
  BY <1>1, <1>4 DEF Kept, StagedBefore, StagedNow, InStage, Displaced, FromBefore, Working, stagings
<1>10. StagedOnRecord' /\ NothingLost'
  BY <1>1 DEF Kept, StagedOnRecord, InStage, Displaced, NothingLost
<1> QED
  BY <1>5, <1>6, <1>7, <1>8, <1>9, <1>10 DEF Kept

LEMMA DeclinedKeeps ==
    ASSUME Kept, Declined
    PROVE  Kept'
<1>1. /\ at = "offered" /\ at' = "ended" /\ ~ Working /\ ~ Working'
      /\ UNCHANGED <<disk, standing, nextId, nextStage, verb, run, record, owned, given>>
  BY DEF Declined, SameDisk, SameRun, diskVars, planVars, historyVars, userVars, Working
<1>2. Typed' /\ Sound(disk, nextId)' /\ Cleared'
  BY <1>1 DEF Kept, Typed, Executing, Cleared
<1>3. Passes'
  BY <1>1 DEF Kept, Passes, Executing
<1>4. CopiesStamped'
  BY <1>1 DEF Kept, CopiesStamped, Stamped, LastStamped, Executing
<1>5. CopiesStand' /\ StagedNow'
  BY <1>1 DEF CopiesStand, StagedNow
<1>6. StagedBefore' /\ StagedOnRecord' /\ NothingLost'
  BY <1>1 DEF Kept, StagedBefore, StagedOnRecord, InStage, Displaced, FromBefore, NothingLost
<1> QED
  BY <1>2, <1>3, <1>4, <1>5, <1>6 DEF Kept

LEMMA AcceptedKeeps ==
    ASSUME Kept, Accepted
    PROVE  Kept'
<1>1. /\ at = "offered" /\ at' = "running" /\ ~ Working /\ Working' /\ run.pass = 1
      /\ UNCHANGED <<disk, standing, nextId, nextStage, verb, record, owned, given>>
      /\ run' = [run EXCEPT !.pass = 2, !.todo = run.denied, !.denied = <<>>, !.staging = 0,
                            !.first = Len(run.completed)]
  BY DEF Accepted, SameDisk, SameRun, diskVars, planVars, historyVars, userVars, Working,
         Kept, Passes
<1>2. /\ run \in Runs /\ Len(run.completed) \in Nat
      /\ <<>> \in Seq(Items) /\ <<>> \in Seq(Dones) /\ <<>> \in Todos
  BY LenProperties, EmptySeq DEF Kept, Typed, Runs, Todos
<1>3. /\ run' \in Runs /\ run'.doing = run.doing /\ run'.pass = 2
      /\ run'.completed = run.completed /\ run'.first = Len(run.completed)
      /\ run'.staging = 0 /\ run'.stagings = run.stagings
      /\ run'.todo = run.denied /\ run'.denied = <<>>
  BY <1>1, <1>2 DEF Runs
<1>4. Typed' /\ Sound(disk, nextId)' /\ Cleared'
  BY <1>1, <1>2, <1>3 DEF Kept, Typed, Executing, Cleared
<1>5. Passes'
  BY <1>1, <1>2, <1>3 DEF Kept, Passes, Typed, Runs, Executing, Working
<1>6. CopiesStamped'
  BY <1>1, <1>3 DEF Kept, CopiesStamped, Stamped, LastStamped, Executing
<1>7. CopiesStand'
  <2>1. \A i \in DOMAIN run.completed : ~ (i > Len(run.completed))
    BY <1>2, LenProperties DEF Runs
  <2> QED
    BY <1>3, <2>1 DEF CopiesStand
<1>8. StagedNow'
  BY <1>3 DEF StagedNow
<1>9. StagedBefore' /\ StagedOnRecord' /\ NothingLost'
  BY <1>1, <1>3 DEF Kept, StagedBefore, StagedOnRecord, InStage, Displaced, FromBefore, NothingLost
<1> QED
  BY <1>4, <1>5, <1>6, <1>7, <1>8, <1>9 DEF Kept

\* What both passes did: the first one's part is as it was.
LEMMA FirstIs ==
    ASSUME Kept
    PROVE  /\ First \in Seq(Dones) /\ Len(First) = run.first
           /\ run.first \in Nat /\ Len(run.completed) \in Nat
           /\ DOMAIN First = 1..run.first /\ DOMAIN run.completed = 1..Len(run.completed)
           /\ \A i \in 1..run.first : First[i] = run.completed[i]
<1>1. /\ run.completed \in Seq(Dones) /\ run.first \in Nat
      /\ run.first <= Len(run.completed)
  BY DEF Kept, Typed, Runs, Passes
<1>2. Len(run.completed) \in Nat /\ DOMAIN run.completed = 1..Len(run.completed)
  BY <1>1, LenProperties
<1>3. \A i \in 1..run.first : run.completed[i] \in Dones
  BY <1>1, <1>2, DoneOf
<1>4. /\ First \in Seq(Dones) /\ Len(First) = run.first
      /\ \A i \in 1..run.first : First[i] = run.completed[i]
  <2>1. run.completed \in Seq(Dones) /\ 1 \in Int /\ run.first \in Int
    BY <1>1
  <2>2. /\ SubSeq(run.completed, 1, run.first) \in Seq(Dones)
        /\ Len(SubSeq(run.completed, 1, run.first)) =
               IF 1 <= run.first THEN run.first - 1 + 1 ELSE 0
        /\ \A i \in 1..(run.first - 1 + 1) :
               SubSeq(run.completed, 1, run.first)[i] = run.completed[1 + i - 1]
    BY <1>3, <2>1, SubSeqProperties
  <2> QED
    BY <1>1, <2>2 DEF First
<1> QED
  BY <1>1, <1>2, <1>4, LenProperties

LEMMA SecondIs ==
    ASSUME Kept
    PROVE  /\ Second \in Seq(Dones) /\ Len(Second) = Len(run.completed) - run.first
           /\ DOMAIN Second = 1..(Len(run.completed) - run.first)
           /\ \A i \in 1..(Len(run.completed) - run.first) :
                  Second[i] = run.completed[run.first + i]
<1>1. /\ run.completed \in Seq(Dones) /\ run.first \in Nat
      /\ run.first <= Len(run.completed)
      /\ Len(run.completed) \in Nat /\ DOMAIN run.completed = 1..Len(run.completed)
  BY FirstIs DEF Kept, Typed, Runs, Passes
<1>2. \A i \in (run.first + 1)..Len(run.completed) : run.completed[i] \in Dones
  BY <1>1, DoneOf
<1>3. /\ Second \in Seq(Dones) /\ Len(Second) = Len(run.completed) - run.first
      /\ \A i \in 1..(Len(run.completed) - run.first) :
             Second[i] = run.completed[run.first + i]
  <2>1. run.first + 1 \in Int /\ Len(run.completed) \in Int
    BY <1>1
  <2>2. /\ Second \in Seq(Dones)
        /\ Len(Second) = IF run.first + 1 <= Len(run.completed)
                         THEN Len(run.completed) - (run.first + 1) + 1 ELSE 0
        /\ \A i \in 1..(Len(run.completed) - (run.first + 1) + 1) :
               Second[i] = run.completed[(run.first + 1) + i - 1]
    BY <1>2, <2>1, SubSeqProperties DEF Second
  <2>3. \A i \in 1..(Len(run.completed) - run.first) :
            /\ i \in 1..(Len(run.completed) - (run.first + 1) + 1)
            /\ (run.first + 1) + i - 1 = run.first + i
    BY <1>1
  <2> QED
    BY <1>1, <2>2, <2>3
<1> QED
  BY <1>1, <1>3, LenProperties

LEMMA IsSequence ==
    ASSUME NEW S, NEW n \in Nat, NEW f, f \in [1..n -> S]
    PROVE  f \in Seq(S) /\ Len(f) = n /\ DOMAIN f = 1..n
<1>1. f \in Seq(S)
  BY SeqDef
<1> QED
  BY <1>1, LenProperties

LEMMA StampTyped ==
    ASSUME Kept, NEW path
    PROVE  Stamp(path) \in Stamps
<1>1. path \in DOMAIN disk => disk[path] \in Entry
  BY DEF Kept, Sound
<1> QED
  BY <1>1 DEF Stamp, Exists, NoStamp, Stamps, Entry

LEMMA ReverseIs ==
    ASSUME NEW S, NEW s \in Seq(S)
    PROVE  /\ Reverse(s) \in Seq(S) /\ Len(Reverse(s)) = Len(s)
           /\ DOMAIN Reverse(s) = 1..Len(s) /\ Len(s) \in Nat
           /\ \A i \in 1..Len(s) : Len(s) - i + 1 \in 1..Len(s) /\ Reverse(s)[i] = s[Len(s) - i + 1]
<1>1. Len(s) \in Nat /\ DOMAIN s = 1..Len(s) /\ s \in [1..Len(s) -> S]
  BY LenProperties
<1>2. \A i \in 1..Len(s) : Len(s) - i + 1 \in 1..Len(s) /\ Reverse(s)[i] = s[Len(s) - i + 1]
  BY <1>1 DEF Reverse
<1>3. Reverse(s) \in [1..Len(s) -> S]
  <2>1. DOMAIN Reverse(s) = 1..Len(s)
    BY DEF Reverse
  <2>2. Reverse(s) = [i \in 1..Len(s) |-> Reverse(s)[i]]
    BY DEF Reverse
  <2> QED
    BY <1>1, <1>2, <2>1, <2>2
<1> QED
  BY <1>1, <1>2, <1>3, IsSequence

\* Stamped or not, it is the same item.
SameItem(c, e) == /\ c.src = e.src /\ c.final = e.final
                  /\ c.staged = e.staged /\ c.displaced = e.displaced

LEMMA AnsweredIs ==
    ASSUME Kept, HelperAnswers
    PROVE  /\ run'.completed \in Seq(Dones) /\ Len(run'.completed) = Len(run.completed)
           /\ DOMAIN run'.completed = 1..Len(run.completed)
           /\ \A i \in 1..run.first : run'.completed[i] = run.completed[i]
           /\ Executing => \A i \in DOMAIN run.completed : i > run.first =>
                  /\ SameItem(run'.completed[i], run.completed[i])
                  /\ verb = "copy" =>
                         run'.completed[i].written = Stamp(run.completed[i].final)
           /\ run'.doing = run.doing /\ run'.pass = run.pass /\ run'.first = run.first
           /\ run'.staging = run.staging /\ run'.todo = run.todo /\ run'.denied = run.denied
           /\ run'.stagings = run.stagings \union (IF run.staging = 0 THEN {} ELSE {run.staging})
           /\ run' \in Runs
<1> DEFINE n        == Len(run.completed) - run.first
           stamped  == [i \in DOMAIN Second |->
                           IF verb = "copy"
                           THEN [Second[i] EXCEPT !.written = Stamp(Second[i].final)]
                           ELSE Second[i]]
           second   == IF run.doing = "undo" THEN Reverse(Second) ELSE stamped
           stagings == run.stagings \union (IF run.staging = 0 THEN {} ELSE {run.staging})
<1>1. /\ run.first \in Nat /\ Len(run.completed) \in Nat /\ n \in Nat
      /\ run.first <= Len(run.completed)
  BY FirstIs, SecondIs, LenProperties DEF Kept, Passes
<1>2. /\ run.doing # "undo" => second = stamped
      /\ run' = [run EXCEPT !.completed = First \o second, !.stagings = stagings]
  BY DEF HelperAnswers
<1>3. \A i \in 1..n : Second[i] \in Dones /\ stamped[i] \in Dones
  <2> SUFFICES ASSUME NEW i \in 1..n PROVE Second[i] \in Dones /\ stamped[i] \in Dones
    OBVIOUS
  <2>1. i \in DOMAIN Second /\ Second[i] \in Dones
    BY SecondIs, DoneOf
  <2>2. Stamp(Second[i].final) \in Stamps
    BY StampTyped
  <2>3. [Second[i] EXCEPT !.written = Stamp(Second[i].final)] \in Dones
    BY <2>1, <2>2 DEF Dones
  <2> QED
    BY <2>1, <2>3
<1>4. stamped \in Seq(Dones) /\ Len(stamped) = n
  <2>1. DOMAIN Second = 1..n
    BY SecondIs
  <2>2. stamped \in [1..n -> Dones]
    BY <1>3, <2>1
  <2> HIDE DEF stamped, n
  <2> QED
    BY <1>1, <2>2, IsSequence
<1>5. second \in Seq(Dones) /\ Len(second) = n
  <2>1. Reverse(Second) \in Seq(Dones) /\ Len(Reverse(Second)) = n
    BY SecondIs, ReverseIs
  <2> HIDE DEF stamped, n
  <2> QED
    BY <1>4, <2>1
<1>6. \A i \in 1..n : /\ SameItem(stamped[i], run.completed[run.first + i])
                      /\ verb = "copy" => stamped[i].written =
                                              Stamp(run.completed[run.first + i].final)
  <2> SUFFICES ASSUME NEW i \in 1..n
               PROVE  /\ SameItem(stamped[i], run.completed[run.first + i])
                      /\ verb = "copy" => stamped[i].written =
                                              Stamp(run.completed[run.first + i].final)
    OBVIOUS
  <2>1. i \in DOMAIN Second /\ Second[i] = run.completed[run.first + i] /\ Second[i] \in Dones
    BY <1>3, SecondIs
  <2> QED
    BY <2>1 DEF Dones, SameItem
<1> HIDE DEF stamped, second
<1>7. /\ First \o second \in Seq(Dones) /\ Len(First \o second) = Len(run.completed)
      /\ DOMAIN (First \o second) = 1..Len(run.completed)
      /\ \A i \in 1..run.first : (First \o second)[i] = run.completed[i]
      /\ \A i \in 1..Len(run.completed) : i > run.first =>
             i - run.first \in 1..n /\ (First \o second)[i] = second[i - run.first]
  <2>1. /\ First \o second \in Seq(Dones)
        /\ Len(First \o second) = Len(First) + Len(second)
        /\ \A i \in 1..(Len(First) + Len(second)) :
               (First \o second)[i] = IF i <= Len(First) THEN First[i] ELSE second[i - Len(First)]
    BY <1>5, FirstIs, ConcatProperties
  <2>2. Len(First) = run.first /\ Len(First) + Len(second) = Len(run.completed)
    BY <1>1, <1>5, FirstIs
  <2>3. DOMAIN (First \o second) = 1..Len(run.completed)
    BY <2>1, <2>2, LenProperties
  <2>4. \A i \in 1..run.first : (First \o second)[i] = run.completed[i]
    <3>1. \A i \in 1..run.first : i \in 1..Len(run.completed) /\ i <= Len(First)
      BY <1>1, <2>2
    <3> QED
      BY <2>1, <2>2, <3>1, FirstIs
  <2>5. \A i \in 1..Len(run.completed) : i > run.first =>
            i - run.first \in 1..n /\ (First \o second)[i] = second[i - run.first]
    <3>1. \A i \in 1..Len(run.completed) : i > run.first =>
              i - run.first \in 1..n /\ ~ (i <= Len(First)) /\ i - Len(First) = i - run.first
      BY <1>1, <2>2
    <3> HIDE DEF n
    <3> QED
      BY <2>1, <2>2, <3>1
  <2> QED
    BY <2>1, <2>2, <2>3, <2>4, <2>5
<1>8. /\ run.staging \in Nat /\ run.stagings \in SUBSET (Nat \ {0}) /\ run \in Runs
  BY DEF Kept, Typed, Runs
<1>9. stagings \in SUBSET (Nat \ {0})
  BY <1>8
<1>10. /\ run'.doing = run.doing /\ run'.pass = run.pass /\ run'.first = run.first
       /\ run'.staging = run.staging /\ run'.todo = run.todo /\ run'.denied = run.denied
       /\ run'.stagings = stagings /\ run'.completed = First \o second
       /\ run' \in Runs
  <2> HIDE DEF stagings
  <2> QED
    BY <1>2, <1>7, <1>8, <1>9 DEF Runs
<1>11. Executing => \A i \in DOMAIN run.completed : i > run.first =>
          /\ SameItem((First \o second)[i], run.completed[i])
          /\ verb = "copy" => (First \o second)[i].written = Stamp(run.completed[i].final)
  <2> SUFFICES ASSUME Executing, NEW i \in 1..Len(run.completed), i > run.first
               PROVE  /\ SameItem((First \o second)[i], run.completed[i])
                      /\ verb = "copy" => (First \o second)[i].written =
                                              Stamp(run.completed[i].final)
    BY FirstIs
  <2>1. i - run.first \in 1..n /\ run.first + (i - run.first) = i
    BY <1>1, <1>7
  <2>2. (First \o second)[i] = stamped[i - run.first]
    BY <1>2, <1>7 DEF Executing
  <2> QED
    BY <1>6, <2>1, <2>2
<1> QED
  BY <1>7, <1>10, <1>11

LEMMA HelperAnswersKeeps ==
    ASSUME Kept, HelperAnswers
    PROVE  Kept'
<1>1. /\ at = "running" /\ at' = "ended" /\ run.pass = 2 /\ Working /\ ~ Working'
      /\ UNCHANGED <<disk, standing, nextId, nextStage, verb, record, owned, given>>
  BY DEF HelperAnswers, PassOver, SameDisk, SameRun, diskVars, planVars, historyVars, userVars,
         Working
<1>2. /\ run'.completed \in Seq(Dones) /\ Len(run'.completed) = Len(run.completed)
      /\ DOMAIN run'.completed = 1..Len(run.completed)
      /\ DOMAIN run.completed = 1..Len(run.completed)
      /\ \A i \in 1..run.first : run'.completed[i] = run.completed[i]
      /\ run'.doing = run.doing /\ run'.pass = run.pass /\ run'.first = run.first
      /\ run'.staging = run.staging /\ run'.todo = run.todo /\ run'.denied = run.denied
      /\ run'.stagings = run.stagings \union (IF run.staging = 0 THEN {} ELSE {run.staging})
      /\ run' \in Runs
      /\ run.first \in Nat /\ Len(run.completed) \in Nat /\ run.first <= Len(run.completed)
  BY AnsweredIs, FirstIs DEF Kept, Passes
<1>3. Typed' /\ Sound(disk, nextId)' /\ Cleared'
  BY <1>1, <1>2 DEF Kept, Typed, Executing, Cleared
<1>4. Passes'
  <2>1. \A s \in run'.stagings : s < nextStage
    BY <1>2 DEF Kept, Passes
  <2>2. run.doing = "undo" => run'.stagings = {}
    BY <1>2 DEF Kept, Passes
  <2> QED
    BY <1>1, <1>2, <2>1, <2>2 DEF Kept, Passes, Executing
<1>5. CopiesStamped'
  <2> SUFFICES ASSUME verb = "copy"
               PROVE  CopiesStamped'
    BY <1>1 DEF CopiesStamped
  <2>1. ASSUME Executing, NEW i \in DOMAIN run.completed
        PROVE  OfACopy(run'.completed[i].written, disk, owned, nextId)
    <3>1. CASE i <= run.first
      <4>1. i \in 1..run.first
        BY <1>2, <3>1
      <4>2. OfACopy(run.completed[i].written, disk, owned, nextId)
        BY <1>1, <2>1, <3>1 DEF Kept, CopiesStamped, Stamped, LastStamped
      <4> QED
        BY <1>2, <4>1, <4>2
    <3>2. CASE i > run.first
      <4> DEFINE f == run.completed[i].final
      <4>1. f \in DOMAIN disk /\ Untouched(disk[f])
        BY <1>1, <2>1, <3>2 DEF Kept, CopiesStand
      <4>2. run'.completed[i].written = Stamp(f)
        BY <2>1, <3>2, AnsweredIs
      <4> HIDE DEF f
      <4>3. Stamp(f) = [id |-> disk[f].id, edited |-> FALSE]
        BY <4>1 DEF Stamp, Exists, Untouched, Kept, Sound, Entry
      <4>4. disk[f].id \in Nat \ {0} /\ disk[f].id < nextId
        BY <4>1 DEF Kept, Sound, Entry
      <4>5. \A p \in DOMAIN disk : disk[p].id = disk[f].id => p = f
        BY <4>1 DEF Kept, Sound
      <4>6. OfACopy([id |-> disk[f].id, edited |-> FALSE], disk, owned, nextId)
        BY <4>1, <4>4, <4>5 DEF OfACopy, Untouched
      <4> QED
        BY <4>2, <4>3, <4>6
    <3> QED
      BY <1>2, <3>1, <3>2
  <2>2. Executing => \A i \in DOMAIN run'.completed :
                         OfACopy(run'.completed[i].written, disk, owned, nextId)
    BY <1>2, <2>1
  <2> QED
    BY <1>1, <1>2, <2>2 DEF Kept, CopiesStamped, Stamped, Executing
<1>6. CopiesStand' /\ StagedNow'
  BY <1>1 DEF CopiesStand, StagedNow
<1>7. StagedBefore'
  <2> SUFFICES ASSUME NEW s \in run'.stagings, NEW p \in DOMAIN disk, InStage(p, s)
               PROVE  Displaced(run'.completed, Len(run.completed), disk[p].id)
    BY <1>1, <1>2 DEF StagedBefore, FromBefore, InStage, Displaced
  <2>1. Executing
    BY <1>2 DEF Kept, Passes, Typed, Runs, Doings, Executing
  <2>2. \A i \in DOMAIN run.completed : run'.completed[i].displaced = run.completed[i].displaced
    <3> SUFFICES ASSUME NEW i \in DOMAIN run.completed
                 PROVE  run'.completed[i].displaced = run.completed[i].displaced
      OBVIOUS
    <3>1. CASE i > run.first
      BY <2>1, <3>1, AnsweredIs DEF SameItem
    <3>2. CASE i <= run.first
      BY <1>2, <3>2
    <3> QED
      BY <1>2, <3>1, <3>2
  <2>3. Displaced(run.completed, Len(run.completed), disk[p].id)
    <3>1. CASE s \in run.stagings
      BY <1>1, <1>2, <3>1 DEF Kept, StagedBefore, FromBefore, Displaced
    <3>2. CASE run.staging # 0 /\ s = run.staging
      BY <1>1, <3>2 DEF Kept, StagedNow
    <3> QED
      BY <1>2, <3>1, <3>2
  <2> QED
    BY <1>2, <2>2, <2>3 DEF Displaced
<1>8. StagedOnRecord' /\ NothingLost'
  BY <1>1 DEF Kept, StagedOnRecord, InStage, Displaced, NothingLost
<1> QED
  BY <1>3, <1>4, <1>5, <1>6, <1>7, <1>8 DEF Kept

LEMMA HelperLostKeeps ==
    ASSUME Kept, HelperLost
    PROVE  Kept'
<1>1. /\ Working /\ at' = "ended" /\ run.pass = 2 /\ ~ Working'
      /\ run' = [run EXCEPT !.completed = First, !.todo = <<>>]
      /\ UNCHANGED <<disk, standing, nextId, nextStage, verb, record, owned, given>>
  BY DEF HelperLost, SameDisk, diskVars, planVars, userVars, Working
<1>2. /\ First \in Seq(Dones) /\ Len(First) = run.first /\ run.first \in Nat
      /\ DOMAIN First = 1..run.first /\ DOMAIN run.completed = 1..Len(run.completed)
      /\ run.first <= Len(run.completed) /\ Len(run.completed) \in Nat
      /\ \A i \in 1..run.first : i \in DOMAIN run.completed /\ First[i] = run.completed[i]
      /\ <<>> \in Seq(Items) /\ <<>> \in Seq(Dones) /\ <<>> \in Todos /\ Len(<<>>) = 0
      /\ run \in Runs
  <2>1. <<>> \in Seq(Items) /\ <<>> \in Seq(Dones) /\ <<>> \in Todos /\ Len(<<>>) = 0
    BY EmptySeq DEF Todos
  <2>2. run \in Runs /\ run.first <= Len(run.completed)
    BY DEF Kept, Passes, Typed
  <2> QED
    BY <2>1, <2>2, FirstIs
<1>3. /\ run' \in Runs /\ run'.doing = run.doing /\ run'.pass = 2
      /\ run'.completed = First /\ run'.first = run.first
      /\ run'.staging = run.staging /\ run'.stagings = run.stagings
      /\ run'.todo = <<>> /\ run'.denied = run.denied
  BY <1>1, <1>2 DEF Runs
<1>4. Typed' /\ Sound(disk, nextId)' /\ Cleared'
  BY <1>1, <1>2, <1>3 DEF Kept, Typed, Executing, Cleared
<1>5. Passes'
  BY <1>1, <1>2, <1>3 DEF Kept, Passes, Executing, Working
<1>6. CopiesStamped'
  <2>1. verb = "copy" /\ Executing =>
            \A i \in DOMAIN First : OfACopy(First[i].written, disk, owned, nextId)
    BY <1>1, <1>2 DEF Kept, CopiesStamped, Stamped, LastStamped
  <2> QED
    BY <1>1, <1>2, <1>3, <2>1 DEF Kept, CopiesStamped, Stamped, Executing
<1>7. CopiesStand' /\ StagedNow'
  BY <1>1 DEF CopiesStand, StagedNow
<1>8. StagedBefore'
  <2> SUFFICES ASSUME NEW s \in run.stagings, NEW p \in DOMAIN disk, InStage(p, s)
               PROVE  Displaced(First, run.first, disk[p].id)
    BY <1>1, <1>2, <1>3 DEF StagedBefore, FromBefore, InStage, Displaced
  <2>1. Displaced(run.completed, run.first, disk[p].id)
    BY <1>1 DEF Kept, StagedBefore, FromBefore
  <2> QED
    BY <1>2, <2>1 DEF Displaced
<1>9. StagedOnRecord' /\ NothingLost'
  BY <1>1 DEF Kept, StagedOnRecord, InStage, Displaced, NothingLost
<1> QED
  BY <1>4, <1>5, <1>6, <1>7, <1>8, <1>9 DEF Kept

--------------------------------------------------------------------------------
(* The record. *)

LEMMA PassIs ==
    ASSUME NEW doing \in Doings, NEW todo \in Todos, NEW prune \in SUBSET Folders
    PROVE  LET r == Pass(doing, todo, prune)
           IN  /\ r \in Runs /\ r.doing = doing /\ r.pass = 1 /\ r.todo = todo /\ r.denied = <<>>
               /\ r.completed = <<>> /\ r.first = 0 /\ r.staging = 0 /\ r.stagings = {}
<1>1. <<>> \in Seq(Dones) /\ <<>> \in Todos
  BY EmptySeq DEF Todos
<1> QED
  BY <1>1 DEF Pass, Runs

\* A pass begins, or the run is put away: nothing of the last one is left.
Fresh ==
    /\ run' \in Runs /\ run'.pass = 1 /\ run'.denied = <<>>
    /\ run'.completed = <<>> /\ run'.first = 0 /\ run'.staging = 0 /\ run'.stagings = {}
    /\ Executing' => run'.todo \in Seq(Items)
    /\ run'.doing = "undo" => run'.todo \in Seq(Dones)

LEMMA FreshKeeps ==
    ASSUME Kept, Fresh, at' \in {"running", "idle", "over"}, record' \in Recs,
           standing' \subseteq Folders,
           UNCHANGED <<disk, nextId, nextStage, verb, owned, given>>,
           Executing' /\ at' = "running" => record'.state # "applied",
           CopiesStamped', StagedOnRecord'
    PROVE  Kept'
<1>1. /\ <<>> \in Seq(Items) /\ <<>> \in Seq(Dones) /\ Len(<<>>) = 0
      /\ \A i \in DOMAIN run'.completed : FALSE
  BY EmptySeq DEF Fresh
<1>2. Typed'
  BY <1>1 DEF Kept, Typed, Fresh
<1>3. Sound(disk, nextId)' /\ Cleared' /\ NothingLost'
  BY DEF Kept, Cleared, NothingLost
<1>4. Passes'
  BY <1>1 DEF Kept, Passes, Fresh, Working, Executing, Typed
<1>5. CopiesStand' /\ StagedBefore' /\ StagedNow'
  BY <1>1 DEF CopiesStand, StagedBefore, StagedNow, Fresh
<1> QED
  BY <1>2, <1>3, <1>4, <1>5 DEF Kept

LEMMA NoPassIs ==
    ASSUME run' = NoPass
    PROVE  Fresh /\ run'.todo = <<>> /\ run'.doing = "do"
<1>1. <<>> \in Seq(Items) /\ <<>> \in Todos /\ {} \in SUBSET Folders /\ "do" \in Doings
  BY EmptySeq DEF Todos, Doings
<1>2. /\ run' \in Runs /\ run'.doing = "do" /\ run'.pass = 1 /\ run'.todo = <<>>
      /\ run'.denied = <<>> /\ run'.completed = <<>> /\ run'.first = 0
      /\ run'.staging = 0 /\ run'.stagings = {}
  BY <1>1, PassIs DEF NoPass
<1> QED
  BY <1>1, <1>2 DEF Fresh, Executing

\* An operation that ends: its record is what it did.
LEMMA EndsKeeps ==
    ASSUME Kept, at = "ended", Executing, run' = NoPass, at' \in {"idle", "over"},
           record' = Applied \/ record' = record,
           UNCHANGED <<disk, standing, nextId, nextStage, verb, owned, given>>
    PROVE  Kept'
<1>1. /\ record.state # "applied" /\ ~ Working /\ run \in Runs /\ record \in Recs
      /\ standing \subseteq Folders
  BY DEF Kept, Passes, Typed, Working, Executing
<1>2. Fresh /\ run'.todo = <<>> /\ run'.doing = "do"
  BY NoPassIs
<1>3. /\ Applied \in Recs /\ Applied.state = "applied"
      /\ Applied.completed = run.completed /\ Applied.stagings = run.stagings
  BY <1>1 DEF Applied, Runs, Recs
<1>4. record' \in Recs
  BY <1>1, <1>3
<1>5. CopiesStamped'
  <2>1. verb = "copy" => Stamped(run.completed, Len(run.completed))
    BY <1>1 DEF Kept, CopiesStamped, LastStamped
  <2>2. \A i \in DOMAIN run'.completed : FALSE
    BY <1>2 DEF Fresh
  <2> QED
    BY <1>1, <1>2, <1>3, <2>1, <2>2 DEF CopiesStamped, Stamped
<1>6. StagedOnRecord'
  BY <1>1, <1>3 DEF Kept, StagedOnRecord, StagedBefore, FromBefore, InStage, Displaced
<1> QED
  BY <1>1, <1>2, <1>4, <1>5, <1>6, FreshKeeps

LEMMA RecordsKeeps ==
    ASSUME Kept, Records \/ Redone
    PROVE  Kept'
<1>1. /\ at = "ended" /\ Executing /\ run' = NoPass /\ at' \in {"idle", "over"}
      /\ record' = Applied \/ record' = record
      /\ UNCHANGED <<disk, standing, nextId, nextStage, verb, owned, given>>
  BY DEF Records, Redone, Ended, Executing, SameDisk, diskVars, planVars, userVars
<1> QED
  BY <1>1, EndsKeeps

LEMMA UndoneKeeps ==
    ASSUME Kept, Undone
    PROVE  Kept'
<1>1. /\ at = "ended" /\ at' = "idle" /\ run.doing = "undo" /\ run' = NoPass
      /\ \/ record' = record
         \/ record' = [record EXCEPT !.state = "undone", !.completed = run.completed,
                                     !.stagings = {}]
      /\ UNCHANGED <<disk, standing, nextId, nextStage, verb, owned, given>>
      /\ run.completed \in Seq(Dones) /\ record \in Recs /\ standing \subseteq Folders
  BY DEF Undone, Ended, SameDisk, diskVars, planVars, userVars, Kept, Typed, Runs
<1>2. Fresh /\ run'.todo = <<>> /\ run'.doing = "do"
  BY <1>1, NoPassIs
<1>3. record' \in Recs /\ (record' = record \/ record'.state = "undone")
  BY <1>1 DEF Recs
<1>4. CopiesStamped'
  <2>1. \A i \in DOMAIN run'.completed : FALSE
    BY <1>2 DEF Fresh
  <2> QED
    BY <1>1, <1>2, <1>3, <2>1 DEF Kept, CopiesStamped, Stamped
<1>5. StagedOnRecord'
  BY <1>1, <1>3 DEF Kept, StagedOnRecord, InStage, Displaced
<1> QED
  BY <1>1, <1>2, <1>3, <1>4, <1>5, FreshKeeps

LEMMA UndoBeginsKeeps ==
    ASSUME Kept, UndoBegins
    PROVE  Kept'
<1>1. /\ at = "idle" /\ at' = "running" /\ record.state = "applied"
      /\ run' = Pass("undo", Reverse(record.completed), {})
      /\ record \in Recs /\ record.completed \in Seq(Dones)
      /\ standing' \subseteq Folders
      /\ UNCHANGED <<disk, nextId, nextStage, verb, record, owned, given>>
  BY DEF UndoBegins, UndoOrder, planVars, userVars, Kept, Typed, Recs
<1>2. /\ Reverse(record.completed) \in Seq(Dones)
      /\ Reverse(record.completed) \in Todos /\ "undo" \in Doings /\ {} \in SUBSET Folders
  BY <1>1, ReverseIs DEF Todos, Doings
<1>3. /\ run' \in Runs /\ run'.doing = "undo" /\ run'.pass = 1
      /\ run'.todo = Reverse(record.completed)
      /\ run'.denied = <<>> /\ run'.completed = <<>> /\ run'.first = 0
      /\ run'.staging = 0 /\ run'.stagings = {}
  BY <1>1, <1>2, PassIs
<1>4. Fresh
  BY <1>2, <1>3 DEF Fresh, Executing
<1>5. CopiesStamped'
  <2>1. verb = "copy" => Stamped(record.completed, Len(record.completed))
    BY <1>1 DEF Kept, CopiesStamped
  <2>2. verb = "copy" => \A i \in DOMAIN Reverse(record.completed) :
            OfACopy(Reverse(record.completed)[i].written, disk, owned, nextId)
    <3>1. verb = "copy" => \A i \in 1..Len(record.completed) :
              OfACopy(record.completed[i].written, disk, owned, nextId)
      BY <1>1, <2>1, LenProperties DEF Stamped
    <3> DEFINE cs == record.completed
    <3>2. /\ DOMAIN Reverse(cs) = 1..Len(cs)
          /\ \A i \in 1..Len(cs) : /\ Len(cs) - i + 1 \in 1..Len(cs)
                                   /\ Reverse(cs)[i] = cs[Len(cs) - i + 1]
      BY <1>1, ReverseIs
    <3> SUFFICES ASSUME verb = "copy", NEW i \in DOMAIN Reverse(cs)
                 PROVE  OfACopy(Reverse(cs)[i].written, disk, owned, nextId)
      OBVIOUS
    <3>3. OfACopy(cs[Len(cs) - i + 1].written, disk, owned, nextId)
      BY <3>1, <3>2
    <3> QED
      BY <3>2, <3>3
  <2>3. \A i \in DOMAIN run'.denied : FALSE
    BY <1>3
  <2> QED
    BY <1>1, <1>3, <2>1, <2>2, <2>3 DEF CopiesStamped, Stamped, Executing
<1>6. StagedOnRecord'
  BY <1>1 DEF Kept, StagedOnRecord, InStage, Displaced
<1>7. ~ Executing'
  BY <1>3 DEF Executing
<1> QED
  BY <1>1, <1>4, <1>5, <1>6, <1>7, FreshKeeps

LEMMA RedoPlanIs ==
    ASSUME record \in Recs
    PROVE  RedoPlan \in Seq(Items)
<1> DEFINE done == Reverse(record.completed)
           n    == Len(record.completed)
<1>1. done \in Seq(Dones) /\ DOMAIN done = 1..n /\ n \in Nat /\ Len(done) = n
  BY ReverseIs DEF Recs
<1>2. \A i \in 1..n : done[i] \in Dones
  BY <1>1, ElementOfSeq
<1>3. RedoPlan = [i \in 1..n |-> [src |-> done[i].src, dst |-> done[i].final, folder |-> done[i].folder,
                                  res |-> IF done[i].staged = NoPath THEN "skip" ELSE "replace"]]
  BY <1>1 DEF RedoPlan
<1> HIDE DEF done, n
<1>4. \A i \in 1..n : RedoPlan[i] \in Items
  BY <1>2, <1>3 DEF Items, Dones
<1>5. RedoPlan \in [1..n -> Items]
  BY <1>3, <1>4
<1> QED
  BY <1>1, <1>5, IsSequence

LEMMA RedoBeginsKeeps ==
    ASSUME Kept, RedoBegins
    PROVE  Kept'
<1>1. /\ at = "idle" /\ at' = "running" /\ record.state = "undone" /\ record \in Recs
      /\ run' = Pass("redo", RedoPlan, IF verb = "move" THEN record.pruned ELSE {})
      /\ standing \subseteq Folders
      /\ UNCHANGED <<disk, standing, nextId, nextStage, verb, record, owned, given>>
  BY DEF RedoBegins, planVars, userVars, SameDisk, diskVars, Kept, Typed
<1>2. /\ RedoPlan \in Seq(Items) /\ RedoPlan \in Todos /\ "redo" \in Doings
      /\ (IF verb = "move" THEN record.pruned ELSE {}) \in SUBSET Folders
  BY <1>1, RedoPlanIs DEF Todos, Doings, Recs
<1>3. /\ run' \in Runs /\ run'.doing = "redo" /\ run'.pass = 1
      /\ run'.todo = RedoPlan
      /\ run'.denied = <<>> /\ run'.completed = <<>> /\ run'.first = 0
      /\ run'.staging = 0 /\ run'.stagings = {}
  BY <1>1, <1>2, PassIs
<1>4. Fresh
  BY <1>2, <1>3 DEF Fresh, Executing
<1>5. CopiesStamped' /\ StagedOnRecord'
  <2>1. \A i \in DOMAIN run'.completed : FALSE
    BY <1>3
  <2> QED
    BY <1>1, <1>3, <2>1 DEF CopiesStamped, Stamped, StagedOnRecord
<1> QED
  BY <1>1, <1>4, <1>5, FreshKeeps

\* With the record goes what is staged under it, and all of that was displaced by its items.
LEMMA RetiresKeeps ==
    ASSUME Kept, Retires
    PROVE  Kept'
<1> DEFINE Gone == InStages(disk, record.stagings)
<1>1. /\ at = "idle" /\ at' = "over" /\ record' = NoRecord
      /\ UNCHANGED <<standing, nextId, nextStage, verb, run, owned>>
  BY DEF Retires, planVars
<1>2. \/ disk' = disk /\ given' = given
      \/ /\ record.state = "applied" /\ disk' = Without(disk, Gone)
         /\ given' = given \union {c.displaced : c \in Range(record.completed)}
  BY DEF Retires
<1>3. Sound(disk', nextId) /\ DOMAIN disk' \subseteq DOMAIN disk
      /\ \A p \in DOMAIN disk' : disk'[p] = disk[p]
  <2>1. Sound(Without(disk, Gone), nextId) /\ Drops(disk, Gone, Without(disk, Gone))
    BY WithoutIs DEF Kept
  <2> QED
    BY <1>2, <2>1 DEF Kept, Drops
<1>4. Typed'
  <2>1. NoRecord \in Recs
    BY EmptySeq DEF NoRecord, Recs
  <2> QED
    BY <1>1, <2>1 DEF Kept, Typed, Executing
<1>5. Sound(disk, nextId)' /\ Cleared'
  BY <1>1, <1>3 DEF Cleared
<1>6. Passes'
  BY <1>1, <1>3 DEF Kept, Passes, Working, Executing, NoRecord
<1>7. CopiesStamped' /\ CopiesStand'
  <2>1. \A i \in DOMAIN run'.completed : FALSE
    BY <1>1 DEF Kept, Passes
  <2>2. run.doing = "undo" /\ verb = "copy" => /\ Stamped(run.todo, Len(run.todo))'
                                              /\ Stamped(run.denied, Len(run.denied))'
    BY <1>1, <1>3 DEF Kept, CopiesStamped, Stamped, OfACopy
  <2> QED
    BY <1>1, <2>1, <2>2 DEF CopiesStamped, CopiesStand, Stamped, NoRecord, Working
<1>8. StagedBefore' /\ StagedNow' /\ StagedOnRecord'
  BY <1>1 DEF Kept, Passes, StagedBefore, StagedNow, StagedOnRecord, Working, NoRecord
<1>9. NothingLost'
  <2>1. CASE disk' = disk /\ given' = given
    BY <1>1, <2>1 DEF Kept, NothingLost
  <2>2. CASE /\ record.state = "applied" /\ disk' = Without(disk, Gone)
             /\ given' = given \union {c.displaced : c \in Range(record.completed)}
    <3>1. Drops(disk, Gone, disk')
      BY <2>2, WithoutIs DEF Kept
    <3> SUFFICES ASSUME NEW i \in owned, i \notin given
                 PROVE  \/ i \in {c.displaced : c \in Range(record.completed)}
                        \/ \E p \in DOMAIN disk' : disk'[p].id = i
      BY <1>1, <2>2 DEF NothingLost
    <3>2. PICK p \in DOMAIN disk : disk[p].id = i
      BY DEF Kept, NothingLost
    <3>3. CASE p \in Gone
      <4>1. Displaced(record.completed, Len(record.completed), i)
        BY <2>2, <3>2, <3>3 DEF Kept, StagedOnRecord, InStages, InStage
      <4>2. PICK j \in DOMAIN record.completed : record.completed[j].displaced = i
        BY <4>1 DEF Displaced
      <4>3. record.completed[j] \in Range(record.completed)
        BY DEF Range
      <4> QED
        BY <4>2, <4>3
    <3>4. CASE p \notin Gone
      BY <3>1, <3>2, <3>4 DEF Drops
    <3> QED
      BY <3>3, <3>4
  <2> QED
    BY <1>2, <2>1, <2>2
<1> QED
  BY <1>4, <1>5, <1>6, <1>7, <1>8, <1>9 DEF Kept

--------------------------------------------------------------------------------
(* The user, between the steps of nothing: no pass is under way. *)

LEMMA MeddlesBetween ==
    ASSUME Meddles, Mishaps = {}
    PROVE  /\ at \in {"planned", "idle"}
           /\ UNCHANGED <<verb, at, run, record, nextStage>>
  BY DEF Meddles, planVars

\* Nothing the user does reaches into staging, makes a copy he wrote to look unwritten, or
\* loses what he did not delete.
UserLeaves ==
    /\ Sound(disk', nextId') /\ nextId' \in Nat /\ nextId' >= nextId
    /\ standing' \subseteq Folders
    /\ \A i \in owned' : i \in Nat /\ i < nextId'
    /\ \A p \in DOMAIN disk' :
          p.at = "staging" => p \in DOMAIN disk /\ disk'[p].id = disk[p].id
    /\ \A s \in Stamps : OfACopy(s, disk, owned, nextId) => OfACopy(s, disk', owned', nextId')
    /\ NothingLost'

LEMMA UserKeeps ==
    ASSUME Kept, Meddles, Mishaps = {}, UserLeaves
    PROVE  Kept'
<1>1. /\ at \in {"planned", "idle"}
      /\ UNCHANGED <<verb, at, run, record, nextStage>>
      /\ \A i \in DOMAIN run.completed : FALSE
  BY MeddlesBetween DEF Kept, Passes
<1>2. Typed'
  BY <1>1 DEF Kept, Typed, UserLeaves, Executing
<1>3. Sound(disk, nextId)' /\ Cleared' /\ NothingLost'
  BY <1>1 DEF UserLeaves, Cleared
<1>4. Passes'
  BY <1>1 DEF Kept, Passes, Working, Executing, UserLeaves
<1>5. CopiesStamped'
  <2>1. ASSUME NEW cs \in Seq(Dones), Stamped(cs, Len(cs))
        PROVE  \A i \in DOMAIN cs : OfACopy(cs[i].written, disk', owned', nextId')
    <3> SUFFICES ASSUME NEW i \in DOMAIN cs
                 PROVE  OfACopy(cs[i].written, disk', owned', nextId')
      OBVIOUS
    <3>1. i <= Len(cs) /\ cs[i] \in Dones
      BY LenProperties, ElementOfSeq
    <3>2. cs[i].written \in Stamps /\ OfACopy(cs[i].written, disk, owned, nextId)
      BY <2>1, <3>1 DEF Dones, Stamped
    <3> QED
      BY <3>2 DEF UserLeaves
  <2>2. verb = "copy" /\ record.state = "applied" => Stamped(record.completed, Len(record.completed))'
    BY <1>1, <2>1 DEF Kept, CopiesStamped, Typed, Recs, Stamped
  <2>3. verb = "copy" /\ run.doing = "undo" => /\ Stamped(run.todo, Len(run.todo))'
                                              /\ Stamped(run.denied, Len(run.denied))'
    BY <1>1, <2>1 DEF Kept, CopiesStamped, Typed, Stamped
  <2> QED
    BY <1>1, <2>2, <2>3 DEF CopiesStamped, Stamped
<1>6. CopiesStand' /\ StagedNow'
  BY <1>1 DEF CopiesStand, StagedNow, Working
<1>7. StagedBefore' /\ StagedOnRecord'
  BY <1>1 DEF Kept, Passes, StagedBefore, StagedOnRecord, InStage, UserLeaves
<1> QED
  BY <1>2, <1>3, <1>4, <1>5, <1>6, <1>7 DEF Kept

LEMMA MakesKeeps ==
    ASSUME Kept, Makes, Mishaps = {}
    PROVE  Kept'
<1>1. /\ nextId' = nextId + 1 /\ owned' = owned \union {nextId}
      /\ UNCHANGED <<standing, given>> /\ nextId \in Nat \ {0} /\ standing \subseteq Folders
  BY DEF Makes, Kept, Typed
<1>2. PICK f \in standing \union {"destination"}, nm \in Names :
          ~ Exists(In(f, nm)) /\ disk' = With(disk, In(f, nm), New(nextId, nextId, FALSE))
  BY DEF Makes, New, Exists
<1> DEFINE p == In(f, nm)
           x == New(nextId, nextId, FALSE)
<1>3. p \in Paths /\ p.at # "staging" /\ p \notin DOMAIN disk
  BY <1>1, <1>2, FoldersAssumption DEF In, Paths, Exists
<1>4. x \in Entry /\ x.id = nextId
  BY <1>1 DEF New, Entry
<1>5. Sound(disk', nextId') /\ Adds(disk, p, x, disk')
  <2>1. Sound(disk, nextId) /\ disk' = With(disk, p, x) /\ nextId \in Nat \ {0}
    BY <1>1, <1>2 DEF Kept
  <2> HIDE DEF x, p
  <2>2. Sound(With(disk, p, x), nextId + 1) /\ Adds(disk, p, x, With(disk, p, x))
    BY <1>3, <1>4, <2>1, WithIs
  <2> QED
    BY <1>1, <2>1, <2>2
<1> HIDE DEF x, p
<1>6. \A s \in Stamps : OfACopy(s, disk, owned, nextId) => OfACopy(s, disk', owned', nextId')
  BY <1>1, <1>4, <1>5 DEF OfACopy, Adds, Stamps, Kept, Sound
<1>7. NothingLost'
  BY <1>1, <1>4, <1>5 DEF Kept, NothingLost, Adds
<1>8. \A q \in DOMAIN disk' :
          q.at = "staging" => q \in DOMAIN disk /\ disk'[q].id = disk[q].id
  BY <1>3, <1>5 DEF Adds
<1>9. \A i \in owned' : i \in Nat /\ i < nextId'
  BY <1>1 DEF Kept, Typed
<1>10. nextId' \in Nat /\ nextId' >= nextId /\ standing' \subseteq Folders
  BY <1>1
<1>11. UserLeaves
  BY <1>5, <1>6, <1>7, <1>8, <1>9, <1>10 DEF UserLeaves
<1> QED
  BY <1>11, UserKeeps DEF Makes

LEMMA EditsKeeps ==
    ASSUME Kept, Edits, Mishaps = {}
    PROVE  Kept'
<1>1. PICK p \in Visible :
          /\ disk' = [disk EXCEPT ![p].edited = TRUE, ![p].data = nextId]
          /\ IF disk[p].folder THEN UNCHANGED owned ELSE owned' = owned \union {disk[p].id}
  BY DEF Edits
<1>2. /\ nextId' = nextId + 1 /\ UNCHANGED <<standing, given>>
      /\ nextId \in Nat \ {0} /\ standing \subseteq Folders
  BY DEF Edits, Kept, Typed
<1>3. p \in DOMAIN disk /\ disk[p] \in Entry /\ IsFiniteSet(DOMAIN disk)
  BY DEF Visible, Kept, Sound
<1>4. /\ DOMAIN disk' = DOMAIN disk
      /\ disk'[p] = [disk[p] EXCEPT !.edited = TRUE, !.data = nextId]
      /\ \A q \in DOMAIN disk : q # p => disk'[q] = disk[q]
  BY <1>1, <1>3
<1>5. disk'[p] \in Entry /\ disk'[p].edited /\ disk'[p].id = disk[p].id
      /\ disk'[p].folder = disk[p].folder
  BY <1>2, <1>3, <1>4 DEF Entry
<1>6. \A q \in DOMAIN disk : /\ disk'[q].id = disk[q].id /\ disk'[q].folder = disk[q].folder
                             /\ disk'[q] \in Entry
                             /\ disk[q].id \in Nat /\ disk[q].id < nextId
                             /\ q # p => disk'[q].edited = disk[q].edited /\ disk[q].id # disk[p].id
  BY <1>3, <1>4, <1>5 DEF Kept, Sound, Entry
<1>7. Sound(disk', nextId')
  BY <1>2, <1>4, <1>6 DEF Kept, Sound
<1>8. \A s \in Stamps : OfACopy(s, disk, owned, nextId) => OfACopy(s, disk', owned', nextId')
  <2> SUFFICES ASSUME NEW s \in Stamps, OfACopy(s, disk, owned, nextId)
               PROVE  OfACopy(s, disk', owned', nextId')
    OBVIOUS
  <2>1. ASSUME NEW q \in DOMAIN disk', disk'[q].id = s.id, disk'[q].id \in owned'
        PROVE  disk'[q].edited /\ ~ disk'[q].folder
    <3>1. CASE q = p
      BY <1>1, <1>4, <1>5, <2>1, <3>1 DEF OfACopy
    <3>2. CASE q # p
      <4>1. q \in DOMAIN disk /\ disk[q].id = s.id /\ disk[q].id \in owned
        BY <1>1, <1>4, <1>6, <2>1, <3>2
      <4>2. disk[q].edited /\ ~ disk[q].folder
        BY <4>1 DEF OfACopy
      <4> QED
        BY <1>4, <3>2, <4>1, <4>2
    <3> QED
      BY <3>1, <3>2
  <2> QED
    BY <1>2, <2>1 DEF OfACopy, Stamps
<1>9. NothingLost'
  BY <1>1, <1>2, <1>3, <1>4, <1>6 DEF Kept, NothingLost
<1>10. \A i \in owned' : i \in Nat /\ i < nextId'
  <2>1. \A i \in owned : i \in Nat /\ i < nextId
    BY DEF Kept, Typed
  <2>2. disk[p].id \in Nat /\ disk[p].id < nextId
    BY <1>3, <1>6
  <2>3. \A i \in owned' : i \in owned \/ i = disk[p].id
    BY <1>1
  <2> QED
    BY <1>2, <2>1, <2>2, <2>3
<1>11. UserLeaves
  BY <1>2, <1>4, <1>6, <1>7, <1>8, <1>9, <1>10 DEF UserLeaves
<1> QED
  BY <1>11, UserKeeps DEF Edits

\* He deletes some of what is not staged.
LEMMA RemovalKeeps ==
    ASSUME Kept, Meddles, Mishaps = {},
           NEW ps \in SUBSET DOMAIN disk,
           disk' = Without(disk, ps),
           given' = given \union {disk[p].id : p \in ps},
           standing' \subseteq Folders, UNCHANGED <<nextId, owned>>
    PROVE  Kept'
<1>1. Sound(disk', nextId) /\ Drops(disk, ps, disk')
  BY WithoutIs DEF Kept
<1>2. \A s \in Stamps : OfACopy(s, disk, owned, nextId) => OfACopy(s, disk', owned', nextId')
  BY <1>1 DEF OfACopy, Drops
<1>3. NothingLost'
  <2> SUFFICES ASSUME NEW i \in owned, i \notin given, i \notin {disk[p].id : p \in ps}
               PROVE  \E p \in DOMAIN disk' : disk'[p].id = i
    BY DEF NothingLost
  <2>1. PICK p \in DOMAIN disk : disk[p].id = i
    BY DEF Kept, NothingLost
  <2> QED
    BY <1>1, <2>1 DEF Drops
<1>4. \A q \in DOMAIN disk' :
          q.at = "staging" => q \in DOMAIN disk /\ disk'[q].id = disk[q].id
  BY <1>1 DEF Drops
<1>5. nextId' \in Nat /\ nextId' >= nextId /\ \A i \in owned' : i \in Nat /\ i < nextId'
  BY DEF Kept, Typed
<1>6. UserLeaves
  BY <1>1, <1>2, <1>3, <1>4, <1>5 DEF UserLeaves
<1> QED
  BY <1>6, UserKeeps

LEMMA DeletesKeeps ==
    ASSUME Kept, Deletes \/ RemovesFolder, Mishaps = {}
    PROVE  Kept'
<1>1. CASE Deletes
  <2>1. PICK p \in Visible : disk' = Without(disk, {p}) /\ given' = given \union {disk[p].id}
    BY <1>1 DEF Deletes
  <2>2. {p} \in SUBSET DOMAIN disk /\ {disk[q].id : q \in {p}} = {disk[p].id}
    BY <2>1 DEF Visible
  <2>3. Meddles /\ standing' \subseteq Folders /\ UNCHANGED <<nextId, owned>>
    BY <1>1 DEF Deletes, Kept, Typed
  <2> QED
    BY <2>1, <2>2, <2>3, RemovalKeeps
<1>2. CASE RemovesFolder
  <2>1. PICK f \in standing : /\ standing' = standing \ {f}
                              /\ disk' = Without(disk, InFolder(disk, f))
                              /\ given' = given \union {disk[p].id : p \in InFolder(disk, f)}
    BY <1>2 DEF RemovesFolder
  <2>2. InFolder(disk, f) \in SUBSET DOMAIN disk
    BY DEF InFolder
  <2>3. Meddles /\ standing' \subseteq Folders /\ UNCHANGED <<nextId, owned>>
    BY <1>2, <2>1 DEF RemovesFolder, Kept, Typed
  <2> QED
    BY <2>1, <2>2, <2>3, RemovalKeeps
<1> QED
  BY <1>1, <1>2

--------------------------------------------------------------------------------
(* The first state. *)

LEMMA SetToSeqIs ==
    ASSUME NEW S, IsFiniteSet(S)
    PROVE  /\ Cardinality(S) \in Nat
           /\ SetToSeq(S) \in [1..Cardinality(S) -> S]
           /\ \A i, j \in 1..Cardinality(S) : SetToSeq(S)[i] = SetToSeq(S)[j] => i = j
           /\ \A x \in S : \E i \in 1..Cardinality(S) : SetToSeq(S)[i] = x
<1> DEFINE n == Cardinality(S)
           q == SetToSeq(S)
<1>1. n \in Nat /\ ExistsBijection(1..n, S)
  BY FS_CardinalityType
<1>2. PICK g : g \in Bijection(1..n, S)
  BY <1>1 DEF ExistsBijection
<1>3. g \in [1..n -> S] /\ IsInjective(g)
  BY <1>2 DEF Bijection, Injection, IsInjective
<1>4. q \in [1..n -> S] /\ IsInjective(q)
  BY <1>3 DEF SetToSeq
<1>5. \A i, j \in 1..n : q[i] = q[j] => i = j
  BY <1>4 DEF IsInjective
<1>6. IsFiniteSet(1..n) /\ Cardinality(1..n) = n
  <2>1. 1 \in Int /\ n \in Int /\ (IF 1 > n THEN 0 ELSE n - 1 + 1) = n
    BY <1>1
  <2> HIDE DEF n
  <2> QED
    BY <2>1, FS_Interval
<1>7. q \in Surjection(1..n, S)
  <2>1. q \in Injection(1..n, S)
    BY <1>4, <1>5 DEF Injection, IsInjective
  <2> HIDE DEF q
  <2> QED
    BY <1>6, <2>1, FS_Injection
<1>8. \A x \in S : \E i \in 1..n : q[i] = x
  BY <1>7 DEF Surjection
<1> QED
  BY <1>1, <1>4, <1>5, <1>8

\* Where something can be before the operation.
Places == {In(f, nm) : f \in Folders \union {"destination"}, nm \in Names}

LEMMA FinitelyManyPlaces == IsFiniteSet(Places) /\ Places \subseteq Paths
<1> DEFINE F == Folders \union {"destination"}
           g == [fn \in F \X Names |-> In(fn[1], fn[2])]
<1>1. IsFiniteSet(F \X Names)
  BY FS_AddElement, FS_Product, FoldersAssumption
<1>2. \A x \in Places : \E fn \in F \X Names : g[fn] = x
  <2> SUFFICES ASSUME NEW x \in Places
               PROVE  \E fn \in F \X Names : g[fn] = x
    OBVIOUS
  <2>1. PICK f \in F, nm \in Names : x = In(f, nm)
    BY DEF Places
  <2>2. <<f, nm>> \in F \X Names /\ g[<<f, nm>>] = In(f, nm)
    OBVIOUS
  <2> QED
    BY <2>1, <2>2
<1>3. \A fn \in F \X Names : g[fn] \in Places
  BY DEF Places
<1>4. g \in Surjection(F \X Names, Places)
  BY <1>2, <1>3 DEF Surjection
<1>5. IsFiniteSet(Places)
  <2> HIDE DEF g, F
  <2> QED
    BY <1>1, <1>4, FS_Surjection
<1>6. Places \subseteq Paths
  BY DEF Places, In, Paths
<1> QED
  BY <1>5, <1>6

\* The entries that are there have the first ids, one each.
LEMMA FirstDisk ==
    ASSUME NEW taken \in SUBSET Places, NEW dirs,
           NEW d, d = AsFound(taken, dirs)
    PROVE  /\ Cardinality(taken) \in Nat
           /\ Sound(d, Cardinality(taken) + 1)
           /\ \A i \in 1..Cardinality(taken) : \E p \in DOMAIN d : d[p].id = i
           /\ DOMAIN d = taken
<1> DEFINE n    == Cardinality(taken)
           all  == SetToSeq(taken)
           k(p) == CHOOSE j \in DOMAIN all : all[j] = p
<1>1. IsFiniteSet(taken)
  BY FinitelyManyPlaces, FS_Subset
<1>2. /\ n \in Nat /\ all \in [1..n -> taken]
      /\ \A i, j \in 1..n : all[i] = all[j] => i = j
      /\ \A p \in taken : \E i \in 1..n : all[i] = p
  BY <1>1, SetToSeqIs
<1> HIDE DEF n, all
<1>3. \A p \in taken : k(p) \in 1..n /\ all[k(p)] = p
  BY <1>2
<1>4. /\ DOMAIN d = taken
      /\ \A p \in taken : d[p] = [id |-> k(p), data |-> k(p), folder |-> p \in dirs, edited |-> FALSE]
  BY DEF AsFound, all
<1>5. \A p \in taken : k(p) \in Nat
  BY <1>2, <1>3
<1> HIDE DEF k
<1>6. \A p \in DOMAIN d : d[p] \in Entry /\ d[p].id = k(p)
  <2> SUFFICES ASSUME NEW p \in taken PROVE d[p] \in Entry /\ d[p].id = k(p)
    BY <1>4
  <2>1. (p \in dirs) \in BOOLEAN
    OBVIOUS
  <2>2. d[p] = [id |-> k(p), data |-> k(p), folder |-> p \in dirs, edited |-> FALSE]
    BY <1>4, Zenon
  <2> QED
    BY <1>5, <2>1, <2>2 DEF Entry
<1>7. \A p \in DOMAIN d : p \in Paths /\ d[p] \in Entry /\ d[p].id > 0 /\ d[p].id < n + 1
  BY <1>2, <1>3, <1>4, <1>6, FinitelyManyPlaces
<1>8. \A p, q \in DOMAIN d : d[p].id = d[q].id => p = q
  BY <1>3, <1>4, <1>6
<1>9. \A i \in 1..n : \E p \in DOMAIN d : d[p].id = i
  <2> SUFFICES ASSUME NEW i \in 1..n PROVE \E p \in DOMAIN d : d[p].id = i
    OBVIOUS
  <2>1. all[i] \in taken /\ all[k(all[i])] = all[i] /\ k(all[i]) \in 1..n
    BY <1>2, <1>3
  <2>2. k(all[i]) = i
    BY <1>2, <2>1
  <2> QED
    BY <1>4, <1>6, <2>1, <2>2
<1> QED
  BY <1>1, <1>2, <1>4, <1>7, <1>8, <1>9 DEF Sound, n

LEMMA InitKeeps ==
    ASSUME Init
    PROVE  Kept
<1>1. PICK from \in SUBSET {In(f, nm) : f \in Folders, nm \in Names},
           there \in SUBSET {In("destination", nm) : nm \in Names} :
        Begins(from, there)
  BY DEF Init
<1>2. PICK todo \in Planned(SetToSeq(from), disk) :
          run = Pass("do", todo, IF merged /\ verb = "move" THEN standing ELSE {})
  BY <1>1 DEF Begins
<1>3. PICK dirs \in SUBSET (from \union there) : disk = AsFound(from \union there, dirs)
  BY <1>1 DEF Begins
<1> DEFINE n == Cardinality(from \union there)
<1>4. from \subseteq Places /\ there \subseteq Places /\ from \union there \in SUBSET Places
  BY DEF Places
<1>5. /\ n \in Nat /\ Sound(disk, nextId)
      /\ \A i \in 1..n : \E p \in DOMAIN disk : disk[p].id = i
      /\ DOMAIN disk = from \union there
  <2> DEFINE taken == from \union there
  <2>1. /\ taken \in SUBSET Places /\ disk = AsFound(taken, dirs)
        /\ nextId = Cardinality(taken) + 1
    BY <1>1, <1>3, <1>4 DEF Begins
  <2> HIDE DEF taken
  <2>2. /\ Cardinality(taken) \in Nat /\ Sound(disk, Cardinality(taken) + 1)
        /\ \A i \in 1..Cardinality(taken) : \E p \in DOMAIN disk : disk[p].id = i
        /\ DOMAIN disk = taken
    BY <2>1, FirstDisk
  <2>3. n = Cardinality(taken)
    BY DEF taken
  <2>4. DOMAIN disk = from \union there
    BY <2>2 DEF taken
  <2>5. Sound(disk, nextId)
    BY <2>1, <2>2
  <2> HIDE DEF n
  <2>6. n \in Nat /\ \A i \in 1..n : \E p \in DOMAIN disk : disk[p].id = i
    BY <2>2, <2>3
  <2> QED
    BY <2>4, <2>5, <2>6
<1> HIDE DEF n
<1>6. at = "planned" /\ record = NoRecord /\ nextStage = 1 /\ nextId = n + 1 /\ owned = 1..n
      /\ verb \in {"move", "copy"}
  BY <1>1 DEF Init, Begins, n
<1>7. \A p \in DOMAIN disk : p.at # "staging"
  BY <1>4, <1>5, FoldersAssumption DEF Places, In
<1>8. from \subseteq Sources /\ standing \subseteq Folders
  <2>1. \A p \in from : p \in Paths /\ p.at \in Folders
    BY <1>4, FinitelyManyPlaces DEF In
  <2> QED
    BY <1>1, <2>1 DEF Sources, Begins
<1>9. todo \in Seq(Items)
  <2> DEFINE m == Cardinality(from)
             q == SetToSeq(from)
  <2>1. m \in Nat /\ q \in [1..m -> from]
    BY <1>4, SetToSeqIs, FinitelyManyPlaces, FS_Subset
  <2> HIDE DEF m, q
  <2>2. /\ DOMAIN todo = DOMAIN q
        /\ todo \in [DOMAIN q -> [src : Range(q), dst : {In("destination", nm) : nm \in Names},
                                  folder : BOOLEAN, res : {"skip", "both", "replace"}]]
    BY <1>2 DEF Planned, q
  <2>3. Range(q) \subseteq Sources
    BY <1>8, <2>1 DEF Range
  <2>4. {In("destination", nm) : nm \in Names} \subseteq Targets
    BY DEF In, Targets, Paths
  <2>5. todo \in [1..m -> Items]
    BY <2>1, <2>2, <2>3, <2>4 DEF Items
  <2> QED
    BY <2>1, <2>5, IsSequence
<1>10. /\ run \in Runs /\ run.doing = "do" /\ run.pass = 1 /\ run.todo = todo
      /\ run.denied = <<>> /\ run.completed = <<>> /\ run.first = 0
      /\ run.staging = 0 /\ run.stagings = {}
  <2>1. /\ "do" \in Doings /\ todo \in Todos
        /\ (IF merged /\ verb = "move" THEN standing ELSE {}) \in SUBSET Folders
    BY <1>8, <1>9 DEF Doings, Todos
  <2> QED
    BY <1>2, <2>1, PassIs
<1>11. NoRecord \in Recs /\ <<>> \in Seq(Items) /\ Len(<<>>) = 0
       /\ \A i \in DOMAIN run.completed : FALSE
  BY <1>10, EmptySeq DEF NoRecord, Recs
<1>12. Typed
  BY <1>5, <1>6, <1>8, <1>9, <1>10, <1>11 DEF Typed, Executing
<1>13. Cleared /\ Passes
  BY <1>6, <1>7, <1>10, <1>11 DEF Cleared, Passes, Working, Executing, NoRecord
<1>14. CopiesStamped /\ CopiesStand /\ StagedBefore /\ StagedNow /\ StagedOnRecord
  BY <1>6, <1>10, <1>11
     DEF CopiesStamped, Stamped, CopiesStand, StagedBefore, StagedNow, StagedOnRecord, Working, NoRecord
<1>15. NothingLost
  BY <1>5, <1>6 DEF NothingLost
<1> QED
  BY <1>5, <1>12, <1>13, <1>14, <1>15 DEF Kept

--------------------------------------------------------------------------------

LEMMA NextKeeps ==
    ASSUME Kept, [Next]_vars, Mishaps = {}
    PROVE  Kept'
<1>1. CASE Stops \/ Missing \/ Refused \/ Skips
  BY <1>1, LeavesItemKeeps
<1>2. CASE Displaces
  BY <1>2, DisplacesKeeps
<1>3. CASE Numbers
  BY <1>3, NumbersKeeps
<1>4. CASE Written
  BY <1>4, WrittenKeeps
<1>5. CASE WriteFails \/ WriteCancelled
  BY <1>5, WriteEndsKeeps
<1>6. CASE MoveBack
  BY <1>6, MoveBackKeeps
<1>7. CASE StaysMoved \/ CopyStays
  BY <1>7, LeavesItemKeeps
<1>8. CASE RemoveCopy
  BY <1>8, RemoveCopyKeeps
<1>9. CASE Starts
  BY <1>9, StartsKeeps
<1>10. CASE Prunes
  BY <1>10, PrunesKeeps
<1>11. CASE Declined
  BY <1>11, DeclinedKeeps
<1>12. CASE Accepted
  BY <1>12, AcceptedKeeps
<1>13. CASE HelperAnswers
  BY <1>13, HelperAnswersKeeps
<1>14. CASE HelperLost
  BY <1>14, HelperLostKeeps
<1>15. CASE Records \/ Redone
  BY <1>15, RecordsKeeps
<1>16. CASE UndoBegins
  BY <1>16, UndoBeginsKeeps
<1>17. CASE Undone
  BY <1>17, UndoneKeeps
<1>18. CASE RedoBegins
  BY <1>18, RedoBeginsKeeps
<1>19. CASE Retires
  BY <1>19, RetiresKeeps
<1>20. CASE Makes
  BY <1>20, MakesKeeps
<1>21. CASE Edits
  BY <1>21, EditsKeeps
<1>22. CASE Deletes \/ RemovesFolder
  BY <1>22, DeletesKeeps
<1>23. CASE UNCHANGED vars
  <2>1. UNCHANGED <<disk, standing, nextId, nextStage, verb, at, run, record, owned, given>>
    BY <1>23 DEF vars, diskVars, runVars, historyVars, userVars
  <2>2. Typed' /\ Sound(disk, nextId)' /\ Cleared' /\ Passes'
    BY <2>1 DEF Kept, Typed, Executing, Cleared, Passes, Working
  <2>3. CopiesStamped' /\ CopiesStand'
    BY <2>1 DEF Kept, CopiesStamped, Stamped, LastStamped, CopiesStand, Untouched, Working, Executing
  <2>4. StagedBefore' /\ StagedNow' /\ StagedOnRecord' /\ NothingLost'
    BY <2>1 DEF Kept, StagedBefore, FromBefore, StagedNow, InStage, StagedOnRecord, Working, NothingLost
  <2> QED
    BY <2>2, <2>3, <2>4 DEF Kept
<1> QED
  BY <1>1, <1>2, <1>3, <1>4, <1>5, <1>6, <1>7, <1>8, <1>9, <1>10, <1>11, <1>12, <1>13, <1>14,
     <1>15, <1>16, <1>17, <1>18, <1>19, <1>20, <1>21, <1>22, <1>23
     DEF Next, App, Execute, Undo, User

\* Of any number of items, in any folders and with any names, moved or copied over what is in
\* the way, refused, cancelled, tried again with a helper that may be lost, undone, done again
\* and retired, with the user changing what he likes in between: nothing he made or wrote is
\* gone but what he deleted or gave up for good.  With any of AllMishaps it is not so.
THEOREM NothingIsLost ==
    ASSUME Mishaps = {}
    PROVE  Spec => []NothingLost
<1>1. Init => Kept
  BY InitKeeps
<1>2. Kept /\ [Next]_vars => Kept'
  BY NextKeeps
<1>3. Kept => NothingLost
  BY DEF Kept
<1> QED
  BY <1>1, <1>2, <1>3, PTL DEF Spec

--------------------------------------------------------------------------------
(* What an item makes of the disk, and how it is taken back. *)

IsMap(d) == d = [p \in DOMAIN d |-> d[p]]

\* What is in the way is staged; then the item lands.
Clears(d, to, staged, m) ==
    IF staged = NoPath THEN to \notin DOMAIN d /\ m = d
    ELSE /\ to \in DOMAIN d /\ staged \notin DOMAIN d /\ staged.at = "staging"
         /\ m = Renamed(d, to, staged)
Comes(m, src, to, e) ==
    /\ src \in DOMAIN m
    /\ IF verb = "move" THEN e = Renamed(m, src, to)
       ELSE \E x : x.data = m[src].data /\ e = With(m, to, x)
Lands(d, c, e) == IsMap(d) /\ \E m : Clears(d, c.final, c.staged, m) /\ Comes(m, c.src, c.final, e)

LEMMA RenamedMap ==
    ASSUME NEW d, NEW p \in DOMAIN d, NEW q, q \notin DOMAIN d
    PROVE  /\ IsMap(Renamed(d, p, q)) /\ Moves(d, p, q, Renamed(d, p, q))
           /\ IsMap(d) => Renamed(Renamed(d, p, q), q, p) = d
<1> DEFINE e == Renamed(d, p, q)
           r == Renamed(e, q, p)
<1>1. /\ e = [x \in (DOMAIN d \ {p}) \union {q} |-> IF x = q THEN d[p] ELSE d[x]]
      /\ DOMAIN e = (DOMAIN d \ {p}) \union {q}
  BY DEF Renamed, With, Without, Restrict
<1>2. IsMap(e)
  BY <1>1, Zenon DEF IsMap
<1>3. e[q] = d[p] /\ \A x \in DOMAIN d : x # p => e[x] = d[x]
  BY <1>1
<1>4. /\ r = [x \in (DOMAIN e \ {q}) \union {p} |-> IF x = p THEN e[q] ELSE e[x]]
      /\ DOMAIN r = (DOMAIN e \ {q}) \union {p}
  BY DEF Renamed, With, Without, Restrict
<1> HIDE DEF e, r
<1>5. DOMAIN r = DOMAIN d
  BY <1>1, <1>4
<1>6. \A x \in DOMAIN d : r[x] = d[x]
  BY <1>1, <1>3, <1>4
<1>7. IsMap(d) => r = d
  <2>1. r = [x \in DOMAIN r |-> r[x]]
    BY <1>4, Zenon
  <2>2. [x \in DOMAIN r |-> r[x]] = [x \in DOMAIN d |-> d[x]]
    BY <1>5, <1>6
  <2> QED
    BY <2>1, <2>2 DEF IsMap
<1>8. Moves(d, p, q, e)
  BY <1>1, <1>3 DEF Moves
<1> QED
  BY <1>2, <1>7, <1>8 DEF e, r

LEMMA WithMap ==
    ASSUME NEW d, NEW q, q \notin DOMAIN d, NEW x
    PROVE  /\ IsMap(With(d, q, x)) /\ Adds(d, q, x, With(d, q, x))
           /\ IsMap(d) => Without(With(d, q, x), {q}) = d
<1> DEFINE e == With(d, q, x)
           r == Without(e, {q})
<1>1. /\ e = [p \in DOMAIN d \union {q} |-> IF p = q THEN x ELSE d[p]]
      /\ DOMAIN e = DOMAIN d \union {q}
  BY DEF With
<1>2. IsMap(e)
  BY <1>1, Zenon DEF IsMap
<1>3. e[q] = x /\ \A p \in DOMAIN d : e[p] = d[p]
  BY <1>1
<1>4. r = [p \in DOMAIN e \ {q} |-> e[p]] /\ DOMAIN r = DOMAIN e \ {q}
  BY DEF Without, Restrict
<1> HIDE DEF e, r
<1>5. DOMAIN r = DOMAIN d
  BY <1>1, <1>4
<1>6. IsMap(d) => r = d
  <2>1. [p \in DOMAIN e \ {q} |-> e[p]] = [p \in DOMAIN d |-> d[p]]
    BY <1>1, <1>3
  <2> QED
    BY <1>4, <2>1 DEF IsMap
<1>7. Adds(d, q, x, e)
  BY <1>1, <1>3 DEF Adds
<1> QED
  BY <1>2, <1>6, <1>7 DEF e, r

\* The names an item stands at before and after, and where the entry in the way is kept.
LEMMA PlacesApart ==
    ASSUME NEW c \in Dones
    PROVE  /\ c.src.at \in Folders /\ c.final.at = "destination" /\ c.src # c.final
           /\ c.src \in Paths /\ c.final \in Paths /\ c.src.at # "staging" /\ c.final.at # "staging"
           /\ c.staged.at = "staging" => c.staged # c.src /\ c.staged # c.final
  BY FoldersAssumption DEF Dones, Sources, Targets

\* An item that has landed, and what it leaves of the disk.
LEMMA LandsIs ==
    ASSUME NEW d, NEW c \in Dones, NEW e, Lands(d, c, e)
    PROVE  /\ IsMap(e) /\ c.final \in DOMAIN e /\ c.src \in DOMAIN d
           /\ c.staged # NoPath => c.staged.at = "staging" /\ c.staged \in DOMAIN e /\ c.staged \notin DOMAIN d
           /\ c.staged # NoPath <=> c.final \in DOMAIN d
           /\ e[c.final].data = d[c.src].data
           /\ verb = "move" => c.src \notin DOMAIN e
           /\ \A p : p # c.src /\ p # c.final /\ (c.staged = NoPath \/ p # c.staged) =>
                  (p \in DOMAIN e <=> p \in DOMAIN d) /\ (p \in DOMAIN d => e[p] = d[p])
           /\ verb # "move" => c.src \in DOMAIN e /\ e[c.src] = d[c.src]
<1>1. PICK m : Clears(d, c.final, c.staged, m) /\ Comes(m, c.src, c.final, e)
  BY DEF Lands
<1>2. /\ c.src # c.final
      /\ c.staged.at = "staging" => c.staged # c.src /\ c.staged # c.final
  BY PlacesApart
<1>3. CASE c.staged = NoPath
  <2>1. c.final \notin DOMAIN d /\ m = d /\ c.src \in DOMAIN d
    BY <1>1, <1>3 DEF Clears, Comes
  <2>2. CASE verb = "move"
    <3>1. IsMap(e) /\ Moves(d, c.src, c.final, e)
      BY <1>1, <2>1, <2>2, RenamedMap DEF Comes
    <3> QED
      BY <1>2, <1>3, <2>1, <2>2, <3>1 DEF Moves
  <2>3. CASE verb # "move"
    <3>1. PICK x : x.data = d[c.src].data /\ e = With(d, c.final, x)
      BY <1>1, <2>1, <2>3 DEF Comes
    <3>2. IsMap(e) /\ Adds(d, c.final, x, e)
      BY <2>1, <3>1, WithMap
    <3> QED
      BY <1>2, <1>3, <2>1, <2>3, <3>1, <3>2 DEF Adds
  <2> QED
    BY <2>2, <2>3
<1>4. CASE c.staged # NoPath
  <2>1. /\ c.final \in DOMAIN d /\ c.staged \notin DOMAIN d /\ c.staged.at = "staging"
        /\ m = Renamed(d, c.final, c.staged) /\ c.src \in DOMAIN m
    BY <1>1, <1>4 DEF Clears, Comes
  <2>2. Moves(d, c.final, c.staged, m)
    BY <2>1, RenamedMap
  <2>3. /\ DOMAIN m = (DOMAIN d \ {c.final}) \union {c.staged} /\ c.final \notin DOMAIN m
        /\ c.src \in DOMAIN d /\ m[c.src] = d[c.src] /\ m[c.staged] = d[c.final]
    BY <1>2, <2>1, <2>2 DEF Moves
  <2>4. CASE verb = "move"
    <3>1. IsMap(e) /\ Moves(m, c.src, c.final, e)
      BY <1>1, <2>1, <2>3, <2>4, RenamedMap DEF Comes
    <3> QED
      BY <1>2, <1>4, <2>1, <2>2, <2>3, <2>4, <3>1 DEF Moves
  <2>5. CASE verb # "move"
    <3>1. PICK x : x.data = m[c.src].data /\ e = With(m, c.final, x)
      BY <1>1, <2>5 DEF Comes
    <3>2. IsMap(e) /\ Adds(m, c.final, x, e)
      BY <2>3, <3>1, WithMap
    <3> QED
      BY <1>2, <1>4, <2>1, <2>2, <2>3, <2>5, <3>1, <3>2 DEF Adds, Moves
  <2> QED
    BY <2>4, <2>5
<1> QED
  BY <1>3, <1>4

\* What the user sees.
Shows(d, p, x) == p \in DOMAIN d /\ p.at # "staging" /\ d[p].data = x

LEMMA LooksAre == \A d, p, x : <<p, x>> \in Looks(d) <=> Shows(d, p, x)
  BY DEF Looks, Shows

LEMMA LooksSame ==
    ASSUME NEW d, NEW e
    PROVE  Looks(d) = Looks(e) <=> \A p, x : Shows(d, p, x) <=> Shows(e, p, x)
<1>1. ASSUME Looks(d) = Looks(e) PROVE \A p, x : Shows(d, p, x) <=> Shows(e, p, x)
  BY <1>1, LooksAre
<1>2. ASSUME \A p, x : Shows(d, p, x) <=> Shows(e, p, x) PROVE Looks(d) = Looks(e)
  <2>1. \A y \in Looks(d) : \E p, x : y = <<p, x>> /\ Shows(d, p, x)
    BY DEF Looks, Shows
  <2>2. \A y \in Looks(e) : \E p, x : y = <<p, x>> /\ Shows(e, p, x)
    BY DEF Looks, Shows
  <2> QED
    BY <1>2, <2>1, <2>2, LooksAre
<1> QED
  BY <1>1, <1>2

LEMMA LandShows ==
    ASSUME NEW d, NEW c \in Dones, NEW e, Lands(d, c, e)
    PROVE  /\ \A x : Shows(e, c.final, x) <=> Shows(d, c.src, x)
           /\ \A x : Shows(e, c.src, x) <=> verb # "move" /\ Shows(d, c.src, x)
           /\ \A p, x : p # c.final /\ p # c.src => (Shows(e, p, x) <=> Shows(d, p, x))
<1>1. c.src # c.final /\ c.src.at # "staging" /\ c.final.at # "staging"
  BY PlacesApart
<1>2. \A x : Shows(e, c.final, x) <=> Shows(d, c.src, x)
  BY <1>1, LandsIs DEF Shows
<1>3. \A x : Shows(e, c.src, x) <=> verb # "move" /\ Shows(d, c.src, x)
  <2>1. CASE verb = "move"
    BY <2>1, LandsIs DEF Shows
  <2>2. CASE verb # "move"
    <3>1. c.src \in DOMAIN e /\ e[c.src] = d[c.src] /\ c.src \in DOMAIN d
      BY <2>2, LandsIs
    <3> QED
      BY <2>2, <3>1 DEF Shows
  <2> QED
    BY <2>1, <2>2
<1>4. ASSUME NEW p, NEW x, p # c.final, p # c.src
      PROVE  Shows(e, p, x) <=> Shows(d, p, x)
  <2>1. CASE c.staged # NoPath /\ p = c.staged
    <3>1. p.at = "staging"
      BY <2>1, LandsIs
    <3> QED
      BY <3>1 DEF Shows
  <2>2. CASE c.staged = NoPath \/ p # c.staged
    <3>1. (p \in DOMAIN e <=> p \in DOMAIN d) /\ (p \in DOMAIN d => e[p] = d[p])
      BY <1>4, <2>2, LandsIs
    <3> QED
      BY <3>1 DEF Shows
  <2> QED
    BY <2>1, <2>2
<1> QED
  BY <1>2, <1>3, <1>4

\* The same item makes the same of what looks the same.
LEMMA LandsAlike ==
    ASSUME NEW c \in Dones, NEW c2 \in Dones, c2.src = c.src, c2.final = c.final,
           NEW d, NEW d2, NEW e, NEW e2, Lands(d, c, e), Lands(d2, c2, e2), Looks(d) = Looks(d2)
    PROVE  Looks(e) = Looks(e2)
<1>1. \A p, x : Shows(d, p, x) <=> Shows(d2, p, x)
  BY LooksSame
<1>2. ASSUME NEW p, NEW x PROVE Shows(e, p, x) <=> Shows(e2, p, x)
  <2>1. CASE p = c.final
    BY <1>1, <2>1, LandShows
  <2>2. CASE p = c.src
    BY <1>1, <2>2, LandShows
  <2>3. CASE p # c.final /\ p # c.src
    BY <1>1, <2>3, LandShows
  <2> QED
    BY <2>1, <2>2, <2>3
<1> QED
  BY <1>2, LooksSame

LEMMA ClearsIs ==
    ASSUME NEW d, IsMap(d), NEW to, NEW staged, NEW m, Clears(d, to, staged, m)
    PROVE  IsMap(m) /\ to \notin DOMAIN m /\ (staged # NoPath => staged \in DOMAIN m)
<1>1. CASE staged = NoPath
  BY <1>1 DEF Clears
<1>2. CASE staged # NoPath
  <2>1. /\ to \in DOMAIN d /\ staged \notin DOMAIN d /\ m = Renamed(d, to, staged)
    BY <1>2 DEF Clears
  <2>2. IsMap(m) /\ Moves(d, to, staged, m)
    BY <2>1, RenamedMap
  <2> QED
    BY <2>1, <2>2 DEF Moves
<1> QED
  BY <1>1, <1>2

\* What was in the way goes back.
LEMMA ClearsBack ==
    ASSUME Mishaps = {}, NEW d, IsMap(d), NEW to, NEW staged, NEW m, Clears(d, to, staged, m),
           NEW f, PutBack(m, staged, to, f)
    PROVE  f = d
<1>1. CASE staged = NoPath
  BY <1>1 DEF Clears, PutBack
<1>2. CASE staged # NoPath
  <2>1. staged \in DOMAIN m /\ to \notin DOMAIN m
    BY <1>2, ClearsIs
  <2>2. f = Renamed(m, staged, to)
    BY <1>2, <2>1 DEF PutBack
  <2> QED
    BY <1>2, <2>2, RenamedMap DEF Clears
<1> QED
  BY <1>1, <1>2

\* An item that is taken back leaves what was there before it.
LEMMA MovesBack ==
    ASSUME Mishaps = {}, verb = "move", NEW d, NEW c \in Dones, NEW e, Lands(d, c, e),
           NEW f, PutBack(Renamed(e, c.final, c.src), c.staged, c.final, f)
    PROVE  f = d
<1>1. PICK m : Clears(d, c.final, c.staged, m) /\ Comes(m, c.src, c.final, e) /\ IsMap(d)
  BY DEF Lands
<1>2. IsMap(m) /\ c.final \notin DOMAIN m /\ c.src \in DOMAIN m
  BY <1>1, ClearsIs DEF Comes
<1>3. Renamed(e, c.final, c.src) = m
  BY <1>1, <1>2, RenamedMap DEF Comes
<1> QED
  BY <1>1, <1>3, ClearsBack

LEMMA CopyGoes ==
    ASSUME Mishaps = {}, verb # "move", NEW d, NEW c \in Dones, NEW e, Lands(d, c, e),
           NEW f, PutBack(Without(e, {c.final}), c.staged, c.final, f)
    PROVE  f = d
<1>1. PICK m : Clears(d, c.final, c.staged, m) /\ Comes(m, c.src, c.final, e) /\ IsMap(d)
  BY DEF Lands
<1>2. IsMap(m) /\ c.final \notin DOMAIN m
  BY <1>1, ClearsIs
<1>3. Without(e, {c.final}) = m
  BY <1>1, <1>2, WithMap DEF Comes
<1> QED
  BY <1>1, <1>3, ClearsBack

--------------------------------------------------------------------------------
(* A list of items, each landing on what the one before it left. *)

Chain(h, cs) == \A i \in DOMAIN cs : Lands(h[i - 1], cs[i], h[i])

LEMMA ChainNone == \A h : Chain(h, <<>>)
  BY DEF Chain

LEMMA ChainMore ==
    ASSUME NEW cs \in Seq(Dones), NEW c \in Dones, NEW h, Chain(h, cs), NEW e, Lands(h[Len(cs)], c, e)
    PROVE  \E g : Chain(g, Append(cs, c)) /\ g[0] = h[0] /\ g[Len(cs) + 1] = e
<1> DEFINE n == Len(cs)
           g == [i \in 0..(n + 1) |-> IF i = n + 1 THEN e ELSE h[i]]
<1>1. /\ n \in Nat /\ DOMAIN cs = 1..n /\ DOMAIN Append(cs, c) = 1..(n + 1)
      /\ Append(cs, c)[n + 1] = c /\ \A i \in 1..n : Append(cs, c)[i] = cs[i]
  BY AppendIs
<1>2. /\ g[n + 1] = e /\ \A i \in 0..n : g[i] = h[i]
  BY <1>1
<1> HIDE DEF g
<1>3. ASSUME NEW i \in 1..(n + 1) PROVE Lands(g[i - 1], Append(cs, c)[i], g[i])
  <2>1. CASE i = n + 1
    BY <1>1, <1>2, <2>1
  <2>2. CASE i # n + 1
    <3>1. i \in 1..n /\ i \in 0..n /\ i - 1 \in 0..n
      BY <1>1, <2>2
    <3>2. Lands(h[i - 1], cs[i], h[i])
      BY <1>1, <3>1 DEF Chain
    <3> QED
      BY <1>1, <1>2, <3>1, <3>2
  <2> QED
    BY <2>1, <2>2
<1>4. Chain(g, Append(cs, c))
  BY <1>1, <1>3 DEF Chain
<1> QED
  BY <1>1, <1>2, <1>4

LEMMA ChainSame ==
    ASSUME NEW cs, NEW ds, DOMAIN ds = DOMAIN cs, NEW h, Chain(h, cs),
           \A i \in DOMAIN cs : ds[i].src = cs[i].src /\ ds[i].final = cs[i].final /\ ds[i].staged = cs[i].staged
    PROVE  Chain(h, ds)
  BY DEF Chain, Lands

--------------------------------------------------------------------------------
(* What the record knows of staging, and what an undo and a redo have before them. *)

\* No entry is in a source folder that is gone.
Standing == /\ merged \in BOOLEAN /\ IsMap(disk)
            /\ \A p \in DOMAIN disk : p.at \in Folders => p.at \in standing

Asides(d)  == {p \in DOMAIN d : p.at = "staging"}
Stages(cs) == {p \in Paths : \E i \in DOMAIN cs : cs[i].staged = p}
Lone(cs)   == \A i, j \in DOMAIN cs : cs[i].staged # NoPath /\ cs[i].staged = cs[j].staged => i = j
Tells(c, stages) == c.staged # NoPath => c.staged.at = "staging" /\ c.staged.stage \in stages
Holds(d, c)   == c.staged # NoPath => c.staged \in DOMAIN d /\ d[c.staged].id = c.displaced
HoldsIf(d, c) == c.staged # NoPath /\ c.staged \in DOMAIN d => d[c.staged].id = c.displaced

\* Each item of a pass has what it displaced in a staging folder of that pass, at a place of its own.
Told(i) == IF i <= FromBefore THEN run.stagings ELSE {run.staging} \ {0}
ToldNow ==
    Executing =>
        /\ \A i \in DOMAIN run.completed : Tells(run.completed[i], Told(i)) /\ Holds(disk, run.completed[i])
        /\ Lone(run.completed)
        /\ at = "writing" /\ run.staged # NoPath =>
              run.staged.stage = run.staging /\ run.staging # 0 /\ run.staged \notin Stages(run.completed)
\* So does each on record, unless it went back.
Rec == record.completed
ToldOnRecord ==
    record.state = "applied" =>
        /\ \A i \in DOMAIN Rec : Tells(Rec[i], record.stagings) /\ HoldsIf(disk, Rec[i])
        /\ Lone(Rec)

\* An undo or redo that has left out nothing so far is at the item of the record it should be at.
OnCourse == run.pass = 1 /\ Len(run.completed) + Len(run.todo) = Len(Rec)
Again(c) == [src |-> c.src, dst |-> c.final, folder |-> c.folder,
             res |-> IF c.staged = NoPath THEN "skip" ELSE "replace"]
NotAhead == run.pass = 1 => Len(run.completed) + Len(run.todo) <= Len(Rec)
UndoCourse ==
    run.doing = "undo" =>
        /\ record.state = "applied" /\ at \in {"running", "offered", "ended"} /\ NotAhead
        /\ OnCourse => /\ \A i \in DOMAIN run.completed : run.completed[i] = Rec[Len(Rec) + 1 - i]
                       /\ \A i \in DOMAIN run.todo : run.todo[i] = Rec[Len(run.todo) + 1 - i]
RedoCourse ==
    run.doing = "redo" =>
        /\ record.state = "undone" /\ at \in {"running", "writing", "offered", "ended"} /\ NotAhead
        /\ OnCourse => /\ \A i \in DOMAIN run.todo : run.todo[i] = Again(Rec[Len(run.todo) + 1 - i])
                       /\ at = "writing" => run.to = Item.dst
Course == UndoCourse /\ RedoCourse /\ (at \in {"offered", "ended"} => run.todo = <<>>)

\* As long as all was whole, staging holds what the items displaced, and nothing else.
Aside == IF at = "writing" THEN {run.staged} \ {NoPath} ELSE {}
StagesWhole ==
    clean =>
        /\ Executing /\ at \notin {"idle", "over"} => Asides(disk) = Stages(run.completed) \union Aside
        /\ at = "idle" /\ record.state = "applied" => Asides(disk) = Stages(Rec)
        /\ at = "idle" /\ record.state = "undone" => Asides(disk) = {}
        /\ run.doing = "undo" => /\ run.completed = <<>> => Asides(disk) = Stages(Rec)
                                 /\ OnCourse => Asides(disk) = Stages(run.todo)

\* And as long as the user has left it alone, the disk is one link of the chain that the items
\* make from what there was before the operation to what there was after it.
Spans(h, cs) == Chain(h, cs) /\ Looks(h[0]) = before /\ Looks(h[Len(cs)]) = after
Base(d) == IsMap(d) /\ IF at = "writing" THEN Clears(d, run.to, run.staged, disk) ELSE disk = d
ViewDone ==
    run.doing = "do" /\ at \notin {"planned", "idle", "over"} =>
        \E h : Chain(h, run.completed) /\ Looks(h[0]) = before /\ Base(h[Len(run.completed)])
ViewApplied == at = "idle" /\ record.state = "applied" => \E h : Spans(h, Rec) /\ disk = h[Len(Rec)]
ViewUndone  == at = "idle" /\ record.state = "undone" => \E h : Spans(h, Reverse(Rec)) /\ disk = h[0]
ViewUndoing ==
    run.doing = "undo" =>
        \E h : /\ Spans(h, Rec)
               /\ run.completed = <<>> => disk = h[Len(Rec)]
               /\ OnCourse => disk = h[Len(run.todo)]
ViewRedoing ==
    run.doing = "redo" =>
        \E h, g : /\ Spans(h, Reverse(Rec)) /\ g[0] = h[0]
                  /\ run.completed = <<>> => Base(h[0])
                  /\ OnCourse => /\ Chain(g, run.completed) /\ Base(g[Len(run.completed)])
                                 /\ Looks(g[Len(run.completed)]) = Looks(h[Len(run.completed)])
Views == clean /\ ~touched => ViewDone /\ ViewApplied /\ ViewUndone /\ ViewUndoing /\ ViewRedoing

More == Standing /\ ToldNow /\ ToldOnRecord /\ Course /\ StagesWhole /\ Views

--------------------------------------------------------------------------------
(* Lists of items, and where what they displaced is kept. *)

LEMMA TailIs ==
    ASSUME NEW S, NEW s \in Seq(S), s # <<>>
    PROVE  /\ Len(s) \in Nat /\ Len(s) > 0 /\ Len(Tail(s)) = Len(s) - 1 /\ Tail(s) \in Seq(S)
           /\ DOMAIN s = 1..Len(s) /\ DOMAIN Tail(s) = 1..(Len(s) - 1)
           /\ Head(s) = s[1] /\ \A i \in 1..(Len(s) - 1) : Tail(s)[i] = s[i + 1]
  BY HeadTailProperties, LenProperties

LEMMA StagesNone == Stages(<<>>) = {}
  BY DEF Stages

LEMMA StagesSame ==
    ASSUME NEW cs, NEW ds, DOMAIN cs = DOMAIN ds, \A i \in DOMAIN cs : cs[i].staged = ds[i].staged
    PROVE  /\ Stages(cs) = Stages(ds)
           /\ Lone(cs) => Lone(ds)
  BY DEF Stages, Lone

LEMMA StagesMore ==
    ASSUME NEW cs \in Seq(Dones), NEW c \in Dones
    PROVE  /\ Stages(Append(cs, c)) = Stages(cs) \union ({c.staged} \ {NoPath})
           /\ Lone(cs) /\ c.staged \notin Stages(cs) => Lone(Append(cs, c))
<1> DEFINE ds == Append(cs, c)
           n  == Len(cs)
<1>1. /\ n \in Nat /\ DOMAIN cs = 1..n /\ DOMAIN ds = 1..(n + 1)
      /\ ds[n + 1] = c /\ \A i \in 1..n : ds[i] = cs[i]
  BY AppendIs
<1>2. c.staged \in Paths \union {NoPath} /\ NoPath \notin Paths
      /\ \A i \in 1..n : cs[i].staged \in Paths \union {NoPath}
  BY <1>1, NoPathIsNone, DoneOf DEF Dones, Stagings
<1> HIDE DEF ds, n
<1>3. ASSUME NEW p PROVE p \in Stages(ds) <=> p \in Stages(cs) \/ (p = c.staged /\ p # NoPath)
  BY <1>1, <1>2 DEF Stages
<1>4. Lone(cs) /\ c.staged \notin Stages(cs) => Lone(ds)
  BY <1>1, <1>2 DEF Lone, Stages
<1> QED
  BY <1>3, <1>4 DEF ds

LEMMA StagesReverse ==
    ASSUME NEW cs \in Seq(Dones)
    PROVE  Stages(Reverse(cs)) = Stages(cs)
<1>1. /\ Len(cs) \in Nat /\ DOMAIN cs = 1..Len(cs) /\ DOMAIN Reverse(cs) = 1..Len(cs)
      /\ \A i \in 1..Len(cs) : Len(cs) - i + 1 \in 1..Len(cs) /\ Reverse(cs)[i] = cs[Len(cs) - i + 1]
  BY ReverseIs, LenProperties
<1>2. ASSUME NEW p \in Paths, NEW i \in 1..Len(cs), cs[i].staged = p
      PROVE  \E j \in 1..Len(cs) : Reverse(cs)[j].staged = p
  <2>1. Len(cs) - i + 1 \in 1..Len(cs) /\ Len(cs) - (Len(cs) - i + 1) + 1 = i
    BY <1>1
  <2> QED
    BY <1>1, <1>2, <2>1
<1>3. ASSUME NEW p \in Paths, NEW i \in 1..Len(cs), Reverse(cs)[i].staged = p
      PROVE  \E j \in 1..Len(cs) : cs[j].staged = p
  BY <1>1, <1>3
<1> QED
  BY <1>1, <1>2, <1>3 DEF Stages

LEMMA StagesTail ==
    ASSUME NEW cs \in Seq(Dones), cs # <<>>, Lone(cs)
    PROVE  Stages(Tail(cs)) = Stages(cs) \ {Head(cs).staged}
<1> DEFINE n == Len(cs)
           t == Tail(cs)
<1>1. /\ n \in Nat /\ n > 0 /\ DOMAIN cs = 1..n /\ DOMAIN t = 1..(n - 1) /\ Head(cs) = cs[1]
      /\ \A i \in 1..(n - 1) : t[i] = cs[i + 1]
  BY TailIs
<1>2. NoPath \notin Paths
  BY NoPathIsNone
<1> HIDE DEF n, t
<1>3. ASSUME NEW p \in Paths, NEW i \in 1..(n - 1), t[i].staged = p
      PROVE  p \in Stages(cs) /\ p # cs[1].staged
  <2>1. i + 1 \in 1..n /\ 1 \in 1..n /\ i + 1 # 1
    BY <1>1
  <2>2. cs[i + 1].staged = p
    BY <1>1, <1>3
  <2> QED
    BY <1>1, <1>2, <2>1, <2>2 DEF Stages, Lone
<1>4. ASSUME NEW p \in Paths, NEW i \in 1..n, cs[i].staged = p, p # cs[1].staged
      PROVE  p \in Stages(t)
  <2>1. i - 1 \in 1..(n - 1) /\ (i - 1) + 1 = i
    BY <1>1, <1>4
  <2> QED
    BY <1>1, <1>4, <2>1 DEF Stages
<1>5. ASSUME NEW p PROVE p \in Stages(t) <=> p \in Stages(cs) /\ p # cs[1].staged
  <2>1. ASSUME p \in Stages(t) PROVE p \in Stages(cs) /\ p # cs[1].staged
    BY <1>1, <1>3, <2>1 DEF Stages
  <2>2. ASSUME p \in Stages(cs), p # cs[1].staged PROVE p \in Stages(t)
    <3>1. p \in Paths /\ \E i \in 1..n : cs[i].staged = p
      BY <1>1, <2>2 DEF Stages
    <3> QED
      BY <1>4, <2>2, <3>1
  <2> QED
    BY <2>1, <2>2
<1> QED
  BY <1>1, <1>5 DEF t

\* A name that is free is the one the item gets.
LEMMA FreeIsItself ==
    ASSUME NEW d, IsFiniteSet(DOMAIN d), NEW path \in Paths, path \notin DOMAIN d
    PROVE  UniquePath(d, path) = path
<1> DEFINE C    == Cardinality(DOMAIN d)
           Free == {m \in path.n..(path.n + C) : [path EXCEPT !.n = m] \notin DOMAIN d}
<1>1. C \in Nat /\ path.n \in Nat
  BY FS_CardinalityType DEF Paths
<1> HIDE DEF C
<1>2. [path EXCEPT !.n = path.n] = path
  BY DEF Paths
<1>3. path.n \in Free /\ Free \in SUBSET Nat
  BY <1>1, <1>2
<1>4. \A m \in Free : path.n <= m
  BY <1>1
<1>5. UniquePath(d, path) = [path EXCEPT !.n = Min(Free)]
  BY DEF UniquePath, C
<1> HIDE DEF Free
<1>6. Min(Free) \in Free /\ Min(Free) <= path.n
  BY <1>3, LeastOf
<1>7. Min(Free) \in Nat /\ path.n <= Min(Free)
  BY <1>3, <1>4, <1>6
<1> HIDE DEF Free
<1>8. Min(Free) = path.n
  <2> DEFINE m == Min(Free)
  <2>1. m \in Nat /\ path.n <= m /\ m <= path.n
    BY <1>6, <1>7
  <2> HIDE DEF m
  <2>2. m = path.n
    BY <1>1, <2>1
  <2> QED
    BY <2>2 DEF m
<1> QED
  BY <1>2, <1>5, <1>8

--------------------------------------------------------------------------------
(* The views and the chain mention of what changes only the verb, which never does. *)

LEMMA ChainStays ==
    ASSUME verb' = verb
    PROVE  \A h, cs : Chain(h, cs)' <=> Chain(h, cs)
  BY DEF Chain, Lands, Comes
--------------------------------------------------------------------------------
(* Steps that leave an item where it is. *)

\* The run turns to what comes after the item, or to nothing.
Leaves == /\ run'.doing = run.doing /\ run'.pass = run.pass /\ run'.first = run.first
          /\ run'.staging = run.staging /\ run'.stagings = run.stagings
          /\ run'.completed = run.completed
          /\ Len(run'.todo) \in Nat /\ Len(run.todo) \in Nat /\ Len(run'.todo) < Len(run.todo)

LEMMA LeavesIs ==
    ASSUME Kept, run.todo # <<>>,
           Fails \/ run' = [run EXCEPT !.todo = <<>>, !.cancelled = TRUE]
                 \/ run' = [Next1 EXCEPT !.todo = <<>>, !.cancelled = TRUE]
    PROVE  Leaves
<1>1. (run.todo \in Seq(Items) \/ run.todo \in Seq(Dones)) /\ run \in Runs
  BY DEF Kept, Typed, Runs, Todos
<1>2. /\ Len(run.todo) \in Nat /\ Len(run.todo) > 0 /\ Len(Tail(run.todo)) = Len(run.todo) - 1
      /\ Len(<<>>) = 0
  BY <1>1, TailIs
<1>3. /\ run'.doing = run.doing /\ run'.pass = run.pass /\ run'.first = run.first
      /\ run'.staging = run.staging /\ run'.stagings = run.stagings
      /\ run'.completed = run.completed
      /\ run'.todo = Tail(run.todo) \/ run'.todo = <<>>
  BY <1>1 DEF Fails, Next1, Runs
<1>4. Len(run'.todo) = Len(run.todo) - 1 \/ Len(run'.todo) = 0
  BY <1>2, <1>3
<1> QED
  BY <1>2, <1>3, <1>4 DEF Leaves

\* It can be on course no more.
LEMMA OffCourse ==
    ASSUME Kept, Course, Leaves, record' = record
    PROVE  NotAhead => NotAhead' /\ ~ OnCourse'
<1> DEFINE k == Len(run.completed)
           t == Len(run.todo)
<1>1. /\ k \in Nat /\ Len(Rec) \in Nat /\ Len(Rec') = Len(Rec)
      /\ Len(run'.completed) = k /\ run'.pass = run.pass
  BY LenProperties DEF Kept, Typed, Runs, Recs, Rec, Leaves
<1> HIDE DEF k, t
<1>2. \A r \in Nat : k + t <= r => k + Len(run'.todo) <= r /\ k + Len(run'.todo) # r
  BY <1>1 DEF Leaves, t
<1> QED
  BY <1>1, <1>2 DEF NotAhead, OnCourse, k, t

LEMMA LeavesItemTells ==
    ASSUME Kept, More, Stops \/ Missing \/ Refused \/ Skips \/ StaysMoved \/ CopyStays
    PROVE  More'
<1>1. /\ at = "running" /\ at' = "running"
      /\ UNCHANGED <<disk, standing, verb, merged, record, before, after, clean, touched>>
      /\ run.todo # <<>>
  BY DEF Stops, Missing, Refused, Skips, StaysMoved, CopyStays, Executes, Undoes,
         SameRun, SameDisk, UndoStep, diskVars, historyVars, userVars, planVars
<1>2. Fails \/ run' = [run EXCEPT !.todo = <<>>, !.cancelled = TRUE]
  BY DEF Stops, Missing, Refused, Skips, StaysMoved, CopyStays, Fails
<1>3. Leaves /\ Rec' = Rec
  BY <1>1, <1>2, LeavesIs DEF Rec
<1>4. Standing'
  BY <1>1 DEF More, Standing
<1>5. ToldNow' /\ ToldOnRecord'
  <2>1. \A i : Told(i)' = Told(i)
    BY <1>1, <1>3 DEF Told, FromBefore, Working, Leaves
  <2> QED
    BY <1>1, <1>3, <2>1 DEF More, ToldNow, ToldOnRecord, Executing, Holds, HoldsIf, Leaves
<1>6. NotAhead => NotAhead' /\ ~ OnCourse'
  BY <1>1, <1>3, OffCourse DEF More
<1>7. Course'
  BY <1>1, <1>3, <1>6 DEF More, Course, UndoCourse, RedoCourse, Leaves
<1>8. run.doing \in {"undo", "redo"} => ~ OnCourse'
  BY <1>6 DEF More, Course, UndoCourse, RedoCourse
<1>9. StagesWhole'
  BY <1>1, <1>3, <1>8 DEF More, StagesWhole, Executing, Aside, Leaves
<1>10. ASSUME clean', ~ touched'
       PROVE  ViewDone' /\ ViewApplied' /\ ViewUndone' /\ ViewUndoing' /\ ViewRedoing'
  <2>1. ViewDone /\ ViewUndoing /\ ViewRedoing
    BY <1>1, <1>10 DEF More, Views
  <2>2. \A d : Base(d)' <=> Base(d)
    BY <1>1 DEF Base
  <2>3. \A h, cs : Spans(h, cs)' <=> Spans(h, cs)
    BY <1>1, ChainStays DEF Spans
  <2>4. ViewDone'
    BY <1>1, <1>3, <2>1, <2>2, ChainStays DEF ViewDone, Leaves
  <2>5. ViewApplied' /\ ViewUndone'
    BY <1>1 DEF ViewApplied, ViewUndone
  <2>6. ViewUndoing'
    BY <1>1, <1>3, <1>8, <2>1, <2>3 DEF ViewUndoing, Leaves
  <2>7. ViewRedoing'
    BY <1>1, <1>3, <1>8, <2>1, <2>2, <2>3 DEF ViewRedoing, Leaves
  <2> QED
    BY <2>4, <2>5, <2>6, <2>7
<1> QED
  BY <1>4, <1>5, <1>7, <1>9, <1>10 DEF More, Views

\* What was displaced for an item that could not be written is where it was before.
LEMMA WriteEndsTells ==
    ASSUME Kept, More, Mishaps = {}, WriteFails \/ WriteCancelled
    PROVE  More'
<1>1. /\ at = "writing" /\ at' = "running" /\ Executing /\ run.doing # "undo" /\ run.todo # <<>>
      /\ run.to \notin DOMAIN disk /\ run.to \in Targets
      /\ run.staged # NoPath => run.staged \in DOMAIN disk /\ run.staged.at = "staging"
      /\ UNCHANGED <<standing, verb, merged, record, before, after, clean, touched>>
      /\ record.state # "applied"
  BY DEF WriteFails, WriteCancelled, Writing, SameRun, planVars, historyVars, userVars,
         Kept, Cleared, Executing, Passes
<1>2. \A d, mishaps : HalfWritten(d, mishaps) = {d}
  BY DEF HalfWritten
<1>3. PutBack(disk, run.staged, run.to, disk')
  BY <1>1, <1>2 DEF WriteFails, WriteCancelled, Exists
<1>4. /\ run.staged = NoPath => disk' = disk
      /\ run.staged # NoPath => disk' = Renamed(disk, run.staged, run.to)
  BY <1>1, <1>3 DEF PutBack
<1>5. run.staged # NoPath => IsMap(disk') /\ Moves(disk, run.staged, run.to, disk')
  BY <1>1, <1>4, RenamedMap
<1>6. Leaves /\ Rec' = Rec
  BY <1>1, LeavesIs DEF Rec, WriteFails, WriteCancelled
<1>7. run.to.at = "destination" /\ run.to.at \notin Folders /\ run.to.at # "staging"
  BY <1>1, FoldersAssumption DEF Targets
<1>8. Standing'
  BY <1>1, <1>4, <1>5, <1>7 DEF More, Standing, Moves
<1>9. ToldNow'
  <2>1. \A i : Told(i)' = Told(i)
    BY <1>1, <1>6 DEF Told, FromBefore, Working, Leaves
  <2>2. \A i \in DOMAIN run.completed : run.staged # NoPath => run.completed[i].staged # run.staged
    <3> SUFFICES ASSUME NEW i \in DOMAIN run.completed, run.staged # NoPath,
                        run.completed[i].staged = run.staged
                 PROVE  FALSE
      OBVIOUS
    <3>1. run.staged \in Paths
      BY <1>1 DEF Kept, Sound
    <3>2. run.staged \in Stages(run.completed)
      BY <3>1 DEF Stages
    <3> QED
      BY <1>1, <3>2 DEF More, ToldNow
  <2>3. \A i \in DOMAIN run.completed : Holds(disk, run.completed[i])
    BY <1>1 DEF More, ToldNow
  <2>4. \A i \in DOMAIN run.completed : Holds(disk', run.completed[i])
    BY <1>1, <1>4, <1>5, <2>2, <2>3 DEF Holds, Moves
  <2> QED
    BY <1>1, <1>6, <2>1, <2>4 DEF More, ToldNow, Executing, Leaves
<1>10. ToldOnRecord'
  BY <1>1 DEF ToldOnRecord
<1>11. NotAhead => NotAhead' /\ ~ OnCourse'
  BY <1>1, <1>6, OffCourse DEF More
<1>12. Course'
  BY <1>1, <1>6, <1>11 DEF More, Course, UndoCourse, RedoCourse, Leaves
<1>13. run.doing \in {"undo", "redo"} => ~ OnCourse'
  BY <1>11 DEF More, Course, UndoCourse, RedoCourse
<1>14. StagesWhole'
  <2> SUFFICES ASSUME clean PROVE Asides(disk') = Stages(run.completed)
    BY <1>1, <1>6 DEF StagesWhole, Executing, Aside, Leaves
  <2>1. Asides(disk) = Stages(run.completed) \union ({run.staged} \ {NoPath})
    BY <1>1 DEF More, StagesWhole, Aside
  <2>2. CASE run.staged = NoPath
    BY <1>4, <2>1, <2>2
  <2>3. CASE run.staged # NoPath
    <3>1. Asides(disk') = Asides(disk) \ {run.staged}
      BY <1>5, <1>7, <2>3 DEF Asides, Moves
    <3>2. run.staged \notin Stages(run.completed)
      BY <1>1, <2>3 DEF More, ToldNow
    <3> QED
      BY <2>1, <3>1, <3>2
  <2> QED
    BY <2>2, <2>3
<1>15. ASSUME clean', ~ touched'
       PROVE  ViewDone' /\ ViewApplied' /\ ViewUndone' /\ ViewUndoing' /\ ViewRedoing'
  <2>1. ViewDone /\ ViewRedoing
    BY <1>1, <1>15 DEF More, Views
  <2>2. ASSUME NEW d, Base(d) PROVE Base(d)'
    <3>1. IsMap(d) /\ Clears(d, run.to, run.staged, disk)
      BY <1>1, <2>2 DEF Base
    <3>2. disk' = d
      BY <1>3, <3>1, ClearsBack
    <3> QED
      BY <1>1, <3>1, <3>2 DEF Base
  <2>3. \A h, cs : Spans(h, cs)' <=> Spans(h, cs)
    BY <1>1, ChainStays DEF Spans
  <2>4. ViewDone'
    BY <1>1, <1>6, <2>1, <2>2, ChainStays DEF ViewDone, Leaves
  <2>5. ViewApplied' /\ ViewUndone' /\ ViewUndoing'
    BY <1>1, <1>6 DEF ViewApplied, ViewUndone, ViewUndoing, Leaves
  <2>6. ViewRedoing'
    BY <1>6, <1>13, <2>1, <2>2, <2>3 DEF ViewRedoing, Leaves
  <2> QED
    BY <2>4, <2>5, <2>6
<1> QED
  BY <1>8, <1>9, <1>10, <1>12, <1>14, <1>15 DEF More, Views

--------------------------------------------------------------------------------
(* An item that is written. *)

\* Its name is cleared: what was in the way is staged.
LEMMA ClearsName ==
    ASSUME Kept, Standing, Displaces \/ Numbers
    PROVE  /\ Clears(disk, run'.to, run'.staged, disk')
           /\ run'.to.at = "destination"
           /\ run'.staged # NoPath => run'.staged.stage = run'.staging /\ run'.staging # 0
           /\ run.staging # 0 => run'.staging = run.staging
           /\ Item.dst \in DOMAIN disk \/ run'.to = Item.dst \/ Item.res = "both"
           /\ run'.to = Item.dst \/ (Numbers /\ Item.dst \in DOMAIN disk)
<1> DEFINE dst    == Item.dst
           stage  == IF run.staging = 0 THEN nextStage ELSE run.staging
           staged == UniquePath(disk, Staged(stage, dst))
<1>1. /\ at = "running" /\ Executing /\ run.todo # <<>> /\ run \in Runs
      /\ IsFiniteSet(DOMAIN disk)
  BY DEF Displaces, Numbers, Executes, Executing, Kept, Typed, Sound
<1>2. dst \in Targets /\ dst \in Paths /\ dst.at = "destination"
  BY <1>1, NextIs DEF Items, Targets
<1>3. /\ stage \in Nat \ {0}
      /\ run.staging # 0 => stage = run.staging
  BY <1>1 DEF Kept, Typed, Runs
<1>4. /\ staged \notin DOMAIN disk /\ staged \in Paths
      /\ staged.at = "staging" /\ staged.stage = stage
  <2>1. /\ Staged(stage, dst) \in Paths
        /\ Staged(stage, dst).at = "staging" /\ Staged(stage, dst).stage = stage
    <3> HIDE DEF stage, dst
    <3> QED
      BY <1>2, <1>3 DEF Staged, Paths
  <2> HIDE DEF stage, dst
  <2> QED
    BY <1>1, <2>1, UniqueIsFree
<1>5. CASE Displaces
  <2>1. /\ dst \in DOMAIN disk /\ disk' = Renamed(disk, dst, staged)
        /\ run' = [run EXCEPT !.to = dst, !.staged = staged, !.displaced = disk[dst].id,
                              !.staging = stage]
    BY <1>5 DEF Displaces, Taken, Exists, Writes
  <2> HIDE DEF stage, staged, dst
  <2>2. run'.to = dst /\ run'.staged = staged /\ run'.staging = stage
    BY <1>1, <2>1 DEF Runs
  <2>3. staged # NoPath
    BY <1>4, NoPathIsNone
  <2> QED
    BY <1>2, <1>3, <1>4, <2>1, <2>2, <2>3 DEF Clears, dst
<1>6. CASE Numbers
  <2> DEFINE to == UniquePath(disk, dst)
  <2>1. /\ dst \in DOMAIN disk => Item.res = "both"
        /\ disk' = disk
        /\ run' = [run EXCEPT !.to = to, !.staged = NoPath, !.displaced = 0, !.staging = run.staging]
    BY <1>6 DEF Numbers, Taken, Exists, Writes, SameDisk, diskVars
  <2>2. to \notin DOMAIN disk /\ to.at = "destination" /\ (dst \notin DOMAIN disk => to = dst)
    <3> HIDE DEF dst
    <3> QED
      BY <1>1, <1>2, UniqueIsFree, FreeIsItself
  <2> HIDE DEF to, stage, staged
  <2>3. run'.to = to /\ run'.staged = NoPath /\ run'.staging = run.staging
    BY <1>1, <2>1 DEF Runs
  <2> QED
    BY <1>6, <2>1, <2>2, <2>3 DEF Clears, dst
<1> QED
  BY <1>5, <1>6

LEMMA ClearsTells ==
    ASSUME Kept, More, Displaces \/ Numbers
    PROVE  More'
<1>1. /\ at = "running" /\ at' = "writing" /\ Executing /\ run.doing # "undo" /\ run.todo # <<>>
      /\ UNCHANGED <<standing, verb, merged, record, before, after, clean, touched>>
      /\ run \in Runs /\ record.state # "applied"
  BY DEF Displaces, Numbers, Executes, Writes, SameRun, SameDisk, diskVars, planVars, historyVars,
         userVars, Executing, Kept, Typed, Passes
<1>2. ASSUME NEW to, NEW staged, NEW displaced, NEW stage, Writes(to, staged, displaced, stage)
      PROVE  /\ run'.doing = run.doing /\ run'.pass = run.pass /\ run'.first = run.first
             /\ run'.stagings = run.stagings /\ run'.completed = run.completed
             /\ run'.todo = run.todo
  BY <1>1, <1>2 DEF Writes, Runs
<1>3. /\ run'.doing = run.doing /\ run'.pass = run.pass /\ run'.first = run.first
      /\ run'.stagings = run.stagings /\ run'.completed = run.completed /\ run'.todo = run.todo
  <2>1. CASE Displaces
    BY <1>2, <2>1 DEF Displaces
  <2>2. CASE Numbers
    BY <1>2, <2>2 DEF Numbers
  <2> QED
    BY <2>1, <2>2
<1>4. /\ Clears(disk, run'.to, run'.staged, disk')
      /\ run'.to.at = "destination"
      /\ run'.staged # NoPath => run'.staged.stage = run'.staging /\ run'.staging # 0
      /\ run.staging # 0 => run'.staging = run.staging
      /\ Item.dst \in DOMAIN disk \/ run'.to = Item.dst \/ Item.res = "both"
      /\ run'.to = Item.dst \/ (Numbers /\ Item.dst \in DOMAIN disk)
  BY ClearsName DEF More
<1>5. /\ run'.staged = NoPath => disk' = disk
      /\ run'.staged # NoPath =>
            /\ run'.to \in DOMAIN disk /\ run'.staged \notin DOMAIN disk /\ run'.staged.at = "staging"
            /\ Moves(disk, run'.to, run'.staged, disk') /\ IsMap(disk')
  <2>1. \A p, q : p \in DOMAIN disk /\ q \notin DOMAIN disk /\ disk' = Renamed(disk, p, q) =>
                      IsMap(disk') /\ Moves(disk, p, q, disk')
    BY RenamedMap
  <2> QED
    BY <1>4, <2>1 DEF Clears
<1>6. Rec' = Rec /\ "staging" \notin Folders
  BY <1>1, FoldersAssumption DEF Rec
<1>7. Standing'
  BY <1>1, <1>5, <1>6 DEF More, Standing, Moves
<1>8. \A i \in DOMAIN run.completed : /\ Tells(run.completed[i], Told(i))
                                     /\ Holds(disk, run.completed[i])
  BY <1>1 DEF More, ToldNow
<1>9. ToldNow'
  <2>1. \A i : Told(i) \subseteq Told(i)'
    BY <1>1, <1>3, <1>4 DEF Told, FromBefore, Working
  <2>2. \A i \in DOMAIN run.completed : Tells(run.completed[i], Told(i)')
    BY <1>8, <2>1 DEF Tells
  <2>3. \A i \in DOMAIN run.completed : Holds(disk', run.completed[i])
    BY <1>4, <1>5, <1>8 DEF Holds, Tells, Moves
  <2>4. run'.staged # NoPath => run'.staged \notin Stages(run.completed)
    BY <1>5, <1>8, NoPathIsNone DEF Stages, Holds
  <2> QED
    BY <1>1, <1>3, <1>4, <2>2, <2>3, <2>4 DEF More, ToldNow, Executing
<1>10. ToldOnRecord'
  BY <1>1 DEF ToldOnRecord
<1>11. OnCourse' <=> OnCourse
  BY <1>3, <1>6 DEF OnCourse
<1>12. Course'
  <2>1. run.doing = "redo" /\ OnCourse => run'.to = Item.dst
    <3> SUFFICES ASSUME run.doing = "redo", OnCourse, Numbers, Item.dst \in DOMAIN disk
                 PROVE  FALSE
      BY <1>4
    <3>1. Item.res = "both"
      BY DEF Numbers, Taken, Exists
    <3>2. run.todo \in Seq(Items) /\ Item = run.todo[1] /\ 1 \in DOMAIN run.todo
      <4>1. run.todo \in Seq(Items)
        BY <1>1 DEF Kept, Typed
      <4> QED
        BY <1>1, <4>1, TailIs DEF Item
    <3>3. Item = Again(Rec[Len(run.todo) + 1 - 1])
      BY <3>2 DEF More, Course, RedoCourse
    <3> QED
      BY <3>1, <3>3 DEF Again
  <2>2. NotAhead' <=> NotAhead
    BY <1>3, <1>6 DEF NotAhead
  <2>3. RedoCourse'
    BY <1>1, <1>3, <1>6, <1>11, <2>1, <2>2 DEF More, Course, RedoCourse, Item
  <2> QED
    BY <1>1, <1>3, <2>3 DEF Course, UndoCourse
<1>13. StagesWhole'
  <2> SUFFICES ASSUME clean
               PROVE  Asides(disk') = Stages(run.completed) \union ({run'.staged} \ {NoPath})
    BY <1>1, <1>3 DEF StagesWhole, Executing, Aside
  <2>1. Asides(disk) = Stages(run.completed)
    BY <1>1 DEF More, StagesWhole, Aside
  <2>2. CASE run'.staged = NoPath
    BY <1>5, <2>1, <2>2
  <2>3. CASE run'.staged # NoPath
    <3>1. Asides(disk') = Asides(disk) \union {run'.staged}
      BY <1>4, <1>5, <2>3 DEF Asides, Moves
    <3> QED
      BY <2>1, <2>3, <3>1
  <2> QED
    BY <2>2, <2>3
<1>14. ASSUME clean', ~ touched'
       PROVE  ViewDone' /\ ViewApplied' /\ ViewUndone' /\ ViewUndoing' /\ ViewRedoing'
  <2>1. ViewDone /\ ViewRedoing
    BY <1>1, <1>14 DEF More, Views
  <2>2. \A d : Base(d) => Base(d)'
    BY <1>1, <1>4 DEF Base
  <2>3. \A h, cs : Spans(h, cs)' <=> Spans(h, cs)
    BY <1>1, ChainStays DEF Spans
  <2>4. ViewDone'
    BY <1>1, <1>3, <2>1, <2>2, ChainStays DEF ViewDone
  <2>5. ViewApplied' /\ ViewUndone' /\ ViewUndoing'
    BY <1>1, <1>3 DEF ViewApplied, ViewUndone, ViewUndoing
  <2>6. ViewRedoing'
    BY <1>1, <1>3, <1>6, <1>11, <2>1, <2>2, <2>3, ChainStays DEF ViewRedoing
  <2> QED
    BY <2>4, <2>5, <2>6
<1> QED
  BY <1>7, <1>9, <1>10, <1>12, <1>13, <1>14 DEF More, Views

\* The item lands, on the disk that was there before its name was cleared.
LEMMA WrittenTells ==
    ASSUME Kept, More, Written
    PROVE  More'
<1> DEFINE stamp == IF verb = "copy" /\ run.pass = 1 THEN [id |-> nextId, edited |-> FALSE]
                    ELSE NoStamp
           c     == Completed(Item, run.to, run.staged, run.displaced, stamp)
           done  == Append(run.completed, c)
           copy  == New(nextId, disk[Item.src].data, disk[Item.src].folder)
           k     == Len(run.completed)
           t     == Len(run.todo)
<1>1. /\ at = "writing" /\ at' = "running" /\ Working /\ Working'
      /\ Executing /\ run.doing # "undo" /\ run.todo # <<>>
      /\ run.to \notin DOMAIN disk /\ run.to \in Targets
      /\ run.staged # NoPath => /\ run.staged \in DOMAIN disk /\ run.staged.at = "staging"
                                /\ disk[run.staged].id = run.displaced
      /\ Item.src \in DOMAIN disk
      /\ IF verb = "move" THEN disk' = Renamed(disk, Item.src, run.to)
         ELSE disk' = With(disk, run.to, copy)
      /\ run' = [Next1 EXCEPT !.completed = done]
      /\ UNCHANGED <<standing, verb, merged, record, before, after, clean, touched>>
  <2>1. Next1.completed = run.completed
    BY NextIs DEF Written, Writing, Kept, Cleared
  <2> QED
    BY <2>1 DEF Written, Writing, SameRun, planVars, historyVars, userVars, Found, Exists,
         Kept, Cleared, Executing, Working
<1>2. /\ verb \in {"move", "copy"} /\ run \in Runs /\ record.state # "applied"
      /\ run.completed \in Seq(Dones) /\ run.todo \in Seq(Items)
      /\ Item \in Items /\ Item.src \in Sources /\ nextId \in Nat
      /\ run.staged # NoPath => run.staged \in Paths
  BY <1>1, NextIs DEF Kept, Typed, Runs, Passes, Items, Sound
<1>3. c \in Dones /\ c.src = Item.src /\ c.final = run.to /\ c.staged = run.staged
      /\ c.displaced = run.displaced
  <2>1. stamp \in Stamps
    BY <1>2 DEF Stamps, NoStamp
  <2>2. /\ Item.folder \in BOOLEAN /\ run.staged \in Stagings \union {NoPath}
        /\ run.displaced \in Nat
    BY <1>1, <1>2 DEF Items, Runs, Stagings
  <2> HIDE DEF stamp
  <2> QED
    BY <1>1, <1>2, <2>1, <2>2 DEF Completed, Dones
<1>4. copy.data = disk[Item.src].data
  BY DEF New
<1> HIDE DEF stamp, c, copy
<1>5. /\ done \in Seq(Dones) /\ Len(done) = k + 1
      /\ k \in Nat /\ DOMAIN run.completed = 1..k /\ DOMAIN done = 1..(k + 1) /\ done[k + 1] = c
      /\ \A i \in 1..k : done[i] = run.completed[i]
  BY <1>2, <1>3, AppendIs
<1>6. /\ t \in Nat /\ t > 0 /\ Len(Tail(run.todo)) = t - 1 /\ DOMAIN run.todo = 1..t
      /\ DOMAIN Tail(run.todo) = 1..(t - 1) /\ Item = run.todo[1]
      /\ \A i \in 1..(t - 1) : Tail(run.todo)[i] = run.todo[i + 1]
  BY <1>1, <1>2, TailIs DEF Item
<1> HIDE DEF done, k, t
<1>7. /\ run'.doing = run.doing /\ run'.pass = run.pass /\ run'.first = run.first
      /\ run'.staging = run.staging /\ run'.stagings = run.stagings
      /\ run'.completed = done /\ run'.todo = Tail(run.todo)
  BY <1>1, <1>5, NextIs DEF Runs
<1>8. /\ IsMap(disk') /\ run.to \in DOMAIN disk' /\ disk'[run.to].data = disk[Item.src].data
      /\ \A p : p # run.to /\ p # Item.src =>
            (p \in DOMAIN disk' <=> p \in DOMAIN disk) /\ (p \in DOMAIN disk => disk'[p] = disk[p])
      /\ Item.src \in DOMAIN disk' => Item.src \in DOMAIN disk
  <2>1. CASE verb = "move"
    <3>1. IsMap(disk') /\ Moves(disk, Item.src, run.to, disk')
      BY <1>1, <2>1, RenamedMap
    <3> QED
      BY <1>1, <3>1 DEF Moves
  <2>2. CASE verb # "move"
    <3>1. disk' = With(disk, run.to, copy) /\ run.to \notin DOMAIN disk
      BY <1>1, <2>2
    <3>2. \A x : IsMap(With(disk, run.to, x)) /\ Adds(disk, run.to, x, With(disk, run.to, x))
      BY <3>1, WithMap
    <3>3. IsMap(disk') /\ Adds(disk, run.to, copy, disk')
      BY <3>1, <3>2, Zenon
    <3> QED
      BY <1>1, <1>4, <3>3 DEF Adds
  <2> QED
    BY <2>1, <2>2
<1>9. /\ run.to.at = "destination" /\ Item.src.at \in Folders
      /\ "staging" \notin Folders /\ "destination" \notin Folders
  BY <1>1, <1>2, FoldersAssumption DEF Targets, Sources
<1>10. \A p : p.at = "staging" =>
          (p \in DOMAIN disk' <=> p \in DOMAIN disk) /\ (p \in DOMAIN disk => disk'[p] = disk[p])
  BY <1>8, <1>9
<1>11. Standing'
  BY <1>1, <1>8, <1>9 DEF More, Standing
<1>12. \A i \in 1..k : /\ Tells(run.completed[i], Told(i)) /\ Holds(disk, run.completed[i])
  BY <1>1, <1>5 DEF More, ToldNow
<1>13. Lone(run.completed) /\ c.staged \notin Stages(run.completed)
  BY <1>1, <1>3, NoPathIsNone DEF More, ToldNow, Stages
<1>14. ToldNow'
  <2>1. \A i : Told(i)' = Told(i)
    BY <1>1, <1>7 DEF Told, FromBefore, Working
  <2>2. Tells(c, Told(k + 1)) /\ Holds(disk', c)
    <3>1. ~ (k + 1 <= run.first)
      BY <1>2, <1>5 DEF Kept, Passes, Runs, k
    <3>2. run.staged # NoPath => run.staged.stage \in {run.staging} \ {0}
      BY <1>1 DEF More, ToldNow
    <3> QED
      BY <1>1, <1>3, <1>10, <3>1, <3>2 DEF Tells, Told, FromBefore, Holds
  <2>3. \A i \in 1..k : Holds(disk', run.completed[i])
    BY <1>10, <1>12 DEF Holds, Tells
  <2>4. Lone(done)
    BY <1>2, <1>3, <1>13, StagesMore DEF done
  <2>5. \A i \in 1..(k + 1) : Tells(done[i], Told(i)) /\ Holds(disk', done[i])
    BY <1>5, <1>12, <2>2, <2>3
  <2> QED
    BY <1>1, <1>5, <1>7, <2>1, <2>4, <2>5 DEF ToldNow
<1>15. ToldOnRecord'
  BY <1>1, <1>2 DEF ToldOnRecord
<1>16. Rec' = Rec /\ (NotAhead' <=> NotAhead) /\ (OnCourse' <=> OnCourse)
  <2>1. k + t = (k + 1) + (t - 1) /\ Len(run'.completed) = k + 1 /\ Len(run'.todo) = t - 1
    BY <1>5, <1>6, <1>7
  <2> QED
    BY <1>1, <1>7, <2>1 DEF NotAhead, OnCourse, Rec, k, t
<1>17. run.doing = "redo" /\ OnCourse =>
          /\ \A i \in 1..t : run.todo[i] = Again(Rec[t + 1 - i])
          /\ run.to = Item.dst /\ Len(Rec) = k + t
  BY <1>1, <1>6 DEF More, Course, RedoCourse, OnCourse, k, t
<1>18. Course'
  <2>1. run.doing = "redo" /\ OnCourse =>
           \A i \in 1..(t - 1) : Tail(run.todo)[i] = Again(Rec[(t - 1) + 1 - i])
    <3> SUFFICES ASSUME run.doing = "redo", OnCourse, NEW i \in 1..(t - 1)
                 PROVE  Tail(run.todo)[i] = Again(Rec[(t - 1) + 1 - i])
      OBVIOUS
    <3>1. i + 1 \in 1..t /\ t + 1 - (i + 1) = (t - 1) + 1 - i
      BY <1>6
    <3> QED
      BY <1>6, <1>17, <3>1
  <2>2. RedoCourse'
    BY <1>1, <1>6, <1>7, <1>16, <2>1 DEF More, Course, RedoCourse
  <2> QED
    BY <1>1, <1>7, <2>2 DEF Course, UndoCourse
<1>19. StagesWhole'
  <2> SUFFICES ASSUME clean PROVE Asides(disk') = Stages(done)
    BY <1>1, <1>7 DEF StagesWhole, Executing, Aside
  <2>1. Asides(disk) = Stages(run.completed) \union ({run.staged} \ {NoPath})
    BY <1>1 DEF More, StagesWhole, Aside
  <2>2. Asides(disk') = Asides(disk)
    BY <1>10 DEF Asides
  <2> QED
    BY <1>2, <1>3, <2>1, <2>2, StagesMore DEF done
<1>20. \A d : Base(d) => Lands(d, c, disk')
  BY <1>1, <1>3, <1>4 DEF Base, Lands, Comes
<1>21. ASSUME clean', ~ touched'
       PROVE  ViewDone' /\ ViewApplied' /\ ViewUndone' /\ ViewUndoing' /\ ViewRedoing'
  <2>1. ViewDone /\ ViewRedoing
    BY <1>1, <1>21 DEF More, Views
  <2>2. \A d : d = disk' => Base(d)'
    BY <1>1, <1>8 DEF Base
  <2>3. ASSUME NEW h, Chain(h, run.completed), Base(h[k])
        PROVE  \E g : Chain(g, done) /\ g[0] = h[0] /\ g[k + 1] = disk'
    <3>1. Lands(h[k], c, disk')
      BY <1>20, <2>3
    <3>2. ASSUME NEW cs, cs = run.completed
          PROVE  \A e : Lands(h[Len(cs)], c, e) =>
                     \E g : Chain(g, Append(cs, c)) /\ g[0] = h[0] /\ g[Len(cs) + 1] = e
      <4>1. cs \in Seq(Dones) /\ c \in Dones /\ Chain(h, cs)
        BY <1>2, <1>3, <2>3, <3>2
      <4> QED
        BY <4>1, ChainMore
    <3>3. \A e : Lands(h[k], c, e) => \E g : Chain(g, done) /\ g[0] = h[0] /\ g[k + 1] = e
      BY <3>2 DEF done, k
    <3> QED
      BY <3>1, <3>3
  <2>4. ViewDone'
    <3> SUFFICES ASSUME run.doing = "do" PROVE ViewDone'
      BY <1>7 DEF ViewDone
    <3>1. PICK h : Chain(h, run.completed) /\ Looks(h[0]) = before /\ Base(h[k])
      BY <1>1, <2>1 DEF ViewDone, k
    <3>2. PICK g : Chain(g, done) /\ g[0] = h[0] /\ g[k + 1] = disk'
      BY <2>3, <3>1
    <3>3. Chain(g, run'.completed) /\ g[Len(run'.completed)] = disk'
      BY <1>5, <1>7, <3>2
    <3>4. Chain(g, run.completed)' /\ Base(g[Len(run.completed)])' /\ Looks(g[0]) = before'
      BY <1>1, <2>2, <3>1, <3>2, <3>3, ChainStays
    <3> QED
      BY <3>4 DEF ViewDone
  <2>5. ViewApplied' /\ ViewUndone' /\ ViewUndoing'
    BY <1>1, <1>7 DEF ViewApplied, ViewUndone, ViewUndoing
  <2>6. ViewRedoing'
    <3> SUFFICES ASSUME run.doing = "redo" PROVE ViewRedoing'
      BY <1>7 DEF ViewRedoing
    <3>1. PICK h, g : /\ Spans(h, Reverse(Rec)) /\ g[0] = h[0]
                      /\ OnCourse => /\ Chain(g, run.completed) /\ Base(g[k]) /\ Looks(g[k]) = Looks(h[k])
      BY <2>1 DEF ViewRedoing, k
    <3>2. Spans(h, Reverse(Rec))'
      BY <1>1, <1>16, <3>1, ChainStays DEF Spans
    <3>3. done # <<>>
      BY <1>5
    <3>4. CASE ~ OnCourse
      BY <1>7, <1>16, <3>1, <3>2, <3>3, <3>4 DEF ViewRedoing
    <3>5. CASE OnCourse
      <4>1. PICK f : Chain(f, done) /\ f[0] = g[0] /\ f[k + 1] = disk'
        BY <2>3, <3>1, <3>5
      <4>2. Looks(disk') = Looks(h[k + 1])
        <5>1. /\ Rec \in Seq(Dones) /\ Len(Rec) = k + t
              /\ k + 1 \in 1..Len(Rec) /\ Len(Rec) - (k + 1) + 1 = t /\ t \in 1..Len(Rec)
              /\ 1 \in 1..t /\ t + 1 - 1 = t
          BY <1>5, <1>6, <1>17, <3>5 DEF Kept, Typed, Recs, Rec
        <5>2. DOMAIN Reverse(Rec) = 1..Len(Rec) /\ Reverse(Rec)[k + 1] = Rec[t] /\ Rec[t] \in Dones
          BY <5>1, ReverseIs, DoneOf, LenProperties
        <5>3. Lands(h[(k + 1) - 1], Rec[t], h[k + 1])
          BY <3>1, <5>1, <5>2 DEF Spans, Chain
        <5>4. (k + 1) - 1 = k
          BY <1>5
        <5>5. c.src = Rec[t].src /\ c.final = Rec[t].final
          <6>1. Item = Again(Rec[t])
            BY <1>6, <1>17, <3>5, <5>1
          <6> QED
            BY <1>3, <1>17, <3>5, <6>1 DEF Again
        <5>6. Lands(g[k], c, disk') /\ Looks(g[k]) = Looks(h[k])
          BY <1>20, <3>1, <3>5
        <5> QED
          BY <1>3, <5>2, <5>3, <5>4, <5>5, <5>6, LandsAlike
      <4>3. Chain(f, run'.completed) /\ f[Len(run'.completed)] = disk' /\ Len(run'.completed) = k + 1
        BY <1>5, <1>7, <4>1
      <4>4. /\ Chain(f, run.completed)' /\ Base(f[Len(run.completed)])' /\ f[0] = h[0]
            /\ Looks(f[Len(run.completed)])' = Looks(h[Len(run.completed)])'
        BY <1>1, <2>2, <3>1, <4>1, <4>2, <4>3, ChainStays
      <4> QED
        BY <1>7, <3>2, <3>3, <4>4 DEF ViewRedoing
    <3> QED
      BY <3>4, <3>5
  <2> QED
    BY <2>4, <2>5, <2>6
<1> QED
  BY <1>11, <1>14, <1>15, <1>18, <1>19, <1>21 DEF More, Views

--------------------------------------------------------------------------------
(* An item that is taken back. *)

LEMMA TakenBackIs ==
    ASSUME Kept, Standing, Mishaps = {}, MoveBack \/ RemoveCopy
    PROVE  /\ at = "running" /\ at' = "running" /\ run.doing = "undo" /\ run.todo # <<>>
           /\ UNCHANGED <<standing, verb, merged, record, before, after, clean, touched>>
           /\ Item \in Dones /\ Reverted
           /\ Standing'
           /\ Asides(disk') = Asides(disk) \ {Item.staged}
           /\ \A p \in DOMAIN disk' : p.at = "staging" => p \in DOMAIN disk /\ disk'[p] = disk[p]
           /\ \A b : Lands(b, Item, disk) => disk' = b
<1>1. /\ at = "running" /\ at' = "running" /\ run.doing = "undo" /\ run.todo # <<>>
      /\ UNCHANGED <<standing, verb, merged, record, before, after, clean, touched>>
  BY DEF MoveBack, RemoveCopy, Undoes, UndoStep, SameRun, planVars, historyVars, userVars
<1>2. Item \in Dones
  BY <1>1, NextIs
<1>3. /\ Item.src.at \in Folders /\ Item.final.at = "destination" /\ Item.src # Item.final
      /\ "staging" \notin Folders /\ "destination" \notin Folders
      /\ Item.staged # NoPath => Item.staged.at = "staging"
  BY <1>2, PlacesApart, FoldersAssumption DEF Dones, Stagings
<1>4. NoPath \notin DOMAIN disk
  BY NoPathIsNone DEF Kept, Sound
<1>5. PICK d : /\ Item.final \notin DOMAIN d /\ IsMap(d)
               /\ PutBack(d, Item.staged, Item.final, disk')
               /\ \A p : p.at = "staging" =>
                     (p \in DOMAIN d <=> p \in DOMAIN disk) /\ (p \in DOMAIN disk => d[p] = disk[p])
               /\ \A p \in DOMAIN d : p \in DOMAIN disk \/ p.at \in standing
               /\ verb = "move" => d = Renamed(disk, Item.final, Item.src) /\ Reverted
               /\ verb # "move" => /\ d = Without(disk, {Item.final})
                                   /\ IF Item.staged \in DOMAIN disk /\ disk' = d
                                      THEN run' = Next1 ELSE Reverted
  <2>1. CASE MoveBack
    <3> DEFINE d == Renamed(disk, Item.final, Item.src)
    <3>1. /\ Item.final \in DOMAIN disk /\ Item.src \notin DOMAIN disk /\ Item.src.at \in standing
          /\ PutBack(d, Item.staged, Item.final, disk') /\ Reverted /\ verb = "move"
      BY <2>1 DEF MoveBack, CanGoBack, Exists
    <3>2. IsMap(d) /\ Moves(disk, Item.final, Item.src, d)
      BY <3>1, RenamedMap
    <3>3. d = Renamed(disk, Item.final, Item.src)
      OBVIOUS
    <3> HIDE DEF d
    <3>4. /\ Item.final \notin DOMAIN d
          /\ \A p : p.at = "staging" =>
                (p \in DOMAIN d <=> p \in DOMAIN disk) /\ (p \in DOMAIN disk => d[p] = disk[p])
          /\ \A p \in DOMAIN d : p \in DOMAIN disk \/ p.at \in standing
      BY <1>3, <3>1, <3>2 DEF Moves
    <3> QED
      BY <3>1, <3>2, <3>3, <3>4
  <2>2. CASE RemoveCopy
    <3> DEFINE d == Without(disk, {Item.final})
    <3>1. /\ PutBack(d, Item.staged, Item.final, disk') /\ verb # "move"
          /\ IF Item.staged \in DOMAIN disk /\ disk' = d THEN run' = Next1 ELSE Reverted
      BY <2>2 DEF RemoveCopy, Exists
    <3>2. d = [p \in DOMAIN disk \ {Item.final} |-> disk[p]] /\ DOMAIN d = DOMAIN disk \ {Item.final}
      BY DEF Without, Restrict
    <3>3. d = Without(disk, {Item.final})
      OBVIOUS
    <3> HIDE DEF d
    <3>4. IsMap(d) /\ \A p \in DOMAIN d : d[p] = disk[p]
      BY <3>2 DEF IsMap
    <3>5. /\ Item.final \notin DOMAIN d
          /\ \A p : p.at = "staging" =>
                (p \in DOMAIN d <=> p \in DOMAIN disk) /\ (p \in DOMAIN disk => d[p] = disk[p])
          /\ \A p \in DOMAIN d : p \in DOMAIN disk \/ p.at \in standing
      BY <1>3, <3>2, <3>4
    <3> QED
      BY <3>1, <3>3, <3>4, <3>5
  <2> QED
    BY <2>1, <2>2
<1>6. /\ Item.staged \in DOMAIN disk <=> Item.staged # NoPath /\ Item.staged \in DOMAIN d
      /\ Item.staged \in DOMAIN disk => disk' = Renamed(d, Item.staged, Item.final)
      /\ Item.staged \notin DOMAIN disk => disk' = d
  BY <1>3, <1>4, <1>5 DEF PutBack
<1>7. Item.staged \in DOMAIN disk =>
          IsMap(disk') /\ Moves(d, Item.staged, Item.final, disk')
  BY <1>5, <1>6, RenamedMap
<1>8. Reverted
  <2>1. Item.staged \in DOMAIN disk => disk' # d
    BY <1>5, <1>7 DEF Moves
  <2> QED
    BY <1>5, <2>1
<1>9. Standing'
  BY <1>1, <1>3, <1>5, <1>6, <1>7 DEF Standing, Moves
<1>10. Asides(disk') = Asides(disk) \ {Item.staged}
  <2>1. CASE Item.staged \in DOMAIN disk
    BY <1>3, <1>5, <1>6, <1>7, <2>1 DEF Asides, Moves
  <2>2. CASE Item.staged \notin DOMAIN disk
    BY <1>5, <1>6, <2>2 DEF Asides
  <2> QED
    BY <2>1, <2>2
<1>11. \A p \in DOMAIN disk' : p.at = "staging" => p \in DOMAIN disk /\ disk'[p] = disk[p]
  BY <1>3, <1>5, <1>6, <1>7 DEF Moves
<1>12. ASSUME NEW b, Lands(b, Item, disk) PROVE disk' = b
  <2>1. CASE verb = "move"
    BY <1>2, <1>5, <1>12, <2>1, MovesBack
  <2>2. CASE verb # "move"
    <3>1. PutBack(Without(disk, {Item.final}), Item.staged, Item.final, disk')
      BY <1>5, <2>2
    <3>2. \A c \in Dones : Lands(b, c, disk) =>
             \A f : PutBack(Without(disk, {c.final}), c.staged, c.final, f) => f = b
      BY <2>2, CopyGoes
    <3> QED
      BY <1>2, <1>12, <3>1, <3>2
  <2> QED
    BY <2>1, <2>2
<1> QED
  BY <1>1, <1>2, <1>8, <1>9, <1>10, <1>11, <1>12

LEMMA TakenBackTells ==
    ASSUME Kept, More, Mishaps = {}, MoveBack \/ RemoveCopy
    PROVE  More'
<1> DEFINE k == Len(run.completed)
           t == Len(run.todo)
<1>1. /\ at = "running" /\ at' = "running" /\ run.doing = "undo" /\ run.todo # <<>>
      /\ UNCHANGED <<standing, verb, merged, record, before, after, clean, touched>>
      /\ Item \in Dones /\ Reverted /\ Standing' /\ Asides(disk') = Asides(disk) \ {Item.staged}
      /\ \A p \in DOMAIN disk' : p.at = "staging" => p \in DOMAIN disk /\ disk'[p] = disk[p]
      /\ \A b : Lands(b, Item, disk) => disk' = b
  BY TakenBackIs DEF More
<1>2. /\ run \in Runs /\ run.completed \in Seq(Dones) /\ run.todo \in Seq(Dones)
      /\ record.state = "applied" /\ Rec \in Seq(Dones) /\ Rec' = Rec /\ ~ Executing
      /\ Len(Rec) \in Nat /\ DOMAIN Rec = 1..Len(Rec)
  BY <1>1, LenProperties DEF Kept, Typed, Runs, Recs, Rec, More, Course, UndoCourse, Executing
<1>3. /\ run'.doing = run.doing /\ run'.pass = run.pass
      /\ run'.completed = Append(run.completed, Item) /\ run'.todo = Tail(run.todo)
  <2>1. Append(run.completed, Item) \in Seq(Dones)
    BY <1>1, <1>2, AppendIs
  <2> QED
    BY <1>1, <2>1, NextIs DEF Reverted, Runs
<1>4. /\ k \in Nat /\ DOMAIN run.completed = 1..k /\ Len(run'.completed) = k + 1
      /\ DOMAIN run'.completed = 1..(k + 1) /\ run'.completed[k + 1] = Item
      /\ \A i \in 1..k : run'.completed[i] = run.completed[i]
  BY <1>1, <1>2, <1>3, AppendIs
<1>5. /\ t \in Nat /\ t > 0 /\ Len(run'.todo) = t - 1 /\ DOMAIN run.todo = 1..t
      /\ DOMAIN run'.todo = 1..(t - 1) /\ Item = run.todo[1]
      /\ \A i \in 1..(t - 1) : run'.todo[i] = run.todo[i + 1]
  BY <1>1, <1>2, <1>3, TailIs DEF Item
<1> HIDE DEF k, t
<1>6. (NotAhead' <=> NotAhead) /\ (OnCourse' <=> OnCourse)
  <2>1. k + t = (k + 1) + (t - 1)
    BY <1>4, <1>5
  <2> QED
    BY <1>2, <1>3, <1>4, <1>5, <2>1 DEF NotAhead, OnCourse, k, t
<1>7. OnCourse => /\ Len(Rec) = k + t /\ Item = Rec[t] /\ t \in DOMAIN Rec
                  /\ \A i \in 1..k : run.completed[i] = Rec[Len(Rec) + 1 - i]
                  /\ \A i \in 1..t : run.todo[i] = Rec[t + 1 - i]
  <2>1. OnCourse => /\ Len(Rec) = k + t
                    /\ \A i \in 1..k : run.completed[i] = Rec[Len(Rec) + 1 - i]
                    /\ \A i \in 1..t : run.todo[i] = Rec[t + 1 - i]
    BY <1>1, <1>4, <1>5 DEF More, Course, UndoCourse, OnCourse, k, t
  <2>2. 1 \in 1..t /\ t + 1 - 1 = t /\ t \in 1..(k + t)
    BY <1>4, <1>5
  <2> QED
    BY <1>2, <1>5, <2>1, <2>2
<1>8. ToldNow'
  BY <1>1, <1>2, <1>3 DEF ToldNow, Executing
<1>9. ToldOnRecord'
  <2>1. Lone(Rec) /\ \A i \in DOMAIN Rec : Tells(Rec[i], record.stagings) /\ HoldsIf(disk, Rec[i])
    BY <1>2 DEF More, ToldOnRecord
  <2>2. \A i \in DOMAIN Rec : HoldsIf(disk', Rec[i])
    BY <1>1, <2>1 DEF HoldsIf, Tells
  <2> QED
    BY <1>1, <1>2, <2>1, <2>2 DEF ToldOnRecord
<1>10. Course'
  <2>1. ASSUME OnCourse, NEW i \in 1..(k + 1) PROVE run'.completed[i] = Rec[Len(Rec) + 1 - i]
    <3>1. CASE i \in 1..k
      BY <1>4, <1>7, <2>1, <3>1
    <3>2. CASE i = k + 1
      <4>1. Len(Rec) + 1 - i = t
        BY <1>4, <1>5, <1>7, <2>1, <3>2
      <4> QED
        BY <1>4, <1>7, <2>1, <3>2, <4>1
    <3> QED
      BY <1>4, <3>1, <3>2
  <2>2. ASSUME OnCourse, NEW i \in 1..(t - 1) PROVE run'.todo[i] = Rec[(t - 1) + 1 - i]
    <3>1. i + 1 \in 1..t /\ t + 1 - (i + 1) = (t - 1) + 1 - i
      BY <1>5
    <3> QED
      BY <1>5, <1>7, <2>2, <3>1
  <2>3. UndoCourse'
    BY <1>1, <1>2, <1>3, <1>4, <1>5, <1>6, <2>1, <2>2 DEF More, Course, UndoCourse
  <2> QED
    BY <1>1, <1>3, <2>3 DEF Course, RedoCourse
<1>11. run'.completed # <<>>
  BY <1>4
<1>12. StagesWhole'
  <2> SUFFICES ASSUME clean, OnCourse PROVE Asides(disk') = Stages(Tail(run.todo))
    BY <1>1, <1>2, <1>3, <1>6, <1>11 DEF StagesWhole, Executing
  <2>1. Asides(disk) = Stages(run.todo)
    BY <1>1 DEF More, StagesWhole
  <2>2. Lone(run.todo)
    <3> SUFFICES ASSUME NEW i \in 1..t, NEW j \in 1..t, run.todo[i].staged # NoPath,
                        run.todo[i].staged = run.todo[j].staged
                 PROVE  i = j
      BY <1>5 DEF Lone
    <3>1. t + 1 - i \in DOMAIN Rec /\ t + 1 - j \in DOMAIN Rec
      BY <1>2, <1>4, <1>5, <1>7
    <3>2. Rec[t + 1 - i].staged = Rec[t + 1 - j].staged /\ Rec[t + 1 - i].staged # NoPath
      BY <1>7
    <3>3. Lone(Rec)
      BY <1>2 DEF More, ToldOnRecord
    <3>4. t + 1 - i = t + 1 - j
      BY <3>1, <3>2, <3>3 DEF Lone
    <3> QED
      BY <1>5, <3>4
  <2> QED
    BY <1>1, <1>2, <2>1, <2>2, StagesTail DEF Item
<1>13. ASSUME clean', ~ touched'
       PROVE  ViewDone' /\ ViewApplied' /\ ViewUndone' /\ ViewUndoing' /\ ViewRedoing'
  <2>1. ViewUndoing
    BY <1>1, <1>13 DEF More, Views
  <2>2. PICK h : Spans(h, Rec) /\ (OnCourse => disk = h[t])
    BY <1>1, <2>1 DEF ViewUndoing, t
  <2>3. Spans(h, Rec)'
    BY <1>1, <1>2, <2>2, ChainStays DEF Spans
  <2>4. OnCourse => disk' = h[t - 1]
    <3> SUFFICES ASSUME OnCourse PROVE disk' = h[t - 1]
      OBVIOUS
    <3>1. Lands(h[t - 1], Rec[t], h[t])
      BY <1>7, <2>2 DEF Spans, Chain
    <3> QED
      BY <1>1, <1>7, <2>2, <3>1
  <2>5. ViewUndoing'
    BY <1>5, <1>6, <1>11, <2>3, <2>4 DEF ViewUndoing
  <2> QED
    BY <1>1, <1>3, <2>5 DEF ViewDone, ViewApplied, ViewUndone, ViewRedoing
<1> QED
  BY <1>1, <1>8, <1>9, <1>10, <1>12, <1>13 DEF More, Views

--------------------------------------------------------------------------------
(* The ends of the passes. *)

\* The disk stays, and so does what was done so far; a second pass is on no course.
LEMMA PassTells ==
    ASSUME Kept, More, at \in {"running", "offered"}, at' \in {"running", "offered", "ended"},
           UNCHANGED <<disk, verb, merged, record, before, after, clean, touched>>, Standing',
           run'.doing = run.doing, run'.completed = run.completed,
           \A i \in DOMAIN run.completed : Told(i) \subseteq Told(i)',
           run'.pass = 1 => run.pass = 1 /\ run'.todo = run.todo,
           at' \in {"offered", "ended"} => run'.todo = <<>>
    PROVE  More'
<1>1. Rec' = Rec /\ (NotAhead => NotAhead') /\ (OnCourse' => OnCourse /\ run'.todo = run.todo)
  BY DEF Rec, NotAhead, OnCourse
<1>2. ToldNow'
  BY DEF More, ToldNow, Executing, Tells, Holds
<1>3. ToldOnRecord'
  BY <1>1 DEF More, ToldOnRecord, HoldsIf
<1>4. Course'
  BY <1>1 DEF More, Course, UndoCourse, RedoCourse
<1>5. StagesWhole'
  BY <1>1 DEF More, StagesWhole, Executing, Aside
<1>6. ASSUME clean', ~ touched'
      PROVE  ViewDone' /\ ViewApplied' /\ ViewUndone' /\ ViewUndoing' /\ ViewRedoing'
  <2>1. ViewDone /\ ViewUndoing /\ ViewRedoing
    BY <1>6 DEF More, Views
  <2>2. \A d : Base(d)' <=> Base(d)
    BY DEF Base
  <2>3. \A h, cs : Spans(h, cs)' <=> Spans(h, cs)
    BY ChainStays DEF Spans
  <2>4. ViewDone'
    BY <2>1, <2>2, ChainStays DEF ViewDone
  <2>5. ViewApplied' /\ ViewUndone'
    BY DEF ViewApplied, ViewUndone
  <2>6. ViewUndoing'
    BY <1>1, <2>1, <2>3 DEF ViewUndoing
  <2>7. ViewRedoing'
    BY <1>1, <2>1, <2>2, <2>3, ChainStays DEF ViewRedoing
  <2> QED
    BY <2>4, <2>5, <2>6, <2>7
<1> QED
  BY <1>2, <1>3, <1>4, <1>5, <1>6 DEF More, Views

LEMMA PrunesTells ==
    ASSUME Kept, More, Prunes
    PROVE  More'
<1>1. /\ at = "running" /\ at' \in {"offered", "ended"} /\ run.pass = 1 /\ run.todo = <<>>
      /\ UNCHANGED <<disk, verb, merged, record, before, after, clean, touched>>
      /\ run \in Runs /\ run.stagings = {} /\ run.first = 0
  BY DEF Prunes, PassOver, planVars, historyVars, userVars, Kept, Typed, Passes, Working
<1>2. PICK gone \in SUBSET Emptied :
          /\ standing' = standing \ gone
          /\ run' = [run EXCEPT !.pruned = gone,
                                !.stagings = IF run.staging = 0 THEN {} ELSE {run.staging}]
  BY DEF Prunes
<1>3. /\ run'.doing = run.doing /\ run'.completed = run.completed /\ run'.pass = run.pass
      /\ run'.todo = run.todo /\ run'.stagings = IF run.staging = 0 THEN {} ELSE {run.staging}
  BY <1>1, <1>2 DEF Runs
<1>4. \A p \in DOMAIN disk : p.at \notin gone
  BY <1>2 DEF Emptied, InFolder
<1>5. Standing'
  BY <1>1, <1>2, <1>4 DEF More, Standing
<1>6. \A i \in DOMAIN run.completed : Told(i) \subseteq Told(i)'
  <2>1. \A i \in DOMAIN run.completed : i > 0 /\ i <= Len(run.completed)
    BY <1>1, LenProperties DEF Runs
  <2> QED
    BY <1>1, <1>3, <2>1 DEF Told, FromBefore, Working
<1> QED
  BY <1>1, <1>3, <1>5, <1>6, PassTells

LEMMA OfferedTells ==
    ASSUME Kept, More, Declined \/ Accepted
    PROVE  More'
<1>1. /\ at = "offered" /\ at' \in {"running", "ended"}
      /\ UNCHANGED <<disk, standing, verb, merged, record, before, after, clean, touched>>
      /\ run \in Runs /\ run.todo = <<>>
  BY DEF Declined, Accepted, SameDisk, SameRun, diskVars, planVars, historyVars, userVars,
         Kept, Typed, More, Course
<1>2. Standing'
  BY <1>1 DEF More, Standing
<1>3. \A i \in DOMAIN run.completed : i <= Len(run.completed)
  BY <1>1, LenProperties DEF Runs
<1>4. CASE Declined
  <2>1. at' = "ended" /\ run' = run
    BY <1>4 DEF Declined
  <2>2. \A i \in DOMAIN run.completed : Told(i) \subseteq Told(i)'
    BY <1>1, <2>1 DEF Told, FromBefore, Working
  <2> QED
    BY <1>1, <1>2, <2>1, <2>2, PassTells
<1>5. CASE Accepted
  <2>1. /\ at' = "running" /\ run'.doing = run.doing /\ run'.completed = run.completed
        /\ run'.pass = 2 /\ run'.first = Len(run.completed) /\ run'.stagings = run.stagings
    BY <1>1, <1>5 DEF Accepted, Runs
  <2>2. \A i \in DOMAIN run.completed : Told(i) \subseteq Told(i)'
    BY <1>1, <1>3, <2>1 DEF Told, FromBefore, Working
  <2> QED
    BY <1>1, <1>2, <2>1, <2>2, PassTells
<1> QED
  BY <1>4, <1>5

LEMMA HelperLostTells ==
    ASSUME Kept, More, HelperLost
    PROVE  More'
<1>1. /\ at \in {"running", "writing"} /\ at' = "ended" /\ run.pass = 2 /\ ~ clean'
      /\ UNCHANGED <<disk, standing, verb, merged, record>>
      /\ run' = [run EXCEPT !.completed = First, !.todo = <<>>] /\ run \in Runs
  BY DEF HelperLost, SameDisk, diskVars, planVars, Kept, Typed
<1>2. /\ run'.doing = run.doing /\ run'.completed = First /\ run'.pass = 2 /\ run'.todo = <<>>
      /\ run'.stagings = run.stagings
  BY <1>1 DEF Runs
<1>3. /\ DOMAIN First = 1..run.first /\ DOMAIN run.completed = 1..Len(run.completed)
      /\ \A i \in 1..run.first : First[i] = run.completed[i] /\ i \in DOMAIN run.completed
      /\ Len(First) = run.first
  <2>1. run.first <= Len(run.completed)
    BY DEF Kept, Passes
  <2> QED
    BY <2>1, FirstIs
<1>4. Standing' /\ StagesWhole' /\ Views'
  BY <1>1 DEF More, Standing, StagesWhole, Views
<1>5. ToldNow'
  <2>1. \A i \in 1..run.first : Told(i) = run.stagings /\ Told(i)' = run.stagings
    BY <1>1, <1>2, <1>3 DEF Told, FromBefore, Working
  <2> QED
    BY <1>1, <1>2, <1>3, <2>1 DEF More, ToldNow, Executing, Tells, Holds, Lone
<1>6. ToldOnRecord'
  BY <1>1 DEF More, ToldOnRecord, HoldsIf, Rec
<1>7. Course'
  BY <1>1, <1>2 DEF More, Course, UndoCourse, RedoCourse, NotAhead, OnCourse
<1> QED
  BY <1>4, <1>5, <1>6, <1>7 DEF More

\* The first chain is the disk as it is.
LEMMA StartsTells ==
    ASSUME Kept, More, Starts
    PROVE  More'
<1>1. /\ at = "planned" /\ at' = "running" /\ run' = run /\ before' = Looks(disk)
      /\ UNCHANGED <<disk, standing, verb, merged, record, clean, touched>>
      /\ run.completed = <<>> /\ run.doing = "do" /\ IsMap(disk) /\ run.staging = 0
  BY DEF Starts, diskVars, planVars, userVars, Kept, Passes, Typed, Runs, Doings, More, Course,
         UndoCourse, RedoCourse, Standing
<1>2. Standing' /\ ToldNow' /\ ToldOnRecord'
  BY <1>1 DEF More, Standing, ToldNow, Lone, ToldOnRecord, HoldsIf, Rec
<1>3. Course'
  BY <1>1 DEF Course, UndoCourse, RedoCourse
<1>4. StagesWhole'
  BY <1>1 DEF More, StagesWhole, Executing, Aside
<1>5. ViewDone'
  <2>1. PICK h : h[0] = disk
    <3>1. [i \in {0} |-> disk][0] = disk
      OBVIOUS
    <3> QED
      BY <3>1
  <2>2. Chain(h, run'.completed) /\ Len(run'.completed) = 0 /\ h[0] = disk'
    BY <1>1, <2>1, ChainNone
  <2>3. Chain(h, run.completed)' /\ Base(h[Len(run.completed)])' /\ Looks(h[0]) = before'
    BY <1>1, <2>1, <2>2, ChainStays DEF Base
  <2> QED
    BY <2>3 DEF ViewDone
<1>6. ViewApplied' /\ ViewUndone' /\ ViewUndoing' /\ ViewRedoing'
  BY <1>1 DEF ViewApplied, ViewUndone, ViewUndoing, ViewRedoing
<1> QED
  BY <1>2, <1>3, <1>4, <1>5, <1>6 DEF More, Views

LEMMA HelperAnswersTells ==
    ASSUME Kept, More, HelperAnswers
    PROVE  More'
<1> DEFINE n == Len(run.completed)
<1>1. /\ at = "running" /\ at' = "ended" /\ run.pass = 2 /\ run.todo = <<>>
      /\ UNCHANGED <<disk, standing, verb, merged, record, before, after, clean, touched>>
      /\ run \in Runs /\ n \in Nat /\ DOMAIN run.completed = 1..n /\ run.first \in Nat
  BY LenProperties DEF HelperAnswers, PassOver, SameDisk, SameRun, diskVars, planVars, historyVars,
         userVars, Kept, Typed, Runs
<1>2. /\ run'.completed \in Seq(Dones) /\ Len(run'.completed) = n
      /\ DOMAIN run'.completed = 1..n
      /\ run'.doing = run.doing /\ run'.pass = run.pass /\ run'.first = run.first
      /\ run'.todo = run.todo
      /\ run'.stagings = run.stagings \union (IF run.staging = 0 THEN {} ELSE {run.staging})
  BY AnsweredIs
<1>3. Executing => \A i \in 1..n : SameItem(run'.completed[i], run.completed[i])
  <2> SUFFICES ASSUME Executing, NEW i \in 1..n
               PROVE  SameItem(run'.completed[i], run.completed[i])
    OBVIOUS
  <2>1. CASE i <= run.first
    <3>1. i \in 1..run.first
      BY <1>1, <2>1
    <3> QED
      BY <3>1, AnsweredIs DEF SameItem
  <2>2. CASE i > run.first
    BY <1>1, <2>2, AnsweredIs
  <2> QED
    BY <1>1, <2>1, <2>2
<1> HIDE DEF n
<1>4. run'.completed = <<>> <=> run.completed = <<>>
  <2>1. run'.completed = <<>> <=> n = 0
    BY <1>2, EmptySeq
  <2>2. run.completed = <<>> <=> n = 0
    BY <1>1, EmptySeq DEF n, Runs
  <2> QED
    BY <2>1, <2>2
<1>5. Executing => /\ Stages(run'.completed) = Stages(run.completed)
                   /\ Lone(run.completed) => Lone(run'.completed)
  <2>1. Executing => /\ DOMAIN run.completed = DOMAIN run'.completed
                     /\ \A i \in DOMAIN run.completed : run.completed[i].staged = run'.completed[i].staged
    BY <1>1, <1>2, <1>3 DEF SameItem
  <2> QED
    BY <2>1, StagesSame
<1>6. Rec' = Rec /\ Standing' /\ ToldOnRecord'
  BY <1>1 DEF More, Standing, Rec, ToldOnRecord, HoldsIf
<1>7. ToldNow'
  <2>1. \A i \in 1..n : Told(i) \subseteq Told(i)'
    BY <1>1, <1>2 DEF Told, FromBefore, Working, n
  <2>2. Executing =>
            \A i \in 1..n : Tells(run.completed[i], Told(i)) /\ Holds(disk, run.completed[i])
    BY <1>1 DEF More, ToldNow
  <2>3. Executing =>
            \A i \in 1..n : Tells(run'.completed[i], Told(i)') /\ Holds(disk', run'.completed[i])
    BY <1>1, <1>3, <2>1, <2>2 DEF Tells, Holds, SameItem
  <2> QED
    BY <1>1, <1>2, <1>5, <2>3 DEF More, ToldNow, Executing
<1>8. Course'
  BY <1>1, <1>2, <1>6 DEF More, Course, UndoCourse, RedoCourse, NotAhead, OnCourse
<1>9. StagesWhole'
  BY <1>1, <1>2, <1>4, <1>5, <1>6 DEF More, StagesWhole, Executing, Aside, OnCourse
<1>10. ASSUME clean', ~ touched'
       PROVE  ViewDone' /\ ViewApplied' /\ ViewUndone' /\ ViewUndoing' /\ ViewRedoing'
  <2>1. ViewDone /\ ViewUndoing /\ ViewRedoing
    BY <1>1, <1>10 DEF More, Views
  <2>2. \A d : Base(d)' <=> Base(d)
    BY <1>1 DEF Base
  <2>3. \A h, cs : Spans(h, cs)' <=> Spans(h, cs)
    BY <1>1, ChainStays DEF Spans
  <2>4. ViewDone'
    <3> SUFFICES ASSUME run.doing = "do" PROVE ViewDone'
      BY <1>2 DEF ViewDone
    <3>1. PICK h : Chain(h, run.completed) /\ Looks(h[0]) = before /\ Base(h[n])
      BY <1>1, <2>1 DEF ViewDone, n
    <3>2. \A i \in 1..n : SameItem(run'.completed[i], run.completed[i])
      BY <1>3 DEF Executing
    <3>3. Chain(h, run'.completed)
      BY <1>1, <1>2, <3>1, <3>2, ChainSame DEF SameItem
    <3>4. Chain(h, run.completed)' /\ Base(h[Len(run.completed)])' /\ Looks(h[0]) = before'
      BY <1>1, <1>2, <2>2, <3>1, <3>3, ChainStays
    <3> QED
      BY <3>4 DEF ViewDone
  <2>5. ViewApplied' /\ ViewUndone'
    BY <1>1 DEF ViewApplied, ViewUndone
  <2>6. ViewUndoing'
    BY <1>1, <1>2, <1>4, <1>6, <2>1, <2>3 DEF ViewUndoing, OnCourse
  <2>7. ViewRedoing'
    BY <1>1, <1>2, <1>4, <1>6, <2>1, <2>2, <2>3 DEF ViewRedoing, OnCourse
  <2> QED
    BY <2>4, <2>5, <2>6, <2>7
<1> QED
  BY <1>6, <1>7, <1>8, <1>9, <1>10 DEF More, Views

--------------------------------------------------------------------------------
(* The record. *)

\* Between operations there is the record alone.
LEMMA IdleTells ==
    ASSUME run' = NoPass, at' \in {"idle", "over"}, Standing', ToldOnRecord',
           clean' /\ at' = "idle" /\ record'.state = "applied" => Asides(disk') = Stages(Rec'),
           clean' /\ at' = "idle" /\ record'.state = "undone" => Asides(disk') = {},
           clean' /\ ~ touched' => ViewApplied' /\ ViewUndone'
    PROVE  More'
<1>1. run'.doing = "do" /\ run'.completed = <<>> /\ run'.todo = <<>>
  BY DEF NoPass, Pass
<1>2. ToldNow' /\ Course'
  BY <1>1 DEF ToldNow, Lone, Course, UndoCourse, RedoCourse
<1>3. StagesWhole'
  BY <1>1 DEF StagesWhole
<1>4. ViewDone' /\ ViewUndoing' /\ ViewRedoing'
  BY <1>1 DEF ViewDone, ViewUndoing, ViewRedoing
<1> QED
  BY <1>2, <1>3, <1>4 DEF More, Views

\* What the run knew, the record knows.
LEMMA AppliedTells ==
    ASSUME Kept, More, at = "ended", Executing, record' = Applied, disk' = disk
    PROVE  ToldOnRecord'
<1>1. Rec' = run.completed /\ record'.stagings = run.stagings
  BY DEF Applied, Rec
<1>2. \A i \in DOMAIN run.completed : Told(i) = run.stagings
  <2>1. \A i \in DOMAIN run.completed : i <= Len(run.completed)
    BY LenProperties DEF Kept, Typed, Runs
  <2> QED
    BY <2>1 DEF Told, FromBefore, Working
<1>3. /\ Lone(run.completed)
      /\ \A i \in DOMAIN run.completed : /\ Tells(run.completed[i], run.stagings)
                                        /\ HoldsIf(disk, run.completed[i])
  BY <1>2 DEF More, ToldNow, Holds, HoldsIf
<1> QED
  BY <1>1, <1>3 DEF ToldOnRecord

LEMMA RecordsTells ==
    ASSUME Kept, More, Records
    PROVE  More'
<1>1. /\ at = "ended" /\ run.doing = "do" /\ run' = NoPass /\ after' = Looks(disk) /\ Executing
      /\ UNCHANGED <<disk, standing, verb, merged, before, clean, touched>>
      /\ record.state # "applied"
      /\ \/ at' = "over" /\ record' = record
         \/ at' = "idle" /\ record' = Applied
  BY DEF Records, Ended, SameDisk, diskVars, planVars, userVars, Executing, Kept, Passes
<1>2. Standing'
  BY <1>1 DEF More, Standing
<1>3. CASE at' = "over" /\ record' = record
  <2>1. ToldOnRecord' /\ ViewApplied' /\ ViewUndone'
    BY <1>1, <1>3 DEF ToldOnRecord, ViewApplied, ViewUndone
  <2> QED
    BY <1>1, <1>2, <1>3, <2>1, IdleTells
<1>4. CASE at' = "idle" /\ record' = Applied
  <2>1. Rec' = run.completed /\ record'.state = "applied"
    BY <1>4 DEF Applied, Rec
  <2>2. ToldOnRecord'
    BY <1>1, <1>4, AppliedTells
  <2>3. clean' => Asides(disk') = Stages(Rec')
    BY <1>1, <2>1 DEF More, StagesWhole, Aside
  <2>4. ASSUME clean', ~ touched' PROVE ViewApplied' /\ ViewUndone'
    <3>1. PICK h : /\ Chain(h, run.completed) /\ Looks(h[0]) = before
                   /\ h[Len(run.completed)] = disk
      BY <1>1, <2>4 DEF More, Views, ViewDone, Base
    <3>2. Chain(h, Rec') /\ h[Len(Rec')] = disk' /\ Looks(h[0]) = before' /\ Looks(h[Len(Rec')]) = after'
      BY <1>1, <2>1, <3>1
    <3>3. Spans(h, Rec)' /\ (disk = h[Len(Rec)])'
      BY <1>1, <3>2, ChainStays DEF Spans
    <3> QED
      BY <2>1, <3>3 DEF ViewApplied, ViewUndone
  <2> QED
    BY <1>1, <1>2, <1>4, <2>1, <2>2, <2>3, <2>4, IdleTells
<1> QED
  BY <1>1, <1>3, <1>4

LEMMA RedoneTells ==
    ASSUME Kept, More, Redone
    PROVE  More'
<1>1. /\ at = "ended" /\ at' = "idle" /\ run.doing = "redo" /\ run' = NoPass /\ Executing
      /\ UNCHANGED <<disk, standing, verb, merged, before, after, touched>>
      /\ record.state = "undone" /\ run.todo = <<>>
      /\ run \in Runs /\ Rec \in Seq(Dones)
      /\ \/ run.completed = <<>> /\ UNCHANGED <<record, clean>>
         \/ record' = Applied /\ clean' = (Whole /\ run.pass = 1)
  BY DEF Redone, Ended, SameDisk, diskVars, planVars, userVars, Executing, More, Course, RedoCourse,
         Kept, Typed, Recs, Rec
<1>2. Standing'
  BY <1>1 DEF More, Standing
<1>3. CASE run.completed = <<>> /\ UNCHANGED <<record, clean>>
  <2>1. record'.state = "undone" /\ ToldOnRecord' /\ Rec' = Rec
    BY <1>1, <1>3 DEF ToldOnRecord, Rec
  <2>2. clean' => Asides(disk') = {}
    BY <1>1, <1>3, StagesNone DEF More, StagesWhole, Aside
  <2>3. ASSUME clean', ~ touched' PROVE ViewApplied' /\ ViewUndone'
    <3>1. PICK h : Spans(h, Reverse(Rec)) /\ Base(h[0])
      BY <1>1, <1>3, <2>3 DEF More, Views, ViewRedoing
    <3>2. Spans(h, Reverse(Rec))' /\ (disk = h[0])'
      BY <1>1, <2>1, <3>1, ChainStays DEF Spans, Base
    <3> QED
      BY <2>1, <3>2 DEF ViewApplied, ViewUndone
  <2> QED
    BY <1>1, <1>2, <2>1, <2>2, <2>3, IdleTells
<1>4. CASE record' = Applied /\ clean' = (Whole /\ run.pass = 1)
  <2>1. Rec' = run.completed /\ record'.state = "applied"
    BY <1>4 DEF Applied, Rec
  <2>2. ToldOnRecord'
    BY <1>1, <1>4, AppliedTells
  <2>3. clean' => clean /\ run.pass = 1 /\ Len(run.completed) = Len(Rec) /\ OnCourse
    <3>1. clean' => clean /\ run.pass = 1 /\ Len(run.completed) = Len(Rec)
      BY <1>4, Zenon DEF Whole, Rec
    <3>2. Len(run.completed) + Len(run.todo) = Len(run.completed)
      BY <1>1, LenProperties DEF Runs
    <3> QED
      BY <3>1, <3>2 DEF OnCourse
  <2>4. clean' => Asides(disk') = Stages(Rec')
    BY <1>1, <2>1, <2>3 DEF More, StagesWhole, Aside
  <2>5. ASSUME clean', ~ touched' PROVE ViewApplied' /\ ViewUndone'
    <3>1. PICK h, g : /\ Spans(h, Reverse(Rec)) /\ g[0] = h[0] /\ Chain(g, run.completed)
                      /\ Base(g[Len(run.completed)])
                      /\ Looks(g[Len(run.completed)]) = Looks(h[Len(run.completed)])
      BY <1>1, <2>3, <2>5 DEF More, Views, ViewRedoing
    <3>2. Len(Reverse(Rec)) = Len(Rec')
      BY <1>1, <2>1, <2>3, <2>5, ReverseIs
    <3>3. Chain(g, Rec') /\ g[Len(Rec')] = disk' /\ Looks(g[0]) = before' /\ Looks(g[Len(Rec')]) = after'
      BY <1>1, <2>1, <3>1, <3>2 DEF Spans, Base
    <3>4. Spans(g, Rec)' /\ (disk = g[Len(Rec)])'
      BY <1>1, <3>3, ChainStays DEF Spans
    <3> QED
      BY <2>1, <3>4 DEF ViewApplied, ViewUndone
  <2> QED
    BY <1>1, <1>2, <2>1, <2>2, <2>4, <2>5, IdleTells
<1> QED
  BY <1>1, <1>3, <1>4

\* What an undo takes back is the record's items, the last first.
LEMMA UndoneTells ==
    ASSUME Kept, More, Undone
    PROVE  More'
<1>1. /\ at = "ended" /\ at' = "idle" /\ run.doing = "undo" /\ run' = NoPass
      /\ UNCHANGED <<disk, standing, verb, merged, before, after, touched>>
      /\ record.state = "applied" /\ run.todo = <<>>
      /\ run \in Runs /\ Rec \in Seq(Dones)
      /\ \/ run.completed = <<>> /\ UNCHANGED <<record, clean>>
         \/ /\ record' = [record EXCEPT !.state = "undone", !.completed = run.completed, !.stagings = {}]
            /\ record \in Recs
            /\ clean' = (Whole /\ run.pass = 1)
  BY DEF Undone, Ended, SameDisk, diskVars, planVars, userVars, More, Course, UndoCourse,
         Kept, Typed, Recs, Rec
<1>2. Standing'
  BY <1>1 DEF More, Standing
<1>3. CASE run.completed = <<>> /\ UNCHANGED <<record, clean>>
  <2>1. record'.state = "applied" /\ ToldOnRecord' /\ Rec' = Rec
    BY <1>1, <1>3 DEF More, ToldOnRecord, HoldsIf, Rec
  <2>2. clean' => Asides(disk') = Stages(Rec')
    BY <1>1, <1>3, <2>1 DEF More, StagesWhole
  <2>3. ASSUME clean', ~ touched' PROVE ViewApplied' /\ ViewUndone'
    <3>1. PICK h : Spans(h, Rec) /\ disk = h[Len(Rec)]
      BY <1>1, <1>3, <2>3 DEF More, Views, ViewUndoing
    <3>2. Spans(h, Rec)' /\ (disk = h[Len(Rec)])'
      BY <1>1, <2>1, <3>1, ChainStays DEF Spans
    <3> QED
      BY <2>1, <3>2 DEF ViewApplied, ViewUndone
  <2> QED
    BY <1>1, <1>2, <2>1, <2>2, <2>3, IdleTells
<1>4. CASE /\ record' = [record EXCEPT !.state = "undone", !.completed = run.completed, !.stagings = {}]
           /\ record \in Recs
           /\ clean' = (Whole /\ run.pass = 1)
  <2>1. Rec' = run.completed /\ record'.state = "undone" /\ ToldOnRecord'
    BY <1>4 DEF Recs, Rec, ToldOnRecord
  <2>2. /\ Len(<<>>) = 0 /\ Len(Rec) \in Nat /\ DOMAIN Rec = 1..Len(Rec)
        /\ run.completed \in Seq(Dones) /\ DOMAIN run.completed = 1..Len(run.completed)
    BY <1>1, LenProperties DEF Runs
  <2>3. clean' => clean /\ run.pass = 1 /\ Len(run.completed) = Len(Rec) /\ OnCourse
    <3>1. clean' => clean /\ run.pass = 1 /\ Len(run.completed) = Len(Rec)
      BY <1>4, Zenon DEF Whole, Rec
    <3>2. Len(run.completed) + Len(run.todo) = Len(run.completed)
      BY <1>1, LenProperties DEF Runs
    <3> QED
      BY <3>1, <3>2 DEF OnCourse
  <2>4. clean' => Asides(disk') = {}
    BY <1>1, <2>3, StagesNone DEF More, StagesWhole
  <2>5. ASSUME clean', ~ touched' PROVE ViewApplied' /\ ViewUndone'
    <3>1. PICK h : Spans(h, Rec) /\ disk = h[Len(run.todo)]
      BY <1>1, <2>3, <2>5 DEF More, Views, ViewUndoing
    <3> DEFINE back == Reverse(run.completed)
    <3>2. /\ DOMAIN back = 1..Len(Rec) /\ Len(back) = Len(Rec)
          /\ \A i \in 1..Len(Rec) : /\ Len(Rec) - i + 1 \in 1..Len(Rec)
                                    /\ back[i] = run.completed[Len(Rec) - i + 1]
      BY <2>2, <2>3, <2>5, ReverseIs
    <3>3. \A i \in 1..Len(Rec) : run.completed[i] = Rec[Len(Rec) + 1 - i]
      BY <1>1, <2>2, <2>3, <2>5 DEF More, Course, UndoCourse
    <3>4. \A i \in 1..Len(Rec) : back[i] = Rec[i]
      <4> SUFFICES ASSUME NEW i \in 1..Len(Rec) PROVE back[i] = Rec[i]
        OBVIOUS
      <4>1. Len(Rec) - i + 1 \in 1..Len(Rec) /\ back[i] = run.completed[Len(Rec) - i + 1]
        BY <3>2
      <4>2. Len(Rec) + 1 - (Len(Rec) - i + 1) = i
        BY <2>2
      <4> QED
        BY <3>3, <4>1, <4>2
    <3> HIDE DEF back
    <3>5. Chain(h, back)
      BY <2>2, <3>1, <3>2, <3>4, ChainSame DEF Spans
    <3>6. /\ Chain(h, Reverse(Rec')) /\ disk' = h[0]
          /\ Looks(h[0]) = before' /\ Looks(h[Len(Reverse(Rec'))]) = after'
      BY <1>1, <2>1, <2>2, <3>1, <3>2, <3>5 DEF Spans, back
    <3>7. Spans(h, Reverse(Rec))' /\ (disk = h[0])'
      BY <1>1, <3>6, ChainStays DEF Spans
    <3> QED
      BY <2>1, <3>7 DEF ViewApplied, ViewUndone
  <2> QED
    BY <1>1, <1>2, <2>1, <2>4, <2>5, IdleTells
<1> QED
  BY <1>1, <1>3, <1>4

\* The items an undo takes back are all of the record's, the last first.
LEMMA UndoBeginsTells ==
    ASSUME Kept, More, UndoBegins
    PROVE  More'
<1>1. /\ at = "idle" /\ at' = "running" /\ record.state = "applied"
      /\ run' = Pass("undo", Reverse(Rec), {}) /\ standing \subseteq standing'
      /\ Rec \in Seq(Dones)
      /\ UNCHANGED <<disk, verb, merged, record, before, after, clean, touched>>
  BY DEF UndoBegins, UndoOrder, planVars, userVars, Kept, Typed, Recs, Rec
<1> DEFINE n == Len(Rec)
<1>2. /\ n \in Nat /\ DOMAIN Rec = 1..n
      /\ Len(Reverse(Rec)) = n /\ DOMAIN Reverse(Rec) = 1..n
      /\ \A i \in 1..n : Reverse(Rec)[i] = Rec[n - i + 1]
  BY <1>1, ReverseIs, LenProperties
<1>3. /\ run'.doing = "undo" /\ run'.completed = <<>> /\ run'.pass = 1 /\ run'.todo = Reverse(Rec)
  BY <1>1 DEF Pass
<1>4. Rec' = Rec /\ Len(run'.todo) = n /\ Len(run'.completed) = 0
  BY <1>1, <1>2, <1>3 DEF Rec
<1> HIDE DEF n
<1>5. Standing' /\ ToldOnRecord'
  BY <1>1, <1>4 DEF More, Standing, ToldOnRecord, HoldsIf
<1>6. ToldNow'
  BY <1>3 DEF ToldNow, Executing
<1>7. Course'
  <2>1. \A i \in 1..n : n - i + 1 = n + 1 - i
    BY <1>2
  <2>2. \A i \in DOMAIN run'.todo : run'.todo[i] = Rec[n + 1 - i]
    BY <1>2, <1>3, <2>1
  <2>3. Len(run'.completed) + Len(run'.todo) <= n
    BY <1>2, <1>4
  <2>4. /\ NotAhead' /\ \A i \in DOMAIN run'.completed : FALSE
        /\ \A i \in DOMAIN run'.todo : run'.todo[i] = Rec'[Len(run'.todo) + 1 - i]
    BY <1>3, <1>4, <2>2, <2>3 DEF NotAhead, n
  <2> QED
    BY <1>1, <1>3, <2>4 DEF Course, UndoCourse, RedoCourse
<1>8. StagesWhole'
  <2>1. clean' => Asides(disk') = Stages(Rec)
    BY <1>1 DEF More, StagesWhole
  <2>2. Stages(run'.todo) = Stages(Rec)
    BY <1>1, <1>3, StagesReverse
  <2> QED
    BY <1>1, <1>3, <1>4, <2>1, <2>2 DEF StagesWhole, Executing
<1>9. ASSUME clean', ~ touched' PROVE ViewUndoing'
  <2>1. PICK h : Spans(h, Rec) /\ disk = h[n]
    BY <1>1, <1>9 DEF More, Views, ViewApplied, n
  <2>2. Chain(h, Rec') /\ disk' = h[n] /\ Looks(h[0]) = before' /\ Looks(h[n]) = after'
    BY <1>1, <1>4, <2>1 DEF Spans, n
  <2>3. Spans(h, Rec)' /\ (disk = h[Len(Rec)])' /\ (disk = h[Len(run.todo)])'
    BY <1>1, <1>4, <2>2, ChainStays DEF Spans, n
  <2> QED
    BY <2>3 DEF ViewUndoing
<1>10. ViewDone' /\ ViewApplied' /\ ViewUndone' /\ ViewRedoing'
  BY <1>1, <1>3 DEF ViewDone, ViewApplied, ViewUndone, ViewRedoing
<1> QED
  BY <1>5, <1>6, <1>7, <1>8, <1>9, <1>10 DEF More, Views

\* Those a redo does again are what the undo took back, the last first: in the order of the
\* operation.
LEMMA RedoBeginsTells ==
    ASSUME Kept, More, RedoBegins
    PROVE  More'
<1>1. /\ at = "idle" /\ at' = "running" /\ record.state = "undone"
      /\ run' = Pass("redo", RedoPlan, IF verb = "move" THEN record.pruned ELSE {})
      /\ Rec \in Seq(Dones)
      /\ UNCHANGED <<disk, standing, verb, merged, record, before, after, clean, touched>>
  BY DEF RedoBegins, SameDisk, diskVars, planVars, userVars, Kept, Typed, Recs, Rec
<1> DEFINE n == Len(Rec)
<1>2. /\ n \in Nat /\ DOMAIN Rec = 1..n
      /\ Len(Reverse(Rec)) = n /\ DOMAIN Reverse(Rec) = 1..n
      /\ \A i \in 1..n : Reverse(Rec)[i] = Rec[n - i + 1]
  BY <1>1, ReverseIs, LenProperties
<1>3. /\ run'.doing = "redo" /\ run'.completed = <<>> /\ run'.pass = 1 /\ run'.todo = RedoPlan
      /\ run'.staging = 0
  BY <1>1 DEF Pass
<1>4. /\ RedoPlan \in Seq(Items) /\ DOMAIN RedoPlan = 1..n
      /\ \A i \in 1..n : RedoPlan[i] = Again(Rec[n - i + 1])
  <2>1. RedoPlan \in Seq(Items)
    BY RedoPlanIs DEF Kept, Typed
  <2>2. RedoPlan = [i \in DOMAIN Reverse(Rec) |-> Again(Reverse(Rec)[i])]
    BY DEF RedoPlan, Again, Rec
  <2> QED
    BY <1>2, <2>1, <2>2
<1>5. Rec' = Rec /\ Len(run'.todo) = n /\ Len(run'.completed) = 0
  <2>1. Len(RedoPlan) \in Nat /\ DOMAIN RedoPlan = 1..Len(RedoPlan)
    BY <1>4, LenProperties
  <2>2. Len(RedoPlan) = n
    BY <1>2, <1>4, <2>1
  <2> QED
    BY <1>1, <1>3, <2>2 DEF Rec
<1> HIDE DEF n
<1>6. Standing' /\ ToldOnRecord'
  BY <1>1, <1>5 DEF More, Standing, ToldOnRecord
<1>7. ToldNow'
  BY <1>1, <1>3 DEF ToldNow, Lone
<1>8. Course'
  <2>1. \A i \in 1..n : n - i + 1 = n + 1 - i
    BY <1>2
  <2>2. \A i \in DOMAIN run'.todo : run'.todo[i] = Again(Rec[n + 1 - i])
    BY <1>3, <1>4, <2>1
  <2>3. Len(run'.completed) + Len(run'.todo) <= n
    BY <1>2, <1>5
  <2> QED
    BY <1>1, <1>3, <1>5, <2>2, <2>3 DEF Course, UndoCourse, RedoCourse, NotAhead, Again, n
<1>9. StagesWhole'
  <2>1. clean' => Asides(disk') = {}
    BY <1>1 DEF More, StagesWhole
  <2> QED
    BY <1>1, <1>3, <2>1, StagesNone DEF StagesWhole, Executing, Aside
<1>10. ASSUME clean', ~ touched' PROVE ViewRedoing'
  <2>1. PICK h : Spans(h, Reverse(Rec)) /\ disk = h[0]
    BY <1>1, <1>10 DEF More, Views, ViewUndone
  <2>2. Spans(h, Reverse(Rec))'
    BY <1>1, <1>5, <2>1, ChainStays DEF Spans
  <2>3. Base(h[0])'
    BY <1>1, <2>1 DEF More, Standing, Base
  <2>4. Chain(h, run.completed)' /\ Len(run.completed)' = 0
    <3>1. Chain(h, run'.completed)
      BY <1>3, ChainNone
    <3> QED
      BY <1>1, <1>5, <3>1, ChainStays
  <2> QED
    BY <2>2, <2>3, <2>4 DEF ViewRedoing
<1>11. ViewDone' /\ ViewApplied' /\ ViewUndone' /\ ViewUndoing'
  BY <1>1, <1>3 DEF ViewDone, ViewApplied, ViewUndone, ViewUndoing
<1> QED
  BY <1>6, <1>7, <1>8, <1>9, <1>10, <1>11 DEF More, Views

\* Nothing is on record any more.
LEMMA RetiresTells ==
    ASSUME Kept, More, Retires
    PROVE  More'
<1>1. /\ at = "idle" /\ at' = "over" /\ record' = NoRecord
      /\ UNCHANGED <<standing, verb, merged, run, before, after, clean, touched>>
      /\ run.completed = <<>> /\ run.doing = "do"
  BY DEF Retires, planVars, Kept, Passes, Typed, Runs, Doings, More, Course, UndoCourse, RedoCourse
<1>2. disk' = disk \/ disk' = Without(disk, InStages(disk, record.stagings))
  BY DEF Retires
<1>3. Standing'
  <2>1. \A ps : IsMap(Without(disk, ps)) /\ DOMAIN Without(disk, ps) \subseteq DOMAIN disk
    BY Zenon DEF Without, Restrict, IsMap
  <2> QED
    BY <1>1, <1>2, <2>1 DEF More, Standing
<1>4. ToldNow' /\ ToldOnRecord' /\ StagesWhole'
  BY <1>1 DEF ToldNow, Lone, ToldOnRecord, StagesWhole, NoRecord
<1>5. Course' /\ Views'
  <2>1. run'.todo = run.todo /\ run'.doing = "do" /\ record'.state = "none"
    BY <1>1 DEF NoRecord
  <2> QED
    BY <1>1, <2>1 DEF Course, UndoCourse, RedoCourse, Views, ViewDone, ViewApplied, ViewUndone,
       ViewUndoing, ViewRedoing
<1> QED
  BY <1>3, <1>4, <1>5 DEF More

--------------------------------------------------------------------------------
(* The user, who touches what he sees, between the passes. *)

\* What he leaves alone.
SeesNoStaging ==
    /\ IsMap(disk') /\ UNCHANGED merged
    /\ \A p \in DOMAIN disk' : p.at \in Folders => p.at \in standing'
    /\ Asides(disk') = Asides(disk)
    /\ \A p \in Asides(disk) : disk'[p].id = disk[p].id

LEMMA MeddlesTells ==
    ASSUME Kept, More, Mishaps = {}, Meddles, SeesNoStaging
    PROVE  More'
<1>1. /\ at \in {"planned", "idle"} /\ touched' = (at # "planned")
      /\ UNCHANGED <<verb, merged, at, run, record, before, after, clean>>
      /\ run.completed = <<>> /\ run.doing = "do" /\ record.completed \in Seq(Dones)
  BY MeddlesBetween DEF Meddles, planVars, Kept, Passes, Typed, Runs, Recs, Doings, More, Course,
     UndoCourse, RedoCourse
<1>2. Standing'
  BY <1>1 DEF More, Standing, SeesNoStaging
<1>3. ToldNow'
  BY <1>1 DEF ToldNow, Lone
<1>4. ToldOnRecord'
  <2>1. Rec' = Rec /\ record'.stagings = record.stagings
    BY <1>1 DEF Rec
  <2>2. ASSUME record.state = "applied", NEW i \in DOMAIN Rec
        PROVE  Tells(Rec[i], record.stagings) /\ HoldsIf(disk', Rec[i])
    <3>1. Tells(Rec[i], record.stagings) /\ HoldsIf(disk, Rec[i])
      BY <2>2 DEF More, ToldOnRecord
    <3> QED
      BY <3>1 DEF Tells, HoldsIf, SeesNoStaging, Asides
  <2> QED
    BY <1>1, <2>1, <2>2 DEF More, ToldOnRecord
<1>5. Course'
  BY <1>1 DEF Course, UndoCourse, RedoCourse
<1>6. StagesWhole'
  <2>1. Asides(disk') = Asides(disk) /\ Rec' = Rec
    BY <1>1 DEF SeesNoStaging, Rec
  <2> QED
    BY <1>1, <2>1 DEF More, StagesWhole, Executing, Aside
<1>7. Views'
  <2>1. at' = "planned" \/ touched'
    BY <1>1
  <2> QED
    BY <1>1, <2>1 DEF Views, ViewDone, ViewApplied, ViewUndone, ViewUndoing, ViewRedoing
<1> QED
  BY <1>2, <1>3, <1>4, <1>5, <1>6, <1>7 DEF More

LEMMA MakesTells ==
    ASSUME Kept, More, Mishaps = {}, Makes
    PROVE  More'
<1>1. PICK f \in standing \union {"destination"}, nm \in Names :
          ~ Exists(In(f, nm)) /\ disk' = With(disk, In(f, nm), New(nextId, nextId, FALSE))
  BY DEF Makes, New, Exists
<1> DEFINE p == In(f, nm)
           x == New(nextId, nextId, FALSE)
<1>2. standing \subseteq Folders /\ standing' = standing /\ Meddles
  BY DEF Kept, Typed, Makes
<1>3. p.at = f /\ p.at # "staging" /\ (p.at \in Folders => p.at \in standing)
      /\ p \notin DOMAIN disk
  BY <1>1, <1>2, FoldersAssumption DEF In, Exists
<1> HIDE DEF p, x
<1>4. disk' = With(disk, p, x)
  BY <1>1 DEF p, x
<1>5. IsMap(disk') /\ Adds(disk, p, x, disk')
  BY <1>3, <1>4, WithMap
<1>6. SeesNoStaging
  BY <1>2, <1>3, <1>5 DEF SeesNoStaging, Adds, Asides, More, Standing, Meddles, planVars
<1> QED
  BY <1>2, <1>6, MeddlesTells

LEMMA EditsTells ==
    ASSUME Kept, More, Mishaps = {}, Edits
    PROVE  More'
<1>1. PICK p \in Visible : disk' = [disk EXCEPT ![p].edited = TRUE, ![p].data = nextId]
  BY DEF Edits
<1>2. standing' = standing /\ Meddles
  BY DEF Edits
<1>3. p \in DOMAIN disk /\ p.at # "staging"
  BY DEF Visible
<1>4. /\ DOMAIN disk' = DOMAIN disk /\ \A q \in DOMAIN disk : q # p => disk'[q] = disk[q]
  BY <1>1, <1>3
<1>5. IsMap(disk')
  BY <1>1, Zenon DEF IsMap
<1>6. SeesNoStaging
  BY <1>2, <1>3, <1>4, <1>5 DEF SeesNoStaging, Asides, More, Standing, Meddles, planVars
<1> QED
  BY <1>2, <1>6, MeddlesTells

LEMMA DeletesTells ==
    ASSUME Kept, More, Mishaps = {}, Deletes \/ RemovesFolder
    PROVE  More'
<1>1. PICK ps : /\ disk' = Without(disk, ps) /\ \A p \in ps : p.at # "staging"
                /\ \/ standing' = standing
                   \/ \E f : standing' = standing \ {f} /\ \A p \in DOMAIN disk : p.at = f => p \in ps
  <2>1. CASE Deletes
    <3>1. PICK p \in Visible : disk' = Without(disk, {p})
      BY <2>1 DEF Deletes
    <3>2. standing' = standing /\ \A q \in {p} : q.at # "staging"
      BY <2>1 DEF Deletes, Visible
    <3> QED
      BY <3>1, <3>2
  <2>2. CASE RemovesFolder
    <3>1. PICK f \in standing : standing' = standing \ {f} /\ disk' = Without(disk, InFolder(disk, f))
      BY <2>2 DEF RemovesFolder
    <3>2. f # "staging"
      BY FoldersAssumption DEF Kept, Typed
    <3>3. /\ \A p \in InFolder(disk, f) : p.at # "staging"
          /\ \A p \in DOMAIN disk : p.at = f => p \in InFolder(disk, f)
      BY <3>2 DEF InFolder
    <3> QED
      BY <3>1, <3>3
  <2> QED
    BY <2>1, <2>2
<1>2. Meddles
  BY DEF Deletes, RemovesFolder
<1>3. Drops(disk, ps, disk')
  BY <1>1, WithoutIs DEF Kept
<1>4. IsMap(disk')
  BY <1>1, Zenon DEF Without, Restrict, IsMap
<1>5. SeesNoStaging
  BY <1>1, <1>2, <1>3, <1>4 DEF SeesNoStaging, Drops, Asides, More, Standing, Meddles, planVars
<1> QED
  BY <1>2, <1>5, MeddlesTells

--------------------------------------------------------------------------------
(* The first state, and every step. *)

LEMMA InitTells ==
    ASSUME Init
    PROVE  More
<1>1. PICK from \in SUBSET {In(f, nm) : f \in Folders, nm \in Names},
           there \in SUBSET {In("destination", nm) : nm \in Names} :
        Begins(from, there)
  BY DEF Init
<1>2. PICK todo \in Planned(SetToSeq(from), disk) :
          run = Pass("do", todo, IF merged /\ verb = "move" THEN standing ELSE {})
  BY <1>1 DEF Begins
<1>3. /\ run.doing = "do" /\ run.completed = <<>> /\ at = "planned" /\ record.state = "none"
      /\ merged \in BOOLEAN /\ standing = {p.at : p \in from}
  BY <1>1, <1>2 DEF Pass, Init, NoRecord, Begins
<1>4. PICK dirs \in SUBSET (from \union there) : disk = AsFound(from \union there, dirs)
  BY <1>1 DEF Begins
<1>5. DOMAIN disk = from \union there /\ IsMap(disk)
  <2>1. DOMAIN disk = from \union there
    BY <1>4 DEF AsFound
  <2>2. IsMap(disk)
    BY <1>4 DEF AsFound, IsMap
  <2> QED
    BY <2>1, <2>2
<1>6. \A p \in there : p.at \notin Folders
  BY FoldersAssumption DEF In
<1>7. \A p \in from : p.at \in Folders
  BY DEF In
<1>8. Standing
  BY <1>3, <1>5, <1>6 DEF Standing
<1>9. Asides(disk) = {}
  BY <1>5, <1>7, FoldersAssumption DEF Asides, In
<1>10. ToldNow /\ ToldOnRecord /\ Course
  BY <1>3 DEF ToldNow, Lone, ToldOnRecord, Course, UndoCourse, RedoCourse
<1>11. StagesWhole
  BY <1>3, <1>9, StagesNone DEF StagesWhole, Aside
<1>12. Views
  BY <1>3 DEF Views, ViewDone, ViewApplied, ViewUndone, ViewUndoing, ViewRedoing
<1> QED
  BY <1>8, <1>10, <1>11, <1>12 DEF More

LEMMA NextTells ==
    ASSUME Kept, More, [Next]_vars, Mishaps = {}
    PROVE  More'
<1>1. CASE Stops \/ Missing \/ Refused \/ Skips \/ StaysMoved \/ CopyStays
  BY <1>1, LeavesItemTells
<1>2. CASE Displaces \/ Numbers
  BY <1>2, ClearsTells
<1>3. CASE Written
  BY <1>3, WrittenTells
<1>4. CASE WriteFails \/ WriteCancelled
  BY <1>4, WriteEndsTells
<1>5. CASE MoveBack \/ RemoveCopy
  BY <1>5, TakenBackTells
<1>6. CASE Starts
  BY <1>6, StartsTells
<1>7. CASE Prunes
  BY <1>7, PrunesTells
<1>8. CASE Declined \/ Accepted
  BY <1>8, OfferedTells
<1>9. CASE HelperAnswers
  BY <1>9, HelperAnswersTells
<1>10. CASE HelperLost
  BY <1>10, HelperLostTells
<1>11. CASE Records
  BY <1>11, RecordsTells
<1>12. CASE Redone
  BY <1>12, RedoneTells
<1>13. CASE Undone
  BY <1>13, UndoneTells
<1>14. CASE UndoBegins
  BY <1>14, UndoBeginsTells
<1>15. CASE RedoBegins
  BY <1>15, RedoBeginsTells
<1>16. CASE Retires
  BY <1>16, RetiresTells
<1>17. CASE Makes
  BY <1>17, MakesTells
<1>18. CASE Edits
  BY <1>18, EditsTells
<1>19. CASE Deletes \/ RemovesFolder
  BY <1>19, DeletesTells
<1>20. CASE UNCHANGED vars
  <2>1. UNCHANGED <<disk, standing, verb, merged, at, run, record, before, after, clean, touched>>
    BY <1>20 DEF vars, diskVars, runVars, historyVars, userVars
  <2>2. Standing' /\ ToldNow' /\ ToldOnRecord'
    BY <2>1 DEF More, Standing, ToldNow, Told, FromBefore, Working, Executing, Tells, Holds, ToldOnRecord,
       HoldsIf, Rec
  <2>3. Course'
    BY <2>1 DEF More, Course, UndoCourse, RedoCourse, NotAhead, OnCourse, Rec, Item
  <2>4. StagesWhole'
    BY <2>1 DEF More, StagesWhole, Executing, Aside, OnCourse, Rec
  <2>5. Views'
    <3>1. (\A d : Base(d)' <=> Base(d)) /\ Rec' = Rec /\ (OnCourse' <=> OnCourse)
      BY <2>1 DEF Base, Rec, OnCourse
    <3>2. \A h, cs : Spans(h, cs)' <=> Spans(h, cs)
      BY <2>1, ChainStays DEF Spans
    <3>3. ViewDone => ViewDone'
      BY <2>1, <3>1, ChainStays DEF ViewDone
    <3>4. ViewApplied => ViewApplied'
      BY <2>1, <3>1, <3>2 DEF ViewApplied
    <3>5. ViewUndone => ViewUndone'
      BY <2>1, <3>1, <3>2 DEF ViewUndone
    <3>6. ViewUndoing => ViewUndoing'
      BY <2>1, <3>1, <3>2 DEF ViewUndoing
    <3>7. ViewRedoing => ViewRedoing'
      BY <2>1, <3>1, <3>2, ChainStays DEF ViewRedoing
    <3> QED
      BY <2>1, <3>3, <3>4, <3>5, <3>6, <3>7 DEF More, Views
  <2> QED
    BY <2>2, <2>3, <2>4, <2>5 DEF More
<1> QED
  BY <1>1, <1>2, <1>3, <1>4, <1>5, <1>6, <1>7, <1>8, <1>9, <1>10, <1>11, <1>12, <1>13, <1>14,
     <1>15, <1>16, <1>17, <1>18, <1>19, <1>20
     DEF Next, App, Execute, Undo, User

LEMMA AlwaysTells ==
    ASSUME Mishaps = {}
    PROVE  Spec => [](Kept /\ More)
<1>1. Init => Kept /\ More
  BY InitKeeps, InitTells
<1>2. (Kept /\ More) /\ [Next]_vars => (Kept /\ More)'
  BY NextKeeps, NextTells
<1> QED
  BY <1>1, <1>2, PTL DEF Spec

\* The executor writes to a path it can name and has an item for; the record's items and
\* folders, and the entries on the disk, are what they should be, none in a folder that is gone.
THEOREM TransferTyped ==
    ASSUME Mishaps = {}
    PROVE  Spec => []TypeOK
<1>1. Kept /\ More => TypeOK
  <2> SUFFICES ASSUME Kept, More PROVE TypeOK
    OBVIOUS
  <2>1. DiskTypeOK
    BY DEF Kept, Sound, Typed, More, Standing, DiskTypeOK
  <2>2. at = "writing" => run.to \in Paths /\ run.todo # <<>>
    BY DEF Kept, Cleared, Targets
  <2>3. ASSUME NEW c \in Range(record.completed) PROVE c.src \in Paths /\ c.final \in Paths
    <3>1. PICK i \in DOMAIN record.completed : c = record.completed[i]
      BY DEF Range
    <3>2. c \in Dones
      BY <3>1, ElementOfSeq, LenProperties DEF Kept, Typed, Recs
    <3> QED
      BY <3>2, PlacesApart
  <2>4. /\ run.doing \in Doings /\ run.pass \in {1, 2} /\ record.state \in {"none", "applied", "undone"}
        /\ run.prune \subseteq Folders /\ run.pruned \subseteq Folders /\ record.pruned \subseteq Folders
    BY DEF Kept, Typed, Runs, Recs
  <2> QED
    BY <2>1, <2>2, <2>3, <2>4 DEF TypeOK, Kept, Typed, More, Standing
<1> QED
  BY <1>1, AlwaysTells, PTL

\* While an operation can be undone, what its record says is staged is what each item displaced;
\* and as long as every undo and redo was whole, staging holds that and nothing else.
THEOREM RecordKnows ==
    ASSUME Mishaps = {}
    PROVE  Spec => []RecordKnowsStaging
<1>1. Kept /\ More => RecordKnowsStaging
  <2> SUFFICES ASSUME Kept, More, at = "idle", record.state = "applied"
               PROVE  LET staged == {c \in Range(record.completed) : c.staged # NoPath}
                      IN  /\ \A c \in staged : Exists(c.staged) => /\ disk[c.staged].id = c.displaced
                                                                   /\ c.staged.stage \in record.stagings
                          /\ clean => {p \in DOMAIN disk : p.at = "staging"} = {c.staged : c \in staged}
    BY DEF RecordKnowsStaging
  <2> DEFINE staged == {c \in Range(record.completed) : c.staged # NoPath}
  <2>1. \A c : c \in Range(record.completed) <=> \E i \in DOMAIN Rec : c = Rec[i]
    BY DEF Range, Rec
  <2>2. \A i \in DOMAIN Rec : Tells(Rec[i], record.stagings) /\ HoldsIf(disk, Rec[i])
    BY DEF More, ToldOnRecord
  <2>3. \A c \in staged : Exists(c.staged) => /\ disk[c.staged].id = c.displaced
                                              /\ c.staged.stage \in record.stagings
    BY <2>1, <2>2 DEF Tells, HoldsIf, Exists
  <2>4. Stages(Rec) = {c.staged : c \in staged}
    <3>1. \A i \in DOMAIN Rec : Rec[i].staged \in Paths \union {NoPath}
      <4>1. \A i \in DOMAIN Rec : Rec[i] \in Dones
        BY ElementOfSeq, LenProperties DEF Kept, Typed, Recs, Rec
      <4> QED
        BY <4>1 DEF Dones, Stagings
    <3> QED
      BY <2>1, <3>1, NoPathIsNone DEF Stages
  <2>5. clean => Asides(disk) = Stages(Rec)
    BY DEF More, StagesWhole
  <2> QED
    BY <2>3, <2>4, <2>5 DEF Asides
<1> QED
  BY <1>1, AlwaysTells, PTL

\* An undo that took everything back leaves the user what he had before the operation, whatever
\* it displaced and whatever names it had to number, and staging empty; so does every later one.
THEOREM UndoIsExact ==
    ASSUME Mishaps = {}
    PROVE  Spec => []UndoRestores
<1>1. Kept /\ More => UndoRestores
  <2> SUFFICES ASSUME More, at = "idle", record.state = "undone", clean, ~ touched
               PROVE  Looks(disk) = before /\ \A p \in DOMAIN disk : p.at # "staging"
    BY DEF UndoRestores
  <2>1. Looks(disk) = before
    BY DEF More, Views, ViewUndone, Spans
  <2>2. Asides(disk) = {}
    BY DEF More, StagesWhole
  <2> QED
    BY <2>1, <2>2 DEF Asides
<1> QED
  BY <1>1, AlwaysTells, PTL

\* A redo that did everything again leaves what the operation itself had left, each item where
\* it landed the first time, however often it is undone and done again.
THEOREM RedoIsExact ==
    ASSUME Mishaps = {}
    PROVE  Spec => []RedoRepeats
<1>1. Kept /\ More => RedoRepeats
  BY DEF More, Views, ViewApplied, Spans, RedoRepeats
<1> QED
  BY <1>1, AlwaysTells, PTL
================================================================================
