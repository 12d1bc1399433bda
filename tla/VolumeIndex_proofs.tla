--------------------------- MODULE VolumeIndex_proofs ---------------------------
(***************************************************************************)
(* For every set of names and habits and every bound: what searches take   *)
(* for a volume that is kept live has a thread that keeps it so, and rows  *)
(* and directory map name only what there can be.  And while programs keep *)
(* to what the indexer can follow, what the tail has brought up to date is *)
(* what is on the volume.                                                  *)
(***************************************************************************)
EXTENDS VolumeIndex, SequenceTheorems, WellFoundedInduction, TLAPS

\* mark_complete is told only of a volume whose row has been written and whose thread goes on
\* to tail; the thread leaves that phase only with the row marked stale, or with the helper,
\* whose end takes the mark of mark_complete with it.
TailInv ==
    /\ root \in [complete : BOOLEAN, stale : BOOLEAN]
    /\ indexed \in BOOLEAN
    /\ indexed => phase \in {"tailing", "over"}
    /\ indexed /\ phase = "over" => root.stale

LEMMA TailInit == Init => TailInv
<1>1. Init => indexed = FALSE /\ root = [complete |-> rows # <<>>, stale |-> FALSE]
    BY Zenon DEF Init
<1>2. (rows # <<>>) \in BOOLEAN
    BY Zenon
<1>3. \A known \in BOOLEAN : [complete |-> known, stale |-> FALSE] \in [complete : BOOLEAN, stale : BOOLEAN]
    OBVIOUS
<1>4. [complete |-> rows # <<>>, stale |-> FALSE] \in [complete : BOOLEAN, stale : BOOLEAN]
    BY <1>2, <1>3, Zenon
<1> QED
    BY <1>1, <1>4 DEF TailInv

LEMMA TailNext == TailInv /\ [Next]_vars => TailInv'
<1> SUFFICES ASSUME TailInv, [Next]_vars PROVE TailInv'
    OBVIOUS
<1> USE DEF TailInv
<1>1. CASE ProgramsAct
    BY <1>1 DEF ProgramsAct
<1>2. CASE Opens
    BY <1>2 DEF Opens
<1>3. CASE BeginsBuild
    BY <1>3 DEF BeginsBuild
<1>4. CASE ReadsRecord
    BY <1>4 DEF ReadsRecord
<1>5. CASE WritesRows
    BY <1>5 DEF WritesRows
<1>6. CASE Sweeps
    BY <1>6 DEF Sweeps
<1>7. CASE Registers
    BY <1>7 DEF Registers
<1>8. CASE TailApplies
    BY <1>8 DEF TailApplies
<1>9. CASE FallsBack
    BY <1>9 DEF FallsBack
<1>10. CASE TailEnds
    BY <1>10 DEF TailEnds
<1>11. CASE HelperEnds
    BY <1>11 DEF HelperEnds
<1>12. CASE UNCHANGED vars
    BY <1>12 DEF vars
<1> QED
    BY <1>1, <1>2, <1>3, <1>4, <1>5, <1>6, <1>7, <1>8, <1>9, <1>10, <1>11, <1>12
    DEF Next, IndexerActs

\* A volume that searches take to be indexed and kept live (mark_complete, and a root that is
\* complete and not stale) has its journal tailed, whatever programs do to the volume, whichever
\* source the build read, and however often the helper ends.
THEOREM LiveVolumeIsTailed == Spec => []LiveHasTail
<1>1. TailInv => LiveHasTail
    BY DEF TailInv, LiveHasTail
<1> QED
    BY <1>1, TailInit, TailNext, PTL DEF Spec

--------------------------------------------------------------------------------
(* Induction over a depth: what is left out has no least number. *)

\* Counting from zero, one by one, reaches every number.
LEMMA Counting ==
    ASSUME NEW T \in SUBSET Nat, 0 \in T, \A n \in T : n + 1 \in T
    PROVE  T = Nat
<1> SUFFICES ASSUME T # Nat PROVE FALSE
  OBVIOUS
<1> DEFINE U == Nat \ T
<1>1. U \in SUBSET Nat /\ U # {}
  OBVIOUS
<1>2. PICK m \in U : \A k \in U : ~(<<k, m>> \in OpToRel(<, Nat))
  BY <1>1, WFMin, NatLessThanWellFounded
<1>3. \A k \in U : ~(k < m)
  BY <1>1, <1>2 DEF OpToRel
<1>4. m # 0 /\ m - 1 \in Nat /\ m - 1 \notin U
  BY <1>3
<1> QED
  BY <1>4

--------------------------------------------------------------------------------
(* Paths and rows. *)

Trails == Seq(Names)

LEMMA WithinIs ==
    ASSUME NEW p \in Trails, NEW q \in Trails
    PROVE  /\ Within(p, q) <=> Len(q) <= Len(p) /\ \A i \in 1..Len(q) : p[i] = q[i]
           /\ Len(p) \in Nat /\ DOMAIN p = 1..Len(p) /\ \A i \in 1..Len(p) : p[i] \in Names
           /\ Len(q) \in Nat
<1>1. /\ Len(p) \in Nat /\ Len(q) \in Nat /\ DOMAIN p = 1..Len(p) /\ DOMAIN q = 1..Len(q)
      /\ \A i \in 1..Len(p) : p[i] \in Names
  BY LenProperties, ElementOfSeq DEF Trails
<1>2. SubSeq(q, 1, Len(q)) = q
  BY SubSeqFull DEF Trails
<1>3. ASSUME Len(q) <= Len(p)
      PROVE  SubSeq(p, 1, Len(q)) = q <=> \A i \in 1..Len(q) : p[i] = q[i]
  <2> DEFINE s == SubSeq(p, 1, Len(q))
             n == Len(q)
  <2>1. \A i \in 1..n : p[i] \in Names
    BY <1>1, <1>3
  <2>2. s \in Trails /\ Len(s) = n /\ \A i \in 1..n : s[i] = p[i]
    BY <1>1, <2>1 DEF Trails
  <2>3. s = q <=> Len(s) = Len(q) /\ \A i \in 1..Len(q) : s[i] = q[i]
    <3> HIDE DEF s
    <3> QED
      BY <2>2, SeqEqual DEF Trails
  <2> QED
    BY <2>2, <2>3
<1> QED
  BY <1>1, <1>2, <1>3 DEF Within, IsPrefix

LEMMA SameTrail ==
    ASSUME NEW p \in Trails, NEW q \in Trails, Len(p) = Len(q), \A i \in 1..Len(p) : p[i] = q[i]
    PROVE  p = q
  BY SeqEqual DEF Trails

LEMMA RebasedIs ==
    ASSUME NEW p \in Trails, NEW from \in Trails, NEW to \in Trails, Within(p, from)
    PROVE  /\ Rebased(p, from, to) \in Trails /\ Within(Rebased(p, from, to), to)
           /\ Rebased(Rebased(p, from, to), to, from) = p
           /\ Len(Rebased(p, from, to)) = Len(to) + (Len(p) - Len(from))
           /\ \A i \in (Len(to) + 1)..(Len(to) + (Len(p) - Len(from))) :
                  Rebased(p, from, to)[i] = p[Len(from) + (i - Len(to))]
<1> DEFINE rest(x, n) == SubSeq(x, n + 1, Len(x))
<1>1. /\ Len(p) \in Nat /\ Len(from) \in Nat /\ Len(to) \in Nat /\ Len(from) <= Len(p)
      /\ \A i \in 1..Len(p) : p[i] \in Names
      /\ \A i \in 1..Len(from) : p[i] = from[i]
  BY WithinIs
<1>2. ASSUME NEW x \in Trails, NEW n \in Nat, n <= Len(x)
      PROVE  /\ rest(x, n) \in Trails /\ Len(rest(x, n)) = Len(x) - n
             /\ \A i \in 1..(Len(x) - n) : rest(x, n)[i] = x[n + i]
  <2>1. Len(x) \in Nat /\ \A i \in 1..Len(x) : x[i] \in Names
    BY WithinIs
  <2>2. \A i \in (n + 1)..Len(x) : x[i] \in Names
    BY <1>2, <2>1
  <2>3. n + 1 \in Int /\ Len(x) \in Int
    BY <1>2, <2>1
  <2>4. /\ rest(x, n) \in Seq(Names)
        /\ Len(rest(x, n)) = IF n + 1 <= Len(x) THEN Len(x) - (n + 1) + 1 ELSE 0
        /\ \A i \in 1..(Len(x) - (n + 1) + 1) : rest(x, n)[i] = x[(n + 1) + i - 1]
    BY <2>2, <2>3, SubSeqProperties
  <2> HIDE DEF rest
  <2>5. Len(rest(x, n)) = Len(x) - n
    BY <1>2, <2>1, <2>4
  <2>6. \A i \in 1..(Len(x) - n) : rest(x, n)[i] = x[n + i]
    <3> TAKE i \in 1..(Len(x) - n)
    <3>1. i \in 1..(Len(x) - (n + 1) + 1) /\ (n + 1) + i - 1 = n + i
      BY <1>2, <2>1
    <3> QED
      BY <2>4, <3>1
  <2> QED
    BY <2>4, <2>5, <2>6 DEF Trails
<1> DEFINE s == rest(p, Len(from))
           q == Rebased(p, from, to)
<1>3. s \in Trails /\ Len(s) = Len(p) - Len(from) /\ \A i \in 1..(Len(p) - Len(from)) : s[i] = p[Len(from) + i]
  <2> HIDE DEF rest
  <2> QED
    BY <1>1, <1>2
<1>4. q = to \o s
  BY DEF Rebased
<1> HIDE DEF s, q, rest
<1>5. /\ q \in Trails /\ Len(q) = Len(to) + Len(s)
      /\ \A i \in 1..(Len(to) + Len(s)) : q[i] = IF i <= Len(to) THEN to[i] ELSE s[i - Len(to)]
  BY <1>3, <1>4, ConcatProperties DEF Trails
<1>6. /\ \A i \in 1..Len(to) : q[i] = to[i]
      /\ Len(q) = Len(to) + (Len(p) - Len(from))
  BY <1>1, <1>3, <1>5
<1>7. \A i \in (Len(to) + 1)..(Len(to) + (Len(p) - Len(from))) : q[i] = p[Len(from) + (i - Len(to))]
  <2> TAKE i \in (Len(to) + 1)..(Len(to) + (Len(p) - Len(from)))
  <2>1. i \in 1..(Len(to) + Len(s)) /\ ~(i <= Len(to)) /\ i - Len(to) \in 1..(Len(p) - Len(from))
    BY <1>1, <1>3
  <2> QED
    BY <1>3, <1>5, <2>1
<1>8. Within(q, to)
  <2>1. Len(to) <= Len(q)
    BY <1>1, <1>6
  <2> QED
    BY <1>5, <1>6, <2>1, WithinIs
<1>9. Rebased(q, to, from) = p
  <2> DEFINE u == rest(q, Len(to))
             v == from \o u
  <2>1. Len(to) <= Len(q)
    BY <1>1, <1>6
  <2>2. u \in Trails /\ Len(u) = Len(q) - Len(to) /\ \A i \in 1..(Len(q) - Len(to)) : u[i] = q[Len(to) + i]
    BY <1>1, <1>2, <1>5, <2>1
  <2>3. v = Rebased(q, to, from)
    BY DEF Rebased, rest
  <2> HIDE DEF u
  <2>4. /\ v \in Trails /\ Len(v) = Len(from) + Len(u)
        /\ \A i \in 1..(Len(from) + Len(u)) : v[i] = IF i <= Len(from) THEN from[i] ELSE u[i - Len(from)]
    BY <2>2, ConcatProperties DEF Trails
  <2> HIDE DEF v
  <2>5. Len(v) = Len(p)
    BY <1>1, <1>6, <2>2, <2>4
  <2>6. ASSUME NEW i \in 1..Len(v) PROVE v[i] = p[i]
    <3>1. i \in 1..(Len(from) + Len(u)) /\ i \in 1..Len(p)
      BY <2>4, <2>5
    <3>2. CASE i <= Len(from)
      BY <1>1, <2>4, <3>1, <3>2
    <3>3. CASE ~(i <= Len(from))
      <4> DEFINE k == i - Len(from)
      <4>1. /\ k \in 1..(Len(q) - Len(to)) /\ v[i] = u[k]
            /\ Len(to) + k \in (Len(to) + 1)..(Len(to) + (Len(p) - Len(from)))
            /\ Len(from) + ((Len(to) + k) - Len(to)) = i
        BY <1>1, <1>6, <2>4, <3>1, <3>3
      <4> HIDE DEF k
      <4>2. u[k] = q[Len(to) + k] /\ q[Len(to) + k] = p[i]
        BY <1>7, <2>2, <4>1
      <4> QED
        BY <4>1, <4>2
    <3> QED
      BY <3>2, <3>3
  <2> QED
    BY <2>3, <2>4, <2>5, <2>6, SameTrail
<1> QED
  BY <1>5, <1>6, <1>7, <1>8, <1>9 DEF q

LEMMA UpsertTyped ==
    ASSUME NEW w, RowsTypeOK(w), NEW e, NEW g \in Nat,
           \A p \in DOMAIN e : p \in Trails /\ e[p].folder \in BOOLEAN /\ e[p].hidden \in BOOLEAN
    PROVE  RowsTypeOK(UpsertEntries(w, e, g))
  BY DEF RowsTypeOK, UpsertEntries, Row, Trails

LEMMA DeleteTyped ==
    ASSUME NEW w, RowsTypeOK(w), NEW path
    PROVE  RowsTypeOK(DeleteSubtree(w, path))
  BY DEF RowsTypeOK, DeleteSubtree, Restrict

LEMMA SweepTyped ==
    ASSUME NEW w, RowsTypeOK(w), NEW path, NEW g
    PROVE  RowsTypeOK(SweepVanished(w, path, g))
  BY DEF RowsTypeOK, SweepVanished, Restrict

\* What lands is what was moved, and moved back it is where it came from.
LEMMA RenameTyped ==
    ASSUME NEW w, RowsTypeOK(w), NEW old \in Trails, NEW new \in Trails, NEW g \in Nat
    PROVE  RowsTypeOK(Rename(w, old, new, g))
<1> DEFINE kept == IF old = new THEN w ELSE DeleteSubtree(w, new)
           moved == {p \in DOMAIN kept : Within(p, old)}
           landed == {Rebased(p, old, new) : p \in moved}
           res == [p \in (DOMAIN kept \ moved) \union landed |->
                      IF p \in landed THEN [kept[Rebased(p, new, old)] EXCEPT !.gen = g] ELSE kept[p]]
<1>1. Rename(w, old, new, g) = res
  BY DEF Rename
<1>2. \A p \in DOMAIN kept : p \in Trails /\ kept[p] \in Row
  BY DeleteTyped DEF RowsTypeOK, Trails
<1> HIDE DEF kept
<1>3. ASSUME NEW p \in landed PROVE p \in Trails /\ res[p] \in Row
  <2>1. PICK q \in moved : p = Rebased(q, old, new)
    OBVIOUS
  <2>2. q \in DOMAIN kept /\ Within(q, old) /\ q \in Trails /\ kept[q] \in Row
    BY <1>2
  <2>3. p \in Trails /\ Rebased(p, new, old) = q
    BY <2>1, <2>2, RebasedIs
  <2>4. res[p] = [kept[Rebased(p, new, old)] EXCEPT !.gen = g]
    OBVIOUS
  <2> QED
    BY <2>2, <2>3, <2>4 DEF Row
<1>4. ASSUME NEW p \in DOMAIN kept \ moved, p \notin landed PROVE p \in Trails /\ res[p] \in Row
  BY <1>2, <1>4
<1>5. DOMAIN res = (DOMAIN kept \ moved) \union landed
  OBVIOUS
<1> HIDE DEF res, landed, moved
<1> QED
  BY <1>1, <1>3, <1>4, <1>5 DEF RowsTypeOK, Trails

--------------------------------------------------------------------------------
(* Where the chain of parents leads. *)

Spots == [path : Trails, hidden : BOOLEAN]

Table(t) == DOMAIN t \subseteq Files /\ \A f \in DOMAIN t : t[f] \in Node

PlacesFrom(nodes, carriers, place, n) ==
    place = [d \in 0..n |-> IF d = 0 THEN [f \in Files |-> Nowhere]
                            ELSE PlacedBelow(nodes, carriers, place[d - 1])]

\* The recursion of PlacesUpTo has a value: it is extended by one depth at a time.
LEMMA PlacesExist ==
    ASSUME NEW nodes, NEW carriers, NEW n \in Nat
    PROVE  \E place : PlacesFrom(nodes, carriers, place, n)
<1> DEFINE S == {k \in Nat : \E place : PlacesFrom(nodes, carriers, place, k)}
<1>1. 0 \in S
  <2>1. PlacesFrom(nodes, carriers, [d \in 0..0 |-> [f \in Files |-> Nowhere]], 0)
    BY DEF PlacesFrom
  <2> QED
    BY <2>1
<1>2. ASSUME NEW k \in S PROVE k + 1 \in S
  <2>1. PICK place : PlacesFrom(nodes, carriers, place, k)
    OBVIOUS
  <2> DEFINE more == [d \in 0..(k + 1) |-> IF d = k + 1 THEN PlacedBelow(nodes, carriers, place[k]) ELSE place[d]]
  <2>2. k \in Nat
    OBVIOUS
  <2>3. \A d \in 0..k : place[d] = IF d = 0 THEN [f \in Files |-> Nowhere]
                                   ELSE PlacedBelow(nodes, carriers, place[d - 1])
    BY <2>1 DEF PlacesFrom
  <2>4. \A d \in 0..(k + 1) : more[d] = IF d = 0 THEN [f \in Files |-> Nowhere]
                                         ELSE PlacedBelow(nodes, carriers, more[d - 1])
    <3> TAKE d \in 0..(k + 1)
    <3>1. CASE d = k + 1
      <4>1. d # 0 /\ d - 1 = k /\ k \in 0..(k + 1) /\ k # k + 1
        BY <2>2, <3>1
      <4>2. more[k] = place[k] /\ more[d] = PlacedBelow(nodes, carriers, place[k])
        BY <3>1, <4>1
      <4> QED
        BY <4>1, <4>2
    <3>2. CASE d # k + 1
      <4>1. d \in 0..k /\ more[d] = place[d]
        BY <2>2, <3>2
      <4>2. d # 0 => d - 1 \in 0..(k + 1) /\ d - 1 # k + 1
        BY <2>2, <4>1
      <4>3. d # 0 => more[d - 1] = place[d - 1]
        BY <4>2
      <4> QED
        BY <2>3, <4>1, <4>3
    <3> QED
      BY <3>1, <3>2
  <2>5. more = [d \in 0..(k + 1) |-> more[d]]
    OBVIOUS
  <2> HIDE DEF more
  <2>6. PlacesFrom(nodes, carriers, more, k + 1)
    BY <2>4, <2>5 DEF PlacesFrom
  <2>7. k + 1 \in Nat
    BY <2>2
  <2> QED
    BY <2>6, <2>7
<1>3. S \in SUBSET Nat
  OBVIOUS
<1>4. S = Nat
  <2> HIDE DEF S
  <2> QED
    BY <1>1, <1>2, <1>3, Counting
<1> QED
  BY <1>4

LEMMA PlacesAre ==
    ASSUME NEW nodes, NEW carriers
    PROVE  /\ PlacesUpTo(nodes, carriers)[0] = [f \in Files |-> Nowhere]
           /\ \A d \in 1..MaxFiles : PlacesUpTo(nodes, carriers)[d]
                                     = PlacedBelow(nodes, carriers, PlacesUpTo(nodes, carriers)[d - 1])
<1> DEFINE place == PlacesUpTo(nodes, carriers)
<1>1. place = CHOOSE p : PlacesFrom(nodes, carriers, p, MaxFiles)
  BY Zenon DEF PlacesUpTo, PlacesFrom
<1>2. PlacesFrom(nodes, carriers, place, MaxFiles)
  <2>1. MaxFiles \in Nat
    BY VolumeAssumption
  <2> QED
    BY <1>1, <2>1, PlacesExist, Zenon
<1> HIDE DEF place
<1>3. /\ place[0] = [f \in Files |-> Nowhere]
      /\ \A d \in 1..MaxFiles : place[d] = PlacedBelow(nodes, carriers, place[d - 1])
  BY <1>2, VolumeAssumption DEF PlacesFrom
<1> QED
  BY <1>3 DEF place

LEMMA PlacedTyped ==
    ASSUME NEW nodes, Table(nodes), NEW carriers, NEW above, \A f \in Files : above[f] \in Spots,
           NEW f \in Files
    PROVE  PlacedBelow(nodes, carriers, above)[f] \in Spots
<1>1. Nowhere \in Spots
  BY EmptySeq DEF Nowhere, Spots, Trails
<1>2. CASE f \notin DOMAIN nodes
  BY <1>1, <1>2 DEF PlacedBelow
<1>3. CASE f \in DOMAIN nodes
  <2>1. /\ nodes[f].parent \in Files \union {Root} /\ nodes[f].name \in Names /\ nodes[f].hidden \in BOOLEAN
    BY <1>3 DEF Table, Node
  <2>2. CASE nodes[f].parent = Root
    <3>1. <<nodes[f].name>> \in Trails
      BY <2>1 DEF Trails
    <3>2. PlacedBelow(nodes, carriers, above)[f] = [path |-> <<nodes[f].name>>, hidden |-> nodes[f].hidden]
      BY <1>3, <2>2 DEF PlacedBelow
    <3> QED
      BY <2>1, <3>1, <3>2 DEF Spots
  <2>3. CASE nodes[f].parent # Root /\ (nodes[f].parent \notin carriers \/ above[nodes[f].parent] = Nowhere)
    BY <1>1, <1>3, <2>3 DEF PlacedBelow
  <2>4. CASE nodes[f].parent # Root /\ ~(nodes[f].parent \notin carriers \/ above[nodes[f].parent] = Nowhere)
    <3> DEFINE at == above[nodes[f].parent]
    <3>1. at \in Spots
      BY <2>1, <2>4
    <3>2. PlacedBelow(nodes, carriers, above)[f] = [path |-> Append(at.path, nodes[f].name),
                                                    hidden |-> at.hidden \/ nodes[f].hidden]
      BY <1>3, <2>4 DEF PlacedBelow
    <3> HIDE DEF at
    <3>3. Append(at.path, nodes[f].name) \in Trails
      BY <2>1, <3>1 DEF Spots, Trails
    <3>4. (at.hidden \/ nodes[f].hidden) \in BOOLEAN
      BY <2>1, <3>1 DEF Spots
    <3> QED
      BY <3>2, <3>3, <3>4 DEF Spots
  <2> QED
    BY <2>2, <2>3, <2>4
<1> QED
  BY <1>2, <1>3

LEMMA PlacesTyped ==
    ASSUME NEW nodes, Table(nodes), NEW carriers
    PROVE  \A d \in 0..MaxFiles : \A f \in Files : PlacesUpTo(nodes, carriers)[d][f] \in Spots
<1> DEFINE place == PlacesUpTo(nodes, carriers)
           S == {d \in Nat : d \in 0..MaxFiles => \A f \in Files : place[d][f] \in Spots}
<1>0. Nowhere \in Spots
  BY EmptySeq DEF Nowhere, Spots, Trails
<1>1. 0 \in S
  <2>1. place[0] = [f \in Files |-> Nowhere]
    BY PlacesAre
  <2> HIDE DEF place
  <2> QED
    BY <1>0, <2>1
<1>2. ASSUME NEW d \in S PROVE d + 1 \in S
  <2>1. CASE d + 1 \in 0..MaxFiles
    <3>1. d \in 0..MaxFiles /\ d + 1 \in 1..MaxFiles /\ (d + 1) - 1 = d
      BY <2>1, VolumeAssumption
    <3>2. \A f \in Files : place[d][f] \in Spots
      BY <3>1
    <3>3. place[d + 1] = PlacedBelow(nodes, carriers, place[d])
      BY <3>1, PlacesAre
    <3> HIDE DEF place
    <3>4. \A f \in Files : place[d + 1][f] \in Spots
      BY <3>2, <3>3, PlacedTyped
    <3> QED
      BY <3>4
  <2> QED
    BY <2>1
<1>3. S \in SUBSET Nat
  OBVIOUS
<1>4. S = Nat
  <2> HIDE DEF S
  <2> QED
    BY <1>1, <1>2, <1>3, Counting
<1> QED
  BY <1>4

LEMMA ResolvedTyped ==
    ASSUME NEW nodes, Table(nodes), NEW carriers
    PROVE  /\ DOMAIN Resolved(nodes, carriers) \subseteq DOMAIN nodes
           /\ \A f \in DOMAIN Resolved(nodes, carriers) : Resolved(nodes, carriers)[f] \in Spots
<1> DEFINE place == PlacesUpTo(nodes, carriers)[MaxFiles]
<1>1. \A f \in Files : place[f] \in Spots
  BY PlacesTyped, VolumeAssumption
<1> HIDE DEF place
<1>2. Resolved(nodes, carriers) = [f \in {g \in DOMAIN nodes : place[g] # Nowhere} |-> place[f]]
  BY DEF Resolved, Restrict, place
<1> QED
  BY <1>1, <1>2 DEF Table

LEMMA EntriesTyped ==
    ASSUME NEW nodes, Table(nodes), NEW places, DOMAIN places \subseteq DOMAIN nodes,
           \A f \in DOMAIN places : places[f] \in Spots
    PROVE  \A p \in DOMAIN Entries(nodes, places) :
              /\ p \in Trails
              /\ Entries(nodes, places)[p].folder \in BOOLEAN /\ Entries(nodes, places)[p].hidden \in BOOLEAN
<1> DEFINE at(p) == CHOOSE f \in DOMAIN places : places[f].path = p
<1>1. ASSUME NEW p \in {places[f].path : f \in DOMAIN places}
      PROVE  at(p) \in DOMAIN places
  OBVIOUS
<1>2. /\ DOMAIN Entries(nodes, places) = {places[f].path : f \in DOMAIN places}
      /\ \A p \in DOMAIN Entries(nodes, places) :
            Entries(nodes, places)[p] = [folder |-> nodes[at(p)].folder, hidden |-> places[at(p)].hidden]
  BY DEF Entries
<1> HIDE DEF at
<1>3. \A f \in DOMAIN places : /\ places[f].path \in Trails /\ places[f].hidden \in BOOLEAN
                               /\ nodes[f].folder \in BOOLEAN
  BY DEF Spots, Table, Node
<1>4. ASSUME NEW p \in DOMAIN Entries(nodes, places)
      PROVE  /\ p \in Trails
             /\ Entries(nodes, places)[p].folder \in BOOLEAN /\ Entries(nodes, places)[p].hidden \in BOOLEAN
  <2>1. at(p) \in DOMAIN places /\ p \in Trails
    BY <1>1, <1>2, <1>3
  <2>2. Entries(nodes, places)[p] = [folder |-> nodes[at(p)].folder, hidden |-> places[at(p)].hidden]
    BY <1>2
  <2> QED
    BY <1>3, <2>1, <2>2
<1> QED
  BY <1>4

--------------------------------------------------------------------------------
(* What the variables hold. *)

Records == [frn : Files, parent : Files \union {Root}, name : Names, folder : BOOLEAN,
            hidden : BOOLEAN, reasons : SUBSET Reasons]

HandlesTyped == DOMAIN handles \subseteq DOMAIN disk /\ \A f \in DOMAIN handles : handles[f] \subseteq Reasons
DirsTyped    == DOMAIN dirs \subseteq Files /\ \A f \in DOMAIN dirs : dirs[f] \in Spots
PendingTyped == \A f \in DOMAIN pending : pending[f] \in Trails

VolumeTyped ==
    /\ Table(disk) /\ Table(seen)
    /\ HandlesTyped /\ journal \in Seq(Records)
    /\ RowsTypeOK(rows) /\ build \in Nat /\ position \in Nat
    /\ DirsTyped /\ PendingTyped

LEMMA TypedInit == Init => VolumeTyped
<1> SUFFICES ASSUME Init PROVE VolumeTyped
  OBVIOUS
<1>1. Table(disk)
  BY DEF Init, Table
<1>2. DOMAIN <<>> = {}
  OBVIOUS
<1>3. Table(seen) /\ HandlesTyped /\ DirsTyped /\ PendingTyped
  BY <1>2 DEF Init, Table, HandlesTyped, DirsTyped, PendingTyped
<1>4. journal \in Seq(Records) /\ build \in Nat /\ position \in Nat
  BY EmptySeq DEF Init
<1>5. RowsTypeOK(rows)
  <2>1. PICK known \in {{}, {<<n>> : n \in Names}} :
           rows = Restrict([p \in Paths |-> [folder |-> FALSE, hidden |-> FALSE, gen |-> 0]], known)
    BY DEF Init
  <2>2. \A p \in known : p \in Seq(Names) /\ p \in Paths
    <3> SUFFICES ASSUME NEW n \in Names PROVE <<n>> \in Seq(Names) /\ <<n>> \in Paths
      BY <2>1
    <3>1. <<n>> \in [1..1 -> Names] /\ 1 \in 1..MaxDepth
      BY RowsAssumption
    <3> QED
      BY <3>1 DEF Paths
  <2> QED
    BY <2>1, <2>2 DEF RowsTypeOK, Restrict, Row
<1> QED
  BY <1>1, <1>3, <1>4, <1>5 DEF VolumeTyped

\* A record of an entry is a record.
LEMMA RecordTyped ==
    ASSUME NEW f \in Files, NEW node \in Node, NEW reasons \in SUBSET Reasons
    PROVE  Record(f, node, reasons) \in Records
  BY DEF Record, Records, Node

LEMMA HeldTyped ==
    ASSUME HandlesTyped, NEW f
    PROVE  HeldReasons(f) \in SUBSET Reasons
  BY DEF HandlesTyped, HeldReasons

LEMMA JournalsTyped ==
    ASSUME journal \in Seq(Records), NEW new \in Seq(Records), Journals(new)
    PROVE  journal' \in Seq(Records)
  BY EmptySeq, ConcatProperties DEF Journals

\* What a close leaves: the handle with what it gathered, or none.
LEMMA HandlesLeft ==
    ASSUME HandlesTyped, Table(disk), NEW f, NEW held \in SUBSET Reasons, NEW keep \in BOOLEAN,
           handles' = IF keep THEN With(handles, f, held) ELSE Without(handles, {f}),
           DOMAIN disk \ {f} \subseteq DOMAIN disk', keep => f \in DOMAIN disk'
    PROVE  HandlesTyped'
<1>1. CASE keep
  <2>1. DOMAIN handles' = DOMAIN handles \union {f}
    BY <1>1 DEF With
  <2>2. \A g \in DOMAIN handles' : handles'[g] = IF g = f THEN held ELSE handles[g]
    BY <1>1 DEF With
  <2> QED
    BY <1>1, <2>1, <2>2 DEF HandlesTyped
<1>2. CASE ~keep
  <2>1. DOMAIN handles' = DOMAIN handles \ {f} /\ \A g \in DOMAIN handles' : handles'[g] = handles[g]
    BY <1>2 DEF Without, Restrict
  <2> QED
    BY <1>2, <2>1 DEF HandlesTyped
<1> QED
  BY <1>1, <1>2

LEMMA ClosingTyped ==
    ASSUME HandlesTyped, Table(disk), journal \in Seq(Records), NEW f \in Files, NEW node \in Node,
           NEW reasons \in SUBSET Reasons, NEW keep \in BOOLEAN, Closing(f, node, reasons, keep),
           DOMAIN disk \ {f} \subseteq DOMAIN disk', keep => f \in DOMAIN disk'
    PROVE  HandlesTyped' /\ journal' \in Seq(Records)
<1> DEFINE held == HeldReasons(f) \union reasons
           last == held \union IF keep THEN {} ELSE {"close"}
<1>1. held \in SUBSET Reasons /\ last \in SUBSET Reasons
  BY HeldTyped DEF Reasons
<1>2. /\ handles' = IF keep THEN With(handles, f, held) ELSE Without(handles, {f})
      /\ Journals(<<Record(f, node, last)>>)
  BY DEF Closing
<1> HIDE DEF held, last
<1>3. <<Record(f, node, last)>> \in Seq(Records)
  BY <1>1, RecordTyped
<1> QED
  BY <1>1, <1>2, <1>3, HandlesLeft, JournalsTyped

--------------------------------------------------------------------------------
(* What programs do keeps it. *)

LEMMA WithTyped ==
    ASSUME Table(disk), NEW f \in Files, NEW node \in Node
    PROVE  Table(With(disk, f, node)) /\ DOMAIN With(disk, f, node) = DOMAIN disk \union {f}
  BY DEF Table, With

LEMMA ExceptTyped ==
    ASSUME Table(disk), NEW f \in DOMAIN disk, NEW node \in Node
    PROVE  Table([disk EXCEPT ![f] = node]) /\ DOMAIN [disk EXCEPT ![f] = node] = DOMAIN disk
  BY DEF Table

DiskTyped == Table(disk) /\ HandlesTyped /\ journal \in Seq(Records)

LEMMA CreatesTyped ==
    ASSUME DiskTyped, NEW f \in Files, NEW keep \in BOOLEAN, Creates(f, keep)
    PROVE  DiskTyped'
<1>1. PICK node \in Node : disk' = With(disk, f, node) /\ Closing(f, node, {"create"}, keep)
  BY DEF Creates, Changed
<1>2. Table(disk') /\ DOMAIN disk' = DOMAIN disk \union {f}
  BY <1>1, WithTyped DEF DiskTyped
<1>3. {"create"} \in SUBSET Reasons
  BY DEF Reasons
<1>4. HandlesTyped' /\ journal' \in Seq(Records)
  BY <1>1, <1>2, <1>3, ClosingTyped DEF DiskTyped
<1> QED
  BY <1>2, <1>4 DEF DiskTyped, Table, Files, Node

LEMMA DeletesTyped ==
    ASSUME DiskTyped, NEW f \in Files, Deletes(f)
    PROVE  DiskTyped'
<1>1. f \in DOMAIN disk /\ disk' = Without(disk, {f}) /\ Closing(f, disk[f], {"delete"}, FALSE)
  BY DEF Deletes, Changed
<1>2. Table(disk') /\ DOMAIN disk' = DOMAIN disk \ {f} /\ disk[f] \in Node
  BY <1>1 DEF DiskTyped, Table, Without, Restrict
<1>3. {"delete"} \in SUBSET Reasons
  BY DEF Reasons
<1>4. HandlesTyped' /\ journal' \in Seq(Records)
  BY <1>1, <1>2, <1>3, ClosingTyped DEF DiskTyped
<1> QED
  BY <1>2, <1>4 DEF DiskTyped, Table, Files, Node

LEMMA MovesTyped ==
    ASSUME DiskTyped, NEW f \in Files, NEW keep \in BOOLEAN, Moves(f, keep)
    PROVE  DiskTyped'
<1>1. PICK parent \in Files \union {Root}, name \in Names :
         LET node == [disk[f] EXCEPT !.parent = parent, !.name = name]
             old  == Record(f, disk[f], HeldReasons(f) \union {"old name"})
             held == (HeldReasons(f) \union {"new name"})
         IN  /\ disk' = [disk EXCEPT ![f] = node]
             /\ Journals(<<old, Record(f, node, held)>>
                         \o IF keep THEN <<>> ELSE <<Record(f, node, held \union {"close"})>>)
             /\ handles' = IF keep THEN With(handles, f, held) ELSE Without(handles, {f})
  BY DEF Moves, Changed
<1> DEFINE node == [disk[f] EXCEPT !.parent = parent, !.name = name]
           old  == Record(f, disk[f], HeldReasons(f) \union {"old name"})
           held == HeldReasons(f) \union {"new name"}
           told == <<old, Record(f, node, held)>>
           last == IF keep THEN <<>> ELSE <<Record(f, node, held \union {"close"})>>
<1>2. f \in DOMAIN disk /\ disk[f] \in Node
  BY DEF Moves, DiskTyped, Table
<1>3. node \in Node
  BY <1>2 DEF Node
<1>4. held \in SUBSET Reasons /\ held \union {"close"} \in SUBSET Reasons
      /\ HeldReasons(f) \union {"old name"} \in SUBSET Reasons
  BY HeldTyped DEF Reasons, DiskTyped
<1>5. /\ disk' = [disk EXCEPT ![f] = node] /\ Journals(told \o last)
      /\ handles' = IF keep THEN With(handles, f, held) ELSE Without(handles, {f})
  BY <1>1
<1> HIDE DEF node, held
<1>6. told \in Seq(Records) /\ last \in Seq(Records)
  <2> DEFINE new == Record(f, node, held)
             closed == Record(f, node, held \union {"close"})
  <2>1. old \in Records /\ new \in Records /\ closed \in Records
    BY <1>2, <1>3, <1>4, RecordTyped
  <2> HIDE DEF old, new, closed
  <2>2. <<old, new>> \in Seq(Records) /\ <<closed>> \in Seq(Records)
    BY <2>1
  <2> QED
    BY <2>2, EmptySeq DEF new, closed
<1> HIDE DEF told, last
<1>7. told \o last \in Seq(Records)
  BY <1>6, ConcatProperties
<1>8. journal' \in Seq(Records)
  BY <1>5, <1>7, JournalsTyped DEF DiskTyped
<1>9. Table(disk') /\ DOMAIN disk' = DOMAIN disk
  BY <1>2, <1>3, <1>5, ExceptTyped DEF DiskTyped
<1>10. HandlesTyped'
  BY <1>2, <1>4, <1>5, <1>9, HandlesLeft DEF DiskTyped
<1> QED
  BY <1>8, <1>9, <1>10 DEF DiskTyped, Table, Files, Node

LEMMA HidesTyped ==
    ASSUME DiskTyped, NEW f \in Files, Hides(f)
    PROVE  DiskTyped'
<1> DEFINE node == [disk[f] EXCEPT !.hidden = ~@]
<1>1. f \in DOMAIN disk /\ disk' = [disk EXCEPT ![f] = node] /\ Closing(f, node, {"attributes"}, FALSE)
  BY DEF Hides
<1>2. node \in Node
  BY <1>1 DEF DiskTyped, Table, Node
<1> HIDE DEF node
<1>3. Table(disk') /\ DOMAIN disk' = DOMAIN disk
  BY <1>1, <1>2, ExceptTyped DEF DiskTyped
<1>4. {"attributes"} \in SUBSET Reasons
  BY DEF Reasons
<1>5. HandlesTyped' /\ journal' \in Seq(Records)
  BY <1>1, <1>2, <1>3, <1>4, ClosingTyped DEF DiskTyped
<1> QED
  BY <1>3, <1>5 DEF DiskTyped, Table, Files, Node

LEMMA ClosesTyped ==
    ASSUME DiskTyped, NEW f \in Files, Closes(f)
    PROVE  DiskTyped'
<1>1. f \in DOMAIN disk /\ disk' = disk /\ Closing(f, disk[f], {}, FALSE)
  BY DEF Closes, DiskTyped, HandlesTyped
<1>2. disk[f] \in Node
  BY <1>1 DEF DiskTyped, Table
<1>3. HandlesTyped' /\ journal' \in Seq(Records)
  BY <1>1, <1>2, ClosingTyped DEF DiskTyped
<1> QED
  BY <1>1, <1>3 DEF DiskTyped, Table, Files, Node

LEMMA ProgramsTyped == DiskTyped /\ ProgramsAct => DiskTyped'
<1> SUFFICES ASSUME DiskTyped, ProgramsAct PROVE DiskTyped'
  OBVIOUS
<1>1. PICK f \in Files :
        \/ \E keep \in Keeps : Creates(f, keep) \/ Moves(f, keep)
        \/ Deletes(f) \/ Hides(f) \/ Closes(f)
  BY DEF ProgramsAct
<1>2. Keeps \subseteq BOOLEAN
  BY DEF Keeps
<1> QED
  BY <1>1, <1>2, CreatesTyped, MovesTyped, DeletesTyped, HidesTyped, ClosesTyped

--------------------------------------------------------------------------------
(* What the helper does keeps it. *)

LEMMA PlacesOfSeenTyped ==
    ASSUME Table(seen)
    PROVE  DOMAIN Places \subseteq DOMAIN seen /\ \A f \in DOMAIN Places : Places[f] \in Spots
  BY ResolvedTyped DEF Places

LEMMA ReadTyped == VolumeTyped /\ ReadsRecord => Table(seen') /\ position' \in Nat
<1> SUFFICES ASSUME VolumeTyped, ReadsRecord PROVE Table(seen') /\ position' \in Nat
  OBVIOUS
<1>1. position' \in Nat
  <2>1. position' = position + 1 \/ position' = MaxFiles + 1
    BY DEF ReadsRecord
  <2> QED
    BY <2>1, VolumeAssumption DEF VolumeTyped
<1>2. CASE position \in DOMAIN disk
  <2>1. seen' = With(seen, position, disk[position]) /\ position \in Files /\ disk[position] \in Node
    BY <1>2 DEF ReadsRecord, VolumeTyped, Table
  <2> QED
    BY <1>1, <2>1 DEF With, VolumeTyped, Table
<1>3. CASE position \notin DOMAIN disk
  BY <1>1, <1>3 DEF ReadsRecord, VolumeTyped
<1> QED
  BY <1>2, <1>3

LEMMA WrittenTyped ==
    ASSUME VolumeTyped, NEW written
    PROVE  RowsTypeOK(UpsertEntries(rows, Entries(seen, Restrict(Places, written \intersect DOMAIN Places)), build))
<1> DEFINE places == Restrict(Places, written \intersect DOMAIN Places)
<1>1. DOMAIN places \subseteq DOMAIN Places /\ \A f \in DOMAIN places : places[f] = Places[f]
  BY DEF Restrict
<1>2. /\ DOMAIN places \subseteq DOMAIN seen
      /\ \A f \in DOMAIN places : places[f] \in Spots
  BY <1>1, PlacesOfSeenTyped DEF VolumeTyped
<1> HIDE DEF places
<1> DEFINE e == Entries(seen, places)
<1>3. \A p \in DOMAIN e : p \in Trails /\ e[p].folder \in BOOLEAN /\ e[p].hidden \in BOOLEAN
  BY <1>2, EntriesTyped DEF VolumeTyped
<1> HIDE DEF e
<1>4. RowsTypeOK(UpsertEntries(rows, e, build))
  BY <1>3, UpsertTyped DEF VolumeTyped
<1> QED
  BY <1>4 DEF e, places

LEMMA WritesTyped == VolumeTyped /\ WritesRows => RowsTypeOK(rows') /\ DirsTyped'
<1> SUFFICES ASSUME VolumeTyped, WritesRows PROVE RowsTypeOK(rows') /\ DirsTyped'
  OBVIOUS
<1>1. DOMAIN Places \subseteq DOMAIN seen /\ \A f \in DOMAIN Places : Places[f] \in Spots
  BY PlacesOfSeenTyped DEF VolumeTyped
<1> DEFINE e == Entries(seen, Places)
<1>2. \A p \in DOMAIN e : p \in Trails /\ e[p].folder \in BOOLEAN /\ e[p].hidden \in BOOLEAN
  BY <1>1, EntriesTyped DEF VolumeTyped
<1>3. rows' = UpsertEntries(rows, e, build) /\ dirs' = Restrict(Places, DOMAIN Places \intersect FoldersOf(seen))
  BY DEF WritesRows
<1> HIDE DEF e
<1>4. RowsTypeOK(rows')
  BY <1>2, <1>3, UpsertTyped DEF VolumeTyped
<1>5. DOMAIN dirs' \subseteq DOMAIN Places /\ \A f \in DOMAIN dirs' : dirs'[f] = Places[f]
  BY <1>3 DEF Restrict
<1>6. DOMAIN seen \subseteq Files
  BY DEF VolumeTyped, Table
<1> QED
  BY <1>1, <1>4, <1>5, <1>6 DEF DirsTyped, Files

LEMMA PathTyped ==
    ASSUME DirsTyped, NEW rec \in Records, Resolves(rec)
    PROVE  PathOf(rec) \in Trails /\ EffectiveHidden(rec) \in BOOLEAN /\ DirOf(rec) \in Spots
<1>1. rec.name \in Names /\ rec.hidden \in BOOLEAN
  BY DEF Records
<1>2. CASE rec.parent = Root
  <2>1. PathOf(rec) = <<rec.name>> /\ EffectiveHidden(rec) = rec.hidden
    BY <1>1, <1>2 DEF PathOf, EffectiveHidden
  <2>2. <<rec.name>> \in Trails
    BY <1>1 DEF Trails
  <2> QED
    BY <1>1, <2>1, <2>2 DEF DirOf, Spots
<1>3. CASE rec.parent # Root
  <2>1. dirs[rec.parent] \in Spots
    BY <1>3 DEF Resolves, DirsTyped
  <2>2. dirs[rec.parent].path \in Trails /\ dirs[rec.parent].hidden \in BOOLEAN
    BY <2>1 DEF Spots
  <2>3. PathOf(rec) = Append(dirs[rec.parent].path, rec.name)
    BY <1>3 DEF PathOf
  <2>4. PathOf(rec) \in Trails
    BY <1>1, <2>2, <2>3, AppendProperties DEF Trails
  <2>5. EffectiveHidden(rec) \in BOOLEAN
    BY <1>1, <2>2 DEF EffectiveHidden
  <2> QED
    BY <2>4, <2>5 DEF DirOf, Spots
<1> QED
  BY <1>2, <1>3

Tailed == RowsTypeOK(rows) /\ DirsTyped /\ PendingTyped

LEMMA UpsertApplied ==
    ASSUME Tailed, build \in Nat, NEW rec \in Records, Resolves(rec), ApplyUpsert(rec)
    PROVE  Tailed'
<1>1. PathOf(rec) \in Trails /\ EffectiveHidden(rec) \in BOOLEAN /\ DirOf(rec) \in Spots
  BY PathTyped DEF Tailed
<1>2. rec.folder \in BOOLEAN /\ rec.frn \in Files
  BY DEF Records
<1> DEFINE e == [p \in {PathOf(rec)} |-> [folder |-> rec.folder, hidden |-> EffectiveHidden(rec)]]
<1>3. \A p \in DOMAIN e : p \in Trails /\ e[p].folder \in BOOLEAN /\ e[p].hidden \in BOOLEAN
  BY <1>1, <1>2
<1>4. rows' = UpsertEntries(rows, e, build)
  BY DEF ApplyUpsert
<1> HIDE DEF e
<1>5. RowsTypeOK(rows')
  BY <1>3, <1>4, UpsertTyped DEF Tailed
<1>6. DirsTyped'
  <2>1. dirs' = IF rec.folder THEN With(dirs, rec.frn, DirOf(rec)) ELSE dirs
    BY DEF ApplyUpsert
  <2> QED
    BY <1>1, <1>2, <2>1 DEF Tailed, DirsTyped, With, Files
<1>7. PendingTyped'
  BY DEF ApplyUpsert, Tailed, PendingTyped
<1> QED
  BY <1>5, <1>6, <1>7 DEF Tailed

LEMMA DeleteApplied ==
    ASSUME Tailed, NEW rec \in Records, ApplyDelete(rec)
    PROVE  Tailed'
<1>1. RowsTypeOK(rows')
  BY DeleteTyped DEF ApplyDelete, Tailed
<1>2. DirsTyped'
  <2>1. dirs' = IF rec.folder THEN RemoveDirSubtree(rec.frn, PathOf(rec)) ELSE dirs
    BY DEF ApplyDelete
  <2> QED
    BY <2>1 DEF Tailed, DirsTyped, RemoveDirSubtree, Restrict, Files
<1>3. PendingTyped'
  BY DEF ApplyDelete, Tailed, PendingTyped
<1> QED
  BY <1>1, <1>2, <1>3 DEF Tailed

LEMMA RewriteTyped ==
    ASSUME DirsTyped, NEW old \in Trails, NEW rec \in Records, Resolves(rec), dirs' = RewriteDirSubtree(old, rec)
    PROVE  DirsTyped'
<1> DEFINE with == With(dirs, rec.frn, DirOf(rec))
<1>1. PathOf(rec) \in Trails /\ DirOf(rec) \in Spots /\ rec.frn \in Files
  BY PathTyped DEF Records
<1>2. DOMAIN with \subseteq Files /\ \A g \in DOMAIN with : with[g] \in Spots
  BY <1>1 DEF With, DirsTyped
<1>3. dirs' = [g \in DOMAIN with |->
                  IF Under(with[g].path, old)
                  THEN [with[g] EXCEPT !.path = Rebased(@, old, PathOf(rec))] ELSE with[g]]
  BY DEF RewriteDirSubtree
<1> HIDE DEF with
<1>4. ASSUME NEW g \in DOMAIN with, Under(with[g].path, old)
      PROVE  [with[g] EXCEPT !.path = Rebased(@, old, PathOf(rec))] \in Spots
  <2>1. with[g].path \in Trails /\ with[g] \in Spots
    BY <1>2 DEF Spots
  <2>2. Within(with[g].path, old)
    BY <1>4 DEF Under, Within, IsStrictPrefix
  <2>3. Rebased(with[g].path, old, PathOf(rec)) \in Trails
    BY <1>1, <2>1, <2>2, RebasedIs
  <2> QED
    BY <2>1, <2>3 DEF Spots
<1>5. \A g \in DOMAIN dirs' : dirs'[g] \in Spots
  BY <1>2, <1>3, <1>4
<1> QED
  BY <1>2, <1>3, <1>5 DEF DirsTyped, Files

LEMMA RenameApplied ==
    ASSUME Tailed, build \in Nat, NEW rec \in Records, Resolves(rec), ApplyRename(rec)
    PROVE  Tailed'
<1>1. CASE rec.frn \in DOMAIN pending
  <2> DEFINE old == pending[rec.frn]
  <2>1. /\ rows' = Rename(rows, old, PathOf(rec), build)
        /\ dirs' = IF rec.folder THEN RewriteDirSubtree(old, rec) ELSE dirs
        /\ pending' = Without(pending, {rec.frn})
    BY <1>1 DEF ApplyRename
  <2>2. old \in Trails /\ PathOf(rec) \in Trails
    BY <1>1, PathTyped DEF Tailed, PendingTyped
  <2> HIDE DEF old
  <2>3. RowsTypeOK(rows')
    BY <2>1, <2>2, RenameTyped DEF Tailed
  <2>4. DirsTyped'
    <3>1. CASE rec.folder
      BY <2>1, <2>2, <3>1, RewriteTyped DEF Tailed
    <3>2. CASE ~rec.folder
      BY <2>1, <3>2 DEF Tailed, DirsTyped, Files
    <3> QED
      BY <3>1, <3>2
  <2>5. PendingTyped'
    BY <2>1 DEF Tailed, PendingTyped, Without, Restrict
  <2> QED
    BY <2>3, <2>4, <2>5 DEF Tailed
<1>2. CASE rec.frn \notin DOMAIN pending
  BY <1>2, UpsertApplied DEF ApplyRename
<1> QED
  BY <1>1, <1>2

LEMMA AppliesTyped ==
    ASSUME Tailed, build \in Nat, NEW rec \in Records, Applies(rec)
    PROVE  Tailed'
<1>1. CASE UNCHANGED <<rows, dirs, pending>>
  BY <1>1 DEF Tailed, DirsTyped, PendingTyped, Files
<1>2. CASE Resolves(rec) /\ pending' = With(pending, rec.frn, PathOf(rec)) /\ UNCHANGED <<rows, dirs>>
  <2>1. PathOf(rec) \in Trails
    BY <1>2, PathTyped DEF Tailed
  <2>2. PendingTyped'
    BY <1>2, <2>1 DEF Tailed, PendingTyped, With
  <2> QED
    BY <1>2, <2>2 DEF Tailed, DirsTyped, Files
<1>3. CASE Resolves(rec) /\ ApplyDelete(rec)
  BY <1>3, DeleteApplied
<1>4. CASE Resolves(rec) /\ ApplyRename(rec)
  BY <1>4, RenameApplied
<1>5. CASE Resolves(rec) /\ ApplyUpsert(rec)
  BY <1>5, UpsertApplied
<1> QED
  BY <1>1, <1>2, <1>3, <1>4, <1>5 DEF Applies

LEMMA TailTyped == VolumeTyped /\ TailApplies => Tailed' /\ journal' \in Seq(Records)
<1> SUFFICES ASSUME VolumeTyped, TailApplies PROVE Tailed' /\ journal' \in Seq(Records)
  OBVIOUS
<1>1. journal \in Seq(Records) /\ journal # <<>>
  BY DEF VolumeTyped, TailApplies
<1>2. Head(journal) \in Records /\ Tail(journal) \in Seq(Records)
  BY <1>1, HeadTailProperties
<1>3. Applies(Head(journal)) /\ journal' = Tail(journal)
  BY DEF TailApplies
<1>4. Tailed'
  BY <1>2, <1>3, AppliesTyped DEF VolumeTyped, Tailed
<1> QED
  BY <1>2, <1>3, <1>4

\* What does not concern the disk or the rows.
LEMMA SameDisk == DiskTyped /\ UNCHANGED diskVars => DiskTyped'
  BY DEF DiskTyped, diskVars, Table, HandlesTyped, Files, Node

LEMMA SameTail == Tailed /\ UNCHANGED <<rows, tailVars>> => Tailed'
  BY DEF Tailed, tailVars, DirsTyped, PendingTyped, Files

LEMMA SameSeen == Table(seen) /\ UNCHANGED seen => Table(seen')
  BY DEF Table

LEMMA NothingSeen == Table(<<>>)
  BY DEF Table

LEMMA EndTyped == VolumeTyped /\ HelperEnds => Tailed' /\ DiskTyped'
<1> SUFFICES ASSUME VolumeTyped, HelperEnds PROVE Tailed' /\ DiskTyped'
  OBVIOUS
<1>1. PICK written \in SUBSET DOMAIN Places :
         rows' = IF phase = "reading" /\ position > MaxFiles
                 THEN UpsertEntries(rows, Entries(seen, Restrict(Places, written)), build) ELSE rows
  BY DEF HelperEnds
<1>2. written \intersect DOMAIN Places = written
  OBVIOUS
<1>3. RowsTypeOK(UpsertEntries(rows, Entries(seen, Restrict(Places, written)), build))
  BY <1>2, WrittenTyped
<1>4. RowsTypeOK(rows')
  BY <1>1, <1>3 DEF VolumeTyped
<1>5. DOMAIN <<>> = {}
  OBVIOUS
<1>6. DirsTyped' /\ PendingTyped'
  BY <1>5 DEF HelperEnds, DirsTyped, PendingTyped
<1>7. DiskTyped'
  BY EmptySeq DEF HelperEnds, VolumeTyped, DiskTyped, Table, HandlesTyped, Files, Node
<1> QED
  BY <1>4, <1>6, <1>7 DEF Tailed

LEMMA TypedNext == VolumeTyped /\ [Next]_vars => VolumeTyped'
<1> SUFFICES ASSUME VolumeTyped, [Next]_vars PROVE VolumeTyped'
  OBVIOUS
<1>0. DiskTyped /\ Tailed /\ Table(seen) /\ build \in Nat /\ position \in Nat
  BY DEF VolumeTyped, DiskTyped, Tailed
<1> SUFFICES DiskTyped' /\ Tailed' /\ Table(seen') /\ build' \in Nat /\ position' \in Nat
  BY DEF VolumeTyped, DiskTyped, Tailed, Table, Files, Node
<1>1. CASE ProgramsAct
  <2>1. UNCHANGED <<rows, tailVars>> /\ UNCHANGED seen /\ build' = build /\ position' = position
    BY <1>1 DEF ProgramsAct, buildVars
  <2> QED
    BY <1>0, <1>1, <2>1, ProgramsTyped, SameTail, SameSeen
<1>2. CASE Opens
  <2>1. UNCHANGED diskVars /\ UNCHANGED <<rows, tailVars>> /\ UNCHANGED seen /\ build' = build /\ position' = position
    BY <1>2 DEF Opens, buildVars
  <2> QED
    BY <1>0, <2>1, SameDisk, SameTail, SameSeen
<1>3. CASE BeginsBuild
  <2>1. /\ UNCHANGED diskVars /\ UNCHANGED <<rows, tailVars>>
        /\ seen' = <<>> /\ build' = build + 1 /\ position' = 1
    BY <1>3 DEF BeginsBuild
  <2> QED
    BY <1>0, <2>1, SameDisk, SameTail, NothingSeen
<1>4. CASE ReadsRecord
  <2>1. UNCHANGED diskVars /\ UNCHANGED <<rows, tailVars>> /\ build' = build
    BY <1>4 DEF ReadsRecord
  <2> QED
    BY <1>0, <1>4, <2>1, SameDisk, SameTail, ReadTyped
<1>5. CASE WritesRows
  <2>1. /\ UNCHANGED diskVars /\ UNCHANGED seen /\ UNCHANGED pending /\ build' = build /\ position' = position
    BY <1>5 DEF WritesRows, buildVars
  <2>2. PendingTyped'
    BY <1>0, <2>1 DEF Tailed, PendingTyped
  <2> QED
    BY <1>0, <1>5, <2>1, <2>2, SameDisk, SameSeen, WritesTyped DEF Tailed
<1>6. CASE Sweeps
  <2>1. /\ UNCHANGED diskVars /\ UNCHANGED seen /\ UNCHANGED tailVars /\ build' = build /\ position' = position
        /\ rows' = SweepVanished(rows, <<>>, build)
    BY <1>6 DEF Sweeps, buildVars
  <2>2. RowsTypeOK(rows')
    BY <1>0, <2>1, SweepTyped DEF Tailed
  <2>3. DirsTyped' /\ PendingTyped'
    BY <1>0, <2>1 DEF Tailed, tailVars, DirsTyped, PendingTyped, Files
  <2> QED
    BY <1>0, <2>1, <2>2, <2>3, SameDisk, SameSeen DEF Tailed
<1>7. CASE Registers
  <2>1. /\ UNCHANGED diskVars /\ UNCHANGED <<rows, tailVars>>
        /\ seen' = <<>> /\ build' = build /\ position' = 1
    BY <1>7 DEF Registers
  <2> QED
    BY <1>0, <2>1, SameDisk, SameTail, NothingSeen
<1>8. CASE TailApplies
  <2>1. /\ UNCHANGED <<disk, handles>> /\ UNCHANGED seen /\ build' = build /\ position' = position
    BY <1>8 DEF TailApplies, buildVars
  <2>2. Tailed' /\ journal' \in Seq(Records)
    BY <1>8, TailTyped
  <2>3. DiskTyped'
    BY <1>0, <2>1, <2>2 DEF DiskTyped, Table, HandlesTyped, Files, Node
  <2> QED
    BY <1>0, <2>1, <2>2, <2>3, SameSeen
<1>9. CASE FallsBack
  <2>1. /\ UNCHANGED diskVars /\ UNCHANGED <<rows, tailVars>>
        /\ seen' = <<>> /\ build' = build /\ position' = 1
    BY <1>9 DEF FallsBack
  <2> QED
    BY <1>0, <2>1, SameDisk, SameTail, NothingSeen
<1>10. CASE TailEnds
  <2>1. /\ UNCHANGED <<disk, handles>> /\ UNCHANGED <<rows, tailVars>> /\ journal' = <<>>
        /\ UNCHANGED seen /\ build' = build /\ position' = position
    BY <1>10 DEF TailEnds, buildVars
  <2>2. DiskTyped'
    BY <1>0, <2>1, EmptySeq DEF DiskTyped, Table, HandlesTyped, Files, Node
  <2> QED
    BY <1>0, <2>1, <2>2, SameTail, SameSeen
<1>11. CASE HelperEnds
  <2>1. seen' = <<>> /\ build' = build /\ position' = 1
    BY <1>11 DEF HelperEnds
  <2> QED
    BY <1>0, <1>11, <2>1, EndTyped, NothingSeen
<1>12. CASE UNCHANGED vars
  <2>1. UNCHANGED diskVars /\ UNCHANGED <<rows, tailVars>> /\ UNCHANGED seen /\ build' = build /\ position' = position
    BY <1>12 DEF vars, buildVars
  <2> QED
    BY <1>0, <2>1, SameDisk, SameTail, SameSeen
<1> QED
  BY <1>1, <1>2, <1>3, <1>4, <1>5, <1>6, <1>7, <1>8, <1>9, <1>10, <1>11, <1>12 DEF Next, IndexerActs

\* Whatever is created, moved and hidden while the table is read and the journal followed, and
\* wherever the helper ends: rows are at paths made of names and complete, though a path is put
\* together from a chain of parents read at different times, or from the directory map
\* (try_resolve, try_resolve_path, rewrite_dir_subtree), and a rename puts every row below it
\* where it belongs (fs_index.rs rename).
THEOREM VolumeTypeCorrect == Spec => []TypeOK
<1>1. VolumeTyped => TypeOK
  BY DEF VolumeTyped, TypeOK, Table, DirsTyped
<1> QED
  BY <1>1, TypedInit, TypedNext, PTL DEF Spec
--------------------------------------------------------------------------------
(* Where things are on a volume: what the chain of parents says of an entry and its parent. *)

At(D)         == Resolved(D, FoldersOf(D))
PathIn(D, f)   == At(D)[f].path
HiddenIn(D, f) == At(D)[f].hidden

\* Of two flags, one.
Either(a, b) == a \/ b

LEMMA BelowRoot ==
    ASSUME NEW nodes, NEW carriers, NEW above, NEW f \in Files, f \in DOMAIN nodes, nodes[f].parent = Root
    PROVE  /\ PlacedBelow(nodes, carriers, above)[f].path = <<nodes[f].name>>
           /\ PlacedBelow(nodes, carriers, above)[f].hidden = nodes[f].hidden
<1>1. PlacedBelow(nodes, carriers, above)[f] = [path |-> <<nodes[f].name>>, hidden |-> nodes[f].hidden]
  BY DEF PlacedBelow
<1> QED
  BY <1>1

LEMMA BelowParent ==
    ASSUME NEW nodes, NEW carriers, NEW above, NEW f \in Files, f \in DOMAIN nodes, NEW up,
           up = nodes[f].parent, up # Root, up \in carriers, above[up] # Nowhere
    PROVE  /\ PlacedBelow(nodes, carriers, above)[f].path = Append(above[up].path, nodes[f].name)
           /\ PlacedBelow(nodes, carriers, above)[f].hidden = Either(above[up].hidden, nodes[f].hidden)
<1>1. PlacedBelow(nodes, carriers, above)[f]
      = [path |-> Append(above[up].path, nodes[f].name), hidden |-> Either(above[up].hidden, nodes[f].hidden)]
  BY Zenon DEF PlacedBelow, Either
<1> QED
  BY <1>1

LEMMA BelowSomewhere ==
    ASSUME NEW nodes, NEW carriers, NEW above, NEW f \in Files,
           PlacedBelow(nodes, carriers, above)[f] # Nowhere
    PROVE  /\ f \in DOMAIN nodes
           /\ nodes[f].parent # Root => nodes[f].parent \in carriers /\ above[nodes[f].parent] # Nowhere
  BY DEF PlacedBelow

\* Longer chains change no place there is.
LEMMA PlacedSettles ==
    ASSUME NEW nodes, Table(nodes), NEW carriers, NEW above, NEW more,
           \A g \in Files : above[g] # Nowhere => more[g] = above[g],
           NEW f \in Files, PlacedBelow(nodes, carriers, above)[f] # Nowhere
    PROVE  PlacedBelow(nodes, carriers, more)[f] = PlacedBelow(nodes, carriers, above)[f]
<1>1. f \in DOMAIN nodes
  BY DEF PlacedBelow
<1>2. CASE nodes[f].parent = Root
  BY <1>1, <1>2 DEF PlacedBelow
<1>3. CASE nodes[f].parent # Root
  <2>1. nodes[f].parent \in Files
    BY <1>1, <1>3 DEF Table, Node
  <2>2. ~(nodes[f].parent \notin carriers \/ above[nodes[f].parent] = Nowhere)
    BY <1>1, <1>3 DEF PlacedBelow
  <2>3. more[nodes[f].parent] = above[nodes[f].parent]
    BY <2>1, <2>2
  <2> QED
    BY <1>1, <1>3, <2>2, <2>3 DEF PlacedBelow
<1> QED
  BY <1>2, <1>3

LEMMA PlacesSettle ==
    ASSUME NEW nodes, Table(nodes), NEW carriers, NEW f \in Files,
           PlacesUpTo(nodes, carriers)[MaxFiles - 1][f] # Nowhere
    PROVE  PlacesUpTo(nodes, carriers)[MaxFiles][f] = PlacesUpTo(nodes, carriers)[MaxFiles - 1][f]
<1> DEFINE place == PlacesUpTo(nodes, carriers)
           S == {d \in Nat : d + 1 \in 0..MaxFiles
                             => \A g \in Files : place[d][g] # Nowhere => place[d + 1][g] = place[d][g]}
<1>0. MaxFiles \in Nat /\ MaxFiles # 0
  BY VolumeAssumption DEF Files
<1>1. 0 \in S
  <2>1. place[0] = [g \in Files |-> Nowhere]
    BY PlacesAre
  <2> HIDE DEF place
  <2> QED
    BY <2>1
<1>2. ASSUME NEW d \in S PROVE d + 1 \in S
  <2>1. CASE (d + 1) + 1 \in 0..MaxFiles
    <3>1. d \in Nat /\ d + 1 \in 1..MaxFiles /\ (d + 1) + 1 \in 1..MaxFiles
      BY <1>0, <2>1
    <3>2. \A g \in Files : place[d][g] # Nowhere => place[d + 1][g] = place[d][g]
      BY <3>1
    <3>3. place[d + 1] = PlacedBelow(nodes, carriers, place[d])
      <4>1. (d + 1) - 1 = d
        BY <3>1
      <4> QED
        BY <3>1, <4>1, PlacesAre
    <3>4. place[(d + 1) + 1] = PlacedBelow(nodes, carriers, place[d + 1])
      <4>1. ((d + 1) + 1) - 1 = d + 1
        BY <3>1
      <4> QED
        BY <3>1, <4>1, PlacesAre
    <3> HIDE DEF place
    <3>5. \A g \in Files : place[d + 1][g] # Nowhere => place[(d + 1) + 1][g] = place[d + 1][g]
      BY <3>2, <3>3, <3>4, PlacedSettles
    <3> QED
      BY <3>1, <3>5
  <2> QED
    BY <2>1
<1>3. S = Nat
  <2>1. S \in SUBSET Nat
    OBVIOUS
  <2> HIDE DEF S
  <2> QED
    BY <1>1, <1>2, <2>1, Counting
<1>4. MaxFiles - 1 \in S /\ (MaxFiles - 1) + 1 = MaxFiles
  BY <1>0, <1>3
<1> QED
  BY <1>0, <1>4

\* A place is made of the name and the place of the parent.
LEMMA PlaceIs ==
    ASSUME NEW nodes, Table(nodes), NEW carriers, NEW f \in DOMAIN Resolved(nodes, carriers)
    PROVE  LET R == Resolved(nodes, carriers)
               up == nodes[f].parent
           IN  /\ f \in DOMAIN nodes /\ R[f] \in Spots /\ R[f].path # <<>>
               /\ up = Root => R[f].path = <<nodes[f].name>> /\ R[f].hidden = nodes[f].hidden
               /\ up # Root => /\ up \in carriers /\ up \in DOMAIN R
                               /\ R[f].path = Append(R[up].path, nodes[f].name)
                               /\ R[f].hidden = Either(R[up].hidden, nodes[f].hidden)
<1> DEFINE place == PlacesUpTo(nodes, carriers)
           R == Resolved(nodes, carriers)
<1>0. PICK up : up = nodes[f].parent
  OBVIOUS
<1>1. R = [g \in {g \in DOMAIN nodes : place[MaxFiles][g] # Nowhere} |-> place[MaxFiles][g]]
  BY DEF Resolved, Restrict
<1>2. f \in DOMAIN nodes /\ place[MaxFiles][f] # Nowhere /\ R[f] = place[MaxFiles][f]
  BY <1>1
<1>3. f \in Files /\ nodes[f] \in Node
  BY <1>2 DEF Table
<1>4. MaxFiles \in 1..MaxFiles
  BY <1>3, VolumeAssumption DEF Files
<1>5. place[MaxFiles] = PlacedBelow(nodes, carriers, place[MaxFiles - 1])
  BY <1>4, PlacesAre
<1>6. R[f] \in Spots
  BY ResolvedTyped
<1>7. CASE up = Root
  <2>1. nodes[f].parent = Root /\ f \in Files /\ f \in DOMAIN nodes
    BY <1>0, <1>2, <1>3, <1>7
  <2> HIDE DEF place, R
  <2>2. R[f].path = <<nodes[f].name>> /\ R[f].hidden = nodes[f].hidden
    BY <1>2, <1>5, <2>1, BelowRoot
  <2> QED
    BY <1>0, <1>2, <1>6, <1>7, <2>2 DEF R
<1>8. CASE up # Root
  <2>0. PICK above : above = place[MaxFiles - 1]
    OBVIOUS
  <2>1. up \in Files
    BY <1>0, <1>3, <1>8 DEF Node
  <2>2. up \in carriers /\ above[up] # Nowhere
    BY <1>0, <1>2, <1>3, <1>5, <1>8, <2>0, BelowSomewhere
  <2>3. place[MaxFiles][up] = above[up]
    BY <2>0, <2>1, <2>2, PlacesSettle
  <2>4. R[f].path = Append(above[up].path, nodes[f].name) /\ R[f].hidden = Either(above[up].hidden, nodes[f].hidden)
    BY <1>0, <1>2, <1>3, <1>5, <1>8, <2>0, <2>2, BelowParent
  <2>5. up \in DOMAIN nodes
    BY <1>5, <2>0, <2>1, <2>2, <2>3, BelowSomewhere
  <2>6. up \in DOMAIN R /\ R[up] = above[up]
    BY <1>1, <2>2, <2>3, <2>5
  <2>7. above[up].path \in Trails
    BY <2>6, ResolvedTyped DEF Spots
  <2>8. Append(above[up].path, nodes[f].name) # <<>>
    BY <1>3, <2>7 DEF Node, Trails
  <2> HIDE DEF place, R
  <2>9. R[f].path # <<>>
    BY <2>4, <2>8
  <2>10. R[f].path = Append(R[up].path, nodes[f].name) /\ R[f].hidden = Either(R[up].hidden, nodes[f].hidden)
    BY <2>4, <2>6, Zenon
  <2> QED
    BY <1>0, <1>2, <1>6, <1>8, <2>2, <2>6, <2>9, <2>10 DEF R
<1> QED
  BY <1>7, <1>8

\* Two tables that agree on a set of entries, and on what carries them, put them in the same places.
LEMMA SamePlaces ==
    ASSUME NEW one, Table(one), NEW oneCarriers, NEW other, Table(other), NEW carriers, NEW S,
           S \subseteq DOMAIN one, S \subseteq DOMAIN other,
           \A f \in S : /\ one[f].parent = other[f].parent /\ one[f].name = other[f].name
                        /\ one[f].parent = Root \/ (one[f].parent \in S /\ one[f].parent \in carriers),
           NEW f \in S, f \in DOMAIN Resolved(one, oneCarriers)
    PROVE  /\ f \in DOMAIN Resolved(other, carriers)
           /\ Resolved(other, carriers)[f].path = Resolved(one, oneCarriers)[f].path
           /\ (\A g \in S : one[g].hidden = other[g].hidden)
              => Resolved(other, carriers)[f].hidden = Resolved(one, oneCarriers)[f].hidden
<1> DEFINE p == PlacesUpTo(one, oneCarriers)
           q == PlacesUpTo(other, carriers)
           sameHidden == \A g \in S : one[g].hidden = other[g].hidden
           Alike(x, y) == y # Nowhere /\ y.path = x.path /\ (sameHidden => y.hidden = x.hidden)
           T == {d \in Nat : d \in 0..MaxFiles => \A g \in S : p[d][g] # Nowhere => Alike(p[d][g], q[d][g])}
<1>0. MaxFiles \in Nat /\ S \subseteq Files
  BY VolumeAssumption DEF Table
<1>1. 0 \in T
  <2>1. p[0] = [g \in Files |-> Nowhere]
    BY PlacesAre
  <2> HIDE DEF p, q
  <2> QED
    BY <1>0, <2>1
<1>2. ASSUME NEW d \in T PROVE d + 1 \in T
  <2> SUFFICES ASSUME d + 1 \in 0..MaxFiles, NEW g \in S, p[d + 1][g] # Nowhere
               PROVE  Alike(p[d + 1][g], q[d + 1][g])
    OBVIOUS
  <2>1. d \in 0..MaxFiles /\ d + 1 \in 1..MaxFiles /\ (d + 1) - 1 = d
    BY <1>0
  <2>2. \A e \in S : p[d][e] # Nowhere => Alike(p[d][e], q[d][e])
    BY <2>1
  <2>3. p[d + 1] = PlacedBelow(one, oneCarriers, p[d]) /\ q[d + 1] = PlacedBelow(other, carriers, q[d])
    BY <2>1, PlacesAre
  <2>4. /\ g \in Files /\ g \in DOMAIN one /\ g \in DOMAIN other /\ one[g] \in Node /\ other[g] \in Node
        /\ one[g].parent = other[g].parent /\ one[g].name = other[g].name
    BY DEF Table
  <2>5. \A x \in Files : q[d][x] \in Spots
    BY <2>1, PlacesTyped
  <2>8. sameHidden => one[g].hidden = other[g].hidden
    OBVIOUS
  <2> HIDE DEF p, q, T, sameHidden
  <2>6. CASE one[g].parent = Root
    <3>1. /\ p[d + 1][g].path = <<one[g].name>> /\ p[d + 1][g].hidden = one[g].hidden
          /\ q[d + 1][g].path = <<one[g].name>> /\ q[d + 1][g].hidden = other[g].hidden
      BY <2>3, <2>4, <2>6, BelowRoot
    <3>2. <<one[g].name>> # <<>> /\ Nowhere.path = <<>>
      BY DEF Nowhere
    <3>3. q[d + 1][g] # Nowhere
      BY <3>1, <3>2
    <3> QED
      BY <2>8, <3>1, <3>3
  <2>7. CASE one[g].parent # Root
    <3>0. PICK up : up = one[g].parent
      OBVIOUS
    <3>1. up \in S /\ up \in carriers /\ up \in Files /\ other[g].parent = up
      BY <1>0, <2>4, <2>7, <3>0
    <3>2. p[d][up] # Nowhere /\ up \in oneCarriers
      BY <2>3, <2>4, <2>7, <3>0, BelowSomewhere
    <3>3. Alike(p[d][up], q[d][up])
      BY <2>2, <3>1, <3>2
    <3>4. /\ p[d + 1][g].path = Append(p[d][up].path, one[g].name)
          /\ p[d + 1][g].hidden = Either(p[d][up].hidden, one[g].hidden)
      <4>1. p[d + 1] = PlacedBelow(one, oneCarriers, p[d]) /\ g \in Files /\ g \in DOMAIN one
        BY <2>3, <2>4
      <4>2. up = one[g].parent /\ up # Root /\ up \in oneCarriers /\ p[d][up] # Nowhere
        BY <2>7, <3>0, <3>2
      <4> QED
        BY <4>1, <4>2, BelowParent
    <3>5. /\ q[d + 1][g].path = Append(q[d][up].path, one[g].name)
          /\ q[d + 1][g].hidden = Either(q[d][up].hidden, other[g].hidden)
      <4>1. q[d][up] # Nowhere /\ up # Root /\ up = other[g].parent /\ other[g].name = one[g].name
        BY <2>4, <2>7, <3>0, <3>1, <3>3
      <4>2. /\ q[d + 1][g].path = Append(q[d][up].path, other[g].name)
            /\ q[d + 1][g].hidden = Either(q[d][up].hidden, other[g].hidden)
        BY <2>3, <2>4, <3>1, <4>1, BelowParent
      <4> QED
        BY <4>1, <4>2, Zenon
    <3>6. Append(q[d][up].path, one[g].name) # <<>>
      <4>1. q[d][up].path \in Trails /\ one[g].name \in Names
        BY <2>4, <2>5, <3>1 DEF Spots, Node
      <4>2. \A t \in Trails, n \in Names : Append(t, n) # <<>>
        BY DEF Trails
      <4> QED
        BY <4>1, <4>2, Zenon
    <3>7. q[d + 1][g] # Nowhere
      BY <3>5, <3>6 DEF Nowhere
    <3>8. q[d][up].path = p[d][up].path /\ (sameHidden => q[d][up].hidden = p[d][up].hidden)
      BY <3>3
    <3>9. q[d + 1][g].path = p[d + 1][g].path
      BY <3>4, <3>5, <3>8
    <3>10. sameHidden => q[d + 1][g].hidden = p[d + 1][g].hidden
      BY <2>8, <3>4, <3>5, <3>8
    <3> QED
      BY <3>7, <3>9, <3>10
  <2> QED
    BY <2>6, <2>7
<1>3. T = Nat
  <2>1. T \in SUBSET Nat
    OBVIOUS
  <2> HIDE DEF T
  <2> QED
    BY <1>1, <1>2, <2>1, Counting
<1>4. /\ Resolved(one, oneCarriers) = [g \in {g \in DOMAIN one : p[MaxFiles][g] # Nowhere} |-> p[MaxFiles][g]]
      /\ Resolved(other, carriers) = [g \in {g \in DOMAIN other : q[MaxFiles][g] # Nowhere} |-> q[MaxFiles][g]]
  BY DEF Resolved, Restrict
<1>5. MaxFiles \in T /\ MaxFiles \in 0..MaxFiles
  BY <1>0, <1>3
<1>6. p[MaxFiles][f] # Nowhere => Alike(p[MaxFiles][f], q[MaxFiles][f])
  BY <1>5
<1> HIDE DEF T, p, q
<1> QED
  BY <1>4, <1>6
--------------------------------------------------------------------------------
(* Paths that grow by a name. *)

LEMMA NextName ==
    ASSUME NEW p \in Trails, NEW n \in Names
    PROVE  /\ Append(p, n) \in Trails /\ Append(p, n) # <<>> /\ Len(Append(p, n)) = Len(p) + 1 /\ Len(p) \in Nat
           /\ \A i \in 1..Len(p) : Append(p, n)[i] = p[i]
           /\ Append(p, n)[Len(p) + 1] = n
<1>1. /\ Append(p, n) \in Seq(Names) /\ Len(Append(p, n)) = Len(p) + 1
      /\ \A i \in 1..Len(p) : Append(p, n)[i] = p[i]
      /\ Append(p, n)[Len(p) + 1] = n
  BY AppendProperties DEF Trails
<1>2. Len(p) \in Nat
  BY LenProperties DEF Trails
<1>3. Append(p, n) # <<>>
  BY <1>1, <1>2
<1> QED
  BY <1>1, <1>2, <1>3 DEF Trails

LEMMA SameNext ==
    ASSUME NEW p \in Trails, NEW q \in Trails, NEW m \in Names, NEW n \in Names, Append(p, m) = Append(q, n)
    PROVE  p = q /\ m = n
<1>0. PICK s, t : s = Append(p, m) /\ t = Append(q, n)
  OBVIOUS
<1>4. Len(s) = Len(p) + 1 /\ Len(p) \in Nat /\ (\A i \in 1..Len(p) : s[i] = p[i]) /\ s[Len(p) + 1] = m
  BY <1>0, NextName
<1>5. Len(t) = Len(q) + 1 /\ Len(q) \in Nat /\ (\A i \in 1..Len(q) : t[i] = q[i]) /\ t[Len(q) + 1] = n
  BY <1>0, NextName
<1>6. s = t
  BY <1>0
<1>1. Len(p) = Len(q)
  BY <1>4, <1>5, <1>6
<1>2. m = n
  BY <1>1, <1>4, <1>5, <1>6
<1>3. \A i \in 1..Len(p) : p[i] = q[i]
  BY <1>1, <1>4, <1>5, <1>6
<1> QED
  BY <1>1, <1>2, <1>3, SameTrail

LEMMA OneName ==
    ASSUME NEW n \in Names
    PROVE  /\ <<n>> \in Trails /\ <<n>> # <<>> /\ Len(<<n>>) = 1
           /\ \A m \in Names : <<m>> = <<n>> => m = n
           /\ \A p \in Trails, m \in Names : p # <<>> => Append(p, m) # <<n>>
<1>1. <<n>> \in Trails /\ <<n>> # <<>> /\ Len(<<n>>) = 1 /\ \A m \in Names : <<m>> = <<n>> => m = n
  BY DEF Trails
<1>2. ASSUME NEW p \in Trails, NEW m \in Names, p # <<>> PROVE Append(p, m) # <<n>>
  <2>1. Len(p) # 0 /\ Len(p) \in Nat
    BY <1>2, EmptySeq, LenProperties DEF Trails
  <2>2. Len(Append(p, m)) = Len(p) + 1
    BY NextName
  <2> QED
    BY <1>1, <2>1, <2>2
<1> QED
  BY <1>1, <1>2

LEMMA WithinItself == \A p \in Trails : Within(p, p)
  BY WithinIs

LEMMA UnderIs ==
    ASSUME NEW p, NEW q
    PROVE  Under(p, q) <=> Within(p, q) /\ p # q
  BY DEF Under, Within, IsStrictPrefix

LEMMA WithinNext ==
    ASSUME NEW p \in Trails, NEW n \in Names, NEW q \in Trails
    PROVE  Within(Append(p, n), q) <=> q = Append(p, n) \/ Within(p, q)
<1> DEFINE a == Append(p, n)
<1>1. a \in Trails /\ Len(a) = Len(p) + 1 /\ Len(p) \in Nat /\ \A i \in 1..Len(p) : a[i] = p[i]
  BY NextName
<1> HIDE DEF a
<1>2. Len(q) \in Nat
  BY LenProperties DEF Trails
<1>3. ASSUME Within(a, q), q # a PROVE Within(p, q)
  <2>1. Len(q) <= Len(a) /\ \A i \in 1..Len(q) : a[i] = q[i]
    BY <1>1, <1>3, WithinIs
  <2>2. Len(q) # Len(a)
    BY <1>1, <1>2, <1>3, <2>1, SameTrail
  <2>3. Len(q) <= Len(p) /\ \A i \in 1..Len(q) : p[i] = q[i]
    BY <1>1, <1>2, <2>1, <2>2
  <2> QED
    BY <2>3, WithinIs
<1>4. ASSUME Within(p, q) PROVE Within(a, q)
  <2>1. Len(q) <= Len(p) /\ \A i \in 1..Len(q) : p[i] = q[i]
    BY <1>4, WithinIs
  <2>2. Len(q) <= Len(a) /\ \A i \in 1..Len(q) : a[i] = q[i]
    BY <1>1, <1>2, <2>1
  <2> QED
    BY <1>1, <2>2, WithinIs
<1>5. Within(a, a)
  BY <1>1, WithinItself
<1> QED
  BY <1>3, <1>4, <1>5 DEF a

LEMMA WithinOne ==
    ASSUME NEW n \in Names, NEW q \in Trails, q # <<>>
    PROVE  Within(<<n>>, q) <=> q = <<n>>
<1>1. <<n>> \in Trails /\ Len(<<n>>) = 1
  BY OneName
<1>2. Len(q) \in Nat /\ Len(q) # 0
  BY EmptySeq, LenProperties DEF Trails
<1>3. ASSUME Within(<<n>>, q) PROVE q = <<n>>
  <2>1. Len(q) <= 1 /\ \A i \in 1..Len(q) : <<n>>[i] = q[i]
    BY <1>1, <1>3, WithinIs
  <2> QED
    BY <1>1, <1>2, <2>1, SameTrail
<1> QED
  BY <1>1, <1>3, WithinItself

\* What is within what is within.
LEMMA WithinThrough ==
    ASSUME NEW p \in Trails, NEW q \in Trails, NEW r \in Trails, Within(p, q), Within(q, r)
    PROVE  Within(p, r)
<1>1. Len(q) <= Len(p) /\ Len(r) <= Len(q) /\ Len(p) \in Nat /\ Len(q) \in Nat /\ Len(r) \in Nat
  BY WithinIs
<1>2. \A i \in 1..Len(r) : p[i] = r[i]
  <2> TAKE i \in 1..Len(r)
  <2>1. i \in 1..Len(q) /\ q[i] = r[i]
    BY <1>1, WithinIs
  <2> QED
    BY <2>1, WithinIs
<1> QED
  BY <1>1, <1>2, WithinIs

--------------------------------------------------------------------------------
(* Tables in which every entry has a place. *)

Whole(D) == Table(D) /\ DOMAIN At(D) = DOMAIN D
Good(D)  == /\ Whole(D)
            /\ \A f, g \in DOMAIN D : D[f].parent = D[g].parent /\ D[f].name = D[g].name => f = g

LEMMA PathIs ==
    ASSUME NEW D, Whole(D), NEW f \in DOMAIN D
    PROVE  /\ f \in Files /\ D[f] \in Node /\ D[f].name \in Names
           /\ PathIn(D, f) \in Trails /\ PathIn(D, f) # <<>> /\ HiddenIn(D, f) \in BOOLEAN /\ At(D)[f] \in Spots
           /\ D[f].parent = Root => PathIn(D, f) = <<D[f].name>> /\ HiddenIn(D, f) = D[f].hidden
           /\ D[f].parent # Root => /\ D[f].parent \in FoldersOf(D) /\ D[f].parent \in DOMAIN D
                                    /\ PathIn(D, f) = Append(PathIn(D, D[f].parent), D[f].name)
                                    /\ HiddenIn(D, f) = Either(HiddenIn(D, D[f].parent), D[f].hidden)
<1>1. f \in DOMAIN Resolved(D, FoldersOf(D)) /\ Table(D)
  BY DEF Whole, At
<1>2. f \in Files /\ D[f] \in Node /\ D[f].name \in Names
  BY <1>1 DEF Table, Whole, Node
<1>3. /\ At(D)[f] \in Spots /\ PathIn(D, f) # <<>>
      /\ D[f].parent = Root => PathIn(D, f) = <<D[f].name>> /\ HiddenIn(D, f) = D[f].hidden
      /\ D[f].parent # Root => /\ D[f].parent \in FoldersOf(D) /\ D[f].parent \in DOMAIN At(D)
                               /\ PathIn(D, f) = Append(PathIn(D, D[f].parent), D[f].name)
                               /\ HiddenIn(D, f) = Either(HiddenIn(D, D[f].parent), D[f].hidden)
  BY <1>1, PlaceIs DEF At, PathIn, HiddenIn
<1>4. PathIn(D, f) \in Trails /\ HiddenIn(D, f) \in BOOLEAN
  BY <1>3 DEF Spots, PathIn, HiddenIn
<1> QED
  BY <1>2, <1>3, <1>4 DEF Whole

\* From the root down, every entry is reached.
LEMMA Climb ==
    ASSUME NEW D, Whole(D), NEW S, S \subseteq DOMAIN D,
           \A g \in DOMAIN D : D[g].parent = Root => g \in S,
           \A g \in DOMAIN D : D[g].parent \in S => g \in S
    PROVE  S = DOMAIN D
<1> DEFINE T == {n \in Nat : \A g \in DOMAIN D : Len(PathIn(D, g)) <= n => g \in S}
<1>1. 0 \in T
  <2> SUFFICES ASSUME NEW g \in DOMAIN D, Len(PathIn(D, g)) <= 0 PROVE FALSE
    OBVIOUS
  <2>1. PathIn(D, g) \in Trails /\ PathIn(D, g) # <<>>
    BY PathIs
  <2> QED
    BY <2>1, EmptySeq, LenProperties DEF Trails
<1>2. ASSUME NEW n \in T PROVE n + 1 \in T
  <2>1. n \in Nat /\ \A g \in DOMAIN D : Len(PathIn(D, g)) <= n => g \in S
    OBVIOUS
  <2> HIDE DEF T
  <2>2. ASSUME NEW g \in DOMAIN D, Len(PathIn(D, g)) <= n + 1 PROVE g \in S
    <3>1. CASE D[g].parent = Root
      BY <3>1
    <3>2. CASE D[g].parent # Root
      <4>0. PICK up : up = D[g].parent
        OBVIOUS
      <4>1. /\ up \in DOMAIN D /\ PathIn(D, g) = Append(PathIn(D, up), D[g].name) /\ D[g].name \in Names
        BY <3>2, <4>0, PathIs
      <4>2. PathIn(D, up) \in Trails
        BY <4>1, PathIs
      <4>3. Len(PathIn(D, g)) = Len(PathIn(D, up)) + 1 /\ Len(PathIn(D, up)) \in Nat
        BY <4>1, <4>2, NextName
      <4>4. up \in S
        BY <2>1, <2>2, <4>1, <4>3
      <4> QED
        BY <4>0, <4>4
    <3> QED
      BY <3>1, <3>2
  <2>3. n + 1 \in Nat
    BY <2>1
  <2> QED
    BY <2>2, <2>3 DEF T
<1>3. T = Nat
  <2>1. T \in SUBSET Nat
    OBVIOUS
  <2> HIDE DEF T
  <2> QED
    BY <1>1, <1>2, <2>1, Counting
<1>4. ASSUME NEW g \in DOMAIN D PROVE g \in S
  <2>1. Len(PathIn(D, g)) \in Nat
    BY PathIs, LenProperties DEF Trails
  <2>2. Len(PathIn(D, g)) \in T
    BY <1>3, <2>1
  <2> QED
    BY <2>1, <2>2
<1> QED
  BY <1>4

\* On a volume, a path is one entry's.
LEMMA OneAtAPath ==
    ASSUME NEW D, Good(D), NEW f \in DOMAIN D, NEW g \in DOMAIN D, PathIn(D, f) = PathIn(D, g)
    PROVE  f = g
<1> DEFINE S == {x \in DOMAIN D : \A y \in DOMAIN D : PathIn(D, x) = PathIn(D, y) => x = y}
<1>0. Whole(D) /\ \A x, y \in DOMAIN D : D[x].parent = D[y].parent /\ D[x].name = D[y].name => x = y
  BY DEF Good
<1>1. ASSUME NEW x \in DOMAIN D, D[x].parent = Root, NEW y \in DOMAIN D, PathIn(D, x) = PathIn(D, y)
      PROVE  x = y
  <2>1. PathIn(D, x) = <<D[x].name>> /\ D[x].name \in Names /\ D[y].name \in Names
    BY <1>0, <1>1, PathIs
  <2>2. CASE D[y].parent = Root
    <3>1. PathIn(D, y) = <<D[y].name>>
      BY <1>0, <2>2, PathIs
    <3> QED
      BY <1>0, <1>1, <2>1, <2>2, <3>1, OneName
  <2>3. CASE D[y].parent # Root
    <3>0. PICK up : up = D[y].parent
      OBVIOUS
    <3>1. PathIn(D, y) = Append(PathIn(D, up), D[y].name) /\ up \in DOMAIN D
      BY <1>0, <2>3, <3>0, PathIs
    <3>2. PathIn(D, up) \in Trails /\ PathIn(D, up) # <<>>
      BY <1>0, <3>1, PathIs
    <3>3. Append(PathIn(D, up), D[y].name) # <<D[x].name>>
      BY <2>1, <3>2, OneName
    <3> QED
      BY <1>1, <2>1, <3>1, <3>3
  <2> QED
    BY <2>2, <2>3
<1>2. ASSUME NEW x \in DOMAIN D, D[x].parent \in S, NEW y \in DOMAIN D, PathIn(D, x) = PathIn(D, y)
      PROVE  x = y
  <2>1. CASE D[y].parent = Root
    BY <1>1, <1>2, <2>1
  <2>2. CASE D[y].parent # Root /\ D[x].parent # Root
    <3>0. PICK up, vp : up = D[x].parent /\ vp = D[y].parent
      OBVIOUS
    <3>1. /\ up \in DOMAIN D /\ PathIn(D, x) = Append(PathIn(D, up), D[x].name) /\ D[x].name \in Names
          /\ vp \in DOMAIN D /\ PathIn(D, y) = Append(PathIn(D, vp), D[y].name) /\ D[y].name \in Names
      BY <1>0, <2>2, <3>0, PathIs
    <3>2. PathIn(D, up) \in Trails /\ PathIn(D, vp) \in Trails
      BY <1>0, <3>1, PathIs
    <3>5. Append(PathIn(D, up), D[x].name) = Append(PathIn(D, vp), D[y].name)
      BY <1>2, <3>1
    <3>3. PathIn(D, up) = PathIn(D, vp) /\ D[x].name = D[y].name
      BY <3>1, <3>2, <3>5, SameNext
    <3>4. up = vp
      BY <1>2, <3>0, <3>1, <3>3
    <3> QED
      BY <1>0, <3>0, <3>3, <3>4
  <2> QED
    BY <1>1, <1>2, <2>1, <2>2
<1>3. S = DOMAIN D
  <2>1. /\ S \subseteq DOMAIN D
        /\ \A x \in DOMAIN D : D[x].parent = Root => x \in S
        /\ \A x \in DOMAIN D : D[x].parent \in S => x \in S
    BY <1>1, <1>2
  <2> HIDE DEF S
  <2> QED
    BY <1>0, <2>1, Climb
<1> QED
  BY <1>3

\* There is an entry at every step of the way to an entry.
LEMMA OnTheWay ==
    ASSUME NEW D, Whole(D), NEW q \in Trails, q # <<>>, NEW g \in DOMAIN D, Within(PathIn(D, g), q)
    PROVE  \E d \in DOMAIN D : PathIn(D, d) = q
<1> DEFINE S == {x \in DOMAIN D : Within(PathIn(D, x), q) => \E d \in DOMAIN D : PathIn(D, d) = q}
<1>1. ASSUME NEW x \in DOMAIN D, D[x].parent = Root, Within(PathIn(D, x), q)
      PROVE  \E d \in DOMAIN D : PathIn(D, d) = q
  <2>1. PathIn(D, x) = <<D[x].name>> /\ D[x].name \in Names
    BY <1>1, PathIs
  <2> QED
    BY <1>1, <2>1, WithinOne
<1>2. ASSUME NEW x \in DOMAIN D, D[x].parent \in S, D[x].parent # Root, Within(PathIn(D, x), q)
      PROVE  \E d \in DOMAIN D : PathIn(D, d) = q
  <2>0. PICK up : up = D[x].parent
    OBVIOUS
  <2>1. up \in DOMAIN D /\ PathIn(D, x) = Append(PathIn(D, up), D[x].name) /\ D[x].name \in Names
    BY <1>2, <2>0, PathIs
  <2>2. PathIn(D, up) \in Trails
    BY <2>1, PathIs
  <2>3. q = PathIn(D, x) \/ Within(PathIn(D, up), q)
    BY <1>2, <2>1, <2>2, WithinNext
  <2> QED
    BY <1>2, <2>0, <2>3
<1>3. S = DOMAIN D
  <2>1. /\ S \subseteq DOMAIN D
        /\ \A x \in DOMAIN D : D[x].parent = Root => x \in S
        /\ \A x \in DOMAIN D : D[x].parent \in S => x \in S
    BY <1>1, <1>2
  <2> HIDE DEF S
  <2> QED
    BY <2>1, Climb
<1> QED
  BY <1>3

\* What has something below it is a folder with something in it.
LEMMA UnderIsIn ==
    ASSUME NEW D, Good(D), NEW f \in DOMAIN D, NEW g \in DOMAIN D, Under(PathIn(D, g), PathIn(D, f))
    PROVE  f \in FoldersOf(D) /\ \E c \in DOMAIN D : D[c].parent = f
<1> DEFINE Holds == f \in FoldersOf(D) /\ \E c \in DOMAIN D : D[c].parent = f
           S == {x \in DOMAIN D : Under(PathIn(D, x), PathIn(D, f)) => Holds}
<1>0. Whole(D) /\ PathIn(D, f) \in Trails /\ PathIn(D, f) # <<>>
  BY PathIs DEF Good
<1>1. ASSUME NEW x \in DOMAIN D, D[x].parent = Root, Under(PathIn(D, x), PathIn(D, f))
      PROVE  FALSE
  <2>1. PathIn(D, x) = <<D[x].name>> /\ D[x].name \in Names
    BY <1>0, <1>1, PathIs
  <2> QED
    BY <1>0, <1>1, <2>1, WithinOne, UnderIs
<1>2. ASSUME NEW x \in DOMAIN D, D[x].parent \in S, D[x].parent # Root, Under(PathIn(D, x), PathIn(D, f))
      PROVE  Holds
  <2>0. PICK up : up = D[x].parent
    OBVIOUS
  <2>1. up \in FoldersOf(D) /\ up \in DOMAIN D /\ PathIn(D, x) = Append(PathIn(D, up), D[x].name) /\ D[x].name \in Names
    BY <1>0, <1>2, <2>0, PathIs
  <2>2. PathIn(D, up) \in Trails
    BY <1>0, <2>1, PathIs
  <2>3. Within(PathIn(D, up), PathIn(D, f))
    BY <1>0, <1>2, <2>1, <2>2, WithinNext, UnderIs
  <2>4. CASE PathIn(D, up) = PathIn(D, f)
    <3>1. up = f
      BY <2>1, <2>4, OneAtAPath
    <3> QED
      BY <2>0, <2>1, <3>1
  <2>5. CASE PathIn(D, up) # PathIn(D, f)
    BY <1>2, <2>0, <2>3, <2>5, UnderIs
  <2> QED
    BY <2>4, <2>5
<1>3. S = DOMAIN D
  <2>1. /\ S \subseteq DOMAIN D
        /\ \A x \in DOMAIN D : D[x].parent = Root => x \in S
        /\ \A x \in DOMAIN D : D[x].parent \in S => x \in S
    BY <1>1, <1>2
  <2> HIDE DEF S
  <2> QED
    BY <1>0, <2>1, Climb
<1> QED
  BY <1>3
--------------------------------------------------------------------------------
(* What a record tells of the volume before and after it. *)

ToCreate(D, rec, E) ==
    LET f == rec.frn
    IN  /\ f \in Files /\ f \notin DOMAIN D /\ DOMAIN E = DOMAIN D \union {f}
        /\ \A g \in DOMAIN D : E[g] = D[g]
        /\ rec = Record(f, E[f], {"create", "close"})

ToDelete(D, rec, E) ==
    LET f == rec.frn
    IN  /\ f \in DOMAIN D /\ DOMAIN E = DOMAIN D \ {f}
        /\ \A g \in DOMAIN D : D[g].parent # f
        /\ \A g \in DOMAIN E : E[g] = D[g]
        /\ rec = Record(f, D[f], {"delete", "close"})

\* A folder's flag stays.
ToShow(D, rec, E) ==
    LET f == rec.frn
    IN  /\ f \in DOMAIN D /\ D[f].folder = FALSE /\ DOMAIN E = DOMAIN D
        /\ \A g \in DOMAIN D : g # f => E[g] = D[g]
        /\ E[f].parent = D[f].parent /\ E[f].name = D[f].name /\ E[f].folder = FALSE
        /\ rec = Record(f, E[f], {"attributes", "close"})

Plain(D, rec, E) == ToCreate(D, rec, E) \/ ToDelete(D, rec, E) \/ ToShow(D, rec, E)

\* The record of a move, whose target is free and where nothing becomes hidden or is so no more.
ToMove(D, rec, E) ==
    LET f == rec.frn
    IN  /\ f \in DOMAIN D /\ DOMAIN E = DOMAIN D
        /\ \A g \in DOMAIN D : g # f => E[g] = D[g]
        /\ E[f].folder = D[f].folder
        /\ \A g \in DOMAIN D : ~(D[g].parent = E[f].parent /\ D[g].name = E[f].name)
        /\ \A g \in DOMAIN D : HiddenIn(E, g) = HiddenIn(D, g)
        /\ rec = Record(f, E[f], {"new name", "close"})

LEMMA RecordIs ==
    ASSUME NEW f, NEW node, NEW reasons
    PROVE  LET rec == Record(f, node, reasons)
           IN  /\ rec.frn = f /\ rec.parent = node.parent /\ rec.name = node.name /\ rec.folder = node.folder
               /\ rec.hidden = node.hidden /\ rec.reasons = reasons
  BY DEF Record

\* One table is part of another: what is in both has one parent, one name and one kind, and a
\* folder one flag.
Alike(x, y) == /\ x.parent = y.parent /\ x.name = y.name /\ x.folder = y.folder
               /\ x.folder = TRUE => x.hidden = y.hidden

PartOf(D, U) == DOMAIN D \subseteq DOMAIN U /\ \A f \in DOMAIN D : Alike(D[f], U[f])

LEMMA PartIs ==
    ASSUME NEW D, Whole(D), NEW U, Whole(U), PartOf(D, U), NEW f \in DOMAIN D
    PROVE  /\ f \in DOMAIN U /\ PathIn(D, f) = PathIn(U, f)
           /\ f \in FoldersOf(D) <=> f \in FoldersOf(U)
           /\ f \in FoldersOf(D) => HiddenIn(D, f) = HiddenIn(U, f)
<1>0. Table(D) /\ Table(U)
  BY DEF Whole
<1>1. f \in DOMAIN U /\ D[f].folder = U[f].folder
  BY DEF PartOf, Alike
<1>2. f \in FoldersOf(D) <=> f \in FoldersOf(U)
  BY <1>1 DEF FoldersOf
<1>3. \A g \in DOMAIN D : /\ D[g].parent = U[g].parent /\ D[g].name = U[g].name
                          /\ D[g].folder = U[g].folder /\ g \in DOMAIN U
                          /\ D[g].folder = TRUE => D[g].hidden = U[g].hidden
  BY DEF PartOf, Alike
<1>4. \A g \in DOMAIN D : D[g].parent = Root \/ D[g].parent \in FoldersOf(D)
  BY PathIs
<1>5. \A g \in FoldersOf(D) : g \in FoldersOf(U) /\ g \in DOMAIN D /\ g \in DOMAIN U /\ D[g].folder = TRUE
  <2>1. \A g \in DOMAIN D : D[g].folder \in BOOLEAN
    BY <1>0 DEF Table, Node
  <2> QED
    BY <1>3, <2>1 DEF FoldersOf
<1>6. f \in DOMAIN Resolved(D, FoldersOf(D))
  BY DEF Whole, At
<1>7. PathIn(D, f) = PathIn(U, f)
  <2>1. \A g \in DOMAIN D : /\ D[g].parent = U[g].parent /\ D[g].name = U[g].name
                            /\ D[g].parent = Root \/ (D[g].parent \in DOMAIN D /\ D[g].parent \in FoldersOf(U))
    BY <1>3, <1>4, <1>5
  <2>2. DOMAIN D \subseteq DOMAIN U
    BY <1>3
  <2> QED
    BY <1>0, <1>6, <2>1, <2>2, SamePlaces DEF PathIn, At
<1>8. ASSUME f \in FoldersOf(D) PROVE HiddenIn(D, f) = HiddenIn(U, f)
  <2> DEFINE S == FoldersOf(D)
  <2>1. \A g \in S : /\ D[g].parent = U[g].parent /\ D[g].name = U[g].name /\ D[g].hidden = U[g].hidden
                     /\ D[g].parent = Root \/ (D[g].parent \in S /\ D[g].parent \in FoldersOf(U))
    BY <1>3, <1>4, <1>5
  <2>2. S \subseteq DOMAIN D /\ S \subseteq DOMAIN U
    BY <1>5
  <2>3. f \in S
    BY <1>8
  <2> HIDE DEF S
  <2> QED
    BY <1>0, <1>6, <2>1, <2>2, <2>3, SamePlaces DEF HiddenIn, At
<1> QED
  BY <1>1, <1>2, <1>7, <1>8

LEMMA EitherIs ==
    ASSUME NEW a \in BOOLEAN, NEW b \in BOOLEAN
    PROVE  Either(a, b) \in BOOLEAN /\ Either(a, b) = Either(b, a)
<1>1. CASE a = TRUE
  BY <1>1 DEF Either
<1>2. CASE a = FALSE
  BY <1>2 DEF Either
<1> QED
  BY <1>1, <1>2

\* What a step does not speak of stays as it is.
LEMMA PlainElsewhere ==
    ASSUME NEW D, NEW rec, NEW E, Plain(D, rec, E), NEW g, g # rec.frn
    PROVE  /\ g \in DOMAIN D <=> g \in DOMAIN E
           /\ g \in DOMAIN D => E[g] = D[g]
  BY DEF Plain, ToCreate, ToDelete, ToShow

LEMMA PlainAbout ==
    ASSUME NEW D, NEW rec, NEW E, Plain(D, rec, E)
    PROVE  /\ rec.frn \in DOMAIN D \/ rec.frn \in DOMAIN E
           /\ "close" \in rec.reasons /\ "old name" \notin rec.reasons /\ "new name" \notin rec.reasons
           /\ ToDelete(D, rec, E) <=> "delete" \in rec.reasons
           /\ rec.frn \in DOMAIN D /\ rec.frn \notin DOMAIN E => ToDelete(D, rec, E)
<1>1. CASE ToCreate(D, rec, E)
  <2>1. rec.reasons = {"create", "close"} /\ rec.frn \in DOMAIN E /\ rec.frn \notin DOMAIN D
    BY <1>1, RecordIs DEF ToCreate
  <2> QED
    BY <2>1 DEF ToDelete
<1>2. CASE ToDelete(D, rec, E)
  <2>1. rec.reasons = {"delete", "close"} /\ rec.frn \in DOMAIN D
    BY <1>2, RecordIs DEF ToDelete
  <2> QED
    BY <1>2, <2>1
<1>3. CASE ToShow(D, rec, E)
  <2>1. rec.reasons = {"attributes", "close"} /\ rec.frn \in DOMAIN D /\ rec.frn \in DOMAIN E
    BY <1>3, RecordIs DEF ToShow
  <2> QED
    BY <2>1 DEF ToDelete
<1> QED
  BY <1>1, <1>2, <1>3 DEF Plain

--------------------------------------------------------------------------------
(* A stretch of the journal without moves, in which no number and no folder's path is used again. *)

Named == Trails \ {<<>>}

Window(js, h, w, U) ==
    /\ w \in Nat /\ Whole(U)
    /\ \A i \in 0..w : Good(h[i]) /\ PartOf(h[i], U)
    /\ \A i \in 1..w : Plain(h[i - 1], js[i], h[i])
    /\ \A i, j, l \in 0..w : i <= j /\ j <= l => DOMAIN h[i] \intersect DOMAIN h[l] \subseteq DOMAIN h[j]
    /\ \A f, g \in FoldersOf(U) : PathIn(U, f) = PathIn(U, g) => f = g

\* Without a record of it an entry stays as it is.
LEMMA Quiet ==
    ASSUME NEW js, NEW h, NEW w, NEW U, Window(js, h, w, U), NEW f, NEW a \in 0..w, NEW b \in 0..w, a <= b,
           \A i \in (a + 1)..b : js[i].frn # f
    PROVE  /\ f \in DOMAIN h[a] <=> f \in DOMAIN h[b]
           /\ f \in DOMAIN h[a] => h[b][f] = h[a][f]
<1> DEFINE Same(n) == /\ f \in DOMAIN h[a] <=> f \in DOMAIN h[a + n]
                      /\ f \in DOMAIN h[a] => h[a + n][f] = h[a][f]
           T == {n \in Nat : a + n <= b => Same(n)}
<1>0. w \in Nat /\ a \in Nat /\ b \in Nat /\ \A i \in 1..w : Plain(h[i - 1], js[i], h[i])
  BY DEF Window
<1>1. 0 \in T
  BY <1>0
<1>2. ASSUME NEW n \in T PROVE n + 1 \in T
  <2>0. n \in Nat /\ (a + n <= b => Same(n))
    OBVIOUS
  <2> HIDE DEF T
  <2>1. ASSUME a + (n + 1) <= b PROVE Same(n + 1)
    <3>1. Same(n)
      BY <1>0, <2>0, <2>1
    <3>2. PICK i : i = a + (n + 1)
      OBVIOUS
    <3>3. i \in 1..w /\ i \in (a + 1)..b /\ i - 1 = a + n
      BY <1>0, <2>0, <2>1, <3>2
    <3>4. Plain(h[a + n], js[i], h[i]) /\ js[i].frn # f
      BY <1>0, <3>3
    <3>5. /\ f \in DOMAIN h[a + n] <=> f \in DOMAIN h[i]
          /\ f \in DOMAIN h[a + n] => h[i][f] = h[a + n][f]
      BY <3>4, PlainElsewhere
    <3> QED
      BY <3>1, <3>2, <3>5
  <2> HIDE DEF Same
  <2> QED
    BY <2>0, <2>1 DEF T
<1>3. T = Nat
  <2>1. T \in SUBSET Nat
    OBVIOUS
  <2> HIDE DEF T
  <2> QED
    BY <1>1, <1>2, <2>1, Counting
<1>4. a + (b - a) = b /\ b - a \in Nat /\ b <= b
  <2> HIDE DEF T
  <2> QED
    BY <1>0
<1>5. b - a \in T
  <2> HIDE DEF T
  <2> QED
    BY <1>3, <1>4
<1> QED
  BY <1>0, <1>4, <1>5

\* Nothing goes without a record that it is deleted.
LEMMA GoneIsTold ==
    ASSUME NEW js, NEW h, NEW w, NEW U, Window(js, h, w, U), NEW f, NEW a \in 0..w, NEW b \in 0..w, a <= b,
           f \in DOMAIN h[a], f \notin DOMAIN h[b]
    PROVE  \E i \in (a + 1)..b : js[i].frn = f /\ "delete" \in js[i].reasons
<1> DEFINE T == {n \in Nat : a + n <= b => f \in DOMAIN h[a + n]}
<1>0. w \in Nat /\ a \in Nat /\ b \in Nat /\ \A i \in 1..w : Plain(h[i - 1], js[i], h[i])
  BY DEF Window
<1> SUFFICES ASSUME \A i \in (a + 1)..b : ~(js[i].frn = f /\ "delete" \in js[i].reasons) PROVE FALSE
  OBVIOUS
<1>1. 0 \in T
  BY <1>0
<1>2. ASSUME NEW n \in T PROVE n + 1 \in T
  <2>0. n \in Nat /\ (a + n <= b => f \in DOMAIN h[a + n])
    OBVIOUS
  <2> HIDE DEF T
  <2>1. ASSUME a + (n + 1) <= b PROVE f \in DOMAIN h[a + (n + 1)]
    <3>1. f \in DOMAIN h[a + n]
      BY <1>0, <2>0, <2>1
    <3>2. PICK i : i = a + (n + 1)
      OBVIOUS
    <3>3. i \in 1..w /\ i \in (a + 1)..b /\ i - 1 = a + n
      BY <1>0, <2>0, <2>1, <3>2
    <3>4. Plain(h[a + n], js[i], h[i]) /\ ~(js[i].frn = f /\ "delete" \in js[i].reasons)
      BY <1>0, <3>3
    <3>5. f \in DOMAIN h[i]
      <4>1. CASE js[i].frn = f
        BY <3>1, <3>4, <4>1, PlainAbout
      <4>2. CASE js[i].frn # f
        BY <3>1, <3>4, <4>2, PlainElsewhere
      <4> QED
        BY <4>1, <4>2
    <3> QED
      BY <3>2, <3>5
  <2> QED
    BY <2>0, <2>1 DEF T
<1>3. T = Nat
  <2>1. T \in SUBSET Nat
    OBVIOUS
  <2> HIDE DEF T
  <2> QED
    BY <1>1, <1>2, <2>1, Counting
<1>4. a + (b - a) = b /\ b - a \in Nat /\ b <= b
  <2> HIDE DEF T
  <2> QED
    BY <1>0
<1>5. b - a \in T
  <2> HIDE DEF T
  <2> QED
    BY <1>3, <1>4
<1> QED
  BY <1>0, <1>4, <1>5
--------------------------------------------------------------------------------
(* Rows and directory map that are as far behind as a stretch of the journal is long. *)

Matches(rs, D, p) ==
    /\ p \in DOMAIN rs <=> \E f \in DOMAIN D : PathIn(D, f) = p
    /\ \A f \in DOMAIN D : PathIn(D, f) = p => rs[p].folder = D[f].folder /\ rs[p].hidden = HiddenIn(D, f)

Told(js, w, U, p) == \E i \in 1..w : PathIn(U, js[i].frn) = p

\* What no record of the stretch speaks of is as the volume was before it.
RowsTell(rs, js, h, w, U) == \A p \in Named : Told(js, w, U, p) \/ Matches(rs, h[0], p)

\* The folder a row is in is in the map.
RowsHang(rs, ds) ==
    \A p \in DOMAIN rs : /\ p \in Named
                         /\ \/ \E n \in Names : p = <<n>>
                            \/ \E d \in DOMAIN ds, n \in Names : p = Append(ds[d].path, n)

\* Folders that last are in the map; what is in it lasts or will be told to be deleted, and
\* has its place.
DirsHold(ds, h, w) == \A d \in FoldersOf(h[0]) : d \in DOMAIN h[w] => d \in DOMAIN ds
DirsTrue(ds, js, h, w, U) ==
    \A d \in DOMAIN ds : /\ d \in FoldersOf(U) /\ ds[d] = At(U)[d]
                         /\ d \in DOMAIN h[w] \/ \E i \in 1..w : js[i].frn = d /\ "delete" \in js[i].reasons
                         /\ U[d].parent = Root \/ U[d].parent \in DOMAIN ds

Behind(rs, ds, js, h, w, U) ==
    RowsTell(rs, js, h, w, U) /\ RowsHang(rs, ds) /\ DirsHold(ds, h, w) /\ DirsTrue(ds, js, h, w, U)

\* What an entry's own flag and its folder's make.
LEMMA HiddenOf ==
    ASSUME NEW rec, rec.hidden \in BOOLEAN
    PROVE  /\ rec.parent = Root => EffectiveHidden(rec) = rec.hidden
           /\ rec.parent # Root /\ dirs[rec.parent].hidden \in BOOLEAN
              => EffectiveHidden(rec) = Either(dirs[rec.parent].hidden, rec.hidden)
<1>1. CASE rec.parent = Root
  <2>1. CASE rec.hidden = TRUE
    BY <1>1, <2>1 DEF EffectiveHidden
  <2>2. CASE rec.hidden = FALSE
    BY <1>1, <2>2 DEF EffectiveHidden
  <2> QED
    BY <1>1, <2>1, <2>2
<1>2. CASE rec.parent # Root /\ dirs[rec.parent].hidden \in BOOLEAN
  <2>1. CASE rec.hidden = TRUE
    BY <1>2, <2>1 DEF EffectiveHidden, Either
  <2>2. CASE rec.hidden = FALSE /\ dirs[rec.parent].hidden = TRUE
    BY <1>2, <2>2 DEF EffectiveHidden, Either
  <2>3. CASE rec.hidden = FALSE /\ dirs[rec.parent].hidden = FALSE
    BY <1>2, <2>3 DEF EffectiveHidden, Either
  <2> QED
    BY <1>2, <2>1, <2>2, <2>3
<1> QED
  BY <1>1, <1>2

\* A record is about the entry as it was before, or as it is after.
LEMMA PlainRecord ==
    ASSUME NEW D, NEW rec, NEW E, Plain(D, rec, E)
    PROVE  /\ rec.frn \in DOMAIN E => /\ rec.parent = E[rec.frn].parent /\ rec.name = E[rec.frn].name
                                      /\ rec.folder = E[rec.frn].folder /\ rec.hidden = E[rec.frn].hidden
           /\ rec.frn \notin DOMAIN E => /\ rec.frn \in DOMAIN D
                                         /\ rec.parent = D[rec.frn].parent /\ rec.name = D[rec.frn].name
                                         /\ rec.folder = D[rec.frn].folder /\ rec.hidden = D[rec.frn].hidden
<1>1. CASE ToCreate(D, rec, E)
  BY <1>1, RecordIs DEF ToCreate
<1>2. CASE ToDelete(D, rec, E)
  BY <1>2, RecordIs DEF ToDelete
<1>3. CASE ToShow(D, rec, E)
  BY <1>3, RecordIs DEF ToShow
<1> QED
  BY <1>1, <1>2, <1>3 DEF Plain

LEMMA FirstPlain ==
    ASSUME NEW js, NEW h, NEW w, NEW U, Window(js, h, w, U), w # 0
    PROVE  /\ Plain(h[0], js[1], h[1]) /\ Good(h[0]) /\ Good(h[1]) /\ Good(h[w])
           /\ PartOf(h[0], U) /\ PartOf(h[1], U) /\ PartOf(h[w], U) /\ Whole(h[0]) /\ Whole(h[1]) /\ Whole(h[w]) /\ Whole(U)
<1>1. w \in Nat /\ 0 \in 0..w /\ 1 \in 0..w /\ w \in 0..w /\ 1 \in 1..w
  BY DEF Window
<1>2. Plain(h[1 - 1], js[1], h[1])
  BY <1>1 DEF Window
<1>3. h[1 - 1] = h[0]
  OBVIOUS
<1> QED
  BY <1>1, <1>2, <1>3 DEF Window, Good

LEMMA FolderIs ==
    ASSUME NEW D, Whole(D), NEW f \in DOMAIN D
    PROVE  D[f].folder \in BOOLEAN /\ D[f].hidden \in BOOLEAN /\ (f \in FoldersOf(D) <=> D[f].folder = TRUE)
<1>1. D[f] \in Node
  BY PathIs
<1> QED
  BY <1>1 DEF Node, FoldersOf

\* The place a record gives its entry is the place the entry has.
LEMMA RecordPlace ==
    ASSUME NEW js, NEW h, NEW w, NEW U, Window(js, h, w, U), w # 0, DirsTrue(dirs, js, h, w, U),
           NEW rec, rec = js[1], NEW f, f = rec.frn
    PROVE  /\ f \in DOMAIN U /\ rec.parent = U[f].parent /\ rec.name = U[f].name /\ rec.folder = U[f].folder
           /\ Resolves(rec) => PathOf(rec) = PathIn(U, f)
           /\ f \in DOMAIN h[1] => /\ rec.parent = h[1][f].parent /\ rec.folder = h[1][f].folder
                                   /\ Resolves(rec) => EffectiveHidden(rec) = HiddenIn(h[1], f)
           /\ f \in FoldersOf(h[1]) /\ Resolves(rec) => DirOf(rec) = At(U)[f]
<1>0. /\ Plain(h[0], rec, h[1]) /\ Whole(h[0]) /\ Whole(h[1]) /\ Whole(U)
      /\ PartOf(h[0], U) /\ PartOf(h[1], U)
  BY FirstPlain
<1>1. f \in DOMAIN U /\ rec.parent = U[f].parent /\ rec.name = U[f].name /\ rec.folder = U[f].folder
  BY <1>0, PlainRecord DEF PartOf, Alike
<1>2. \A d \in DOMAIN dirs : d \in FoldersOf(U) /\ dirs[d] = At(U)[d]
  BY DEF DirsTrue
<1>3. Resolves(rec) => PathOf(rec) = PathIn(U, f)
  <2>1. CASE rec.parent = Root
    <3>1. PathIn(U, f) = <<U[f].name>>
      BY <1>0, <1>1, <2>1, PathIs
    <3> QED
      BY <1>1, <2>1, <3>1 DEF PathOf
  <2>2. CASE rec.parent # Root /\ rec.parent \in DOMAIN dirs
    <3>1. dirs[rec.parent].path = PathIn(U, rec.parent)
      BY <1>2, <2>2 DEF PathIn
    <3>2. PathIn(U, f) = Append(PathIn(U, rec.parent), rec.name)
      BY <1>0, <1>1, <2>2, PathIs
    <3> QED
      BY <2>2, <3>1, <3>2 DEF PathOf
  <2> QED
    BY <2>1, <2>2 DEF Resolves
<1>4. ASSUME f \in DOMAIN h[1]
      PROVE  /\ rec.parent = h[1][f].parent /\ rec.folder = h[1][f].folder
             /\ Resolves(rec) => EffectiveHidden(rec) = HiddenIn(h[1], f)
  <2>1. /\ rec.parent = h[1][f].parent /\ rec.folder = h[1][f].folder
        /\ rec.hidden = h[1][f].hidden /\ rec.hidden \in BOOLEAN
    <3>1. Plain(h[0], rec, h[1]) /\ rec.frn \in DOMAIN h[1] /\ rec.frn = f
      BY <1>0, <1>4
    <3>2. /\ rec.parent = h[1][f].parent /\ rec.folder = h[1][f].folder
          /\ rec.hidden = h[1][f].hidden
      BY <3>1, PlainRecord
    <3>3. h[1][f].hidden \in BOOLEAN
      BY <1>0, <1>4, FolderIs
    <3> QED
      BY <3>2, <3>3
  <2>2. CASE rec.parent = Root
    <3>1. HiddenIn(h[1], f) = rec.hidden
      BY <1>0, <1>4, <2>1, <2>2, PathIs
    <3> QED
      BY <2>1, <2>2, <3>1, HiddenOf
  <2>3. CASE rec.parent # Root /\ rec.parent \in DOMAIN dirs
    <3>0. PICK up : up = rec.parent
      OBVIOUS
    <3>1. up \in FoldersOf(h[1]) /\ up \in DOMAIN h[1] /\ HiddenIn(h[1], f) = Either(HiddenIn(h[1], up), rec.hidden)
      BY <1>0, <1>4, <2>1, <2>3, <3>0, PathIs
    <3>2. HiddenIn(h[1], up) = HiddenIn(U, up)
      BY <1>0, <3>1, PartIs
    <3>3. dirs[up].hidden = HiddenIn(U, up)
      BY <1>2, <2>3, <3>0 DEF HiddenIn
    <3>4. HiddenIn(h[1], up) \in BOOLEAN
      BY <1>0, <3>1, PathIs
    <3>5. EffectiveHidden(rec) = Either(dirs[up].hidden, rec.hidden)
      BY <2>1, <2>3, <3>0, <3>2, <3>3, <3>4, HiddenOf
    <3> QED
      BY <2>1, <3>1, <3>2, <3>3, <3>5
  <2> QED
    BY <2>1, <2>2, <2>3 DEF Resolves
<1>5. ASSUME f \in FoldersOf(h[1]), Resolves(rec) PROVE DirOf(rec) = At(U)[f]
  <2>1. f \in DOMAIN h[1]
    BY <1>5 DEF FoldersOf
  <2>2. EffectiveHidden(rec) = HiddenIn(U, f)
    BY <1>0, <1>4, <1>5, <2>1, PartIs
  <2>3. At(U)[f] \in Spots
    BY <1>0, <1>1, PathIs
  <2>4. At(U)[f] = [path |-> PathIn(U, f), hidden |-> HiddenIn(U, f)]
    BY <2>3 DEF Spots, PathIn, HiddenIn
  <2> QED
    BY <1>3, <1>5, <2>2, <2>4 DEF DirOf
<1> QED
  BY <1>1, <1>3, <1>4, <1>5

\* No entry is in itself.
LEMMA NotItself ==
    ASSUME NEW D, Whole(D), NEW f \in DOMAIN D
    PROVE  D[f].parent # f
<1> SUFFICES ASSUME D[f].parent = f PROVE FALSE
  OBVIOUS
<1>1. f # Root
  BY PathIs, VolumeAssumption DEF Files, Root
<1>2. PathIn(D, f) = Append(PathIn(D, f), D[f].name) /\ PathIn(D, f) \in Trails /\ D[f].name \in Names
  BY <1>1, PathIs
<1>3. Len(Append(PathIn(D, f), D[f].name)) = Len(PathIn(D, f)) + 1 /\ Len(PathIn(D, f)) \in Nat
  BY <1>2, NextName
<1> QED
  BY <1>2, <1>3

\* The folder of what lasts lasts, so it is in the map.
LEMMA Reached ==
    ASSUME NEW js, NEW h, NEW w, NEW U, Window(js, h, w, U), w # 0, DirsHold(dirs, h, w), DirsTrue(dirs, js, h, w, U),
           NEW rec, rec = js[1], NEW f, f = rec.frn
    PROVE  /\ f \in DOMAIN h[1] /\ f \in DOMAIN h[w] => Resolves(rec)
           /\ f \in DOMAIN dirs => Resolves(rec)
<1>0. /\ Plain(h[0], rec, h[1]) /\ Whole(h[0]) /\ Whole(h[1]) /\ Whole(h[w]) /\ Whole(U)
      /\ PartOf(h[0], U) /\ PartOf(h[1], U) /\ PartOf(h[w], U)
  BY FirstPlain
<1>1. f \in DOMAIN U /\ rec.parent = U[f].parent
  BY RecordPlace
<1>2. ASSUME f \in DOMAIN dirs PROVE Resolves(rec)
  BY <1>1, <1>2 DEF DirsTrue, Resolves
<1>3. ASSUME f \in DOMAIN h[1], f \in DOMAIN h[w], rec.parent # Root PROVE rec.parent \in DOMAIN dirs
  <2>0. PICK up : up = rec.parent
    OBVIOUS
  <2>1. h[1][f].parent = up /\ h[w][f].parent = up
    BY <1>0, <1>1, <1>3, <2>0 DEF PartOf, Alike
  <2>2. up \in FoldersOf(h[1]) /\ up \in DOMAIN h[1] /\ up \in DOMAIN h[w]
    BY <1>0, <1>3, <2>0, <2>1, PathIs
  <2>3. up # f
    BY <1>0, <1>3, <2>1, NotItself
  <2>4. up \in DOMAIN h[0] /\ h[1][up] = h[0][up]
    BY <1>0, <2>2, <2>3, PlainElsewhere
  <2>5. up \in FoldersOf(h[0])
    BY <2>2, <2>4 DEF FoldersOf
  <2> QED
    BY <2>0, <2>2, <2>5 DEF DirsHold
<1> QED
  BY <1>2, <1>3 DEF Resolves

LEMMA PlainApplied ==
    ASSUME NEW D, NEW rec, NEW E, Plain(D, rec, E), Applies(rec)
    PROVE  \/ ~Resolves(rec) /\ rows' = rows /\ dirs' = dirs
           \/ Resolves(rec) /\ ToDelete(D, rec, E) /\ ApplyDelete(rec)
           \/ Resolves(rec) /\ ~ToDelete(D, rec, E) /\ rec.frn \in DOMAIN E /\ ApplyUpsert(rec)
<1>1. /\ "close" \in rec.reasons /\ "old name" \notin rec.reasons /\ "new name" \notin rec.reasons
      /\ ToDelete(D, rec, E) <=> "delete" \in rec.reasons
      /\ rec.frn \notin DOMAIN E => ToDelete(D, rec, E)
  BY PlainAbout
<1>2. CASE ~Resolves(rec) /\ UNCHANGED <<rows, dirs, pending>>
  BY <1>2
<1>3. CASE Resolves(rec) /\ "delete" \in rec.reasons /\ ApplyDelete(rec)
  BY <1>1, <1>3
<1>4. CASE Resolves(rec) /\ {"delete", "new name"} \intersect rec.reasons = {} /\ ApplyUpsert(rec)
  BY <1>1, <1>4
<1>5. {"delete", "new name"} \intersect rec.reasons # {"new name"} /\ rec.reasons \intersect {"old name", "close"} # {}
  BY <1>1
<1> QED
  BY <1>1, <1>2, <1>3, <1>4, <1>5 DEF Applies
--------------------------------------------------------------------------------
(* A record of the stretch is applied. *)

Shifted(js2, k, js, h, w) ==
    /\ \A i \in 1..(w - 1) : js2[i] = js[i + 1]
    /\ \A i \in 0..(w - 1) : k[i] = h[i + 1]

LEMMA ShiftIs ==
    ASSUME NEW w \in Nat, w # 0, NEW js2, NEW k, NEW js, NEW h, Shifted(js2, k, js, h, w)
    PROVE  /\ w - 1 \in Nat /\ k[0] = h[1] /\ k[w - 1] = h[w]
           /\ \A i \in 2..w : i - 1 \in 1..(w - 1) /\ js2[i - 1] = js[i]
           /\ \A i \in 1..(w - 1) : i + 1 \in 2..w /\ i + 1 \in 1..w /\ js2[i] = js[i + 1] /\ (i + 1) - 1 = i
                                    /\ k[i - 1] = h[i] /\ k[i] = h[i + 1]
           /\ \A i \in 0..(w - 1) : i + 1 \in 0..w /\ k[i] = h[i + 1]
<1>1. w - 1 \in Nat /\ 0 \in 0..(w - 1) /\ w - 1 \in 0..(w - 1) /\ (w - 1) + 1 = w /\ 0 + 1 = 1
  OBVIOUS
<1>2. k[0] = h[1] /\ k[w - 1] = h[w]
  <2>1. k[0] = h[0 + 1] /\ k[w - 1] = h[(w - 1) + 1]
    BY <1>1 DEF Shifted
  <2> QED
    BY <1>1, <2>1
<1>3. ASSUME NEW i \in 2..w PROVE i - 1 \in 1..(w - 1) /\ js2[i - 1] = js[i]
  <2>1. i - 1 \in 1..(w - 1) /\ (i - 1) + 1 = i
    OBVIOUS
  <2>2. js2[i - 1] = js[(i - 1) + 1]
    BY <2>1 DEF Shifted
  <2> QED
    BY <2>1, <2>2
<1>4. ASSUME NEW i \in 1..(w - 1)
      PROVE  /\ i + 1 \in 2..w /\ i + 1 \in 1..w /\ js2[i] = js[i + 1] /\ (i + 1) - 1 = i
             /\ k[i - 1] = h[i] /\ k[i] = h[i + 1]
  <2>1. i + 1 \in 2..w /\ i + 1 \in 1..w /\ (i + 1) - 1 = i /\ (i - 1) + 1 = i /\ i - 1 \in 0..(w - 1) /\ i \in 0..(w - 1)
    OBVIOUS
  <2>2. js2[i] = js[i + 1] /\ k[i - 1] = h[(i - 1) + 1] /\ k[i] = h[i + 1]
    BY <2>1 DEF Shifted
  <2> QED
    BY <2>1, <2>2
<1>5. \A i \in 0..(w - 1) : i + 1 \in 0..w /\ k[i] = h[i + 1]
  BY DEF Shifted
<1> QED
  BY <1>1, <1>2, <1>3, <1>4, <1>5

LEMMA NextWindow ==
    ASSUME NEW js, NEW h, NEW w, NEW U, Window(js, h, w, U), w # 0, NEW js2, NEW k, Shifted(js2, k, js, h, w)
    PROVE  Window(js2, k, w - 1, U)
<1>0. w \in Nat
  BY DEF Window
<1>1. w - 1 \in Nat /\ Whole(U)
  BY <1>0 DEF Window
<1>2. \A i \in 0..(w - 1) : i + 1 \in 0..w /\ k[i] = h[i + 1]
  BY <1>0, ShiftIs
<1>3. \A i \in 0..(w - 1) : Good(k[i]) /\ PartOf(k[i], U)
  BY <1>2 DEF Window
<1>4. \A i \in 1..(w - 1) : Plain(k[i - 1], js2[i], k[i])
  <2> TAKE i \in 1..(w - 1)
  <2>1. i + 1 \in 1..w /\ js2[i] = js[i + 1] /\ (i + 1) - 1 = i /\ k[i - 1] = h[i] /\ k[i] = h[i + 1]
    BY <1>0, ShiftIs
  <2>2. Plain(h[(i + 1) - 1], js[i + 1], h[i + 1])
    BY <2>1 DEF Window
  <2> QED
    BY <2>1, <2>2
<1>5. \A i, j, l \in 0..(w - 1) : i <= j /\ j <= l => DOMAIN k[i] \intersect DOMAIN k[l] \subseteq DOMAIN k[j]
  <2> TAKE i, j, l \in 0..(w - 1)
  <2>1. i + 1 \in 0..w /\ j + 1 \in 0..w /\ l + 1 \in 0..w /\ k[i] = h[i + 1] /\ k[j] = h[j + 1] /\ k[l] = h[l + 1]
    BY <1>2
  <2>2. i <= j /\ j <= l => i + 1 <= j + 1 /\ j + 1 <= l + 1
    BY <1>0
  <2> QED
    BY <2>1, <2>2 DEF Window
<1>6. \A f, g \in FoldersOf(U) : PathIn(U, f) = PathIn(U, g) => f = g
  BY DEF Window
<1> QED
  BY <1>1, <1>3, <1>4, <1>5, <1>6 DEF Window

LEMMA ToldLess ==
    ASSUME NEW w \in Nat, w # 0, NEW js, NEW h, NEW U, NEW js2, NEW k, Shifted(js2, k, js, h, w), NEW p
    PROVE  Told(js, w, U, p) <=> PathIn(U, js[1].frn) = p \/ Told(js2, w - 1, U, p)
<1>1. ASSUME NEW i \in 1..w, PathIn(U, js[i].frn) = p, i # 1 PROVE Told(js2, w - 1, U, p)
  <2>1. i \in 2..w
    BY <1>1
  <2>2. i - 1 \in 1..(w - 1) /\ js2[i - 1] = js[i]
    BY <2>1, ShiftIs
  <2> QED
    BY <1>1, <2>2 DEF Told
<1>2. ASSUME NEW i \in 1..(w - 1), PathIn(U, js2[i].frn) = p PROVE Told(js, w, U, p)
  <2>1. i + 1 \in 1..w /\ js2[i] = js[i + 1]
    BY ShiftIs
  <2> QED
    BY <1>2, <2>1 DEF Told
<1>3. 1 \in 1..w
  OBVIOUS
<1> QED
  BY <1>1, <1>2, <1>3 DEF Told

\* After the last record about a path, the entry it was about stays as it is.
LEMMA LastWord ==
    ASSUME NEW js, NEW h, NEW w, NEW U, Window(js, h, w, U), w # 0, NEW js2, NEW k, Shifted(js2, k, js, h, w),
           ~Told(js2, w - 1, U, PathIn(U, js[1].frn))
    PROVE  js[1].frn \in DOMAIN h[1] <=> js[1].frn \in DOMAIN h[w]
<1>0. w \in Nat /\ 1 \in 0..w /\ w \in 0..w /\ 1 <= w /\ 1 + 1 = 2
  BY DEF Window
<1>1. \A i \in 2..w : js[i].frn # js[1].frn
  <2> SUFFICES ASSUME NEW i \in 2..w, js[i].frn = js[1].frn PROVE FALSE
    OBVIOUS
  <2>1. i - 1 \in 1..(w - 1) /\ js2[i - 1] = js[i]
    BY <1>0, ShiftIs
  <2> QED
    BY <2>1 DEF Told
<1>2. \A i \in (1 + 1)..w : js[i].frn # js[1].frn
  BY <1>0, <1>1
<1> QED
  BY <1>0, <1>2, Quiet

\* Where an entry stays as it is, so does what it is shown as.
LEMMA SameHidden ==
    ASSUME NEW U, Whole(U), NEW D, Whole(D), NEW E, Whole(E), PartOf(D, U), PartOf(E, U),
           NEW g \in DOMAIN D, g \in DOMAIN E, E[g] = D[g]
    PROVE  HiddenIn(D, g) = HiddenIn(E, g) /\ PathIn(D, g) = PathIn(E, g)
<1>1. PathIn(D, g) = PathIn(E, g)
  BY PartIs
<1>2. CASE D[g].parent = Root
  BY <1>1, <1>2, PathIs
<1>3. CASE D[g].parent # Root
  <2>0. PICK up : up = D[g].parent
    OBVIOUS
  <2>1. /\ up \in FoldersOf(D) /\ up \in DOMAIN D /\ HiddenIn(D, g) = Either(HiddenIn(D, up), D[g].hidden)
        /\ up \in FoldersOf(E) /\ up \in DOMAIN E /\ HiddenIn(E, g) = Either(HiddenIn(E, up), D[g].hidden)
    BY <1>3, <2>0, PathIs
  <2>2. HiddenIn(D, up) = HiddenIn(U, up) /\ HiddenIn(E, up) = HiddenIn(U, up)
    BY <2>1, PartIs
  <2> QED
    BY <1>1, <2>1, <2>2
<1> QED
  BY <1>2, <1>3

\* A path the record does not speak of is matched by what is before it as by what is after it.
LEMMA MatchesOn ==
    ASSUME NEW js, NEW h, NEW w, NEW U, Window(js, h, w, U), w # 0, NEW p, p # PathIn(U, js[1].frn), NEW rs
    PROVE  Matches(rs, h[0], p) <=> Matches(rs, h[1], p)
<1>0. /\ Plain(h[0], js[1], h[1]) /\ Whole(h[0]) /\ Whole(h[1]) /\ Whole(U)
      /\ PartOf(h[0], U) /\ PartOf(h[1], U)
  BY FirstPlain
<1> DEFINE f == js[1].frn
<1>1. ASSUME NEW g \in DOMAIN h[0], PathIn(h[0], g) = p
      PROVE  g \in DOMAIN h[1] /\ PathIn(h[1], g) = p /\ h[1][g] = h[0][g] /\ HiddenIn(h[1], g) = HiddenIn(h[0], g)
  <2>1. g # f
    BY <1>0, <1>1, PartIs
  <2>2. g \in DOMAIN h[1] /\ h[1][g] = h[0][g]
    BY <1>0, <2>1, PlainElsewhere
  <2>3. HiddenIn(h[1], g) = HiddenIn(h[0], g) /\ PathIn(h[1], g) = PathIn(h[0], g)
    BY <1>0, <2>2, SameHidden
  <2> QED
    BY <1>1, <2>2, <2>3
<1>2. ASSUME NEW g \in DOMAIN h[1], PathIn(h[1], g) = p
      PROVE  g \in DOMAIN h[0] /\ PathIn(h[0], g) = p /\ h[1][g] = h[0][g] /\ HiddenIn(h[1], g) = HiddenIn(h[0], g)
  <2>1. g # f
    BY <1>0, <1>2, PartIs
  <2>2. g \in DOMAIN h[0] /\ h[1][g] = h[0][g]
    BY <1>0, <2>1, PlainElsewhere
  <2>3. HiddenIn(h[1], g) = HiddenIn(h[0], g) /\ PathIn(h[1], g) = PathIn(h[0], g)
    BY <1>0, <2>2, SameHidden
  <2> QED
    BY <1>2, <2>2, <2>3
<1> QED
  BY <1>1, <1>2 DEF Matches

\* There is nothing below what is deleted.
LEMMA NothingBelow ==
    ASSUME NEW D, Good(D), NEW rec, NEW E, ToDelete(D, rec, E), NEW g \in DOMAIN D,
           Within(PathIn(D, g), PathIn(D, rec.frn))
    PROVE  g = rec.frn
<1>0. rec.frn \in DOMAIN D /\ \A c \in DOMAIN D : D[c].parent # rec.frn
  BY DEF ToDelete
<1>1. CASE PathIn(D, g) = PathIn(D, rec.frn)
  BY <1>0, <1>1, OneAtAPath
<1>2. CASE PathIn(D, g) # PathIn(D, rec.frn)
  <2>1. Under(PathIn(D, g), PathIn(D, rec.frn))
    BY <1>2, UnderIs
  <2> QED
    BY <1>0, <2>1, UnderIsIn
<1> QED
  BY <1>1, <1>2

LEMMA UnderNext ==
    ASSUME NEW p \in Trails, NEW n \in Names, NEW q \in Trails
    PROVE  Under(Append(p, n), q) <=> Within(p, q)
<1>1. Under(Append(p, n), q) => Within(p, q)
  BY WithinNext, UnderIs
<1>2. ASSUME Within(p, q) PROVE Within(Append(p, n), q) /\ Append(p, n) # q
  <2>1. Within(Append(p, n), q)
    BY <1>2, WithinNext
  <2>2. Len(Append(p, n)) = Len(p) + 1 /\ Len(p) \in Nat
    BY NextName
  <2>3. Len(q) <= Len(p) /\ Len(q) \in Nat
    BY <1>2, WithinIs
  <2> QED
    BY <2>1, <2>2, <2>3
<1> QED
  BY <1>1, <1>2, UnderIs

\* Of the map, what a record does: nothing, all that is at or below the entry goes, or the
\* entry comes.
Remapped(rec, f, P, D, E) ==
    /\ ~Resolves(rec) => dirs' = dirs
    /\ Resolves(rec) /\ ToDelete(D, rec, E)
       => /\ \A d \in DOMAIN dirs' : d \in DOMAIN dirs /\ dirs'[d] = dirs[d]
          /\ rec.folder = FALSE => dirs' = dirs
          /\ rec.folder = TRUE => \A d \in DOMAIN dirs : d \in DOMAIN dirs' <=> d # f /\ ~Under(dirs[d].path, P)
    /\ Resolves(rec) /\ ~ToDelete(D, rec, E)
       => /\ f \in DOMAIN E
          /\ rec.folder = TRUE => DOMAIN dirs' = DOMAIN dirs \union {f} /\ dirs'[f] = DirOf(rec)
          /\ rec.folder = FALSE => DOMAIN dirs' = DOMAIN dirs
          /\ \A d \in DOMAIN dirs : dirs'[d] = dirs[d]

LEMMA DirsThen ==
    ASSUME NEW js, NEW h, NEW w, NEW U, Window(js, h, w, U), w # 0, DirsTrue(dirs, js, h, w, U),
           NEW rec, rec = js[1], NEW f, f = rec.frn, Applies(rec), NEW P, P = PathIn(U, f)
    PROVE  Remapped(rec, f, P, h[0], h[1])
<1>0. Plain(h[0], rec, h[1])
  BY FirstPlain
<1>1. /\ rec.folder = U[f].folder /\ f \in DOMAIN U /\ (rec.folder = TRUE \/ rec.folder = FALSE)
      /\ Resolves(rec) => PathOf(rec) = P
      /\ f \in FoldersOf(h[1]) /\ Resolves(rec) => DirOf(rec) = At(U)[f]
      /\ f \in DOMAIN h[1] => rec.folder = h[1][f].folder
  <2>1. Whole(U)
    BY DEF Window
  <2> QED
    BY <2>1, RecordPlace, FolderIs
<1>2. CASE Resolves(rec) /\ ToDelete(h[0], rec, h[1])
  <2>0. ApplyDelete(rec)
    BY <1>0, <1>2, PlainApplied
  <2>1. dirs' = IF rec.folder THEN RemoveDirSubtree(f, P) ELSE dirs
    BY <1>1, <1>2, <2>0 DEF ApplyDelete
  <2>2. RemoveDirSubtree(f, P) = [d \in {g \in DOMAIN dirs \ {f} : ~Under(dirs[g].path, P)} |-> dirs[d]]
    BY DEF RemoveDirSubtree, Restrict
  <2>3. rec.folder = FALSE => dirs' = dirs
    BY <2>1
  <2>4. rec.folder = TRUE => dirs' = [d \in {g \in DOMAIN dirs \ {f} : ~Under(dirs[g].path, P)} |-> dirs[d]]
    BY <2>1, <2>2
  <2>5. \A d \in DOMAIN dirs' : d \in DOMAIN dirs /\ dirs'[d] = dirs[d]
    BY <1>1, <2>3, <2>4
  <2>6. rec.folder = TRUE => \A d \in DOMAIN dirs : d \in DOMAIN dirs' <=> d # f /\ ~Under(dirs[d].path, P)
    BY <2>4
  <2> QED
    BY <1>2, <2>3, <2>5, <2>6 DEF Remapped
<1>3. CASE Resolves(rec) /\ ~ToDelete(h[0], rec, h[1])
  <2>0. rec.frn \in DOMAIN h[1] /\ ApplyUpsert(rec)
    BY <1>0, <1>3, PlainApplied
  <2>1. dirs' = IF rec.folder THEN With(dirs, f, DirOf(rec)) ELSE dirs
    BY <2>0 DEF ApplyUpsert
  <2>2. CASE rec.folder = TRUE
    <3>1. dirs' = [d \in DOMAIN dirs \union {f} |-> IF d = f THEN DirOf(rec) ELSE dirs[d]]
      BY <2>1, <2>2 DEF With
    <3>2. f \in FoldersOf(h[1])
      BY <1>1, <2>0, <2>2 DEF FoldersOf
    <3>3. DirOf(rec) = At(U)[f]
      BY <1>1, <1>3, <3>2
    <3>4. f \in DOMAIN dirs => dirs[f] = At(U)[f]
      BY DEF DirsTrue
    <3> QED
      BY <1>3, <2>0, <2>2, <3>1, <3>3, <3>4 DEF Remapped
  <2>3. CASE rec.folder = FALSE
    <3>1. dirs' = dirs
      BY <2>1, <2>3
    <3> QED
      BY <1>3, <2>0, <2>3, <3>1 DEF Remapped
  <2> QED
    BY <1>1, <2>2, <2>3
<1>4. CASE ~Resolves(rec)
  BY <1>0, <1>4, PlainApplied DEF Remapped
<1> QED
  BY <1>2, <1>3, <1>4

LEMMA RowsThen ==
    ASSUME NEW js, NEW h, NEW w, NEW U, Window(js, h, w, U), w # 0, DirsTrue(dirs, js, h, w, U),
           NEW rec, rec = js[1], Applies(rec), NEW P, P = PathIn(U, rec.frn)
    PROVE  /\ ~Resolves(rec) => rows' = rows
           /\ Resolves(rec) /\ ToDelete(h[0], rec, h[1]) => rows' = DeleteSubtree(rows, P)
           /\ Resolves(rec) /\ ~ToDelete(h[0], rec, h[1])
              => rows' = UpsertEntries(rows, [p \in {P} |-> [folder |-> rec.folder, hidden |-> EffectiveHidden(rec)]],
                                       build)
<1>1. Plain(h[0], rec, h[1])
  BY FirstPlain
<1>2. Resolves(rec) => PathOf(rec) = P
  BY RecordPlace
<1>3. CASE ~Resolves(rec) /\ rows' = rows
  BY <1>3
<1>4. CASE Resolves(rec) /\ ToDelete(h[0], rec, h[1]) /\ ApplyDelete(rec)
  BY <1>2, <1>4 DEF ApplyDelete
<1>5. CASE Resolves(rec) /\ ~ToDelete(h[0], rec, h[1]) /\ ApplyUpsert(rec)
  BY <1>2, <1>5 DEF ApplyUpsert
<1> QED
  BY <1>1, <1>3, <1>4, <1>5, PlainApplied

LEMMA RowsElsewhere ==
    ASSUME NEW js, NEW h, NEW w, NEW U, Window(js, h, w, U), w # 0, DirsTrue(dirs, js, h, w, U),
           Applies(js[1]), NEW p \in Named, p # PathIn(U, js[1].frn), Matches(rows, h[0], p)
    PROVE  Matches(rows', h[0], p)
<1>0. PICK rec, f, P : rec = js[1] /\ f = rec.frn /\ P = PathIn(U, f)
  OBVIOUS
<1>1. Good(h[0]) /\ Whole(h[0]) /\ Whole(U) /\ PartOf(h[0], U)
  BY FirstPlain
<1>2. CASE rows' = rows
  BY <1>2 DEF Matches
<1>3. CASE ToDelete(h[0], rec, h[1]) /\ rows' = DeleteSubtree(rows, P)
  <2>1. rows' = [q \in {q \in DOMAIN rows : ~Within(q, P)} |-> rows[q]]
    BY <1>3 DEF DeleteSubtree, Restrict
  <2>2. CASE ~Within(p, P)
    <3>1. (p \in DOMAIN rows' <=> p \in DOMAIN rows) /\ (p \in DOMAIN rows => rows'[p] = rows[p])
      BY <2>1, <2>2
    <3> QED
      BY <3>1 DEF Matches
  <2>3. CASE Within(p, P)
    <3>1. ASSUME NEW g \in DOMAIN h[0], PathIn(h[0], g) = p PROVE FALSE
      <4>1. f \in DOMAIN h[0]
        BY <1>0, <1>3 DEF ToDelete
      <4>2. PathIn(h[0], f) = P
        BY <1>0, <1>1, <4>1, PartIs
      <4>3. Within(PathIn(h[0], g), PathIn(h[0], rec.frn))
        BY <1>0, <2>3, <3>1, <4>2
      <4>4. g = f
        BY <1>0, <1>1, <1>3, <4>3, NothingBelow
      <4> QED
        BY <1>0, <3>1, <4>2, <4>4
    <3>2. p \notin DOMAIN rows
      BY <3>1 DEF Matches
    <3>3. p \notin DOMAIN rows'
      BY <2>1, <3>2
    <3> QED
      BY <3>1, <3>3 DEF Matches
  <2> QED
    BY <2>2, <2>3
<1>4. ASSUME NEW row, rows' = UpsertEntries(rows, [q \in {P} |-> row], build) PROVE Matches(rows', h[0], p)
  <2>1. (p \in DOMAIN rows' <=> p \in DOMAIN rows) /\ (p \in DOMAIN rows => rows'[p] = rows[p])
    BY <1>0, <1>4 DEF UpsertEntries
  <2> QED
    BY <2>1 DEF Matches
<1>5. Applies(rec) /\ P = PathIn(U, rec.frn)
  BY <1>0
<1>6. CASE ~Resolves(rec)
  BY <1>0, <1>2, <1>5, <1>6, RowsThen
<1>7. CASE Resolves(rec) /\ ToDelete(h[0], rec, h[1])
  BY <1>0, <1>3, <1>5, <1>7, RowsThen
<1>8. CASE Resolves(rec) /\ ~ToDelete(h[0], rec, h[1])
  <2>1. rows' = UpsertEntries(rows, [q \in {P} |-> [folder |-> rec.folder, hidden |-> EffectiveHidden(rec)]], build)
    BY <1>0, <1>5, <1>8, RowsThen
  <2> QED
    BY <1>4, <2>1
<1> QED
  BY <1>6, <1>7, <1>8

\* No row is where a record names a folder the map has not.
LEMMA NoRowUnreached ==
    ASSUME NEW js, NEW h, NEW w, NEW U, Window(js, h, w, U), w # 0, RowsHang(rows, dirs), DirsTrue(dirs, js, h, w, U),
           ~Resolves(js[1])
    PROVE  PathIn(U, js[1].frn) \notin DOMAIN rows
<1>0. PICK rec, f, P : rec = js[1] /\ f = rec.frn /\ P = PathIn(U, f)
  OBVIOUS
<1>1. Whole(U) /\ f \in DOMAIN U /\ rec.parent = U[f].parent
  BY <1>0, RecordPlace, FirstPlain
<1>2. PICK up : up = U[f].parent
  OBVIOUS
<1>3. up # Root /\ up \notin DOMAIN dirs
  BY <1>0, <1>1, <1>2 DEF Resolves
<1>4. up \in FoldersOf(U) /\ up \in DOMAIN U /\ P = Append(PathIn(U, up), U[f].name) /\ U[f].name \in Names
  BY <1>0, <1>1, <1>2, <1>3, PathIs
<1>5. PathIn(U, up) \in Trails /\ PathIn(U, up) # <<>>
  BY <1>1, <1>4, PathIs
<1> SUFFICES ASSUME P \in DOMAIN rows PROVE FALSE
  BY <1>0
<1>6. CASE \E n \in Names : P = <<n>>
  BY <1>4, <1>5, <1>6, OneName
<1>7. ASSUME NEW d \in DOMAIN dirs, NEW n \in Names, P = Append(dirs[d].path, n) PROVE FALSE
  <2>1. d \in FoldersOf(U) /\ dirs[d].path = PathIn(U, d)
    BY DEF DirsTrue, PathIn
  <2>2. PathIn(U, d) \in Trails
    BY <1>1, <2>1, PathIs DEF FoldersOf
  <2>5. Append(PathIn(U, d), n) = Append(PathIn(U, up), U[f].name)
    BY <1>4, <1>7, <2>1
  <2>3. PathIn(U, d) = PathIn(U, up)
    BY <1>4, <1>5, <2>2, <2>5, SameNext
  <2>4. d = up
    BY <1>4, <2>1, <2>3 DEF Window
  <2> QED
    BY <1>3, <2>4
<1> QED
  BY <1>6, <1>7 DEF RowsHang

\* Once the last record about a path is applied, the rows are right there.
LEMMA RowsHere ==
    ASSUME NEW js, NEW h, NEW w, NEW U, Window(js, h, w, U), w # 0, Behind(rows, dirs, js, h, w, U),
           Applies(js[1]), NEW js2, NEW k, Shifted(js2, k, js, h, w), ~Told(js2, w - 1, U, PathIn(U, js[1].frn))
    PROVE  Matches(rows', h[1], PathIn(U, js[1].frn))
<1>0. PICK rec, f, P : rec = js[1] /\ f = rec.frn /\ P = PathIn(U, f)
  OBVIOUS
<1>1. /\ Plain(h[0], rec, h[1]) /\ Good(h[0]) /\ Good(h[1]) /\ Whole(h[0]) /\ Whole(h[1]) /\ Whole(U)
      /\ PartOf(h[0], U) /\ PartOf(h[1], U)
  BY <1>0, FirstPlain
<1>2. f \in DOMAIN h[1] <=> f \in DOMAIN h[w]
  BY <1>0, LastWord
<1>3. RowsHang(rows, dirs) /\ DirsHold(dirs, h, w) /\ DirsTrue(dirs, js, h, w, U)
  BY DEF Behind
<1>4. f \in DOMAIN U
  BY <1>0, <1>3, RecordPlace
<1>5. P \in Trails
  BY <1>0, <1>1, <1>4, PathIs
<1>8. Applies(rec) /\ P = PathIn(U, rec.frn)
  BY <1>0
<1>6. CASE f \in DOMAIN h[1]
  <2>1. Resolves(rec)
    BY <1>0, <1>2, <1>3, <1>6, Reached
  <2>2. ~ToDelete(h[0], rec, h[1])
    BY <1>0, <1>6 DEF ToDelete
  <2>3. rows' = UpsertEntries(rows, [p \in {P} |-> [folder |-> rec.folder, hidden |-> EffectiveHidden(rec)]], build)
    BY <1>0, <1>3, <1>8, <2>1, <2>2, RowsThen
  <2>4. P \in DOMAIN rows' /\ rows'[P].folder = rec.folder /\ rows'[P].hidden = EffectiveHidden(rec)
    BY <2>3 DEF UpsertEntries
  <2>5. rec.folder = h[1][f].folder /\ EffectiveHidden(rec) = HiddenIn(h[1], f)
    BY <1>0, <1>3, <1>6, <2>1, RecordPlace
  <2>6. PathIn(h[1], f) = P
    BY <1>0, <1>1, <1>6, PartIs
  <2>7. \A g \in DOMAIN h[1] : PathIn(h[1], g) = P => g = f
    BY <1>1, <1>6, <2>6, OneAtAPath
  <2> QED
    BY <1>0, <1>6, <2>4, <2>5, <2>6, <2>7 DEF Matches
<1>7. CASE f \notin DOMAIN h[1]
  <2>1. f \in DOMAIN h[0] /\ ToDelete(h[0], rec, h[1])
    BY <1>0, <1>1, <1>7, PlainAbout
  <2>2. PathIn(h[0], f) = P
    BY <1>0, <1>1, <2>1, PartIs
  <2>3. ASSUME NEW g \in DOMAIN h[1], PathIn(h[1], g) = P PROVE FALSE
    <3>1. g # f /\ g \in DOMAIN h[0]
      BY <1>0, <1>1, <1>7, PlainElsewhere
    <3>2. PathIn(h[0], g) = P
      BY <1>1, <2>3, <3>1, PartIs
    <3> QED
      BY <1>1, <2>1, <2>2, <3>1, <3>2, OneAtAPath
  <2>4. P \notin DOMAIN rows'
    <3>1. CASE ~Resolves(rec)
      <4>1. P \notin DOMAIN rows
        BY <1>0, <1>3, <3>1, NoRowUnreached
      <4>2. rows' = rows
        BY <1>0, <1>3, <1>8, <3>1, RowsThen
      <4> QED
        BY <4>1, <4>2
    <3>2. CASE Resolves(rec)
      <4>1. rows' = DeleteSubtree(rows, P)
        BY <1>0, <1>3, <1>8, <2>1, <3>2, RowsThen
      <4>2. Within(P, P)
        BY <1>5, WithinItself
      <4> QED
        BY <4>1, <4>2 DEF DeleteSubtree, Restrict
    <3> QED
      BY <3>1, <3>2
  <2> QED
    BY <1>0, <2>3, <2>4 DEF Matches
<1> QED
  BY <1>6, <1>7

LEMMA RowsTellOn ==
    ASSUME NEW js, NEW h, NEW w, NEW U, Window(js, h, w, U), w # 0, Behind(rows, dirs, js, h, w, U),
           Applies(js[1]), NEW js2, NEW k, Shifted(js2, k, js, h, w)
    PROVE  RowsTell(rows', js2, k, w - 1, U)
<1>0. w \in Nat /\ k[0] = h[1]
  BY ShiftIs DEF Window
<1>1. RowsTell(rows, js, h, w, U) /\ DirsTrue(dirs, js, h, w, U)
  BY DEF Behind
<1>2. ASSUME NEW p \in Named, ~Told(js2, w - 1, U, p) PROVE Matches(rows', h[1], p)
  <2>1. CASE p = PathIn(U, js[1].frn)
    BY <1>2, <2>1, RowsHere
  <2>2. CASE p # PathIn(U, js[1].frn)
    <3>1. ~Told(js, w, U, p)
      BY <1>0, <1>2, <2>2, ToldLess
    <3>2. Matches(rows, h[0], p)
      BY <1>1, <3>1 DEF RowsTell
    <3>3. Matches(rows', h[0], p)
      BY <1>1, <2>2, <3>2, RowsElsewhere
    <3> QED
      BY <2>2, <3>3, MatchesOn
  <2> QED
    BY <2>1, <2>2
<1> QED
  BY <1>0, <1>2 DEF RowsTell

LEMMA RowsHangOn ==
    ASSUME NEW js, NEW h, NEW w, NEW U, Window(js, h, w, U), w # 0, RowsHang(rows, dirs), DirsTrue(dirs, js, h, w, U),
           Applies(js[1])
    PROVE  RowsHang(rows', dirs')
<1>0. PICK rec, f, P : rec = js[1] /\ f = rec.frn /\ P = PathIn(U, f)
  OBVIOUS
<1>1. Whole(U) /\ f \in DOMAIN U /\ rec.parent = U[f].parent /\ (rec.folder = TRUE \/ rec.folder = FALSE)
  BY <1>0, RecordPlace, FirstPlain, FolderIs
<1>2. P \in Trails /\ P # <<>> /\ U[f].name \in Names
  BY <1>0, <1>1, PathIs
<1>3. \A d \in DOMAIN dirs : dirs[d].path \in Trails /\ dirs[d].path = PathIn(U, d)
  <2> TAKE d \in DOMAIN dirs
  <2>1. d \in DOMAIN U /\ dirs[d].path = PathIn(U, d)
    BY DEF DirsTrue, FoldersOf, PathIn
  <2> QED
    BY <1>1, <2>1, PathIs
<1>4. CASE rows' = rows /\ dirs' = dirs
  BY <1>4 DEF RowsHang
<1>5. CASE /\ rows' = DeleteSubtree(rows, P)
           /\ \A d \in DOMAIN dirs' : d \in DOMAIN dirs /\ dirs'[d] = dirs[d]
           /\ rec.folder = FALSE => dirs' = dirs
           /\ rec.folder = TRUE => \A d \in DOMAIN dirs : d \in DOMAIN dirs' <=> d # f /\ ~Under(dirs[d].path, P)
  <2>1. \A p \in DOMAIN rows' : p \in DOMAIN rows /\ ~Within(p, P)
    BY <1>5 DEF DeleteSubtree, Restrict
  <2>2. ASSUME NEW p \in DOMAIN rows', NEW d \in DOMAIN dirs, NEW n \in Names, p = Append(dirs[d].path, n)
        PROVE  d \in DOMAIN dirs' /\ dirs'[d] = dirs[d]
    <3>1. ~Within(p, P)
      BY <2>1
    <3>2. ~Within(dirs[d].path, P)
      BY <1>2, <1>3, <2>2, <3>1, WithinNext
    <3>3. ~Under(dirs[d].path, P)
      BY <3>2, UnderIs
    <3>4. d # f
      BY <1>0, <1>2, <1>3, <3>2, WithinItself
    <3>5. d \in DOMAIN dirs'
      BY <1>1, <1>5, <3>3, <3>4
    <3> QED
      BY <1>5, <3>5
  <2>3. ASSUME NEW p \in DOMAIN rows'
        PROVE  /\ p \in Named
               /\ \/ \E n \in Names : p = <<n>>
                  \/ \E d \in DOMAIN dirs', n \in Names : p = Append(dirs'[d].path, n)
    <3>1. p \in DOMAIN rows
      BY <2>1
    <3>2. CASE \E n \in Names : p = <<n>>
      BY <3>1, <3>2 DEF RowsHang
    <3>3. ASSUME NEW d \in DOMAIN dirs, NEW n \in Names, p = Append(dirs[d].path, n)
          PROVE  d \in DOMAIN dirs' /\ p = Append(dirs'[d].path, n)
      BY <2>2, <3>3
    <3> QED
      BY <3>1, <3>2, <3>3 DEF RowsHang
  <2> QED
    BY <2>3 DEF RowsHang
<1>6. CASE /\ Resolves(rec)
           /\ DOMAIN rows' \subseteq DOMAIN rows \union {P}
           /\ \A d \in DOMAIN dirs : d \in DOMAIN dirs' /\ dirs'[d] = dirs[d]
  <2>1. ASSUME NEW p \in DOMAIN rows
        PROVE  /\ p \in Named
               /\ \/ \E n \in Names : p = <<n>>
                  \/ \E d \in DOMAIN dirs', n \in Names : p = Append(dirs'[d].path, n)
    BY <1>6 DEF RowsHang
  <2>2. /\ P \in Named
        /\ \/ \E n \in Names : P = <<n>>
           \/ \E d \in DOMAIN dirs', n \in Names : P = Append(dirs'[d].path, n)
    <3>1. P \in Named
      BY <1>2 DEF Named
    <3>2. CASE rec.parent = Root
      BY <1>0, <1>1, <1>2, <3>1, <3>2, PathIs
    <3>3. CASE rec.parent # Root
      <4>1. rec.parent \in DOMAIN dirs
        BY <1>6, <3>3 DEF Resolves
      <4>2. P = Append(dirs[rec.parent].path, U[f].name)
        BY <1>0, <1>1, <1>3, <3>3, <4>1, PathIs
      <4> QED
        BY <1>2, <1>6, <3>1, <4>1, <4>2
    <3> QED
      BY <3>2, <3>3
  <2> QED
    BY <1>6, <2>1, <2>2 DEF RowsHang
<1>7. ASSUME NEW e, rows' = UpsertEntries(rows, [p \in {P} |-> e], build)
      PROVE  DOMAIN rows' \subseteq DOMAIN rows \union {P}
  BY <1>7 DEF UpsertEntries
<1>8. Applies(rec)
  BY <1>0
<1>D. Remapped(rec, f, P, h[0], h[1])
  BY <1>0, <1>8, DirsThen
<1>9. CASE Resolves(rec) /\ ~ToDelete(h[0], rec, h[1])
  <2>1. rows' = UpsertEntries(rows, [p \in {P} |-> [folder |-> rec.folder, hidden |-> EffectiveHidden(rec)]], build)
    BY <1>0, <1>8, <1>9, RowsThen
  <2>2. \A d \in DOMAIN dirs : d \in DOMAIN dirs' /\ dirs'[d] = dirs[d]
    BY <1>1, <1>9, <1>D DEF Remapped
  <2> QED
    BY <1>6, <1>7, <1>9, <2>1, <2>2
<1>11. ~Resolves(rec) => rows' = rows
  BY <1>0, <1>8, RowsThen
<1>12. Resolves(rec) /\ ToDelete(h[0], rec, h[1]) => rows' = DeleteSubtree(rows, P)
  BY <1>0, <1>8, RowsThen
<1>10. CASE ~(Resolves(rec) /\ ~ToDelete(h[0], rec, h[1]))
  BY <1>4, <1>5, <1>10, <1>11, <1>12, <1>D DEF Remapped
<1> QED
  BY <1>9, <1>10

LEMMA DirsHoldOn ==
    ASSUME NEW js, NEW h, NEW w, NEW U, Window(js, h, w, U), w # 0, DirsHold(dirs, h, w), DirsTrue(dirs, js, h, w, U),
           Applies(js[1]), NEW js2, NEW k, Shifted(js2, k, js, h, w)
    PROVE  DirsHold(dirs', k, w - 1)
<1>0. PICK rec, f, P : rec = js[1] /\ f = rec.frn /\ P = PathIn(U, f)
  OBVIOUS
<1>1. /\ Plain(h[0], rec, h[1]) /\ Good(h[0]) /\ Whole(h[0]) /\ Whole(h[1]) /\ Whole(U) /\ PartOf(h[0], U)
  BY <1>0, FirstPlain
<1>2. w \in Nat /\ k[0] = h[1] /\ k[w - 1] = h[w]
  BY ShiftIs DEF Window
<1>3. Applies(rec)
  BY <1>0
<1>D. Remapped(rec, f, P, h[0], h[1])
  BY <1>0, <1>3, DirsThen
<1>4. ASSUME NEW d \in FoldersOf(h[1]), d \in DOMAIN h[w], d # f PROVE d \in DOMAIN dirs'
  <2>1. d \in DOMAIN h[0] /\ h[0][d] = h[1][d] /\ d \in DOMAIN h[1]
    BY <1>0, <1>1, <1>4, PlainElsewhere DEF FoldersOf
  <2>2. d \in DOMAIN dirs
    BY <1>4, <2>1 DEF DirsHold, FoldersOf
  <2>3. dirs[d].path = PathIn(h[0], d)
    <3>1. dirs[d].path = PathIn(U, d)
      BY <2>2 DEF DirsTrue, PathIn
    <3> QED
      BY <1>1, <2>1, <3>1, PartIs
  <2>4. ToDelete(h[0], rec, h[1]) => ~Under(dirs[d].path, P)
    <3> SUFFICES ASSUME ToDelete(h[0], rec, h[1]), Under(dirs[d].path, P) PROVE FALSE
      OBVIOUS
    <3>1. f \in DOMAIN h[0]
      BY <1>0 DEF ToDelete
    <3>2. PathIn(h[0], f) = P
      BY <1>0, <1>1, <3>1, PartIs
    <3>3. Within(PathIn(h[0], d), PathIn(h[0], rec.frn))
      BY <1>0, <2>3, <3>2, UnderIs
    <3> QED
      BY <1>0, <1>1, <1>4, <2>1, <3>3, NothingBelow
  <2>5. rec.folder = TRUE \/ rec.folder = FALSE
    BY <1>0, <1>1, RecordPlace, FolderIs
  <2> QED
    BY <1>0, <1>D, <1>4, <2>2, <2>4, <2>5 DEF Remapped
<1>5. ASSUME f \in FoldersOf(h[1]), f \in DOMAIN h[w] PROVE f \in DOMAIN dirs'
  <2>1. f \in DOMAIN h[1] /\ h[1][f].folder = TRUE
    BY <1>1, <1>5, FolderIs DEF FoldersOf
  <2>2. Resolves(rec) /\ rec.folder = TRUE
    BY <1>0, <1>5, <2>1, Reached, RecordPlace
  <2>3. ~ToDelete(h[0], rec, h[1])
    BY <1>0, <2>1 DEF ToDelete
  <2> QED
    BY <1>0, <1>D, <2>2, <2>3 DEF Remapped
<1> QED
  BY <1>2, <1>4, <1>5 DEF DirsHold

LEMMA DirsTrueOn ==
    ASSUME NEW js, NEW h, NEW w, NEW U, Window(js, h, w, U), w # 0, DirsHold(dirs, h, w), DirsTrue(dirs, js, h, w, U),
           Applies(js[1]), NEW js2, NEW k, Shifted(js2, k, js, h, w)
    PROVE  DirsTrue(dirs', js2, k, w - 1, U)
<1>0. PICK rec, f, P : rec = js[1] /\ f = rec.frn /\ P = PathIn(U, f)
  OBVIOUS
<1>1. /\ Plain(h[0], rec, h[1]) /\ Whole(h[1]) /\ Whole(U)
      /\ f \in DOMAIN U /\ rec.folder = U[f].folder /\ rec.parent = U[f].parent
  BY <1>0, FirstPlain, RecordPlace
<1>2. /\ w \in Nat /\ k[w - 1] = h[w] /\ 1 \in 0..w /\ w \in 0..w /\ 1 <= w /\ 1 + 1 = 2
      /\ \A i \in 2..w : i - 1 \in 1..(w - 1) /\ js2[i - 1] = js[i]
  BY ShiftIs DEF Window
<1>3. Applies(rec)
  BY <1>0
<1>D. Remapped(rec, f, P, h[0], h[1])
  BY <1>0, <1>3, DirsThen
<1>4. rec.folder = TRUE \/ rec.folder = FALSE
  BY <1>1, FolderIs
\* What was in the map.
<1>5. ASSUME NEW d \in DOMAIN dirs, d \in DOMAIN dirs'
      PROVE  /\ d \in FoldersOf(U) /\ dirs'[d] = At(U)[d]
             /\ d \in DOMAIN h[w] \/ \E i \in 1..(w - 1) : js2[i].frn = d /\ "delete" \in js2[i].reasons
             /\ U[d].parent = Root \/ U[d].parent \in DOMAIN dirs'
  <2>1. /\ d \in FoldersOf(U) /\ dirs[d] = At(U)[d]
        /\ d \in DOMAIN h[w] \/ \E i \in 1..w : js[i].frn = d /\ "delete" \in js[i].reasons
        /\ U[d].parent = Root \/ U[d].parent \in DOMAIN dirs
    BY DEF DirsTrue
  <2>2. dirs'[d] = dirs[d]
    BY <1>0, <1>D, <1>5 DEF Remapped
  <2>3. ASSUME js[1].frn = d, "delete" \in js[1].reasons PROVE FALSE
    <3>1. ToDelete(h[0], rec, h[1])
      BY <1>0, <1>1, <2>3, PlainAbout
    <3>2. Resolves(rec)
      BY <1>0, <2>3, Reached
    <3>3. rec.folder = TRUE
      BY <1>0, <1>1, <2>1, <2>3, FolderIs
    <3> QED
      BY <1>0, <1>D, <1>5, <2>3, <3>1, <3>2, <3>3 DEF Remapped
  <2>4. ASSUME NEW i \in 1..w, js[i].frn = d, "delete" \in js[i].reasons
        PROVE  \E j \in 1..(w - 1) : js2[j].frn = d /\ "delete" \in js2[j].reasons
    <3>1. i \in 2..w
      BY <1>2, <2>3, <2>4
    <3> QED
      BY <1>2, <2>4, <3>1
  <2>5. ASSUME U[d].parent # Root PROVE U[d].parent \in DOMAIN dirs'
    <3>0. PICK up : up = U[d].parent
      OBVIOUS
    <3>1. up \in DOMAIN dirs /\ up # Root
      BY <2>1, <2>5, <3>0
    <3>2. d \in DOMAIN U
      BY <2>1 DEF FoldersOf
    <3>3. PathIn(U, d) = Append(PathIn(U, up), U[d].name) /\ U[d].name \in Names /\ up \in DOMAIN U
      BY <1>1, <3>0, <3>1, <3>2, PathIs
    <3>4. PathIn(U, up) \in Trails /\ P \in Trails
      BY <1>0, <1>1, <3>3, PathIs
    <3>5. dirs[d].path = PathIn(U, d) /\ dirs[up].path = PathIn(U, up)
      BY <2>1, <3>1 DEF DirsTrue, PathIn
    <3>6. up = f \/ Under(dirs[up].path, P) => Under(dirs[d].path, P)
      BY <1>0, <3>3, <3>4, <3>5, UnderNext, UnderIs, WithinItself
    <3> QED
      BY <1>0, <1>D, <1>4, <1>5, <3>0, <3>1, <3>6 DEF Remapped
  <2> QED
    BY <2>1, <2>2, <2>4, <2>5
\* What has come.
<1>6. ASSUME NEW d \in DOMAIN dirs', d \notin DOMAIN dirs
      PROVE  /\ d \in FoldersOf(U) /\ dirs'[d] = At(U)[d]
             /\ d \in DOMAIN h[w] \/ \E i \in 1..(w - 1) : js2[i].frn = d /\ "delete" \in js2[i].reasons
             /\ U[d].parent = Root \/ U[d].parent \in DOMAIN dirs'
  <2>1. /\ d = f /\ Resolves(rec) /\ f \in DOMAIN h[1] /\ rec.folder = TRUE /\ dirs'[f] = DirOf(rec)
        /\ DOMAIN dirs \subseteq DOMAIN dirs'
    BY <1>0, <1>D, <1>4, <1>6 DEF Remapped
  <2>2. f \in FoldersOf(h[1])
    <3>1. h[1][f].folder = rec.folder
      BY <1>0, <2>1, RecordPlace
    <3> QED
      BY <1>1, <2>1, <3>1, FolderIs
  <2>3. dirs'[d] = At(U)[d]
    BY <1>0, <2>1, <2>2, RecordPlace
  <2>4. d \in FoldersOf(U)
    BY <1>1, <2>1, FolderIs
  <2>5. d \in DOMAIN h[w] \/ \E i \in 1..(w - 1) : js2[i].frn = d /\ "delete" \in js2[i].reasons
    <3> SUFFICES ASSUME d \notin DOMAIN h[w]
                 PROVE  \E i \in 1..(w - 1) : js2[i].frn = d /\ "delete" \in js2[i].reasons
      OBVIOUS
    <3>1. \E i \in (1 + 1)..w : js[i].frn = f /\ "delete" \in js[i].reasons
      BY <1>2, <2>1, GoneIsTold
    <3>2. PICK i \in 2..w : js[i].frn = f /\ "delete" \in js[i].reasons
      BY <1>2, <3>1
    <3> QED
      BY <1>2, <2>1, <3>2
  <2>6. U[d].parent = Root \/ U[d].parent \in DOMAIN dirs'
    BY <1>1, <2>1 DEF Resolves
  <2> QED
    BY <2>3, <2>4, <2>5, <2>6
<1> QED
  BY <1>2, <1>5, <1>6 DEF DirsTrue

LEMMA BehindOn ==
    ASSUME NEW js, NEW h, NEW w, NEW U, Window(js, h, w, U), w # 0, Behind(rows, dirs, js, h, w, U),
           Applies(js[1]), NEW js2, NEW k, Shifted(js2, k, js, h, w)
    PROVE  Window(js2, k, w - 1, U) /\ Behind(rows', dirs', js2, k, w - 1, U)
<1>1. Window(js2, k, w - 1, U)
  BY NextWindow
<1>2. RowsTell(rows', js2, k, w - 1, U)
  BY RowsTellOn
<1>3. RowsHang(rows', dirs') /\ DirsHold(dirs', k, w - 1) /\ DirsTrue(dirs', js2, k, w - 1, U)
  BY RowsHangOn, DirsHoldOn, DirsTrueOn DEF Behind
<1> QED
  BY <1>1, <1>2, <1>3 DEF Behind
--------------------------------------------------------------------------------
(* Rows and directory map that are what the volume is. *)

Exact(rs, ds, D) ==
    /\ DOMAIN rs \subseteq Named /\ \A p \in Named : Matches(rs, D, p)
    /\ DOMAIN ds = FoldersOf(D) /\ \A d \in DOMAIN ds : ds[d] = At(D)[d]

LEMMA ExactIs ==
    ASSUME NEW js, NEW h, NEW U, Window(js, h, 0, U), NEW rs, NEW ds, Behind(rs, ds, js, h, 0, U)
    PROVE  Exact(rs, ds, h[0])
<1>0. /\ 0 \in 0..0 /\ Good(h[0]) /\ PartOf(h[0], U) /\ Whole(h[0]) /\ Whole(U)
      /\ \A i : ~(i \in 1..0)
  BY DEF Window, Good
<1>1. RowsTell(rs, js, h, 0, U) /\ RowsHang(rs, ds) /\ DirsHold(ds, h, 0) /\ DirsTrue(ds, js, h, 0, U)
  BY DEF Behind
<1>2. DOMAIN rs \subseteq Named /\ \A p \in Named : Matches(rs, h[0], p)
  BY <1>0, <1>1 DEF RowsTell, RowsHang, Told
<1>3. ASSUME NEW d \in DOMAIN ds PROVE d \in FoldersOf(h[0]) /\ ds[d] = At(h[0])[d]
  <2>1. d \in FoldersOf(U) /\ ds[d] = At(U)[d] /\ d \in DOMAIN h[0]
    BY <1>0, <1>1 DEF DirsTrue
  <2>2. d \in FoldersOf(h[0]) /\ PathIn(h[0], d) = PathIn(U, d) /\ HiddenIn(h[0], d) = HiddenIn(U, d)
    BY <1>0, <2>1, PartIs
  <2>3. At(U)[d] \in Spots /\ At(h[0])[d] \in Spots
    BY <1>0, <2>1, PathIs DEF FoldersOf
  <2> QED
    BY <2>1, <2>2, <2>3 DEF PathIn, HiddenIn, Spots
<1>4. \A d \in FoldersOf(h[0]) : d \in DOMAIN ds
  BY <1>1 DEF DirsHold, FoldersOf
<1> QED
  BY <1>2, <1>3, <1>4 DEF Exact

LEMMA ExactHangs ==
    ASSUME NEW D, Whole(D), NEW rs, NEW ds, Exact(rs, ds, D)
    PROVE  RowsHang(rs, ds)
<1> SUFFICES ASSUME NEW p \in DOMAIN rs
             PROVE  /\ p \in Named
                    /\ \/ \E n \in Names : p = <<n>>
                       \/ \E d \in DOMAIN ds, n \in Names : p = Append(ds[d].path, n)
  BY DEF RowsHang
<1>1. p \in Named /\ Matches(rs, D, p)
  BY DEF Exact
<1>2. PICK g \in DOMAIN D : PathIn(D, g) = p
  BY <1>1 DEF Matches
<1>3. CASE D[g].parent = Root
  BY <1>1, <1>2, <1>3, PathIs
<1>4. CASE D[g].parent # Root
  <2>1. D[g].parent \in FoldersOf(D) /\ p = Append(PathIn(D, D[g].parent), D[g].name) /\ D[g].name \in Names
    BY <1>2, <1>4, PathIs
  <2>2. D[g].parent \in DOMAIN ds /\ ds[D[g].parent].path = PathIn(D, D[g].parent)
    BY <2>1 DEF Exact, PathIn
  <2> QED
    BY <1>1, <2>1, <2>2
<1> QED
  BY <1>3, <1>4

LEMMA AlikeItself == \A D : PartOf(D, D)
  BY DEF PartOf, Alike

\* What is exact is behind by any record that comes.
LEMMA ExactBehind ==
    ASSUME NEW D, NEW rec, NEW E, Good(D), Good(E), Plain(D, rec, E), NEW rs, NEW ds, Exact(rs, ds, D),
           NEW js, js[1] = rec, NEW h, h[0] = D, h[1] = E
    PROVE  \E U : Window(js, h, 1, U) /\ Behind(rs, ds, js, h, 1, U)
<1> DEFINE U == IF ToCreate(D, rec, E) THEN E ELSE D
<1>0. Whole(D) /\ Whole(E)
  BY DEF Good
<1>1. U = D \/ U = E
  OBVIOUS
<1>2. Good(U) /\ Whole(U)
  BY <1>0, <1>1
<1>3. PartOf(D, U) /\ PartOf(E, U)
  <2>1. CASE ToCreate(D, rec, E)
    <3>1. DOMAIN D \subseteq DOMAIN E /\ \A g \in DOMAIN D : E[g] = D[g]
      BY <2>1 DEF ToCreate
    <3>2. PartOf(D, E)
      BY <3>1 DEF PartOf, Alike
    <3> QED
      BY <2>1, <3>2, AlikeItself
  <2>2. CASE ToDelete(D, rec, E)
    <3>1. DOMAIN E \subseteq DOMAIN D /\ (\A g \in DOMAIN E : E[g] = D[g]) /\ rec.frn \notin DOMAIN E /\ rec.frn \in DOMAIN D
      BY <2>2 DEF ToDelete
    <3>2. PartOf(E, D)
      BY <3>1 DEF PartOf, Alike
    <3>3. U = D
      BY <3>1 DEF ToCreate
    <3> QED
      BY <3>2, <3>3, AlikeItself
  <2>3. CASE ToShow(D, rec, E)
    <3>1. /\ DOMAIN E = DOMAIN D /\ rec.frn \in DOMAIN D /\ D[rec.frn].folder = FALSE
          /\ \A g \in DOMAIN D : g # rec.frn => E[g] = D[g]
          /\ E[rec.frn].parent = D[rec.frn].parent /\ E[rec.frn].name = D[rec.frn].name /\ E[rec.frn].folder = FALSE
      BY <2>3 DEF ToShow
    <3>2. PartOf(E, D)
      <4> SUFFICES ASSUME NEW g \in DOMAIN E PROVE Alike(E[g], D[g])
        BY <3>1 DEF PartOf
      <4>1. CASE g = rec.frn
        BY <3>1, <4>1 DEF Alike
      <4>2. CASE g # rec.frn
        BY <3>1, <4>2 DEF Alike
      <4> QED
        BY <4>1, <4>2
    <3>3. U = D
      BY <3>1 DEF ToCreate
    <3> QED
      BY <3>2, <3>3, AlikeItself
  <2> QED
    BY <2>1, <2>2, <2>3 DEF Plain
<1>4. \A f, g \in FoldersOf(U) : PathIn(U, f) = PathIn(U, g) => f = g
  BY <1>2, OneAtAPath DEF FoldersOf
<1> HIDE DEF U
<1>5. 0..1 = {0, 1} /\ 1..1 = {1} /\ 1 - 1 = 0
  OBVIOUS
<1>6. Window(js, h, 1, U)
  <2>1. \A i \in 0..1 : Good(h[i]) /\ PartOf(h[i], U)
    BY <1>3, <1>5
  <2>2. \A i \in 1..1 : Plain(h[i - 1], js[i], h[i])
    BY <1>5
  <2>3. \A i, j, l \in 0..1 : i <= j /\ j <= l => DOMAIN h[i] \intersect DOMAIN h[l] \subseteq DOMAIN h[j]
    <3> SUFFICES ASSUME NEW i \in 0..1, NEW j \in 0..1, NEW l \in 0..1, i <= j, j <= l
                 PROVE  DOMAIN h[i] \intersect DOMAIN h[l] \subseteq DOMAIN h[j]
      OBVIOUS
    <3>1. j = i \/ j = l
      BY <1>5
    <3> QED
      BY <3>1
  <2> QED
    BY <1>2, <1>4, <2>1, <2>2, <2>3 DEF Window
<1>7. RowsTell(rs, js, h, 1, U)
  BY DEF RowsTell, Exact
<1>8. RowsHang(rs, ds)
  BY <1>0, ExactHangs
<1>9. DirsHold(ds, h, 1)
  BY DEF DirsHold, Exact
<1>10. DirsTrue(ds, js, h, 1, U)
  <2> SUFFICES ASSUME NEW d \in DOMAIN ds
               PROVE  /\ d \in FoldersOf(U) /\ ds[d] = At(U)[d]
                      /\ d \in DOMAIN h[1] \/ \E i \in 1..1 : js[i].frn = d /\ "delete" \in js[i].reasons
                      /\ U[d].parent = Root \/ U[d].parent \in DOMAIN ds
    BY DEF DirsTrue
  <2>1. d \in FoldersOf(D) /\ ds[d] = At(D)[d] /\ d \in DOMAIN D
    BY DEF Exact, FoldersOf
  <2>2. d \in DOMAIN U /\ d \in FoldersOf(U) /\ PathIn(D, d) = PathIn(U, d) /\ HiddenIn(D, d) = HiddenIn(U, d)
    BY <1>0, <1>2, <1>3, <2>1, PartIs
  <2>3. At(U)[d] \in Spots /\ At(D)[d] \in Spots
    BY <1>0, <1>2, <2>1, <2>2, PathIs
  <2>4. ds[d] = At(U)[d]
    BY <2>1, <2>2, <2>3 DEF PathIn, HiddenIn, Spots
  <2>5. d \in DOMAIN h[1] \/ \E i \in 1..1 : js[i].frn = d /\ "delete" \in js[i].reasons
    <3>1. CASE d \in DOMAIN E
      BY <3>1
    <3>2. CASE d \notin DOMAIN E
      <4>1. d = rec.frn
        BY <2>1, <3>2, PlainElsewhere
      <4>2. "delete" \in rec.reasons
        BY <2>1, <3>2, <4>1, PlainAbout
      <4> QED
        BY <1>5, <4>1, <4>2
    <3> QED
      BY <3>1, <3>2
  <2>6. U[d].parent = Root \/ U[d].parent \in DOMAIN ds
    <3>1. U[d].parent = D[d].parent
      BY <1>3, <2>1 DEF PartOf, Alike
    <3>2. D[d].parent # Root => D[d].parent \in FoldersOf(D)
      BY <1>0, <2>1, PathIs
    <3> QED
      BY <3>1, <3>2 DEF Exact
  <2> QED
    BY <2>2, <2>4, <2>5, <2>6
<1> QED
  BY <1>6, <1>7, <1>8, <1>9, <1>10 DEF Behind

\* A record that speaks of one entry keeps them exact.
LEMMA PlainExact ==
    ASSUME NEW D, NEW rec, NEW E, Good(D), Good(E), Plain(D, rec, E), Exact(rows, dirs, D), Applies(rec)
    PROVE  Exact(rows', dirs', E)
<1>1. PICK js : js = [i \in {1} |-> rec]
  OBVIOUS
<1>2. PICK h : h = [i \in {0, 1} |-> IF i = 0 THEN D ELSE E]
  OBVIOUS
<1>3. PICK k : k = [i \in {0} |-> E]
  OBVIOUS
<1>4. js[1] = rec /\ h[0] = D /\ h[1] = E /\ k[0] = E
  BY <1>1, <1>2, <1>3
<1>5. PICK U : Window(js, h, 1, U) /\ Behind(rows, dirs, js, h, 1, U)
  BY <1>4, ExactBehind
<1>6. Shifted(js, k, js, h, 1)
  <2>1. 1 - 1 = 0 /\ 0..0 = {0} /\ (\A i : ~(i \in 1..0)) /\ 0 + 1 = 1
    OBVIOUS
  <2> QED
    BY <1>4, <2>1 DEF Shifted
<1>7. Window(js, k, 1 - 1, U) /\ Behind(rows', dirs', js, k, 1 - 1, U)
  BY <1>4, <1>5, <1>6, BehindOn
<1>8. 1 - 1 = 0
  OBVIOUS
<1>9. Exact(rows', dirs', k[0])
  BY <1>7, <1>8, ExactIs
<1> QED
  BY <1>4, <1>9
--------------------------------------------------------------------------------
(* A move. *)

LEMMA RebasedItself ==
    ASSUME NEW from \in Trails, NEW to \in Trails
    PROVE  Rebased(from, from, to) = to
<1>0. Within(from, from) /\ Len(from) \in Nat /\ Len(to) \in Nat
  BY WithinItself, WithinIs
<1>1. PICK r : r = Rebased(from, from, to)
  OBVIOUS
<1>2. r \in Trails /\ Within(r, to) /\ Len(r) = Len(to) + (Len(from) - Len(from))
  BY <1>0, <1>1, RebasedIs
<1>3. Len(r) = Len(to) /\ \A i \in 1..Len(to) : r[i] = to[i]
  BY <1>0, <1>2, WithinIs
<1> QED
  BY <1>1, <1>2, <1>3, SameTrail

LEMMA RebasedNext ==
    ASSUME NEW p \in Trails, NEW n \in Names, NEW from \in Trails, NEW to \in Trails, Within(p, from)
    PROVE  Rebased(Append(p, n), from, to) = Append(Rebased(p, from, to), n)
<1>1. PICK a, r, s, t : /\ a = Append(p, n) /\ r = Rebased(p, from, to) /\ s = Rebased(a, from, to)
                        /\ t = Append(r, n)
  OBVIOUS
<1>2. /\ a \in Trails /\ Len(a) = Len(p) + 1 /\ Len(p) \in Nat /\ (\A i \in 1..Len(p) : a[i] = p[i])
      /\ a[Len(p) + 1] = n
  BY <1>1, NextName
<1>3. Within(a, from) /\ Len(from) <= Len(p) /\ Len(from) \in Nat /\ Len(to) \in Nat
  BY <1>1, WithinNext, WithinIs
<1>4. /\ r \in Trails /\ Within(r, to) /\ Len(r) = Len(to) + (Len(p) - Len(from))
      /\ \A i \in (Len(to) + 1)..(Len(to) + (Len(p) - Len(from))) : r[i] = p[Len(from) + (i - Len(to))]
  BY <1>1, RebasedIs
<1>5. /\ s \in Trails /\ Within(s, to) /\ Len(s) = Len(to) + (Len(a) - Len(from))
      /\ \A i \in (Len(to) + 1)..(Len(to) + (Len(a) - Len(from))) : s[i] = a[Len(from) + (i - Len(to))]
  <2>1. /\ Rebased(a, from, to) \in Trails /\ Within(Rebased(a, from, to), to)
        /\ Len(Rebased(a, from, to)) = Len(to) + (Len(a) - Len(from))
        /\ \A i \in (Len(to) + 1)..(Len(to) + (Len(a) - Len(from))) :
               Rebased(a, from, to)[i] = a[Len(from) + (i - Len(to))]
    BY <1>2, <1>3, RebasedIs
  <2> QED
    BY <1>1, <2>1
<1>6. t \in Trails /\ Len(t) = Len(r) + 1 /\ (\A i \in 1..Len(r) : t[i] = r[i]) /\ t[Len(r) + 1] = n
  BY <1>1, <1>4, NextName
<1>7. Len(s) = Len(t)
  BY <1>2, <1>3, <1>4, <1>5, <1>6
<1>8. ASSUME NEW i \in 1..Len(s) PROVE s[i] = t[i]
  <2>1. CASE i <= Len(to)
    <3>1. s[i] = to[i] /\ r[i] = to[i]
      BY <1>3, <1>4, <1>5, <2>1, WithinIs
    <3>2. i \in 1..Len(r)
      BY <1>3, <1>4, <2>1
    <3> QED
      BY <1>6, <3>1, <3>2
  <2>2. CASE i > Len(to) /\ i <= Len(r)
    <3>1. /\ i \in (Len(to) + 1)..(Len(to) + (Len(p) - Len(from))) /\ i \in 1..Len(r)
          /\ i \in (Len(to) + 1)..(Len(to) + (Len(a) - Len(from)))
          /\ Len(from) + (i - Len(to)) \in 1..Len(p)
      BY <1>2, <1>3, <1>4, <2>2
    <3>2. r[i] = p[Len(from) + (i - Len(to))] /\ s[i] = a[Len(from) + (i - Len(to))] /\ t[i] = r[i]
      BY <1>4, <1>5, <1>6, <3>1
    <3> QED
      BY <1>2, <3>1, <3>2
  <2>3. CASE i > Len(r)
    <3>1. /\ i = Len(r) + 1 /\ i \in (Len(to) + 1)..(Len(to) + (Len(a) - Len(from)))
          /\ Len(from) + (i - Len(to)) = Len(p) + 1
      <4>1. /\ i \in Nat /\ i <= Len(s) /\ Len(s) = Len(to) + (Len(a) - Len(from)) /\ Len(a) = Len(p) + 1
            /\ Len(r) = Len(to) + (Len(p) - Len(from)) /\ Len(p) \in Nat /\ Len(from) \in Nat /\ Len(to) \in Nat
            /\ Len(from) <= Len(p)
        BY <1>2, <1>3, <1>4, <1>5
      <4> QED
        BY <2>3, <4>1
    <3>2. s[i] = a[Len(p) + 1] /\ t[i] = n
      BY <1>5, <1>6, <3>1
    <3> QED
      BY <1>2, <3>2
  <2> QED
    BY <1>3, <1>4, <1>5, <2>1, <2>2, <2>3
<1>9. s = t
  BY <1>5, <1>6, <1>7, <1>8, SameTrail
<1> QED
  BY <1>1, <1>9

\* What was at or below the old path is at or below the new one; the rest stays.
LEMMA MovedPaths ==
    ASSUME NEW D, Good(D), NEW rec, NEW E, Good(E), ToMove(D, rec, E), NEW f, f = rec.frn,
           NEW old, old = PathIn(D, f), NEW new, new = PathIn(E, f), NEW g \in DOMAIN D
    PROVE  /\ Within(PathIn(D, g), old) => PathIn(E, g) = Rebased(PathIn(D, g), old, new)
           /\ ~Within(PathIn(D, g), old) => PathIn(E, g) = PathIn(D, g)
<1> DEFINE Goes(x) == /\ Within(PathIn(D, x), old) => PathIn(E, x) = Rebased(PathIn(D, x), old, new)
                      /\ ~Within(PathIn(D, x), old) => PathIn(E, x) = PathIn(D, x)
           S == {x \in DOMAIN D : Goes(x)}
<1>0. /\ Whole(D) /\ Whole(E) /\ f \in DOMAIN D /\ DOMAIN E = DOMAIN D
      /\ \A x \in DOMAIN D : x # f => E[x] = D[x]
  BY DEF Good, ToMove
<1>1. old \in Trails /\ old # <<>> /\ new \in Trails
  BY <1>0, PathIs
<1>2. Goes(f)
  BY <1>1, RebasedItself, WithinItself
<1>3. ASSUME NEW x \in DOMAIN D, D[x].parent = Root, x # f PROVE Goes(x)
  <2>1. PathIn(D, x) = <<D[x].name>> /\ D[x].name \in Names /\ PathIn(E, x) = PathIn(D, x)
    BY <1>0, <1>3, PathIs
  <2>2. ~Within(PathIn(D, x), old)
    <3> SUFFICES ASSUME Within(PathIn(D, x), old) PROVE FALSE
      OBVIOUS
    <3>1. old = PathIn(D, x)
      BY <1>1, <2>1, WithinOne
    <3> QED
      BY <1>0, <1>3, <3>1, OneAtAPath
  <2> QED
    BY <2>1, <2>2
<1>4. ASSUME NEW x \in DOMAIN D, D[x].parent \in S, D[x].parent # Root, x # f PROVE Goes(x)
  <2>0. PICK up, n : up = D[x].parent /\ n = D[x].name
    OBVIOUS
  <2>1. up \in DOMAIN D /\ Goes(up)
    BY <1>4, <2>0
  <2> HIDE DEF S
  <2>2. n \in Names /\ PathIn(D, x) = Append(PathIn(D, up), n) /\ PathIn(E, x) = Append(PathIn(E, up), n)
    BY <1>0, <1>4, <2>0, PathIs
  <2>3. PathIn(D, up) \in Trails
    BY <1>0, <2>1, PathIs
  <2>4. Within(PathIn(D, x), old) <=> Within(PathIn(D, up), old)
    <3>1. PathIn(D, x) # old
      BY <1>0, <1>4, OneAtAPath
    <3> QED
      BY <1>1, <2>2, <2>3, <3>1, WithinNext
  <2>5. Within(PathIn(D, up), old)
        => Rebased(Append(PathIn(D, up), n), old, new) = Append(Rebased(PathIn(D, up), old, new), n)
    BY <1>1, <2>2, <2>3, RebasedNext
  <2> QED
    BY <2>1, <2>2, <2>4, <2>5
<1> HIDE DEF Goes
<1>5. S = DOMAIN D
  <2>1. /\ S \subseteq DOMAIN D
        /\ \A x \in DOMAIN D : D[x].parent = Root => x \in S
        /\ \A x \in DOMAIN D : D[x].parent \in S => x \in S
    BY <1>2, <1>3, <1>4
  <2> HIDE DEF S
  <2> QED
    BY <1>0, <2>1, Climb
<1> QED
  BY <1>5 DEF Goes

\* Nothing is where it goes, and it does not go below itself.
LEMMA MoveIsClear ==
    ASSUME NEW D, Good(D), NEW rec, NEW E, Good(E), ToMove(D, rec, E), NEW f, f = rec.frn,
           NEW old, old = PathIn(D, f), NEW new, new = PathIn(E, f)
    PROVE  /\ \A g \in DOMAIN D : ~Within(PathIn(D, g), new)
           /\ E[f].parent # Root => ~Within(PathIn(D, E[f].parent), old)
           /\ ~Within(new, old) /\ new # old
<1>0. /\ Whole(D) /\ Whole(E) /\ f \in DOMAIN D /\ DOMAIN E = DOMAIN D
      /\ \A g \in DOMAIN D : ~(D[g].parent = E[f].parent /\ D[g].name = E[f].name)
  BY DEF Good, ToMove
<1>1. old \in Trails /\ old # <<>> /\ new \in Trails /\ new # <<>> /\ E[f].name \in Names
  BY <1>0, PathIs
<1>2. PICK e : e = E[f].parent
  OBVIOUS
<1>8. f \in DOMAIN E
  BY <1>0
<1>9. e = Root => new = <<E[f].name>>
  BY <1>0, <1>2, <1>8, PathIs
<1>10. \A g \in DOMAIN D :
          /\ Within(PathIn(D, g), old) => PathIn(E, g) = Rebased(PathIn(D, g), old, new)
          /\ ~Within(PathIn(D, g), old) => PathIn(E, g) = PathIn(D, g)
  BY MovedPaths
<1>3. ASSUME e # Root
      PROVE  /\ e \in DOMAIN D /\ new = Append(PathIn(E, e), E[f].name) /\ PathIn(E, e) = PathIn(D, e)
             /\ PathIn(D, e) \in Trails /\ PathIn(D, e) # <<>> /\ ~Within(PathIn(D, e), old)
  <2>1. e \in DOMAIN D /\ new = Append(PathIn(E, e), E[f].name)
    BY <1>0, <1>2, <1>3, PathIs
  <2>2. PathIn(D, e) \in Trails /\ PathIn(D, e) # <<>> /\ PathIn(E, e) \in Trails
    BY <1>0, <2>1, PathIs
  <2>3. ~Within(PathIn(D, e), old)
    <3> SUFFICES ASSUME Within(PathIn(D, e), old) PROVE FALSE
      OBVIOUS
    <3>0. Within(PathIn(D, e), old)
      OBVIOUS
    <3>1. PathIn(E, e) = Rebased(PathIn(D, e), old, new)
      BY <1>10, <2>1, <3>0
    <3>2. Within(PathIn(E, e), new)
      BY <1>1, <2>2, <3>1, RebasedIs
    <3>3. Len(new) <= Len(PathIn(E, e))
      BY <1>1, <2>2, <3>2, WithinIs
    <3>4. Len(new) = Len(PathIn(E, e)) + 1 /\ Len(PathIn(E, e)) \in Nat
      BY <1>1, <2>1, <2>2, NextName
    <3> QED
      BY <3>3, <3>4
  <2>4. PathIn(E, e) = PathIn(D, e)
    BY <1>10, <2>1, <2>3
  <2> QED
    BY <2>1, <2>2, <2>3, <2>4
<1>4. ASSUME NEW d \in DOMAIN D, PathIn(D, d) = new PROVE FALSE
  <2>1. D[d].name \in Names
    BY <1>0, PathIs
  <2>2. CASE e = Root
    <3>1. new = <<E[f].name>>
      BY <1>9, <2>2
    <3>2. CASE D[d].parent = Root
      <4>1. PathIn(D, d) = <<D[d].name>>
        BY <1>0, <3>2, PathIs
      <4> QED
        BY <1>0, <1>1, <1>2, <1>4, <2>1, <2>2, <3>1, <3>2, <4>1, OneName
    <3>3. CASE D[d].parent # Root
      <4>0. PICK up : up = D[d].parent
        OBVIOUS
      <4>1. PathIn(D, d) = Append(PathIn(D, up), D[d].name) /\ up \in DOMAIN D
        BY <1>0, <3>3, <4>0, PathIs
      <4>2. PathIn(D, up) \in Trails /\ PathIn(D, up) # <<>>
        BY <1>0, <4>1, PathIs
      <4> QED
        BY <1>1, <1>4, <2>1, <3>1, <4>1, <4>2, OneName
    <3> QED
      BY <3>2, <3>3
  <2>3. CASE e # Root
    <3>1. CASE D[d].parent = Root
      <4>1. PathIn(D, d) = <<D[d].name>>
        BY <1>0, <3>1, PathIs
      <4> QED
        BY <1>1, <1>3, <1>4, <2>1, <2>3, <4>1, OneName
    <3>2. CASE D[d].parent # Root
      <4>0. PICK up : up = D[d].parent
        OBVIOUS
      <4>1. PathIn(D, d) = Append(PathIn(D, up), D[d].name) /\ up \in DOMAIN D
        BY <1>0, <3>2, <4>0, PathIs
      <4>2. PathIn(D, up) \in Trails
        BY <1>0, <4>1, PathIs
      <4>3. Append(PathIn(D, up), D[d].name) = Append(PathIn(D, e), E[f].name)
        BY <1>3, <1>4, <2>3, <4>1
      <4>4. PathIn(D, up) = PathIn(D, e) /\ D[d].name = E[f].name
        BY <1>1, <1>3, <2>1, <2>3, <4>2, <4>3, SameNext
      <4>5. up = e
        BY <1>3, <2>3, <4>1, <4>4, OneAtAPath
      <4> QED
        BY <1>0, <1>2, <4>0, <4>4, <4>5
    <3> QED
      BY <3>1, <3>2
  <2> QED
    BY <2>2, <2>3
<1>5. \A g \in DOMAIN D : ~Within(PathIn(D, g), new)
  <2> SUFFICES ASSUME NEW g \in DOMAIN D, Within(PathIn(D, g), new) PROVE FALSE
    OBVIOUS
  <2>1. \E d \in DOMAIN D : PathIn(D, d) = new
    BY <1>0, <1>1, OnTheWay
  <2> QED
    BY <1>4, <2>1
<1>6. new # old
  BY <1>0, <1>4
<1>7. ~Within(new, old)
  <2>1. CASE e = Root
    <3>1. new = <<E[f].name>>
      BY <1>9, <2>1
    <3> QED
      BY <1>1, <1>6, <3>1, WithinOne
  <2>2. CASE e # Root
    <3>1. new = Append(PathIn(D, e), E[f].name)
      BY <1>3, <2>2
    <3> QED
      BY <1>1, <1>3, <1>6, <2>2, <3>1, WithinNext
  <2> QED
    BY <2>1, <2>2
<1> QED
  BY <1>2, <1>3, <1>5, <1>6, <1>7

Copies(rec, f, node, reasons) ==
    /\ rec.frn = f /\ rec.parent = node.parent /\ rec.name = node.name /\ rec.folder = node.folder
    /\ rec.hidden = node.hidden /\ rec.reasons = reasons

LEMMA RecordCopies ==
    ASSUME NEW f, NEW node, NEW reasons
    PROVE  Copies(Record(f, node, reasons), f, node, reasons)
  BY RecordIs DEF Copies

LEMMA HiddenAtRoot ==
    ASSUME NEW rec, NEW own \in BOOLEAN, rec.hidden = own, rec.parent = Root
    PROVE  EffectiveHidden(rec) = own
<1>1. CASE own = TRUE
  BY <1>1 DEF EffectiveHidden
<1>2. CASE own = FALSE
  BY <1>2 DEF EffectiveHidden
<1> QED
  BY <1>1, <1>2

LEMMA MoveIs ==
    ASSUME NEW D, Good(D), NEW rec, NEW E, Good(E), ToMove(D, rec, E), NEW f, f = rec.frn
    PROVE  /\ Whole(D) /\ Whole(E) /\ f \in DOMAIN D /\ f \in DOMAIN E /\ DOMAIN E = DOMAIN D
           /\ \A g \in DOMAIN D : HiddenIn(E, g) = HiddenIn(D, g)
           /\ \A g \in DOMAIN D : E[g].folder = D[g].folder
           /\ Copies(rec, f, E[f], {"new name", "close"})
<1>1. /\ Whole(D) /\ Whole(E) /\ f \in DOMAIN D /\ f \in DOMAIN E /\ DOMAIN E = DOMAIN D
      /\ \A g \in DOMAIN D : HiddenIn(E, g) = HiddenIn(D, g)
      /\ \A g \in DOMAIN D : E[g].folder = D[g].folder
  BY DEF Good, ToMove
<1>2. Copies(rec, rec.frn, E[rec.frn], {"new name", "close"})
  BY RecordCopies DEF ToMove
<1> QED
  BY <1>1, <1>2

LEMMA RenamedRows ==
    ASSUME NEW D, Good(D), NEW rec, NEW E, Good(E), ToMove(D, rec, E), NEW f, f = rec.frn,
           NEW old, old = PathIn(D, f), NEW new, new = PathIn(E, f), NEW n,
           NEW rs, RowsTypeOK(rs), DOMAIN rs \subseteq Named, \A p \in Named : Matches(rs, D, p)
    PROVE  LET res == Rename(rs, old, new, n)
           IN  DOMAIN res \subseteq Named /\ \A p \in Named : Matches(res, E, p)
<1> DEFINE kept   == DeleteSubtree(rs, new)
           moved  == {p \in DOMAIN kept : Within(p, old)}
           landed == {Rebased(p, old, new) : p \in moved}
           res    == Rename(rs, old, new, n)
<1>0. /\ Whole(D) /\ Whole(E) /\ f \in DOMAIN D /\ f \in DOMAIN E /\ DOMAIN E = DOMAIN D
      /\ \A g \in DOMAIN D : HiddenIn(E, g) = HiddenIn(D, g) /\ E[g].folder = D[g].folder
  BY DEF Good, ToMove
<1>1. /\ \A g \in DOMAIN D : ~Within(PathIn(D, g), new)
      /\ new # old
  BY MoveIsClear
<1>2. \A g \in DOMAIN D :
         /\ Within(PathIn(D, g), old) => PathIn(E, g) = Rebased(PathIn(D, g), old, new)
         /\ ~Within(PathIn(D, g), old) => PathIn(E, g) = PathIn(D, g)
  BY MovedPaths
<1>3. old \in Trails /\ new \in Trails
  BY <1>0, PathIs
<1>4. /\ \A g \in DOMAIN D : /\ PathIn(D, g) \in DOMAIN rs /\ PathIn(D, g) \in Trails /\ PathIn(D, g) # <<>>
                             /\ rs[PathIn(D, g)].folder = D[g].folder /\ rs[PathIn(D, g)].hidden = HiddenIn(D, g)
      /\ \A p \in DOMAIN rs : \E g \in DOMAIN D : PathIn(D, g) = p
  <2>1. \A g \in DOMAIN D : PathIn(D, g) \in Trails /\ PathIn(D, g) # <<>>
    BY <1>0, PathIs
  <2> QED
    BY <2>1 DEF Matches, Named
<1>5. DOMAIN kept = DOMAIN rs /\ \A p \in DOMAIN rs : kept[p] = rs[p]
  <2>1. kept = [p \in {p \in DOMAIN rs : ~Within(p, new)} |-> rs[p]]
    BY DEF DeleteSubtree, Restrict
  <2>2. {p \in DOMAIN rs : ~Within(p, new)} = DOMAIN rs
    BY <1>1, <1>4
  <2> HIDE DEF kept
  <2> QED
    BY <2>1, <2>2
<1>6. res = [p \in (DOMAIN kept \ moved) \union landed |->
                IF p \in landed THEN [kept[Rebased(p, new, old)] EXCEPT !.gen = n] ELSE kept[p]]
  BY <1>1 DEF Rename
<1>7. \A p \in moved : p \in DOMAIN rs /\ Within(p, old)
  BY <1>5
<1>8. \A p \in DOMAIN rs : Within(p, old) => p \in moved
  BY <1>5
<1>9. \A q : q \in landed <=> \E p \in moved : q = Rebased(p, old, new)
  OBVIOUS
<1> HIDE DEF kept, moved, landed, res
<1>10. \A q \in landed : \E g \in DOMAIN D : Within(PathIn(D, g), old) /\ PathIn(E, g) = q
  <2> TAKE q \in landed
  <2>1. PICK p \in moved : q = Rebased(p, old, new)
    BY <1>9
  <2>2. PICK g \in DOMAIN D : PathIn(D, g) = p
    BY <1>4, <1>7, <2>1
  <2> QED
    BY <1>2, <1>7, <2>1, <2>2
<1>11. ASSUME NEW g \in DOMAIN D, Within(PathIn(D, g), old)
       PROVE  /\ PathIn(E, g) \in landed /\ Within(PathIn(E, g), new)
              /\ Rebased(PathIn(E, g), new, old) = PathIn(D, g)
  <2>1. PathIn(E, g) = Rebased(PathIn(D, g), old, new) /\ PathIn(D, g) \in DOMAIN rs /\ PathIn(D, g) \in Trails
    BY <1>2, <1>4, <1>11
  <2>2. PathIn(D, g) \in moved
    BY <1>8, <1>11, <2>1
  <2>3. /\ Within(Rebased(PathIn(D, g), old, new), new)
        /\ Rebased(Rebased(PathIn(D, g), old, new), new, old) = PathIn(D, g)
    BY <1>3, <1>11, <2>1, RebasedIs
  <2> QED
    BY <1>9, <2>1, <2>2, <2>3
<1>12. \A g \in DOMAIN D : PathIn(D, g) \notin landed
  <2> SUFFICES ASSUME NEW g \in DOMAIN D, PathIn(D, g) \in landed PROVE FALSE
    OBVIOUS
  <2>1. PICK d \in DOMAIN D : Within(PathIn(D, d), old) /\ PathIn(E, d) = PathIn(D, g)
    BY <1>10
  <2> QED
    BY <1>1, <1>11, <2>1
<1>13. \A g \in DOMAIN D : PathIn(E, g) \in Named
  BY <1>0, PathIs DEF Named
<1>14. \A p \in DOMAIN res : \E g \in DOMAIN E : PathIn(E, g) = p
  <2> TAKE p \in DOMAIN res
  <2>1. p \in landed \/ (p \in DOMAIN rs /\ p \notin moved)
    BY <1>5, <1>6
  <2>2. CASE p \in landed
    BY <1>0, <1>10, <2>2
  <2>3. CASE p \in DOMAIN rs /\ p \notin moved
    <3>1. PICK g \in DOMAIN D : PathIn(D, g) = p
      BY <1>4, <2>3
    <3> QED
      BY <1>0, <1>2, <1>8, <2>3, <3>1
  <2> QED
    BY <2>1, <2>2, <2>3
<1>15. ASSUME NEW g \in DOMAIN E
       PROVE  /\ PathIn(E, g) \in DOMAIN res
              /\ res[PathIn(E, g)].folder = E[g].folder /\ res[PathIn(E, g)].hidden = HiddenIn(E, g)
  <2>1. g \in DOMAIN D /\ HiddenIn(E, g) = HiddenIn(D, g) /\ E[g].folder = D[g].folder
    BY <1>0
  <2>2. CASE Within(PathIn(D, g), old)
    <3>0. PICK q, p : q = PathIn(E, g) /\ p = PathIn(D, g)
      OBVIOUS
    <3>1. q \in landed /\ Rebased(q, new, old) = p /\ p \in DOMAIN rs
      BY <1>4, <1>11, <2>1, <2>2, <3>0
    <3>2. q \in DOMAIN res /\ res[q] = [kept[p] EXCEPT !.gen = n]
      BY <1>6, <3>1
    <3>3. kept[p] = rs[p] /\ rs[p] \in Row
      BY <1>5, <3>1 DEF RowsTypeOK
    <3>4. res[q].folder = rs[p].folder /\ res[q].hidden = rs[p].hidden
      BY <3>2, <3>3 DEF Row
    <3> QED
      BY <1>4, <2>1, <3>0, <3>2, <3>4
  <2>3. CASE ~Within(PathIn(D, g), old)
    <3>1. PathIn(E, g) = PathIn(D, g) /\ PathIn(D, g) \in DOMAIN rs
      BY <1>2, <1>4, <2>1, <2>3
    <3>2. PathIn(D, g) \notin moved /\ PathIn(D, g) \notin landed
      BY <1>7, <1>12, <2>1, <2>3
    <3>3. PathIn(D, g) \in DOMAIN res /\ res[PathIn(D, g)] = rs[PathIn(D, g)]
      BY <1>5, <1>6, <3>1, <3>2
    <3> QED
      BY <1>4, <2>1, <3>1, <3>3
  <2> QED
    BY <2>2, <2>3
<1>16. DOMAIN res \subseteq Named
  BY <1>0, <1>13, <1>14
<1>17. \A p \in Named : Matches(res, E, p)
  BY <1>14, <1>15 DEF Matches
<1> QED
  BY <1>16, <1>17 DEF res

\* The folders are the same, and each has its new place.
LEMMA RewrittenDirs ==
    ASSUME NEW D, Good(D), NEW rec, NEW E, Good(E), ToMove(D, rec, E), NEW f, f = rec.frn,
           NEW old, old = PathIn(D, f), NEW new, new = PathIn(E, f),
           DOMAIN dirs = FoldersOf(D), \A d \in DOMAIN dirs : dirs[d] = At(D)[d],
           DirOf(rec) = At(E)[f], PathOf(rec) = new,
           dirs' = IF rec.folder THEN RewriteDirSubtree(old, rec) ELSE dirs
    PROVE  DOMAIN dirs' = FoldersOf(E) /\ \A d \in DOMAIN dirs' : dirs'[d] = At(E)[d]
<1>0. /\ Whole(D) /\ Whole(E) /\ f \in DOMAIN D /\ f \in DOMAIN E /\ DOMAIN E = DOMAIN D
      /\ (\A g \in DOMAIN D : HiddenIn(E, g) = HiddenIn(D, g)) /\ (\A g \in DOMAIN D : E[g].folder = D[g].folder)
      /\ rec.folder = E[f].folder
  <2>1. Copies(rec, f, E[f], {"new name", "close"})
    BY MoveIs
  <2>2. rec.folder = E[f].folder
    BY <2>1 DEF Copies
  <2>3. Whole(D) /\ Whole(E) /\ f \in DOMAIN D /\ f \in DOMAIN E /\ DOMAIN E = DOMAIN D
    BY MoveIs
  <2>4. (\A g \in DOMAIN D : HiddenIn(E, g) = HiddenIn(D, g)) /\ (\A g \in DOMAIN D : E[g].folder = D[g].folder)
    BY DEF ToMove
  <2> QED
    BY <2>2, <2>3, <2>4
<1>1. FoldersOf(E) = FoldersOf(D)
  BY <1>0 DEF FoldersOf
<1>2. \A g \in DOMAIN D :
         /\ Within(PathIn(D, g), old) => PathIn(E, g) = Rebased(PathIn(D, g), old, new)
         /\ ~Within(PathIn(D, g), old) => PathIn(E, g) = PathIn(D, g)
  BY MovedPaths
<1>3. \A g \in DOMAIN D : /\ At(D)[g] = [path |-> PathIn(D, g), hidden |-> HiddenIn(D, g)]
                          /\ At(E)[g] = [path |-> PathIn(E, g), hidden |-> HiddenIn(D, g)]
  <2> TAKE g \in DOMAIN D
  <2>1. At(D)[g] \in Spots /\ At(E)[g] \in Spots
    BY <1>0, PathIs
  <2> QED
    BY <1>0, <2>1 DEF PathIn, HiddenIn, Spots
<1>4. \A d \in FoldersOf(D) : d \in DOMAIN D /\ dirs[d] = At(D)[d]
  BY DEF FoldersOf
<1>5. \A g \in DOMAIN D : g # f => PathIn(D, g) # old
  BY <1>0, OneAtAPath
<1>6. CASE rec.folder = FALSE
  <2>1. f \notin FoldersOf(D)
    BY <1>0, <1>6, FolderIs
  <2>2. dirs' = dirs
    BY <1>6
  <2>3. ASSUME NEW d \in FoldersOf(D) PROVE dirs[d] = At(E)[d]
    <3>1. d \in DOMAIN D /\ d # f /\ dirs[d] = At(D)[d]
      BY <1>4, <2>1
    <3>2. ~Within(PathIn(D, d), old)
      <4> SUFFICES ASSUME Within(PathIn(D, d), old) PROVE FALSE
        OBVIOUS
      <4>1. Under(PathIn(D, d), PathIn(D, f))
        BY <1>5, <3>1, UnderIs
      <4> QED
        BY <1>0, <2>1, <3>1, <4>1, UnderIsIn
    <3> QED
      BY <1>2, <1>3, <3>1, <3>2
  <2> QED
    BY <1>1, <2>2, <2>3
<1>7. CASE rec.folder = TRUE
  <2> DEFINE with == With(dirs, f, At(E)[f])
  <2>1. f \in FoldersOf(D)
    BY <1>0, <1>7, FolderIs
  <2>2. DOMAIN with = FoldersOf(D) /\ with[f] = At(E)[f] /\ \A d \in FoldersOf(D) : d # f => with[d] = At(D)[d]
    BY <1>4, <2>1 DEF With
  <2>3. dirs' = [d \in DOMAIN with |-> IF Under(with[d].path, old)
                                       THEN [with[d] EXCEPT !.path = Rebased(@, old, new)] ELSE with[d]]
    BY <1>7 DEF RewriteDirSubtree
  <2> HIDE DEF with
  <2>4. dirs'[f] = At(E)[f]
    <3>1. ~Within(new, old)
      BY MoveIsClear
    <3>2. with[f].path = new
      BY <2>2 DEF PathIn
    <3>3. ~Under(with[f].path, old)
      BY <3>1, <3>2, UnderIs
    <3> QED
      BY <2>1, <2>2, <2>3, <3>3
  <2>5. ASSUME NEW d \in FoldersOf(D), d # f PROVE dirs'[d] = At(E)[d]
    <3>0. PICK p, q, b : p = PathIn(D, d) /\ q = PathIn(E, d) /\ b = HiddenIn(D, d)
      OBVIOUS
    <3>1. d \in DOMAIN D /\ with[d] = [path |-> p, hidden |-> b] /\ At(E)[d] = [path |-> q, hidden |-> b] /\ p # old
      BY <1>3, <1>4, <1>5, <2>2, <2>5, <3>0
    <3>2. Under(p, old) <=> Within(p, old)
      BY <3>1, UnderIs
    <3>3. CASE Within(p, old)
      <4>1. q = Rebased(p, old, new)
        BY <1>2, <3>0, <3>1, <3>3
      <4>2. dirs'[d] = [with[d] EXCEPT !.path = Rebased(@, old, new)]
        BY <2>2, <2>3, <3>1, <3>2, <3>3
      <4>3. [with[d] EXCEPT !.path = Rebased(@, old, new)] = [path |-> Rebased(p, old, new), hidden |-> b]
        BY <3>1
      <4> QED
        BY <3>1, <4>1, <4>2, <4>3
    <3>4. CASE ~Within(p, old)
      <4>1. q = p
        BY <1>2, <3>0, <3>1, <3>4
      <4>2. dirs'[d] = with[d]
        BY <2>2, <2>3, <3>1, <3>2, <3>4
      <4> QED
        BY <3>1, <4>1, <4>2
    <3> QED
      BY <3>3, <3>4
  <2>6. DOMAIN dirs' = FoldersOf(D)
    BY <2>2, <2>3
  <2> QED
    BY <1>1, <2>4, <2>5, <2>6
<1>8. rec.folder = TRUE \/ rec.folder = FALSE
  BY <1>0, FolderIs
<1> QED
  BY <1>6, <1>7, <1>8

LEMMA MoveExact ==
    ASSUME NEW D, Good(D), NEW rec, NEW E, Good(E), ToMove(D, rec, E), RowsTypeOK(rows), Exact(rows, dirs, D),
           rec.frn \in DOMAIN pending, pending[rec.frn] = PathIn(D, rec.frn), Applies(rec)
    PROVE  Exact(rows', dirs', E)
<1>1. PICK f, old, new : f = rec.frn /\ old = PathIn(D, f) /\ new = PathIn(E, f)
  OBVIOUS
<1>2. /\ Whole(D) /\ Whole(E) /\ f \in DOMAIN D /\ f \in DOMAIN E /\ DOMAIN E = DOMAIN D
      /\ \A g \in DOMAIN D : HiddenIn(E, g) = HiddenIn(D, g)
      /\ \A g \in DOMAIN D : E[g].folder = D[g].folder
  BY <1>1 DEF Good, ToMove
<1>3. /\ rec.parent = E[f].parent /\ rec.name = E[f].name /\ rec.folder = E[f].folder /\ rec.hidden = E[f].hidden
      /\ rec.reasons = {"new name", "close"}
  <2>1. Copies(rec, f, E[f], {"new name", "close"})
    BY <1>1, MoveIs
  <2> QED
    BY <2>1 DEF Copies
<1>4. FoldersOf(E) = FoldersOf(D) /\ DOMAIN dirs = FoldersOf(D) /\ \A d \in DOMAIN dirs : dirs[d] = At(D)[d]
  BY <1>2 DEF FoldersOf, Exact
<1>5. \A g \in DOMAIN D :
         /\ Within(PathIn(D, g), old) => PathIn(E, g) = Rebased(PathIn(D, g), old, new)
         /\ ~Within(PathIn(D, g), old) => PathIn(E, g) = PathIn(D, g)
  BY <1>1, MovedPaths
<1>6. E[f].parent # Root => ~Within(PathIn(D, E[f].parent), old)
  BY <1>1, MoveIsClear
<1>7. PICK e : e = rec.parent
  OBVIOUS
<1>8. e = Root \/ (e \in DOMAIN dirs /\ e \in DOMAIN D /\ dirs[e].path = PathIn(E, e) /\ dirs[e].hidden = HiddenIn(E, e))
  <2> SUFFICES ASSUME e # Root
               PROVE  e \in DOMAIN dirs /\ e \in DOMAIN D /\ dirs[e].path = PathIn(E, e)
                      /\ dirs[e].hidden = HiddenIn(E, e)
    OBVIOUS
  <2>1. e \in FoldersOf(E) /\ e \in DOMAIN D
    BY <1>2, <1>3, <1>7, PathIs
  <2>2. e \in DOMAIN dirs /\ dirs[e].path = PathIn(D, e) /\ dirs[e].hidden = HiddenIn(D, e)
    BY <1>4, <2>1 DEF PathIn, HiddenIn
  <2>3. PathIn(E, e) = PathIn(D, e)
    BY <1>3, <1>5, <1>6, <1>7, <2>1
  <2> QED
    BY <1>2, <2>1, <2>2, <2>3
<1>9. Resolves(rec) /\ PathOf(rec) = new
  <2>1. CASE e = Root
    <3>1. new = <<E[f].name>>
      BY <1>1, <1>2, <1>3, <1>7, <2>1, PathIs
    <3> QED
      BY <1>3, <1>7, <2>1, <3>1 DEF Resolves, PathOf
  <2>2. CASE e # Root
    <3>1. new = Append(PathIn(E, e), E[f].name)
      BY <1>1, <1>2, <1>3, <1>7, <2>2, PathIs
    <3> QED
      BY <1>3, <1>7, <1>8, <2>2, <3>1 DEF Resolves, PathOf
  <2> QED
    BY <2>1, <2>2
<1>10. EffectiveHidden(rec) = HiddenIn(E, f)
  <2>0. rec.hidden \in BOOLEAN
    BY <1>2, <1>3, FolderIs
  <2>1. CASE e = Root
    <3>1. PICK own : own = HiddenIn(E, f)
      OBVIOUS
    <3>2. own \in BOOLEAN /\ own = E[f].hidden
      <4>1. Whole(E) /\ f \in DOMAIN E /\ E[f].parent = Root
        BY <1>2, <1>3, <1>7, <2>1
      <4>2. HiddenIn(E, f) \in BOOLEAN
        BY <4>1, PathIs
      <4>3. HiddenIn(E, f) = E[f].hidden
        BY <4>1, PathIs
      <4> QED
        BY <3>1, <4>2, <4>3
    <3>3. rec.hidden = own /\ rec.parent = Root
      BY <1>3, <1>7, <2>1, <3>2
    <3>4. EffectiveHidden(rec) = own
      BY <3>2, <3>3, HiddenAtRoot
    <3> QED
      BY <3>1, <3>4
  <2>2. CASE e # Root
    <3>1. HiddenIn(E, f) = Either(HiddenIn(E, e), E[f].hidden) /\ HiddenIn(E, e) \in BOOLEAN
      <4>1. HiddenIn(E, f) = Either(HiddenIn(E, e), E[f].hidden) /\ e \in DOMAIN E
        BY <1>2, <1>3, <1>7, <2>2, PathIs
      <4> QED
        BY <1>2, <4>1, PathIs
    <3> QED
      <4>1. rec.parent # Root /\ dirs[rec.parent].hidden \in BOOLEAN /\ dirs[rec.parent].hidden = HiddenIn(E, e)
        BY <1>7, <1>8, <2>2, <3>1
      <4>2. EffectiveHidden(rec) = Either(dirs[rec.parent].hidden, rec.hidden)
        BY <2>0, <4>1, HiddenOf
      <4> QED
        BY <1>3, <3>1, <4>1, <4>2
  <2> QED
    BY <2>1, <2>2
<1>11. DirOf(rec) = At(E)[f]
  <2>1. At(E)[f] \in Spots
    BY <1>2, PathIs
  <2>2. At(E)[f] = [path |-> PathIn(E, f), hidden |-> HiddenIn(E, f)]
    BY <2>1 DEF Spots, PathIn, HiddenIn
  <2> QED
    BY <1>1, <1>9, <1>10, <2>2 DEF DirOf
<1>12. ApplyRename(rec)
  BY <1>3, <1>9 DEF Applies
<1>13. rows' = Rename(rows, old, new, build) /\ dirs' = IF rec.folder THEN RewriteDirSubtree(old, rec) ELSE dirs
  BY <1>1, <1>9, <1>12 DEF ApplyRename
<1>14. DOMAIN rows' \subseteq Named /\ \A p \in Named : Matches(rows', E, p)
  BY <1>1, <1>13, RenamedRows DEF Exact
<1>15. DOMAIN dirs' = FoldersOf(E) /\ \A d \in DOMAIN dirs' : dirs'[d] = At(E)[d]
  BY <1>1, <1>4, <1>9, <1>11, <1>13, RewrittenDirs
<1> QED
  BY <1>14, <1>15 DEF Exact
--------------------------------------------------------------------------------
(* The journal as what happened to the volume since: h[i] is the volume after i records. *)

\* A move is told by three records; only the last makes a difference.
OldName(D, rec, E) == E = D /\ rec.frn \in DOMAIN D /\ Copies(rec, rec.frn, D[rec.frn], {"old name"})

\* The record before, which may have been applied, was of the same move.
Heard(js, pd, h, i, last) ==
    IF i = 1 THEN js[1].frn \in DOMAIN pd /\ pd[js[1].frn] = PathIn(h[0], js[1].frn)
    ELSE js[i - 1].frn = js[i].frn /\ js[i - 1].reasons = {last}

Happens(js, pd, h, i) ==
    \/ Plain(h[i - 1], js[i], h[i])
    \/ OldName(h[i - 1], js[i], h[i])
    \/ h[i] = h[i - 1] /\ js[i].reasons = {"new name"} /\ Heard(js, pd, h, i, "old name")
    \/ ToMove(h[i - 1], js[i], h[i]) /\ Heard(js, pd, h, i, "new name")

Story(js, pd, h, w, U) ==
    /\ \A i \in 0..Len(js) : Good(h[i])
    /\ w \in 0..Len(js) /\ Window(js, h, w, U)
    /\ \A i \in (w + 1)..Len(js) : Happens(js, pd, h, i)

\* Rows and map are behind by records that tell how the volume came to be what it is.
Kept(rs, ds, pd, js, D) ==
    \E h, w, U : Story(js, pd, h, w, U) /\ h[Len(js)] = D /\ Behind(rs, ds, js, h, w, U)

LEMMA NameReasons ==
    ASSUME NEW reasons
    PROVE  /\ reasons = {"old name"} => "close" \notin reasons /\ reasons # {"new name"} /\ "old name" \in reasons
           /\ reasons = {"new name"} => "close" \notin reasons /\ reasons # {"old name"} /\ "old name" \notin reasons
           /\ reasons = {"new name", "close"} => "close" \in reasons
<1>1. "old name" # "new name" /\ "close" # "old name" /\ "close" # "new name"
  OBVIOUS
<1>2. CASE reasons = {"old name"}
  BY <1>1, <1>2
<1>3. CASE reasons = {"new name"}
  BY <1>1, <1>3
<1>4. reasons = {"new name", "close"} => "close" \in reasons
  OBVIOUS
<1> QED
  BY <1>2, <1>3, <1>4

\* The first record of a move leaves the old path for the last.
LEMMA OldNameApplied ==
    ASSUME NEW D, Good(D), NEW rec, NEW E, OldName(D, rec, E), Exact(rows, dirs, D), Applies(rec)
    PROVE  /\ rows' = rows /\ dirs' = dirs
           /\ rec.frn \in DOMAIN pending' /\ pending'[rec.frn] = PathIn(D, rec.frn)
<1>1. PICK f : f = rec.frn
  OBVIOUS
<1>2. Copies(rec, f, D[f], {"old name"}) /\ f \in DOMAIN D /\ Whole(D)
  BY <1>1 DEF OldName, Good
<1>3. rec.parent = D[f].parent /\ rec.name = D[f].name /\ rec.reasons = {"old name"}
  BY <1>2 DEF Copies
<1>4. rec.parent = Root => Resolves(rec) /\ PathOf(rec) = PathIn(D, f)
  <2> SUFFICES ASSUME rec.parent = Root PROVE Resolves(rec) /\ PathOf(rec) = PathIn(D, f)
    OBVIOUS
  <2>1. PathIn(D, f) = <<D[f].name>>
    BY <1>2, <1>3, PathIs
  <2> QED
    BY <1>3, <2>1 DEF Resolves, PathOf
<1>5. rec.parent # Root => Resolves(rec) /\ PathOf(rec) = PathIn(D, f)
  <2> SUFFICES ASSUME rec.parent # Root PROVE Resolves(rec) /\ PathOf(rec) = PathIn(D, f)
    OBVIOUS
  <2>1. rec.parent \in FoldersOf(D) /\ PathIn(D, f) = Append(PathIn(D, rec.parent), D[f].name)
    BY <1>2, <1>3, PathIs
  <2>2. rec.parent \in DOMAIN dirs /\ dirs[rec.parent].path = PathIn(D, rec.parent)
    BY <2>1 DEF Exact, PathIn
  <2> QED
    BY <1>3, <2>1, <2>2 DEF Resolves, PathOf
<1>6. "old name" \in rec.reasons /\ "close" \notin rec.reasons
  BY <1>3
<1>7. pending' = With(pending, rec.frn, PathOf(rec)) /\ UNCHANGED <<rows, dirs>>
  BY <1>4, <1>5, <1>6 DEF Applies
<1>8. rec.frn \in DOMAIN pending' /\ pending'[rec.frn] = PathOf(rec)
  BY <1>7 DEF With
<1> QED
  BY <1>1, <1>4, <1>5, <1>7, <1>8

LEMMA NewNameApplied ==
    ASSUME NEW rec, rec.reasons = {"new name"}, Applies(rec)
    PROVE  rows' = rows /\ dirs' = dirs /\ pending' = pending
<1>1. "old name" \notin rec.reasons /\ "close" \notin rec.reasons
  OBVIOUS
<1> QED
  BY <1>1 DEF Applies

\* The first record is applied to rows and map that are exact.
LEMMA FirstApplied ==
    ASSUME NEW js, NEW h, Good(h[0]), Good(h[1]), Happens(js, pending, h, 1), RowsTypeOK(rows), Exact(rows, dirs, h[0]),
           Applies(js[1])
    PROVE  /\ Exact(rows', dirs', h[1])
           /\ js[1].reasons = {"old name"} \/ js[1].reasons = {"new name"}
              => js[1].frn \in DOMAIN pending' /\ pending'[js[1].frn] = PathIn(h[1], js[1].frn)
<1>0. 1 - 1 = 0 /\ h[1 - 1] = h[0]
  OBVIOUS
<1>1. CASE Plain(h[0], js[1], h[1])
  <2>1. "close" \in js[1].reasons
    BY <1>1, PlainAbout
  <2>2. ~(js[1].reasons = {"old name"} \/ js[1].reasons = {"new name"})
    BY <2>1, NameReasons
  <2> QED
    BY <1>1, <2>2, PlainExact
<1>2. CASE OldName(h[0], js[1], h[1])
  <2>1. h[1] = h[0]
    BY <1>2 DEF OldName
  <2> QED
    BY <1>2, <2>1, OldNameApplied
<1>3. CASE h[1] = h[0] /\ js[1].reasons = {"new name"} /\ Heard(js, pending, h, 1, "old name")
  <2>1. rows' = rows /\ dirs' = dirs /\ pending' = pending
    BY <1>3, NewNameApplied
  <2>2. js[1].frn \in DOMAIN pending /\ pending[js[1].frn] = PathIn(h[0], js[1].frn)
    BY <1>3 DEF Heard
  <2> QED
    BY <1>3, <2>1, <2>2
<1>4. CASE ToMove(h[0], js[1], h[1]) /\ Heard(js, pending, h, 1, "new name")
  <2>1. js[1].frn \in DOMAIN pending /\ pending[js[1].frn] = PathIn(h[0], js[1].frn)
    BY <1>4 DEF Heard
  <2>2. Copies(js[1], js[1].frn, h[1][js[1].frn], {"new name", "close"})
    BY <1>4, MoveIs
  <2>3. ~(js[1].reasons = {"old name"} \/ js[1].reasons = {"new name"})
    BY <2>2, NameReasons DEF Copies
  <2> QED
    BY <1>4, <2>1, <2>3, MoveExact
<1> QED
  BY <1>0, <1>1, <1>2, <1>3, <1>4 DEF Happens

LEMMA ExactAt ==
    ASSUME NEW D, Good(D), NEW rs, NEW ds, Exact(rs, ds, D), NEW js, NEW k, k[0] = D
    PROVE  Window(js, k, 0, D) /\ Behind(rs, ds, js, k, 0, D)
<1>0. Whole(D) /\ 0..0 = {0} /\ \A i : ~(i \in 1..0)
  BY DEF Good
<1>1. \A f, g \in FoldersOf(D) : PathIn(D, f) = PathIn(D, g) => f = g
  BY OneAtAPath DEF FoldersOf
<1>2. Window(js, k, 0, D)
  BY <1>0, <1>1, AlikeItself DEF Window
<1>3. RowsTell(rs, js, k, 0, D) /\ DirsHold(ds, k, 0)
  BY DEF RowsTell, DirsHold, Exact
<1>4. RowsHang(rs, ds)
  BY <1>0, ExactHangs
<1>5. DirsTrue(ds, js, k, 0, D)
  <2> SUFFICES ASSUME NEW d \in DOMAIN ds
               PROVE  /\ d \in FoldersOf(D) /\ ds[d] = At(D)[d] /\ d \in DOMAIN k[0]
                      /\ D[d].parent = Root \/ D[d].parent \in DOMAIN ds
    BY DEF DirsTrue
  <2>1. d \in FoldersOf(D) /\ ds[d] = At(D)[d] /\ d \in DOMAIN D
    BY DEF Exact, FoldersOf
  <2>2. D[d].parent # Root => D[d].parent \in FoldersOf(D)
    BY <1>0, <2>1, PathIs
  <2> QED
    BY <2>1, <2>2 DEF Exact
<1> QED
  BY <1>2, <1>3, <1>4, <1>5 DEF Behind

\* What the last record but one of a move leaves for the last.
Spoken(rec, pd, D) == rec.reasons = {"old name"} \/ rec.reasons = {"new name"}
                      => rec.frn \in DOMAIN pd /\ pd[rec.frn] = PathIn(D, rec.frn)

\* What happens later happens one record sooner.
LEMMA HappensOn ==
    ASSUME NEW n \in Nat, n # 0, NEW js, NEW h, NEW js2, NEW k, Shifted(js2, k, js, h, n), NEW i \in 1..(n - 1),
           NEW pd, Happens(js, pd, h, i + 1), NEW pd2, Spoken(js[1], pd2, h[1])
    PROVE  Happens(js2, pd2, k, i)
<1>1. /\ k[i - 1] = h[i] /\ k[i] = h[i + 1] /\ js2[i] = js[i + 1] /\ (i + 1) - 1 = i /\ i + 1 # 1
      /\ k[0] = h[1]
  <2>1. i \in 1..(n - 1) /\ i - 1 \in 0..(n - 1) /\ i \in 0..(n - 1) /\ 0 \in 0..(n - 1) /\ (i - 1) + 1 = i /\ 0 + 1 = 1
    OBVIOUS
  <2>2. k[i - 1] = h[(i - 1) + 1] /\ k[i] = h[i + 1] /\ k[0] = h[0 + 1] /\ js2[i] = js[i + 1]
    BY <2>1 DEF Shifted
  <2> QED
    BY <2>1, <2>2
<1>2. i # 1 => js2[i - 1] = js[i]
  <2> SUFFICES ASSUME i # 1 PROVE js2[i - 1] = js[i]
    OBVIOUS
  <2>1. i - 1 \in 1..(n - 1) /\ (i - 1) + 1 = i
    OBVIOUS
  <2>2. js2[i - 1] = js[(i - 1) + 1]
    BY <2>1 DEF Shifted
  <2> QED
    BY <2>1, <2>2
<1>3. ASSUME NEW last \in {"old name", "new name"}, Heard(js, pd, h, i + 1, last)
      PROVE  Heard(js2, pd2, k, i, last)
  <2>1. js[i].frn = js[i + 1].frn /\ js[i].reasons = {last}
    BY <1>1, <1>3 DEF Heard
  <2>2. CASE i = 1
    <3>1. js[1].frn = js2[1].frn /\ js[1].reasons = {last}
      BY <1>1, <2>1, <2>2
    <3>2. js[1].frn \in DOMAIN pd2 /\ pd2[js[1].frn] = PathIn(h[1], js[1].frn)
      BY <3>1, <1>3 DEF Spoken
    <3> QED
      BY <1>1, <2>2, <3>1, <3>2 DEF Heard
  <2>3. CASE i # 1
    BY <1>1, <1>2, <2>1, <2>3 DEF Heard
  <2> QED
    BY <2>2, <2>3
<1>4. \/ Plain(h[i], js[i + 1], h[i + 1])
      \/ OldName(h[i], js[i + 1], h[i + 1])
      \/ h[i + 1] = h[i] /\ js[i + 1].reasons = {"new name"} /\ Heard(js, pd, h, i + 1, "old name")
      \/ ToMove(h[i], js[i + 1], h[i + 1]) /\ Heard(js, pd, h, i + 1, "new name")
  BY <1>1 DEF Happens
<1>5. \/ Plain(k[i - 1], js2[i], k[i])
      \/ OldName(k[i - 1], js2[i], k[i])
      \/ k[i] = k[i - 1] /\ js2[i].reasons = {"new name"} /\ Heard(js2, pd2, k, i, "old name")
      \/ ToMove(k[i - 1], js2[i], k[i]) /\ Heard(js2, pd2, k, i, "new name")
  BY <1>1, <1>3, <1>4
<1> QED
  BY <1>5 DEF Happens

LEMMA StoryOn ==
    ASSUME NEW n \in Nat, n # 0, NEW js, Len(js) = n, NEW h, NEW js2, Len(js2) = n - 1, NEW k,
           Shifted(js2, k, js, h, n), NEW w, NEW U, NEW pd, Story(js, pd, h, w, U),
           NEW pd2, Spoken(js[1], pd2, h[1]), NEW v, NEW V, v \in {0, w - 1}, v \in Nat, Window(js2, k, v, V),
           v + 1 >= w
    PROVE  Story(js2, pd2, k, v, V)
<1>1. /\ \A i \in 0..n : Good(h[i])
      /\ w \in 0..n
      /\ \A i \in (w + 1)..n : Happens(js, pd, h, i)
  BY DEF Story
<1>2. ASSUME NEW i \in 0..(n - 1) PROVE Good(k[i])
  <2>1. i + 1 \in 0..n /\ k[i] = h[i + 1]
    BY DEF Shifted
  <2> QED
    BY <1>1, <2>1
<1>3. v \in 0..(n - 1)
  BY <1>1
<1>4. ASSUME NEW i \in (v + 1)..(n - 1) PROVE Happens(js2, pd2, k, i)
  <2>1. i \in 1..(n - 1) /\ i + 1 \in (w + 1)..n
    BY <1>1
  <2>2. Happens(js, pd, h, i + 1)
    BY <1>1, <2>1
  <2> QED
    BY <2>1, <2>2, HappensOn
<1> QED
  BY <1>2, <1>3, <1>4 DEF Story

\* The tail applies the first record of the journal.
LEMMA TailStep ==
    ASSUME NEW js, NEW n \in Nat, n # 0, Len(js) = n, NEW js2, Len(js2) = n - 1,
           \A i \in 1..(n - 1) : js2[i] = js[i + 1],
           NEW D, Kept(rows, dirs, pending, js, D), RowsTypeOK(rows), Applies(js[1])
    PROVE  Kept(rows', dirs', pending', js2, D)
<1>1. PICK h, w, U : Story(js, pending, h, w, U) /\ h[Len(js)] = D /\ Behind(rows, dirs, js, h, w, U)
  BY DEF Kept
<1>2. PICK k : k = [i \in Nat |-> h[i + 1]]
  OBVIOUS
<1>3. Shifted(js2, k, js, h, n) /\ k[n - 1] = h[n]
  BY <1>2 DEF Shifted
<1>4. Window(js, h, w, U) /\ w \in 0..n /\ Good(h[0]) /\ Good(h[1])
  BY <1>1 DEF Story
<1>5. CASE w # 0
  <2>1. Shifted(js2, k, js, h, w)
    BY <1>3, <1>4 DEF Shifted
  <2>2. Window(js2, k, w - 1, U) /\ Behind(rows', dirs', js2, k, w - 1, U)
    BY <1>1, <1>4, <1>5, <2>1, BehindOn
  <2>3. "close" \in js[1].reasons
    BY <1>4, <1>5, FirstPlain, PlainAbout
  <2>4. Spoken(js[1], pending', h[1])
    BY <2>3, NameReasons DEF Spoken
  <2>5. w - 1 \in Nat /\ (w - 1) + 1 >= w
    BY <1>4, <1>5
  <2>6. Story(js2, pending', k, w - 1, U)
    BY <1>1, <1>3, <2>2, <2>4, <2>5, StoryOn
  <2> QED
    BY <1>1, <1>3, <2>2, <2>6 DEF Kept
<1>6. CASE w = 0
  <2>1. Exact(rows, dirs, h[0])
    BY <1>1, <1>4, <1>6, ExactIs
  <2>2. Happens(js, pending, h, 1)
    <3>1. 1 \in (w + 1)..Len(js)
      BY <1>6
    <3> QED
      BY <1>1, <3>1 DEF Story
  <2>3. Exact(rows', dirs', h[1]) /\ Spoken(js[1], pending', h[1])
    BY <1>4, <2>1, <2>2, FirstApplied DEF Spoken
  <2>4. k[0] = h[1]
    BY <1>2
  <2>5. Window(js2, k, 0, h[1]) /\ Behind(rows', dirs', js2, k, 0, h[1])
    BY <1>4, <2>3, <2>4, ExactAt
  <2>6. Story(js2, pending', k, 0, h[1])
    BY <1>1, <1>3, <1>6, <2>3, <2>5, StoryOn
  <2> QED
    BY <1>1, <1>3, <2>5, <2>6 DEF Kept
<1> QED
  BY <1>5, <1>6

\* A record more at the end of the journal.
Longer(js2, js, n) == Len(js) = n /\ Len(js2) = n + 1 /\ \A i \in 1..n : js2[i] = js[i]

LEMMA HappensStill ==
    ASSUME NEW n \in Nat, NEW js, NEW js2, Longer(js2, js, n), NEW h, NEW h2, \A i \in 0..n : h2[i] = h[i],
           NEW pd, NEW i \in 1..n, Happens(js, pd, h, i)
    PROVE  Happens(js2, pd, h2, i)
<1>1. h2[i - 1] = h[i - 1] /\ h2[i] = h[i] /\ js2[i] = js[i] /\ h2[0] = h[0]
  BY DEF Longer
<1>2. i # 1 => js2[i - 1] = js[i - 1]
  <2> SUFFICES ASSUME i # 1 PROVE js2[i - 1] = js[i - 1]
    OBVIOUS
  <2>1. i - 1 \in 1..n
    OBVIOUS
  <2> QED
    BY <2>1 DEF Longer
<1>3. ASSUME NEW last, Heard(js, pd, h, i, last) PROVE Heard(js2, pd, h2, i, last)
  <2>1. CASE i = 1
    <3>1. js2[1].frn = js[1].frn
      BY <1>1, <2>1
    <3> QED
      BY <1>1, <1>3, <2>1, <3>1 DEF Heard
  <2>2. CASE i # 1
    BY <1>1, <1>2, <1>3, <2>2 DEF Heard
  <2> QED
    BY <2>1, <2>2
<1> QED
  BY <1>1, <1>3 DEF Happens

LEMMA WindowStill ==
    ASSUME NEW w \in Nat, NEW js, NEW js2, \A i \in 1..w : js2[i] = js[i], NEW h, NEW h2, \A i \in 0..w : h2[i] = h[i],
           NEW U, Window(js, h, w, U)
    PROVE  Window(js2, h2, w, U)
<1>1. /\ Whole(U)
      /\ \A i \in 0..w : Good(h[i]) /\ PartOf(h[i], U)
      /\ \A i \in 1..w : Plain(h[i - 1], js[i], h[i])
      /\ \A i, j, l \in 0..w : i <= j /\ j <= l => DOMAIN h[i] \intersect DOMAIN h[l] \subseteq DOMAIN h[j]
      /\ \A f, g \in FoldersOf(U) : PathIn(U, f) = PathIn(U, g) => f = g
  BY DEF Window
<1>2. \A i \in 0..w : Good(h2[i]) /\ PartOf(h2[i], U)
  BY <1>1
<1>3. ASSUME NEW i \in 1..w PROVE Plain(h2[i - 1], js2[i], h2[i])
  <2>1. i - 1 \in 0..w /\ i \in 0..w
    OBVIOUS
  <2>2. h2[i - 1] = h[i - 1] /\ h2[i] = h[i] /\ js2[i] = js[i]
    BY <2>1
  <2> QED
    BY <1>1, <2>2
<1>4. \A i, j, l \in 0..w : i <= j /\ j <= l => DOMAIN h2[i] \intersect DOMAIN h2[l] \subseteq DOMAIN h2[j]
  BY <1>1
<1> QED
  BY <1>1, <1>2, <1>3, <1>4 DEF Window

LEMMA BehindStill ==
    ASSUME NEW w \in Nat, NEW js, NEW js2, \A i \in 1..w : js2[i] = js[i], NEW h, NEW h2, \A i \in 0..w : h2[i] = h[i],
           NEW U, NEW rs, NEW ds, Behind(rs, ds, js, h, w, U)
    PROVE  Behind(rs, ds, js2, h2, w, U)
<1>1. h2[0] = h[0] /\ h2[w] = h[w]
  OBVIOUS
<1>2. RowsTell(rs, js2, h2, w, U)
  <2>1. \A p : Told(js2, w, U, p) <=> Told(js, w, U, p)
    BY DEF Told
  <2> QED
    BY <1>1, <2>1 DEF Behind, RowsTell
<1>3. DirsHold(ds, h2, w)
  BY <1>1 DEF Behind, DirsHold
<1>4. DirsTrue(ds, js2, h2, w, U)
  BY <1>1 DEF Behind, DirsTrue
<1> QED
  BY <1>2, <1>3, <1>4 DEF Behind

\* What is kept stays so when one thing more happens.
LEMMA KeptPlus ==
    ASSUME NEW n \in Nat, NEW js, NEW js2, Longer(js2, js, n), NEW rs, NEW ds, NEW pd, NEW D, Kept(rs, ds, pd, js, D),
           NEW E, Good(E), \A h : h[n] = D /\ h[n + 1] = E => Happens(js2, pd, h, n + 1)
    PROVE  Kept(rs, ds, pd, js2, E)
<1>1. PICK h, w, U : Story(js, pd, h, w, U) /\ h[Len(js)] = D /\ Behind(rs, ds, js, h, w, U)
  BY DEF Kept
<1>2. Len(js) = n /\ Len(js2) = n + 1 /\ \A i \in 1..n : js2[i] = js[i]
  BY DEF Longer
<1>3. /\ \A i \in 0..n : Good(h[i])
      /\ w \in 0..n /\ Window(js, h, w, U)
      /\ \A i \in (w + 1)..n : Happens(js, pd, h, i)
  BY <1>1, <1>2 DEF Story
<1>4. PICK h2 : h2 = [i \in 0..(n + 1) |-> IF i = n + 1 THEN E ELSE h[i]]
  OBVIOUS
<1>5. h2[n + 1] = E /\ \A i \in 0..n : h2[i] = h[i]
  BY <1>4
<1>6. w \in Nat /\ (\A i \in 1..w : js2[i] = js[i]) /\ (\A i \in 0..w : h2[i] = h[i])
  BY <1>2, <1>3, <1>5
<1>7. Window(js2, h2, w, U) /\ Behind(rs, ds, js2, h2, w, U)
  BY <1>1, <1>3, <1>6, WindowStill, BehindStill
<1>8. \A i \in 0..(n + 1) : Good(h2[i])
  BY <1>3, <1>5
<1>9. ASSUME NEW i \in (w + 1)..(n + 1) PROVE Happens(js2, pd, h2, i)
  <2>1. CASE i = n + 1
    <3>1. h2[n] = D
      BY <1>1, <1>2, <1>5
    <3> QED
      BY <1>5, <2>1, <3>1
  <2>2. CASE i # n + 1
    <3>1. i \in 1..n /\ i \in (w + 1)..n
      BY <1>3, <2>2
    <3>2. Happens(js, pd, h, i)
      BY <1>3, <3>1
    <3> QED
      BY <1>5, <3>1, <3>2, HappensStill
  <2> QED
    BY <2>1, <2>2
<1>10. Story(js2, pd, h2, w, U)
  BY <1>2, <1>3, <1>7, <1>8, <1>9 DEF Story
<1> QED
  BY <1>2, <1>5, <1>7, <1>10 DEF Kept

LEMMA KeptPlain ==
    ASSUME NEW n \in Nat, NEW js, NEW js2, Longer(js2, js, n), NEW rs, NEW ds, NEW pd, NEW D, Kept(rs, ds, pd, js, D),
           NEW E, Good(E), Plain(D, js2[n + 1], E)
    PROVE  Kept(rs, ds, pd, js2, E)
<1>1. ASSUME NEW h, h[n] = D, h[n + 1] = E PROVE Happens(js2, pd, h, n + 1)
  <2>1. (n + 1) - 1 = n
    OBVIOUS
  <2> QED
    BY <1>1, <2>1 DEF Happens
<1> QED
  BY <1>1, KeptPlus

\* The three records of a move.
MoveTold(D, a, b, c, E) ==
    /\ OldName(D, a, D) /\ a.reasons = {"old name"}
    /\ b.frn = a.frn /\ b.reasons = {"new name"}
    /\ c.frn = b.frn /\ ToMove(D, c, E)

LEMMA KeptMove ==
    ASSUME NEW n \in Nat, NEW js, NEW js2, Len(js) = n, Len(js2) = n + 3, \A i \in 1..n : js2[i] = js[i],
           NEW rs, NEW ds, NEW pd, NEW D, Kept(rs, ds, pd, js, D), Good(D),
           NEW E, Good(E), MoveTold(D, js2[n + 1], js2[n + 2], js2[n + 3], E)
    PROVE  Kept(rs, ds, pd, js2, E)
<1>1. PICK a : a = [i \in 1..(n + 1) |-> js2[i]]
  OBVIOUS
<1>2. PICK b : b = [i \in 1..(n + 2) |-> js2[i]]
  OBVIOUS
<1>3. Len(a) = n + 1 /\ a[n + 1] = js2[n + 1] /\ \A i \in 1..n : a[i] = js[i]
  BY <1>1
<1>4. Len(b) = n + 2 /\ b[n + 2] = js2[n + 2] /\ b[n + 1] = js2[n + 1] /\ \A i \in 1..(n + 1) : b[i] = a[i]
  BY <1>1, <1>2
<1>5. Longer(a, js, n) /\ Longer(b, a, n + 1) /\ Longer(js2, b, n + 2)
  <2>1. (n + 1) + 1 = n + 2 /\ (n + 2) + 1 = n + 3
    OBVIOUS
  <2>2. \A i \in 1..(n + 2) : js2[i] = b[i]
    BY <1>2
  <2> QED
    BY <1>3, <1>4, <2>1, <2>2 DEF Longer
<1>6. Kept(rs, ds, pd, a, D)
  <2>1. ASSUME NEW h, h[n] = D, h[n + 1] = D PROVE Happens(a, pd, h, n + 1)
    <3>1. (n + 1) - 1 = n
      OBVIOUS
    <3>2. OldName(D, a[n + 1], D)
      BY <1>3 DEF MoveTold
    <3> QED
      BY <2>1, <3>1, <3>2 DEF Happens
  <2> QED
    BY <1>5, <2>1, KeptPlus
<1>7. Kept(rs, ds, pd, b, D)
  <2>1. ASSUME NEW h, h[n + 1] = D, h[(n + 1) + 1] = D PROVE Happens(b, pd, h, (n + 1) + 1)
    <3>1. (n + 1) + 1 = n + 2 /\ (n + 2) - 1 = n + 1 /\ n + 2 # 1
      OBVIOUS
    <3>2. Heard(b, pd, h, n + 2, "old name")
      BY <1>3, <1>4, <3>1 DEF Heard, MoveTold
    <3>3. h[n + 2] = h[(n + 2) - 1] /\ b[n + 2].reasons = {"new name"}
      BY <1>4, <2>1, <3>1 DEF MoveTold
    <3>4. Happens(b, pd, h, n + 2)
      BY <3>2, <3>3 DEF Happens
    <3> QED
      BY <3>1, <3>4
  <2> QED
    BY <1>5, <1>6, <2>1, KeptPlus
<1>8. ASSUME NEW h, h[n + 2] = D, h[(n + 2) + 1] = E PROVE Happens(js2, pd, h, (n + 2) + 1)
  <2>1. (n + 2) + 1 = n + 3 /\ (n + 3) - 1 = n + 2 /\ n + 3 # 1
    OBVIOUS
  <2>2. Heard(js2, pd, h, n + 3, "new name")
    BY <2>1 DEF Heard, MoveTold
  <2>3. ToMove(h[(n + 3) - 1], js2[n + 3], h[n + 3])
    BY <1>8, <2>1 DEF MoveTold
  <2>4. Happens(js2, pd, h, n + 3)
    BY <2>2, <2>3 DEF Happens
  <2> QED
    BY <2>1, <2>4
<1> QED
  BY <1>5, <1>7, <1>8, KeptPlus
--------------------------------------------------------------------------------
(* What programs do, as records of the journal. *)

Tells(rec) == Plain(disk, rec, disk') /\ Journals(<<rec>>) /\ Good(disk') /\ DOMAIN handles' = {}

\* A folder's path is given up, and no folder comes to one that was.
Leaves == /\ left \subseteq left'
          /\ \A g \in FoldersOf(disk) : g \notin DOMAIN disk' => PathIn(disk, g) \in left'
          /\ \A g \in FoldersOf(disk') : g \notin DOMAIN disk => PathIn(disk', g) \notin left

LEMMA NoHandles ==
    ASSUME DOMAIN handles = {}, NEW f
    PROVE  /\ HeldReasons(f) = {}
           /\ DOMAIN Without(handles, {f}) = {}
           /\ \A node, reasons : Closing(f, node, reasons, FALSE)
                 => DOMAIN handles' = {} /\ Journals(<<Record(f, node, reasons \union {"close"})>>)
<1>1. HeldReasons(f) = {}
  BY DEF HeldReasons
<1>2. DOMAIN Without(handles, {f}) = {}
  BY DEF Without, Restrict
<1>3. ASSUME NEW node, NEW reasons, Closing(f, node, reasons, FALSE)
      PROVE  DOMAIN handles' = {} /\ Journals(<<Record(f, node, reasons \union {"close"})>>)
  <2>1. HeldReasons(f) \union reasons = reasons
    BY <1>1
  <2>2. /\ handles' = Without(handles, {f})
        /\ Journals(<<Record(f, node, (HeldReasons(f) \union reasons) \union {"close"})>>)
    BY <1>3 DEF Closing
  <2> QED
    BY <1>2, <2>1, <2>2
<1> QED
  BY <1>1, <1>2, <1>3

LEMMA NothingKept == Habits \subseteq {"hides"} => Keeps = {FALSE}
BY DEF Keeps

LEMMA ChangedIs ==
    ASSUME Habits \subseteq {"hides"}, Good(disk), NEW E, Table(E), NEW f, Changed(E, f)
    PROVE  /\ disk' = E /\ Whole(E)
           /\ \A g \in DOMAIN E : g \in DOMAIN disk => HiddenIn(E, g) = HiddenIn(disk, g)
           /\ left \subseteq left'
           /\ f \in FoldersOf(disk) => PathIn(disk, f) \in left'
           /\ \A g \in FoldersOf(E) : g \notin DOMAIN disk => PathIn(E, g) \notin left
<1>1. /\ disk' = E /\ DOMAIN At(E) = DOMAIN E
      /\ \A g \in DOMAIN E \intersect DOMAIN disk : At(E)[g].hidden = OnDisk[g].hidden
      /\ \/ "reuses folder path" \in Habits
         \/ {At(E)[g].path : g \in {h \in FoldersOf(E) \intersect DOMAIN At(E) :
                                       h \notin DOMAIN disk \/ OnDisk[h].path # At(E)[h].path}} \intersect left = {}
      /\ left' = left \union {OnDisk[g].path : g \in {h \in DOMAIN disk :
                       f \in DOMAIN disk /\ Within(OnDisk[h].path, OnDisk[f].path)} \intersect FoldersOf(disk)}
  BY DEF Changed, At
<1>2. "reuses folder path" \notin Habits /\ OnDisk = At(disk)
  BY DEF OnDisk, At
<1>3. \A g \in DOMAIN E : g \in DOMAIN disk => HiddenIn(E, g) = HiddenIn(disk, g)
  BY <1>1, <1>2 DEF HiddenIn
<1>4. f \in FoldersOf(disk) => PathIn(disk, f) \in left'
  <2> SUFFICES ASSUME f \in FoldersOf(disk) PROVE PathIn(disk, f) \in left'
    OBVIOUS
  <2>1. f \in DOMAIN disk
    BY DEF FoldersOf
  <2>2. PathIn(disk, f) \in Trails
    BY <2>1, PathIs DEF Good
  <2>3. Within(At(disk)[f].path, At(disk)[f].path)
    BY <2>2, WithinItself DEF PathIn
  <2> QED
    BY <1>1, <1>2, <2>1, <2>3 DEF PathIn
<1>5. ASSUME NEW g \in FoldersOf(E), g \notin DOMAIN disk PROVE PathIn(E, g) \notin left
  <2>1. g \in DOMAIN At(E)
    BY <1>1 DEF FoldersOf
  <2> QED
    BY <1>1, <1>2, <1>5, <2>1 DEF PathIn
<1> QED
  BY <1>1, <1>3, <1>4, <1>5 DEF Whole

LEMMA CreateTells ==
    ASSUME Habits \subseteq {"hides"}, DiskTyped, Good(disk), DOMAIN handles = {}, NEW f \in Files, NEW keep \in Keeps,
           Creates(f, keep)
    PROVE  /\ Leaves /\ f \notin DOMAIN disk
           /\ phase \in {"open", "reading"} => \A i \in DOMAIN journal : ~(journal[i].frn = f /\ "delete" \in journal[i].reasons)
           /\ \E rec : Tells(rec) /\ ToCreate(disk, rec, disk') /\ rec.frn = f
<1>1. keep = FALSE
  BY NothingKept
<1>2. PICK node \in Node : /\ FreeAt(node.parent, node.name)
                           /\ Changed(With(disk, f, node), f)
                           /\ Closing(f, node, {"create"}, FALSE)
  BY <1>1 DEF Creates
<1>3. /\ f \notin DOMAIN disk
      /\ phase \in {"open", "reading"}
         => \A i \in DOMAIN journal : ~(journal[i].frn = f /\ "delete" \in journal[i].reasons)
  BY DEF Creates
<1>4. PICK E : E = With(disk, f, node)
  OBVIOUS
<1>5. Table(E) /\ DOMAIN E = DOMAIN disk \union {f} /\ E[f] = node /\ \A g \in DOMAIN disk : E[g] = disk[g]
  BY <1>3, <1>4, WithTyped DEF DiskTyped, With
<1>6. /\ disk' = E /\ Whole(E)
      /\ left \subseteq left'
      /\ \A g \in FoldersOf(E) : g \notin DOMAIN disk => PathIn(E, g) \notin left
  BY <1>2, <1>4, <1>5, ChangedIs
<1>7. DOMAIN handles' = {} /\ Journals(<<Record(f, node, {"create"} \union {"close"})>>)
  BY <1>2, NoHandles
<1>8. PICK rec : rec = Record(f, node, {"create", "close"})
  OBVIOUS
<1>9. rec.frn = f /\ Journals(<<rec>>)
  <2>1. {"create"} \union {"close"} = {"create", "close"}
    OBVIOUS
  <2> QED
    BY <1>7, <1>8, <2>1, RecordIs
<1>10. ToCreate(disk, rec, E)
  BY <1>3, <1>5, <1>8, <1>9 DEF ToCreate
<1>11. Good(E)
  <2> SUFFICES ASSUME NEW x \in DOMAIN E, NEW y \in DOMAIN E, E[x].parent = E[y].parent, E[x].name = E[y].name
               PROVE  x = y
    BY <1>6 DEF Good
  <2>1. \A g \in DOMAIN disk : ~(disk[g].parent = node.parent /\ disk[g].name = node.name)
    BY <1>2 DEF FreeAt, ChildrenOf
  <2>2. \A g, h \in DOMAIN disk : disk[g].parent = disk[h].parent /\ disk[g].name = disk[h].name => g = h
    BY DEF Good
  <2> QED
    BY <1>5, <2>1, <2>2
<1>12. Leaves
  BY <1>5, <1>6 DEF Leaves, FoldersOf
<1>13. Tells(rec) /\ ToCreate(disk, rec, disk') /\ rec.frn = f
  BY <1>6, <1>7, <1>9, <1>10, <1>11 DEF Tells, Plain
<1> QED
  BY <1>3, <1>12, <1>13

LEMMA DeleteTells ==
    ASSUME Habits \subseteq {"hides"}, DiskTyped, Good(disk), DOMAIN handles = {}, NEW f \in Files, Deletes(f)
    PROVE  Leaves /\ DOMAIN disk' \subseteq DOMAIN disk /\ \E rec : Tells(rec)
<1>1. /\ f \in DOMAIN disk /\ \A g \in DOMAIN disk : disk[g].parent # f
      /\ Changed(Without(disk, {f}), f)
      /\ Closing(f, disk[f], {"delete"}, FALSE)
  BY DEF Deletes, ChildrenOf
<1>2. PICK E : E = Without(disk, {f})
  OBVIOUS
<1>3. DOMAIN E = DOMAIN disk \ {f} /\ \A g \in DOMAIN E : E[g] = disk[g]
  BY <1>2 DEF Without, Restrict
<1>4. Table(E)
  BY <1>3 DEF DiskTyped, Table
<1>5. /\ disk' = E /\ Whole(E)
      /\ left \subseteq left'
      /\ f \in FoldersOf(disk) => PathIn(disk, f) \in left'
  BY <1>1, <1>2, <1>4, ChangedIs
<1>6. DOMAIN handles' = {} /\ Journals(<<Record(f, disk[f], {"delete"} \union {"close"})>>)
  BY <1>1, NoHandles
<1>7. PICK rec : rec = Record(f, disk[f], {"delete", "close"})
  OBVIOUS
<1>8. rec.frn = f /\ Journals(<<rec>>)
  <2>1. {"delete"} \union {"close"} = {"delete", "close"}
    OBVIOUS
  <2> QED
    BY <1>6, <1>7, <2>1, RecordIs
<1>9. ToDelete(disk, rec, E)
  BY <1>1, <1>3, <1>7, <1>8 DEF ToDelete
<1>10. Good(E)
  BY <1>3, <1>5 DEF Good
<1>11. Leaves
  BY <1>3, <1>5 DEF Leaves, FoldersOf
<1>12. Tells(rec)
  BY <1>5, <1>6, <1>8, <1>9, <1>10 DEF Tells, Plain
<1> QED
  BY <1>3, <1>5, <1>11, <1>12

\* Where entries stay in the same folder under the same name, all keep a place.
LEMMA StaysWhole ==
    ASSUME NEW D, Whole(D), NEW E, Table(E), DOMAIN D \subseteq DOMAIN E,
           \A g \in DOMAIN D : E[g].parent = D[g].parent /\ E[g].name = D[g].name /\ E[g].folder = D[g].folder
    PROVE  DOMAIN D \subseteq DOMAIN At(E) /\ \A g \in DOMAIN D : PathIn(E, g) = PathIn(D, g)
<1>1. Table(D) /\ DOMAIN At(D) = DOMAIN D
  BY DEF Whole
<1>2. \A g \in DOMAIN D : /\ D[g].parent = E[g].parent /\ D[g].name = E[g].name
                          /\ D[g].parent = Root \/ (D[g].parent \in DOMAIN D /\ D[g].parent \in FoldersOf(E))
  <2> SUFFICES ASSUME NEW g \in DOMAIN D, D[g].parent # Root
               PROVE  D[g].parent \in DOMAIN D /\ D[g].parent \in FoldersOf(E)
    OBVIOUS
  <2>1. D[g].parent \in FoldersOf(D)
    BY PathIs
  <2> QED
    BY <2>1 DEF FoldersOf
<1>3. \A g \in DOMAIN D : g \in DOMAIN Resolved(E, FoldersOf(E))
                          /\ Resolved(E, FoldersOf(E))[g].path = Resolved(D, FoldersOf(D))[g].path
  <2> SUFFICES ASSUME NEW g \in DOMAIN D
               PROVE  g \in DOMAIN Resolved(E, FoldersOf(E))
                      /\ Resolved(E, FoldersOf(E))[g].path = Resolved(D, FoldersOf(D))[g].path
    OBVIOUS
  <2>1. g \in DOMAIN Resolved(D, FoldersOf(D))
    BY <1>1 DEF At
  <2> QED
    BY <1>1, <1>2, <2>1, SamePlaces
<1> QED
  BY <1>3 DEF At, PathIn

LEMMA HideTells ==
    ASSUME Habits \subseteq {"hides"}, DiskTyped, Good(disk), DOMAIN handles = {}, NEW f \in Files, Hides(f)
    PROVE  left' = left /\ DOMAIN disk' = DOMAIN disk /\ \E rec : Tells(rec)
<1>1. PICK node : /\ node = [disk[f] EXCEPT !.hidden = ~@]
                  /\ disk' = [disk EXCEPT ![f] = node]
                  /\ Closing(f, node, {"attributes"}, FALSE)
  BY DEF Hides
<1>2. f \in DOMAIN disk /\ left' = left /\ (disk[f].folder => "hides by place" \in Habits)
  BY DEF Hides
<1>3. disk[f] \in Node /\ disk[f].folder = FALSE
  <2>1. disk[f] \in Node
    BY <1>2 DEF DiskTyped, Table
  <2>2. disk[f].folder \in BOOLEAN
    BY <2>1 DEF Node
  <2> QED
    BY <1>2, <2>1, <2>2
<1>4. node.parent = disk[f].parent /\ node.name = disk[f].name /\ node.folder = FALSE /\ node \in Node
  BY <1>1, <1>3 DEF Node
<1>5. PICK E : E = [disk EXCEPT ![f] = node]
  OBVIOUS
<1>6. DOMAIN E = DOMAIN disk /\ E[f] = node /\ \A g \in DOMAIN disk : g # f => E[g] = disk[g]
  BY <1>2, <1>5
<1>7. Table(E)
  BY <1>2, <1>4, <1>5, ExceptTyped DEF DiskTyped
<1>8. \A g \in DOMAIN disk : E[g].parent = disk[g].parent /\ E[g].name = disk[g].name /\ E[g].folder = disk[g].folder
  BY <1>3, <1>4, <1>6
<1>9. Whole(E)
  <2>1. DOMAIN disk \subseteq DOMAIN At(E)
    BY <1>6, <1>7, <1>8, StaysWhole DEF Good
  <2>2. DOMAIN At(E) \subseteq DOMAIN E
    BY <1>7, ResolvedTyped DEF At
  <2> QED
    BY <1>6, <1>7, <2>1, <2>2 DEF Whole
<1>10. Good(E)
  BY <1>6, <1>8, <1>9 DEF Good
<1>11. DOMAIN handles' = {} /\ Journals(<<Record(f, node, {"attributes"} \union {"close"})>>)
  BY <1>1, NoHandles
<1>12. PICK rec : rec = Record(f, node, {"attributes", "close"})
  OBVIOUS
<1>13. rec.frn = f /\ Journals(<<rec>>)
  <2>1. {"attributes"} \union {"close"} = {"attributes", "close"}
    OBVIOUS
  <2> QED
    BY <1>11, <1>12, <2>1, RecordIs
<1>14. ToShow(disk, rec, E)
  BY <1>2, <1>3, <1>4, <1>6, <1>12, <1>13 DEF ToShow
<1>15. Tells(rec)
  BY <1>1, <1>5, <1>10, <1>11, <1>13, <1>14 DEF Tells, Plain
<1> QED
  BY <1>1, <1>2, <1>5, <1>6, <1>15

LEMMA ThreeRecords ==
    ASSUME NEW a, NEW b, NEW c
    PROVE  <<a, b>> \o <<c>> = <<a, b, c>>
<1>1. PICK R : R = {a, b, c}
  OBVIOUS
<1>2. PICK s : s = <<a, b>>
  OBVIOUS
<1>3. PICK t : t = <<c>>
  OBVIOUS
<1>4. PICK u : u = <<a, b, c>>
  OBVIOUS
<1>5. s \in Seq(R) /\ Len(s) = 2 /\ s[1] = a /\ s[2] = b
  BY <1>1, <1>2
<1>6. t \in Seq(R) /\ Len(t) = 1 /\ t[1] = c
  BY <1>1, <1>3
<1>7. u \in Seq(R) /\ Len(u) = 3 /\ u[1] = a /\ u[2] = b /\ u[3] = c
  BY <1>1, <1>4
<1>8. /\ s \o t \in Seq(R) /\ Len(s \o t) = 3
      /\ \A i \in 1..3 : (s \o t)[i] = IF i <= 2 THEN s[i] ELSE t[i - 2]
  BY <1>5, <1>6, ConcatProperties
<1>9. \A i \in 1..3 : (s \o t)[i] = u[i]
  <2>1. PICK v : v = s \o t
    OBVIOUS
  <2>2. v[1] = a /\ v[2] = b /\ v[3] = c
    BY <1>5, <1>6, <1>8, <2>1
  <2>3. \A i \in 1..3 : i = 1 \/ i = 2 \/ i = 3
    OBVIOUS
  <2> QED
    BY <1>7, <2>1, <2>2, <2>3
<1>10. s \o t = u
  BY <1>7, <1>8, <1>9, SeqEqual
<1> QED
  BY <1>2, <1>3, <1>4, <1>10

LEMMA MoveTells ==
    ASSUME Habits \subseteq {"hides"}, DiskTyped, Good(disk), DOMAIN handles = {}, NEW f \in Files, NEW keep \in Keeps,
           Moves(f, keep)
    PROVE  /\ phase \notin {"open", "reading"} /\ Good(disk') /\ DOMAIN handles' = {}
           /\ \E a, b, c : Journals(<<a, b, c>>) /\ MoveTold(disk, a, b, c, disk')
<1>1. keep = FALSE
  BY NothingKept
<1>2. PICK parent \in Files \union {Root}, name \in Names :
         LET node == [disk[f] EXCEPT !.parent = parent, !.name = name]
             old  == Record(f, disk[f], HeldReasons(f) \union {"old name"})
             held == (HeldReasons(f) \union {"new name"})
         IN  /\ FreeAt(parent, name)
             /\ Changed([disk EXCEPT ![f] = node], f)
             /\ Journals(<<old, Record(f, node, held)>> \o <<Record(f, node, held \union {"close"})>>)
             /\ handles' = Without(handles, {f})
  BY <1>1 DEF Moves
<1>3. f \in DOMAIN disk /\ phase \notin {"open", "reading"}
  BY DEF Moves
<1>4. disk[f] \in Node
  BY <1>3 DEF DiskTyped, Table
<1>5. PICK node : node = [disk[f] EXCEPT !.parent = parent, !.name = name]
  OBVIOUS
<1>6. node \in Node /\ node.parent = parent /\ node.name = name /\ node.folder = disk[f].folder
  BY <1>4, <1>5 DEF Node
<1>7. PICK E : E = [disk EXCEPT ![f] = node]
  OBVIOUS
<1>8. DOMAIN E = DOMAIN disk /\ E[f] = node /\ \A g \in DOMAIN disk : g # f => E[g] = disk[g]
  BY <1>3, <1>7
<1>9. Table(E)
  BY <1>3, <1>6, <1>7, ExceptTyped DEF DiskTyped
<1>10. disk' = E /\ Whole(E) /\ \A g \in DOMAIN E : g \in DOMAIN disk => HiddenIn(E, g) = HiddenIn(disk, g)
  BY <1>2, <1>5, <1>7, <1>9, ChangedIs
<1>11. \A g \in DOMAIN disk : ~(disk[g].parent = parent /\ disk[g].name = name)
  BY <1>2 DEF FreeAt, ChildrenOf
<1>12. Good(E)
  <2> SUFFICES ASSUME NEW x \in DOMAIN E, NEW y \in DOMAIN E, E[x].parent = E[y].parent, E[x].name = E[y].name
               PROVE  x = y
    BY <1>10 DEF Good
  <2>1. \A g, h \in DOMAIN disk : disk[g].parent = disk[h].parent /\ disk[g].name = disk[h].name => g = h
    BY DEF Good
  <2> QED
    BY <1>6, <1>8, <1>11, <2>1
<1>13. DOMAIN handles' = {}
  BY <1>2, NoHandles
<1>14. PICK a : a = Record(f, disk[f], {"old name"})
  OBVIOUS
<1>15. PICK b : b = Record(f, node, {"new name"})
  OBVIOUS
<1>16. PICK c : c = Record(f, node, {"new name", "close"})
  OBVIOUS
<1>17. Copies(a, f, disk[f], {"old name"}) /\ Copies(b, f, node, {"new name"}) /\ Copies(c, f, node, {"new name", "close"})
  BY <1>14, <1>15, <1>16, RecordCopies
<1>18. Journals(<<a, b, c>>)
  <2>1. /\ HeldReasons(f) \union {"old name"} = {"old name"} /\ HeldReasons(f) \union {"new name"} = {"new name"}
        /\ {"new name"} \union {"close"} = {"new name", "close"}
    BY NoHandles
  <2>2. Journals(<<a, b>> \o <<c>>)
    BY <1>2, <1>5, <1>14, <1>15, <1>16, <2>1
  <2>3. <<a, b>> \o <<c>> = <<a, b, c>>
    BY ThreeRecords
  <2> QED
    BY <2>2, <2>3
<1>19. MoveTold(disk, a, b, c, E)
  <2>1. /\ a.frn = f /\ b.frn = f /\ c.frn = f /\ a.reasons = {"old name"} /\ b.reasons = {"new name"}
    BY <1>17 DEF Copies
  <2>2. OldName(disk, a, disk)
    BY <1>3, <1>17, <2>1 DEF OldName
  <2>3. ToMove(disk, c, E)
    <3>1. /\ DOMAIN E = DOMAIN disk /\ E[f].folder = disk[f].folder
          /\ \A g \in DOMAIN disk : g # f => E[g] = disk[g]
          /\ \A g \in DOMAIN disk : ~(disk[g].parent = E[f].parent /\ disk[g].name = E[f].name)
          /\ \A g \in DOMAIN disk : HiddenIn(E, g) = HiddenIn(disk, g)
      BY <1>6, <1>8, <1>10, <1>11
    <3>2. c = Record(f, E[f], {"new name", "close"})
      BY <1>8, <1>16
    <3> QED
      BY <1>3, <2>1, <3>1, <3>2 DEF ToMove
  <2> QED
    BY <2>1, <2>2, <2>3 DEF MoveTold
<1> QED
  BY <1>3, <1>10, <1>12, <1>13, <1>18, <1>19

\* Somebody has a place in the journal.
LEMMA JournalGrows ==
    ASSUME journal \in Seq(Records), phase # "closed", NEW rec, Journals(<<rec>>)
    PROVE  /\ Len(journal) \in Nat /\ Longer(journal', journal, Len(journal)) /\ journal'[Len(journal) + 1] = rec
<1>1. PICK R : R = Records \union {rec}
  OBVIOUS
<1>2. journal \in Seq(R) /\ <<rec>> \in Seq(R) /\ Len(<<rec>>) = 1 /\ <<rec>>[1] = rec
  BY <1>1
<1>3. journal' = journal \o <<rec>>
  BY DEF Journals
<1>4. Len(journal) \in Nat /\ Len(journal') = Len(journal) + 1 /\ (\A i \in 1..Len(journal) : journal'[i] = journal[i])
      /\ journal'[Len(journal) + 1] = rec
  BY <1>2, <1>3
<1> QED
  BY <1>4 DEF Longer

LEMMA JournalGrowsByThree ==
    ASSUME journal \in Seq(Records), phase # "closed", NEW a, NEW b, NEW c, Journals(<<a, b, c>>)
    PROVE  /\ Len(journal) \in Nat /\ Len(journal') = Len(journal) + 3
           /\ \A i \in 1..Len(journal) : journal'[i] = journal[i]
           /\ journal'[Len(journal) + 1] = a /\ journal'[Len(journal) + 2] = b /\ journal'[Len(journal) + 3] = c
<1>1. PICK R : R = Records \union {a, b, c}
  OBVIOUS
<1>2. PICK s : s = <<a, b, c>>
  OBVIOUS
<1>3. journal \in Seq(R) /\ s \in Seq(R) /\ Len(s) = 3 /\ s[1] = a /\ s[2] = b /\ s[3] = c
  BY <1>1, <1>2
<1>4. journal' = journal \o s
  BY <1>2 DEF Journals
<1>5. Len(journal) \in Nat /\ Len(journal') = Len(journal) + 3
      /\ (\A i \in 1..Len(journal) : journal'[i] = journal[i])
      /\ (\A i \in 1..3 : journal'[Len(journal) + i] = s[i])
  <2>1. PICK j : j = journal
    OBVIOUS
  <2>2. j \in Seq(R) /\ Len(j) \in Nat /\ s \in Seq(R) /\ Len(s) = 3 /\ journal' = j \o s
    BY <1>3, <1>4, <2>1
  <2>3. /\ Len(j \o s) = Len(j) + Len(s)
        /\ \A i \in 1..(Len(j) + Len(s)) : (j \o s)[i] = IF i <= Len(j) THEN j[i] ELSE s[i - Len(j)]
    BY <2>2, ConcatProperties
  <2>4. \A i \in 1..Len(j) : (j \o s)[i] = j[i]
    BY <2>2, <2>3
  <2>5. \A i \in 1..3 : (j \o s)[Len(j) + i] = s[i]
    BY <2>2, <2>3
  <2> QED
    BY <2>1, <2>2, <2>3, <2>4, <2>5
<1> QED
  BY <1>3, <1>5

\* What programs do while the tail runs is in the journal.
LEMMA KeptWhileUsed ==
    ASSUME Habits \subseteq {"hides"}, DiskTyped, Good(disk), DOMAIN handles = {}, ProgramsAct, phase # "closed",
           NEW rs, NEW ds, NEW pd, Kept(rs, ds, pd, journal, disk)
    PROVE  Kept(rs, ds, pd, journal', disk')
<1>0. journal \in Seq(Records)
  BY DEF DiskTyped
<1>1. PICK f \in Files : \/ \E keep \in Keeps : Creates(f, keep) \/ Moves(f, keep)
                         \/ Deletes(f) \/ Hides(f) \/ Closes(f)
  BY DEF ProgramsAct
<1>2. ASSUME NEW rec, Tells(rec) PROVE Kept(rs, ds, pd, journal', disk')
  <2>1. Plain(disk, rec, disk') /\ Journals(<<rec>>) /\ Good(disk')
    BY <1>2 DEF Tells
  <2>2. Len(journal) \in Nat /\ Longer(journal', journal, Len(journal)) /\ journal'[Len(journal) + 1] = rec
    BY <1>0, <2>1, JournalGrows
  <2> QED
    BY <2>1, <2>2, KeptPlain
<1>3. ASSUME NEW keep \in Keeps, Creates(f, keep) PROVE Kept(rs, ds, pd, journal', disk')
  BY <1>2, <1>3, CreateTells
<1>4. ASSUME NEW keep \in Keeps, Moves(f, keep) PROVE Kept(rs, ds, pd, journal', disk')
  <2>1. PICK a, b, c : Journals(<<a, b, c>>) /\ MoveTold(disk, a, b, c, disk')
    BY <1>4, MoveTells
  <2>2. Good(disk')
    BY <1>4, MoveTells
  <2>3. /\ Len(journal) \in Nat /\ Len(journal') = Len(journal) + 3
        /\ \A i \in 1..Len(journal) : journal'[i] = journal[i]
        /\ journal'[Len(journal) + 1] = a /\ journal'[Len(journal) + 2] = b /\ journal'[Len(journal) + 3] = c
    BY <1>0, <2>1, JournalGrowsByThree
  <2> QED
    BY <2>1, <2>2, <2>3, KeptMove
<1>5. CASE Deletes(f)
  BY <1>2, <1>5, DeleteTells
<1>6. CASE Hides(f)
  BY <1>2, <1>6, HideTells
<1>7. ~Closes(f)
  BY DEF Closes
<1> QED
  BY <1>1, <1>3, <1>4, <1>5, <1>6, <1>7
--------------------------------------------------------------------------------
(* The build reads: the journal tells all that happened since it was opened, and a table of all *)
(* there was since then gives every folder a path of its own.                                   *)

Followed(js, n, h, U, D, L) ==
    /\ Window(js, h, n, U) /\ h[n] = D
    /\ \A f \in DOMAIN U : \E i \in 0..n : f \in DOMAIN h[i]
    /\ \A f \in FoldersOf(U) : f \in DOMAIN D \/ PathIn(U, f) \in L

\* What was read was there at some time, and of what has been read nothing that stayed is missing.
ReadOf(s, upto, n, h) ==
    /\ \A f \in DOMAIN s : \E t \in 0..n : f \in DOMAIN h[t] /\ s[f] = h[t][f]
    /\ \A f \in Files : f < upto /\ (\A t \in 0..n : f \in DOMAIN h[t]) => f \in DOMAIN s

LEMMA WindowAt ==
    ASSUME NEW D, Good(D), NEW js, NEW h, h[0] = D
    PROVE  Window(js, h, 0, D)
<1>0. Whole(D) /\ 0..0 = {0} /\ \A i : ~(i \in 1..0)
  BY DEF Good
<1>1. \A f, g \in FoldersOf(D) : PathIn(D, f) = PathIn(D, g) => f = g
  BY OneAtAPath DEF FoldersOf
<1> QED
  BY <1>0, <1>1, AlikeItself DEF Window

LEMMA FollowedAt ==
    ASSUME NEW D, Good(D), NEW js, NEW h, h[0] = D, NEW L
    PROVE  Followed(js, 0, h, D, D, L)
<1>1. Window(js, h, 0, D)
  BY WindowAt
<1>2. 0..0 = {0}
  OBVIOUS
<1> QED
  BY <1>1, <1>2 DEF Followed, FoldersOf

\* A window grows by what comes or goes for the first time.
LEMMA WindowGrows ==
    ASSUME NEW n \in Nat, NEW js, NEW js2, Longer(js2, js, n), NEW h, NEW U, Window(js, h, n, U),
           NEW E, Good(E), Plain(h[n], js2[n + 1], E), \A g \in DOMAIN E : g \in DOMAIN h[n] \/ g \notin DOMAIN U,
           NEW V, Whole(V), PartOf(E, V), \A i \in 0..n : PartOf(h[i], V),
           \A f, g \in FoldersOf(V) : PathIn(V, f) = PathIn(V, g) => f = g,
           NEW h2, h2[n + 1] = E, \A i \in 0..n : h2[i] = h[i]
    PROVE  Window(js2, h2, n + 1, V)
<1>1. /\ \A i \in 0..n : Good(h[i]) /\ PartOf(h[i], U)
      /\ \A i \in 1..n : Plain(h[i - 1], js[i], h[i])
      /\ \A i, j, l \in 0..n : i <= j /\ j <= l => DOMAIN h[i] \intersect DOMAIN h[l] \subseteq DOMAIN h[j]
  BY DEF Window
<1>2. \A i \in 0..(n + 1) : i \in 0..n \/ i = n + 1
  OBVIOUS
<1>3. \A i \in 0..(n + 1) : Good(h2[i]) /\ PartOf(h2[i], V)
  BY <1>1, <1>2
<1>4. ASSUME NEW i \in 1..(n + 1) PROVE Plain(h2[i - 1], js2[i], h2[i])
  <2>1. CASE i = n + 1
    <3>1. i - 1 = n /\ n \in 0..n
      BY <2>1
    <3> QED
      BY <2>1, <3>1
  <2>2. CASE i # n + 1
    <3>1. i \in 1..n /\ i \in 0..n /\ i - 1 \in 0..n
      BY <2>2
    <3>2. js2[i] = js[i]
      BY <3>1 DEF Longer
    <3> QED
      BY <1>1, <3>1, <3>2
  <2> QED
    BY <2>1, <2>2
<1>5. ASSUME NEW i \in 0..(n + 1), NEW j \in 0..(n + 1), NEW l \in 0..(n + 1), i <= j, j <= l
      PROVE  DOMAIN h2[i] \intersect DOMAIN h2[l] \subseteq DOMAIN h2[j]
  <2>1. CASE l \in 0..n
    <3>1. i \in 0..n /\ j \in 0..n
      BY <1>5, <2>1
    <3> QED
      BY <1>1, <1>5, <2>1, <3>1
  <2>2. CASE l = n + 1 /\ j = n + 1
    BY <2>2
  <2>3. CASE l = n + 1 /\ j \in 0..n
    <3>1. i \in 0..n /\ n \in 0..n /\ j <= n
      BY <1>5, <2>3
    <3>2. DOMAIN h[i] \subseteq DOMAIN U
      BY <1>1, <3>1 DEF PartOf
    <3>3. DOMAIN h[i] \intersect DOMAIN h[n] \subseteq DOMAIN h[j]
      BY <1>1, <1>5, <2>3, <3>1
    <3>4. DOMAIN h[i] \intersect DOMAIN E \subseteq DOMAIN h[n]
      BY <3>2
    <3> QED
      BY <2>3, <3>1, <3>3, <3>4
  <2> QED
    BY <1>2, <2>1, <2>2, <2>3
<1>6. n + 1 \in Nat
  OBVIOUS
<1> QED
  BY <1>3, <1>4, <1>5, <1>6 DEF Window

\* Something is deleted, hidden or shown.
LEMMA FollowedShrinks ==
    ASSUME NEW n \in Nat, NEW js, NEW js2, Longer(js2, js, n), NEW h, NEW U, NEW D, NEW L, Followed(js, n, h, U, D, L),
           NEW E, Good(E), Plain(D, js2[n + 1], E), DOMAIN E \subseteq DOMAIN D,
           NEW M, L \subseteq M, \A g \in FoldersOf(D) : g \notin DOMAIN E => PathIn(D, g) \in M,
           NEW h2, h2[n + 1] = E, \A i \in 0..n : h2[i] = h[i]
    PROVE  Followed(js2, n + 1, h2, U, E, M)
<1>1. /\ Window(js, h, n, U) /\ h[n] = D
      /\ \A f \in DOMAIN U : \E i \in 0..n : f \in DOMAIN h[i]
      /\ \A f \in FoldersOf(U) : f \in DOMAIN D \/ PathIn(U, f) \in L
  BY DEF Followed
<1>2. /\ \A i \in 0..n : Good(h[i]) /\ PartOf(h[i], U)
      /\ Whole(U) /\ \A f, g \in FoldersOf(U) : PathIn(U, f) = PathIn(U, g) => f = g
  BY <1>1 DEF Window
<1>3. PartOf(D, U) /\ Whole(D)
  BY <1>1, <1>2 DEF Good
<1>4. PartOf(E, U)
  <2> SUFFICES ASSUME NEW g \in DOMAIN E PROVE g \in DOMAIN U /\ Alike(E[g], U[g])
    BY DEF PartOf
  <2>1. g \in DOMAIN D /\ g \in DOMAIN U /\ Alike(D[g], U[g])
    BY <1>3 DEF PartOf
  <2>2. Alike(E[g], D[g])
    <3>1. CASE g # js2[n + 1].frn
      <4>1. E[g] = D[g]
        BY <2>1, <3>1, PlainElsewhere
      <4> QED
        BY <4>1 DEF Alike
    <3>2. CASE g = js2[n + 1].frn
      <4>1. ~ToCreate(D, js2[n + 1], E)
        BY <2>1, <3>2 DEF ToCreate
      <4>2. ~ToDelete(D, js2[n + 1], E)
        BY <3>2 DEF ToDelete
      <4>3. ToShow(D, js2[n + 1], E)
        BY <4>1, <4>2 DEF Plain
      <4>4. D[g].folder = FALSE /\ E[g].parent = D[g].parent /\ E[g].name = D[g].name /\ E[g].folder = FALSE
        BY <3>2, <4>3 DEF ToShow
      <4> QED
        BY <4>4 DEF Alike
    <3> QED
      BY <3>1, <3>2
  <2> QED
    BY <2>1, <2>2 DEF Alike
<1>5. Window(js2, h2, n + 1, U)
  BY <1>1, <1>2, <1>4, WindowGrows
<1>6. \A f \in DOMAIN U : \E i \in 0..(n + 1) : f \in DOMAIN h2[i]
  <2> SUFFICES ASSUME NEW f \in DOMAIN U PROVE \E i \in 0..(n + 1) : f \in DOMAIN h2[i]
    OBVIOUS
  <2>1. PICK i \in 0..n : f \in DOMAIN h[i]
    BY <1>1
  <2> QED
    BY <2>1
<1>7. ASSUME NEW f \in FoldersOf(U) PROVE f \in DOMAIN E \/ PathIn(U, f) \in M
  <2>1. CASE f \in DOMAIN D
    <3>1. f \in FoldersOf(D) /\ PathIn(D, f) = PathIn(U, f)
      BY <1>2, <1>3, <1>7, <2>1, PartIs
    <3> QED
      BY <3>1
  <2>2. CASE f \notin DOMAIN D
    BY <1>1, <1>7, <2>2
  <2> QED
    BY <2>1, <2>2
<1> QED
  BY <1>5, <1>6, <1>7 DEF Followed

\* Something is created: under a number and, if a folder, at a path that were not in use.
LEMMA FollowedGrows ==
    ASSUME NEW n \in Nat, NEW js, NEW js2, Longer(js2, js, n), NEW h, NEW U, NEW D, NEW L, Followed(js, n, h, U, D, L),
           NEW rec, rec = js2[n + 1], NEW E, Good(E), ToCreate(D, rec, E), NEW f, f = rec.frn,
           \A i \in 1..n : ~(js[i].frn = f /\ "delete" \in js[i].reasons),
           f \in FoldersOf(E) => PathIn(E, f) \notin L, NEW M, L \subseteq M,
           NEW h2, h2[n + 1] = E, \A i \in 0..n : h2[i] = h[i]
    PROVE  \E V : Followed(js2, n + 1, h2, V, E, M)
<1>1. /\ Window(js, h, n, U) /\ h[n] = D
      /\ \A g \in DOMAIN U : \E i \in 0..n : g \in DOMAIN h[i]
      /\ \A g \in FoldersOf(U) : g \in DOMAIN D \/ PathIn(U, g) \in L
  BY DEF Followed
<1>2. /\ \A i \in 0..n : Good(h[i]) /\ PartOf(h[i], U)
      /\ Whole(U) /\ \A x, y \in FoldersOf(U) : PathIn(U, x) = PathIn(U, y) => x = y
  BY <1>1 DEF Window
<1>3. PartOf(D, U) /\ Whole(D) /\ Good(D)
  BY <1>1, <1>2 DEF Good
<1>4. /\ f \in Files /\ f \notin DOMAIN D /\ DOMAIN E = DOMAIN D \union {f}
      /\ \A g \in DOMAIN D : E[g] = D[g]
  BY DEF ToCreate
<1>5. f \notin DOMAIN U
  <2> SUFFICES ASSUME f \in DOMAIN U PROVE FALSE
    OBVIOUS
  <2>1. PICK i \in 0..n : f \in DOMAIN h[i]
    BY <1>1
  <2>2. n \in 0..n /\ i <= n
    OBVIOUS
  <2>3. PICK l \in (i + 1)..n : js[l].frn = f /\ "delete" \in js[l].reasons
    BY <1>1, <1>4, <2>1, <2>2, GoneIsTold
  <2>4. l \in 1..n
    OBVIOUS
  <2> QED
    BY <2>3, <2>4
<1>6. PICK V : V = [g \in DOMAIN U \union {f} |-> IF g = f THEN E[f] ELSE U[g]]
  OBVIOUS
<1>7. DOMAIN V = DOMAIN U \union {f} /\ V[f] = E[f] /\ \A g \in DOMAIN U : V[g] = U[g]
  BY <1>5, <1>6
<1>8. Table(V) /\ Whole(E)
  <2>1. Table(U) /\ Table(E) /\ Whole(E)
    BY <1>2 DEF Whole, Good
  <2> QED
    BY <1>4, <1>7, <2>1 DEF Table
<1>9. PartOf(E, V)
  BY <1>3, <1>4, <1>7 DEF PartOf, Alike
<1>10. Whole(V)
  <2>1. DOMAIN U \subseteq DOMAIN At(V)
    BY <1>2, <1>7, <1>8, StaysWhole
  <2>2. DOMAIN E \subseteq DOMAIN At(V)
    <3>1. DOMAIN E \subseteq DOMAIN V /\ \A g \in DOMAIN E : /\ V[g].parent = E[g].parent /\ V[g].name = E[g].name
                                                            /\ V[g].folder = E[g].folder
      BY <1>9 DEF PartOf, Alike
    <3> QED
      BY <1>8, <3>1, StaysWhole
  <2>3. DOMAIN At(V) \subseteq DOMAIN V
    BY <1>8, ResolvedTyped DEF At
  <2> QED
    BY <1>4, <1>7, <1>8, <2>1, <2>2, <2>3 DEF Whole
<1>11. \A g \in DOMAIN U : PathIn(V, g) = PathIn(U, g)
  BY <1>2, <1>7, <1>8, StaysWhole
<1>12. ASSUME NEW i \in 0..n PROVE PartOf(h[i], V)
  BY <1>2, <1>7 DEF PartOf
<1>13. ASSUME NEW x \in FoldersOf(V), NEW y \in FoldersOf(V), PathIn(V, x) = PathIn(V, y), x = f, y # f
       PROVE  FALSE
  <2>1. f \in FoldersOf(E) /\ PathIn(V, f) = PathIn(E, f)
    <3>1. f \in DOMAIN E
      BY <1>4
    <3> QED
      BY <1>8, <1>9, <1>10, <1>13, <3>1, PartIs
  <2>2. y \in FoldersOf(U) /\ PathIn(V, y) = PathIn(U, y)
    BY <1>7, <1>11, <1>13 DEF FoldersOf
  <2>3. y \in DOMAIN D
    BY <1>1, <1>13, <2>1, <2>2
  <2>4. y \in DOMAIN E /\ f \in DOMAIN E /\ PathIn(E, y) = PathIn(V, y)
    BY <1>4, <1>8, <1>9, <1>10, <2>3, PartIs
  <2> QED
    BY <1>13, <2>1, <2>4, OneAtAPath
<1>14. ASSUME NEW x \in FoldersOf(V), NEW y \in FoldersOf(V), PathIn(V, x) = PathIn(V, y)
       PROVE  x = y
  <2>1. CASE x = f \/ y = f
    BY <1>13, <1>14, <2>1
  <2>2. CASE x # f /\ y # f
    <3>1. x \in FoldersOf(U) /\ y \in FoldersOf(U) /\ x \in DOMAIN U /\ y \in DOMAIN U
      BY <1>7, <2>2 DEF FoldersOf
    <3> QED
      BY <1>2, <1>11, <1>14, <3>1
  <2> QED
    BY <2>1, <2>2
<1>15. Window(js2, h2, n + 1, V)
  <2>1. \A g \in DOMAIN E : g \in DOMAIN h[n] \/ g \notin DOMAIN U
    BY <1>1, <1>4, <1>5
  <2>2. Plain(h[n], js2[n + 1], E)
    BY <1>1 DEF Plain
  <2> QED
    BY <1>1, <1>9, <1>10, <1>12, <1>14, <2>1, <2>2, WindowGrows
<1>16. ASSUME NEW g \in DOMAIN V PROVE \E i \in 0..(n + 1) : g \in DOMAIN h2[i]
  <2>1. CASE g = f
    <3>1. n + 1 \in 0..(n + 1) /\ g \in DOMAIN h2[n + 1]
      BY <1>4, <2>1
    <3> QED
      BY <3>1
  <2>2. CASE g # f
    <3>1. PICK i \in 0..n : g \in DOMAIN h[i]
      BY <1>1, <1>7, <2>2
    <3>2. i \in 0..(n + 1) /\ g \in DOMAIN h2[i]
      BY <3>1
    <3> QED
      BY <3>2
  <2> QED
    BY <2>1, <2>2
<1>17. ASSUME NEW g \in FoldersOf(V) PROVE g \in DOMAIN E \/ PathIn(V, g) \in M
  <2>1. CASE g = f
    BY <1>4, <2>1
  <2>2. CASE g # f
    <3>1. g \in FoldersOf(U) /\ g \in DOMAIN U
      BY <1>7, <2>2, <1>17 DEF FoldersOf
    <3> QED
      BY <1>1, <1>4, <1>11, <3>1
  <2> QED
    BY <2>1, <2>2
<1> QED
  BY <1>15, <1>16, <1>17 DEF Followed

Watched == \E h, U : /\ Followed(journal, Len(journal), h, U, disk, left)
                     /\ phase = "reading" => ReadOf(seen, position, Len(journal), h)

LEMMA ReadStill ==
    ASSUME NEW n \in Nat, NEW h, NEW h2, \A i \in 0..n : h2[i] = h[i], NEW s, NEW upto, ReadOf(s, upto, n, h)
    PROVE  ReadOf(s, upto, n + 1, h2)
<1>1. \A i \in 0..n : i \in 0..(n + 1)
  OBVIOUS
<1>2. ASSUME NEW f \in DOMAIN s PROVE \E t \in 0..(n + 1) : f \in DOMAIN h2[t] /\ s[f] = h2[t][f]
  <2>1. PICK t \in 0..n : f \in DOMAIN h[t] /\ s[f] = h[t][f]
    BY DEF ReadOf
  <2> QED
    BY <1>1, <2>1
<1>3. ASSUME NEW f \in Files, f < upto, \A t \in 0..(n + 1) : f \in DOMAIN h2[t] PROVE f \in DOMAIN s
  <2>1. \A t \in 0..n : f \in DOMAIN h[t]
    BY <1>1, <1>3
  <2> QED
    BY <1>3, <2>1 DEF ReadOf
<1> QED
  BY <1>2, <1>3 DEF ReadOf

Fresh(js, n, rec, E, L) ==
    /\ \A i \in 1..n : ~(js[i].frn = rec.frn /\ "delete" \in js[i].reasons)
    /\ rec.frn \in FoldersOf(E) => PathIn(E, rec.frn) \notin L

LEMMA FollowedCreates ==
    ASSUME NEW n \in Nat, NEW js, NEW js2, Longer(js2, js, n), NEW h, NEW U, NEW D, NEW L, Followed(js, n, h, U, D, L),
           NEW E, Good(E), ToCreate(D, js2[n + 1], E), Fresh(js, n, js2[n + 1], E, L), NEW M, L \subseteq M,
           NEW h2, h2[n + 1] = E, \A i \in 0..n : h2[i] = h[i]
    PROVE  \E V : Followed(js2, n + 1, h2, V, E, M)
<1>1. PICK rec : rec = js2[n + 1]
  OBVIOUS
<1>2. PICK f : f = rec.frn
  OBVIOUS
<1>3. /\ ToCreate(D, rec, E) /\ \A i \in 1..n : ~(js[i].frn = f /\ "delete" \in js[i].reasons)
      /\ f \in FoldersOf(E) => PathIn(E, f) \notin L
  BY <1>1, <1>2 DEF Fresh
<1> QED
  BY <1>1, <1>2, <1>3, FollowedGrows

\* What programs do while the build reads.
LEMMA WatchedWhileUsed ==
    ASSUME Habits \subseteq {"hides"}, DiskTyped, Good(disk), DOMAIN handles = {}, ProgramsAct,
           phase \in {"open", "reading"}, Watched
    PROVE  Watched'
<1>0. journal \in Seq(Records) /\ Len(journal) \in Nat /\ phase # "closed" /\ DOMAIN journal = 1..Len(journal)
  BY LenProperties DEF DiskTyped
<1>1. PICK n \in Nat : n = Len(journal)
  BY <1>0
<1>2. PICK h, U : /\ Followed(journal, n, h, U, disk, left)
                  /\ phase = "reading" => ReadOf(seen, position, n, h)
  BY <1>1 DEF Watched
<1>3. PICK h2 : h2 = [i \in 0..(n + 1) |-> IF i = n + 1 THEN disk' ELSE h[i]]
  OBVIOUS
<1>4. h2[n + 1] = disk' /\ \A i \in 0..n : h2[i] = h[i]
  BY <1>3
<1>5. phase' = phase /\ seen' = seen /\ position' = position
  BY DEF ProgramsAct, buildVars
<1>6. phase = "reading" => ReadOf(seen, position, n + 1, h2)
  BY <1>2, <1>4, ReadStill
<1>7. ASSUME Len(journal') = n + 1, NEW V, Followed(journal', n + 1, h2, V, disk', left')
      PROVE  Watched'
  <2>1. /\ Followed(journal', Len(journal'), h2, V, disk', left')
        /\ phase' = "reading" => ReadOf(seen', position', Len(journal'), h2)
    BY <1>5, <1>6, <1>7
  <2> QED
    BY <2>1 DEF Watched
<1>8. ASSUME NEW rec, Tells(rec)
      PROVE  Longer(journal', journal, n) /\ Len(journal') = n + 1 /\ journal'[n + 1] = rec
             /\ Plain(disk, rec, disk') /\ Good(disk')
  <2>1. Plain(disk, rec, disk') /\ Journals(<<rec>>) /\ Good(disk')
    BY <1>8 DEF Tells
  <2> QED
    BY <1>0, <1>1, <2>1, JournalGrows DEF Longer
<1>9. PICK f \in Files : \/ \E keep \in Keeps : Creates(f, keep) \/ Moves(f, keep)
                         \/ Deletes(f) \/ Hides(f) \/ Closes(f)
  BY DEF ProgramsAct
<1>10. ASSUME NEW keep \in Keeps, Creates(f, keep) PROVE Watched'
  <2>1. /\ Leaves /\ f \notin DOMAIN disk
        /\ \A i \in DOMAIN journal : ~(journal[i].frn = f /\ "delete" \in journal[i].reasons)
    BY <1>10, CreateTells
  <2>2. PICK rec : Tells(rec) /\ ToCreate(disk, rec, disk') /\ rec.frn = f
    BY <1>10, CreateTells
  <2>3. /\ Longer(journal', journal, n) /\ Len(journal') = n + 1 /\ journal'[n + 1] = rec
        /\ Good(disk')
    BY <1>8, <2>2
  <2>4. \A i \in 1..n : ~(journal[i].frn = f /\ "delete" \in journal[i].reasons)
    BY <1>0, <1>1, <2>1
  <2>5. (f \in FoldersOf(disk') => PathIn(disk', f) \notin left) /\ left \subseteq left'
    BY <2>1 DEF Leaves
  <2>6. ToCreate(disk, journal'[n + 1], disk') /\ Fresh(journal, n, journal'[n + 1], disk', left)
    BY <2>2, <2>3, <2>4, <2>5 DEF Fresh
  <2>7. \E V : Followed(journal', n + 1, h2, V, disk', left')
    <3> HIDE <2>2
    <3> QED
      BY <1>2, <1>4, <2>3, <2>5, <2>6, FollowedCreates
  <2> QED
    BY <1>7, <2>3, <2>7
<1>11. ASSUME NEW rec, Tells(rec), DOMAIN disk' \subseteq DOMAIN disk, left \subseteq left',
              \A g \in FoldersOf(disk) : g \notin DOMAIN disk' => PathIn(disk, g) \in left'
       PROVE  Watched'
  <2>1. /\ Longer(journal', journal, n) /\ Len(journal') = n + 1
        /\ Plain(disk, journal'[n + 1], disk') /\ Good(disk')
    BY <1>8, <1>11
  <2>2. Followed(journal', n + 1, h2, U, disk', left')
    BY <1>2, <1>4, <1>11, <2>1, FollowedShrinks
  <2> QED
    BY <1>7, <2>1, <2>2
<1>12. CASE Deletes(f)
  <2>1. Leaves /\ DOMAIN disk' \subseteq DOMAIN disk /\ \E rec : Tells(rec)
    BY <1>12, DeleteTells
  <2> QED
    BY <1>11, <2>1 DEF Leaves
<1>13. CASE Hides(f)
  <2>1. left' = left /\ DOMAIN disk' = DOMAIN disk /\ \E rec : Tells(rec)
    BY <1>13, HideTells
  <2> QED
    BY <1>11, <2>1 DEF FoldersOf
<1>14. ASSUME NEW keep \in Keeps, Moves(f, keep) PROVE Watched'
  BY <1>14, MoveTells
<1>15. ~Closes(f)
  BY DEF Closes
<1> QED
  BY <1>9, <1>10, <1>12, <1>13, <1>14, <1>15

LEMMA WatchedOpens ==
    ASSUME Good(disk), journal = <<>>, Opens, phase' = "open"
    PROVE  Watched'
<1>1. disk' = disk /\ journal' = journal /\ Len(journal) = 0
  BY DEF Opens, diskVars
<1>2. PICK h : h = [i \in {0} |-> disk]
  OBVIOUS
<1>3. Followed(journal', Len(journal'), h, disk, disk', left')
  BY <1>1, <1>2, FollowedAt
<1> QED
  BY <1>3 DEF Watched

LEMMA NothingRead == \A n \in Nat : \A h : ReadOf(<<>>, 1, n, h)
  BY DEF ReadOf, Files

LEMMA WatchedBegins ==
    ASSUME journal \in Seq(Records), Watched, BeginsBuild \/ FallsBack
    PROVE  Watched'
<1>1. Len(journal) \in Nat
  BY LenProperties
<1>2. disk' = disk /\ journal' = journal /\ left' = left /\ seen' = <<>> /\ position' = 1
  BY DEF BeginsBuild, FallsBack, diskVars, historyVars
<1>3. PICK h, U : Followed(journal, Len(journal), h, U, disk, left)
  BY DEF Watched
<1>4. Followed(journal', Len(journal'), h, U, disk', left') /\ ReadOf(seen', position', Len(journal'), h)
  BY <1>1, <1>2, <1>3, NothingRead
<1> QED
  BY <1>4 DEF Watched

LEMMA WatchedReads ==
    ASSUME Mishaps = {}, journal \in Seq(Records), position \in Nat, Watched, ReadsRecord
    PROVE  Watched'
<1>1. PICK n \in Nat : n = Len(journal)
  BY LenProperties
<1>2. disk' = disk /\ journal' = journal /\ left' = left /\ phase = "reading" /\ phase' = "reading"
  BY DEF ReadsRecord, diskVars, historyVars
<1>3. /\ position' = position + 1
      /\ seen' = IF position \in DOMAIN disk THEN With(seen, position, disk[position]) ELSE seen
  BY DEF ReadsRecord
<1>4. PICK h, U : Followed(journal, n, h, U, disk, left) /\ ReadOf(seen, position, n, h)
  BY <1>1, <1>2 DEF Watched
<1>5. h[n] = disk /\ n \in 0..n
  BY <1>4 DEF Followed
<1>6. /\ DOMAIN seen' = DOMAIN seen \union (DOMAIN disk \intersect {position})
      /\ \A f \in DOMAIN seen' : (f = position /\ f \in DOMAIN disk /\ seen'[f] = disk[f])
                                 \/ (f \in DOMAIN seen /\ seen'[f] = seen[f])
  BY <1>3 DEF With
<1>7. ASSUME NEW f \in DOMAIN seen' PROVE \E t \in 0..n : f \in DOMAIN h[t] /\ seen'[f] = h[t][f]
  <2>1. CASE f \in DOMAIN disk /\ seen'[f] = disk[f]
    BY <1>5, <2>1
  <2>2. CASE f \in DOMAIN seen /\ seen'[f] = seen[f]
    BY <1>4, <2>2 DEF ReadOf
  <2> QED
    BY <1>6, <2>1, <2>2
<1>8. ASSUME NEW f \in Files, f < position + 1, \A t \in 0..n : f \in DOMAIN h[t] PROVE f \in DOMAIN seen'
  <2>1. CASE f = position
    BY <1>5, <1>6, <1>8, <2>1
  <2>2. CASE f # position
    <3>1. f < position
      BY <1>8, <2>2 DEF Files
    <3> QED
      BY <1>4, <1>6, <1>8, <3>1 DEF ReadOf
  <2> QED
    BY <2>1, <2>2
<1>9. ReadOf(seen', position', n, h)
  BY <1>3, <1>7, <1>8 DEF ReadOf
<1>10. /\ Followed(journal', Len(journal'), h, U, disk', left')
       /\ phase' = "reading" => ReadOf(seen', position', Len(journal'), h)
  BY <1>1, <1>2, <1>4, <1>9
<1> QED
  BY <1>10 DEF Watched

LEMMA ReadPart ==
    ASSUME NEW n \in Nat, NEW js, NEW h, NEW U, Window(js, h, n, U), NEW s, NEW upto, ReadOf(s, upto, n, h)
    PROVE  PartOf(s, U)
<1> SUFFICES ASSUME NEW f \in DOMAIN s PROVE f \in DOMAIN U /\ Alike(s[f], U[f])
  BY DEF PartOf
<1>1. PICK t \in 0..n : f \in DOMAIN h[t] /\ s[f] = h[t][f]
  BY DEF ReadOf
<1>2. PartOf(h[t], U)
  BY DEF Window
<1> QED
  BY <1>1, <1>2 DEF PartOf

\* Of what was read, what has a place has the place it had on the volume; of folders, so has the flag.
Placed(R, s, U) ==
    \A f \in DOMAIN R :
        /\ f \in DOMAIN s /\ f \in DOMAIN U /\ R[f].path = PathIn(U, f) /\ R[f] \in Spots
        /\ U[f].parent = Root => R[f].hidden = s[f].hidden
        /\ U[f].parent # Root => /\ U[f].parent \in DOMAIN R /\ U[f].parent \in FoldersOf(s)
                                 /\ R[f].hidden = Either(R[U[f].parent].hidden, s[f].hidden)
        /\ f \in FoldersOf(s) => R[f] = At(U)[f]

LEMMA SameShown ==
    ASSUME NEW one, Table(one), NEW C, NEW U, Whole(U), NEW S, S \subseteq DOMAIN one, S \subseteq DOMAIN U,
           \A g \in S : /\ one[g].parent = U[g].parent /\ one[g].name = U[g].name /\ one[g].hidden = U[g].hidden
                        /\ one[g].parent = Root \/ (one[g].parent \in S /\ one[g].parent \in FoldersOf(U)),
           NEW f \in S, f \in DOMAIN Resolved(one, C)
    PROVE  HiddenIn(U, f) = Resolved(one, C)[f].hidden
<1>1. Table(U)
  BY DEF Whole
<1>2. \A g \in S : one[g].hidden = U[g].hidden
  OBVIOUS
<1>3. \A g \in S : /\ one[g].parent = U[g].parent /\ one[g].name = U[g].name
                   /\ one[g].parent = Root \/ (one[g].parent \in S /\ one[g].parent \in FoldersOf(U))
  OBVIOUS
<1>4. (\A g \in S : one[g].hidden = U[g].hidden)
      => Resolved(U, FoldersOf(U))[f].hidden = Resolved(one, C)[f].hidden
  <2>1. /\ f \in DOMAIN Resolved(U, FoldersOf(U))
        /\ Resolved(U, FoldersOf(U))[f].path = Resolved(one, C)[f].path
        /\ (\A g \in S : one[g].hidden = U[g].hidden)
           => Resolved(U, FoldersOf(U))[f].hidden = Resolved(one, C)[f].hidden
    BY <1>1, <1>3, SamePlaces, SMTT(90)
  <2> QED
    BY <2>1
<1>5. Resolved(U, FoldersOf(U))[f].hidden = Resolved(one, C)[f].hidden
  BY <1>2, <1>4
<1> QED
  BY <1>5 DEF HiddenIn, At

LEMMA ReadPlaced ==
    ASSUME NEW s, Table(s), NEW U, Whole(U), PartOf(s, U), NEW C, NEW R, R = Resolved(s, C)
    PROVE  Placed(R, s, U)
<1>1. \A f \in DOMAIN s : /\ f \in DOMAIN U /\ s[f].parent = U[f].parent /\ s[f].name = U[f].name
                          /\ s[f].folder = U[f].folder /\ (s[f].folder = TRUE => s[f].hidden = U[f].hidden)
  BY DEF PartOf, Alike
<1>2. \A f \in DOMAIN s : s[f].folder \in BOOLEAN
  BY DEF Table, Node
<1>3. ASSUME NEW f \in DOMAIN R
      PROVE  /\ f \in DOMAIN s /\ R[f] \in Spots
             /\ s[f].parent = Root => R[f].hidden = s[f].hidden
             /\ s[f].parent # Root => /\ s[f].parent \in DOMAIN R
                                      /\ R[f].hidden = Either(R[s[f].parent].hidden, s[f].hidden)
  <2>1. f \in DOMAIN Resolved(s, C)
    BY <1>3
  <2>2. LET X == Resolved(s, C)
            up == s[f].parent
        IN  /\ f \in DOMAIN s /\ X[f] \in Spots /\ X[f].path # <<>>
            /\ up = Root => X[f].path = <<s[f].name>> /\ X[f].hidden = s[f].hidden
            /\ up # Root => /\ up \in C /\ up \in DOMAIN X
                            /\ X[f].path = Append(X[up].path, s[f].name)
                            /\ X[f].hidden = Either(X[up].hidden, s[f].hidden)
    BY <2>1, PlaceIs
  <2> QED
    BY <2>2
<1>4. \A f \in DOMAIN R : U[f].parent # Root => U[f].parent \in FoldersOf(U) /\ U[f].parent \in FoldersOf(s)
  <2> SUFFICES ASSUME NEW f \in DOMAIN R, U[f].parent # Root
               PROVE  U[f].parent \in FoldersOf(U) /\ U[f].parent \in FoldersOf(s)
    OBVIOUS
  <2>1. f \in DOMAIN s /\ f \in DOMAIN U /\ s[f].parent = U[f].parent
    BY <1>1, <1>3
  <2>2. U[f].parent \in FoldersOf(U) /\ U[f].parent \in DOMAIN R
    BY <1>3, <2>1, PathIs
  <2>3. U[f].parent \in DOMAIN s
    BY <1>3, <2>2
  <2> QED
    BY <1>1, <2>2, <2>3 DEF FoldersOf
<1>5. ASSUME NEW f \in DOMAIN R PROVE R[f].path = PathIn(U, f)
  <2>1. DOMAIN R \subseteq DOMAIN s /\ DOMAIN R \subseteq DOMAIN U
    BY <1>1, <1>3
  <2>2. \A g \in DOMAIN R : /\ s[g].parent = U[g].parent /\ s[g].name = U[g].name
                            /\ s[g].parent = Root \/ (s[g].parent \in DOMAIN R /\ s[g].parent \in FoldersOf(U))
    BY <1>1, <1>3, <1>4
  <2>3. Table(U) /\ f \in DOMAIN Resolved(s, C)
    BY <1>5 DEF Whole
  <2>4. Resolved(U, FoldersOf(U))[f].path = Resolved(s, C)[f].path
    BY <1>5, <2>1, <2>2, <2>3, SamePlaces
  <2> QED
    BY <2>4 DEF PathIn, At
<1>6. ASSUME NEW f \in DOMAIN R, f \in FoldersOf(s) PROVE R[f].hidden = HiddenIn(U, f)
  <2> DEFINE S == DOMAIN R \intersect FoldersOf(s)
  <2>1. S \subseteq DOMAIN s /\ S \subseteq DOMAIN U /\ f \in S
    BY <1>1, <1>3, <1>6
  <2>2. \A g \in S : s[g].parent = Root \/ (s[g].parent \in S /\ s[g].parent \in FoldersOf(U))
    BY <1>1, <1>3, <1>4
  <2>3. \A g \in S : s[g].parent = U[g].parent /\ s[g].name = U[g].name /\ s[g].hidden = U[g].hidden
    BY <1>1, <1>2 DEF FoldersOf
  <2>4. \A g \in S : /\ s[g].parent = U[g].parent /\ s[g].name = U[g].name /\ s[g].hidden = U[g].hidden
                     /\ s[g].parent = Root \/ (s[g].parent \in S /\ s[g].parent \in FoldersOf(U))
    BY <2>2, <2>3
  <2>5. Table(s) /\ Table(U) /\ f \in DOMAIN Resolved(s, C)
    BY <1>6 DEF Whole
  <2> HIDE DEF S
  <2>6. HiddenIn(U, f) = Resolved(s, C)[f].hidden
    BY <2>1, <2>4, <2>5, SameShown
  <2> QED
    BY <2>6
<1>7. ASSUME NEW f \in DOMAIN R, f \in FoldersOf(s) PROVE R[f] = At(U)[f]
  <2>1. R[f].path = At(U)[f].path /\ R[f].hidden = At(U)[f].hidden
    BY <1>5, <1>6, <1>7 DEF PathIn, HiddenIn
  <2>2. R[f] \in Spots /\ f \in DOMAIN U
    BY <1>1, <1>3
  <2>3. At(U)[f] \in Spots
    BY <2>2, PathIs
  <2> QED
    BY <2>1, <2>2, <2>3 DEF Spots
<1> QED
  BY <1>1, <1>3, <1>4, <1>5, <1>7 DEF Placed

\* What was there all the time was read, and has its place.
LEMMA ReadStays ==
    ASSUME NEW n \in Nat, NEW js, NEW h, NEW U, Window(js, h, n, U), NEW s, Table(s), NEW upto, upto > MaxFiles,
           upto \in Nat, ReadOf(s, upto, n, h), NEW C, C = FoldersOf(s) \/ C = DOMAIN s, NEW R, R = Resolved(s, C),
           NEW f \in DOMAIN h[0], f \in DOMAIN h[n]
    PROVE  f \in DOMAIN R
<1>1. /\ Whole(U) /\ Good(h[0]) /\ Good(h[n]) /\ PartOf(h[0], U) /\ PartOf(h[n], U)
      /\ \A t \in 0..n : DOMAIN h[0] \intersect DOMAIN h[n] \subseteq DOMAIN h[t]
  <2>1. 0 \in 0..n /\ n \in 0..n
    OBVIOUS
  <2>2. \A t \in 0..n : 0 <= t /\ t <= n
    OBVIOUS
  <2> QED
    BY <2>1, <2>2 DEF Window
<1>2. Whole(h[0]) /\ Whole(h[n]) /\ Table(h[0])
  BY <1>1 DEF Good, Whole
<1> DEFINE S == DOMAIN h[0] \intersect DOMAIN h[n]
<1>3. S \subseteq DOMAIN s
  <2> SUFFICES ASSUME NEW g \in S PROVE g \in DOMAIN s
    OBVIOUS
  <2>1. g \in Files
    BY <1>2, PathIs
  <2>2. g < upto
    BY <2>1, VolumeAssumption DEF Files
  <2> QED
    BY <1>1, <2>1, <2>2 DEF ReadOf
<1>4. PartOf(s, U)
  BY ReadPart
<1>5. \A g \in S : /\ h[0][g].parent = s[g].parent /\ h[0][g].name = s[g].name
                   /\ h[0][g].parent = U[g].parent /\ h[n][g].parent = U[g].parent
                   /\ h[0][g].folder = s[g].folder
  BY <1>1, <1>3, <1>4 DEF PartOf, Alike
<1>6. \A g \in S : h[0][g].parent = Root \/ (h[0][g].parent \in S /\ h[0][g].parent \in C)
  <2> SUFFICES ASSUME NEW g \in S, h[0][g].parent # Root
               PROVE  h[0][g].parent \in S /\ h[0][g].parent \in C
    OBVIOUS
  <2>1. h[0][g].parent \in FoldersOf(h[0]) /\ h[0][g].parent \in DOMAIN h[0]
    BY <1>2, PathIs
  <2>2. h[n][g].parent = h[0][g].parent
    BY <1>5
  <2>3. h[0][g].parent \in DOMAIN h[n]
    BY <1>2, <2>2, PathIs
  <2>4. h[0][g].parent \in S
    BY <2>1, <2>3
  <2>5. h[0][g].parent \in FoldersOf(s)
    BY <1>3, <1>5, <2>1, <2>4 DEF FoldersOf
  <2> QED
    BY <1>3, <2>4, <2>5
<1>7. f \in DOMAIN Resolved(h[0], FoldersOf(h[0])) /\ f \in S /\ S \subseteq DOMAIN h[0]
  BY <1>2 DEF Whole, At
<1>8. \A g \in S : /\ h[0][g].parent = s[g].parent /\ h[0][g].name = s[g].name
                   /\ h[0][g].parent = Root \/ (h[0][g].parent \in S /\ h[0][g].parent \in C)
  BY <1>5, <1>6
<1> HIDE DEF S
<1>9. f \in DOMAIN Resolved(s, C)
  BY <1>2, <1>3, <1>7, <1>8, SamePlaces
<1> QED
  BY <1>9

\* The rows a build leaves are of what it has read and given a place.
Rowed(rs, R, s) ==
    /\ \A p \in DOMAIN rs : \E g \in DOMAIN R : R[g].path = p /\ rs[p].folder = s[g].folder /\ rs[p].hidden = R[g].hidden
    /\ \A f \in DOMAIN R : R[f].path \in DOMAIN rs

LEMMA ReadHang ==
    ASSUME NEW s, NEW U, Whole(U), NEW R, Placed(R, s, U), NEW rs, Rowed(rs, R, s),
           NEW ds, ds = Restrict(R, DOMAIN R \intersect FoldersOf(s))
    PROVE  RowsHang(rs, ds)
<1> SUFFICES ASSUME NEW p \in DOMAIN rs
             PROVE  /\ p \in Named
                    /\ \/ \E n \in Names : p = <<n>>
                       \/ \E d \in DOMAIN ds, n \in Names : p = Append(ds[d].path, n)
  BY DEF RowsHang
<1>1. PICK g \in DOMAIN R : R[g].path = p
  BY DEF Rowed
<1>2. /\ g \in DOMAIN U /\ R[g].path = PathIn(U, g)
      /\ U[g].parent # Root => U[g].parent \in DOMAIN R /\ U[g].parent \in FoldersOf(s)
  BY DEF Placed
<1>3. /\ U[g].name \in Names /\ PathIn(U, g) \in Trails /\ PathIn(U, g) # <<>>
      /\ U[g].parent = Root => PathIn(U, g) = <<U[g].name>>
      /\ U[g].parent # Root => PathIn(U, g) = Append(PathIn(U, U[g].parent), U[g].name)
  BY <1>2, PathIs
<1>4. p \in Named
  BY <1>1, <1>2, <1>3 DEF Named
<1>5. CASE U[g].parent = Root
  BY <1>1, <1>2, <1>3, <1>4, <1>5
<1>6. CASE U[g].parent # Root
  <2>1. PICK d : d = U[g].parent
    OBVIOUS
  <2>2. d \in DOMAIN R /\ d \in FoldersOf(s) /\ p = Append(PathIn(U, d), U[g].name)
    BY <1>1, <1>2, <1>3, <1>6, <2>1
  <2>3. d \in DOMAIN ds /\ ds[d] = R[d]
    BY <2>2 DEF Restrict
  <2>4. R[d].path = PathIn(U, d)
    BY <2>2 DEF Placed
  <2>5. p = Append(ds[d].path, U[g].name)
    BY <2>2, <2>3, <2>4
  <2> QED
    BY <1>3, <1>4, <2>3, <2>5
<1> QED
  BY <1>5, <1>6

LEMMA ReadDirs ==
    ASSUME NEW n \in Nat, NEW js, NEW h, NEW U, Window(js, h, n, U), NEW s, NEW upto, ReadOf(s, upto, n, h),
           PartOf(s, U), NEW R, Placed(R, s, U), NEW ds, ds = Restrict(R, DOMAIN R \intersect FoldersOf(s))
    PROVE  DirsTrue(ds, js, h, n, U)
<1> SUFFICES ASSUME NEW d \in DOMAIN ds
             PROVE  /\ d \in FoldersOf(U) /\ ds[d] = At(U)[d]
                    /\ d \in DOMAIN h[n] \/ \E i \in 1..n : js[i].frn = d /\ "delete" \in js[i].reasons
                    /\ U[d].parent = Root \/ U[d].parent \in DOMAIN ds
  BY DEF DirsTrue
<1>1. d \in DOMAIN R /\ d \in FoldersOf(s) /\ ds[d] = R[d]
  BY DEF Restrict
<1>2. /\ d \in DOMAIN s /\ d \in DOMAIN U /\ R[d] = At(U)[d]
      /\ U[d].parent # Root => U[d].parent \in DOMAIN R /\ U[d].parent \in FoldersOf(s)
  BY <1>1 DEF Placed
<1>3. d \in FoldersOf(U)
  BY <1>1, <1>2 DEF PartOf, Alike, FoldersOf
<1>4. U[d].parent # Root => U[d].parent \in DOMAIN ds
  BY <1>2 DEF Restrict
<1>5. d \in DOMAIN h[n] \/ \E i \in 1..n : js[i].frn = d /\ "delete" \in js[i].reasons
  <2> SUFFICES ASSUME d \notin DOMAIN h[n] PROVE \E i \in 1..n : js[i].frn = d /\ "delete" \in js[i].reasons
    OBVIOUS
  <2>1. PICK t \in 0..n : d \in DOMAIN h[t]
    BY <1>2 DEF ReadOf
  <2>2. n \in 0..n /\ t <= n
    OBVIOUS
  <2>3. PICK i \in (t + 1)..n : js[i].frn = d /\ "delete" \in js[i].reasons
    BY <2>1, <2>2, GoneIsTold
  <2>4. i \in 1..n
    OBVIOUS
  <2> QED
    BY <2>3, <2>4
<1> QED
  BY <1>1, <1>2, <1>3, <1>4, <1>5

\* Of what no record speaks, the build has read what there was.
LEMMA ReadMatches ==
    ASSUME NEW n \in Nat, NEW js, NEW h, NEW U, Window(js, h, n, U), NEW s, NEW upto, ReadOf(s, upto, n, h),
           PartOf(s, U), NEW R, Placed(R, s, U), NEW rs, Rowed(rs, R, s),
           \A f \in DOMAIN h[0] : f \in DOMAIN h[n] => f \in DOMAIN R,
           NEW p, ~Told(js, n, U, p)
    PROVE  Matches(rs, h[0], p)
<1>1. /\ Whole(U) /\ Good(h[0]) /\ PartOf(h[0], U) /\ 0 \in 0..n /\ n \in 0..n
      /\ \A t \in 0..n : Good(h[t]) /\ PartOf(h[t], U) /\ 0 <= t /\ t <= n
  BY DEF Window
<1>2. Whole(h[0]) /\ \A t \in 0..n : Whole(h[t])
  BY <1>1 DEF Good
<1>3. ASSUME NEW f, PathIn(U, f) = p, NEW t \in 0..n
      PROVE  /\ f \in DOMAIN h[0] <=> f \in DOMAIN h[t]
             /\ f \in DOMAIN h[0] => h[t][f] = h[0][f]
  <2>1. \A i \in (0 + 1)..t : js[i].frn # f
    <3> SUFFICES ASSUME NEW i \in (0 + 1)..t PROVE js[i].frn # f
      OBVIOUS
    <3>1. i \in 1..n
      OBVIOUS
    <3> QED
      BY <1>3, <3>1 DEF Told
  <2> QED
    BY <1>1, <2>1, Quiet
\* What was read at the path was there from the beginning, as it was read.
<1>4. ASSUME NEW g \in DOMAIN R, R[g].path = p
      PROVE  g \in DOMAIN h[0] /\ PathIn(h[0], g) = p /\ s[g] = h[0][g]
  <2>1. g \in DOMAIN s /\ PathIn(U, g) = p
    BY <1>4 DEF Placed
  <2>2. PICK t \in 0..n : g \in DOMAIN h[t] /\ s[g] = h[t][g]
    BY <2>1 DEF ReadOf
  <2>3. g \in DOMAIN h[0] /\ h[t][g] = h[0][g]
    BY <1>3, <2>1, <2>2
  <2>4. PathIn(h[0], g) = PathIn(U, g)
    BY <1>1, <1>2, <2>3, PartIs
  <2> QED
    BY <2>1, <2>2, <2>3, <2>4
<1>5. ASSUME NEW f \in DOMAIN h[0], PathIn(h[0], f) = p
      PROVE  f \in DOMAIN R /\ R[f].path = p /\ PathIn(U, f) = p
  <2>1. PathIn(U, f) = p
    BY <1>1, <1>2, <1>5, PartIs
  <2>2. f \in DOMAIN h[n]
    BY <1>1, <1>3, <2>1
  <2>3. f \in DOMAIN R
    BY <2>2
  <2> QED
    BY <2>1, <2>3 DEF Placed
<1>6. ASSUME NEW f \in DOMAIN R, R[f].path = p, f \in DOMAIN h[0], s[f] = h[0][f]
      PROVE  R[f].hidden = HiddenIn(h[0], f)
  <2>1. f \in DOMAIN U /\ U[f].parent = h[0][f].parent
    BY <1>1, <1>6 DEF PartOf, Alike
  <2>2. CASE h[0][f].parent = Root
    <3>1. R[f].hidden = s[f].hidden
      BY <1>6, <2>1, <2>2 DEF Placed
    <3>2. HiddenIn(h[0], f) = h[0][f].hidden
      BY <1>2, <1>6, <2>2, PathIs
    <3> QED
      BY <1>6, <3>1, <3>2
  <2>3. CASE h[0][f].parent # Root
    <3>1. PICK u : u = h[0][f].parent
      OBVIOUS
    <3>2. u \in DOMAIN R /\ u \in FoldersOf(s) /\ R[f].hidden = Either(R[u].hidden, s[f].hidden)
      BY <1>6, <2>1, <2>3, <3>1 DEF Placed
    <3>3. u \in FoldersOf(h[0]) /\ u \in DOMAIN h[0] /\ HiddenIn(h[0], f) = Either(HiddenIn(h[0], u), h[0][f].hidden)
      BY <1>2, <1>6, <2>3, <3>1, PathIs
    <3>4. HiddenIn(h[0], u) = HiddenIn(U, u)
      BY <1>1, <1>2, <3>3, PartIs
    <3>5. R[u] = At(U)[u]
      BY <3>2 DEF Placed
    <3>6. R[u].hidden = HiddenIn(h[0], u)
      BY <3>4, <3>5 DEF HiddenIn
    <3> QED
      BY <1>6, <3>2, <3>3, <3>6
  <2> QED
    BY <2>2, <2>3
<1>7. ASSUME NEW f \in DOMAIN h[0], PathIn(h[0], f) = p
      PROVE  p \in DOMAIN rs /\ rs[p].folder = h[0][f].folder /\ rs[p].hidden = HiddenIn(h[0], f)
  <2>1. f \in DOMAIN R /\ R[f].path = p
    BY <1>5, <1>7
  <2>2. p \in DOMAIN rs
    BY <2>1 DEF Rowed
  <2>3. PICK g \in DOMAIN R : R[g].path = p /\ rs[p].folder = s[g].folder /\ rs[p].hidden = R[g].hidden
    BY <2>2 DEF Rowed
  <2>4. g \in DOMAIN h[0] /\ PathIn(h[0], g) = p /\ s[g] = h[0][g]
    BY <1>4, <2>3
  <2>5. g = f
    BY <1>1, <1>7, <2>4, OneAtAPath
  <2>6. R[g].hidden = HiddenIn(h[0], g)
    BY <1>6, <2>3, <2>4
  <2> QED
    BY <2>2, <2>3, <2>4, <2>5, <2>6
<1>8. p \in DOMAIN rs => \E f \in DOMAIN h[0] : PathIn(h[0], f) = p
  <2> SUFFICES ASSUME p \in DOMAIN rs PROVE \E f \in DOMAIN h[0] : PathIn(h[0], f) = p
    OBVIOUS
  <2>1. PICK g \in DOMAIN R : R[g].path = p
    BY DEF Rowed
  <2> QED
    BY <1>4, <2>1
<1> QED
  BY <1>7, <1>8 DEF Matches

\* What a build has read is behind by what happened while it read.
LEMMA ReadBehind ==
    ASSUME NEW n \in Nat, NEW js, NEW h, NEW U, Window(js, h, n, U), NEW s, Table(s), NEW upto \in Nat, upto > MaxFiles,
           ReadOf(s, upto, n, h), NEW C, C = FoldersOf(s) \/ C = DOMAIN s, NEW R, R = Resolved(s, C),
           NEW ds, ds = Restrict(R, DOMAIN R \intersect FoldersOf(s)), NEW rs, Rowed(rs, R, s)
    PROVE  Behind(rs, ds, js, h, n, U)
<1>1. /\ Whole(U) /\ Good(h[0]) /\ PartOf(h[0], U)
  BY DEF Window
<1>2. PartOf(s, U)
  BY ReadPart
<1>3. Placed(R, s, U)
  BY <1>1, <1>2, ReadPlaced
<1>4. \A f \in DOMAIN h[0] : f \in DOMAIN h[n] => f \in DOMAIN R
  BY ReadStays
<1>5. RowsTell(rs, js, h, n, U)
  BY <1>2, <1>3, <1>4, ReadMatches DEF RowsTell
<1>6. RowsHang(rs, ds)
  BY <1>1, <1>3, ReadHang
<1>7. DirsTrue(ds, js, h, n, U)
  BY <1>2, <1>3, ReadDirs
<1>8. DirsHold(ds, h, n)
  <2> SUFFICES ASSUME NEW d \in FoldersOf(h[0]), d \in DOMAIN h[n] PROVE d \in DOMAIN ds
    BY DEF DirsHold
  <2>1. d \in DOMAIN h[0] /\ h[0][d].folder = TRUE
    <3>1. d \in DOMAIN h[0]
      BY DEF FoldersOf
    <3> QED
      BY <1>1, <3>1, FolderIs DEF Good
  <2>2. d \in DOMAIN R
    BY <1>4, <2>1
  <2>3. d \in DOMAIN s /\ s[d].folder = TRUE
    BY <1>1, <1>2, <1>3, <2>1, <2>2 DEF PartOf, Alike, Placed
  <2> QED
    BY <2>2, <2>3 DEF Restrict, FoldersOf
<1> QED
  BY <1>5, <1>6, <1>7, <1>8 DEF Behind

\* The rows name entries, and none was written later than g.
Aged(rs, g) == DOMAIN rs \subseteq Named /\ \A p \in DOMAIN rs : rs[p].gen <= g

\* What an entry is written as.
EntryOf(e, node, place) == e.folder = node.folder /\ e.hidden = place.hidden

LEMMA EntryIs ==
    ASSUME NEW node, NEW place
    PROVE  EntryOf([folder |-> node.folder, hidden |-> place.hidden], node, place)
  BY DEF EntryOf

LEMMA EntriesAre ==
    ASSUME NEW nodes, NEW places
    PROVE  /\ DOMAIN Entries(nodes, places) = {places[f].path : f \in DOMAIN places}
           /\ \A p \in DOMAIN Entries(nodes, places) :
                 \E g \in DOMAIN places : /\ places[g].path = p
                                          /\ EntryOf(Entries(nodes, places)[p], nodes[g], places[g])
<1> DEFINE at(p) == CHOOSE f \in DOMAIN places : places[f].path = p
<1>1. ASSUME NEW p \in {places[f].path : f \in DOMAIN places}
      PROVE  at(p) \in DOMAIN places /\ places[at(p)].path = p
  OBVIOUS
<1>2. /\ DOMAIN Entries(nodes, places) = {places[f].path : f \in DOMAIN places}
      /\ \A p \in DOMAIN Entries(nodes, places) :
            Entries(nodes, places)[p] = [folder |-> nodes[at(p)].folder, hidden |-> places[at(p)].hidden]
  BY DEF Entries
<1> HIDE DEF at
<1>3. ASSUME NEW p \in DOMAIN Entries(nodes, places)
      PROVE  EntryOf(Entries(nodes, places)[p], nodes[at(p)], places[at(p)])
  <2>1. PICK g : g = at(p)
    OBVIOUS
  <2>2. Entries(nodes, places)[p] = [folder |-> nodes[g].folder, hidden |-> places[g].hidden]
    BY <1>2, <2>1, Zenon
  <2> QED
    BY <2>1, <2>2, EntryIs, Zenon
<1> QED
  BY <1>1, <1>2, <1>3, Zenon

LEMMA UnderRoot ==
    ASSUME NEW p \in Named
    PROVE  Under(p, <<>>)
<1>1. p \in Trails /\ <<>> \in Trails /\ Len(<<>>) = 0 /\ p # <<>>
  BY EmptySeq DEF Named, Trails
<1>2. Within(p, <<>>)
  BY <1>1, WithinIs
<1> QED
  BY <1>1, <1>2, UnderIs

\* The sweep leaves what the build has written.
LEMMA SweptRows ==
    ASSUME NEW rs, NEW es, NEW g \in Nat, DOMAIN rs \subseteq Named, RowsTypeOK(rs), \A p \in DOMAIN rs : rs[p].gen < g,
           NEW sw, sw = SweepVanished(UpsertEntries(rs, es, g), <<>>, g)
    PROVE  /\ DOMAIN sw = DOMAIN es
           /\ \A p \in DOMAIN es : sw[p].folder = es[p].folder /\ sw[p].hidden = es[p].hidden
<1> DEFINE up == UpsertEntries(rs, es, g)
<1>1. /\ DOMAIN up = DOMAIN rs \union DOMAIN es
      /\ \A p \in DOMAIN es : up[p] = [folder |-> es[p].folder, hidden |-> es[p].hidden, gen |-> g]
      /\ \A p \in DOMAIN rs : p \notin DOMAIN es => up[p] = rs[p]
  BY DEF UpsertEntries
<1> HIDE DEF up
<1>2. /\ DOMAIN sw = {p \in DOMAIN up : Under(p, <<>>) => up[p].gen >= g}
      /\ \A p \in DOMAIN sw : sw[p] = up[p]
  BY DEF SweepVanished, Restrict, up
<1>3. \A p \in DOMAIN es : p \in DOMAIN sw
  BY <1>1, <1>2
<1>4. ASSUME NEW p \in DOMAIN sw PROVE p \in DOMAIN es
  <2> SUFFICES ASSUME p \notin DOMAIN es PROVE FALSE
    OBVIOUS
  <2>1. p \in DOMAIN rs /\ up[p] = rs[p] /\ (Under(p, <<>>) => up[p].gen >= g)
    BY <1>1, <1>2, <1>4
  <2>2. Under(p, <<>>)
    BY <2>1, UnderRoot
  <2>3. rs[p].gen \in Nat /\ rs[p].gen < g
    BY <2>1 DEF RowsTypeOK, Row
  <2> QED
    BY <2>1, <2>2, <2>3
<1>5. DOMAIN sw = DOMAIN es
  BY <1>3, <1>4
<1> QED
  BY <1>1, <1>2, <1>5

\* When all is read and written, the rows the sweep will leave are kept by the journal.
LEMMA WritesKept ==
    ASSUME VolumeTyped, Watched, WritesRows, DOMAIN rows \subseteq Named, \A p \in DOMAIN rows : rows[p].gen < build
    PROVE  Kept(SweepVanished(rows', <<>>, build), dirs', pending', journal', disk')
<1>0. /\ RowsTypeOK(rows) /\ build \in Nat /\ position \in Nat /\ Table(seen) /\ journal \in Seq(Records)
  BY DEF VolumeTyped
<1>1. PICK n \in Nat : n = Len(journal)
  BY <1>0, LenProperties
<1>2. phase = "reading" /\ position > MaxFiles
  BY DEF WritesRows
<1>3. PICK h, U : Followed(journal, n, h, U, disk, left) /\ ReadOf(seen, position, n, h)
  BY <1>1, <1>2 DEF Watched
<1>4. Window(journal, h, n, U) /\ h[n] = disk
  BY <1>3 DEF Followed
<1>5. PICK C : (C = FoldersOf(seen) \/ C = DOMAIN seen) /\ Places = Resolved(seen, C)
  BY DEF Places
<1>6. PICK R : R = Places
  OBVIOUS
<1>7. PICK es : es = Entries(seen, R)
  OBVIOUS
<1>8. PICK sw : sw = SweepVanished(UpsertEntries(rows, es, build), <<>>, build)
  OBVIOUS
<1>9. /\ DOMAIN sw = DOMAIN es
      /\ \A p \in DOMAIN es : sw[p].folder = es[p].folder /\ sw[p].hidden = es[p].hidden
  BY <1>0, <1>8, SweptRows
<1>10. Rowed(sw, R, seen)
  <2>1. /\ DOMAIN es = {R[f].path : f \in DOMAIN R}
        /\ \A p \in DOMAIN es : \E g \in DOMAIN R : R[g].path = p /\ EntryOf(es[p], seen[g], R[g])
    BY <1>7, EntriesAre
  <2>2. ASSUME NEW p \in DOMAIN sw
        PROVE  \E g \in DOMAIN R : R[g].path = p /\ sw[p].folder = seen[g].folder /\ sw[p].hidden = R[g].hidden
    <3>1. PICK g \in DOMAIN R : R[g].path = p /\ EntryOf(es[p], seen[g], R[g])
      BY <1>9, <2>1, <2>2
    <3>2. sw[p].folder = es[p].folder /\ sw[p].hidden = es[p].hidden
      BY <1>9, <2>2
    <3> QED
      BY <3>1, <3>2 DEF EntryOf
  <2>3. \A f \in DOMAIN R : R[f].path \in DOMAIN sw
    BY <1>9, <2>1
  <2> QED
    BY <2>2, <2>3 DEF Rowed
<1>11. Behind(sw, Restrict(R, DOMAIN R \intersect FoldersOf(seen)), journal, h, n, U)
  BY <1>0, <1>2, <1>3, <1>4, <1>5, <1>6, <1>10, ReadBehind
<1>12. Behind(sw, dirs', journal, h, n, U)
  BY <1>6, <1>11 DEF WritesRows
<1>13. /\ rows' = UpsertEntries(rows, es, build) /\ journal' = journal /\ disk' = disk /\ pending' = pending
  BY <1>6, <1>7 DEF WritesRows, diskVars
<1>14. Story(journal, pending, h, n, U)
  <2>1. \A i \in 0..n : Good(h[i])
    BY <1>4 DEF Window
  <2>2. n \in 0..n /\ \A i : ~(i \in (n + 1)..n)
    OBVIOUS
  <2> QED
    BY <1>1, <1>4, <2>1, <2>2 DEF Story
<1>15. Kept(sw, dirs', pending, journal, disk)
  BY <1>1, <1>4, <1>12, <1>14 DEF Kept
<1> QED
  BY <1>8, <1>13, <1>15

LEMMA UpsertAged ==
    ASSUME NEW rs, NEW es, NEW g \in Nat, NEW old, old <= g, \A p \in DOMAIN rs : rs[p].gen <= old,
           old \in Nat, RowsTypeOK(rs)
    PROVE  \A p \in DOMAIN UpsertEntries(rs, es, g) : UpsertEntries(rs, es, g)[p].gen <= g
<1>1. \A p \in DOMAIN rs : rs[p].gen \in Nat
  BY DEF RowsTypeOK, Row
<1>2. ASSUME NEW p \in DOMAIN UpsertEntries(rs, es, g)
      PROVE  UpsertEntries(rs, es, g)[p].gen <= g
  <2>1. CASE p \in DOMAIN es
    BY <1>2, <2>1 DEF UpsertEntries
  <2>2. CASE p \notin DOMAIN es
    <3>1. p \in DOMAIN rs /\ UpsertEntries(rs, es, g)[p] = rs[p]
      BY <1>2, <2>2 DEF UpsertEntries
    <3> QED
      BY <1>1, <3>1
  <2> QED
    BY <2>1, <2>2
<1> QED
  BY <1>2

LEMMA RenameAged ==
    ASSUME NEW rs, NEW g \in Nat, \A p \in DOMAIN rs : rs[p].gen <= g, RowsTypeOK(rs),
           NEW old \in Trails, NEW new \in Trails
    PROVE  \A p \in DOMAIN Rename(rs, old, new, g) : Rename(rs, old, new, g)[p].gen <= g
<1> DEFINE kept == IF old = new THEN rs ELSE DeleteSubtree(rs, new)
           moved == {p \in DOMAIN kept : Within(p, old)}
           landed == {Rebased(p, old, new) : p \in moved}
           res == [p \in (DOMAIN kept \ moved) \union landed |->
                      IF p \in landed THEN [kept[Rebased(p, new, old)] EXCEPT !.gen = g] ELSE kept[p]]
<1>1. Rename(rs, old, new, g) = res
  BY DEF Rename
<1>2. \A p \in DOMAIN kept : p \in Trails /\ kept[p] \in Row
  BY DeleteTyped DEF RowsTypeOK, Trails
<1>3. \A p \in DOMAIN kept : kept[p].gen <= g
  BY DEF DeleteSubtree, Restrict
<1> HIDE DEF kept
<1>4. ASSUME NEW p \in landed PROVE res[p].gen <= g
  <2>1. PICK q \in moved : p = Rebased(q, old, new)
    OBVIOUS
  <2>2. q \in DOMAIN kept /\ Within(q, old) /\ q \in Trails /\ kept[q] \in Row
    BY <1>2
  <2>3. Rebased(p, new, old) = q
    BY <2>1, <2>2, RebasedIs
  <2>4. res[p] = [kept[Rebased(p, new, old)] EXCEPT !.gen = g]
    OBVIOUS
  <2> QED
    BY <2>2, <2>3, <2>4 DEF Row
<1>5. ASSUME NEW p \in DOMAIN kept \ moved, p \notin landed PROVE res[p].gen <= g
  BY <1>3, <1>5
<1>6. DOMAIN res = (DOMAIN kept \ moved) \union landed
  OBVIOUS
<1> HIDE DEF res, landed, moved
<1> QED
  BY <1>1, <1>4, <1>5, <1>6

\* The tail writes rows with the generation of the build, and none with a later one.
LEMMA GensKept ==
    ASSUME Tailed, build \in Nat, \A p \in DOMAIN rows : rows[p].gen <= build, NEW rec \in Records, Applies(rec)
    PROVE  \A p \in DOMAIN rows' : rows'[p].gen <= build
<1>0. RowsTypeOK(rows)
  BY DEF Tailed
<1>1. CASE rows' = rows
  BY <1>1
<1>2. CASE ApplyDelete(rec)
  <2>1. rows' = DeleteSubtree(rows, PathOf(rec))
    BY <1>2 DEF ApplyDelete
  <2>2. \A p \in DOMAIN rows' : p \in DOMAIN rows /\ rows'[p] = rows[p]
    BY <2>1 DEF DeleteSubtree, Restrict
  <2> QED
    BY <2>2
<1>3. CASE ApplyUpsert(rec)
  <2>1. PICK es : rows' = UpsertEntries(rows, es, build)
    BY <1>3 DEF ApplyUpsert
  <2> QED
    BY <1>0, <2>1, UpsertAged
<1>4. CASE Resolves(rec) /\ ApplyRename(rec)
  <2>1. CASE rec.frn \in DOMAIN pending
    <3>1. rows' = Rename(rows, pending[rec.frn], PathOf(rec), build)
      BY <1>4, <2>1 DEF ApplyRename
    <3>2. pending[rec.frn] \in Trails /\ PathOf(rec) \in Trails
      BY <1>4, <2>1, PathTyped DEF Tailed, PendingTyped
    <3> QED
      BY <1>0, <3>1, <3>2, RenameAged
  <2>2. CASE rec.frn \notin DOMAIN pending
    BY <1>3, <1>4, <2>2 DEF ApplyRename
  <2> QED
    BY <2>1, <2>2
<1> QED
  BY <1>1, <1>2, <1>3, <1>4 DEF Applies

\* Rows that are kept are of entries.
LEMMA KeptNamed ==
    ASSUME NEW rs, NEW ds, NEW pd, NEW js, NEW D, Kept(rs, ds, pd, js, D)
    PROVE  DOMAIN rs \subseteq Named
<1>1. PICK h, w, U : Behind(rs, ds, js, h, w, U)
  BY DEF Kept
<1> QED
  BY <1>1 DEF Behind, RowsHang

\* A tree programs leave is a tree, and they keep no handle.
LEMMA StaysGood ==
    ASSUME Habits \subseteq {"hides"}, DiskTyped, Good(disk), DOMAIN handles = {}, ProgramsAct
    PROVE  Good(disk') /\ DOMAIN handles' = {}
<1>1. PICK f \in Files : \/ \E keep \in Keeps : Creates(f, keep) \/ Moves(f, keep)
                         \/ Deletes(f) \/ Hides(f) \/ Closes(f)
  BY DEF ProgramsAct
<1>2. CASE \E keep \in Keeps : Creates(f, keep)
  BY <1>2, CreateTells DEF Tells
<1>3. CASE \E keep \in Keeps : Moves(f, keep)
  BY <1>3, MoveTells
<1>4. CASE Deletes(f)
  BY <1>4, DeleteTells DEF Tells
<1>5. CASE Hides(f)
  BY <1>5, HideTells DEF Tells
<1>6. ~Closes(f)
  BY DEF Closes
<1> QED
  BY <1>1, <1>2, <1>3, <1>4, <1>5, <1>6

\* The volume is a tree when the first helper starts, and rows there may be are old.
LEMMA StartsGood ==
    ASSUME Init
    PROVE  Good(disk) /\ DOMAIN handles = {} /\ Aged(rows, 0)
<1>1. DOMAIN handles = {}
  BY DEF Init
<1>2. Table(disk)
  BY TypedInit DEF VolumeTyped
<1>3. Whole(disk)
  BY <1>2 DEF Init, OnDisk, Whole, At
<1>4. Good(disk)
  BY <1>3 DEF Init, ChildrenOf, Good
<1>5. Aged(rows, 0)
  <2>1. PICK known \in {{}, {<<n>> : n \in Names}} :
           rows = Restrict([p \in Paths |-> [folder |-> FALSE, hidden |-> FALSE, gen |-> 0]], known)
    BY DEF Init
  <2>2. \A p \in known : p \in Named /\ p \in Paths
    <3> SUFFICES ASSUME NEW n \in Names PROVE <<n>> \in Named /\ <<n>> \in Paths
      BY <2>1
    <3>1. <<n>> \in [1..1 -> Names] /\ 1 \in 1..MaxDepth
      BY RowsAssumption
    <3>2. <<n>> \in Seq(Names) /\ <<n>> # <<>>
      OBVIOUS
    <3> QED
      BY <3>1, <3>2 DEF Paths, Named, Trails
  <2> QED
    BY <2>1, <2>2 DEF Aged, Restrict
<1> QED
  BY <1>1, <1>4, <1>5

LEMMA EntriesNamed ==
    ASSUME VolumeTyped, NEW places, \A f \in DOMAIN places : f \in DOMAIN Places /\ places[f] = Places[f]
    PROVE  DOMAIN Entries(seen, places) \subseteq Named
<1>1. ASSUME NEW f \in DOMAIN Places PROVE Places[f].path \in Named
  <2>1. PICK carriers : Places = Resolved(seen, carriers)
    BY DEF Places
  <2>2. Table(seen)
    BY DEF VolumeTyped
  <2>3. Places[f] \in Spots /\ Places[f].path # <<>>
    BY <1>1, <2>1, <2>2, PlaceIs
  <2> QED
    BY <2>3 DEF Spots, Named
<1>2. DOMAIN Entries(seen, places) = {places[f].path : f \in DOMAIN places}
  BY EntriesAre
<1> QED
  BY <1>1, <1>2

LEMMA WrittenAged ==
    ASSUME VolumeTyped, Aged(rows, build), NEW es, DOMAIN es \subseteq Named
    PROVE  Aged(UpsertEntries(rows, es, build), build)
<1>1. RowsTypeOK(rows) /\ build \in Nat
  BY DEF VolumeTyped
<1>2. build <= build
  BY <1>1
<1>3. DOMAIN rows \subseteq Named /\ \A p \in DOMAIN rows : rows[p].gen <= build
  BY DEF Aged
<1>4. DOMAIN UpsertEntries(rows, es, build) \subseteq Named
  BY <1>3 DEF UpsertEntries
<1> QED
  BY <1>1, <1>2, <1>3, <1>4, UpsertAged DEF Aged

\* Nothing is known to a new helper but what the last has written.
LEMMA EndAged ==
    ASSUME VolumeTyped, HelperEnds, Aged(rows, build)
    PROVE  Aged(rows', build)
<1>1. PICK written \in SUBSET DOMAIN Places :
         rows' = IF phase = "reading" /\ position > MaxFiles
                 THEN UpsertEntries(rows, Entries(seen, Restrict(Places, written)), build) ELSE rows
  BY DEF HelperEnds
<1>2. \A f \in DOMAIN Restrict(Places, written) : f \in DOMAIN Places /\ Restrict(Places, written)[f] = Places[f]
  BY DEF Restrict
<1>3. DOMAIN Entries(seen, Restrict(Places, written)) \subseteq Named
  BY <1>2, EntriesNamed
<1> QED
  BY <1>1, <1>3, WrittenAged

LEMMA WritesAged ==
    ASSUME VolumeTyped, WritesRows, Aged(rows, build)
    PROVE  Aged(rows', build)
<1>1. rows' = UpsertEntries(rows, Entries(seen, Places), build)
  BY DEF WritesRows
<1>2. DOMAIN Entries(seen, Places) \subseteq Named
  BY EntriesNamed
<1> QED
  BY <1>1, <1>2, WrittenAged

\* Nobody reads a journal nobody has a place in.
LEMMA ClosedIsQuiet ==
    ASSUME ProgramsAct, phase = "closed"
    PROVE  journal' = <<>>
<1>1. \A records : Journals(records) => journal' = <<>>
  BY DEF Journals
<1>2. PICK f \in Files : \/ \E keep \in Keeps : Creates(f, keep) \/ Moves(f, keep)
                         \/ Deletes(f) \/ Hides(f) \/ Closes(f)
  BY DEF ProgramsAct
<1>3. \A node, reasons, keep : Closing(f, node, reasons, keep) => journal' = <<>>
  BY <1>1 DEF Closing
<1>4. ASSUME NEW keep \in Keeps, Creates(f, keep) PROVE journal' = <<>>
  BY <1>3, <1>4 DEF Creates
<1>5. ASSUME NEW keep \in Keeps, Moves(f, keep) PROVE journal' = <<>>
  BY <1>1, <1>5 DEF Moves
<1>6. CASE Deletes(f) \/ Hides(f) \/ Closes(f)
  BY <1>3, <1>6 DEF Deletes, Hides, Closes
<1> QED
  BY <1>2, <1>4, <1>5, <1>6

LEMMA TailKept ==
    ASSUME journal \in Seq(Records), RowsTypeOK(rows), TailApplies, Kept(rows, dirs, pending, journal, disk)
    PROVE  Kept(rows', dirs', pending', journal', disk)
<1>1. journal # <<>> /\ journal' = Tail(journal) /\ Applies(Head(journal))
  BY DEF TailApplies
<1>2. Len(journal) \in Nat /\ Len(journal) # 0
  BY <1>1, EmptySeq, LenProperties
<1>3. Head(journal) = journal[1] /\ Len(Tail(journal)) = Len(journal) - 1
  BY <1>1, HeadTailProperties
<1>4. \A i \in 1..(Len(journal) - 1) : Tail(journal)[i] = journal[i + 1]
  BY <1>1, HeadTailProperties
<1>5. PICK n : n = Len(journal)
  OBVIOUS
<1>6. PICK js2 : js2 = journal'
  OBVIOUS
<1>7. Kept(rows', dirs', pending', js2, disk)
  BY <1>1, <1>2, <1>3, <1>4, <1>5, <1>6, TailStep
<1> QED
  BY <1>6, <1>7

--------------------------------------------------------------------------------
(* All the way. *)

\* What holds at each phase: the journal is a history of the volume from where it was opened,
\* then one by which rows and directory map are behind.
VolumeTrue ==
    /\ VolumeTyped /\ Good(disk) /\ DOMAIN handles = {} /\ Aged(rows, build)
    /\ phase \in {"closed", "over", "open", "reading", "written", "swept", "tailing"}
    /\ phase = "closed" => journal = <<>>
    /\ phase = "reading" => \A p \in DOMAIN rows : rows[p].gen < build
    /\ phase \in {"open", "reading"} => Watched
    /\ phase = "written" => Kept(SweepVanished(rows, <<>>, build), dirs, pending, journal, disk)
    /\ phase \in {"swept", "tailing"} => Kept(rows, dirs, pending, journal, disk)

LEMMA TrueInit == Init => VolumeTrue
<1> SUFFICES ASSUME Init PROVE VolumeTrue
  OBVIOUS
<1>1. phase = "closed" /\ journal = <<>> /\ build = 0
  BY DEF Init
<1> QED
  BY <1>1, TypedInit, StartsGood DEF VolumeTrue

LEMMA TrueNext ==
    ASSUME Habits \subseteq {"hides"}, Mishaps = {}, VolumeTrue, [Next]_vars
    PROVE  VolumeTrue'
<1>1. VolumeTyped'
  BY TypedNext DEF VolumeTrue
<1>2. DiskTyped /\ Tailed /\ build \in Nat /\ position \in Nat /\ RowsTypeOK(rows) /\ journal \in Seq(Records)
  BY DEF VolumeTrue, VolumeTyped, DiskTyped, Tailed
<1>3. CASE ProgramsAct
  <2>1. Good(disk') /\ DOMAIN handles' = {}
    BY <1>2, <1>3, StaysGood DEF VolumeTrue
  <2>2. /\ rows' = rows /\ phase' = phase /\ build' = build /\ position' = position /\ seen' = seen
        /\ dirs' = dirs /\ pending' = pending
    BY <1>3 DEF ProgramsAct, buildVars, tailVars
  <2>3. Aged(rows', build') /\ (phase' = "reading" => \A p \in DOMAIN rows' : rows'[p].gen < build')
    BY <2>2 DEF VolumeTrue
  <2>4. ASSUME phase' = "closed" PROVE journal' = <<>>
    BY <1>3, <2>2, <2>4, ClosedIsQuiet DEF VolumeTrue
  <2>5. phase' \in {"open", "reading"} => Watched'
    BY <1>2, <1>3, <2>2, WatchedWhileUsed DEF VolumeTrue
  <2>6. ASSUME phase' = "written" PROVE Kept(SweepVanished(rows', <<>>, build'), dirs', pending', journal', disk')
    <3>1. Kept(SweepVanished(rows, <<>>, build), dirs, pending, journal', disk')
      BY <1>2, <1>3, <2>2, <2>6, KeptWhileUsed DEF VolumeTrue
    <3> QED
      BY <2>2, <3>1
  <2>7. ASSUME phase' \in {"swept", "tailing"} PROVE Kept(rows', dirs', pending', journal', disk')
    <3>1. Kept(rows, dirs, pending, journal', disk')
      BY <1>2, <1>3, <2>2, <2>7, KeptWhileUsed DEF VolumeTrue
    <3> QED
      BY <2>2, <3>1
  <2> QED
    BY <1>1, <2>1, <2>2, <2>3, <2>4, <2>5, <2>6, <2>7 DEF VolumeTrue
<1>4. CASE Opens
  <2>1. UNCHANGED <<disk, handles, journal, rows, build>> /\ journal = <<>> /\ phase' \in {"open", "over"}
    BY <1>4 DEF Opens, diskVars, buildVars, VolumeTrue
  <2>2. phase' = "open" => Watched'
    BY <1>4, <2>1, WatchedOpens DEF VolumeTrue
  <2>3. Good(disk') /\ DOMAIN handles' = {} /\ Aged(rows', build')
    BY <2>1 DEF VolumeTrue
  <2> QED
    BY <1>1, <2>1, <2>2, <2>3 DEF VolumeTrue
<1>5. CASE BeginsBuild
  <2>1. UNCHANGED <<disk, handles, journal, rows>> /\ build' = build + 1 /\ phase' = "reading" /\ phase = "open"
    BY <1>5 DEF BeginsBuild, diskVars
  <2>2. Watched'
    BY <1>2, <1>5, <2>1, WatchedBegins DEF VolumeTrue
  <2>3. Good(disk') /\ DOMAIN handles' = {}
    BY <2>1 DEF VolumeTrue
  <2>4. Aged(rows', build') /\ \A p \in DOMAIN rows' : rows'[p].gen < build'
    <3>1. \A p \in DOMAIN rows : rows[p].gen \in Nat /\ rows[p].gen <= build
      BY <1>2 DEF VolumeTrue, Aged, RowsTypeOK, Row
    <3> QED
      BY <1>2, <2>1, <3>1 DEF VolumeTrue, Aged
  <2> QED
    BY <1>1, <2>1, <2>2, <2>3, <2>4 DEF VolumeTrue
<1>6. CASE ReadsRecord \/ FallsBack
  <2>1. UNCHANGED <<disk, handles, journal, rows, build, phase>> /\ phase = "reading"
    BY <1>6 DEF ReadsRecord, FallsBack, diskVars
  <2>2. Watched'
    BY <1>2, <1>6, <2>1, WatchedReads, WatchedBegins DEF VolumeTrue
  <2>3. Good(disk') /\ DOMAIN handles' = {} /\ Aged(rows', build') /\ \A p \in DOMAIN rows' : rows'[p].gen < build'
    BY <2>1 DEF VolumeTrue
  <2> QED
    BY <1>1, <2>1, <2>2, <2>3 DEF VolumeTrue
<1>7. CASE WritesRows
  <2>1. UNCHANGED <<disk, handles, journal, build>> /\ phase' = "written" /\ phase = "reading"
    BY <1>7 DEF WritesRows, diskVars, buildVars
  <2>2. Kept(SweepVanished(rows', <<>>, build), dirs', pending', journal', disk')
    BY <1>7, <2>1, WritesKept DEF VolumeTrue, Aged
  <2>3. Good(disk') /\ DOMAIN handles' = {}
    BY <2>1 DEF VolumeTrue
  <2>4. Aged(rows', build')
    BY <1>7, <2>1, WritesAged DEF VolumeTrue
  <2> QED
    BY <1>1, <2>1, <2>2, <2>3, <2>4 DEF VolumeTrue
<1>8. CASE Sweeps
  <2>1. /\ UNCHANGED <<disk, handles, journal, build, dirs, pending>> /\ phase' = "swept" /\ phase = "written"
        /\ rows' = SweepVanished(rows, <<>>, build)
    BY <1>8 DEF Sweeps, diskVars, buildVars, tailVars
  <2>2. Kept(rows', dirs', pending', journal', disk')
    BY <2>1 DEF VolumeTrue
  <2>3. Good(disk') /\ DOMAIN handles' = {}
    BY <2>1 DEF VolumeTrue
  <2>4. Aged(rows', build')
    BY <2>1 DEF VolumeTrue, Aged, SweepVanished, Restrict
  <2> QED
    BY <1>1, <2>1, <2>2, <2>3, <2>4 DEF VolumeTrue
<1>9. CASE Registers
  <2>1. UNCHANGED <<disk, handles, journal, rows, build, dirs, pending>> /\ phase' = "tailing" /\ phase = "swept"
    BY <1>9 DEF Registers, diskVars, tailVars
  <2>2. Kept(rows', dirs', pending', journal', disk') /\ Good(disk') /\ DOMAIN handles' = {} /\ Aged(rows', build')
    BY <2>1 DEF VolumeTrue
  <2> QED
    BY <1>1, <2>1, <2>2 DEF VolumeTrue
<1>10. CASE TailApplies
  <2>1. UNCHANGED <<disk, handles, build, phase>> /\ phase = "tailing"
    BY <1>10 DEF TailApplies, buildVars
  <2>2. Kept(rows', dirs', pending', journal', disk)
    BY <1>2, <1>10, <2>1, TailKept DEF VolumeTrue
  <2>3. Good(disk') /\ DOMAIN handles' = {} /\ Kept(rows', dirs', pending', journal', disk')
    BY <2>1, <2>2 DEF VolumeTrue
  <2>4. \A p \in DOMAIN rows' : rows'[p].gen <= build
    <3>1. Head(journal) \in Records /\ Applies(Head(journal))
      BY <1>2, <1>10, HeadTailProperties DEF TailApplies
    <3> QED
      BY <1>2, <3>1, GensKept DEF VolumeTrue, Aged
  <2>5. Aged(rows', build')
    BY <2>1, <2>2, <2>4, KeptNamed DEF Aged
  <2> QED
    BY <1>1, <2>1, <2>3, <2>5 DEF VolumeTrue
<1>11. CASE TailEnds
  <2>1. UNCHANGED <<disk, handles, rows, build>> /\ phase' = "over"
    BY <1>11 DEF TailEnds, buildVars
  <2>2. Good(disk') /\ DOMAIN handles' = {} /\ Aged(rows', build')
    BY <2>1 DEF VolumeTrue
  <2> QED
    BY <1>1, <2>1, <2>2 DEF VolumeTrue
<1>12. CASE HelperEnds
  <2>1. UNCHANGED <<disk, handles, build>> /\ phase' = "closed" /\ journal' = <<>>
    BY <1>12 DEF HelperEnds
  <2>2. Good(disk') /\ DOMAIN handles' = {} /\ Aged(rows', build')
    BY <1>12, <2>1, EndAged DEF VolumeTrue
  <2> QED
    BY <1>1, <2>1, <2>2 DEF VolumeTrue
<1>13. CASE UNCHANGED vars
  <2>1. UNCHANGED <<disk, handles, journal, rows, phase, build, position, seen, dirs, pending, left>>
    BY <1>13 DEF vars, diskVars, buildVars, tailVars, historyVars
  <2>2. Watched => Watched'
    BY <2>1 DEF Watched
  <2> QED
    BY <1>1, <2>1, <2>2 DEF VolumeTrue
<1> QED
  BY <1>3, <1>4, <1>5, <1>6, <1>7, <1>8, <1>9, <1>10, <1>11, <1>12, <1>13 DEF Next, IndexerActs

\* A tail with nothing to apply is with the volume.
LEMMA CaughtUpIsExact ==
    ASSUME VolumeTrue, CaughtUp
    PROVE  Exact(rows, dirs, disk) /\ Good(disk)
<1>1. journal = <<>> /\ Len(journal) = 0 /\ Kept(rows, dirs, pending, journal, disk) /\ Good(disk)
  BY EmptySeq DEF CaughtUp, VolumeTrue
<1>2. PICK h, w, U : /\ Story(journal, pending, h, w, U) /\ h[Len(journal)] = disk
                     /\ Behind(rows, dirs, journal, h, w, U)
  BY <1>1, Zenon DEF Kept
<1>3. w = 0 /\ Window(journal, h, w, U)
  BY <1>1, <1>2 DEF Story
<1> QED
  BY <1>1, <1>2, <1>3, ExactIs

\* For every tree, every set of names and record numbers, and every helper: while programs
\* create and delete what they like, move it when no table is being read and use no record
\* number again while one is, and only files become hidden, what a tail has brought up to date
\* is what is on the volume.  A row the build wrote of what has gone since is told to go by
\* the journal, which was opened before (run_volume), and one of what it has not seen is told
\* to come; a rename takes with it what is below (fs_index.rs rename, rewrite_dir_subtree).
THEOREM TailCatchesUp ==
    ASSUME Habits \subseteq {"hides"}, Mishaps = {}
    PROVE  Spec => []IndexedIsThere
<1>1. ASSUME VolumeTrue PROVE IndexedIsThere
  <2> SUFFICES ASSUME CaughtUp
               PROVE  /\ DOMAIN rows = {OnDisk[f].path : f \in DOMAIN disk}
                      /\ \A f \in DOMAIN disk : rows[OnDisk[f].path].folder = disk[f].folder
                      /\ DOMAIN dirs = FoldersOf(disk)
                      /\ \A f \in DOMAIN dirs : dirs[f].path = OnDisk[f].path
    BY DEF IndexedIsThere
  <2>1. Exact(rows, dirs, disk) /\ Whole(disk)
    BY <1>1, CaughtUpIsExact DEF Good
  <2>2. \A f : PathIn(disk, f) = OnDisk[f].path /\ At(disk)[f] = OnDisk[f]
    BY DEF PathIn, OnDisk, At
  <2>3. \A f \in DOMAIN disk : PathIn(disk, f) \in Named
    BY <2>1, PathIs DEF Named
  <2>4. /\ DOMAIN rows \subseteq Named /\ \A p \in Named : Matches(rows, disk, p)
        /\ DOMAIN dirs = FoldersOf(disk) /\ \A d \in DOMAIN dirs : dirs[d] = At(disk)[d]
    BY <2>1 DEF Exact
  <2>5. \A f \in DOMAIN disk : PathIn(disk, f) \in DOMAIN rows /\ rows[PathIn(disk, f)].folder = disk[f].folder
    BY <2>3, <2>4 DEF Matches
  <2>6. \A p \in DOMAIN rows : \E f \in DOMAIN disk : PathIn(disk, f) = p
    BY <2>4 DEF Matches
  <2>7. DOMAIN rows = {OnDisk[f].path : f \in DOMAIN disk}
    BY <2>2, <2>5, <2>6
  <2> QED
    BY <2>2, <2>4, <2>5, <2>7
<1>2. Init => VolumeTrue
  BY TrueInit
<1>3. VolumeTrue /\ [Next]_vars => VolumeTrue'
  BY TrueNext
<1> QED
  BY <1>1, <1>2, <1>3, PTL DEF Spec

\* ... and hidden is what is hidden: an entry under a hidden folder is so though its own flag
\* is not set, whether its row is of the build (try_resolve) or of a record the tail applied
\* (effective_hidden), and a file whose flag has changed since it was read has its new one.
THEOREM HiddenCatchesUp ==
    ASSUME Habits \subseteq {"hides"}, Mishaps = {}
    PROVE  Spec => []HiddenIsHidden
<1>1. ASSUME VolumeTrue PROVE HiddenIsHidden
  <2> SUFFICES ASSUME CaughtUp, NEW f \in DOMAIN disk
               PROVE  rows[OnDisk[f].path].hidden = OnDisk[f].hidden
    BY DEF HiddenIsHidden
  <2>1. Exact(rows, dirs, disk) /\ Whole(disk)
    BY <1>1, CaughtUpIsExact DEF Good
  <2>2. PathIn(disk, f) = OnDisk[f].path /\ HiddenIn(disk, f) = OnDisk[f].hidden
    BY DEF PathIn, HiddenIn, OnDisk, At
  <2>3. PathIn(disk, f) \in Named
    BY <2>1, PathIs DEF Named
  <2>4. rows[PathIn(disk, f)].hidden = HiddenIn(disk, f)
    BY <2>1, <2>3 DEF Exact, Matches
  <2> QED
    BY <2>2, <2>4
<1>2. Init => VolumeTrue
  BY TrueInit
<1>3. VolumeTrue /\ [Next]_vars => VolumeTrue'
  BY TrueNext
<1> QED
  BY <1>1, <1>2, <1>3, PTL DEF Spec
================================================================================
