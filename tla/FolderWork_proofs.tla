---------------------------- MODULE FolderWork_proofs ----------------------------
(***************************************************************************)
(* For any names, any plans and any number of operations, undos, redos,    *)
(* kills and changes by the user: every entry is at one place; nothing is  *)
(* lost but for what the purge at start takes; of a pass that is over every *)
(* item is accounted for once; and the history tells the truth: a delete   *)
(* in it holds what it says, and the folder looks as the last operation    *)
(* left it.  Three invariants carry this.  Inv: what the lists of a pass,  *)
(* the records and the disk are to one another.  KeptOK: what records hold *)
(* is there, but for what is being put back.  CleanOK: the folder is, at   *)
(* every step of a pass, what it was when the pass began, less what is     *)
(* done or stands aside, with what has come; and the records join up.      *)
(***************************************************************************)
EXTENDS FolderWork, SequenceTheorems, FiniteSetTheorems, WellFoundedInduction, TLAPS

(***************************************************************************)
(* Lists of items.  The id of an element says which item it is.            *)
(***************************************************************************)
Ids(s)  == {s[i].id : i \in DOMAIN s}
Once(s) == \A i, j \in DOMAIN s : s[i].id = s[j].id => i = j

\* A list of a known type, its elements and their ids.
LEMMA ListIs ==
    ASSUME NEW X, NEW s \in Seq(X)
    PROVE  /\ DOMAIN s = 1..Len(s) /\ Len(s) \in Nat
           /\ Range(s) \subseteq X
           /\ Ids(s) = {e.id : e \in Range(s)}
           /\ \A i \in DOMAIN s : s[i] \in Range(s) /\ s[i].id \in Ids(s)
           /\ \A e \in Range(s) : \E i \in DOMAIN s : s[i] = e
           /\ s = <<>> <=> Range(s) = {}
<1>1. DOMAIN s = 1..Len(s) /\ Len(s) \in Nat
  BY LenProperties
<1>2. \A i \in 1..Len(s) : s[i] \in X
  BY ElementOfSeq
<1>3. s = <<>> <=> Len(s) = 0
  BY EmptySeq
<1>4. Range(s) = {s[i] : i \in 1..Len(s)}
  BY <1>1 DEF Range
<1>5. s = <<>> <=> Range(s) = {}
  <2>1. CASE Len(s) = 0
    BY <1>3, <1>4, <2>1
  <2>2. CASE Len(s) # 0
    <3>1. 1 \in 1..Len(s)
      BY <1>1, <2>2
    <3> QED
      BY <1>3, <1>4, <2>2, <3>1
  <2> QED
    BY <2>1, <2>2
<1>6. Range(s) \subseteq X
  BY <1>2, <1>4
<1>7. Ids(s) = {e.id : e \in Range(s)}
  BY DEF Range, Ids
<1>8. \A i \in DOMAIN s : s[i] \in Range(s) /\ s[i].id \in Ids(s)
  BY DEF Range, Ids
<1>9. \A e \in Range(s) : \E i \in DOMAIN s : s[i] = e
  BY DEF Range
<1> QED
  BY <1>1, <1>5, <1>6, <1>7, <1>8, <1>9

\* An id names one element of a list that has it once.
LEMMA OneOfAnId ==
    ASSUME NEW X, NEW s \in Seq(X), Once(s), NEW d \in Range(s), NEW e \in Range(s), d.id = e.id
    PROVE  d = e
BY DEF Once, Range

\* The empty list is of every type.
LEMMA NoneListed ==
    /\ Range(<<>>) = {} /\ Ids(<<>>) = {} /\ Once(<<>>)
    /\ \A X : <<>> \in Seq(X)
BY DEF Range, Ids, Once

\* The first is taken off.
LEMMA TailListed ==
    ASSUME NEW X, NEW s \in Seq(X), s # <<>>, Once(s)
    PROVE  /\ Head(s) \in Range(s) /\ Head(s) \in X /\ Head(s).id \in Ids(s)
           /\ Tail(s) \in Seq(X) /\ Once(Tail(s))
           /\ Ids(Tail(s)) = Ids(s) \ {Head(s).id}
           /\ Range(s) = Range(Tail(s)) \union {Head(s)}
           /\ Head(s) \notin Range(Tail(s))
<1> DEFINE t == Tail(s)
<1>1. /\ Head(s) \in X /\ t \in Seq(X) /\ Len(t) = Len(s) - 1
      /\ \A i \in 1..Len(t) : t[i] = s[i + 1]
  BY HeadTailProperties
<1>2. DOMAIN s = 1..Len(s) /\ DOMAIN t = 1..Len(t) /\ Len(s) \in Nat /\ Len(t) \in Nat
  BY <1>1, LenProperties
<1>3. 1 \in DOMAIN s /\ Head(s) = s[1]
  BY <1>2, EmptySeq
<1> HIDE DEF t
<1>4. \A i \in DOMAIN t : i + 1 \in DOMAIN s /\ t[i] = s[i + 1] /\ i + 1 # 1
  BY <1>1, <1>2
<1>5. \A i \in DOMAIN s : i = 1 \/ (i - 1 \in DOMAIN t /\ t[i - 1] = s[i])
  <2> TAKE i \in DOMAIN s
  <2>1. CASE i # 1
    <3>1. i - 1 \in 1..Len(t) /\ (i - 1) + 1 = i
      BY <1>1, <1>2, <2>1
    <3> QED
      BY <1>1, <1>2, <3>1
  <2> QED
    BY <2>1
<1>6. Once(t)
  <2> SUFFICES ASSUME NEW i \in DOMAIN t, NEW j \in DOMAIN t, t[i].id = t[j].id PROVE i = j
    BY DEF Once
  <2>1. i + 1 = j + 1
    BY <1>4 DEF Once
  <2> QED
    BY <1>2, <2>1
<1>7. \A i \in DOMAIN t : t[i].id # Head(s).id
  BY <1>3, <1>4 DEF Once
<1>8. Ids(t) = Ids(s) \ {Head(s).id}
  <2>1. \A x \in Ids(t) : x \in Ids(s) \ {Head(s).id}
    BY <1>4, <1>7 DEF Ids
  <2>2. \A x \in Ids(s) \ {Head(s).id} : x \in Ids(t)
    BY <1>3, <1>5 DEF Ids
  <2> QED
    BY <2>1, <2>2
<1>9. Range(s) = Range(t) \union {Head(s)}
  <2>1. \A x \in Range(t) \union {Head(s)} : x \in Range(s)
    BY <1>3, <1>4 DEF Range
  <2>2. \A x \in Range(s) : x \in Range(t) \union {Head(s)}
    BY <1>3, <1>5 DEF Range
  <2> QED
    BY <2>1, <2>2
<1>10. Head(s) \notin Range(t)
  BY <1>7 DEF Range
<1> QED
  BY <1>1, <1>3, <1>6, <1>8, <1>9, <1>10 DEF Range, Ids, t

\* One is put at the end.
LEMMA AppendListed ==
    ASSUME NEW X, NEW s \in Seq(X), NEW e \in X, Once(s), e.id \notin Ids(s)
    PROVE  /\ Append(s, e) \in Seq(X) /\ Once(Append(s, e))
           /\ Ids(Append(s, e)) = Ids(s) \union {e.id}
           /\ Range(Append(s, e)) = Range(s) \union {e}
           /\ Append(s, e) # <<>>
<1> DEFINE t == Append(s, e)
<1>1. /\ t \in Seq(X) /\ Len(t) = Len(s) + 1 /\ \A i \in 1..Len(s) : t[i] = s[i]
      /\ t[Len(s) + 1] = e
  BY AppendProperties
<1>2. DOMAIN s = 1..Len(s) /\ DOMAIN t = 1..Len(t) /\ Len(s) \in Nat /\ Len(t) \in Nat
  BY <1>1, LenProperties
<1> HIDE DEF t
<1>3. \A i \in DOMAIN t : (i \in DOMAIN s /\ t[i] = s[i]) \/ (i = Len(s) + 1 /\ t[i] = e)
  BY <1>1, <1>2
<1>4. \A i \in DOMAIN s : i \in DOMAIN t /\ t[i] = s[i] /\ s[i].id # e.id
  BY <1>1, <1>2 DEF Ids
<1>5. Len(s) + 1 \in DOMAIN t
  BY <1>1, <1>2
<1>6. Once(t)
  BY <1>3, <1>4 DEF Once
<1>7. Ids(t) = Ids(s) \union {e.id}
  <2>1. \A x \in Ids(t) : x \in Ids(s) \union {e.id}
    BY <1>3 DEF Ids
  <2>2. \A x \in Ids(s) \union {e.id} : x \in Ids(t)
    BY <1>1, <1>4, <1>5 DEF Ids
  <2> QED
    BY <2>1, <2>2
<1>8. Range(t) = Range(s) \union {e}
  <2>1. \A x \in Range(t) : x \in Range(s) \union {e}
    BY <1>3 DEF Range
  <2>2. \A x \in Range(s) \union {e} : x \in Range(t)
    BY <1>1, <1>4, <1>5 DEF Range
  <2> QED
    BY <2>1, <2>2
<1>9. t # <<>>
  BY <1>1, <1>2, EmptySeq
<1> QED
  BY <1>1, <1>6, <1>7, <1>8, <1>9 DEF t

\* Two lists are joined.
LEMMA JoinListed ==
    ASSUME NEW X, NEW s \in Seq(X), NEW t \in Seq(X), Once(s), Once(t), Ids(s) \intersect Ids(t) = {}
    PROVE  /\ s \o t \in Seq(X) /\ Once(s \o t)
           /\ Ids(s \o t) = Ids(s) \union Ids(t)
           /\ Range(s \o t) = Range(s) \union Range(t)
<1> DEFINE u == s \o t
<1>1. /\ u \in Seq(X) /\ Len(u) = Len(s) + Len(t)
      /\ \A i \in 1..(Len(s) + Len(t)) : u[i] = IF i <= Len(s) THEN s[i] ELSE t[i - Len(s)]
  BY ConcatProperties
<1>2. /\ DOMAIN s = 1..Len(s) /\ DOMAIN t = 1..Len(t) /\ DOMAIN u = 1..Len(u)
      /\ Len(s) \in Nat /\ Len(t) \in Nat
  BY <1>1, LenProperties
<1> HIDE DEF u
<1>3. \A i \in DOMAIN u : \/ i \in DOMAIN s /\ u[i] = s[i]
                          \/ i - Len(s) \in DOMAIN t /\ u[i] = t[i - Len(s)]
  BY <1>1, <1>2
<1>4. \A i \in DOMAIN s : i \in DOMAIN u /\ u[i] = s[i]
  BY <1>1, <1>2
<1>5. \A i \in DOMAIN t : i + Len(s) \in DOMAIN u /\ u[i + Len(s)] = t[i]
  <2> TAKE i \in DOMAIN t
  <2>1. i + Len(s) \in 1..(Len(s) + Len(t)) /\ ~(i + Len(s) <= Len(s)) /\ (i + Len(s)) - Len(s) = i
    BY <1>2
  <2> QED
    BY <1>1, <1>2, <2>1
<1>6. Once(u)
  <2> SUFFICES ASSUME NEW i \in DOMAIN u, NEW j \in DOMAIN u, u[i].id = u[j].id PROVE i = j
    BY DEF Once
  <2>1. CASE i \in DOMAIN s /\ j \in DOMAIN s /\ u[i] = s[i] /\ u[j] = s[j]
    BY <2>1 DEF Once
  <2>2. CASE i - Len(s) \in DOMAIN t /\ j - Len(s) \in DOMAIN t /\ u[i] = t[i - Len(s)] /\ u[j] = t[j - Len(s)]
    <3>1. i - Len(s) = j - Len(s)
      BY <2>2 DEF Once
    <3> QED
      BY <1>2, <3>1
  <2>3. CASE i \in DOMAIN s /\ j - Len(s) \in DOMAIN t /\ u[i] = s[i] /\ u[j] = t[j - Len(s)]
    BY <2>3 DEF Ids
  <2>4. CASE j \in DOMAIN s /\ i - Len(s) \in DOMAIN t /\ u[j] = s[j] /\ u[i] = t[i - Len(s)]
    BY <2>4 DEF Ids
  <2> QED
    BY <1>3, <2>1, <2>2, <2>3, <2>4
<1>7. Ids(u) = Ids(s) \union Ids(t)
  <2>1. \A x \in Ids(u) : x \in Ids(s) \union Ids(t)
    BY <1>3 DEF Ids
  <2>2. \A x \in Ids(s) \union Ids(t) : x \in Ids(u)
    BY <1>4, <1>5 DEF Ids
  <2> QED
    BY <2>1, <2>2
<1>8. Range(u) = Range(s) \union Range(t)
  <2>1. \A x \in Range(u) : x \in Range(s) \union Range(t)
    BY <1>3 DEF Range
  <2>2. \A x \in Range(s) \union Range(t) : x \in Range(u)
    BY <1>4, <1>5 DEF Range
  <2> QED
    BY <2>1, <2>2
<1> QED
  BY <1>1, <1>6, <1>7, <1>8 DEF u

\* A list is turned round.
LEMMA ReverseListed ==
    ASSUME NEW X, NEW s \in Seq(X), Once(s)
    PROVE  /\ Reverse(s) \in Seq(X) /\ Once(Reverse(s))
           /\ Ids(Reverse(s)) = Ids(s) /\ Range(Reverse(s)) = Range(s)
           /\ Reverse(s) = <<>> <=> s = <<>>
<1> DEFINE t == Reverse(s)
<1>1. DOMAIN s = 1..Len(s) /\ Len(s) \in Nat
  BY LenProperties
<1>2. t = [i \in 1..Len(s) |-> s[(Len(s) - i) + 1]]
  BY DEF Reverse
<1>3. \A i \in 1..Len(s) : (Len(s) - i) + 1 \in 1..Len(s) /\ (Len(s) - ((Len(s) - i) + 1)) + 1 = i
  BY <1>1
<1>4. \A i \in 1..Len(s) : s[(Len(s) - i) + 1] \in X
  BY <1>3, ElementOfSeq
<1>5. t \in Seq(X)
  BY <1>1, <1>2, <1>4, IsASeq
<1>6. DOMAIN t = 1..Len(s) /\ \A i \in 1..Len(s) : t[i] = s[(Len(s) - i) + 1]
  BY <1>2
<1> HIDE DEF t
<1>7. \A i \in 1..Len(s) : s[i] = t[(Len(s) - i) + 1]
  BY <1>3, <1>6
<1>8. Once(t)
  <2> SUFFICES ASSUME NEW i \in 1..Len(s), NEW j \in 1..Len(s), t[i].id = t[j].id PROVE i = j
    BY <1>6 DEF Once
  <2>1. (Len(s) - i) + 1 = (Len(s) - j) + 1
    BY <1>1, <1>3, <1>6 DEF Once
  <2> QED
    BY <1>1, <2>1
<1>9. Ids(t) = Ids(s)
  <2>1. \A x \in Ids(t) : x \in Ids(s)
    BY <1>1, <1>3, <1>6 DEF Ids
  <2>2. \A x \in Ids(s) : x \in Ids(t)
    BY <1>1, <1>3, <1>6, <1>7 DEF Ids
  <2> QED
    BY <2>1, <2>2
<1>10. Range(t) = Range(s)
  <2>1. \A x \in Range(t) : x \in Range(s)
    BY <1>1, <1>3, <1>6 DEF Range
  <2>2. \A x \in Range(s) : x \in Range(t)
    BY <1>1, <1>3, <1>6, <1>7 DEF Range
  <2> QED
    BY <2>1, <2>2
<1>11. t = <<>> <=> s = <<>>
  BY <1>5, <1>10, ListIs
<1> QED
  BY <1>5, <1>8, <1>9, <1>10, <1>11 DEF t

\* Each element of s becomes another of the same id, of type Y.
Maps(s, t, Y) == t \in [DOMAIN s -> Y] /\ \A i \in DOMAIN s : t[i].id = s[i].id

\* A list so made has the ids of the other one.
LEMMA MapListed ==
    ASSUME NEW X, NEW Y, NEW s \in Seq(X), NEW t, Maps(s, t, Y)
    PROVE  /\ t \in Seq(Y) /\ Ids(t) = Ids(s) /\ (Once(s) => Once(t))
           /\ DOMAIN t = DOMAIN s /\ (t = <<>> <=> s = <<>>)
           /\ \A e \in Range(t) : \E i \in DOMAIN s : e = t[i]
<1>1. DOMAIN s = 1..Len(s) /\ Len(s) \in Nat /\ DOMAIN t = DOMAIN s
  BY LenProperties DEF Maps
<1>2. t \in Seq(Y)
  <2>1. t \in [1..Len(s) -> Y]
    BY <1>1 DEF Maps
  <2> QED
    BY <1>1, <2>1, SeqDef
<1>3. Ids(t) = Ids(s)
  BY <1>1 DEF Maps, Ids
<1>4. Once(s) => Once(t)
  BY <1>1 DEF Maps, Once
<1>5. Len(t) = Len(s)
  <2>1. DOMAIN t = 1..Len(t) /\ Len(t) \in Nat
    BY <1>2, LenProperties
  <2> QED
    BY <1>1, <2>1
<1>6. t = <<>> <=> s = <<>>
  BY <1>2, <1>5, EmptySeq
<1>7. \A e \in Range(t) : \E i \in DOMAIN s : e = t[i]
  BY <1>1 DEF Range
<1> QED
  BY <1>1, <1>2, <1>3, <1>4, <1>6, <1>7

\* How many of a set of places there are up to each: at one more place, one more or as many.
LEMMA CountUpTo ==
    ASSUME NEW L \in Nat, NEW S, S \subseteq 1..L
    PROVE  LET C(i) == Cardinality(S \intersect 1..i)
           IN  /\ IsFiniteSet(S) /\ Cardinality(S) \in Nat /\ C(0) = 0 /\ C(L) = Cardinality(S)
               /\ \A i \in 0..L : C(i) \in Nat
               /\ \A i \in 1..L : C(i) = IF i \in S THEN C(i - 1) + 1 ELSE C(i - 1)
<1> DEFINE C(i) == Cardinality(S \intersect 1..i)
<1>1. IsFiniteSet(S)
  <2>1. IsFiniteSet(1..L)
    BY FS_Interval
  <2> QED
    BY <2>1, FS_Subset
<1>2. \A i \in 0..L : IsFiniteSet(S \intersect 1..i) /\ C(i) \in Nat
  BY <1>1, FS_Subset, FS_CardinalityType
<1>3. C(0) = 0
  <2>1. S \intersect 1..0 = {}
    OBVIOUS
  <2> QED
    BY <2>1, FS_EmptySet
<1>4. C(L) = Cardinality(S)
  <2>1. S \intersect 1..L = S
    OBVIOUS
  <2> QED
    BY <2>1
<1>5. ASSUME NEW i \in 1..L PROVE C(i) = IF i \in S THEN C(i - 1) + 1 ELSE C(i - 1)
  <2>1. i - 1 \in 0..L /\ i \notin S \intersect 1..(i - 1)
    OBVIOUS
  <2>2. CASE i \in S
    <3>1. S \intersect 1..i = (S \intersect 1..(i - 1)) \union {i}
      BY <2>2
    <3> QED
      BY <1>2, <2>1, <2>2, <3>1, FS_AddElement
  <2>3. CASE i \notin S
    <3>1. S \intersect 1..i = S \intersect 1..(i - 1)
      BY <2>3
    <3> QED
      BY <2>3, <3>1
  <2> QED
    BY <2>2, <2>3
<1>6. Cardinality(S) \in Nat
  BY <1>1, FS_CardinalityType
<1> QED
  BY <1>1, <1>2, <1>3, <1>4, <1>5, <1>6

\* The counts never fall.
LEMMA CountsGrow ==
    ASSUME NEW L \in Nat, NEW S, S \subseteq 1..L, NEW i \in 0..L, NEW j \in 0..L, i <= j
    PROVE  /\ Cardinality(S \intersect 1..i) <= Cardinality(S \intersect 1..j)
           /\ i < j /\ j \in S => Cardinality(S \intersect 1..i) < Cardinality(S \intersect 1..j)
<1> DEFINE C(k) == Cardinality(S \intersect 1..k)
<1>1. IsFiniteSet(S) /\ \A k \in 0..L : C(k) \in Nat
  BY CountUpTo
<1>2. \A k \in 0..L : IsFiniteSet(S \intersect 1..k)
  BY <1>1, FS_Subset
<1>3. S \intersect 1..i \subseteq S \intersect 1..j
  OBVIOUS
<1>4. C(i) <= C(j)
  BY <1>2, <1>3, FS_Subset
<1>5. ASSUME i < j, j \in S PROVE C(i) < C(j)
  <2>1. j \in S \intersect 1..j /\ j \notin S \intersect 1..i
    BY <1>5
  <2>2. S \intersect 1..i \subseteq (S \intersect 1..j) \ {j}
    BY <1>3, <2>1
  <2>3. IsFiniteSet((S \intersect 1..j) \ {j}) /\ Cardinality((S \intersect 1..j) \ {j}) = C(j) - 1
    BY <1>2, <2>1, FS_RemoveElement
  <2>4. C(i) <= C(j) - 1
    BY <2>2, <2>3, FS_Subset
  <2> QED
    BY <1>1, <2>4
<1> QED
  BY <1>4, <1>5

\* Among picks out what is in a set, each element as often as it is listed.
LEMMA AmongListed ==
    ASSUME NEW X, NEW s \in Seq(X), NEW S
    PROVE  /\ Among(s, S) \in Seq(X)
           /\ Range(Among(s, S)) = Range(s) \intersect S
           /\ Once(s) => Once(Among(s, S))
<1> DEFINE L  == Len(s)
           at == {i \in DOMAIN s : s[i] \in S}
           C(i) == Cardinality(at \intersect 1..i)
           N  == Cardinality(at)
           of(n) == CHOOSE i \in at : C(i) = n
           t  == [n \in 1..N |-> s[of(n)]]
<1>1. L \in Nat /\ DOMAIN s = 1..L /\ \A i \in 1..L : s[i] \in X
  BY LenProperties, ElementOfSeq
<1>2. at \subseteq 1..L /\ \A i \in 1..L : i \in at <=> s[i] \in S
  BY <1>1
<1>3. /\ N \in Nat /\ C(0) = 0 /\ C(L) = N /\ \A i \in 0..L : C(i) \in Nat
      /\ \A i \in 1..L : C(i) = IF i \in at THEN C(i - 1) + 1 ELSE C(i - 1)
  BY <1>1, <1>2, CountUpTo
<1>4. \A i, j \in 0..L : i <= j => C(i) <= C(j) /\ (i < j /\ j \in at => C(i) < C(j))
  BY <1>1, <1>2, CountsGrow
<1>5. t = Among(s, S)
  BY DEF Among
<1> HIDE DEF at, C, N, t
<1>6. ASSUME NEW n \in 1..N PROVE \E i \in at : C(i) = n
  <2> DEFINE R == {i \in 0..L : C(i) >= n}
  <2>1. L \in R
    BY <1>1, <1>3, <1>6
  <2>2. R \subseteq Nat /\ R # {}
    BY <1>1, <2>1
  <2>3. PICK m \in R : \A k \in R : m <= k
    <3>1. PICK m \in R : \A k \in R : ~(<<k, m>> \in OpToRel(<, Nat))
      BY <2>2, WFMin, NatLessThanWellFounded
    <3> HIDE DEF R
    <3>2. \A k \in R : ~(k < m) /\ k \in Nat /\ m \in Nat
      BY <2>2, <3>1 DEF OpToRel
    <3>3. \A k \in R : m <= k
      BY <3>2
    <3> QED
      BY <3>3
  <2>4. m \in 0..L /\ C(m) >= n
    BY <2>3
  <2>5. m # 0
    BY <1>3, <1>6, <2>4
  <2>6. m - 1 \in 0..L /\ m \in 1..L /\ ~(m <= m - 1)
    BY <1>1, <2>4, <2>5
  <2>7. ~(C(m - 1) >= n)
    BY <2>3, <2>6
  <2>8. m \in at /\ C(m) = n
    BY <1>3, <1>6, <2>4, <2>6, <2>7
  <2> QED
    BY <2>8
<1>7. \A n \in 1..N : of(n) \in at /\ C(of(n)) = n
  BY <1>6
<1>8. \A i \in at : C(i) \in 1..N /\ of(C(i)) = i
  <2> TAKE i \in at
  <2>1. i \in 1..L /\ i - 1 \in 0..L /\ i \in 0..L /\ L \in 0..L /\ i <= L
    BY <1>1, <1>2
  <2>2. C(i) = C(i - 1) + 1 /\ C(i - 1) \in Nat /\ C(i) <= N
    BY <1>3, <1>4, <2>1
  <2>3. C(i) \in 1..N
    BY <1>3, <2>1, <2>2
  <2>4. of(C(i)) \in at /\ C(of(C(i))) = C(i)
    BY <1>7, <2>3
  <2>5. of(C(i)) \in 0..L
    <3>1. of(C(i)) \in 1..L
      BY <1>2, <2>4
    <3> QED
      BY <1>1, <3>1
  <2>6. of(C(i)) = i
    BY <1>1, <1>3, <1>4, <2>1, <2>4, <2>5
  <2> QED
    BY <2>3, <2>6
<1> HIDE DEF of
<1>9. DOMAIN t = 1..N /\ \A n \in 1..N : t[n] = s[of(n)] /\ of(n) \in 1..L /\ t[n] \in X /\ t[n] \in S
  BY <1>1, <1>2, <1>7 DEF t
<1>10. t \in Seq(X)
  <2>1. t \in [1..N -> X]
    BY <1>9 DEF t
  <2> QED
    BY <1>3, <2>1, SeqDef
<1>11. Range(t) = Range(s) \intersect S
  <2>1. \A x \in Range(t) : x \in Range(s) \intersect S
    BY <1>1, <1>9 DEF Range
  <2>2. ASSUME NEW x \in Range(s), x \in S PROVE x \in Range(t)
    <3>1. PICK i \in 1..L : x = s[i]
      BY <1>1 DEF Range
    <3>2. i \in at
      BY <1>2, <2>2, <3>1
    <3>3. C(i) \in DOMAIN t /\ t[C(i)] = x
      BY <1>8, <1>9, <3>1, <3>2
    <3> QED
      BY <3>3 DEF Range
  <2> QED
    BY <2>1, <2>2
<1>12. Once(s) => Once(t)
  <2> SUFFICES ASSUME Once(s), NEW m \in 1..N, NEW n \in 1..N, t[m].id = t[n].id PROVE m = n
    BY <1>9 DEF Once
  <2>1. of(m) = of(n)
    BY <1>1, <1>9 DEF Once
  <2> QED
    BY <1>7, <2>1
<1> QED
  BY <1>5, <1>10, <1>11, <1>12

(***************************************************************************)
(* A pass.                                                                 *)
(***************************************************************************)
Folder == {In(name) : name \in Names}
Asides == {p \in Places : p.at = "aside"}
Stores == {p \in Places : p.at \in {"held", "beside", "bin"}}

Items    == [src : Places, dst : Places \union {Nowhere}, from : Places,
             way : {"name", "bin", "hold", "erase", "done"}, id : Nat]
Failures == [src : Places, denied : BOOLEAN, from : Places, id : Nat]
Outcomes == [done : Seq(Items), failed : Seq(Failures), stagings : SUBSET Nat]
Runs     == [job : {"none", "rename", "delete", "restore"}, doing : {"do", "undo", "redo"},
             pass : {1, 2}, phase : {"aside", "work", "bin"},
             plan : Seq(Items), asked : Seq(Items), todo : Seq(Items), ready : Seq(Items),
             outcome : Outcomes, first : Outcomes, batch : Nat, cancelled : BOOLEAN]

\* What an item is in a plan of a kind, and in what was done of one.
Fits(job, e) ==
    /\ job = "rename" => e.src \in Folder \union Asides /\ e.dst \in Folder
    /\ job = "delete" => e.src \in Folder /\ e.dst = Nowhere
    /\ job = "restore" => e.src \in Folder /\ e.dst \in Stores
Went(job, d) ==
    /\ d.from = d.src
    /\ job = "rename" => d.src \in Folder \union Asides /\ d.dst \in Folder
    /\ job = "delete" => d.src \in Folder /\ (d.dst = Nowhere \/ (d.dst \in Stores /\ d.dst.name = d.src.name))
    /\ job = "restore" => d.src \in Folder /\ d.dst \in Stores

\* The items of a plan are different ones, at different places.
Asks(job, plan) ==
    /\ Once(plan)
    /\ \A a \in Range(plan) : Fits(job, a) /\ a.from = a.src
    /\ \A a, b \in Range(plan) : a.src = b.src => a.id = b.id
Plan(job, plan) ==
    /\ Asks(job, plan)
    /\ \A a \in Range(plan) : a.src \in Folder
    /\ job = "rename" => \A a, b \in Range(plan) : a.dst = b.dst => a.id = b.id

\* An element of a list is an item that was asked for.
SameItem(e, a)         == e.id = a.id /\ e.src = a.src
Asked(e, plan)     == \E a \in Range(plan) : SameItem(e, a)
AskedTo(e, plan)   == \E a \in Range(plan) : SameItem(e, a) /\ e.dst = a.dst

\* An entry stands under its own name or, in a rename, under a temporary one of its own.
Stands(job, e, plan) ==
    e.from = e.src \/ (job = "rename" /\ e.from \in Asides /\ \A a \in Range(plan) : e.from # a.src)

\* What came of a list of items.
Worked(job, plan, o) ==
    /\ Once(o.done) /\ Once(o.failed) /\ Ids(o.done) \intersect Ids(o.failed) = {}
    /\ \A d \in Range(o.done) : Went(job, d) /\ Asked(d, plan) /\ (job # "delete" => AskedTo(d, plan))
    /\ \A f \in Range(o.failed) : Asked(f, plan) /\ Stands(job, f, plan)
    /\ \A f, g \in Range(o.failed) : f.from = g.from => f.id = g.id

Waiting(r) == Range(r.todo) \union Range(r.ready)
Waits(r) ==
    /\ Once(r.todo) /\ Once(r.ready) /\ Ids(r.todo) \intersect Ids(r.ready) = {}
    /\ Ids(r.todo) \intersect Ids(r.outcome.done) = {} /\ Ids(r.todo) \intersect Ids(r.outcome.failed) = {}
    /\ Ids(r.ready) \intersect Ids(r.outcome.done) = {} /\ Ids(r.ready) \intersect Ids(r.outcome.failed) = {}
    /\ \A e \in Waiting(r) : AskedTo(e, r.asked) /\ Stands(r.job, e, r.asked)
    /\ \A e \in Waiting(r), f \in Waiting(r) \union Range(r.outcome.failed) : e.from = f.from => e.id = f.id
    /\ r.cancelled \/ Ids(r.asked) \subseteq Ids(r.todo) \union Ids(r.ready) \union Ids(r.outcome.done) \union Ids(r.outcome.failed)

\* The second pass has what the first was denied, from where that is.
Second(r) ==
    /\ Worked(r.job, r.plan, r.first)
    /\ r.cancelled \/ Ids(r.plan) \subseteq Ids(r.first.done) \union Ids(r.first.failed)
    /\ Ids(r.asked) = {f.id : f \in {g \in Range(r.first.failed) : g.denied}}
    /\ \A a \in Range(r.asked) : \E p \in Range(r.plan) : \E f \in Range(r.first.failed) :
          /\ p.id = a.id /\ f.id = a.id /\ p.dst = a.dst
          /\ a.src = IF r.job = "rename" THEN f.from ELSE p.src

Phased(r) ==
    /\ r.job = "rename" => r.phase \in {"aside", "work"}
    /\ r.job \in {"delete", "restore"} => r.phase \in {"work", "bin"}
    /\ r.phase = "bin" => r.job = "delete"
    /\ r.ready # <<>> => \/ r.job = "rename" /\ r.phase = "aside"
                         \/ r.job = "delete" /\ r.phase = "work"
    /\ r.job = "restore" <=> r.job # "none" /\ r.job # "rename" /\ r.doing = "undo"
    /\ r.cancelled => r.job = "delete" /\ r.doing = "do"

\* All numbers given so far are below n.
Below(r, n) ==
    /\ \A e \in Waiting(r) \union Range(r.outcome.failed) \union Range(r.asked) : e.from.no < n /\ e.src.no < n

RunOK(r, n) ==
    /\ r \in Runs /\ Phased(r)
    /\ Plan(r.job, r.plan) /\ Asks(r.job, r.asked)
    /\ Worked(r.job, r.asked, r.outcome) /\ Waits(r) /\ Below(r, n)
    /\ r.pass = 1 => r.asked = r.plan /\ r.first = NoOutcome
    /\ r.pass = 2 => Second(r)
    /\ r.job = "none" => r = Idle

RunInv(r, n) == RunOK(r, n) /\ (r.todo = <<>> => r.ready = <<>>)

\* Two passes that are alike but for their lists and holding folders.
Alike(r, q) ==
    /\ q \in Runs
    /\ q.job = r.job /\ q.doing = r.doing /\ q.pass = r.pass /\ q.phase = r.phase /\ q.plan = r.plan
    /\ q.asked = r.asked /\ q.first = r.first /\ q.cancelled = r.cancelled

\* What taking the first item off leaves.
LEMMA HeadOff ==
    ASSUME NEW r, NEW n \in Nat, RunOK(r, n), r.todo # <<>>
    PROVE  LET h == Head(r.todo)
           IN  /\ h \in Items /\ h \in Waiting(r) /\ h \in Range(r.todo) /\ h.id \in Ids(r.todo)
               /\ AskedTo(h, r.asked) /\ Asked(h, r.asked) /\ Stands(r.job, h, r.asked)
               /\ Fits(r.job, h) /\ h.from.no < n /\ h.src.no < n
               /\ Tail(r.todo) \in Seq(Items) /\ Once(Tail(r.todo))
               /\ Ids(Tail(r.todo)) = Ids(r.todo) \ {h.id}
               /\ Range(r.todo) = Range(Tail(r.todo)) \union {h}
               /\ h \notin Range(Tail(r.todo))
               /\ r.job # "none"
<1> DEFINE h == Head(r.todo)
<1>1. r.todo \in Seq(Items) /\ Once(r.todo)
  BY DEF RunOK, Runs, Waits
<1>2. /\ h \in Items /\ h \in Range(r.todo) /\ h.id \in Ids(r.todo)
      /\ Tail(r.todo) \in Seq(Items) /\ Once(Tail(r.todo))
      /\ Ids(Tail(r.todo)) = Ids(r.todo) \ {h.id}
      /\ Range(r.todo) = Range(Tail(r.todo)) \union {h} /\ h \notin Range(Tail(r.todo))
  BY <1>1, TailListed
<1>3. h \in Waiting(r)
  BY <1>2 DEF Waiting
<1>4. AskedTo(h, r.asked) /\ Stands(r.job, h, r.asked) /\ h.from.no < n /\ h.src.no < n
  BY <1>3 DEF RunOK, Waits, Below
<1>5. Asked(h, r.asked) /\ Fits(r.job, h)
  <2>1. PICK a \in Range(r.asked) : SameItem(h, a) /\ h.dst = a.dst
    BY <1>4 DEF AskedTo
  <2>2. Fits(r.job, a)
    BY <2>1 DEF RunOK, Asks
  <2> QED
    BY <2>1, <2>2 DEF Asked, SameItem, Fits
<1>6. r.job # "none"
  BY DEF RunOK, Idle, Pass
<1> QED
  BY <1>2, <1>3, <1>4, <1>5, <1>6

\* It fails, and is where it stood or back where it was.
LEMMA FailsKeeps ==
    ASSUME NEW r, NEW q, NEW n \in Nat, RunOK(r, n), r.todo # <<>>, Alike(r, q),
           NEW denied \in BOOLEAN, NEW from \in {Head(r.todo).from, Head(r.todo).src},
           q.todo = Tail(r.todo), q.ready = r.ready, q.outcome.done = r.outcome.done,
           q.outcome.failed = Append(r.outcome.failed, Failure(Head(r.todo), denied, from))
    PROVE  RunOK(q, n)
<1> DEFINE h == Head(r.todo)
           g == Failure(h, denied, from)
           F == r.outcome.failed
           G == q.outcome.failed
<1>1. /\ h \in Items /\ h \in Waiting(r) /\ h.id \in Ids(r.todo) /\ Asked(h, r.asked) /\ Stands(r.job, h, r.asked)
      /\ Once(q.todo) /\ Ids(q.todo) = Ids(r.todo) \ {h.id} /\ Range(r.todo) = Range(q.todo) \union {h}
      /\ h.from.no < n /\ h.src.no < n /\ r.job # "none"
  BY HeadOff
<1>2. g.id = h.id /\ g.src = h.src /\ g.from = from /\ g \in Failures
  BY <1>1 DEF Failure, Items, Failures
<1>3. F \in Seq(Failures) /\ Once(F) /\ h.id \notin Ids(F)
  BY <1>1 DEF RunOK, Runs, Outcomes, Worked, Waits
<1>4. Once(G) /\ Ids(G) = Ids(F) \union {h.id} /\ Range(G) = Range(F) \union {g}
  BY <1>2, <1>3, AppendListed
<1>5. Waiting(q) \subseteq Waiting(r) /\ \A e \in Waiting(q) : e.id # h.id
  <2>1. q.todo \in Seq(Items) /\ r.ready \in Seq(Items)
    BY DEF Alike, Runs, RunOK
  <2>2. \A e \in Range(q.todo) : e.id \in Ids(q.todo)
    BY <2>1, ListIs
  <2>3. \A e \in Range(r.ready) : e.id \in Ids(r.ready)
    BY <2>1, ListIs
  <2>4. h.id \notin Ids(r.ready)
    BY <1>1 DEF RunOK, Waits
  <2> QED
    BY <1>1, <2>2, <2>3, <2>4 DEF Waiting
<1> HIDE DEF g, G, F
<1>6. Asked(g, r.asked) /\ Stands(r.job, g, r.asked)
  BY <1>1, <1>2 DEF Asked, SameItem, Stands
\* No other has it to stand at.
<1>7. \A e \in Waiting(r) \union Range(F) : e.from = from => e.id = h.id
  <2> SUFFICES ASSUME NEW e \in Waiting(r) \union Range(F), e.from = from PROVE e.id = h.id
    OBVIOUS
  <2>1. CASE from = h.from
    BY <1>1, <2>1 DEF RunOK, Waits, F
  <2>2. CASE from = h.src
    <3>1. Asked(e, r.asked) /\ Stands(r.job, e, r.asked)
      BY DEF RunOK, Waits, Worked, F, AskedTo, Asked
    <3>2. PICK a \in Range(r.asked) : SameItem(h, a)
      BY <1>1 DEF Asked
    <3>3. e.from = e.src
      BY <2>2, <3>1, <3>2 DEF Stands, SameItem
    <3>4. PICK b \in Range(r.asked) : SameItem(e, b)
      BY <3>1 DEF Asked
    <3>5. a.src = b.src
      BY <2>2, <3>2, <3>3, <3>4 DEF SameItem
    <3> QED
      BY <3>2, <3>4, <3>5 DEF SameItem, RunOK, Asks
  <2> QED
    BY <2>1, <2>2
<1>8. Worked(q.job, q.asked, q.outcome)
  <2>1. Ids(q.outcome.done) \intersect Ids(G) = {}
    BY <1>1, <1>4 DEF RunOK, Worked, Waits, F
  <2>2. \A f \in Range(G) : Asked(f, r.asked) /\ Stands(r.job, f, r.asked)
    BY <1>4, <1>6 DEF RunOK, Worked, F
  <2>3. \A f, k \in Range(G) : f.from = k.from => f.id = k.id
    BY <1>2, <1>4, <1>7 DEF RunOK, Worked, F
  <2> QED
    BY <1>4, <2>1, <2>2, <2>3 DEF Worked, RunOK, Alike, G
<1>9. Waits(q)
  <2>1. /\ Ids(q.todo) \intersect Ids(q.ready) = {} /\ Ids(q.todo) \intersect Ids(q.outcome.done) = {}
        /\ Ids(q.todo) \intersect Ids(G) = {} /\ Ids(q.ready) \intersect Ids(q.outcome.done) = {}
        /\ Ids(q.ready) \intersect Ids(G) = {}
    BY <1>1, <1>4 DEF RunOK, Waits, F
  <2>2. \A e \in Waiting(q) : AskedTo(e, q.asked) /\ Stands(q.job, e, q.asked)
    BY <1>5 DEF RunOK, Waits, Alike
  <2>3. \A e \in Waiting(q), f \in Waiting(q) \union Range(G) : e.from = f.from => e.id = f.id
    <3> SUFFICES ASSUME NEW e \in Waiting(q), NEW f \in Waiting(q) \union Range(G), e.from = f.from PROVE e.id = f.id
      OBVIOUS
    <3>1. CASE f \in Waiting(q) \union Range(F)
      BY <1>5, <3>1 DEF RunOK, Waits, F
    <3>2. CASE f = g
      BY <1>2, <1>5, <1>7, <3>2
    <3> QED
      BY <1>4, <3>1, <3>2
  <2>4. q.cancelled \/ Ids(q.asked) \subseteq Ids(q.todo) \union Ids(q.ready) \union Ids(q.outcome.done) \union Ids(G)
    BY <1>1, <1>4 DEF RunOK, Waits, Alike, F
  <2> QED
    BY <1>1, <2>1, <2>2, <2>3, <2>4 DEF Waits, G, RunOK
<1>10. Below(q, n)
  <2>1. from.no < n
    BY <1>1
  <2> QED
    BY <1>1, <1>2, <1>4, <1>5, <2>1 DEF RunOK, Below, Alike, F, G
<1>11. Phased(q) /\ Plan(q.job, q.plan) /\ Asks(q.job, q.asked) /\ q \in Runs
  BY DEF RunOK, Alike, Phased
<1>12. /\ q.pass = 1 => q.asked = q.plan /\ q.first = NoOutcome
       /\ q.pass = 2 => Second(q)
  BY DEF RunOK, Alike, Second
<1> QED
  BY <1>1, <1>8, <1>9, <1>10, <1>11, <1>12 DEF RunOK, Alike

\* It is done.
LEMMA DoneKeeps ==
    ASSUME NEW r, NEW q, NEW n \in Nat, RunOK(r, n), r.todo # <<>>, Alike(r, q),
           NEW d \in Items, d.id = Head(r.todo).id, d.src = Head(r.todo).src,
           r.job # "delete" => d.dst = Head(r.todo).dst, Went(r.job, d),
           q.todo = Tail(r.todo), q.ready = r.ready, q.outcome.failed = r.outcome.failed,
           q.outcome.done = Append(r.outcome.done, d)
    PROVE  RunOK(q, n)
<1> DEFINE h == Head(r.todo)
           D == r.outcome.done
           G == q.outcome.done
<1>1. /\ h \in Items /\ h \in Waiting(r) /\ h.id \in Ids(r.todo) /\ AskedTo(h, r.asked)
      /\ Once(q.todo) /\ Ids(q.todo) = Ids(r.todo) \ {h.id} /\ Range(r.todo) = Range(q.todo) \union {h}
      /\ r.job # "none"
  BY HeadOff
<1>2. D \in Seq(Items) /\ Once(D) /\ h.id \notin Ids(D)
  BY <1>1 DEF RunOK, Runs, Outcomes, Worked, Waits
<1>3. Once(G) /\ Ids(G) = Ids(D) \union {h.id} /\ Range(G) = Range(D) \union {d}
  BY <1>2, AppendListed
<1>4. Waiting(q) \subseteq Waiting(r)
  BY <1>1 DEF Waiting
<1> HIDE DEF G, D
<1>5. Asked(d, r.asked) /\ (r.job # "delete" => AskedTo(d, r.asked))
  <2>1. PICK a \in Range(r.asked) : SameItem(h, a) /\ h.dst = a.dst
    BY <1>1 DEF AskedTo
  <2> QED
    BY <2>1 DEF Asked, AskedTo, SameItem
<1>6. Worked(q.job, q.asked, q.outcome)
  <2>1. Ids(G) \intersect Ids(q.outcome.failed) = {}
    BY <1>1, <1>3 DEF RunOK, Worked, Waits, D
  <2>2. \A e \in Range(G) : Went(r.job, e) /\ Asked(e, r.asked) /\ (r.job # "delete" => AskedTo(e, r.asked))
    BY <1>3, <1>5 DEF RunOK, Worked, D
  <2> QED
    BY <1>3, <2>1, <2>2 DEF Worked, RunOK, Alike, G
<1>7. Waits(q)
  <2>1. /\ Ids(q.todo) \intersect Ids(q.ready) = {} /\ Ids(q.todo) \intersect Ids(G) = {}
        /\ Ids(q.todo) \intersect Ids(q.outcome.failed) = {} /\ Ids(q.ready) \intersect Ids(G) = {}
        /\ Ids(q.ready) \intersect Ids(q.outcome.failed) = {}
    BY <1>1, <1>3 DEF RunOK, Waits, D
  <2>2. \A e \in Waiting(q) : AskedTo(e, q.asked) /\ Stands(q.job, e, q.asked)
    BY <1>4 DEF RunOK, Waits, Alike
  <2>3. \A e \in Waiting(q), f \in Waiting(q) \union Range(q.outcome.failed) : e.from = f.from => e.id = f.id
    BY <1>4 DEF RunOK, Waits
  <2>4. q.cancelled \/ Ids(q.asked) \subseteq Ids(q.todo) \union Ids(q.ready) \union Ids(G) \union Ids(q.outcome.failed)
    BY <1>1, <1>3 DEF RunOK, Waits, Alike, D
  <2> QED
    BY <1>1, <2>1, <2>2, <2>3, <2>4 DEF Waits, G, RunOK
<1>8. Below(q, n)
  BY <1>4 DEF RunOK, Below, Alike
<1>9. Phased(q) /\ Plan(q.job, q.plan) /\ Asks(q.job, q.asked) /\ q \in Runs
  BY DEF RunOK, Alike, Phased
<1>10. /\ q.pass = 1 => q.asked = q.plan /\ q.first = NoOutcome
       /\ q.pass = 2 => Second(q)
  BY DEF RunOK, Alike, Second
<1> QED
  BY <1>1, <1>6, <1>7, <1>8, <1>9, <1>10 DEF RunOK, Alike

\* It stands by, or aside under a number that is new.
LEMMA ReadyKeeps ==
    ASSUME NEW r, NEW q, NEW n \in Nat, NEW m \in Nat, n <= m, RunOK(r, n), r.todo # <<>>, Alike(r, q),
           NEW x \in Items, x.id = Head(r.todo).id, x.src = Head(r.todo).src, x.dst = Head(r.todo).dst,
           \/ x.from = Head(r.todo).from
           \/ r.job = "rename" /\ x.from \in Asides /\ x.from.no = n /\ n < m,
           q.todo = Tail(r.todo), q.ready = Append(r.ready, x),
           q.outcome.done = r.outcome.done, q.outcome.failed = r.outcome.failed,
           \/ r.job = "rename" /\ r.phase = "aside"
           \/ r.job = "delete" /\ r.phase = "work"
    PROVE  RunOK(q, m)
<1> DEFINE h == Head(r.todo)
<1>1. /\ h \in Items /\ h \in Waiting(r) /\ h.id \in Ids(r.todo) /\ AskedTo(h, r.asked) /\ Stands(r.job, h, r.asked)
      /\ Once(q.todo) /\ Ids(q.todo) = Ids(r.todo) \ {h.id} /\ Range(r.todo) = Range(q.todo) \union {h}
      /\ h.from.no < n /\ h.src.no < n /\ r.job # "none"
  BY HeadOff
<1>2. r.ready \in Seq(Items) /\ Once(r.ready) /\ h.id \notin Ids(r.ready)
  BY <1>1 DEF RunOK, Runs, Waits
<1>3. Once(q.ready) /\ Ids(q.ready) = Ids(r.ready) \union {h.id} /\ Range(q.ready) = Range(r.ready) \union {x}
  BY <1>2, AppendListed
<1>4. Waiting(q) \subseteq Waiting(r) \union {x}
  BY <1>1, <1>3 DEF Waiting
<1>5. AskedTo(x, r.asked)
  BY <1>1 DEF AskedTo, SameItem
\* What is asked for and what stands anywhere has an older number.
<1>6. /\ \A e \in Waiting(r) \union Range(r.outcome.failed) \union Range(r.asked) : e.from.no < n /\ e.src.no < n
      /\ \A e \in Waiting(r) \union Range(r.outcome.failed) \union Range(r.asked) : e.from.no \in Nat /\ e.src.no \in Nat
  <2>1. /\ Range(r.todo) \subseteq Items /\ Range(r.ready) \subseteq Items /\ Range(r.asked) \subseteq Items
        /\ Range(r.outcome.failed) \subseteq Failures
    <3>1. r.todo \in Seq(Items) /\ r.ready \in Seq(Items) /\ r.asked \in Seq(Items) /\ r.outcome.failed \in Seq(Failures)
      BY DEF RunOK, Runs, Outcomes
    <3> QED
      BY <3>1, ListIs
  <2>2. \A e \in Items \union Failures : e.from.no \in Nat /\ e.src.no \in Nat
    BY DEF Items, Failures, Places
  <2> QED
    BY <2>1, <2>2 DEF RunOK, Below, Waiting
<1>7. Stands(r.job, x, r.asked)
  <2>1. CASE x.from = h.from
    BY <1>1, <2>1 DEF Stands
  <2>2. CASE r.job = "rename" /\ x.from \in Asides /\ x.from.no = n
    <3>1. \A a \in Range(r.asked) : a.src.no < n
      BY <1>6
    <3> QED
      BY <2>2, <3>1 DEF Stands
  <2> QED
    BY <2>1, <2>2
<1>8. \A e \in Waiting(r) \union Range(r.outcome.failed) : e.from = x.from => e.id = h.id
  <2>1. CASE x.from = h.from
    BY <1>1, <2>1 DEF RunOK, Waits
  <2>2. CASE x.from.no = n
    BY <1>6, <2>2
  <2> QED
    BY <2>1, <2>2
<1>9. Worked(q.job, q.asked, q.outcome)
  BY DEF Worked, RunOK, Alike
<1>10. Waits(q)
  <2>1. /\ Ids(q.todo) \intersect Ids(q.ready) = {} /\ Ids(q.todo) \intersect Ids(q.outcome.done) = {}
        /\ Ids(q.todo) \intersect Ids(q.outcome.failed) = {} /\ Ids(q.ready) \intersect Ids(q.outcome.done) = {}
        /\ Ids(q.ready) \intersect Ids(q.outcome.failed) = {}
    BY <1>1, <1>3 DEF RunOK, Waits
  <2>2. \A e \in Waiting(q) : AskedTo(e, q.asked) /\ Stands(q.job, e, q.asked)
    BY <1>4, <1>5, <1>7 DEF RunOK, Waits, Alike
  <2>3. \A e \in Waiting(q), f \in Waiting(q) \union Range(q.outcome.failed) : e.from = f.from => e.id = f.id
    <3> SUFFICES ASSUME NEW e \in Waiting(q), NEW f \in Waiting(q) \union Range(q.outcome.failed), e.from = f.from PROVE e.id = f.id
      OBVIOUS
    <3>1. CASE e # x /\ f # x
      BY <1>4, <3>1 DEF RunOK, Waits
    <3>2. CASE e = x \/ f = x
      BY <1>4, <1>8, <3>2
    <3> QED
      BY <3>1, <3>2
  <2>4. q.cancelled \/ Ids(q.asked) \subseteq Ids(q.todo) \union Ids(q.ready) \union Ids(q.outcome.done) \union Ids(q.outcome.failed)
    BY <1>1, <1>3 DEF RunOK, Waits, Alike
  <2> QED
    BY <1>1, <1>3, <2>1, <2>2, <2>3, <2>4 DEF Waits
<1>11. Below(q, m)
  <2>1. x.from.no < m /\ x.src.no < m
    BY <1>1, <1>6
  <2>2. \A e \in Waiting(r) \union Range(r.outcome.failed) \union Range(r.asked) : e.from.no < m /\ e.src.no < m
    BY <1>6
  <2> QED
    BY <1>4, <2>1, <2>2 DEF Below, Alike
<1>12. Phased(q) /\ Plan(q.job, q.plan) /\ Asks(q.job, q.asked) /\ q \in Runs
  BY DEF RunOK, Alike, Phased
<1>13. /\ q.pass = 1 => q.asked = q.plan /\ q.first = NoOutcome
       /\ q.pass = 2 => Second(q)
  BY DEF RunOK, Alike, Second
<1> QED
  BY <1>1, <1>9, <1>10, <1>11, <1>12, <1>13 DEF RunOK, Alike

\* Numbers only grow.
LEMMA NumbersGrow ==
    ASSUME NEW r, NEW n \in Nat, NEW m \in Nat, n <= m, RunOK(r, n)
    PROVE  RunOK(r, m)
<1>1. \A e \in Waiting(r) \union Range(r.outcome.failed) \union Range(r.asked) : e.from.no \in Nat /\ e.src.no \in Nat
  <2>1. /\ Range(r.todo) \subseteq Items /\ Range(r.ready) \subseteq Items /\ Range(r.asked) \subseteq Items
        /\ Range(r.outcome.failed) \subseteq Failures
    <3>1. r.todo \in Seq(Items) /\ r.ready \in Seq(Items) /\ r.asked \in Seq(Items) /\ r.outcome.failed \in Seq(Failures)
      BY DEF RunOK, Runs, Outcomes
    <3> QED
      BY <3>1, ListIs
  <2>2. \A e \in Items \union Failures : e.from.no \in Nat /\ e.src.no \in Nat
    BY DEF Items, Failures, Places
  <2> QED
    BY <2>1, <2>2 DEF Waiting
<1>2. Below(r, m)
  BY <1>1 DEF RunOK, Below
<1> QED
  BY <1>2 DEF RunOK

\* Going on to the next phase changes nothing of this.
LEMMA OnwardKeeps ==
    ASSUME NEW r, NEW n \in Nat, RunOK(r, n)
    PROVE  RunInv(Onward(r), n)
<1>1. CASE r.todo # <<>>
  BY <1>1 DEF Onward, RunInv
<1>2. CASE r.todo = <<>> /\ r.ready = <<>> /\ r.phase # "aside"
  BY <1>2 DEF Onward, RunInv
<1>3. CASE r.todo = <<>> /\ (r.phase = "aside" \/ (r.phase = "work" /\ r.ready # <<>>))
  <2> DEFINE ph == IF r.phase = "aside" THEN "work" ELSE "bin"
             q  == [r EXCEPT !.phase = ph, !.todo = r.ready, !.ready = <<>>]
  <2>1. Onward(r) = q
    BY <1>3 DEF Onward
  <2>2. r \in Runs
    BY DEF RunOK
  <2>3. /\ q.job = r.job /\ q.doing = r.doing /\ q.pass = r.pass /\ q.phase = ph /\ q.plan = r.plan /\ q.asked = r.asked
        /\ q.todo = r.ready /\ q.ready = <<>> /\ q.outcome = r.outcome /\ q.first = r.first /\ q.cancelled = r.cancelled
    BY <2>2 DEF Runs
  <2>4. q \in Runs
    <3>1. <<>> \in Seq(Items) /\ ph \in {"aside", "work", "bin"}
      BY NoneListed
    <3> HIDE DEF ph
    <3> QED
      BY <2>2, <3>1 DEF Runs
  <2> HIDE DEF q, ph
  <2>5. Waiting(q) = Waiting(r) /\ Ids(q.todo) = Ids(r.ready) /\ Ids(q.ready) = {} /\ Ids(r.todo) = {} /\ Once(q.ready)
    BY <1>3, <2>3, NoneListed DEF Waiting
  <2>6. Waits(q)
    BY <2>3, <2>5 DEF RunOK, Waits
  <2>7. Below(q, n) /\ Worked(q.job, q.asked, q.outcome) /\ Plan(q.job, q.plan) /\ Asks(q.job, q.asked)
    BY <2>3, <2>5 DEF RunOK, Below
  <2>8. Phased(q)
    <3>1. r.phase \in {"aside", "work", "bin"} /\ r.job \in {"none", "rename", "delete", "restore"}
      BY <2>2 DEF Runs
    <3>2. r.job # "none"
      BY <1>3 DEF RunOK, Idle, Pass
    <3> QED
      BY <1>3, <2>3, <3>1, <3>2 DEF RunOK, Phased, ph
  <2>9. /\ q.pass = 1 => q.asked = q.plan /\ q.first = NoOutcome
        /\ q.pass = 2 => Second(q)
    BY <2>3 DEF RunOK, Second
  <2>10. q.job # "none"
    BY <1>3, <2>3 DEF RunOK, Idle, Pass
  <2> QED
    BY <2>1, <2>3, <2>4, <2>6, <2>7, <2>8, <2>9, <2>10 DEF RunOK, RunInv
<1>4. r.phase \in {"aside", "work", "bin"} /\ (r.phase = "bin" => r.ready = <<>>)
  BY DEF RunOK, Runs, Phased
<1> QED
  BY <1>1, <1>2, <1>3, <1>4

\* The shell gives up on all that is left.
LEMMA BinFailsKeeps ==
    ASSUME NEW r, NEW q, NEW n \in Nat, RunOK(r, n), r.job = "delete", r.phase = "bin", Alike(r, q),
           q.todo = <<>>, q.ready = r.ready, q.outcome.done = r.outcome.done,
           q.outcome.failed = r.outcome.failed \o [i \in DOMAIN r.todo |-> Failure(r.todo[i], FALSE, r.todo[i].src)]
    PROVE  RunInv(q, n)
<1> DEFINE t == [i \in DOMAIN r.todo |-> Failure(r.todo[i], FALSE, r.todo[i].src)]
           F == r.outcome.failed
           G == q.outcome.failed
<1>1. /\ r.todo \in Seq(Items) /\ F \in Seq(Failures) /\ Once(r.todo) /\ Once(F) /\ r.ready = <<>>
      /\ Ids(r.todo) \intersect Ids(F) = {}
  BY DEF RunOK, Runs, Outcomes, Waits, Worked, Phased
<1>2. \A i \in DOMAIN r.todo : r.todo[i] \in Items /\ r.todo[i] \in Range(r.todo)
  BY <1>1, ListIs
<1>3. \A i \in DOMAIN r.todo : /\ t[i] \in Failures /\ t[i].id = r.todo[i].id
                               /\ t[i].src = r.todo[i].src /\ t[i].from = r.todo[i].src
  BY <1>2 DEF Failure, Items, Failures
<1>4. t \in [DOMAIN r.todo -> Failures]
  BY <1>3
<1> HIDE DEF t
<1>5. t \in Seq(Failures) /\ Ids(t) = Ids(r.todo) /\ Once(t) /\ \A e \in Range(t) : \E i \in DOMAIN r.todo : e = t[i]
  <2>1. Maps(r.todo, t, Failures)
    BY <1>3, <1>4 DEF Maps
  <2> QED
    BY <1>1, <2>1, MapListed
<1>6. Once(G) /\ Ids(G) = Ids(F) \union Ids(r.todo) /\ Range(G) = Range(F) \union Range(t)
  <2>1. G = F \o t
    BY DEF t
  <2> HIDE DEF G, F
  <2> QED
    BY <1>1, <1>5, <2>1, JoinListed
<1>7. Ids(q.todo) = {} /\ Ids(q.ready) = {} /\ Waiting(q) = {} /\ Once(q.todo) /\ Once(q.ready) /\ Ids(r.ready) = {}
  BY <1>1, NoneListed DEF Waiting
<1> HIDE DEF G, F
<1>8. \A e \in Range(t) : \E h \in Range(r.todo) : e.id = h.id /\ e.src = h.src /\ e.from = h.src /\ h \in Waiting(r)
  BY <1>2, <1>3, <1>5 DEF Waiting
<1>9. \A e \in Range(t) : Asked(e, r.asked) /\ e.from = e.src
  <2> TAKE e \in Range(t)
  <2>1. PICK h \in Range(r.todo) : e.id = h.id /\ e.src = h.src /\ e.from = h.src /\ h \in Waiting(r)
    BY <1>8
  <2>2. AskedTo(h, r.asked)
    BY <2>1 DEF RunOK, Waits
  <2> QED
    BY <2>1, <2>2 DEF Asked, AskedTo, SameItem
<1>10. \A f \in Range(G) : Asked(f, r.asked) /\ f.from = f.src
  <2>1. \A f \in Range(F) : Asked(f, r.asked) /\ f.from = f.src
    BY DEF RunOK, Worked, Stands, F
  <2> QED
    BY <1>6, <1>9, <2>1
<1>11. \A f, g \in Range(G) : f.from = g.from => f.id = g.id
  <2> SUFFICES ASSUME NEW f \in Range(G), NEW g \in Range(G), f.from = g.from PROVE f.id = g.id
    OBVIOUS
  <2>1. PICK a \in Range(r.asked) : SameItem(f, a)
    BY <1>10 DEF Asked
  <2>2. PICK b \in Range(r.asked) : SameItem(g, b)
    BY <1>10 DEF Asked
  <2>3. a.src = b.src
    BY <1>10, <2>1, <2>2 DEF SameItem
  <2> QED
    BY <2>1, <2>2, <2>3 DEF SameItem, RunOK, Asks
<1>12. Worked(q.job, q.asked, q.outcome)
  <2>1. Ids(q.outcome.done) \intersect Ids(G) = {}
    BY <1>6 DEF RunOK, Worked, Waits, F
  <2> QED
    BY <1>6, <1>10, <1>11, <2>1 DEF Worked, RunOK, Alike, Stands, G
<1>13. Waits(q)
  <2>1. q.cancelled \/ Ids(q.asked) \subseteq Ids(q.todo) \union Ids(q.ready) \union Ids(q.outcome.done) \union Ids(G)
    BY <1>6, <1>7 DEF RunOK, Waits, Alike, F
  <2> QED
    BY <1>7, <2>1 DEF Waits, G
<1>14. Below(q, n)
  <2>1. \A e \in Range(G) : e.from.no < n /\ e.src.no < n
    <3> TAKE e \in Range(G)
    <3>1. PICK a \in Range(r.asked) : SameItem(e, a)
      BY <1>10 DEF Asked
    <3> QED
      BY <1>10, <3>1 DEF RunOK, Below, SameItem
  <2> QED
    BY <1>7, <2>1 DEF RunOK, Below, Alike, G
<1>15. Phased(q) /\ Plan(q.job, q.plan) /\ Asks(q.job, q.asked) /\ q \in Runs
  BY DEF RunOK, Alike, Phased
<1>16. /\ q.pass = 1 => q.asked = q.plan /\ q.first = NoOutcome
       /\ q.pass = 2 => Second(q)
  BY DEF RunOK, Alike, Second
<1> QED
  BY <1>1, <1>12, <1>13, <1>14, <1>15, <1>16 DEF RunOK, RunInv, Alike

\* The user cancels: what is left is in no list.
LEMMA CancelsKeeps ==
    ASSUME NEW r, NEW n \in Nat, RunOK(r, n), r.job = "delete", r.doing = "do"
    PROVE  RunInv([r EXCEPT !.todo = <<>>, !.ready = <<>>, !.cancelled = TRUE], n)
<1> DEFINE q == [r EXCEPT !.todo = <<>>, !.ready = <<>>, !.cancelled = TRUE]
<1>1. r \in Runs
  BY DEF RunOK
<1>2. /\ q.job = r.job /\ q.doing = r.doing /\ q.pass = r.pass /\ q.phase = r.phase /\ q.plan = r.plan /\ q.asked = r.asked
      /\ q.todo = <<>> /\ q.ready = <<>> /\ q.outcome = r.outcome /\ q.first = r.first /\ q.cancelled = TRUE
  BY <1>1 DEF Runs
<1>3. q \in Runs
  <2>1. <<>> \in Seq(Items)
    BY NoneListed
  <2> QED
    BY <1>1, <2>1 DEF Runs
<1> HIDE DEF q
<1>4. Ids(q.todo) = {} /\ Ids(q.ready) = {} /\ Waiting(q) = {} /\ Once(q.todo) /\ Once(q.ready)
  BY <1>2, NoneListed DEF Waiting
<1>5. Waits(q)
  BY <1>2, <1>4 DEF Waits
<1>6. Below(q, n) /\ Worked(q.job, q.asked, q.outcome) /\ Plan(q.job, q.plan) /\ Asks(q.job, q.asked)
  BY <1>2, <1>4 DEF RunOK, Below
<1>7. Phased(q)
  BY <1>2 DEF RunOK, Phased
<1>8. /\ q.pass = 1 => q.asked = q.plan /\ q.first = NoOutcome
      /\ q.pass = 2 => Second(q)
  BY <1>2 DEF RunOK, Second
<1> QED
  BY <1>2, <1>3, <1>5, <1>6, <1>7, <1>8 DEF RunOK, RunInv, q

\* A pass that begins waits for all that is asked of it.
LEMMA FreshPass ==
    ASSUME NEW q \in Runs, Asks(q.job, q.asked),
           q.todo = IF q.job = "restore" THEN Reverse(q.asked) ELSE q.asked,
           q.ready = <<>>, q.outcome = NoOutcome
    PROVE  Worked(q.job, q.asked, q.outcome) /\ Waits(q) /\ Waiting(q) = Range(q.asked)
<1>1. q.asked \in Seq(Items) /\ Once(q.asked)
  BY DEF Runs, Asks
<1>2. Once(q.todo) /\ Ids(q.todo) = Ids(q.asked) /\ Range(q.todo) = Range(q.asked)
  BY <1>1, ReverseListed
<1>3. q.outcome.done = <<>> /\ q.outcome.failed = <<>>
  BY DEF NoOutcome
<1>4. /\ Range(q.outcome.done) = {} /\ Range(q.outcome.failed) = {} /\ Range(q.ready) = {}
      /\ Ids(q.outcome.done) = {} /\ Ids(q.outcome.failed) = {} /\ Ids(q.ready) = {}
      /\ Once(q.outcome.done) /\ Once(q.outcome.failed) /\ Once(q.ready)
  BY <1>3, NoneListed
<1>5. Waiting(q) = Range(q.asked)
  BY <1>2, <1>4 DEF Waiting
<1>6. Worked(q.job, q.asked, q.outcome)
  BY <1>4 DEF Worked
<1>7. \A e \in Waiting(q) : AskedTo(e, q.asked) /\ Stands(q.job, e, q.asked) /\ e.from = e.src
  BY <1>5 DEF AskedTo, SameItem, Stands, Asks
<1>8. \A e \in Waiting(q), f \in Waiting(q) \union Range(q.outcome.failed) : e.from = f.from => e.id = f.id
  BY <1>4, <1>5, <1>7 DEF Asks
<1>9. Waits(q)
  BY <1>2, <1>4, <1>7, <1>8 DEF Waits
<1> QED
  BY <1>5, <1>6, <1>9

\* A failure and the item of the plan it is of.
LEMMA FailureOf ==
    ASSUME NEW job, NEW plan \in Seq(Items), NEW o \in Outcomes, Asks(job, plan), Worked(job, plan, o)
    PROVE  /\ \A f \in Range(o.failed) : \E p \in Range(plan) : p.id = f.id /\ p.src = f.src
           /\ \A f, g \in Range(o.failed) : f.src = g.src => f = g
           /\ \A f \in Range(o.failed), p \in Range(plan) : f.src = p.src <=> f.id = p.id
<1>1. \A f \in Range(o.failed) : \E p \in Range(plan) : p.id = f.id /\ p.src = f.src
  BY DEF Worked, Asked, SameItem
<1>2. \A f \in Range(o.failed), p \in Range(plan) : f.src = p.src <=> f.id = p.id
  <2> TAKE f \in Range(o.failed), p \in Range(plan)
  <2>1. PICK a \in Range(plan) : a.id = f.id /\ a.src = f.src
    BY <1>1
  <2>2. a.id = p.id => a = p
    BY OneOfAnId DEF Asks
  <2>3. a.src = p.src => a.id = p.id
    BY DEF Asks
  <2> QED
    BY <2>1, <2>2, <2>3
<1>3. \A f, g \in Range(o.failed) : f.src = g.src => f = g
  <2> TAKE f, g \in Range(o.failed)
  <2> HAVE f.src = g.src
  <2>1. PICK p \in Range(plan) : p.id = f.id /\ p.src = f.src
    BY <1>1
  <2>2. f.id = g.id
    BY <1>2, <2>1
  <2>3. o.failed \in Seq(Failures) /\ Once(o.failed)
    BY DEF Outcomes, Worked
  <2> QED
    BY <2>2, <2>3, OneOfAnId
<1> QED
  BY <1>1, <1>2, <1>3

\* The elevated helper is asked for what was denied.
LEMMA AcceptsKeeps ==
    ASSUME NEW n \in Nat, RunInv(run, n), Accepts
    PROVE  /\ RunInv(run', n) /\ run'.pass = 2 /\ run'.outcome = NoOutcome /\ run'.first = run.outcome
           /\ run'.batch = 0 /\ run'.job = run.job /\ run'.doing = run.doing /\ run'.plan = run.plan
           /\ run'.cancelled = run.cancelled /\ Waiting(run') = Range(run'.asked)
<1> DEFINE denied == {item \in Range(run.plan) : item.src \in DeniedSrcs}
           picked == Among(run.plan, denied)
           t == Retry
           q == run'
           F == Own.failed
           where(item) == (CHOOSE f \in Range(F) : f.src = item.src).from
           again(item) == IF run.job = "rename" THEN [item EXCEPT !.src = where(item), !.from = where(item)] ELSE item
<1>1. /\ run \in Runs /\ run.todo = <<>> /\ run.ready = <<>> /\ run.pass = 1 /\ run.asked = run.plan
      /\ run.job \in {"rename", "delete", "restore"} /\ Phased(run)
  BY DEF RunInv, RunOK, Accepts, Over, Runs
<1>2. /\ run.plan \in Seq(Items) /\ run.outcome \in Outcomes /\ F \in Seq(Failures)
      /\ run.doing \in {"do", "undo", "redo"} /\ run.cancelled \in BOOLEAN
      /\ Asks(run.job, run.plan) /\ Plan(run.job, run.plan) /\ Worked(run.job, run.plan, run.outcome)
  BY <1>1 DEF RunInv, RunOK, Runs, Outcomes, Own
<1>3. /\ picked \in Seq(Items) /\ Once(picked) /\ Range(picked) = Range(run.plan) \intersect denied
  BY <1>2, AmongListed DEF Asks
<1>4. t = [i \in DOMAIN picked |-> again(picked[i])]
  BY DEF Retry
<1>5. /\ \A f \in Range(F) : \E p \in Range(run.plan) : p.id = f.id /\ p.src = f.src
      /\ \A f, g \in Range(F) : f.src = g.src => f = g
      /\ \A f \in Range(F), p \in Range(run.plan) : f.src = p.src <=> f.id = p.id
  BY <1>2, FailureOf DEF Own
<1>6. \A f \in Range(F) : f \in Failures /\ Stands(run.job, f, run.plan)
  BY <1>2, ListIs DEF Worked, Own
<1>7. \A p \in Range(run.plan) : p \in Items /\ Fits(run.job, p) /\ p.from = p.src /\ p.src \in Folder
  BY <1>2, ListIs DEF Plan, Asks
\* Each item picked is of one failure.
<1>8. ASSUME NEW p \in Range(picked)
      PROVE  \E f \in Range(F) : f.denied /\ f.id = p.id /\ f.src = p.src /\ where(p) = f.from
  <2>1. p \in Range(run.plan) /\ p.src \in DeniedSrcs
    BY <1>3
  <2>2. PICK f \in Range(F) : f.denied /\ f.src = p.src
    BY <2>1 DEF DeniedSrcs
  <2>3. (CHOOSE g \in Range(F) : g.src = p.src) = f
    BY <1>5, <2>2
  <2> QED
    BY <1>5, <2>1, <2>2, <2>3
<1>9. \A i \in DOMAIN picked : picked[i] \in Range(picked) /\ picked[i] \in Range(run.plan)
  BY <1>3, ListIs
<1> HIDE DEF where, picked
\* What becomes of it.
<1>10. ASSUME NEW p \in Range(picked)
       PROVE  /\ again(p) \in Items /\ again(p).id = p.id /\ again(p).dst = p.dst
              /\ again(p).src = IF run.job = "rename" THEN where(p) ELSE p.src
              /\ again(p).from = again(p).src
              /\ Fits(run.job, again(p))
  <2>1. p \in Range(run.plan) /\ p \in Items /\ Fits(run.job, p) /\ p.from = p.src /\ p.src \in Folder
    BY <1>3, <1>7
  <2>2. PICK f \in Range(F) : f.denied /\ f.id = p.id /\ f.src = p.src /\ where(p) = f.from
    BY <1>8
  <2>3. where(p) \in Places /\ (run.job = "rename" => where(p) \in Folder \union Asides)
    BY <1>6, <2>1, <2>2 DEF Stands, Failures
  <2>4. CASE run.job = "rename"
    <3>1. again(p) = [p EXCEPT !.src = where(p), !.from = where(p)]
      BY <2>4
    <3> QED
      BY <2>1, <2>3, <2>4, <3>1 DEF Items, Fits
  <2>5. CASE run.job # "rename"
    BY <2>1, <2>5
  <2> QED
    BY <2>4, <2>5
<1>11. Maps(picked, t, Items)
  BY <1>4, <1>9, <1>10 DEF Maps
<1> HIDE DEF t
<1>12. t \in Seq(Items) /\ Ids(t) = Ids(picked) /\ Once(t) /\ \A a \in Range(t) : \E i \in DOMAIN picked : a = t[i]
  BY <1>3, <1>11, MapListed
<1>13. \A a \in Range(t) : \E p \in Range(picked) : a = again(p)
  BY <1>4, <1>9, <1>12
<1> HIDE DEF again
<1>14. \A a \in Range(t) : \E p \in Range(run.plan) : \E f \in Range(F) :
          /\ p.id = a.id /\ f.id = a.id /\ p.dst = a.dst /\ f.src = p.src
          /\ a.src = IF run.job = "rename" THEN f.from ELSE p.src
  <2> TAKE a \in Range(t)
  <2>1. PICK p \in Range(picked) : a = again(p)
    BY <1>13
  <2>2. PICK f \in Range(F) : f.denied /\ f.id = p.id /\ f.src = p.src /\ where(p) = f.from
    BY <1>8
  <2>3. p \in Range(run.plan)
    BY <1>3
  <2> QED
    BY <1>10, <2>1, <2>2, <2>3
<1>15. Asks(run.job, t)
  <2>1. \A a \in Range(t) : Fits(run.job, a) /\ a.from = a.src
    BY <1>10, <1>13
  <2>2. \A a, b \in Range(t) : a.src = b.src => a.id = b.id
    <3> SUFFICES ASSUME NEW a \in Range(t), NEW b \in Range(t), a.src = b.src PROVE a.id = b.id
      OBVIOUS
    <3>1. PICK p \in Range(run.plan) : \E f \in Range(F) :
             /\ p.id = a.id /\ f.id = a.id /\ f.src = p.src /\ a.src = IF run.job = "rename" THEN f.from ELSE p.src
      BY <1>14
    <3>2. PICK f \in Range(F) :
             /\ p.id = a.id /\ f.id = a.id /\ f.src = p.src /\ a.src = IF run.job = "rename" THEN f.from ELSE p.src
      BY <3>1
    <3>3. PICK x \in Range(run.plan) : \E g \in Range(F) :
             /\ x.id = b.id /\ g.id = b.id /\ g.src = x.src /\ b.src = IF run.job = "rename" THEN g.from ELSE x.src
      BY <1>14
    <3>4. PICK g \in Range(F) :
             /\ x.id = b.id /\ g.id = b.id /\ g.src = x.src /\ b.src = IF run.job = "rename" THEN g.from ELSE x.src
      BY <3>3
    <3>5. CASE run.job = "rename"
      BY <1>2, <3>2, <3>4, <3>5 DEF Worked, Own
    <3>6. CASE run.job # "rename"
      BY <1>2, <3>2, <3>4, <3>6 DEF Asks
    <3> QED
      BY <3>5, <3>6
  <2> QED
    BY <1>12, <2>1, <2>2 DEF Asks
<1>16. Ids(t) = {f.id : f \in {g \in Range(F) : g.denied}}
  <2>1. Ids(t) = {p.id : p \in Range(picked)}
    BY <1>3, <1>12, ListIs
  <2>2. \A x \in Ids(t) : \E f \in Range(F) : f.denied /\ f.id = x
    BY <1>8, <2>1
  <2>3. ASSUME NEW f \in Range(F), f.denied PROVE f.id \in Ids(t)
    <3>1. PICK p \in Range(run.plan) : p.id = f.id /\ p.src = f.src
      BY <1>5
    <3>2. p \in Range(picked)
      BY <1>3, <2>3, <3>1 DEF DeniedSrcs
    <3> QED
      BY <2>1, <3>1, <3>2
  <2> QED
    BY <2>2, <2>3
<1> DEFINE todo == IF run.job = "restore" THEN Reverse(t) ELSE t
<1>17. /\ q.job = run.job /\ q.doing = run.doing /\ q.pass = 2 /\ q.plan = run.plan /\ q.asked = t
       /\ q.phase = IF run.job = "rename" THEN "aside" ELSE "work"
       /\ q.todo = todo /\ q.ready = <<>> /\ q.outcome = NoOutcome /\ q.first = run.outcome
       /\ q.batch = 0 /\ q.cancelled = run.cancelled
       /\ q = [job |-> q.job, doing |-> q.doing, pass |-> 2, phase |-> q.phase, plan |-> q.plan, asked |-> q.asked,
               todo |-> q.todo, ready |-> q.ready, outcome |-> q.outcome, first |-> q.first, batch |-> q.batch,
               cancelled |-> q.cancelled]
  BY DEF Accepts, Pass, t, Own
<1> HIDE DEF q
<1>18. q \in Runs
  <2>1. todo \in Seq(Items)
    BY <1>12, ReverseListed
  <2>2. NoOutcome \in Outcomes /\ <<>> \in Seq(Items)
    BY NoneListed DEF NoOutcome, Outcomes
  <2> HIDE DEF todo
  <2> QED
    BY <1>1, <1>2, <1>12, <1>17, <2>1, <2>2 DEF Runs
<1>19. Worked(q.job, q.asked, q.outcome) /\ Waits(q) /\ Waiting(q) = Range(q.asked)
  BY <1>15, <1>17, <1>18, FreshPass
<1>20. Below(q, n)
  <2>1. Range(q.outcome.failed) = {}
    BY <1>17, NoneListed DEF NoOutcome
  <2>2. \A a \in Range(t) : a.src.no < n
    <3> TAKE a \in Range(t)
    <3>1. PICK p \in Range(run.plan) : \E f \in Range(F) : a.src = IF run.job = "rename" THEN f.from ELSE p.src
      BY <1>14
    <3>2. PICK f \in Range(F) : a.src = IF run.job = "rename" THEN f.from ELSE p.src
      BY <3>1
    <3>3. f.from.no < n /\ p.src.no < n
      BY <1>1 DEF RunInv, RunOK, Below, Own
    <3> QED
      BY <3>2, <3>3
  <2>3. \A a \in Range(t) : a.from = a.src
    BY <1>15 DEF Asks
  <2> QED
    BY <1>17, <1>19, <2>1, <2>2, <2>3 DEF Below
<1>21. Phased(q)
  BY <1>1, <1>17 DEF Phased
<1>22. Second(q)
  <2>1. run.cancelled \/ Ids(run.plan) \subseteq Ids(run.outcome.done) \union Ids(run.outcome.failed)
    <3>1. Ids(run.todo) = {} /\ Ids(run.ready) = {}
      BY <1>1, NoneListed
    <3> QED
      BY <1>1, <3>1 DEF RunInv, RunOK, Waits
  <2>2. Ids(t) = {f.id : f \in {g \in Range(run.outcome.failed) : g.denied}}
    BY <1>16 DEF Own
  <2>3. \A a \in Range(t) : \E p \in Range(run.plan) : \E f \in Range(run.outcome.failed) :
          /\ p.id = a.id /\ f.id = a.id /\ p.dst = a.dst
          /\ a.src = IF run.job = "rename" THEN f.from ELSE p.src
    BY <1>14 DEF Own
  <2> QED
    BY <1>2, <1>17, <2>1, <2>2, <2>3 DEF Second
<1> QED
  BY <1>1, <1>2, <1>15, <1>17, <1>18, <1>19, <1>20, <1>21, <1>22 DEF RunInv, RunOK, q

(***************************************************************************)
(* What comes of an operation.                                             *)
(***************************************************************************)

\* What is said to be done is of the plan, each item once, under the names of the plan.
Tells(job, plan, done) ==
    /\ done \in Seq(Items) /\ Once(done)
    /\ \A d \in Range(done) : /\ Asked(d, plan) /\ (job # "delete" => AskedTo(d, plan))
                              /\ (job # "rename" => Went(job, d))

\* What came of a list tells what was done of it.
LEMMA WorkedTells ==
    ASSUME NEW job, NEW plan, NEW o \in Outcomes, Worked(job, plan, o)
    PROVE  Tells(job, plan, o.done)
BY DEF Worked, Tells, Outcomes

\* What is wanted of a second pass: what was asked of it, by the item and the failure of the first.
LEMMA AskedAgain ==
    ASSUME NEW r \in Runs, Plan(r.job, r.plan), Second(r), NEW a \in Range(r.asked)
    PROVE  \E p \in Range(r.plan) : \E f \in Range(r.first.failed) :
              /\ p.id = a.id /\ f.id = a.id /\ p.dst = a.dst /\ f.src = p.src /\ f.denied
              /\ a.src = IF r.job = "rename" THEN f.from ELSE p.src
<1>1. PICK p \in Range(r.plan) : \E f \in Range(r.first.failed) :
          /\ p.id = a.id /\ f.id = a.id /\ p.dst = a.dst
          /\ a.src = IF r.job = "rename" THEN f.from ELSE p.src
  BY DEF Second
<1>2. PICK f \in Range(r.first.failed) :
          /\ p.id = a.id /\ f.id = a.id /\ p.dst = a.dst
          /\ a.src = IF r.job = "rename" THEN f.from ELSE p.src
  BY <1>1
<1>3. r.first.failed \in Seq(Failures) /\ Once(r.first.failed) /\ r.asked \in Seq(Items) /\ r.plan \in Seq(Items)
  BY DEF Runs, Outcomes, Second, Worked
<1>4. a.id \in Ids(r.asked)
  BY <1>3, ListIs
<1>5. PICK g \in Range(r.first.failed) : g.denied /\ g.id = a.id
  BY <1>4 DEF Second
<1>6. f = g
  BY <1>2, <1>3, <1>5, OneOfAnId
<1>7. f.src = p.src
  <2>1. PICK b \in Range(r.plan) : SameItem(f, b)
    BY <1>2 DEF Second, Worked, Asked
  <2>2. b = p
    BY <1>1, <1>2, <1>3, <2>1, OneOfAnId DEF SameItem, Plan, Asks
  <2> QED
    BY <2>1, <2>2 DEF SameItem
<1> QED
  BY <1>1, <1>2, <1>5, <1>6, <1>7

\* Where an item went by way of a temporary name, its own name is told.
LEMMA OriginIs ==
    ASSUME NEW n \in Nat, RunInv(run, n), run.job = "rename", run.pass = 2, NEW d \in Range(Own.done)
    PROVE  /\ Origin(d) \in Items /\ Origin(d).id = d.id /\ Origin(d).dst = d.dst
           /\ AskedTo(Origin(d), run.plan)
<1>1. /\ run \in Runs /\ Second(run) /\ Worked("rename", run.asked, run.outcome) /\ Worked("rename", run.plan, run.first)
      /\ Plan("rename", run.plan)
  BY DEF RunInv, RunOK, Second
<1>2. /\ Own.done \in Seq(Items) /\ run.first.failed \in Seq(Failures) /\ Once(run.first.failed)
      /\ run.plan \in Seq(Items)
  BY <1>1 DEF Runs, Outcomes, Worked, Own
<1>3. d \in Items /\ AskedTo(d, run.asked)
  BY <1>1, <1>2, ListIs DEF Worked, Own
<1>4. PICK a \in Range(run.asked) : SameItem(d, a) /\ d.dst = a.dst
  BY <1>3 DEF AskedTo
<1>5. PICK p \in Range(run.plan) : \E f \in Range(run.first.failed) :
          p.id = a.id /\ f.id = a.id /\ p.dst = a.dst /\ f.src = p.src /\ a.src = f.from
  <2>1. \E p \in Range(run.plan) : \E f \in Range(run.first.failed) :
              /\ p.id = a.id /\ f.id = a.id /\ p.dst = a.dst /\ f.src = p.src /\ f.denied
              /\ a.src = IF run.job = "rename" THEN f.from ELSE p.src
    BY <1>1, AskedAgain
  <2> QED
    BY <2>1
<1>6. PICK f \in Range(run.first.failed) :
          p.id = a.id /\ f.id = a.id /\ p.dst = a.dst /\ f.src = p.src /\ a.src = f.from
  BY <1>5
<1> DEFINE parked == {g \in Range(run.first.failed) : g.from # g.src /\ g.from = d.src}
<1>7. \A g \in parked : g = f
  <2> TAKE g \in parked
  <2>1. g.from = f.from
    BY <1>4, <1>6 DEF SameItem
  <2>2. g.id = f.id
    BY <1>1, <2>1 DEF Worked
  <2> QED
    BY <1>2, <2>2, OneOfAnId
<1>8. p.src \in Places /\ p \in Items
  <2>1. p \in Items
    BY <1>2, ListIs
  <2> QED
    BY <2>1 DEF Items
<1>9. CASE parked = {}
  <2>1. f.from = f.src
    BY <1>4, <1>6, <1>9 DEF SameItem
  <2>2. Origin(d) = d
    BY <1>9 DEF Origin
  <2> QED
    BY <1>3, <1>4, <1>6, <2>1, <2>2 DEF SameItem, AskedTo
<1>10. CASE parked # {}
  <2>1. (CHOOSE g \in parked : TRUE) = f
    BY <1>7, <1>10
  <2>2. Origin(d) = [d EXCEPT !.src = f.src]
    BY <1>10, <2>1 DEF Origin
  <2>3. /\ Origin(d) \in Items /\ Origin(d).id = d.id /\ Origin(d).dst = d.dst /\ Origin(d).src = p.src
    BY <1>3, <1>6, <1>8, <2>2 DEF Items
  <2> QED
    BY <1>4, <1>6, <2>3 DEF SameItem, AskedTo
<1> QED
  BY <1>9, <1>10

\* What the second pass is said to have done is what it did.
LEMMA SecondDoneIs ==
    ASSUME NEW n \in Nat, RunInv(run, n), run.pass = 2, run.todo = <<>>
    PROVE  /\ Tells(run.job, run.plan, SecondDone)
           /\ Ids(Own.done) \subseteq Ids(SecondDone) /\ Ids(SecondDone) \subseteq Ids(run.asked)
           /\ Ids(SecondDone) \intersect Ids(Own.failed) = {}
           /\ run.cancelled \/ Ids(SecondDone) = Ids(Own.done)
           /\ run.job = "delete" => SecondDone = Own.done
<1>1. /\ run \in Runs /\ Second(run) /\ Worked(run.job, run.asked, run.outcome) /\ Worked(run.job, run.plan, run.first)
      /\ Plan(run.job, run.plan) /\ Asks(run.job, run.asked) /\ run.job \in {"rename", "delete", "restore"}
      /\ Phased(run)
  BY DEF RunInv, RunOK, Second, Runs, Idle, Pass
<1>2. /\ Own.done \in Seq(Items) /\ Own.failed \in Seq(Failures) /\ run.outcome \in Outcomes /\ Own = run.outcome
      /\ run.plan \in Seq(Items) /\ run.asked \in Seq(Items) /\ Once(Own.done) /\ Once(Own.failed) /\ Once(run.asked)
      /\ Ids(Own.done) \intersect Ids(Own.failed) = {}
  BY <1>1 DEF Runs, Outcomes, Worked, Own, Asks
<1>3. Ids(Own.done) \subseteq Ids(run.asked) /\ Ids(Own.failed) \subseteq Ids(run.asked)
  <2>1. \A e \in Range(Own.done) \union Range(Own.failed) : \E a \in Range(run.asked) : e.id = a.id
    BY <1>1, <1>2 DEF Worked, Asked, SameItem
  <2>2. /\ Ids(Own.done) = {e.id : e \in Range(Own.done)} /\ Ids(Own.failed) = {e.id : e \in Range(Own.failed)}
        /\ Ids(run.asked) = {e.id : e \in Range(run.asked)}
    BY <1>2, ListIs
  <2> QED
    BY <2>1, <2>2
<1>4. run.cancelled \/ Ids(run.asked) \subseteq Ids(Own.done) \union Ids(Own.failed)
  <2>1. Ids(run.todo) = {} /\ Ids(run.ready) = {}
    BY NoneListed DEF RunInv
  <2> QED
    BY <1>2, <2>1 DEF RunInv, RunOK, Waits
\* An item asked for again, of which the plan has the item.
<1>5. \A a \in Range(run.asked) : \E p \in Range(run.plan) :
          p.id = a.id /\ p.dst = a.dst /\ (run.job # "rename" => p.src = a.src)
  <2> TAKE a \in Range(run.asked)
  <2>1. \E p \in Range(run.plan) : \E f \in Range(run.first.failed) :
              /\ p.id = a.id /\ f.id = a.id /\ p.dst = a.dst /\ f.src = p.src /\ f.denied
              /\ a.src = IF run.job = "rename" THEN f.from ELSE p.src
    BY <1>1, AskedAgain
  <2> QED
    BY <2>1
<1>6. CASE run.job = "rename"
  <2> DEFINE t == SecondDone
  <2>1. t = [i \in DOMAIN Own.done |-> Origin(Own.done[i])]
    BY <1>6 DEF SecondDone
  <2>2. \A i \in DOMAIN Own.done : Own.done[i] \in Range(Own.done)
    BY <1>2, ListIs
  <2>3. \A d \in Range(Own.done) : Origin(d) \in Items /\ Origin(d).id = d.id /\ AskedTo(Origin(d), run.plan)
    BY <1>6, OriginIs
  <2>4. Maps(Own.done, t, Items)
    BY <2>1, <2>2, <2>3 DEF Maps
  <2>5. \A i \in DOMAIN Own.done : AskedTo(t[i], run.plan)
    BY <2>1, <2>2, <2>3
  <2> HIDE DEF t
  <2>6. t \in Seq(Items) /\ Ids(t) = Ids(Own.done) /\ Once(t) /\ \A e \in Range(t) : \E i \in DOMAIN Own.done : e = t[i]
    BY <1>2, <2>4, MapListed
  <2>7. \A e \in Range(t) : AskedTo(e, run.plan) /\ Asked(e, run.plan)
    BY <2>5, <2>6 DEF AskedTo, Asked
  <2> QED
    BY <1>2, <1>3, <1>6, <2>6, <2>7 DEF Tells, t
<1>7. CASE run.job = "delete"
  <2>1. SecondDone = Own.done
    BY <1>7 DEF SecondDone
  <2>2. \A d \in Range(Own.done) : Asked(d, run.plan) /\ Went("delete", d)
    <3> TAKE d \in Range(Own.done)
    <3>1. Went("delete", d) /\ Asked(d, run.asked)
      BY <1>1, <1>2, <1>7 DEF Worked
    <3>2. PICK a \in Range(run.asked) : SameItem(d, a)
      BY <3>1 DEF Asked
    <3>3. PICK p \in Range(run.plan) : p.id = a.id /\ p.src = a.src
      BY <1>5, <1>7
    <3> QED
      BY <3>1, <3>2, <3>3 DEF Asked, SameItem
  <2> QED
    BY <1>2, <1>3, <1>7, <2>1, <2>2 DEF Tells
<1>8. CASE run.job = "restore"
  <2> DEFINE fine == {item \in Range(run.asked) : \A f \in Range(Own.failed) : f.src # item.src}
             t == SecondDone
  <2>1. t = Among(run.asked, fine)
    BY <1>8 DEF SecondDone
  <2> HIDE DEF t
  <2>2. t \in Seq(Items) /\ Range(t) = fine /\ Once(t)
    BY <1>2, <2>1, AmongListed
  <2>3. \A f \in Range(Own.failed), a \in Range(run.asked) : f.src = a.src <=> f.id = a.id
    BY <1>1, <1>2, FailureOf
  <2>4. /\ Ids(t) = {e.id : e \in Range(t)} /\ Ids(Own.failed) = {e.id : e \in Range(Own.failed)}
        /\ Ids(run.asked) = {e.id : e \in Range(run.asked)}
    BY <1>2, <2>2, ListIs
  <2>5. Ids(t) = Ids(run.asked) \ Ids(Own.failed)
    <3>1. \A x \in Ids(t) : x \in Ids(run.asked) \ Ids(Own.failed)
      BY <2>2, <2>3, <2>4
    <3>2. \A x \in Ids(run.asked) \ Ids(Own.failed) : x \in Ids(t)
      BY <2>2, <2>3, <2>4
    <3> QED
      BY <3>1, <3>2
  <2>6. \A d \in Range(t) : AskedTo(d, run.plan) /\ Asked(d, run.plan) /\ Went("restore", d)
    <3> TAKE d \in Range(t)
    <3>1. d \in Range(run.asked) /\ Fits("restore", d) /\ d.from = d.src
      BY <1>1, <1>8, <2>2 DEF Asks
    <3>2. PICK p \in Range(run.plan) : p.id = d.id /\ p.src = d.src /\ p.dst = d.dst
      BY <1>5, <1>8, <3>1
    <3> QED
      BY <3>1, <3>2 DEF AskedTo, Asked, SameItem, Went, Fits
  <2>7. ~run.cancelled
    BY <1>1, <1>8 DEF Phased
  <2> QED
    BY <1>2, <1>3, <1>4, <1>8, <2>2, <2>5, <2>6, <2>7 DEF Tells, t
<1> QED
  BY <1>1, <1>6, <1>7, <1>8

\* The two passes together: no item is in two places, and none is in no place unless the user cancelled.
LEMMA MergedIs ==
    ASSUME NEW n \in Nat, RunInv(run, n), Over
    PROVE  /\ Merged = [done |-> Merged.done, failed |-> Merged.failed, stagings |-> Merged.stagings]
           /\ Tells(run.job, run.plan, Merged.done) /\ Merged.failed \in Seq(Failures) /\ Once(Merged.failed)
           /\ Ids(Merged.done) \intersect Ids(Merged.failed) = {}
           /\ run.cancelled \/ Ids(run.plan) \subseteq Ids(Merged.done) \union Ids(Merged.failed)
           /\ Merged.stagings \in SUBSET Nat
           /\ run.pass = 1 => Merged = run.outcome
           /\ run.pass = 2 => /\ Merged.stagings = run.first.stagings \union Own.stagings
                              /\ Range(Merged.done) = Range(run.first.done) \union Range(SecondDone)
                              /\ Range(Merged.failed) = {f \in Range(run.first.failed) : ~f.denied} \union Range(Own.failed)
<1>1. /\ run \in Runs /\ Worked(run.job, run.asked, run.outcome) /\ run.outcome \in Outcomes /\ run.first \in Outcomes
      /\ run.todo = <<>> /\ run.ready = <<>> /\ run.pass \in {1, 2} /\ run.plan \in Seq(Items) /\ run.asked \in Seq(Items)
  BY DEF RunInv, RunOK, Runs, Over
<1>2. CASE run.pass = 1
  <2>1. Merged = run.outcome /\ run.asked = run.plan
    BY <1>2 DEF Merged, Own, RunInv, RunOK
  <2>2. Ids(run.todo) = {} /\ Ids(run.ready) = {}
    BY <1>1, NoneListed
  <2>3. run.cancelled \/ Ids(run.plan) \subseteq Ids(Merged.done) \union Ids(Merged.failed)
    BY <2>1, <2>2 DEF RunInv, RunOK, Waits
  <2>4. Tells(run.job, run.plan, Merged.done)
    BY <1>1, <2>1, WorkedTells
  <2> QED
    BY <1>1, <1>2, <2>1, <2>3, <2>4 DEF Worked, Outcomes
<1>3. CASE run.pass = 2
  <2> DEFINE sd == SecondDone
             sv == Survivors
             m  == Merged
  <2>1. /\ Second(run) /\ Worked(run.job, run.plan, run.first)
    BY <1>3 DEF RunInv, RunOK, Second
  <2>2. /\ Tells(run.job, run.plan, sd) /\ Ids(sd) \subseteq Ids(run.asked)
        /\ Ids(sd) \intersect Ids(Own.failed) = {} /\ (run.cancelled \/ Ids(sd) = Ids(Own.done))
    BY <1>1, <1>3, SecondDoneIs
  <2>3. Merged = [done |-> run.first.done \o sd, failed |-> sv \o Own.failed,
                  stagings |-> run.first.stagings \union Own.stagings]
    BY <1>3 DEF Merged
  <2>4. /\ run.first.done \in Seq(Items) /\ run.first.failed \in Seq(Failures) /\ Own.failed \in Seq(Failures)
        /\ Once(run.first.done) /\ Once(run.first.failed) /\ Once(Own.failed) /\ Ids(run.first.done) \intersect Ids(run.first.failed) = {}
        /\ run.first.stagings \in SUBSET Nat /\ Own.stagings \in SUBSET Nat
        /\ Own.done \in Seq(Items)
    BY <1>1, <2>1 DEF Worked, Outcomes, Own
  <2>5. /\ sv \in Seq(Failures) /\ Once(sv) /\ Range(sv) = {f \in Range(run.first.failed) : ~f.denied}
    <3>1. sv = Among(run.first.failed, {f \in Range(run.first.failed) : ~f.denied})
      BY DEF Survivors
    <3> HIDE DEF sv
    <3> QED
      BY <2>4, <3>1, AmongListed
  <2> HIDE DEF sd, sv
  <2>6. /\ Ids(sv) = {f.id : f \in Range(sv)} /\ Ids(run.first.failed) = {f.id : f \in Range(run.first.failed)}
        /\ Ids(Own.failed) = {f.id : f \in Range(Own.failed)} /\ Ids(run.asked) = {a.id : a \in Range(run.asked)}
        /\ Ids(run.first.done) = {f.id : f \in Range(run.first.done)}
    BY <1>1, <2>4, <2>5, ListIs
  <2>7. Ids(Own.failed) \subseteq Ids(run.asked)
    BY <1>1, <2>6 DEF Worked, Asked, SameItem, Own
  <2>8. Ids(run.asked) \subseteq Ids(run.first.failed) /\ Ids(sv) \subseteq Ids(run.first.failed)
        /\ Ids(run.first.failed) \subseteq Ids(run.asked) \union Ids(sv)
    BY <2>1, <2>5, <2>6 DEF Second
  <2>9. Ids(sv) \intersect Ids(run.asked) = {}
    <3> SUFFICES ASSUME NEW x \in Ids(sv), x \in Ids(run.asked) PROVE FALSE
      OBVIOUS
    <3>1. PICK f \in Range(run.first.failed) : ~f.denied /\ f.id = x
      BY <2>5, <2>6
    <3>2. PICK g \in Range(run.first.failed) : g.denied /\ g.id = x
      BY <2>1 DEF Second
    <3>3. f = g
      BY <2>4, <3>1, <3>2, OneOfAnId
    <3> QED
      BY <3>1, <3>2, <3>3
  <2>10. sd \in Seq(Items) /\ Once(sd) /\ Ids(run.first.done) \intersect Ids(sd) = {}
    BY <2>2, <2>4, <2>8 DEF Tells
  <2>11. /\ m.done \in Seq(Items) /\ Once(m.done) /\ Ids(m.done) = Ids(run.first.done) \union Ids(sd)
         /\ Range(m.done) = Range(run.first.done) \union Range(sd)
    BY <2>3, <2>4, <2>10, JoinListed
  <2>12. /\ m.failed \in Seq(Failures) /\ Once(m.failed) /\ Ids(m.failed) = Ids(sv) \union Ids(Own.failed)
         /\ Range(m.failed) = Range(sv) \union Range(Own.failed)
    <3>1. Ids(sv) \intersect Ids(Own.failed) = {}
      BY <2>7, <2>9
    <3> QED
      BY <2>3, <2>4, <2>5, <3>1, JoinListed
  <2>13. Tells(run.job, run.plan, m.done)
    <3>1. Tells(run.job, run.plan, run.first.done)
      BY <1>1, <2>1, WorkedTells
    <3> QED
      BY <2>2, <2>11, <3>1 DEF Tells
  <2>14. Ids(m.done) \intersect Ids(m.failed) = {}
    BY <2>2, <2>4, <2>7, <2>8, <2>9, <2>11, <2>12
  <2>15. run.cancelled \/ Ids(run.plan) \subseteq Ids(m.done) \union Ids(m.failed)
    <3>1. Ids(run.todo) = {} /\ Ids(run.ready) = {}
      BY <1>1, NoneListed
    <3>2. run.cancelled \/ Ids(run.asked) \subseteq Ids(Own.done) \union Ids(Own.failed)
      BY <3>1 DEF RunInv, RunOK, Waits, Own
    <3>3. run.cancelled \/ Ids(run.plan) \subseteq Ids(run.first.done) \union Ids(run.first.failed)
      BY <2>1 DEF Second
    <3> QED
      BY <2>2, <2>8, <2>11, <2>12, <3>2, <3>3
  <2> QED
    BY <1>3, <2>3, <2>4, <2>5, <2>11, <2>12, <2>13, <2>14, <2>15 DEF sd, m
<1> QED
  BY <1>1, <1>2, <1>3

(***************************************************************************)
(* The actions of a pass.                                                  *)
(***************************************************************************)

\* What a step of a pass leaves as it is.
Carries(r, q) ==
    /\ q.job = r.job /\ q.doing = r.doing /\ q.pass = r.pass /\ q.plan = r.plan
    /\ q.asked = r.asked /\ q.first = r.first /\ q.cancelled = r.cancelled

\* What the next phase begins with is what the one before left.
LEMMA OnwardIs ==
    ASSUME NEW r \in Runs
    PROVE  /\ Carries(r, Onward(r)) /\ Onward(r).outcome = r.outcome /\ Onward(r).batch = r.batch
           /\ Waiting(Onward(r)) = Waiting(r)
           /\ Onward(r).phase = "aside" => Onward(r) = r /\ r.todo # <<>>
<1>1. CASE r.todo # <<>>
  BY <1>1 DEF Onward, Carries
<1>2. CASE r.todo = <<>> /\ r.ready = <<>> /\ r.phase # "aside"
  BY <1>2 DEF Onward, Carries
<1>3. CASE r.todo = <<>> /\ (r.phase = "aside" \/ (r.phase = "work" /\ r.ready # <<>>))
  <2> DEFINE ph == IF r.phase = "aside" THEN "work" ELSE "bin"
             q  == [r EXCEPT !.phase = ph, !.todo = r.ready, !.ready = <<>>]
  <2>1. Onward(r) = q
    BY <1>3 DEF Onward
  <2>2. /\ q.job = r.job /\ q.doing = r.doing /\ q.pass = r.pass /\ q.phase = ph /\ q.plan = r.plan /\ q.asked = r.asked
        /\ q.todo = r.ready /\ q.ready = <<>> /\ q.outcome = r.outcome /\ q.first = r.first /\ q.cancelled = r.cancelled
        /\ q.batch = r.batch
    BY DEF Runs
  <2>3. ph # "aside"
    OBVIOUS
  <2> HIDE DEF q, ph
  <2>4. Waiting(q) = Waiting(r)
    BY <1>3, <2>2, NoneListed DEF Waiting
  <2> QED
    BY <2>1, <2>2, <2>3, <2>4 DEF Carries
<1>4. CASE r.todo = <<>> /\ r.phase = "bin"
  BY <1>4 DEF Onward, Carries
<1>5. r.phase \in {"aside", "work", "bin"}
  BY DEF Runs
<1> QED
  BY <1>1, <1>2, <1>3, <1>4, <1>5

\* What still waits once the first is taken off.
LEMMA RestWaits ==
    ASSUME NEW r, NEW n \in Nat, RunOK(r, n), r.todo # <<>>
    PROVE  Range(Tail(r.todo)) \union Range(r.ready) = Waiting(r) \ {Head(r.todo)}
<1> DEFINE h == Head(r.todo)
<1>1. h.id \in Ids(r.todo) /\ Range(r.todo) = Range(Tail(r.todo)) \union {h} /\ h \notin Range(Tail(r.todo))
  BY HeadOff
<1>2. h \notin Range(r.ready)
  <2>1. r.ready \in Seq(Items)
    BY DEF RunOK, Runs
  <2>2. \A e \in Range(r.ready) : e.id \in Ids(r.ready)
    BY <2>1, ListIs
  <2> QED
    BY <1>1, <2>2 DEF RunOK, Waits
<1> HIDE DEF h
<1> QED
  BY <1>1, <1>2 DEF Waiting, h

\* The item at the head is done with.
LEMMA Succeeding ==
    ASSUME NEW n \in Nat, RunOK(run, n), run.todo # <<>>,
           NEW d \in Items, d.id = Head1.id, d.src = Head1.src, run.job # "delete" => d.dst = Head1.dst,
           Went(run.job, Done(d)), Succeeds(d)
    PROVE  /\ RunInv(run', n) /\ Carries(run, run')
           /\ run'.outcome.done = Append(run.outcome.done, Done(d))
           /\ run'.outcome.failed = run.outcome.failed /\ run'.outcome.stagings = run.outcome.stagings
           /\ run'.batch = run.batch /\ Waiting(run') = Waiting(run) \ {Head1}
           /\ run'.phase = "aside" => Range(run'.todo) \subseteq Range(run.todo) /\ run.phase = "aside"
<1> DEFINE q == [[run EXCEPT !.outcome.done = Append(@, Done(d))] EXCEPT !.todo = Tail(@)]
<1>1. run \in Runs /\ run.outcome \in Outcomes
  BY DEF RunOK, Runs
<1>2. run' = Onward(q)
  BY DEF Succeeds, Goes
<1>3. Done(d) \in Items /\ Done(d).id = d.id /\ Done(d).src = d.src /\ Done(d).dst = d.dst
  BY DEF Done, Items
<1>4. /\ q.job = run.job /\ q.doing = run.doing /\ q.pass = run.pass /\ q.phase = run.phase /\ q.plan = run.plan
      /\ q.asked = run.asked /\ q.first = run.first /\ q.cancelled = run.cancelled /\ q.batch = run.batch
      /\ q.todo = Tail(run.todo) /\ q.ready = run.ready
      /\ q.outcome = [run.outcome EXCEPT !.done = Append(run.outcome.done, Done(d))]
  BY <1>1 DEF Runs
<1>5. /\ q.outcome.done = Append(run.outcome.done, Done(d)) /\ q.outcome.failed = run.outcome.failed
      /\ q.outcome.stagings = run.outcome.stagings
  BY <1>1, <1>4 DEF Outcomes
<1>6. q \in Runs
  <2>1. Tail(run.todo) \in Seq(Items)
    BY HeadOff
  <2>2. Append(run.outcome.done, Done(d)) \in Seq(Items)
    BY <1>1, <1>3, AppendProperties DEF Outcomes
  <2>3. q = [run EXCEPT !.outcome = q.outcome, !.todo = Tail(run.todo)]
    BY <1>1, <1>4 DEF Runs
  <2> HIDE DEF q
  <2>4. q.outcome \in Outcomes
    BY <1>1, <1>4, <2>2 DEF Outcomes
  <2> QED
    BY <1>1, <2>1, <2>3, <2>4 DEF Runs
<1> HIDE DEF q
<1>7. RunOK(q, n)
  <2>1. Alike(run, q)
    BY <1>4, <1>6 DEF Alike
  <2> QED
    BY <1>3, <1>4, <1>5, <2>1, DoneKeeps DEF Head1
<1>8. RunInv(run', n)
  BY <1>2, <1>7, OnwardKeeps
<1>9. Carries(q, run') /\ run'.outcome = q.outcome /\ run'.batch = q.batch /\ Waiting(run') = Waiting(q)
      /\ (run'.phase = "aside" => run' = q)
  BY <1>2, <1>6, OnwardIs
<1>10. Waiting(q) = Waiting(run) \ {Head1}
  BY <1>4, RestWaits DEF Waiting, Head1
<1>11. Range(Tail(run.todo)) \subseteq Range(run.todo)
  BY HeadOff
<1> QED
  BY <1>4, <1>5, <1>8, <1>9, <1>10, <1>11 DEF Carries

\* It fails.
LEMMA Failing ==
    ASSUME NEW n \in Nat, RunOK(run, n), run.todo # <<>>,
           NEW denied \in BOOLEAN, NEW from \in {Head1.from, Head1.src}, Fails(denied, from)
    PROVE  /\ RunInv(run', n) /\ Carries(run, run')
           /\ run'.outcome.done = run.outcome.done
           /\ Range(run'.outcome.failed) = Range(run.outcome.failed) \union {Failure(Head1, denied, from)}
           /\ run'.outcome.stagings = run.outcome.stagings
           /\ run'.batch = run.batch /\ Waiting(run') = Waiting(run) \ {Head1}
           /\ run'.phase = "aside" => Range(run'.todo) \subseteq Range(run.todo) /\ run.phase = "aside"
<1> DEFINE g == Failure(Head1, denied, from)
           q == [[run EXCEPT !.outcome.failed = Append(@, g)] EXCEPT !.todo = Tail(@)]
<1>1. run \in Runs /\ run.outcome \in Outcomes
  BY DEF RunOK, Runs
<1>2. run' = Onward(q)
  BY DEF Fails, Goes
<1>3. /\ q.job = run.job /\ q.doing = run.doing /\ q.pass = run.pass /\ q.phase = run.phase /\ q.plan = run.plan
      /\ q.asked = run.asked /\ q.first = run.first /\ q.cancelled = run.cancelled /\ q.batch = run.batch
      /\ q.todo = Tail(run.todo) /\ q.ready = run.ready
      /\ q.outcome = [run.outcome EXCEPT !.failed = Append(run.outcome.failed, g)]
  BY <1>1 DEF Runs
<1>4. /\ q.outcome.failed = Append(run.outcome.failed, g) /\ q.outcome.done = run.outcome.done
      /\ q.outcome.stagings = run.outcome.stagings
  BY <1>1, <1>3 DEF Outcomes
<1>5. g \in Failures /\ g.id = Head1.id
  <2>1. Head1 \in Items
    BY HeadOff DEF Head1
  <2> QED
    BY <2>1 DEF Failure, Failures, Items
<1>6. Range(Append(run.outcome.failed, g)) = Range(run.outcome.failed) \union {g}
  <2>1. run.outcome.failed \in Seq(Failures) /\ Once(run.outcome.failed)
    BY <1>1 DEF Outcomes, RunOK, Worked
  <2>2. g.id \notin Ids(run.outcome.failed)
    BY <1>5, HeadOff DEF RunOK, Waits, Head1
  <2> HIDE DEF g
  <2> QED
    BY <1>5, <2>1, <2>2, AppendListed
<1> HIDE DEF g
<1>7. q \in Runs
  <2>1. Tail(run.todo) \in Seq(Items)
    BY HeadOff
  <2>2. Append(run.outcome.failed, g) \in Seq(Failures)
    BY <1>1, <1>5, AppendProperties DEF Outcomes
  <2>3. q = [run EXCEPT !.outcome = q.outcome, !.todo = Tail(run.todo)]
    BY <1>1, <1>3 DEF Runs
  <2> HIDE DEF q
  <2>4. q.outcome \in Outcomes
    BY <1>1, <1>3, <2>2 DEF Outcomes
  <2> QED
    BY <1>1, <2>1, <2>3, <2>4 DEF Runs
<1> HIDE DEF q
<1>8. RunOK(q, n)
  <2>1. Alike(run, q)
    BY <1>3, <1>7 DEF Alike
  <2>2. from \in {Head(run.todo).from, Head(run.todo).src}
    BY DEF Head1
  <2>3. q.outcome.failed = Append(run.outcome.failed, Failure(Head(run.todo), denied, from))
    BY <1>4 DEF Head1, g
  <2>4. q.todo = Tail(run.todo) /\ q.ready = run.ready /\ q.outcome.done = run.outcome.done
    BY <1>3, <1>4
  <2> QED
    BY <2>1, <2>2, <2>3, <2>4, FailsKeeps
<1>9. RunInv(run', n)
  BY <1>2, <1>8, OnwardKeeps
<1>10. Carries(q, run') /\ run'.outcome = q.outcome /\ run'.batch = q.batch /\ Waiting(run') = Waiting(q)
       /\ (run'.phase = "aside" => run' = q)
  BY <1>2, <1>7, OnwardIs
<1>11. Waiting(q) = Waiting(run) \ {Head1}
  BY <1>3, RestWaits DEF Waiting, Head1
<1>12. Range(Tail(run.todo)) \subseteq Range(run.todo)
  BY HeadOff
<1> QED
  BY <1>3, <1>4, <1>6, <1>9, <1>10, <1>11, <1>12 DEF Carries, g

\* It waits for the next phase, where it stands or aside.
LEMMA Readying ==
    ASSUME NEW n \in Nat, NEW m \in Nat, n <= m, RunOK(run, n), run.todo # <<>>,
           NEW x \in Items, x.id = Head1.id, x.src = Head1.src, x.dst = Head1.dst,
           \/ x.from = Head1.from
           \/ run.job = "rename" /\ x.from \in Asides /\ x.from.no = n /\ n < m,
           \/ run.job = "rename" /\ run.phase = "aside"
           \/ run.job = "delete" /\ run.phase = "work",
           Goes([run EXCEPT !.ready = Append(@, x)])
    PROVE  /\ RunInv(run', m) /\ Carries(run, run')
           /\ run'.outcome = run.outcome
           /\ run'.batch = run.batch /\ Waiting(run') = (Waiting(run) \ {Head1}) \union {x}
           /\ run'.phase = "aside" => Range(run'.todo) \subseteq Range(run.todo) /\ run.phase = "aside"
<1> DEFINE q == [[run EXCEPT !.ready = Append(@, x)] EXCEPT !.todo = Tail(@)]
<1>1. run \in Runs /\ run.ready \in Seq(Items)
  BY DEF RunOK, Runs
<1>2. run' = Onward(q)
  BY DEF Goes
<1>3. /\ q.job = run.job /\ q.doing = run.doing /\ q.pass = run.pass /\ q.phase = run.phase /\ q.plan = run.plan
      /\ q.asked = run.asked /\ q.first = run.first /\ q.cancelled = run.cancelled /\ q.batch = run.batch
      /\ q.todo = Tail(run.todo) /\ q.ready = Append(run.ready, x) /\ q.outcome = run.outcome
  BY <1>1 DEF Runs
<1>4. q \in Runs
  <2>1. Tail(run.todo) \in Seq(Items)
    BY HeadOff
  <2>2. Append(run.ready, x) \in Seq(Items)
    BY <1>1, AppendProperties
  <2>3. q = [run EXCEPT !.ready = Append(run.ready, x), !.todo = Tail(run.todo)]
    BY <1>1, <1>3 DEF Runs
  <2> HIDE DEF q
  <2> QED
    BY <1>1, <2>1, <2>2, <2>3 DEF Runs
<1> HIDE DEF q
<1>5. RunOK(q, m)
  <2>1. Alike(run, q)
    BY <1>3, <1>4 DEF Alike
  <2> QED
    BY <1>3, <2>1, ReadyKeeps DEF Head1
<1>6. RunInv(run', m)
  BY <1>2, <1>5, OnwardKeeps
<1>7. Carries(q, run') /\ run'.outcome = q.outcome /\ run'.batch = q.batch /\ Waiting(run') = Waiting(q)
      /\ (run'.phase = "aside" => run' = q)
  BY <1>2, <1>4, OnwardIs
<1>8. Waiting(q) = (Waiting(run) \ {Head1}) \union {x}
  <2>1. Range(Append(run.ready, x)) = Range(run.ready) \union {x}
    <3>1. Once(run.ready) /\ x.id \notin Ids(run.ready)
      BY HeadOff DEF RunOK, Waits, Head1
    <3> QED
      BY <1>1, <3>1, AppendListed
  <2>2. Range(Tail(run.todo)) \union Range(run.ready) = Waiting(run) \ {Head1}
    BY RestWaits DEF Head1
  <2>3. Waiting(q) = Range(Tail(run.todo)) \union (Range(run.ready) \union {x})
    BY <1>3, <2>1 DEF Waiting
  <2> QED
    BY <2>2, <2>3
<1>9. Range(Tail(run.todo)) \subseteq Range(run.todo)
  BY HeadOff
<1> QED
  BY <1>3, <1>6, <1>7, <1>8, <1>9 DEF Carries

(***************************************************************************)
(* The whole.                                                              *)
(***************************************************************************)
Records == [job : {"rename", "delete"}, done : Seq(Items), stagings : SUBSET Nat,
            before : SUBSET (Names \X Nat), after : SUBSET (Names \X Nat)]

\* What a record says was done can be undone.
RecordOK(rec) ==
    /\ rec \in Records /\ Once(rec.done) /\ rec.done # <<>>
    /\ \A d \in Range(rec.done) : d.src \in Folder
    /\ \A d, e \in Range(rec.done) : d.src = e.src => d.id = e.id
    /\ rec.job = "rename" =>
          /\ rec.stagings = {}
          /\ \A d \in Range(rec.done) : d.dst \in Folder
          /\ \A d, e \in Range(rec.done) : d.dst = e.dst => d.id = e.id
    /\ rec.job = "delete" => \A d \in Range(rec.done) : d.dst \in Stores /\ d.from = d.src

\* What a record is undone and done again by.
UndoJob(rec)  == IF rec.job = "rename" THEN "rename" ELSE "restore"
UndoPlan(rec) == IF rec.job = "rename" THEN Swapped(rec.done) ELSE rec.done
AgainPlan(rec) == IF rec.job = "rename" THEN Swapped(rec.done) ELSE RedoPlan(rec.done)

HistoryOK ==
    /\ past \in Seq(Records) /\ \A rec \in Range(past) : RecordOK(rec)
    /\ undone \in Seq(Records) /\ \A rec \in Range(undone) : RecordOK(rec)
    /\ run.doing = "undo" => /\ past # <<>>
                             /\ run.job = UndoJob(Last(past)) /\ run.plan = UndoPlan(Last(past))
    /\ run.doing = "redo" => /\ undone # <<>>
                             /\ run.job = Head(undone).job /\ run.plan = AgainPlan(Head(undone))
    /\ begun \in SUBSET (Names \X Nat)

DiskOK ==
    /\ serial \in Nat /\ since \in Nat /\ 1 <= since /\ since <= serial /\ made \in Nat
    /\ \A p \in DOMAIN disk : /\ p \in Places /\ disk[p] \in 1..made
                              /\ p.at = "folder" => p \in Folder
                              /\ p.at # "folder" => p.no < serial
    /\ \A p, q \in DOMAIN disk : disk[p] = disk[q] => p = q
    /\ given \subseteq 1..made

\* The numbers of the places an outcome or a record tells of.
Numbers(o) == o.stagings \union {d.dst.no : d \in {e \in Range(o.done) : e.dst \in Stores}}
RunNumbers == IF run.job = "delete" THEN Numbers(run.outcome) \union Numbers(run.first) ELSE {}
\* What its holding folders hold, it tells of.
Known(o)   == \A p \in DOMAIN disk : p.at \in {"held", "beside"} /\ p.no \in o.stagings => p \in HeldBy(o)

HeldOK ==
    /\ run.outcome.stagings = IF run.batch = 0 THEN {} ELSE {run.batch}
    /\ run.job # "delete" => run.batch = 0 /\ run.first.stagings = {}
    /\ run.batch \notin run.first.stagings
    /\ \A k \in RunNumbers : k \in Nat /\ since <= k /\ k < serial
    /\ \A i \in DOMAIN past : \A k \in Numbers(past[i]) : k \in Nat /\ since <= k /\ k < serial /\ k \notin RunNumbers
    /\ \A i, j \in DOMAIN past : i # j => Numbers(past[i]) \intersect Numbers(past[j]) = {}
    /\ \A o \in {run.outcome, run.first} \union Range(past) : Known(o)

AllDone == Range(run.first.done) \union Range(run.outcome.done)
There(p) == Exists(p) \/ (p.at = "bin" /\ emptied)
\* What a record in effect holds is there, but for what is being put back.
KeptOK ==
    lost \/
      /\ \A i \in DOMAIN past : past[i].job = "delete" => \A p \in HeldBy(past[i]) :
            \/ There(p)
            \/ run.job = "restore" /\ i = Len(past) /\ \E d \in AllDone : d.dst = p
      /\ run.job = "delete" => \A d \in AllDone : d.dst \in Stores => There(d.dst)

\* Nothing is done yet in a pass that begins.
LEMMA PassIs ==
    ASSUME NEW n \in Nat, 1 <= n, NEW job \in {"rename", "delete", "restore"}, NEW doing \in {"do", "undo", "redo"},
           NEW plan \in Seq(Items), Plan(job, plan), job = "restore" <=> (job # "rename" /\ doing = "undo"),
           run' = Onward(Pass(job, doing, plan))
    PROVE  /\ RunInv(run', n)
           /\ run'.job = job /\ run'.doing = doing /\ run'.pass = 1 /\ run'.plan = plan /\ run'.asked = plan
           /\ run'.outcome = NoOutcome /\ run'.first = NoOutcome /\ run'.batch = 0 /\ ~run'.cancelled
           /\ Waiting(run') = Range(plan)
           /\ run'.phase = "aside" => Range(run'.todo) \subseteq Range(plan)
<1> DEFINE q == Pass(job, doing, plan)
<1>1. /\ q.job = job /\ q.doing = doing /\ q.pass = 1 /\ q.phase = (IF job = "rename" THEN "aside" ELSE "work")
      /\ q.plan = plan /\ q.asked = plan /\ q.todo = (IF job = "restore" THEN Reverse(plan) ELSE plan)
      /\ q.ready = <<>> /\ q.outcome = NoOutcome /\ q.first = NoOutcome /\ q.batch = 0 /\ q.cancelled = FALSE
      /\ q = [job |-> q.job, doing |-> q.doing, pass |-> q.pass, phase |-> q.phase, plan |-> q.plan, asked |-> q.asked,
              todo |-> q.todo, ready |-> q.ready, outcome |-> q.outcome, first |-> q.first, batch |-> q.batch,
              cancelled |-> q.cancelled]
  BY DEF Pass
<1> HIDE DEF q
<1>2. Asks(job, plan) /\ Once(plan)
  BY DEF Plan, Asks
<1>3. q.todo \in Seq(Items) /\ Range(q.todo) = Range(plan)
  BY <1>1, <1>2, ReverseListed
<1>4. q \in Runs
  <2>1. NoOutcome \in Outcomes /\ <<>> \in Seq(Items)
    BY NoneListed DEF NoOutcome, Outcomes
  <2>2. q.phase \in {"aside", "work", "bin"} /\ q.job \in {"none", "rename", "delete", "restore"} /\ q.pass \in {1, 2}
        /\ q.batch \in Nat /\ q.cancelled \in BOOLEAN /\ q.doing \in {"do", "undo", "redo"}
    <3>1. q.phase \in {"aside", "work", "bin"}
      BY <1>1, Zenon
    <3>2. q.job = job /\ q.doing = doing /\ q.pass = 1 /\ q.batch = 0
      BY <1>1
    <3>3. q.cancelled \in BOOLEAN
      BY <1>1, Zenon
    <3> QED
      BY <3>1, <3>2, <3>3
  <2>3. q.plan \in Seq(Items) /\ q.asked \in Seq(Items) /\ q.ready \in Seq(Items)
        /\ q.outcome \in Outcomes /\ q.first \in Outcomes
    BY <1>1, <2>1
  <2> QED
    BY <1>1, <1>3, <2>2, <2>3 DEF Runs
<1>5. Worked(q.job, q.asked, q.outcome) /\ Waits(q) /\ Waiting(q) = Range(q.asked)
  BY <1>1, <1>2, <1>4, FreshPass
<1>6. Below(q, n)
  <2>1. Range(q.outcome.failed) = {}
    BY <1>1, NoneListed DEF NoOutcome
  <2>2. \A a \in Range(plan) : a.src.no < n /\ a.from.no < n
    <3> TAKE a \in Range(plan)
    <3>1. a.src \in Folder /\ a.from = a.src
      BY <1>2 DEF Plan, Asks
    <3> QED
      BY <3>1 DEF Folder, In
  <2> QED
    BY <1>1, <1>5, <2>1, <2>2 DEF Below
<1>7. Phased(q)
  BY <1>1 DEF Phased
<1>8. RunOK(q, n)
  BY <1>1, <1>2, <1>4, <1>5, <1>6, <1>7 DEF RunOK
<1>9. run' = Onward(q)
  BY DEF q
<1>10. RunInv(run', n)
  BY <1>8, <1>9, OnwardKeeps
<1>11. Carries(q, run') /\ run'.outcome = q.outcome /\ run'.batch = q.batch /\ Waiting(run') = Waiting(q)
       /\ (run'.phase = "aside" => run' = q)
  BY <1>4, <1>9, OnwardIs
<1> QED
  BY <1>1, <1>3, <1>5, <1>10, <1>11 DEF Carries

\* What leads a rename back leads it there again.
LEMMA SwappedIs ==
    ASSUME NEW rec, RecordOK(rec), rec.job = "rename"
    PROVE  LET plan == Swapped(rec.done)
           IN  /\ plan \in Seq(Items) /\ Plan("rename", plan) /\ Ids(plan) = Ids(rec.done)
               /\ \A a \in Range(plan) : \E d \in Range(rec.done) : a.id = d.id /\ a.src = d.dst /\ a.dst = d.src
<1> DEFINE plan == Swapped(rec.done)
<1>1. rec.done \in Seq(Items) /\ Once(rec.done)
  BY DEF RecordOK, Records
<1>2. \A i \in DOMAIN rec.done : rec.done[i] \in Range(rec.done) /\ rec.done[i] \in Items
  BY <1>1, ListIs
<1>3. \A i \in DOMAIN rec.done : rec.done[i].src \in Folder /\ rec.done[i].dst \in Folder
  BY <1>2 DEF RecordOK
<1>4. plan = [i \in DOMAIN rec.done |-> Item(rec.done[i].dst, rec.done[i].src, "name", rec.done[i].id)]
  BY DEF Swapped
<1>5. Folder \subseteq Places
  BY DEF Folder, In, Places
<1>6. \A i \in DOMAIN rec.done : /\ plan[i] \in Items /\ plan[i].id = rec.done[i].id /\ plan[i].src = rec.done[i].dst
                                 /\ plan[i].dst = rec.done[i].src /\ plan[i].from = plan[i].src
  BY <1>2, <1>3, <1>4, <1>5 DEF Item, Items
<1>7. Maps(rec.done, plan, Items)
  BY <1>4, <1>6 DEF Maps
<1> HIDE DEF plan
<1>8. plan \in Seq(Items) /\ Ids(plan) = Ids(rec.done) /\ Once(plan) /\ \A a \in Range(plan) : \E i \in DOMAIN rec.done : a = plan[i]
  BY <1>1, <1>7, MapListed
<1>9. \A a \in Range(plan) : \E d \in Range(rec.done) :
         a.id = d.id /\ a.src = d.dst /\ a.dst = d.src /\ a.from = a.src /\ d.src \in Folder /\ d.dst \in Folder
  BY <1>2, <1>3, <1>6, <1>8
<1>10. \A a, b \in Range(plan) : (a.src = b.src \/ a.dst = b.dst) => a.id = b.id
  <2> SUFFICES ASSUME NEW a \in Range(plan), NEW b \in Range(plan), a.src = b.src \/ a.dst = b.dst PROVE a.id = b.id
    OBVIOUS
  <2>1. PICK d \in Range(rec.done) : a.id = d.id /\ a.src = d.dst /\ a.dst = d.src
    BY <1>9
  <2>2. PICK e \in Range(rec.done) : b.id = e.id /\ b.src = e.dst /\ b.dst = e.src
    BY <1>9
  <2> QED
    BY <2>1, <2>2 DEF RecordOK
<1>11. Plan("rename", plan)
  <2>1. \A a \in Range(plan) : Fits("rename", a) /\ a.from = a.src /\ a.src \in Folder
    BY <1>9 DEF Fits
  <2> QED
    BY <1>8, <1>10, <2>1 DEF Plan, Asks
<1> QED
  BY <1>8, <1>9, <1>11 DEF plan

\* A delete is done again of what it was done to.
LEMMA RedoPlanIs ==
    ASSUME NEW rec, RecordOK(rec), rec.job = "delete"
    PROVE  LET plan == RedoPlan(rec.done)
           IN  /\ plan \in Seq(Items) /\ Plan("delete", plan) /\ Ids(plan) = Ids(rec.done)
               /\ \A a \in Range(plan) : \E d \in Range(rec.done) : a.id = d.id /\ a.src = d.src
<1> DEFINE t == [i \in DOMAIN rec.done |->
                    Item(rec.done[i].src, Nowhere, IF rec.done[i].dst.at = "bin" THEN "bin" ELSE "hold", rec.done[i].id)]
           plan == RedoPlan(rec.done)
<1>1. rec.done \in Seq(Items) /\ Once(rec.done)
  BY DEF RecordOK, Records
<1>2. \A i \in DOMAIN rec.done : rec.done[i] \in Range(rec.done) /\ rec.done[i] \in Items
  BY <1>1, ListIs
<1>3. \A i \in DOMAIN rec.done : rec.done[i].src \in Folder
  BY <1>2 DEF RecordOK
<1>4. plan = Reverse(t)
  BY DEF RedoPlan
<1>5. Folder \subseteq Places
  BY DEF Folder, In, Places
<1>6. \A i \in DOMAIN rec.done : /\ t[i] \in Items /\ t[i].id = rec.done[i].id /\ t[i].src = rec.done[i].src
                                 /\ t[i].dst = Nowhere /\ t[i].from = t[i].src
  BY <1>2, <1>3, <1>5 DEF Item, Items
<1>7. Maps(rec.done, t, Items)
  BY <1>6 DEF Maps
<1> HIDE DEF t, plan
<1>8. t \in Seq(Items) /\ Ids(t) = Ids(rec.done) /\ Once(t) /\ \A a \in Range(t) : \E i \in DOMAIN rec.done : a = t[i]
  BY <1>1, <1>7, MapListed
<1>9. plan \in Seq(Items) /\ Once(plan) /\ Ids(plan) = Ids(rec.done) /\ Range(plan) = Range(t)
  BY <1>4, <1>8, ReverseListed
<1>10. \A a \in Range(plan) : \E d \in Range(rec.done) :
         a.id = d.id /\ a.src = d.src /\ a.dst = Nowhere /\ a.from = a.src /\ a.src \in Folder
  BY <1>2, <1>3, <1>6, <1>8, <1>9
<1>11. \A a, b \in Range(plan) : a.src = b.src => a.id = b.id
  <2> SUFFICES ASSUME NEW a \in Range(plan), NEW b \in Range(plan), a.src = b.src PROVE a.id = b.id
    OBVIOUS
  <2>1. PICK d \in Range(rec.done) : a.id = d.id /\ a.src = d.src
    BY <1>10
  <2>2. PICK e \in Range(rec.done) : b.id = e.id /\ b.src = e.src
    BY <1>10
  <2> QED
    BY <2>1, <2>2 DEF RecordOK
<1>12. Plan("delete", plan)
  <2>1. \A a \in Range(plan) : Fits("delete", a) /\ a.from = a.src /\ a.src \in Folder
    BY <1>10 DEF Fits
  <2> QED
    BY <1>9, <1>11, <2>1 DEF Plan, Asks
<1> QED
  BY <1>9, <1>10, <1>12 DEF plan

\* Deleted entries are restored from where they are held.
LEMMA RestorePlanIs ==
    ASSUME NEW rec, RecordOK(rec), rec.job = "delete"
    PROVE  rec.done \in Seq(Items) /\ Plan("restore", rec.done)
<1>1. rec.done \in Seq(Items)
  BY DEF RecordOK, Records
<1>2. Asks("restore", rec.done)
  BY DEF RecordOK, Asks, Fits
<1> QED
  BY <1>1, <1>2 DEF Plan, RecordOK

\* What a planner lets pass is a plan.
LEMMA PlannedIs ==
    ASSUME DiskOK, NEW plan \in RenamePlans \union DeletePlans
    PROVE  LET job == IF plan[1].way = "name" THEN "rename" ELSE "delete"
           IN  /\ plan \in Seq(Items) /\ plan # <<>> /\ Plan(job, plan) /\ Len(plan) \in Nat
               /\ \A a \in Range(plan) : a.src \in DOMAIN disk /\ a.id = disk[a.src]
<1> DEFINE ren(p, x) == Item(p, IF x \in Names THEN In(x) ELSE p, "name", disk[p])
           del(p, x) == Item(p, Nowhere, IF x \in Names THEN "bin" ELSE x, disk[p])
           Xs == Names \union {"bin", "hold", "erase"}
<1>1. \A p \in OnDisk : p \in Folder /\ p \in DOMAIN disk /\ p \in Places /\ disk[p] \in Nat
  BY DEF DiskOK, OnDisk
<1>2. \A x \in Names : In(x) \in Folder /\ In(x) \in Places
  BY DEF Folder, In, Places
<1>3. \A p, q \in OnDisk : disk[p] = disk[q] => p = q
  BY DEF DiskOK, OnDisk
<1>4. CASE plan \in RenamePlans
  <2>1. \E n \in 1..MaxPlan : plan \in [1..n -> {ren(p, x) : p \in OnDisk, x \in Xs}]
    BY <1>4 DEF RenamePlans, Plans
  <2>2. PICK n \in 1..MaxPlan : plan \in [1..n -> {ren(p, x) : p \in OnDisk, x \in Xs}]
    BY <2>1
  <2>3. \A i, j \in DOMAIN plan : /\ plan[i].src = plan[j].src => i = j
                                  /\ plan[i].dst # plan[i].src /\ (plan[i].dst = plan[j].dst => i = j)
    BY <1>4 DEF RenamePlans, Plans
  <2>4. DOMAIN plan = 1..n /\ n \in Nat /\ 1 \in 1..n
    BY <2>2, FolderAssumption
  <2>5. \A i \in 1..n : \E p \in OnDisk, x \in Xs : plan[i] = ren(p, x)
    BY <2>2
  <2>6. \A i \in 1..n : /\ plan[i] \in Items /\ plan[i].src \in OnDisk /\ plan[i].id = disk[plan[i].src]
                        /\ plan[i].from = plan[i].src /\ plan[i].way = "name" /\ plan[i].dst \in Folder
    <3> TAKE i \in 1..n
    <3>1. PICK p \in OnDisk, x \in Xs : plan[i] = ren(p, x)
      BY <2>5
    <3>2. plan[i].src = p /\ plan[i].from = p /\ plan[i].id = disk[p] /\ plan[i].way = "name"
          /\ plan[i].dst = IF x \in Names THEN In(x) ELSE p
      BY <3>1 DEF Item
    <3>3. x \in Names
      BY <2>3, <2>4, <3>2
    <3>4. plan[i] \in Items
      BY <1>1, <1>2, <3>1, <3>3 DEF Item, Items
    <3> QED
      BY <1>2, <3>2, <3>3, <3>4
  <2>7. plan \in Seq(Items)
    <3>1. plan \in [1..n -> Items]
      BY <2>2, <2>6
    <3> QED
      BY <2>4, <3>1, SeqDef
  <2>8. plan # <<>> /\ Len(plan) \in Nat /\ plan[1].way = "name"
    BY <2>4, <2>6, <2>7, LenProperties, EmptySeq
  <2>9. \A a \in Range(plan) : \E i \in 1..n : a = plan[i]
    BY <2>4 DEF Range
  <2>10. Once(plan)
    BY <1>3, <2>3, <2>4, <2>6 DEF Once
  <2>11. Plan("rename", plan)
    <3>1. \A a \in Range(plan) : Fits("rename", a) /\ a.from = a.src /\ a.src \in Folder
      BY <1>1, <2>6, <2>9 DEF Fits
    <3>2. \A a, b \in Range(plan) : (a.src = b.src \/ a.dst = b.dst) => a.id = b.id
      BY <2>3, <2>4, <2>9
    <3> QED
      BY <2>10, <3>1, <3>2 DEF Plan, Asks
  <2> QED
    BY <1>1, <2>6, <2>7, <2>8, <2>9, <2>11
<1>5. CASE plan \in DeletePlans
  <2>1. \E n \in 1..MaxPlan : plan \in [1..n -> {del(p, x) : p \in OnDisk, x \in Xs}]
    BY <1>5 DEF DeletePlans, Plans
  <2>2. PICK n \in 1..MaxPlan : plan \in [1..n -> {del(p, x) : p \in OnDisk, x \in Xs}]
    BY <2>1
  <2>3. \A i, j \in DOMAIN plan : plan[i].src = plan[j].src => i = j
    BY <1>5 DEF DeletePlans, Plans
  <2>4. DOMAIN plan = 1..n /\ n \in Nat /\ 1 \in 1..n
    BY <2>2, FolderAssumption
  <2>5. \A i \in 1..n : \E p \in OnDisk, x \in Xs : plan[i] = del(p, x)
    BY <2>2
  <2>6. \A i \in 1..n : /\ plan[i] \in Items /\ plan[i].src \in OnDisk /\ plan[i].id = disk[plan[i].src]
                        /\ plan[i].from = plan[i].src /\ plan[i].way # "name" /\ plan[i].dst = Nowhere
    <3> TAKE i \in 1..n
    <3>1. PICK p \in OnDisk, x \in Xs : plan[i] = del(p, x)
      BY <2>5
    <3>2. plan[i].src = p /\ plan[i].from = p /\ plan[i].id = disk[p] /\ plan[i].dst = Nowhere
          /\ plan[i].way = IF x \in Names THEN "bin" ELSE x
      BY <3>1 DEF Item
    <3>3. plan[i].way \in {"bin", "hold", "erase"}
      BY <3>2
    <3>4. plan[i] = [src |-> p, dst |-> Nowhere, from |-> p, way |-> plan[i].way, id |-> disk[p]]
      BY <3>1, <3>2 DEF Item
    <3>5. plan[i] \in Items
      BY <1>1, <3>3, <3>4 DEF Items
    <3> QED
      BY <3>2, <3>3, <3>5
  <2>7. plan \in Seq(Items)
    <3>1. plan \in [1..n -> Items]
      BY <2>2, <2>6
    <3> QED
      BY <2>4, <3>1, SeqDef
  <2>8. plan # <<>> /\ Len(plan) \in Nat /\ plan[1].way # "name"
    BY <2>4, <2>6, <2>7, LenProperties, EmptySeq
  <2>9. \A a \in Range(plan) : \E i \in 1..n : a = plan[i]
    BY <2>4 DEF Range
  <2>10. Once(plan)
    BY <1>3, <2>3, <2>4, <2>6 DEF Once
  <2>11. Plan("delete", plan)
    <3>1. \A a \in Range(plan) : Fits("delete", a) /\ a.from = a.src /\ a.src \in Folder
      BY <1>1, <2>6, <2>9 DEF Fits
    <3>2. \A a, b \in Range(plan) : a.src = b.src => a.id = b.id
      BY <2>3, <2>4, <2>9
    <3> QED
      BY <2>10, <3>1, <3>2 DEF Plan, Asks
  <2> QED
    BY <1>1, <2>6, <2>7, <2>8, <2>9, <2>11
<1> QED
  BY <1>4, <1>5

(***************************************************************************)
(* What an action of a pass does to the disk and to the lists: it leaves   *)
(* the disk alone, moves an entry that is to wait or has failed, moves one *)
(* that is done with, or erases one.                                       *)
(***************************************************************************)

PhaseOK == run.phase = "aside" => \A e \in Range(run.todo) : e.from = e.src

\* Where the entries stand that wait or have failed.
Spots(r) == {<<e.id, e.from>> : e \in Waiting(r) \union Range(r.outcome.failed)}

SameStores == run'.outcome.stagings = run.outcome.stagings /\ run'.batch = run.batch

Stays ==
    /\ Same /\ SameStores /\ Range(run'.outcome.done) = Range(run.outcome.done)
    /\ Spots(run') \subseteq Spots(run) /\ \A s \in Spots(run) \ Spots(run') : s[2] \in Folder
Shifts(h, to) ==
    /\ run.job = "rename" /\ h \in Waiting(run) /\ Exists(h.from) /\ ~Exists(to) /\ disk' = Moved(h.from, to)
    /\ given' = given /\ SameStores /\ Range(run'.outcome.done) = Range(run.outcome.done)
    /\ \/ to = h.src /\ serial' = serial
       \/ to \in Asides /\ to.no = serial /\ serial' = serial + 1
    /\ h.from \in Folder \union Asides /\ to \in Folder \union Asides
    /\ \A s \in Spots(run') : s = <<h.id, to>> \/ (s \in Spots(run) /\ s[1] # h.id)
    /\ Spots(run) \subseteq Spots(run') \union {<<h.id, h.from>>} /\ <<h.id, to>> \in Spots(run')
    /\ \A e \in AllDone : e.id # h.id
\* Of an entry that is done with.
Leaves(h, d) ==
    /\ h \in Waiting(run) /\ d \in Items /\ Went(run.job, d) /\ d.id = h.id /\ d.src = h.src
    /\ Range(run'.outcome.done) = Range(run.outcome.done) \union {d}
    /\ \A s \in Spots(run') : s \in Spots(run) /\ s[1] # h.id
    /\ Spots(run) \subseteq Spots(run') \union {<<h.id, h.from>>}
    /\ \A e \in AllDone : e.id # h.id
Lands(h, from, to, d) ==
    /\ Leaves(h, d) /\ Exists(from) /\ ~Exists(to) /\ disk' = Moved(from, to) /\ given' = given
    /\ \/ run.job = "rename" /\ from = h.from /\ from \in Folder \union Asides /\ to = d.dst /\ to \in Folder
          /\ SameStores /\ serial' = serial
       \/ run.job = "restore" /\ from = h.dst /\ from = d.dst /\ from \in Stores /\ to = d.src /\ to \in Folder
          /\ AskedTo(d, run.asked) /\ SameStores /\ serial' = serial
       \/ /\ run.job = "delete" /\ from = h.from /\ from \in Folder /\ to = d.dst /\ to \in Stores
          /\ \/ to.at = "bin" /\ to.no = serial /\ serial' = serial + 1 /\ SameStores
             \/ /\ to.no = run'.batch /\ run'.outcome.stagings = {run'.batch}
                /\ \/ run.batch = 0 /\ run'.batch = serial /\ serial' = serial + 1
                   \/ run.batch # 0 /\ run'.batch = run.batch /\ serial' = serial
GoneForGood(h, d) ==
    /\ Leaves(h, d) /\ run.job = "delete" /\ h.from \in Folder /\ Exists(h.from) /\ d.dst = Nowhere
    /\ disk' = Without({h.from}) /\ given' = given \union {disk[h.from]} /\ serial' = serial /\ SameStores

\* The head of the list, and where it stands.
LEMMA FirstIs ==
    ASSUME RunInv(run, serial), DiskOK, run.todo # <<>>
    PROVE  /\ Head1 \in Items /\ Head1 \in Waiting(run) /\ Head1.id \in Nat
           /\ Head1.src \in Places /\ Head1.from \in Places /\ Fits(run.job, Head1)
           /\ run.job # "rename" => Head1.from = Head1.src
           /\ run.job = "rename" => Head1.from \in Folder \union Asides
           /\ AskedTo(Head1, run.asked) /\ Stands(run.job, Head1, run.asked)
           /\ \A e \in Waiting(run) \union Range(run.outcome.failed) : e.id = Head1.id => e = Head1
           /\ Head1 \notin Range(run.outcome.failed)
           /\ \A e \in AllDone : e.id # Head1.id
           /\ RunOK(run, serial) /\ serial \in Nat
<1> DEFINE h == Head1
<1>1. RunOK(run, serial) /\ serial \in Nat
  BY DEF RunInv, DiskOK
<1>2. /\ h \in Items /\ h \in Waiting(run) /\ h \in Range(run.todo) /\ h.id \in Ids(run.todo)
      /\ Fits(run.job, h) /\ Stands(run.job, h, run.asked) /\ AskedTo(h, run.asked)
  BY <1>1, HeadOff DEF Head1
<1>3. h.id \in Nat /\ h.src \in Places /\ h.from \in Places
  BY <1>2 DEF Items
<1>4. /\ run.todo \in Seq(Items) /\ run.ready \in Seq(Items) /\ run.outcome.failed \in Seq(Failures)
      /\ run.outcome.done \in Seq(Items) /\ Once(run.todo) /\ run.first.done \in Seq(Items) /\ run.first.failed \in Seq(Failures)
      /\ run.pass \in {1, 2} /\ run.asked \in Seq(Items)
  BY <1>1 DEF RunOK, Runs, Outcomes, Waits
<1> HIDE DEF h
<1>5. ASSUME NEW e \in Waiting(run) \union Range(run.outcome.failed), e.id = h.id
      PROVE  e = h /\ e \notin Range(run.outcome.failed)
  <2>1. e \notin Range(run.outcome.failed)
    <3>1. SUFFICES ASSUME e \in Range(run.outcome.failed) PROVE FALSE
      OBVIOUS
    <3>2. e.id \in Ids(run.outcome.failed)
      BY <1>4, <3>1, ListIs
    <3> QED
      BY <1>1, <1>2, <1>5, <3>2 DEF RunOK, Waits
  <2>2. e \notin Range(run.ready)
    <3>1. SUFFICES ASSUME e \in Range(run.ready) PROVE FALSE
      OBVIOUS
    <3>2. e.id \in Ids(run.ready)
      BY <1>4, <3>1, ListIs
    <3> QED
      BY <1>1, <1>2, <1>5, <3>2 DEF RunOK, Waits
  <2>3. e \in Range(run.todo)
    BY <2>1, <2>2 DEF Waiting
  <2> QED
    BY <1>2, <1>4, <1>5, <2>1, <2>3, OneOfAnId
<1>6. ASSUME NEW e \in AllDone, e.id = h.id PROVE FALSE
  <2>1. CASE e \in Range(run.outcome.done)
    <3>1. e.id \in Ids(run.outcome.done)
      BY <1>4, <2>1, ListIs
    <3> QED
      BY <1>1, <1>2, <1>6, <3>1 DEF RunOK, Waits
  <2>2. CASE e \in Range(run.first.done)
    <3>1. run.pass = 2
      <4>1. SUFFICES ASSUME run.pass = 1 PROVE FALSE
        BY <1>4
      <4>2. run.first.done = <<>>
        BY <1>1, <4>1 DEF RunOK, NoOutcome
      <4> QED
        BY <2>2, <4>2, NoneListed
    <3>2. Second(run)
      BY <1>1, <3>1 DEF RunOK
    <3>3. e.id \in Ids(run.first.done)
      BY <1>4, <2>2, ListIs
    <3>4. PICK a \in Range(run.asked) : a.id = h.id
      BY <1>2 DEF AskedTo, SameItem
    <3>5. a.id \in Ids(run.asked)
      BY <1>4, ListIs
    <3>6. PICK f \in Range(run.first.failed) : f.id = h.id
      BY <3>2, <3>4, <3>5 DEF Second
    <3>7. f.id \in Ids(run.first.failed)
      BY <1>4, ListIs
    <3> QED
      BY <1>6, <3>2, <3>3, <3>6, <3>7 DEF Second, Worked
  <2> QED
    BY <2>1, <2>2 DEF AllDone
<1>7. run.job # "rename" => h.from = h.src
  BY <1>2 DEF Stands
<1>8. run.job = "rename" => h.from \in Folder \union Asides
  BY <1>2 DEF Stands, Fits
<1> QED
  BY <1>1, <1>2, <1>3, <1>5, <1>6, <1>7, <1>8 DEF h

\* The entry that is first of the list goes into another list, or into none.
LEMMA SpotsGo ==
    ASSUME RunInv(run, serial), DiskOK, run.todo # <<>>, NEW W, NEW F,
           W \union F = (Waiting(run) \union Range(run.outcome.failed)) \ {Head1},
           Waiting(run') \union Range(run'.outcome.failed) = W \union F
    PROVE  /\ \A s \in Spots(run') : s \in Spots(run) /\ s[1] # Head1.id
           /\ Spots(run) \subseteq Spots(run') \union {<<Head1.id, Head1.from>>}
<1>1. \A e \in Waiting(run) \union Range(run.outcome.failed) : e.id = Head1.id => e = Head1
  BY FirstIs
<1> QED
  BY <1>1 DEF Spots

\* Where the entries stand when the one at the head becomes x.
LEMMA SpotsTurn ==
    ASSUME RunInv(run, serial), DiskOK, run.todo # <<>>, NEW x, x.id = Head1.id,
           Waiting(run') \union Range(run'.outcome.failed)
              = ((Waiting(run) \union Range(run.outcome.failed)) \ {Head1}) \union {x}
    PROVE  /\ \A s \in Spots(run') : s = <<Head1.id, x.from>> \/ (s \in Spots(run) /\ s[1] # Head1.id)
           /\ Spots(run) \subseteq Spots(run') \union {<<Head1.id, Head1.from>>}
           /\ x.from = Head1.from => Spots(run') = Spots(run)
           /\ <<Head1.id, x.from>> \in Spots(run')
<1>1. \A e \in Waiting(run) \union Range(run.outcome.failed) : e.id = Head1.id => e = Head1
  BY FirstIs
<1>2. Head1 \in Waiting(run)
  BY FirstIs
<1>3. \A s \in Spots(run') : s = <<Head1.id, x.from>> \/ (s \in Spots(run) /\ s[1] # Head1.id)
  BY <1>1 DEF Spots
<1>4. Spots(run) \subseteq Spots(run') \union {<<Head1.id, Head1.from>>}
  BY DEF Spots
<1>5. <<Head1.id, x.from>> \in Spots(run') /\ <<Head1.id, Head1.from>> \in Spots(run)
  BY <1>2 DEF Spots
<1>6. ASSUME x.from = Head1.from PROVE Spots(run') = Spots(run)
  <2>1. \A s \in Spots(run') : s \in Spots(run)
    BY <1>3, <1>5, <1>6
  <2>2. \A s \in Spots(run) : s \in Spots(run')
    BY <1>4, <1>5, <1>6
  <2> QED
    BY <2>1, <2>2
<1> QED
  BY <1>3, <1>4, <1>5, <1>6

Keeps == RunInv(run', serial') /\ Carries(run, run') /\ PhaseOK'

\* Of the first phase of a rename, none stands anywhere but where it was.
LEMMA PhaseKeeps ==
    ASSUME PhaseOK, run'.phase = "aside" => Range(run'.todo) \subseteq Range(run.todo) /\ run.phase = "aside"
    PROVE  PhaseOK'
BY DEF PhaseOK

\* An entry that stands by, or is gathered for the bin.
LEMMA WaitsOn ==
    ASSUME RunInv(run, serial), DiskOK, PhaseOK, StandsBy \/ Gathers
    PROVE  Keeps /\ Stays
<1>1. run.todo # <<>> /\ Goes([run EXCEPT !.ready = Append(@, Head1)]) /\ Same
      /\ ((run.job = "rename" /\ run.phase = "aside") \/ (run.job = "delete" /\ run.phase = "work"))
  BY DEF StandsBy, Gathers, Doing
<1>2. /\ Head1 \in Items /\ Head1 \in Waiting(run) /\ Head1 \notin Range(run.outcome.failed)
      /\ RunOK(run, serial) /\ serial \in Nat
  BY <1>1, FirstIs
<1>3. /\ RunInv(run', serial) /\ Carries(run, run') /\ run'.outcome = run.outcome
      /\ run'.batch = run.batch /\ Waiting(run') = (Waiting(run) \ {Head1}) \union {Head1}
      /\ (run'.phase = "aside" => Range(run'.todo) \subseteq Range(run.todo) /\ run.phase = "aside")
  BY <1>1, <1>2, Readying
<1>4. Spots(run') = Spots(run)
  BY <1>2, <1>3 DEF Spots
<1>5. serial' = serial
  BY <1>1 DEF Same
<1> QED
  BY <1>1, <1>3, <1>4, <1>5, PhaseKeeps DEF Keeps, Stays, SameStores

\* An entry that fails where it stands.
LEMMA FailsThere ==
    ASSUME RunInv(run, serial), DiskOK, PhaseOK, run.todo # <<>>,
           NEW denied \in BOOLEAN, Fails(denied, Head1.from), Same
    PROVE  Keeps /\ Stays
<1> DEFINE g == Failure(Head1, denied, Head1.from)
<1>1. /\ Head1 \in Items /\ Head1 \in Waiting(run) /\ Head1 \notin Range(run.outcome.failed)
      /\ RunOK(run, serial) /\ serial \in Nat
  BY FirstIs
<1>2. /\ RunInv(run', serial) /\ Carries(run, run') /\ run'.outcome.done = run.outcome.done
      /\ Range(run'.outcome.failed) = Range(run.outcome.failed) \union {g}
      /\ run'.outcome.stagings = run.outcome.stagings
      /\ run'.batch = run.batch /\ Waiting(run') = Waiting(run) \ {Head1}
      /\ (run'.phase = "aside" => Range(run'.todo) \subseteq Range(run.todo) /\ run.phase = "aside")
  BY <1>1, Failing
<1>3. g.id = Head1.id /\ g.from = Head1.from
  BY DEF Failure
<1> HIDE DEF g
<1>4. Waiting(run') \union Range(run'.outcome.failed)
         = ((Waiting(run) \union Range(run.outcome.failed)) \ {Head1}) \union {g}
  BY <1>1, <1>2
<1>5. Spots(run') = Spots(run)
  BY <1>3, <1>4, SpotsTurn
<1>6. serial' = serial
  BY DEF Same
<1> QED
  BY <1>2, <1>5, <1>6, PhaseKeeps DEF Keeps, Stays, SameStores

\* A denial is a truth value.
LEMMA DenialsIs == \A denied \in Denials : denied \in BOOLEAN
BY DEF Denials

\* An item that fails where it stands leaves the disk as it is: Stumbles, DeleteFails, RestoreFails.
LEMMA FailsWhole ==
    ASSUME RunInv(run, serial), DiskOK, PhaseOK, Stumbles \/ DeleteFails \/ RestoreFails
    PROVE  Keeps /\ Stays
<1>1. /\ run.todo # <<>> /\ Same /\ \E denied \in Denials : Fails(denied, Head1.src)
      /\ (run.phase = "aside" \/ run.job # "rename")
  BY DEF Stumbles, DeleteFails, RestoreFails, Doing
<1>2. Head1.from = Head1.src
  <2>1. CASE run.job # "rename"
    BY <1>1, <2>1, FirstIs
  <2>2. CASE run.phase = "aside"
    <3>1. Head1 \in Range(run.todo)
      BY <1>1, HeadOff DEF Head1, RunInv, DiskOK
    <3> QED
      BY <2>2, <3>1 DEF PhaseOK
  <2> QED
    BY <1>1, <2>1, <2>2
<1>3. PICK denied \in Denials : Fails(denied, Head1.from)
  BY <1>1, <1>2
<1> QED
  BY <1>1, <1>3, DenialsIs, FailsThere

\* So does all that is left when the shell gives up: BinFails.
LEMMA BinFailsIs ==
    ASSUME RunInv(run, serial), DiskOK, PhaseOK, BinFails
    PROVE  Keeps /\ Stays
<1> DEFINE t == [i \in DOMAIN run.todo |-> Failure(run.todo[i], FALSE, run.todo[i].src)]
<1>1. /\ run.todo # <<>> /\ Same /\ run.job = "delete" /\ run.phase = "bin"
      /\ run' = [run EXCEPT !.todo = <<>>, !.outcome.failed = @ \o t]
  BY DEF BinFails, Doing
<1>2. RunOK(run, serial) /\ serial \in Nat /\ run \in Runs /\ run.outcome \in Outcomes /\ run.todo \in Seq(Items)
      /\ run.outcome.failed \in Seq(Failures)
  BY DEF RunInv, DiskOK, RunOK, Runs, Outcomes
<1>3. \A i \in DOMAIN run.todo : /\ run.todo[i] \in Items /\ run.todo[i] \in Waiting(run) /\ run.todo[i].from = run.todo[i].src
  <2> TAKE i \in DOMAIN run.todo
  <2>1. run.todo[i] \in Range(run.todo) /\ run.todo[i] \in Items
    BY <1>2, ListIs
  <2>2. run.todo[i] \in Waiting(run)
    BY <2>1 DEF Waiting
  <2> QED
    BY <1>1, <1>2, <2>1, <2>2 DEF RunOK, Waits, Stands
<1>4. \A i \in DOMAIN run.todo : /\ t[i] \in Failures /\ t[i].id = run.todo[i].id /\ t[i].from = run.todo[i].from
  BY <1>3 DEF Failure, Failures, Items
<1>5. Maps(run.todo, t, Failures)
  BY <1>4 DEF Maps
<1>6. DOMAIN t = DOMAIN run.todo
  OBVIOUS
<1> HIDE DEF t
<1>7. t \in Seq(Failures) /\ Ids(t) = Ids(run.todo) /\ Once(t) /\ \A e \in Range(t) : \E i \in DOMAIN run.todo : e = t[i]
  BY <1>2, <1>5, MapListed DEF RunOK, Waits
<1>8. /\ run'.outcome.failed = run.outcome.failed \o t /\ run'.outcome.done = run.outcome.done
      /\ run'.outcome.stagings = run.outcome.stagings /\ run'.batch = run.batch /\ run'.todo = <<>> /\ run'.ready = run.ready
      /\ run'.phase = run.phase /\ run'.job = run.job /\ run'.doing = run.doing /\ run'.pass = run.pass /\ run'.plan = run.plan
      /\ run'.asked = run.asked /\ run'.first = run.first /\ run'.cancelled = run.cancelled
      /\ run'.outcome = [run.outcome EXCEPT !.failed = run.outcome.failed \o t]
      /\ run' = [run EXCEPT !.todo = <<>>, !.outcome = run'.outcome]
  <2>1. run' = [run EXCEPT !.todo = <<>>, !.outcome.failed = run.outcome.failed \o t]
    BY <1>1
  <2> QED
    BY <1>2, <2>1 DEF Runs, Outcomes
<1>9. run' \in Runs
  <2>1. run.outcome.failed \o t \in Seq(Failures)
    BY <1>2, <1>7, ConcatProperties
  <2>2. run'.outcome \in Outcomes
    BY <1>2, <1>8, <2>1 DEF Outcomes
  <2>3. <<>> \in Seq(Items)
    BY NoneListed
  <2> QED
    BY <1>2, <1>8, <2>2, <2>3 DEF Runs
<1>10. RunInv(run', serial)
  <2>1. Alike(run, run')
    BY <1>8, <1>9 DEF Alike
  <2>2. run'.outcome.failed = run.outcome.failed \o [i \in DOMAIN run.todo |-> Failure(run.todo[i], FALSE, run.todo[i].src)]
    BY <1>8 DEF t
  <2> QED
    BY <1>1, <1>2, <1>8, <2>1, <2>2, BinFailsKeeps
<1>11. Spots(run') = Spots(run)
  <2>1. Range(run.outcome.failed \o t) = Range(run.outcome.failed) \union Range(t)
    <3>1. Once(run.outcome.failed) /\ Ids(run.outcome.failed) \intersect Ids(t) = {}
      BY <1>2, <1>7 DEF RunOK, Worked, Waits
    <3> QED
      BY <1>2, <1>7, <3>1, JoinListed
  <2>2. \A e \in Range(t) : \E h \in Range(run.todo) : e.id = h.id /\ e.from = h.from
    <3> TAKE e \in Range(t)
    <3>1. PICK i \in DOMAIN run.todo : e = t[i]
      BY <1>7
    <3> QED
      BY <1>2, <1>4, <3>1, ListIs
  <2>3. \A h \in Range(run.todo) : \E e \in Range(t) : e.id = h.id /\ e.from = h.from
    <3> TAKE h \in Range(run.todo)
    <3>1. PICK i \in DOMAIN run.todo : h = run.todo[i]
      BY <1>2, ListIs
    <3>2. t[i] \in Range(t)
      BY <1>6, <1>7, <3>1, ListIs
    <3> QED
      BY <1>4, <3>1, <3>2
  <2>4. Waiting(run') = Range(run.ready)
    BY <1>8, NoneListed DEF Waiting
  <2>5. \A s \in Spots(run') : s \in Spots(run)
    BY <1>8, <2>1, <2>2, <2>4 DEF Spots, Waiting
  <2>6. \A s \in Spots(run) : s \in Spots(run')
    BY <1>8, <2>1, <2>3, <2>4 DEF Spots, Waiting
  <2> QED
    BY <2>5, <2>6
<1>12. serial' = serial /\ PhaseOK'
  BY <1>1, <1>8 DEF Same, PhaseOK
<1> QED
  BY <1>1, <1>8, <1>10, <1>11, <1>12 DEF Keeps, Stays, SameStores, Carries

\* What a cancelled delete leaves was never moved.  (Carries but for `cancelled`.)
LEMMA CancelsIs ==
    ASSUME RunInv(run, serial), DiskOK, PhaseOK, Cancels
    PROVE  /\ RunInv(run', serial') /\ PhaseOK' /\ Stays
           /\ run'.job = run.job /\ run'.doing = run.doing /\ run'.pass = run.pass /\ run'.plan = run.plan
           /\ run'.asked = run.asked /\ run'.first = run.first
<1>1. /\ run.todo # <<>> /\ Same /\ run.job = "delete" /\ run.doing = "do" /\ run.phase = "work"
      /\ run' = [run EXCEPT !.todo = <<>>, !.ready = <<>>, !.cancelled = TRUE]
  BY DEF Cancels, Doing
<1>2. RunOK(run, serial) /\ serial \in Nat /\ run \in Runs
  BY DEF RunInv, DiskOK, RunOK
<1>3. RunInv(run', serial)
  BY <1>1, <1>2, CancelsKeeps
<1>4. /\ run'.job = run.job /\ run'.doing = run.doing /\ run'.pass = run.pass /\ run'.plan = run.plan
      /\ run'.asked = run.asked /\ run'.first = run.first /\ run'.outcome = run.outcome /\ run'.batch = run.batch
      /\ run'.todo = <<>> /\ run'.ready = <<>> /\ run'.phase = "work"
  BY <1>1, <1>2 DEF Runs
<1>5. Waiting(run') = {}
  BY <1>4, NoneListed DEF Waiting
<1>6. Spots(run') \subseteq Spots(run)
  BY <1>4, <1>5 DEF Spots
<1>7. \A s \in Spots(run) \ Spots(run') : s[2] \in Folder
  <2>1. \A e \in Waiting(run) : e.from \in Folder
    <3> TAKE e \in Waiting(run)
    <3>1. AskedTo(e, run.asked) /\ e.from = e.src
      BY <1>1, <1>2 DEF RunOK, Waits, Stands
    <3>2. PICK a \in Range(run.asked) : e.src = a.src
      BY <3>1 DEF AskedTo, SameItem
    <3>3. Fits("delete", a)
      BY <1>1, <1>2 DEF RunOK, Asks
    <3> QED
      BY <3>1, <3>2, <3>3 DEF Fits
  <2>2. \A s \in Spots(run) \ Spots(run') : \E e \in Waiting(run) : s = <<e.id, e.from>>
    BY <1>4, <1>5 DEF Spots
  <2> QED
    BY <2>1, <2>2
<1>8. serial' = serial /\ PhaseOK'
  BY <1>1, <1>4 DEF Same, PhaseOK
<1> QED
  BY <1>1, <1>3, <1>4, <1>6, <1>7, <1>8 DEF Stays, SameStores

\* What tells the places apart.
LEMMA FolderPlaces ==
    /\ Folder \subseteq Places /\ Asides \subseteq Places /\ Stores \subseteq Places
    /\ Folder \intersect Asides = {} /\ Folder \intersect Stores = {} /\ Asides \intersect Stores = {}
    /\ \A p \in Folder : p.at = "folder" /\ p.no = 0 /\ p.name \in Names /\ p = In(p.name)
    /\ \A p \in Asides \union Stores : p.at # "folder"
    /\ Nowhere \notin Stores /\ Nowhere \notin Folder
<1>1. /\ Folder \subseteq Places
      /\ \A p \in Folder : p.at = "folder" /\ p.no = 0 /\ p.name \in Names /\ p = In(p.name)
  BY DEF Folder, In, Places
<1>2. Asides \subseteq Places /\ \A p \in Asides : p.at = "aside"
  BY DEF Asides
<1>3. Stores \subseteq Places /\ \A p \in Stores : p.at \in {"held", "beside", "bin"}
  BY DEF Stores
<1>4. Nowhere.at = "nowhere"
  BY DEF Nowhere
<1> QED
  BY <1>1, <1>2, <1>3, <1>4

\* A place made for an entry is of the kind and the number it is made with.
LEMMA PutIs ==
    ASSUME NEW at \in {"aside", "held", "beside", "bin"}, NEW no \in Nat, NEW place \in Places
    PROVE  /\ Put(at, no, place) \in Places /\ Put(at, no, place).at = at /\ Put(at, no, place).no = no
           /\ Put(at, no, place).name = place.name
           /\ at = "aside" => Put(at, no, place) \in Asides
           /\ at # "aside" => Put(at, no, place) \in Stores
BY DEF Put, Places, Asides, Stores

\* A place with a number that is still to be given is free.
LEMMA NewIsFree ==
    ASSUME DiskOK, NEW p, p.at # "folder", p.no = serial
    PROVE  ~Exists(p)
BY DEF DiskOK, Exists

\* StepsAside moves an entry that is to wait.
LEMMA StepsAsideIs ==
    ASSUME RunInv(run, serial), DiskOK, PhaseOK, StepsAside
    PROVE  Keeps /\ \E h, to : Shifts(h, to)
<1> DEFINE aside == Put("aside", serial, Head1.src)
           x == [Head1 EXCEPT !.from = aside]
<1>1. /\ run.todo # <<>> /\ run.job = "rename" /\ run.phase = "aside" /\ Exists(Head1.src)
      /\ disk' = Moved(Head1.src, aside) /\ serial' = serial + 1 /\ given' = given
      /\ Goes([run EXCEPT !.ready = Append(@, x)])
  BY DEF StepsAside, Doing
<1>2. /\ Head1 \in Items /\ Head1 \in Waiting(run) /\ Head1 \notin Range(run.outcome.failed) /\ Head1.src \in Places
      /\ Head1.from \in Folder \union Asides /\ RunOK(run, serial) /\ serial \in Nat /\ \A e \in AllDone : e.id # Head1.id
  BY <1>1, FirstIs
<1>3. Head1.from = Head1.src
  <2>1. Head1 \in Range(run.todo)
    BY <1>1, <1>2, HeadOff DEF Head1
  <2> QED
    BY <1>1, <2>1 DEF PhaseOK
<1>4. aside \in Places /\ aside \in Asides /\ aside.at = "aside" /\ aside.no = serial
  BY <1>2, PutIs
<1>5. ~Exists(aside)
  BY <1>4, NewIsFree
<1> HIDE DEF aside
<1>6. x \in Items /\ x.id = Head1.id /\ x.src = Head1.src /\ x.dst = Head1.dst /\ x.from = aside
  BY <1>2, <1>4 DEF Items
<1> HIDE DEF x
<1>7. serial + 1 \in Nat /\ serial <= serial + 1 /\ serial < serial + 1
  BY <1>2
<1>8. /\ RunInv(run', serial + 1) /\ Carries(run, run') /\ run'.outcome = run.outcome
      /\ run'.batch = run.batch /\ Waiting(run') = (Waiting(run) \ {Head1}) \union {x}
      /\ (run'.phase = "aside" => Range(run'.todo) \subseteq Range(run.todo) /\ run.phase = "aside")
  BY <1>1, <1>2, <1>4, <1>6, <1>7, Readying
<1>9. Waiting(run') \union Range(run'.outcome.failed)
         = ((Waiting(run) \union Range(run.outcome.failed)) \ {Head1}) \union {x}
  BY <1>2, <1>8
<1>10. /\ \A s \in Spots(run') : s = <<Head1.id, aside>> \/ (s \in Spots(run) /\ s[1] # Head1.id)
       /\ Spots(run) \subseteq Spots(run') \union {<<Head1.id, Head1.from>>} /\ <<Head1.id, aside>> \in Spots(run')
  BY <1>1, <1>6, <1>9, SpotsTurn
<1>11. Shifts(Head1, aside)
  BY <1>1, <1>2, <1>3, <1>4, <1>5, <1>8, <1>10 DEF Shifts, SameStores
<1> QED
  BY <1>1, <1>8, <1>11, PhaseKeeps DEF Keeps

\* RenameFails moves the entry back, or leaves it where it stands.
LEMMA RenameFailsIs ==
    ASSUME RunInv(run, serial), DiskOK, PhaseOK, RenameFails
    PROVE  Keeps /\ (Stays \/ \E h, to : Shifts(h, to))
<1>1. run.todo # <<>> /\ run.job = "rename" /\ serial' = serial /\ given' = given
  BY DEF RenameFails, Doing
<1>2. PICK denied \in Denials :
        \/ /\ Head1.from # Head1.src /\ Exists(Head1.from) /\ ~Exists(Head1.src)
           /\ disk' = Moved(Head1.from, Head1.src)
           /\ Fails(denied, Head1.src)
        \/ Fails(denied, Head1.from) /\ UNCHANGED disk
  BY DEF RenameFails
<1>3. denied \in BOOLEAN
  BY DenialsIs
<1>4. CASE Fails(denied, Head1.from) /\ UNCHANGED disk
  <2>1. Same
    BY <1>1, <1>4 DEF Same
  <2> QED
    BY <1>1, <1>3, <1>4, <2>1, FailsThere
<1>5. CASE /\ Head1.from # Head1.src /\ Exists(Head1.from) /\ ~Exists(Head1.src)
           /\ disk' = Moved(Head1.from, Head1.src)
           /\ Fails(denied, Head1.src)
  <2> DEFINE g == Failure(Head1, denied, Head1.src)
  <2>1. /\ Head1 \in Items /\ Head1 \in Waiting(run) /\ Head1 \notin Range(run.outcome.failed) /\ Fits(run.job, Head1)
        /\ Head1.from \in Folder \union Asides /\ RunOK(run, serial) /\ serial \in Nat /\ \A e \in AllDone : e.id # Head1.id
    BY <1>1, FirstIs
  <2>2. /\ RunInv(run', serial) /\ Carries(run, run') /\ run'.outcome.done = run.outcome.done
        /\ Range(run'.outcome.failed) = Range(run.outcome.failed) \union {g}
        /\ run'.outcome.stagings = run.outcome.stagings
        /\ run'.batch = run.batch /\ Waiting(run') = Waiting(run) \ {Head1}
        /\ (run'.phase = "aside" => Range(run'.todo) \subseteq Range(run.todo) /\ run.phase = "aside")
    BY <1>1, <1>3, <1>5, <2>1, Failing
  <2>3. g.id = Head1.id /\ g.from = Head1.src
    BY DEF Failure
  <2> HIDE DEF g
  <2>4. Waiting(run') \union Range(run'.outcome.failed)
         = ((Waiting(run) \union Range(run.outcome.failed)) \ {Head1}) \union {g}
    BY <2>1, <2>2
  <2>5. /\ \A s \in Spots(run') : s = <<Head1.id, Head1.src>> \/ (s \in Spots(run) /\ s[1] # Head1.id)
        /\ Spots(run) \subseteq Spots(run') \union {<<Head1.id, Head1.from>>} /\ <<Head1.id, Head1.src>> \in Spots(run')
    BY <1>1, <2>3, <2>4, SpotsTurn
  <2>6. Head1.src \in Folder \union Asides
    BY <1>1, <2>1 DEF Fits
  <2>7. Shifts(Head1, Head1.src)
    BY <1>1, <1>5, <2>1, <2>2, <2>5, <2>6 DEF Shifts, SameStores
  <2> QED
    BY <1>1, <2>2, <2>7, PhaseKeeps DEF Keeps
<1> QED
  BY <1>2, <1>4, <1>5

\* An entry that is done with leaves the lists.
LEMMA LeavesIs ==
    ASSUME RunInv(run, serial), DiskOK, PhaseOK, run.todo # <<>>,
           NEW d \in Items, d.id = Head1.id, d.src = Head1.src, run.job # "delete" => d.dst = Head1.dst,
           Went(run.job, Done(d)), Succeeds(d), serial' \in Nat, serial <= serial'
    PROVE  Keeps /\ Leaves(Head1, Done(d)) /\ SameStores /\ (run.job # "delete" => AskedTo(Done(d), run.asked))
<1>1. /\ Head1 \in Items /\ Head1 \in Waiting(run) /\ Head1 \notin Range(run.outcome.failed)
      /\ RunOK(run, serial) /\ serial \in Nat /\ AskedTo(Head1, run.asked)
      /\ \A e \in AllDone : e.id # Head1.id
  BY FirstIs
<1>2. /\ RunInv(run', serial) /\ Carries(run, run')
      /\ run'.outcome.done = Append(run.outcome.done, Done(d))
      /\ run'.outcome.failed = run.outcome.failed /\ run'.outcome.stagings = run.outcome.stagings
      /\ run'.batch = run.batch /\ Waiting(run') = Waiting(run) \ {Head1}
      /\ (run'.phase = "aside" => Range(run'.todo) \subseteq Range(run.todo) /\ run.phase = "aside")
  BY <1>1, Succeeding
<1>3. RunInv(run', serial')
  <2>1. RunOK(run', serial')
    BY <1>1, <1>2, NumbersGrow DEF RunInv
  <2> QED
    BY <1>2, <2>1 DEF RunInv
<1>4. Done(d) \in Items /\ Done(d).id = Head1.id /\ Done(d).src = Head1.src /\ Done(d).dst = d.dst
  BY DEF Done, Items
<1>5. Range(run'.outcome.done) = Range(run.outcome.done) \union {Done(d)}
  <2>1. run.outcome.done \in Seq(Items) /\ Once(run.outcome.done)
    BY <1>1 DEF RunOK, Runs, Outcomes, Worked
  <2>2. Done(d).id \notin Ids(run.outcome.done)
    <3>1. \A e \in Range(run.outcome.done) : e.id # Head1.id
      BY <1>1 DEF AllDone
    <3>2. Ids(run.outcome.done) = {e.id : e \in Range(run.outcome.done)}
      BY <2>1, ListIs
    <3> QED
      BY <1>4, <3>1, <3>2
  <2> QED
    BY <1>2, <1>4, <2>1, <2>2, AppendListed
<1>6. Waiting(run') \union Range(run'.outcome.failed) = (Waiting(run) \union Range(run.outcome.failed)) \ {Head1}
  BY <1>1, <1>2
<1>7. /\ \A s \in Spots(run') : s \in Spots(run) /\ s[1] # Head1.id
      /\ Spots(run) \subseteq Spots(run') \union {<<Head1.id, Head1.from>>}
  BY <1>6, SpotsGo
<1>8. run.job # "delete" => AskedTo(Done(d), run.asked)
  BY <1>1, <1>4 DEF AskedTo, SameItem
<1> QED
  BY <1>1, <1>2, <1>3, <1>4, <1>5, <1>7, <1>8, PhaseKeeps DEF Keeps, Leaves, SameStores

\* Renames, Restores, Recycles and Stages move an entry that is done with; Erases erases it.
LEMMA RenamesIs ==
    ASSUME RunInv(run, serial), DiskOK, PhaseOK, Renames
    PROVE  Keeps /\ \E h, from, to, d : Lands(h, from, to, d)
<1>1. /\ run.todo # <<>> /\ run.job = "rename" /\ Exists(Head1.from) /\ ~Exists(Head1.dst)
      /\ disk' = Moved(Head1.from, Head1.dst) /\ Succeeds(Head1) /\ serial' = serial /\ given' = given
  BY DEF Renames, Doing
<1>2. /\ Head1 \in Items /\ Fits("rename", Head1) /\ Head1.from \in Folder \union Asides /\ serial \in Nat
  BY <1>1, FirstIs
<1>3. Done(Head1).dst = Head1.dst /\ Head1.dst \in Folder /\ Went("rename", Done(Head1))
  BY <1>2 DEF Done, Went, Fits, Items
<1>4. Keeps /\ Leaves(Head1, Done(Head1)) /\ SameStores
  BY <1>1, <1>2, <1>3, LeavesIs
<1>5. Lands(Head1, Head1.from, Head1.dst, Done(Head1))
  BY <1>1, <1>2, <1>3, <1>4 DEF Lands
<1> QED
  BY <1>4, <1>5

\* Restores moves it from where it is held into the folder.
LEMMA RestoresIs ==
    ASSUME RunInv(run, serial), DiskOK, PhaseOK, Restores
    PROVE  Keeps /\ \E h, from, to, d : Lands(h, from, to, d)
<1>1. /\ run.todo # <<>> /\ run.job = "restore" /\ Exists(Head1.dst) /\ ~Exists(Head1.src)
      /\ disk' = Moved(Head1.dst, Head1.src) /\ Succeeds(Head1) /\ serial' = serial /\ given' = given
  BY DEF Restores, Doing
<1>2. /\ Head1 \in Items /\ Fits("restore", Head1) /\ serial \in Nat
  BY <1>1, FirstIs
<1>3. Done(Head1).dst = Head1.dst /\ Done(Head1).src = Head1.src /\ Head1.dst \in Stores /\ Head1.src \in Folder
      /\ Went("restore", Done(Head1))
  BY <1>2 DEF Done, Went, Fits, Items
<1>4. Keeps /\ Leaves(Head1, Done(Head1)) /\ SameStores /\ AskedTo(Done(Head1), run.asked)
  BY <1>1, <1>2, <1>3, LeavesIs
<1>5. Lands(Head1, Head1.dst, Head1.src, Done(Head1))
  BY <1>1, <1>2, <1>3, <1>4 DEF Lands
<1> QED
  BY <1>4, <1>5

\* Recycles moves it to a new place in the bin.
LEMMA RecyclesIs ==
    ASSUME RunInv(run, serial), DiskOK, PhaseOK, Recycles
    PROVE  Keeps /\ \E h, from, to, d : Lands(h, from, to, d)
<1> DEFINE to == Put("bin", serial, Head1.src)
           d == [Head1 EXCEPT !.dst = to]
<1>1. /\ run.todo # <<>> /\ run.job = "delete" /\ Exists(Head1.src) /\ disk' = Moved(Head1.src, to)
      /\ serial' = serial + 1 /\ Succeeds(d) /\ given' = given
  BY DEF Recycles, Doing
<1>2. /\ Head1 \in Items /\ Fits("delete", Head1) /\ serial \in Nat /\ Head1.src \in Places /\ Head1.from = Head1.src
      /\ Head1.src \in Folder
  BY <1>1, FirstIs DEF Fits
<1>3. to \in Places /\ to \in Stores /\ to.at = "bin" /\ to.no = serial /\ to.name = Head1.src.name
  BY <1>2, PutIs
<1>4. ~Exists(to)
  BY <1>3, NewIsFree
<1> HIDE DEF to
<1>5. d \in Items /\ d.id = Head1.id /\ d.src = Head1.src /\ d.dst = to
  BY <1>2, <1>3 DEF Items
<1> HIDE DEF d
<1>6. Went("delete", Done(d)) /\ Done(d).dst = to
  BY <1>2, <1>3, <1>5 DEF Went, Done, Items
<1>7. serial' \in Nat /\ serial <= serial'
  BY <1>1, <1>2
<1>8. Keeps /\ Leaves(Head1, Done(d)) /\ SameStores
  BY <1>1, <1>5, <1>6, <1>7, LeavesIs
<1>9. Lands(Head1, Head1.from, to, Done(d))
  BY <1>1, <1>2, <1>3, <1>4, <1>6, <1>8 DEF Lands
<1> QED
  BY <1>8, <1>9

\* Erases takes it off the disk, given up.
LEMMA ErasesIs ==
    ASSUME RunInv(run, serial), DiskOK, PhaseOK, Erases
    PROVE  Keeps /\ \E h, d : GoneForGood(h, d)
<1>1. /\ run.todo # <<>> /\ run.job = "delete" /\ Exists(Head1.src) /\ disk' = Without({Head1.src})
      /\ given' = given \union {disk[Head1.src]} /\ serial' = serial /\ Succeeds(Head1)
  BY DEF Erases, Doing
<1>2. /\ Head1 \in Items /\ Fits("delete", Head1) /\ serial \in Nat /\ Head1.from = Head1.src
      /\ Head1.src \in Folder /\ Head1.dst = Nowhere
  BY <1>1, FirstIs DEF Fits
<1>3. Done(Head1).dst = Nowhere /\ Went("delete", Done(Head1))
  BY <1>2 DEF Done, Went, Items
<1>4. Keeps /\ Leaves(Head1, Done(Head1)) /\ SameStores
  BY <1>1, <1>2, <1>3, LeavesIs
<1>5. GoneForGood(Head1, Done(Head1))
  BY <1>1, <1>2, <1>3, <1>4 DEF GoneForGood
<1> QED
  BY <1>4, <1>5

\* In the folder of this pass there is only what this pass put there, and under its own name.
LEMMA HoldIsFree ==
    ASSUME RunInv(run, serial), DiskOK, HeldOK, run.job = "delete", run.todo # <<>>,
           NEW at \in {"held", "beside"}, NEW no \in Nat, no = (IF run.batch = 0 THEN serial ELSE run.batch)
    PROVE  ~Exists(Put(at, no, Head1.src))
<1> DEFINE to == Put(at, no, Head1.src)
<1>1. /\ Head1 \in Items /\ Fits("delete", Head1) /\ serial \in Nat /\ Head1.src \in Places /\ Head1.src \in Folder
      /\ RunOK(run, serial)
  BY FirstIs DEF Fits
<1>2. to \in Stores /\ to.at = at /\ to.no = no /\ to.name = Head1.src.name
  <2>1. at \in {"aside", "held", "beside", "bin"} /\ at # "aside"
    OBVIOUS
  <2> QED
    BY <1>1, <2>1, PutIs
<1>3. CASE run.batch = 0
  <2>1. to.no = serial /\ to.at # "folder"
    BY <1>2, <1>3
  <2> HIDE DEF to
  <2>2. ~Exists(to)
    BY <2>1, NewIsFree
  <2> QED
    BY <2>2 DEF to
<1>4. CASE run.batch # 0
  <2>1. SUFFICES ASSUME to \in DOMAIN disk PROVE FALSE
    BY DEF Exists
  <2>2. Known(run.outcome) /\ to.no \in run.outcome.stagings
    BY <1>2, <1>4 DEF HeldOK
  <2> HIDE DEF to
  <2>3. to \in HeldBy(run.outcome)
    BY <1>2, <2>1, <2>2 DEF Known
  <2>4. PICK i \in DOMAIN run.outcome.done : run.outcome.done[i].dst = to
    BY <2>3 DEF HeldBy
  <2>5. run.outcome.done \in Seq(Items) /\ run.asked \in Seq(Items)
    BY <1>1 DEF RunOK, Runs, Outcomes
  <2>6. PICK d \in Range(run.outcome.done) : d.dst = to
    BY <2>4, <2>5, ListIs
  <2>7. Went("delete", d) /\ Asked(d, run.asked)
    BY <1>1 DEF RunOK, Worked
  <2>8. d.src \in Folder /\ d.src.name = Head1.src.name
    BY <1>2, <2>6, <2>7, FolderPlaces DEF Went
  <2>9. d.src = Head1.src
    BY <1>1, <2>8, FolderPlaces
  <2>10. PICK a \in Range(run.asked) : SameItem(d, a)
    BY <2>7 DEF Asked
  <2>11. PICK b \in Range(run.asked) : SameItem(Head1, b)
    BY FirstIs DEF AskedTo
  <2>12. a.id = b.id
    BY <1>1, <2>9, <2>10, <2>11 DEF SameItem, RunOK, Asks
  <2>13. d.id # Head1.id
    BY FirstIs DEF AllDone
  <2> QED
    BY <2>10, <2>11, <2>12, <2>13 DEF SameItem
<1> QED
  BY <1>3, <1>4

\* Stages moves it into the holding folder of the pass.
LEMMA StagesIs ==
    ASSUME RunInv(run, serial), DiskOK, PhaseOK, HeldOK, Stages
    PROVE  Keeps /\ \E h, from, to, d : Lands(h, from, to, d)
<1> DEFINE no == IF run.batch = 0 THEN serial ELSE run.batch
<1>1. /\ run.todo # <<>> /\ run.job = "delete" /\ run.phase = "work" /\ Exists(Head1.src) /\ given' = given
      /\ serial' = IF run.batch = 0 THEN serial + 1 ELSE serial
  BY DEF Stages, Doing
<1>2. PICK at \in {"held", "beside"} :
        /\ disk' = Moved(Head1.src, Put(at, no, Head1.src))
        /\ Goes([run EXCEPT !.batch = no, !.outcome.stagings = {no},
                            !.outcome.done = Append(@, Done([Head1 EXCEPT !.dst = Put(at, no, Head1.src)]))])
  BY DEF Stages
<1>3. /\ Head1 \in Items /\ Fits("delete", Head1) /\ serial \in Nat /\ Head1.src \in Places /\ Head1.from = Head1.src
      /\ Head1.src \in Folder /\ Head1 \in Waiting(run) /\ Head1 \notin Range(run.outcome.failed)
      /\ RunOK(run, serial) /\ \A e \in AllDone : e.id # Head1.id
  BY <1>1, FirstIs DEF Fits
<1>4. run \in Runs /\ run.outcome \in Outcomes /\ run.batch \in Nat
  BY <1>3 DEF RunOK, Runs
<1>5. no \in Nat /\ serial' \in Nat /\ serial <= serial'
  BY <1>1, <1>3, <1>4
<1> DEFINE to == Put(at, no, Head1.src)
           d  == Done([Head1 EXCEPT !.dst = to])
           q  == [[run EXCEPT !.batch = no, !.outcome.stagings = {no}, !.outcome.done = Append(@, d)] EXCEPT !.todo = Tail(@)]
<1>6. run' = Onward(q) /\ disk' = Moved(Head1.src, to)
  BY <1>2 DEF Goes
<1> HIDE DEF no
<1>7. to \in Places /\ to \in Stores /\ to.at = at /\ to.no = no /\ to.name = Head1.src.name
  BY <1>3, <1>5, PutIs
<1>8. ~Exists(to)
  BY <1>1, <1>5, HoldIsFree DEF no
<1> HIDE DEF to
<1>9. d \in Items /\ d.id = Head1.id /\ d.src = Head1.src /\ d.dst = to /\ d.from = d.src
  BY <1>3, <1>7 DEF Done, Items
<1> HIDE DEF d
<1>10. Went("delete", d)
  BY <1>3, <1>7, <1>9 DEF Went
<1>11. /\ q.job = run.job /\ q.doing = run.doing /\ q.pass = run.pass /\ q.phase = run.phase /\ q.plan = run.plan
       /\ q.asked = run.asked /\ q.first = run.first /\ q.cancelled = run.cancelled /\ q.batch = no
       /\ q.todo = Tail(run.todo) /\ q.ready = run.ready
       /\ q.outcome = [[run.outcome EXCEPT !.stagings = {no}] EXCEPT !.done = Append(run.outcome.done, d)]
  BY <1>4 DEF Runs, Outcomes
<1>12. /\ q.outcome.done = Append(run.outcome.done, d) /\ q.outcome.failed = run.outcome.failed
       /\ q.outcome.stagings = {no}
  BY <1>4, <1>11 DEF Outcomes
<1>13. q = [run EXCEPT !.batch = no, !.outcome = q.outcome, !.todo = Tail(run.todo)]
  BY <1>4, <1>11 DEF Runs
<1> HIDE DEF q
<1>14. q \in Runs
  <2>1. Tail(run.todo) \in Seq(Items)
    BY <1>1, <1>3, HeadOff
  <2>2. Append(run.outcome.done, d) \in Seq(Items)
    BY <1>4, <1>9, AppendProperties DEF Outcomes
  <2>3. {no} \in SUBSET Nat
    BY <1>5
  <2>4. q.outcome \in Outcomes
    BY <1>4, <1>11, <2>2, <2>3 DEF Outcomes
  <2> QED
    BY <1>4, <1>5, <1>13, <2>1, <2>4 DEF Runs
<1>15. RunOK(q, serial)
  <2>1. Alike(run, q)
    BY <1>11, <1>14 DEF Alike
  <2>2. d.id = Head(run.todo).id /\ d.src = Head(run.todo).src
    BY <1>9 DEF Head1
  <2>3. Went(run.job, d) /\ (run.job # "delete" => d.dst = Head(run.todo).dst) /\ d \in Items
    BY <1>1, <1>9, <1>10
  <2>4. q.todo = Tail(run.todo) /\ q.ready = run.ready /\ q.outcome.failed = run.outcome.failed
        /\ q.outcome.done = Append(run.outcome.done, d)
    BY <1>11, <1>12
  <2> QED
    BY <1>1, <1>3, <2>1, <2>2, <2>3, <2>4, DoneKeeps
<1>16. RunInv(run', serial')
  <2>1. RunOK(q, serial')
    BY <1>3, <1>5, <1>15, NumbersGrow
  <2> QED
    BY <1>5, <1>6, <2>1, OnwardKeeps
<1>17. Carries(q, run') /\ run'.outcome = q.outcome /\ run'.batch = q.batch /\ Waiting(run') = Waiting(q)
       /\ (run'.phase = "aside" => run' = q)
  BY <1>6, <1>14, OnwardIs
<1>18. Waiting(q) = Waiting(run) \ {Head1}
  BY <1>1, <1>3, <1>11, RestWaits DEF Waiting, Head1
<1>19. PhaseOK'
  <2>1. run.phase # "aside"
    BY <1>1
  <2> QED
    BY <1>11, <1>17, <2>1 DEF PhaseOK
<1>20. Range(run'.outcome.done) = Range(run.outcome.done) \union {d}
  <2>1. run.outcome.done \in Seq(Items) /\ Once(run.outcome.done)
    BY <1>3, <1>4 DEF RunOK, Outcomes, Worked
  <2>2. d.id \notin Ids(run.outcome.done)
    <3>1. \A e \in Range(run.outcome.done) : e.id # Head1.id
      BY <1>3 DEF AllDone
    <3>2. Ids(run.outcome.done) = {e.id : e \in Range(run.outcome.done)}
      BY <2>1, ListIs
    <3> QED
      BY <1>9, <3>1, <3>2
  <2>3. Range(Append(run.outcome.done, d)) = Range(run.outcome.done) \union {d}
    BY <1>9, <2>1, <2>2, AppendListed
  <2> QED
    BY <1>12, <1>17, <2>3
<1>21. Waiting(run') \union Range(run'.outcome.failed) = (Waiting(run) \union Range(run.outcome.failed)) \ {Head1}
  BY <1>3, <1>12, <1>17, <1>18
<1>22. /\ \A s \in Spots(run') : s \in Spots(run) /\ s[1] # Head1.id
       /\ Spots(run) \subseteq Spots(run') \union {<<Head1.id, Head1.from>>}
  BY <1>1, <1>21, SpotsGo
<1>23. Leaves(Head1, d)
  BY <1>1, <1>3, <1>9, <1>10, <1>20, <1>22 DEF Leaves
<1>24. run'.batch = no /\ run'.outcome.stagings = {no}
  BY <1>11, <1>12, <1>17
<1>25. \/ run.batch = 0 /\ run'.batch = serial /\ serial' = serial + 1
       \/ run.batch # 0 /\ run'.batch = run.batch /\ serial' = serial
  BY <1>1, <1>24 DEF no
<1>26. Lands(Head1, Head1.from, to, d)
  BY <1>1, <1>3, <1>6, <1>7, <1>8, <1>9, <1>23, <1>24, <1>25 DEF Lands
<1> QED
  BY <1>11, <1>16, <1>17, <1>19, <1>26 DEF Keeps, Carries

\* All of a pass.
LEMMA PassActs ==
    ASSUME RunInv(run, serial), DiskOK, PhaseOK, HeldOK, RenameActs \/ DeleteActs \/ Restores \/ RestoreFails
    PROVE  /\ RunInv(run', serial') /\ PhaseOK'
           /\ run'.job = run.job /\ run'.doing = run.doing /\ run'.pass = run.pass /\ run'.plan = run.plan
           /\ run'.asked = run.asked /\ run'.first = run.first
           /\ \/ Stays
              \/ \E h, to : Shifts(h, to)
              \/ \E h, from, to, d : Lands(h, from, to, d)
              \/ \E h, d : GoneForGood(h, d)
<1>1. CASE StandsBy \/ Gathers
  BY <1>1, WaitsOn DEF Keeps, Carries
<1>2. CASE StepsAside
  BY <1>2, StepsAsideIs DEF Keeps, Carries
<1>3. CASE Stumbles \/ DeleteFails \/ RestoreFails
  BY <1>3, FailsWhole DEF Keeps, Carries
<1>4. CASE Renames
  BY <1>4, RenamesIs DEF Keeps, Carries
<1>5. CASE RenameFails
  BY <1>5, RenameFailsIs DEF Keeps, Carries
<1>6. CASE Stages
  BY <1>6, StagesIs DEF Keeps, Carries
<1>7. CASE Erases
  BY <1>7, ErasesIs DEF Keeps, Carries
<1>8. CASE Recycles
  BY <1>8, RecyclesIs DEF Keeps, Carries
<1>9. CASE BinFails
  BY <1>9, BinFailsIs DEF Keeps, Carries
<1>10. CASE Cancels
  BY <1>10, CancelsIs
<1>11. CASE Restores
  BY <1>11, RestoresIs DEF Keeps, Carries
<1> QED
  BY <1>1, <1>2, <1>3, <1>4, <1>5, <1>6, <1>7, <1>8, <1>9, <1>10, <1>11 DEF RenameActs, DeleteActs

(***************************************************************************)
(* The history's two lists.                                                *)
(***************************************************************************)
LEMMA FrontIs ==
    ASSUME NEW X, NEW s \in Seq(X), s # <<>>
    PROVE  /\ Front(s) \in Seq(X) /\ DOMAIN Front(s) = 1..(Len(s) - 1) /\ Len(Front(s)) = Len(s) - 1
           /\ \A i \in DOMAIN Front(s) : Front(s)[i] = s[i] /\ i \in DOMAIN s /\ i # Len(s)
           /\ Last(s) = s[Len(s)] /\ Len(s) \in DOMAIN s /\ Last(s) \in Range(s) /\ Len(s) \in Nat /\ DOMAIN s = 1..Len(s)
           /\ Range(Front(s)) \subseteq Range(s)
           /\ Front(s) # <<>> => Last(Front(s)) = s[Len(s) - 1] /\ Len(s) - 1 \in DOMAIN s
<1> DEFINE f == Front(s)
<1>1. Len(s) \in Nat /\ DOMAIN s = 1..Len(s) /\ Len(s) # 0
  BY LenProperties, EmptySeq
<1>2. \A i \in 1..(Len(s) - 1) : s[i] \in X
  BY <1>1, ElementOfSeq
<1>3. f = SubSeq(s, 1, Len(s) - 1)
  BY DEF Front
<1>4. f \in Seq(X) /\ Len(f) = Len(s) - 1 /\ \A i \in 1..(Len(s) - 1) : f[i] = s[i]
  <2>1. Len(s) - 1 \in Int /\ 1 \in Int /\ ((Len(s) - 1) - 1) + 1 = Len(s) - 1
    BY <1>1
  <2>2. /\ f \in Seq(X) /\ Len(f) = (IF 1 <= Len(s) - 1 THEN ((Len(s) - 1) - 1) + 1 ELSE 0)
        /\ \A i \in 1..(((Len(s) - 1) - 1) + 1) : f[i] = s[(1 + i) - 1]
    BY <1>2, <1>3, <2>1, SubSeqProperties
  <2> HIDE DEF f
  <2>3. Len(f) = Len(s) - 1
    <3>1. CASE 1 <= Len(s) - 1
      BY <2>1, <2>2, <3>1
    <3>2. CASE ~(1 <= Len(s) - 1)
      <4>1. Len(s) - 1 = 0
        BY <1>1, <3>2
      <4> QED
        BY <2>2, <3>2, <4>1
    <3> QED
      BY <3>1, <3>2
  <2>4. \A i \in 1..(Len(s) - 1) : f[i] = s[i]
    <3> TAKE i \in 1..(Len(s) - 1)
    <3>1. i \in 1..(((Len(s) - 1) - 1) + 1) /\ (1 + i) - 1 = i
      BY <1>1
    <3> QED
      BY <2>2, <3>1
  <2> QED
    BY <2>2, <2>3, <2>4
<1>5. DOMAIN f = 1..(Len(s) - 1)
  BY <1>4, LenProperties
<1> HIDE DEF f
<1>6. Len(s) \in DOMAIN s /\ Last(s) = s[Len(s)]
  BY <1>1 DEF Last
<1>7. Last(s) \in Range(s)
  BY <1>6 DEF Range
<1>8. Range(f) \subseteq Range(s)
  BY <1>1, <1>4, <1>5 DEF Range
<1>9. f # <<>> => Last(f) = s[Len(s) - 1] /\ Len(s) - 1 \in DOMAIN s
  <2>1. SUFFICES ASSUME f # <<>> PROVE Last(f) = s[Len(s) - 1] /\ Len(s) - 1 \in DOMAIN s
    OBVIOUS
  <2>2. Len(f) \in Nat \ {0}
    BY <1>4, <2>1, EmptySeq
  <2>3. Last(f) = f[Len(f)]
    BY DEF Last
  <2> QED
    BY <1>1, <1>4, <2>2, <2>3
<1> QED
  BY <1>1, <1>4, <1>5, <1>6, <1>7, <1>8, <1>9 DEF f

\* One is put at the end.
LEMMA AppendIs ==
    ASSUME NEW X, NEW s \in Seq(X), NEW e \in X
    PROVE  /\ Append(s, e) \in Seq(X) /\ Append(s, e) # <<>> /\ Last(Append(s, e)) = e
           /\ Range(Append(s, e)) = Range(s) \union {e}
           /\ \A i \in DOMAIN Append(s, e) : \/ i \in DOMAIN s /\ Append(s, e)[i] = s[i]
                                             \/ i = Len(s) + 1 /\ Append(s, e)[i] = e
           /\ Len(s) \in Nat /\ DOMAIN s = 1..Len(s) /\ DOMAIN Append(s, e) = 1..(Len(s) + 1)
<1> DEFINE t == Append(s, e)
<1>1. /\ t \in Seq(X) /\ Len(t) = Len(s) + 1 /\ \A i \in 1..Len(s) : t[i] = s[i]
      /\ t[Len(s) + 1] = e
  BY AppendProperties
<1>2. DOMAIN s = 1..Len(s) /\ DOMAIN t = 1..Len(t) /\ Len(s) \in Nat
  BY <1>1, LenProperties
<1> HIDE DEF t
<1>3. t # <<>> /\ Last(t) = e
  BY <1>1, <1>2, EmptySeq DEF Last
<1>4. \A i \in DOMAIN t : (i \in DOMAIN s /\ t[i] = s[i]) \/ (i = Len(s) + 1 /\ t[i] = e)
  BY <1>1, <1>2
<1>5. \A i \in DOMAIN s : i \in DOMAIN t /\ t[i] = s[i]
  BY <1>1, <1>2
<1>6. Len(s) + 1 \in DOMAIN t
  BY <1>1, <1>2
<1>7. Range(t) = Range(s) \union {e}
  <2>1. \A x \in Range(t) : x \in Range(s) \union {e}
    BY <1>4 DEF Range
  <2>2. \A x \in Range(s) \union {e} : x \in Range(t)
    BY <1>1, <1>5, <1>6 DEF Range
  <2> QED
    BY <2>1, <2>2
<1> QED
  BY <1>1, <1>2, <1>3, <1>4, <1>7 DEF t

\* The first is taken off.
LEMMA TailIs ==
    ASSUME NEW X, NEW s \in Seq(X), s # <<>>
    PROVE  /\ Tail(s) \in Seq(X) /\ Range(Tail(s)) \subseteq Range(s) /\ Head(s) \in Range(s)
           /\ DOMAIN s = 1..Len(s) /\ Len(s) \in Nat /\ 1 \in DOMAIN s /\ Head(s) = s[1]
           /\ DOMAIN Tail(s) = 1..(Len(s) - 1)
           /\ \A i \in DOMAIN Tail(s) : Tail(s)[i] = s[i + 1] /\ i + 1 \in DOMAIN s /\ i \in Nat
           /\ Tail(s) # <<>> => Head(Tail(s)) = s[2] /\ Last(Tail(s)) = Last(s) /\ 2 \in DOMAIN s
<1> DEFINE t == Tail(s)
<1>1. /\ t \in Seq(X) /\ Len(t) = Len(s) - 1 /\ \A i \in 1..Len(t) : t[i] = s[i + 1]
  BY HeadTailProperties
<1>2. DOMAIN s = 1..Len(s) /\ DOMAIN t = 1..Len(t) /\ Len(s) \in Nat /\ Len(s) # 0
  BY <1>1, LenProperties, EmptySeq
<1>3. Head(s) = s[1] /\ 1 \in DOMAIN s
  BY <1>2
<1> HIDE DEF t
<1>4. \A i \in DOMAIN t : t[i] = s[i + 1] /\ i + 1 \in DOMAIN s /\ i \in Nat
  BY <1>1, <1>2
<1>5. Range(t) \subseteq Range(s) /\ Head(s) \in Range(s)
  BY <1>3, <1>4 DEF Range
<1>6. t # <<>> => Head(t) = s[2] /\ Last(t) = Last(s) /\ 2 \in DOMAIN s
  <2>1. SUFFICES ASSUME t # <<>> PROVE Head(t) = s[2] /\ Last(t) = Last(s) /\ 2 \in DOMAIN s
    OBVIOUS
  <2>2. Len(t) \in Nat \ {0}
    BY <1>1, <2>1, EmptySeq
  <2>3. 1 \in DOMAIN t /\ Len(t) \in DOMAIN t /\ 1 + 1 = 2 /\ Len(t) + 1 = Len(s)
    BY <1>1, <1>2, <2>2
  <2>4. Head(t) = t[1] /\ Last(t) = t[Len(t)] /\ Last(s) = s[Len(s)]
    BY <1>1, <2>1 DEF Last
  <2> QED
    BY <1>4, <2>3, <2>4
<1> QED
  BY <1>1, <1>2, <1>3, <1>4, <1>5, <1>6 DEF t

\* One is put before the first.
LEMMA PrependIs ==
    ASSUME NEW X, NEW s \in Seq(X), NEW e \in X
    PROVE  /\ <<e>> \o s \in Seq(X) /\ <<e>> \o s # <<>> /\ Head(<<e>> \o s) = e
           /\ Range(<<e>> \o s) = Range(s) \union {e}
           /\ (<<e>> \o s)[1] = e
           /\ \A i \in DOMAIN (<<e>> \o s) : i = 1 \/ (i > 1 /\ i - 1 \in DOMAIN s /\ (<<e>> \o s)[i] = s[i - 1])
           /\ Len(s) \in Nat /\ DOMAIN s = 1..Len(s) /\ DOMAIN (<<e>> \o s) = 1..(Len(s) + 1)
<1> DEFINE t == <<e>> \o s
<1>1. <<e>> \in Seq(X) /\ Len(<<e>>) = 1 /\ <<e>>[1] = e
  OBVIOUS
<1>2. /\ t \in Seq(X) /\ Len(t) = 1 + Len(s)
      /\ \A i \in 1..(1 + Len(s)) : t[i] = IF i <= 1 THEN <<e>>[i] ELSE s[i - 1]
  BY <1>1, ConcatProperties
<1>3. DOMAIN s = 1..Len(s) /\ DOMAIN t = 1..Len(t) /\ Len(s) \in Nat
  BY <1>2, LenProperties
<1> HIDE DEF t
<1>4. 1 \in DOMAIN t /\ t[1] = e
  BY <1>1, <1>2, <1>3
<1>5. \A i \in DOMAIN t : i = 1 \/ (i > 1 /\ i - 1 \in DOMAIN s /\ t[i] = s[i - 1])
  BY <1>2, <1>3
<1>6. \A i \in DOMAIN s : i + 1 \in DOMAIN t /\ t[i + 1] = s[i]
  <2> TAKE i \in DOMAIN s
  <2>1. i + 1 \in 1..(1 + Len(s)) /\ ~(i + 1 <= 1) /\ (i + 1) - 1 = i
    BY <1>3
  <2> QED
    BY <1>2, <1>3, <2>1
<1>7. t # <<>> /\ Head(t) = e
  BY <1>2, <1>3, <1>4, EmptySeq
<1>8. Range(t) = Range(s) \union {e}
  <2>1. \A x \in Range(t) : x \in Range(s) \union {e}
    BY <1>4, <1>5 DEF Range
  <2>2. \A x \in Range(s) \union {e} : x \in Range(t)
    BY <1>4, <1>6 DEF Range
  <2> QED
    BY <2>1, <2>2
<1> QED
  BY <1>2, <1>3, <1>4, <1>5, <1>7, <1>8 DEF t

\* What is recorded of an operation can be undone.
LEMMA RecordIs ==
    ASSUME NEW job \in {"rename", "delete", "restore"}, NEW plan \in Seq(Items), Plan(job, plan),
           NEW done, Tells(job, plan, done), NEW rec,
           rec.job = (IF job = "rename" THEN "rename" ELSE "delete"), rec.done = Recoverable(done), rec.done # <<>>,
           rec = [job |-> rec.job, done |-> rec.done, stagings |-> rec.stagings, before |-> rec.before, after |-> rec.after],
           rec.stagings \in SUBSET Nat, job = "rename" => rec.stagings = {},
           rec.before \in SUBSET (Names \X Nat), rec.after \in SUBSET (Names \X Nat)
    PROVE  RecordOK(rec) /\ Range(rec.done) = {d \in Range(done) : d.dst # Nowhere}
<1>1. done \in Seq(Items) /\ Once(done)
  BY DEF Tells
<1>2. rec.done \in Seq(Items) /\ Once(rec.done) /\ Range(rec.done) = {d \in Range(done) : d.dst # Nowhere}
  <2>1. rec.done = Among(done, {d \in Range(done) : d.dst # Nowhere})
    BY DEF Recoverable
  <2> QED
    BY <1>1, <2>1, AmongListed
<1>3. rec \in Records
  <2>1. rec.job \in {"rename", "delete"}
    OBVIOUS
  <2> QED
    BY <1>2, <2>1 DEF Records
<1>4. \A d \in Range(rec.done) : /\ \E a \in Range(plan) : SameItem(d, a) /\ a.src \in Folder
                                 /\ job # "delete" => \E a \in Range(plan) : SameItem(d, a) /\ d.dst = a.dst /\ Fits(job, a)
                                 /\ job # "rename" => Went(job, d)
                                 /\ d.dst # Nowhere
  <2> TAKE d \in Range(rec.done)
  <2>1. Asked(d, plan) /\ (job # "delete" => AskedTo(d, plan)) /\ (job # "rename" => Went(job, d))
    BY <1>2 DEF Tells
  <2>2. d.dst # Nowhere
    BY <1>2
  <2>3. \E a \in Range(plan) : SameItem(d, a) /\ a.src \in Folder
    BY <2>1 DEF Asked, Plan
  <2>4. job # "delete" => \E a \in Range(plan) : SameItem(d, a) /\ d.dst = a.dst /\ Fits(job, a)
    BY <2>1 DEF AskedTo, Plan, Asks
  <2> QED
    BY <2>1, <2>2, <2>3, <2>4
<1>5. \A d \in Range(rec.done) : d.src \in Folder
  BY <1>4 DEF SameItem
<1>6. \A d, e \in Range(rec.done) : d.src = e.src => d.id = e.id
  <2> SUFFICES ASSUME NEW d \in Range(rec.done), NEW e \in Range(rec.done), d.src = e.src PROVE d.id = e.id
    OBVIOUS
  <2>1. PICK a \in Range(plan) : SameItem(d, a)
    BY <1>4
  <2>2. PICK b \in Range(plan) : SameItem(e, b)
    BY <1>4
  <2> QED
    BY <2>1, <2>2 DEF SameItem, Plan, Asks
<1>7. CASE job = "rename"
  <2>1. \A d \in Range(rec.done) : d.dst \in Folder
    BY <1>4, <1>7 DEF Fits
  <2>2. \A d, e \in Range(rec.done) : d.dst = e.dst => d.id = e.id
    <3> SUFFICES ASSUME NEW d \in Range(rec.done), NEW e \in Range(rec.done), d.dst = e.dst PROVE d.id = e.id
      OBVIOUS
    <3>1. PICK a \in Range(plan) : SameItem(d, a) /\ d.dst = a.dst
      BY <1>4, <1>7
    <3>2. PICK b \in Range(plan) : SameItem(e, b) /\ e.dst = b.dst
      BY <1>4, <1>7
    <3> QED
      BY <1>7, <3>1, <3>2 DEF SameItem, Plan
  <2> QED
    BY <1>2, <1>3, <1>5, <1>6, <1>7, <2>1, <2>2 DEF RecordOK
<1>8. CASE job # "rename"
  <2>1. \A d \in Range(rec.done) : d.dst \in Stores /\ d.from = d.src
    BY <1>4, <1>8 DEF Went
  <2> QED
    BY <1>2, <1>3, <1>5, <1>6, <1>8, <2>1 DEF RecordOK
<1> QED
  BY <1>7, <1>8

(***************************************************************************)
(* The disk.                                                               *)
(***************************************************************************)
AllIds == IdsAt(DOMAIN disk)

\* The ids of all that is on the disk.
LEMMA AllIdsIs == AllIds = {disk[p] : p \in DOMAIN disk}
BY DEF AllIds, IdsAt

\* An entry is moved to a place that is free.
LEMMA MovedIs ==
    ASSUME NEW from, NEW to, Exists(from), ~Exists(to), disk' = Moved(from, to)
    PROVE  /\ DOMAIN disk' = (DOMAIN disk \ {from}) \union {to} /\ disk'[to] = disk[from]
           /\ \A p \in DOMAIN disk \ {from} : p # to /\ p \in DOMAIN disk' /\ disk'[p] = disk[p]
           /\ from \notin DOMAIN disk'
           /\ AllIds' = AllIds
<1>1. DOMAIN disk' = (DOMAIN disk \ {from}) \union {to} /\ disk'[to] = disk[from]
  BY DEF Moved
<1>2. \A p \in DOMAIN disk \ {from} : p # to /\ p \in DOMAIN disk' /\ disk'[p] = disk[p]
  BY DEF Moved, Exists
<1>3. from \in DOMAIN disk /\ to \notin DOMAIN disk
  BY DEF Exists
<1>4. AllIds' = AllIds
  <2>1. \A x \in AllIds' : x \in AllIds
    BY <1>1, <1>2, <1>3, AllIdsIs DEF AllIds, IdsAt
  <2>2. \A x \in AllIds : x \in AllIds'
    BY <1>1, <1>2, <1>3, AllIdsIs DEF AllIds, IdsAt
  <2> QED
    BY <2>1, <2>2
<1> QED
  BY <1>1, <1>2, <1>3, <1>4

\* A move to a free place leaves the disk in order.
LEMMA MovedKeeps ==
    ASSUME DiskOK, NEW from, NEW to \in Places, Exists(from), ~Exists(to), disk' = Moved(from, to),
           to.at = "folder" => to \in Folder, serial' \in Nat, serial <= serial', to.at # "folder" => to.no < serial',
           given' = given, since' = since, made' = made
    PROVE  DiskOK'
<1>1. /\ DOMAIN disk' = (DOMAIN disk \ {from}) \union {to} /\ disk'[to] = disk[from]
      /\ \A p \in DOMAIN disk \ {from} : p # to /\ p \in DOMAIN disk' /\ disk'[p] = disk[p]
  BY MovedIs
<1>2. from \in DOMAIN disk
  BY DEF Exists
<1>3. \A p \in DOMAIN disk : /\ p \in Places /\ disk[p] \in 1..made /\ (p.at = "folder" => p \in Folder)
                             /\ p.at # "folder" => p.no < serial
  BY DEF DiskOK
<1>4. serial \in Nat /\ since \in Nat /\ 1 <= since /\ since <= serial /\ made \in Nat /\ given \subseteq 1..made
  BY DEF DiskOK
<1>5. ASSUME NEW p \in DOMAIN disk'
      PROVE  /\ p \in Places /\ disk'[p] \in 1..made /\ (p.at = "folder" => p \in Folder)
             /\ p.at # "folder" => p.no < serial'
  <2>1. CASE p = to
    BY <1>1, <1>2, <1>3, <2>1
  <2>2. CASE p # to
    <3>1. p \in DOMAIN disk /\ disk'[p] = disk[p]
      BY <1>1, <1>5, <2>2
    <3>2. p.no \in Nat
      BY <1>3, <3>1 DEF Places
    <3> QED
      BY <1>3, <1>4, <3>1, <3>2
  <2> QED
    BY <2>1, <2>2
<1>6. \A p, q \in DOMAIN disk' : disk'[p] = disk'[q] => p = q
  BY <1>1, <1>2 DEF DiskOK
<1>7. since' \in Nat /\ 1 <= since' /\ since' <= serial' /\ made' \in Nat /\ given' \subseteq 1..made'
  BY <1>4
<1> QED
  BY <1>5, <1>6, <1>7 DEF DiskOK

\* Entries are taken off the disk.
LEMMA WithoutIs ==
    ASSUME NEW S, disk' = Without(S)
    PROVE  /\ DOMAIN disk' = DOMAIN disk \ S
           /\ \A p \in DOMAIN disk \ S : disk'[p] = disk[p]
           /\ AllIds \subseteq AllIds' \union IdsAt(S)
<1>1. DOMAIN disk' = DOMAIN disk \ S /\ \A p \in DOMAIN disk \ S : disk'[p] = disk[p]
  BY DEF Without, Restrict
<1>2. AllIds \subseteq AllIds' \union IdsAt(S)
  BY <1>1 DEF AllIds, IdsAt
<1> QED
  BY <1>1, <1>2

\* So does taking entries off it.
LEMMA WithoutKeeps ==
    ASSUME DiskOK, NEW S, disk' = Without(S), serial' = serial, since' = since, made' = made,
           given' \subseteq 1..made
    PROVE  DiskOK'
<1>1. DOMAIN disk' = DOMAIN disk \ S /\ \A p \in DOMAIN disk \ S : disk'[p] = disk[p]
  BY WithoutIs
<1> QED
  BY <1>1 DEF DiskOK

\* Whatever is on the disk has an id that was made.
LEMMA IdsAreMade == ASSUME DiskOK, NEW S PROVE IdsAt(S) \subseteq 1..made
BY DEF DiskOK, IdsAt

\* The disk after an action of a pass.
LEMMA PassDisk ==
    ASSUME RunInv(run, serial), DiskOK, HeldOK,
           \/ Stays
           \/ \E h, to : Shifts(h, to)
           \/ \E h, from, to, d : Lands(h, from, to, d)
           \/ \E h, d : GoneForGood(h, d),
           since' = since, made' = made
    PROVE  /\ DiskOK' /\ given \subseteq given' /\ AllIds \subseteq AllIds' \union given'
           /\ serial' \in Nat /\ serial <= serial'
<1>0. serial \in Nat /\ given \subseteq 1..made
  BY DEF DiskOK
<1>1. CASE Stays
  <2>1. disk' = disk /\ serial' = serial /\ given' = given
    BY <1>1 DEF Stays, Same
  <2> QED
    BY <1>0, <2>1 DEF DiskOK, AllIds, IdsAt
<1>2. CASE \E h, to : Shifts(h, to)
  <2>1. PICK h : \E to : Shifts(h, to)
    BY <1>2
  <2>2. PICK to : Shifts(h, to)
    BY <2>1
  <2>3. /\ h \in Waiting(run) /\ Exists(h.from) /\ ~Exists(to) /\ disk' = Moved(h.from, to) /\ given' = given
        /\ \/ to = h.src /\ serial' = serial
           \/ to \in Asides /\ to.no = serial /\ serial' = serial + 1
        /\ to \in Folder \union Asides
    BY <2>2 DEF Shifts
  <2>4. to \in Places /\ (to.at = "folder" => to \in Folder)
    BY <2>3, FolderPlaces
  <2>5. serial' \in Nat /\ serial <= serial' /\ to.no < serial'
    <3>1. h.src.no < serial
      BY <2>3 DEF RunInv, RunOK, Below
    <3> QED
      BY <1>0, <2>3, <3>1
  <2>6. DiskOK'
    BY <2>3, <2>4, <2>5, MovedKeeps
  <2> QED
    BY <2>3, <2>5, <2>6, MovedIs
<1>3. CASE \E h, from, to, d : Lands(h, from, to, d)
  <2>1. PICK h : \E from, to, d : Lands(h, from, to, d)
    BY <1>3
  <2>2. PICK from : \E to, d : Lands(h, from, to, d)
    BY <2>1
  <2>3. PICK to : \E d : Lands(h, from, to, d)
    BY <2>2
  <2>4. PICK d : Lands(h, from, to, d)
    BY <2>3
  <2>5. Exists(from) /\ ~Exists(to) /\ disk' = Moved(from, to) /\ given' = given
    BY <2>4 DEF Lands
  <2>6. to \in Folder \union Stores /\ serial' \in Nat /\ serial <= serial' /\ (to \in Stores => to.no < serial')
    <3>1. CASE run.job # "delete"
      <4>1. to \in Folder /\ serial' = serial
        BY <2>4, <3>1 DEF Lands
      <4> QED
        BY <1>0, <4>1, FolderPlaces
    <3>2. CASE run.job = "delete"
      <4>1. /\ to \in Stores
            /\ \/ to.at = "bin" /\ to.no = serial /\ serial' = serial + 1 /\ SameStores
               \/ /\ to.no = run'.batch /\ run'.outcome.stagings = {run'.batch}
                  /\ \/ run.batch = 0 /\ run'.batch = serial /\ serial' = serial + 1
                     \/ run.batch # 0 /\ run'.batch = run.batch /\ serial' = serial
        BY <2>4, <3>2 DEF Lands
      <4>2. run.batch # 0 => run.batch < serial
        BY <3>2 DEF HeldOK, RunNumbers, Numbers
      <4> QED
        BY <1>0, <4>1, <4>2
    <3> QED
      BY <3>1, <3>2
  <2>7. to \in Places /\ (to.at = "folder" => to \in Folder) /\ (to.at # "folder" => to.no < serial')
    BY <2>6, FolderPlaces
  <2>8. DiskOK'
    BY <2>5, <2>6, <2>7, MovedKeeps
  <2> QED
    BY <2>5, <2>6, <2>8, MovedIs
<1>4. CASE \E h, d : GoneForGood(h, d)
  <2>1. PICK h : \E d : GoneForGood(h, d)
    BY <1>4
  <2>2. /\ Exists(h.from) /\ disk' = Without({h.from}) /\ given' = given \union {disk[h.from]} /\ serial' = serial
    BY <2>1 DEF GoneForGood
  <2>3. IdsAt({h.from}) = {disk[h.from]}
    BY <2>2 DEF IdsAt, Exists
  <2>4. given' \subseteq 1..made
    BY <1>0, <2>2, <2>3, IdsAreMade
  <2>5. DiskOK'
    BY <2>2, <2>4, WithoutKeeps
  <2>6. AllIds \subseteq AllIds' \union IdsAt({h.from})
    BY <2>2, WithoutIs
  <2> QED
    BY <1>0, <2>2, <2>3, <2>5, <2>6
<1> QED
  BY <1>1, <1>2, <1>3, <1>4

(***************************************************************************)
(* What the records and the pass know of the holding folders.              *)
(***************************************************************************)
LEMMA HeldByIs == \A o : HeldBy(o) = {d.dst : d \in Range(o.done)}
BY DEF HeldBy, Range

InHold(p) == p.at \in {"held", "beside"}

\* Nothing comes into a holding folder, or is said to be in one or in the bin.
LEMMA HeldRest ==
    ASSUME HeldOK, SameStores, run'.first = run.first, run'.job = run.job, past' = past, since' = since,
           serial \in Nat, serial' \in Nat, serial <= serial',
           \A d \in Range(run'.outcome.done) \ Range(run.outcome.done) : run.job = "delete" => d.dst \notin Stores,
           Range(run.outcome.done) \subseteq Range(run'.outcome.done),
           \A p \in DOMAIN disk' \ DOMAIN disk : ~InHold(p)
    PROVE  HeldOK'
<1>1. RunNumbers' = RunNumbers
  <2>1. CASE run.job = "delete"
    <3>1. {e \in Range(run'.outcome.done) : e.dst \in Stores} = {e \in Range(run.outcome.done) : e.dst \in Stores}
      BY <2>1
    <3>2. Numbers(run.outcome)' = Numbers(run.outcome)
      BY <3>1 DEF Numbers, SameStores
    <3>3. Numbers(run.first)' = Numbers(run.first)
      BY DEF Numbers
    <3> QED
      BY <2>1, <3>2, <3>3 DEF RunNumbers
  <2>2. CASE run.job # "delete"
    BY <2>2 DEF RunNumbers
  <2> QED
    BY <2>1, <2>2
<1>2. \A i \in DOMAIN past : Numbers(past[i])' = Numbers(past[i])
  BY DEF Numbers
<1>3. ASSUME NEW o, Known(o) PROVE Known(o)'
  BY <1>3 DEF Known, InHold, HeldBy
<1>4. Known(run.outcome)'
  <2>1. HeldBy(run.outcome) \subseteq HeldBy(run'.outcome)
    BY HeldByIs
  <2>2. Known(run.outcome)
    BY DEF HeldOK
  <2>3. run'.outcome.stagings = run.outcome.stagings
    BY DEF SameStores
  <2>4. ASSUME NEW p \in DOMAIN disk', InHold(p), p.no \in run'.outcome.stagings PROVE p \in HeldBy(run'.outcome)
    <3>1. p \in DOMAIN disk
      BY <2>4
    <3> QED
      BY <2>1, <2>2, <2>3, <2>4, <3>1 DEF Known, InHold
  <2> QED
    BY <2>4 DEF Known, InHold, HeldBy
<1>5. Known(run.first)'
  <2>1. Known(run.first)
    BY DEF HeldOK
  <2> QED
    BY <2>1 DEF Known, InHold, HeldBy
<1>6. \A o \in Range(past)' : Known(o)'
  BY <1>3 DEF HeldOK, Range
<1>7. \A o \in ({run.outcome, run.first} \union Range(past))' : Known(o)'
  BY <1>4, <1>5, <1>6
<1>8. \A k \in RunNumbers' : k \in Nat /\ since' <= k /\ k < serial'
  BY <1>1 DEF HeldOK
<1>9. \A i \in DOMAIN past' : \A k \in Numbers(past[i])' : k \in Nat /\ since' <= k /\ k < serial' /\ k \notin RunNumbers'
  BY <1>1, <1>2 DEF HeldOK
<1>10. \A i, j \in DOMAIN past' : i # j => Numbers(past[i])' \intersect Numbers(past[j])' = {}
  BY <1>2 DEF HeldOK
<1>11. /\ run'.outcome.stagings = IF run'.batch = 0 THEN {} ELSE {run'.batch}
       /\ run'.job # "delete" => run'.batch = 0 /\ run'.first.stagings = {}
       /\ run'.batch \notin run'.first.stagings
  BY DEF HeldOK, SameStores
<1> QED
  BY <1>7, <1>8, <1>9, <1>10, <1>11 DEF HeldOK

\* An entry goes into the holding folder of this pass, or into the bin.
LEMMA HeldMore ==
    ASSUME DiskOK, HeldOK, NEW h, NEW from, NEW to, NEW d, Lands(h, from, to, d), run.job = "delete",
           run'.first = run.first, run'.job = run.job, past' = past, since' = since
    PROVE  HeldOK'
<1>1. /\ Exists(from) /\ ~Exists(to) /\ disk' = Moved(from, to) /\ d.dst = to /\ to \in Stores
      /\ Range(run'.outcome.done) = Range(run.outcome.done) \union {d}
      /\ \/ to.at = "bin" /\ to.no = serial /\ serial' = serial + 1 /\ SameStores
         \/ /\ to.no = run'.batch /\ run'.outcome.stagings = {run'.batch}
            /\ \/ run.batch = 0 /\ run'.batch = serial /\ serial' = serial + 1
               \/ run.batch # 0 /\ run'.batch = run.batch /\ serial' = serial
  BY DEF Lands, Leaves
<1>2. serial \in Nat /\ since <= serial /\ since \in Nat /\ 1 <= since /\ \A p \in DOMAIN disk : p.at # "folder" => p.no < serial
  BY DEF DiskOK
<1>3. /\ run.outcome.stagings = (IF run.batch = 0 THEN {} ELSE {run.batch}) /\ run.batch \notin run.first.stagings
      /\ \A k \in RunNumbers : k \in Nat /\ since <= k /\ k < serial
      /\ \A i \in DOMAIN past : \A k \in Numbers(past[i]) : k \in Nat /\ since <= k /\ k < serial /\ k \notin RunNumbers
      /\ \A i, j \in DOMAIN past : i # j => Numbers(past[i]) \intersect Numbers(past[j]) = {}
      /\ \A o \in {run.outcome, run.first} \union Range(past) : Known(o)
  BY DEF HeldOK
<1>4. RunNumbers = Numbers(run.outcome) \union Numbers(run.first) /\ run.first.stagings \subseteq RunNumbers
      /\ run.outcome.stagings \subseteq RunNumbers
  BY DEF RunNumbers, Numbers
<1>5. run'.outcome.stagings = IF run'.batch = 0 THEN {} ELSE {run'.batch}
  <2>1. CASE SameStores
    BY <1>3, <2>1 DEF SameStores
  <2>2. CASE run'.outcome.stagings = {run'.batch} /\ run'.batch # 0
    BY <2>2
  <2>3. \/ SameStores
        \/ run'.outcome.stagings = {run'.batch} /\ run'.batch # 0
    BY <1>1, <1>2
  <2> QED
    BY <2>1, <2>2, <2>3
<1>6. run'.outcome.stagings \subseteq run.outcome.stagings \union {to.no}
  BY <1>1 DEF SameStores
<1>7. RunNumbers' \subseteq RunNumbers \union {to.no}
  <2>1. Numbers(run.outcome)' \subseteq Numbers(run.outcome) \union {to.no}
    BY <1>1, <1>6 DEF Numbers
  <2>2. Numbers(run.first)' = Numbers(run.first)
    BY DEF Numbers
  <2> QED
    BY <1>4, <2>1, <2>2 DEF RunNumbers
<1>8. to.no \in RunNumbers \/ (to.no = serial /\ serial' = serial + 1)
  BY <1>1, <1>3, <1>4
<1>9. serial' \in Nat /\ serial <= serial'
  BY <1>1, <1>2
<1>10. \A k \in RunNumbers' : k \in Nat /\ since' <= k /\ k < serial'
  BY <1>2, <1>3, <1>7, <1>8, <1>9
<1>11. \A i \in DOMAIN past : Numbers(past[i])' = Numbers(past[i])
  BY DEF Numbers
<1>12. \A i \in DOMAIN past' : \A k \in Numbers(past[i])' : k \in Nat /\ since' <= k /\ k < serial' /\ k \notin RunNumbers'
  <2> SUFFICES ASSUME NEW i \in DOMAIN past, NEW k \in Numbers(past[i])
               PROVE k \in Nat /\ since' <= k /\ k < serial' /\ k \notin RunNumbers'
    BY <1>11
  <2>1. k \in Nat /\ since <= k /\ k < serial /\ k \notin RunNumbers
    BY <1>3
  <2>2. k # to.no
    BY <1>2, <1>8, <2>1
  <2> QED
    BY <1>2, <1>7, <1>9, <2>1, <2>2
<1>13. \A i, j \in DOMAIN past' : i # j => Numbers(past[i])' \intersect Numbers(past[j])' = {}
  BY <1>3, <1>11
<1>14. run'.batch \notin run'.first.stagings
  BY <1>1, <1>2, <1>3, <1>4 DEF SameStores
<1>15. /\ DOMAIN disk' = (DOMAIN disk \ {from}) \union {to}
  BY <1>1, MovedIs
<1>16. Known(run.outcome)'
  <2>1. HeldBy(run.outcome) \subseteq HeldBy(run'.outcome) /\ to \in HeldBy(run'.outcome)
    BY <1>1, HeldByIs
  <2>2. Known(run.outcome)
    BY <1>3
  <2>3. ASSUME NEW p \in DOMAIN disk', InHold(p), p.no \in run'.outcome.stagings PROVE p \in HeldBy(run'.outcome)
    <3>1. CASE p = to
      BY <2>1, <3>1
    <3>2. CASE p # to
      <4>1. p \in DOMAIN disk /\ p.no < serial
        BY <1>2, <1>15, <2>3, <3>2 DEF InHold
      <4>2. p.no \in run.outcome.stagings
        <5>1. p.no # serial
          BY <1>2, <4>1
        <5> QED
          BY <1>1, <1>3, <2>3, <5>1 DEF SameStores
      <4> QED
        BY <2>1, <2>2, <2>3, <4>1, <4>2 DEF Known, InHold
    <3> QED
      BY <3>1, <3>2
  <2> QED
    BY <2>3 DEF Known, InHold, HeldBy
<1>17. ASSUME NEW o, Known(o), InHold(to) => to.no \notin o.stagings PROVE Known(o)'
  <2>1. ASSUME NEW p \in DOMAIN disk', InHold(p), p.no \in o.stagings PROVE p \in HeldBy(o)
    <3>1. p # to
      BY <1>17, <2>1
    <3>2. p \in DOMAIN disk
      BY <1>15, <2>1, <3>1
    <3> QED
      BY <1>17, <2>1, <3>2 DEF Known, InHold
  <2> QED
    BY <2>1 DEF Known, InHold, HeldBy
<1>18. Known(run.first)'
  <2>1. InHold(to) => to.no \notin run.first.stagings
    BY <1>1, <1>14 DEF InHold
  <2>2. Known(run.first)
    BY <1>3
  <2>3. ASSUME NEW p \in DOMAIN disk', InHold(p), p.no \in run.first.stagings PROVE p \in HeldBy(run.first)
    <3>1. p # to
      BY <2>1, <2>3
    <3>2. p \in DOMAIN disk
      BY <1>15, <2>3, <3>1
    <3> QED
      BY <2>2, <2>3, <3>2 DEF Known, InHold
  <2> QED
    BY <2>3 DEF Known, InHold, HeldBy
<1>19. \A o \in Range(past)' : Known(o)'
  <2> SUFFICES ASSUME NEW i \in DOMAIN past PROVE Known(past[i])'
    BY DEF Range
  <2>1. Known(past[i])
    BY <1>3 DEF Range
  <2>2. to.no \notin past[i].stagings
    <3>1. past[i].stagings \subseteq Numbers(past[i])
      BY DEF Numbers
    <3> QED
      BY <1>2, <1>3, <1>8, <3>1
  <2>3. ASSUME NEW p \in DOMAIN disk', InHold(p), p.no \in past[i].stagings PROVE p \in HeldBy(past[i])
    <3>1. p # to
      BY <2>2, <2>3
    <3>2. p \in DOMAIN disk
      BY <1>15, <2>3, <3>1
    <3> QED
      BY <2>1, <2>3, <3>2 DEF Known, InHold
  <2> QED
    BY <2>3 DEF Known, InHold, HeldBy
<1> QED
  BY <1>5, <1>10, <1>12, <1>13, <1>14, <1>16, <1>18, <1>19 DEF HeldOK

\* What a pass puts into holding folders and the bin, it tells of: HeldOK is kept by its actions.
LEMMA PassHeld ==
    ASSUME RunInv(run, serial), DiskOK, HeldOK,
           \/ Stays
           \/ \E h, to : Shifts(h, to)
           \/ \E h, from, to, d : Lands(h, from, to, d)
           \/ \E h, d : GoneForGood(h, d),
           run'.first = run.first, run'.job = run.job, past' = past, since' = since, made' = made
    PROVE  HeldOK'
<1>0. serial \in Nat /\ serial' \in Nat /\ serial <= serial'
  BY PassDisk DEF DiskOK
<1>1. CASE Stays
  <2>1. disk' = disk /\ SameStores /\ Range(run'.outcome.done) = Range(run.outcome.done)
    BY <1>1 DEF Stays, Same
  <2> QED
    BY <1>0, <2>1, HeldRest
<1>2. CASE \E h, to : Shifts(h, to)
  <2>1. PICK h : \E to : Shifts(h, to)
    BY <1>2
  <2>2. PICK to : Shifts(h, to)
    BY <2>1
  <2>3. /\ Exists(h.from) /\ ~Exists(to) /\ disk' = Moved(h.from, to)
        /\ SameStores /\ Range(run'.outcome.done) = Range(run.outcome.done)
        /\ to \in Folder \union Asides
    BY <2>2 DEF Shifts
  <2>4. DOMAIN disk' = (DOMAIN disk \ {h.from}) \union {to}
    BY <2>3, MovedIs
  <2>5. ~InHold(to)
    BY <2>3, FolderPlaces DEF InHold, Asides
  <2>6. \A p \in DOMAIN disk' \ DOMAIN disk : ~InHold(p)
    BY <2>4, <2>5
  <2> QED
    BY <1>0, <2>3, <2>6, HeldRest
<1>3. CASE \E h, from, to, d : Lands(h, from, to, d)
  <2>1. PICK h : \E from, to, d : Lands(h, from, to, d)
    BY <1>3
  <2>2. PICK from : \E to, d : Lands(h, from, to, d)
    BY <2>1
  <2>3. PICK to : \E d : Lands(h, from, to, d)
    BY <2>2
  <2>4. PICK d : Lands(h, from, to, d)
    BY <2>3
  <2>5. CASE run.job = "delete"
    BY <2>4, <2>5, HeldMore
  <2>6. CASE run.job # "delete"
    <3>1. /\ Exists(from) /\ ~Exists(to) /\ disk' = Moved(from, to) /\ to \in Folder
          /\ SameStores /\ Range(run'.outcome.done) = Range(run.outcome.done) \union {d}
      BY <2>4, <2>6 DEF Lands, Leaves
    <3>2. DOMAIN disk' = (DOMAIN disk \ {from}) \union {to}
      BY <3>1, MovedIs
    <3>3. \A p \in DOMAIN disk' \ DOMAIN disk : ~InHold(p)
      BY <3>1, <3>2, FolderPlaces DEF InHold
    <3> QED
      BY <1>0, <2>6, <3>1, <3>3, HeldRest
  <2> QED
    BY <2>5, <2>6
<1>4. CASE \E h, d : GoneForGood(h, d)
  <2>1. PICK h : \E d : GoneForGood(h, d)
    BY <1>4
  <2>2. PICK d : GoneForGood(h, d)
    BY <2>1
  <2>3. /\ disk' = Without({h.from}) /\ SameStores /\ d.dst = Nowhere
        /\ Range(run'.outcome.done) = Range(run.outcome.done) \union {d}
    BY <2>2 DEF GoneForGood, Leaves
  <2>4. DOMAIN disk' = DOMAIN disk \ {h.from}
    BY <2>3, WithoutIs
  <2>5. \A x \in Range(run'.outcome.done) \ Range(run.outcome.done) : x.dst \notin Stores
    BY <2>3, FolderPlaces
  <2>6. \A p \in DOMAIN disk' \ DOMAIN disk : ~InHold(p)
    BY <2>4
  <2> QED
    BY <1>0, <2>3, <2>5, <2>6, HeldRest
<1> QED
  BY <1>1, <1>2, <1>3, <1>4

\* Nothing is held of what nothing was done of.
LEMMA NoneHeld == /\ Numbers(NoOutcome) = {} /\ NoOutcome.stagings = {} /\ NoOutcome.done = <<>> /\ NoOutcome.failed = <<>>
                  /\ Range(NoOutcome.done) = {} /\ Range(NoOutcome.failed) = {} /\ Known(NoOutcome) /\ Known(NoOutcome)'
BY NoneListed DEF NoOutcome, Numbers, Known

\* A second pass begins.
LEMMA AcceptsHeld ==
    ASSUME RunInv(run, serial), DiskOK, HeldOK, Accepts, past' = past, since' = since
    PROVE  HeldOK'
<1>1. /\ run'.outcome = NoOutcome /\ run'.first = run.outcome /\ run'.batch = 0 /\ run'.job = run.job
      /\ disk' = disk /\ serial' = serial /\ serial \in Nat
  BY AcceptsKeeps DEF Accepts, Same, DiskOK
<1>2. RunNumbers' \subseteq RunNumbers
  <2>1. Numbers(run.outcome)' = Numbers(NoOutcome) /\ Numbers(run.first)' = Numbers(run.outcome)
    BY <1>1 DEF Numbers
  <2> QED
    BY <1>1, <2>1, NoneHeld DEF RunNumbers
<1>3. ASSUME NEW o, Known(o) PROVE Known(o)'
  BY <1>1, <1>3 DEF Known, HeldBy
<1>4. Known(run.outcome)' /\ Known(run.first)'
  <2>1. Known(NoOutcome)'
    BY NoneHeld
  <2>2. Known(run.outcome)
    BY DEF HeldOK
  <2> QED
    BY <1>1, <2>1, <2>2 DEF Known, HeldBy
<1>5. \A o \in Range(past)' : Known(o)'
  BY <1>3 DEF HeldOK, Range
<1>6. \A i \in DOMAIN past : Numbers(past[i])' = Numbers(past[i])
  BY DEF Numbers
<1>7. /\ run'.outcome.stagings = IF run'.batch = 0 THEN {} ELSE {run'.batch}
      /\ run'.job # "delete" => run'.batch = 0 /\ run'.first.stagings = {}
      /\ run'.batch \notin run'.first.stagings
  BY <1>1, NoneHeld DEF HeldOK
<1>8. \A k \in RunNumbers' : k \in Nat /\ since' <= k /\ k < serial'
  BY <1>1, <1>2 DEF HeldOK
<1>9. \A i \in DOMAIN past' : \A k \in Numbers(past[i])' : k \in Nat /\ since' <= k /\ k < serial' /\ k \notin RunNumbers'
  BY <1>1, <1>2, <1>6 DEF HeldOK
<1>10. \A i, j \in DOMAIN past' : i # j => Numbers(past[i])' \intersect Numbers(past[j])' = {}
  BY <1>6 DEF HeldOK
<1> QED
  BY <1>4, <1>5, <1>7, <1>8, <1>9, <1>10 DEF HeldOK

\* Nothing is held yet of a pass that begins, or where none is under way.
LEMMA HeldNew ==
    ASSUME run'.outcome = NoOutcome, run'.first = NoOutcome, run'.batch = 0,
           \A i \in DOMAIN past' : Known(past[i])' /\ \A k \in Numbers(past[i])' : k \in Nat /\ since' <= k /\ k < serial',
           \A i, j \in DOMAIN past' : i # j => Numbers(past[i])' \intersect Numbers(past[j])' = {}
    PROVE  HeldOK'
<1>1. RunNumbers' = {}
  <2>1. Numbers(run.outcome)' = Numbers(NoOutcome) /\ Numbers(run.first)' = Numbers(NoOutcome)
    BY DEF Numbers
  <2> QED
    BY <2>1, NoneHeld DEF RunNumbers
<1>2. Known(run.outcome)' /\ Known(run.first)'
  BY NoneHeld DEF Known
<1>3. \A o \in Range(past)' : Known(o)'
  BY DEF Range
<1>4. /\ run'.outcome.stagings = IF run'.batch = 0 THEN {} ELSE {run'.batch}
      /\ run'.job # "delete" => run'.batch = 0 /\ run'.first.stagings = {}
      /\ run'.batch \notin run'.first.stagings
  BY NoneHeld
<1> QED
  BY <1>1, <1>2, <1>3, <1>4 DEF HeldOK

(***************************************************************************)
(* The invariant, and what the user and the ends of things do to it.       *)
(***************************************************************************)
Inv == RunInv(run, serial) /\ PhaseOK /\ HistoryOK /\ DiskOK /\ HeldOK

\* What the idle pass is made of.
LEMMA IdleIs ==
    /\ Idle.job = "none" /\ Idle.doing = "do" /\ Idle.pass = 1 /\ Idle.phase = "work" /\ Idle.plan = <<>>
    /\ Idle.asked = <<>> /\ Idle.todo = <<>> /\ Idle.ready = <<>> /\ Idle.outcome = NoOutcome
    /\ Idle.first = NoOutcome /\ Idle.batch = 0 /\ Idle.cancelled = FALSE /\ Idle \in Runs
<1>1. /\ Idle.job = "none" /\ Idle.doing = "do" /\ Idle.pass = 1 /\ Idle.phase = "work" /\ Idle.plan = <<>>
      /\ Idle.asked = <<>> /\ Idle.todo = <<>> /\ Idle.ready = <<>> /\ Idle.outcome = NoOutcome
      /\ Idle.first = NoOutcome /\ Idle.batch = 0 /\ Idle.cancelled = FALSE
      /\ Idle = [job |-> Idle.job, doing |-> Idle.doing, pass |-> Idle.pass, phase |-> Idle.phase, plan |-> Idle.plan,
                 asked |-> Idle.asked, todo |-> Idle.todo, ready |-> Idle.ready, outcome |-> Idle.outcome,
                 first |-> Idle.first, batch |-> Idle.batch, cancelled |-> Idle.cancelled]
  BY DEF Idle, Pass
<1>2. NoOutcome \in Outcomes /\ <<>> \in Seq(Items)
  BY NoneListed DEF NoOutcome, Outcomes
<1> HIDE DEF Idle
<1>3. Idle.cancelled \in BOOLEAN
  BY <1>1, Zenon
<1>4. Idle \in Runs
  <2>1. /\ Idle.plan \in Seq(Items) /\ Idle.asked \in Seq(Items) /\ Idle.todo \in Seq(Items) /\ Idle.ready \in Seq(Items)
        /\ Idle.outcome \in Outcomes /\ Idle.first \in Outcomes
    BY <1>1, <1>2
  <2>2. /\ Idle.job \in {"none", "rename", "delete", "restore"} /\ Idle.doing \in {"do", "undo", "redo"}
        /\ Idle.pass \in {1, 2} /\ Idle.phase \in {"aside", "work", "bin"} /\ Idle.batch \in Nat
    BY <1>1
  <2> QED
    BY <1>1, <1>3, <2>1, <2>2 DEF Runs
<1> QED
  BY <1>1, <1>4

\* The idle pass is in order.
LEMMA IdleKeeps == ASSUME NEW n \in Nat PROVE RunInv(Idle, n)
<1>1. \A job : Asks(job, <<>>) /\ Plan(job, <<>>)
  BY NoneListed DEF Asks, Plan
<1>2. Worked(Idle.job, Idle.asked, Idle.outcome) /\ Waits(Idle) /\ Waiting(Idle) = Range(Idle.asked)
  BY <1>1, IdleIs, FreshPass
<1>3. Range(Idle.outcome.failed) = {} /\ Range(Idle.asked) = {}
  BY IdleIs, NoneListed DEF NoOutcome
<1>4. Phased(Idle)
  BY IdleIs DEF Phased
<1>5. Below(Idle, n)
  BY <1>2, <1>3 DEF Below
<1> QED
  BY <1>1, <1>2, <1>4, <1>5, IdleIs DEF RunInv, RunOK

\* Nothing is under way, and nothing comes into a holding folder.
LEMMA MeddlesKeeps ==
    ASSUME Inv, UNCHANGED <<serial, run, historyVars, begun>>, DiskOK', \A p \in DOMAIN disk' \ DOMAIN disk : ~InHold(p)
    PROVE  Inv'
<1>1. RunInv(run', serial') /\ PhaseOK'
  BY DEF Inv, PhaseOK
<1>2. HistoryOK'
  BY DEF Inv, HistoryOK, historyVars
<1>3. serial \in Nat /\ serial <= serial
  BY DEF Inv, DiskOK
<1>4. HeldOK'
  BY <1>3, HeldRest DEF Inv, SameStores, historyVars
<1> QED
  BY <1>1, <1>2, <1>4 DEF Inv

\* The user makes an entry.
LEMMA MakesKeeps ==
    ASSUME Inv, Makes
    PROVE  Inv' /\ (NothingLost => NothingLost')
<1>1. PICK name \in Names : ~Exists(In(name)) /\ made' = made + 1 /\ Meddles(With(In(name), made')) /\ UNCHANGED <<given, emptied>>
  BY DEF Makes
<1> DEFINE to == In(name)
<1>2. /\ disk' = With(to, made') /\ UNCHANGED <<serial, run, historyVars, begun>> /\ given' = given
  BY <1>1 DEF Meddles
<1>3. to \in Folder /\ to \in Places /\ to.at = "folder" /\ to \notin DOMAIN disk
  BY <1>1, FolderPlaces DEF Folder, Exists
<1> HIDE DEF to
<1>4. DOMAIN disk' = DOMAIN disk \union {to} /\ disk'[to] = made + 1 /\ \A p \in DOMAIN disk : disk'[p] = disk[p]
  BY <1>1, <1>2, <1>3 DEF With
<1>5. DiskOK
  BY DEF Inv
<1>6. made \in Nat /\ \A p \in DOMAIN disk : disk[p] \in 1..made
  BY <1>5 DEF DiskOK
<1>7. \A p, q \in DOMAIN disk' : disk'[p] = disk'[q] => p = q
  BY <1>4, <1>5, <1>6 DEF DiskOK
<1>8. \A p \in DOMAIN disk' : /\ p \in Places /\ disk'[p] \in 1..made' /\ (p.at = "folder" => p \in Folder)
                              /\ p.at # "folder" => p.no < serial
  BY <1>1, <1>3, <1>4, <1>5, <1>6 DEF DiskOK
<1>9. given' \subseteq 1..made' /\ made' \in Nat
  BY <1>1, <1>2, <1>5, <1>6 DEF DiskOK
<1>10. DiskOK'
  BY <1>2, <1>5, <1>7, <1>8, <1>9 DEF DiskOK, historyVars
<1>11. \A p \in DOMAIN disk' \ DOMAIN disk : ~InHold(p)
  BY <1>3, <1>4 DEF InHold
<1>12. Inv'
  BY <1>2, <1>10, <1>11, MeddlesKeeps
<1>13. ASSUME NothingLost PROVE NothingLost'
  <2>1. AllIds \union {made + 1} \subseteq AllIds'
    BY <1>3, <1>4 DEF AllIds, IdsAt
  <2>2. 1..made' \subseteq 1..made \union {made + 1}
    BY <1>1, <1>6
  <2> QED
    BY <1>2, <1>13, <2>1, <2>2 DEF NothingLost, AllIds
<1> QED
  BY <1>12, <1>13

\* What the user takes off the disk he gives up.
LEMMA GivesUp ==
    ASSUME Inv, NEW S, disk' = Without(S), given' = given \union IdsAt(S),
           UNCHANGED <<serial, run, historyVars, begun, made>>
    PROVE  Inv' /\ (NothingLost => NothingLost')
<1>1. given' \subseteq 1..made
  BY IdsAreMade DEF Inv, DiskOK
<1>2. DiskOK'
  BY <1>1, WithoutKeeps DEF Inv, historyVars
<1>3. DOMAIN disk' = DOMAIN disk \ S /\ AllIds \subseteq AllIds' \union IdsAt(S)
  BY WithoutIs
<1>4. \A p \in DOMAIN disk' \ DOMAIN disk : ~InHold(p)
  BY <1>3
<1>5. Inv'
  BY <1>2, <1>4, MeddlesKeeps
<1> QED
  BY <1>3, <1>5 DEF NothingLost, AllIds

\* He takes one away, or empties the bin.
LEMMA RemovesKeeps ==
    ASSUME Inv, Removes \/ EmptiesBin
    PROVE  Inv' /\ (NothingLost => NothingLost')
<1>1. CASE Removes
  <2>1. PICK p \in OnDisk : given' = given \union {disk[p]} /\ Meddles(Without({p})) /\ UNCHANGED userVars
    BY <1>1 DEF Removes
  <2>2. IdsAt({p}) = {disk[p]}
    BY DEF IdsAt, OnDisk
  <2> QED
    BY <2>1, <2>2, GivesUp DEF Meddles, userVars
<1>2. CASE EmptiesBin
  <2> DEFINE bin == {p \in DOMAIN disk : p.at = "bin"}
  <2>1. given' = given \union IdsAt(bin) /\ Meddles(Without(bin)) /\ made' = made
    BY <1>2 DEF EmptiesBin
  <2> HIDE DEF bin
  <2> QED
    BY <2>1, GivesUp DEF Meddles
<1> QED
  BY <1>1, <1>2

\* What is purged is lost, unless the user had given it up.
LEMMA PurgesKeeps ==
    ASSUME Inv, Purges
    PROVE  Inv' /\ ("leftovers purged" \notin Circumstances /\ NothingLost => NothingLost')
<1> DEFINE old == {p \in DOMAIN disk : p.at = "held" /\ p.no < since}
<1>1. /\ "leftovers purged" \in Circumstances \/ IdsAt(old) \subseteq given
      /\ disk' = Without(old) /\ UNCHANGED <<serial, run, given, historyVars, userVars, begun>>
  BY DEF Purges
<1> HIDE DEF old
<1>2. given' \subseteq 1..made
  BY <1>1 DEF Inv, DiskOK
<1>3. DiskOK'
  BY <1>1, <1>2, WithoutKeeps DEF Inv, historyVars, userVars
<1>4. DOMAIN disk' = DOMAIN disk \ old /\ AllIds \subseteq AllIds' \union IdsAt(old)
  BY <1>1, WithoutIs
<1>5. \A p \in DOMAIN disk' \ DOMAIN disk : ~InHold(p)
  BY <1>4
<1>6. Inv'
  BY <1>1, <1>3, <1>5, MeddlesKeeps
<1> QED
  BY <1>1, <1>4, <1>6 DEF NothingLost, AllIds, userVars

\* The oldest record is forgotten, and what it held goes: it tells of all that was in its folders.
LEMMA ForgetsKeeps ==
    ASSUME Inv, Forgets
    PROVE  Inv' /\ (NothingLost => NothingLost')
<1> DEFINE record == Head(past)
           held   == HeldIn(record.stagings)
<1>1. /\ NoRun /\ past # <<>>
      /\ given' = given \union IF record.job = "delete" THEN IdsAt({record.done[i].dst : i \in DOMAIN record.done} \intersect held) ELSE {}
      /\ disk' = Without(held) /\ past' = Tail(past)
      /\ UNCHANGED <<serial, run, undone, since, userVars, begun>>
  BY DEF Forgets
<1>2. past \in Seq(Records) /\ DiskOK /\ RunInv(run, serial) /\ HeldOK /\ \A rec \in Range(past) : RecordOK(rec) /\ Known(rec)
  BY DEF Inv, HistoryOK, HeldOK
<1>3. /\ Tail(past) \in Seq(Records) /\ Range(Tail(past)) \subseteq Range(past) /\ record \in Range(past)
      /\ \A i \in DOMAIN Tail(past) : Tail(past)[i] = past[i + 1] /\ i + 1 \in DOMAIN past /\ i \in Nat
  BY <1>1, <1>2, TailIs
<1>4. RecordOK(record) /\ Known(record)
  BY <1>2, <1>3
<1> HIDE DEF record
<1>5. record.job \in {"rename", "delete"}
  BY <1>4 DEF RecordOK, Records
<1>6. held \subseteq HeldBy(record)
  BY <1>4 DEF HeldIn, Known
<1>7. given' = given \union IdsAt(held)
  <2>1. CASE record.job = "delete"
    <3>1. {record.done[i].dst : i \in DOMAIN record.done} \intersect held = held
      BY <1>6 DEF HeldBy
    <3> QED
      BY <1>1, <2>1, <3>1
  <2>2. CASE record.job = "rename"
    <3>1. held = {}
      BY <1>4, <2>2 DEF RecordOK, HeldIn
    <3>2. IdsAt(held) = {}
      BY <3>1 DEF IdsAt
    <3> QED
      BY <1>1, <2>2, <3>2
  <2> QED
    BY <1>5, <2>1, <2>2
<1> HIDE DEF held
<1>8. run = Idle /\ run' = Idle
  BY <1>1, <1>2 DEF RunInv, RunOK, NoRun
<1>9. given' \subseteq 1..made
  BY <1>2, <1>7, IdsAreMade DEF DiskOK
<1>10. DiskOK'
  BY <1>1, <1>2, <1>9, WithoutKeeps DEF userVars
<1>11. DOMAIN disk' = DOMAIN disk \ held /\ AllIds \subseteq AllIds' \union IdsAt(held)
  BY <1>1, WithoutIs
<1>12. RunInv(run', serial') /\ PhaseOK'
  BY <1>1, <1>2, <1>8, IdleIs DEF PhaseOK
<1>13. HistoryOK'
  <2>1. \A rec \in Range(past') : RecordOK(rec)
    BY <1>1, <1>2, <1>3
  <2>2. run'.doing = "do"
    BY <1>8, IdleIs
  <2>3. undone \in Seq(Records) /\ (\A rec \in Range(undone) : RecordOK(rec)) /\ begun \in SUBSET (Names \X Nat)
    BY DEF Inv, HistoryOK
  <2> QED
    BY <1>1, <1>3, <2>1, <2>2, <2>3 DEF HistoryOK
<1>14. HeldOK'
  <2>1. \A i \in DOMAIN past' : Known(past'[i]) /\ Numbers(past'[i]) = Numbers(past[i + 1]) /\ i + 1 \in DOMAIN past
    BY <1>1, <1>2, <1>3 DEF Range
  <2>2. ASSUME NEW o, Known(o) PROVE Known(o)'
    BY <1>11, <2>2 DEF Known, HeldBy
  <2>3. \A i \in DOMAIN past' : Known(past[i])'
    <3> TAKE i \in DOMAIN past'
    <3>1. Known(past'[i])
      BY <2>1
    <3> QED
      BY <1>11, <3>1 DEF Known, HeldBy
  <2>4. \A i \in DOMAIN past' : Numbers(past[i])' = Numbers(past[i + 1])
    BY <2>1 DEF Numbers
  <2>5. \A i \in DOMAIN past' : \A k \in Numbers(past[i])' : k \in Nat /\ since' <= k /\ k < serial'
    BY <1>1, <1>2, <2>1, <2>4 DEF HeldOK
  <2>6. \A i, j \in DOMAIN past' : i # j => Numbers(past[i])' \intersect Numbers(past[j])' = {}
    <3> SUFFICES ASSUME NEW i \in DOMAIN past', NEW j \in DOMAIN past', i # j
                 PROVE  Numbers(past[i + 1]) \intersect Numbers(past[j + 1]) = {}
      BY <2>4
    <3>1. i + 1 # j + 1
      BY <1>1, <1>3
    <3> QED
      BY <1>2, <2>1, <3>1 DEF HeldOK
  <2> QED
    BY <1>8, <2>3, <2>5, <2>6, HeldNew, IdleIs
<1> QED
  BY <1>1, <1>7, <1>10, <1>11, <1>12, <1>13, <1>14 DEF Inv, NothingLost, AllIds, userVars

\* The app is killed: no record is left, and what is in holding folders is of a session before this one.
LEMMA KilledKeeps ==
    ASSUME Inv, Killed
    PROVE  Inv' /\ (NothingLost => NothingLost')
<1> DEFINE told == UNION {HeldBy(past[i]) : i \in DOMAIN past}
                   \union IF run.job = "delete" THEN HeldBy(Own) ELSE {}
           kept == {p \in told : p.at \in {"held", "beside"}}
<1>1. /\ given' = given \union IdsAt(kept) /\ past' = <<>> /\ undone' = <<>> /\ run' = Idle /\ since' = serial
      /\ UNCHANGED <<disk, serial, userVars, begun>>
  BY DEF Killed
<1> HIDE DEF kept
<1>2. DiskOK
  BY DEF Inv
<1>3. given' \subseteq 1..made
  BY <1>1, <1>2, IdsAreMade DEF DiskOK
<1>4. DiskOK'
  BY <1>1, <1>2, <1>3 DEF DiskOK, userVars
<1>5. RunInv(run', serial') /\ PhaseOK'
  BY <1>1, <1>2, IdleIs, IdleKeeps DEF PhaseOK, DiskOK
<1>6. Range(past') = {} /\ Range(undone') = {} /\ past' \in Seq(Records) /\ undone' \in Seq(Records) /\ DOMAIN past' = {}
  BY <1>1, NoneListed
<1>7. HistoryOK'
  BY <1>1, <1>6, IdleIs DEF HistoryOK, Inv
<1>8. HeldOK'
  BY <1>1, <1>6, HeldNew, IdleIs
<1> QED
  BY <1>1, <1>4, <1>5, <1>7, <1>8 DEF Inv, NothingLost, IdsAt, userVars

(***************************************************************************)
(* Operations begin and end.                                               *)
(***************************************************************************)
LEMMA LooksTyped == ASSUME DiskOK PROVE Looks(disk) \in SUBSET (Names \X Nat)
<1>1. ASSUME NEW p \in DOMAIN disk, p.at = "folder" PROVE <<p.name, disk[p]>> \in Names \X Nat
  <2>1. p \in Folder /\ disk[p] \in Nat
    BY <1>1 DEF DiskOK
  <2> QED
    BY <2>1, FolderPlaces
<1> QED
  BY <1>1 DEF Looks

\* What is held stays as it is where nothing is moved.
LEMMA HeldAsItWas ==
    ASSUME HeldOK, UNCHANGED <<disk, serial, past, since>>
    PROVE  /\ \A i \in DOMAIN past' : Known(past[i])' /\ \A k \in Numbers(past[i])' : k \in Nat /\ since' <= k /\ k < serial'
           /\ \A i, j \in DOMAIN past' : i # j => Numbers(past[i])' \intersect Numbers(past[j])' = {}
<1>1. \A i \in DOMAIN past : Numbers(past[i])' = Numbers(past[i])
  BY DEF Numbers
<1>2. \A i \in DOMAIN past : Known(past[i])'
  <2> TAKE i \in DOMAIN past
  <2>1. Known(past[i])
    BY DEF HeldOK, Range
  <2> QED
    BY <2>1 DEF Known, HeldBy
<1> QED
  BY <1>1, <1>2 DEF HeldOK

\* An operation, an undo or a redo begins.
LEMMA BeginsKeeps ==
    ASSUME Inv, NEW job \in {"rename", "delete", "restore"}, NEW doing \in {"do", "undo", "redo"},
           NEW plan \in Seq(Items), Plan(job, plan), job = "restore" <=> (job # "rename" /\ doing = "undo"),
           Begins(Pass(job, doing, plan)),
           doing = "undo" => past # <<>> /\ job = UndoJob(Last(past)) /\ plan = UndoPlan(Last(past)),
           doing = "redo" => undone # <<>> /\ job = Head(undone).job /\ plan = AgainPlan(Head(undone))
    PROVE  Inv' /\ (NothingLost => NothingLost')
<1>1. /\ run' = Onward(Pass(job, doing, plan)) /\ begun' = Looks(disk)
      /\ UNCHANGED <<disk, serial, given, past, undone, since, made>>
  BY DEF Begins, historyVars, userVars
<1>2. serial \in Nat /\ 1 <= serial /\ DiskOK
  BY DEF Inv, DiskOK
<1>3. /\ RunInv(run', serial)
      /\ run'.job = job /\ run'.doing = doing /\ run'.plan = plan
      /\ run'.outcome = NoOutcome /\ run'.first = NoOutcome /\ run'.batch = 0
      /\ run'.phase = "aside" => Range(run'.todo) \subseteq Range(plan)
  BY <1>1, <1>2, PassIs
<1>4. PhaseOK'
  BY <1>3 DEF PhaseOK, Plan, Asks
<1>5. DiskOK'
  BY <1>1, <1>2 DEF DiskOK
<1>6. HistoryOK'
  <2>1. begun' \in SUBSET (Names \X Nat)
    BY <1>1, <1>2, LooksTyped
  <2>2. HistoryOK
    BY DEF Inv
  <2> QED
    BY <1>1, <1>3, <2>1, <2>2 DEF HistoryOK
<1>7. HeldOK'
  <2>1. /\ \A i \in DOMAIN past' : Known(past[i])' /\ \A k \in Numbers(past[i])' : k \in Nat /\ since' <= k /\ k < serial'
        /\ \A i, j \in DOMAIN past' : i # j => Numbers(past[i])' \intersect Numbers(past[j])' = {}
    BY <1>1, HeldAsItWas DEF Inv
  <2> QED
    BY <1>3, <2>1, HeldNew
<1> QED
  BY <1>1, <1>3, <1>4, <1>5, <1>6, <1>7 DEF Inv, NothingLost, IdsAt

\* What a planner lets pass is begun.
LEMMA OperatesKeeps ==
    ASSUME Inv, Operates
    PROVE  Inv' /\ (NothingLost => NothingLost')
<1>1. PICK plan \in RenamePlans \union DeletePlans :
         Begins(Pass(IF plan[1].way = "name" THEN "rename" ELSE "delete", "do", plan))
  BY DEF Operates
<1> DEFINE job == IF plan[1].way = "name" THEN "rename" ELSE "delete"
<1>2. plan \in Seq(Items) /\ Plan(job, plan)
  BY PlannedIs DEF Inv
<1>3. job \in {"rename", "delete", "restore"} /\ job # "restore"
  OBVIOUS
<1>4. Begins(Pass(job, "do", plan))
  BY <1>1
<1> HIDE DEF job
<1> QED
  BY <1>2, <1>3, <1>4, BeginsKeeps

\* The last record is undone.
LEMMA UndoesKeeps ==
    ASSUME Inv, Undoes
    PROVE  Inv' /\ (NothingLost => NothingLost')
<1> DEFINE record == Last(past)
<1>1. /\ past # <<>>
      /\ Begins(IF record.job = "rename" THEN Pass("rename", "undo", Swapped(record.done)) ELSE Pass("restore", "undo", record.done))
  BY DEF Undoes
<1>2. past \in Seq(Records) /\ \A rec \in Range(past) : RecordOK(rec)
  BY DEF Inv, HistoryOK
<1>3. RecordOK(record) /\ record.job \in {"rename", "delete"}
  <2>1. record \in Range(past)
    BY <1>1, <1>2, FrontIs
  <2>2. RecordOK(record)
    BY <1>2, <2>1
  <2> QED
    BY <2>2 DEF RecordOK, Records
<1>4. Begins(Pass(UndoJob(record), "undo", UndoPlan(record)))
  BY <1>1 DEF UndoJob, UndoPlan
<1> HIDE DEF record
<1>5. /\ UndoPlan(record) \in Seq(Items) /\ Plan(UndoJob(record), UndoPlan(record))
      /\ UndoJob(record) \in {"rename", "restore"}
  <2>1. CASE record.job = "rename"
    BY <1>3, <2>1, SwappedIs DEF UndoJob, UndoPlan
  <2>2. CASE record.job = "delete"
    BY <1>3, <2>2, RestorePlanIs DEF UndoJob, UndoPlan
  <2> QED
    BY <1>3, <2>1, <2>2
<1> QED
  BY <1>1, <1>4, <1>5, BeginsKeeps DEF record

\* The record undone last is done again.
LEMMA RedoesKeeps ==
    ASSUME Inv, Redoes
    PROVE  Inv' /\ (NothingLost => NothingLost')
<1> DEFINE record == Head(undone)
<1>1. /\ undone # <<>>
      /\ Begins(IF record.job = "rename" THEN Pass("rename", "redo", Swapped(record.done)) ELSE Pass("delete", "redo", RedoPlan(record.done)))
  BY DEF Redoes
<1>2. undone \in Seq(Records) /\ \A rec \in Range(undone) : RecordOK(rec)
  BY DEF Inv, HistoryOK
<1>3. RecordOK(record) /\ record.job \in {"rename", "delete"}
  BY <1>1, <1>2, TailIs DEF RecordOK, Records
<1>4. Begins(Pass(record.job, "redo", AgainPlan(record)))
  BY <1>1, <1>3 DEF AgainPlan
<1> HIDE DEF record
<1>5. AgainPlan(record) \in Seq(Items) /\ Plan(record.job, AgainPlan(record))
  <2>1. CASE record.job = "rename"
    BY <1>3, <2>1, SwappedIs DEF AgainPlan
  <2>2. CASE record.job = "delete"
    BY <1>3, <2>2, RedoPlanIs DEF AgainPlan
  <2> QED
    BY <1>3, <2>1, <2>2
<1> QED
  BY <1>1, <1>3, <1>4, <1>5, BeginsKeeps DEF record

\* The steps of a pass, and the beginning of the second.
LEMMA BatchKeeps ==
    ASSUME Inv, BatchActs
    PROVE  Inv' /\ (NothingLost => NothingLost')
<1>1. UNCHANGED <<past, undone, since, made, begun>>
  BY DEF BatchActs, historyVars, userVars
<1>2. RunInv(run, serial) /\ PhaseOK /\ HistoryOK /\ DiskOK /\ HeldOK /\ serial \in Nat
  BY DEF Inv, DiskOK
<1>3. CASE Accepts
  <2>1. /\ RunInv(run', serial) /\ run'.job = run.job /\ run'.doing = run.doing /\ run'.plan = run.plan
        /\ serial' = serial /\ disk' = disk /\ given' = given
    BY <1>2, <1>3, AcceptsKeeps DEF Accepts, Same
  <2>2. PhaseOK'
    <3>1. \A e \in Range(run'.asked) : e.from = e.src
      BY <2>1 DEF RunInv, RunOK, Asks
    <3>2. PICK q : q = Pass(run.job, run.doing, Retry) /\ run' = [q EXCEPT !.pass = 2, !.plan = run.plan, !.first = Own, !.cancelled = run.cancelled]
      BY <1>3 DEF Accepts
    <3>3. run'.phase = (IF run.job = "rename" THEN "aside" ELSE "work")
          /\ run'.asked = Retry /\ run'.todo = (IF run.job = "restore" THEN Reverse(Retry) ELSE Retry)
      BY <3>2 DEF Pass
    <3> QED
      BY <3>1, <3>3 DEF PhaseOK
  <2>3. DiskOK'
    BY <1>1, <1>2, <2>1 DEF DiskOK
  <2>4. HistoryOK'
    BY <1>1, <1>2, <2>1 DEF HistoryOK
  <2>5. HeldOK'
    BY <1>1, <1>2, <1>3, AcceptsHeld
  <2> QED
    BY <1>1, <2>1, <2>2, <2>3, <2>4, <2>5 DEF Inv, NothingLost, IdsAt
<1>4. CASE RenameActs \/ DeleteActs \/ Restores \/ RestoreFails
  <2>1. /\ RunInv(run', serial') /\ PhaseOK'
        /\ run'.job = run.job /\ run'.doing = run.doing /\ run'.plan = run.plan /\ run'.first = run.first
        /\ \/ Stays
           \/ \E h, to : Shifts(h, to)
           \/ \E h, from, to, d : Lands(h, from, to, d)
           \/ \E h, d : GoneForGood(h, d)
    BY <1>2, <1>4, PassActs
  <2>2. DiskOK' /\ given \subseteq given' /\ AllIds \subseteq AllIds' \union given'
    BY <1>1, <1>2, <2>1, PassDisk
  <2>3. HeldOK'
    BY <1>1, <1>2, <2>1, PassHeld
  <2>4. HistoryOK'
    BY <1>1, <1>2, <2>1 DEF HistoryOK
  <2> QED
    BY <1>1, <2>1, <2>2, <2>3, <2>4 DEF Inv, NothingLost, AllIds
<1> QED
  BY <1>3, <1>4 DEF BatchActs

\* What an operation may be said to have come to.
OutcomeOK(o) ==
    /\ Tells(run.job, run.plan, o.done) /\ o.stagings \in SUBSET Nat
    /\ run.job # "delete" => o.stagings = {}
    /\ run.job = "delete" => Numbers(o) \subseteq RunNumbers /\ Known(o) /\ Range(o.done) \subseteq AllDone

\* What is known of an operation whose helper was lost: what the first pass did.
LEMMA OutcomeFirst ==
    ASSUME Inv, run.pass = 2
    PROVE  OutcomeOK(run.first) /\ run.job # "none"
<1>1. run \in Runs /\ Second(run) /\ run.job # "none" /\ HeldOK
  BY IdleIs DEF Inv, RunInv, RunOK
<1>2. Tells(run.job, run.plan, run.first.done) /\ run.first.stagings \in SUBSET Nat
  BY <1>1, WorkedTells DEF Second, Runs, Outcomes
<1> QED
  BY <1>1, <1>2 DEF OutcomeOK, HeldOK, RunNumbers, AllDone

\* What is known of one that is over: what both passes did.
LEMMA OutcomeMerged ==
    ASSUME Inv, Over
    PROVE  OutcomeOK(Merged) /\ run.job # "none"
<1>1. RunInv(run, serial) /\ serial \in Nat /\ HeldOK /\ run.todo = <<>> /\ run.job # "none"
  BY DEF Inv, DiskOK, Over
<1>2. /\ Tells(run.job, run.plan, Merged.done) /\ Merged.stagings \in SUBSET Nat
      /\ run.pass = 1 => Merged = run.outcome
      /\ run.pass = 2 => /\ Merged.stagings = run.first.stagings \union Own.stagings
                         /\ Range(Merged.done) = Range(run.first.done) \union Range(SecondDone)
  BY <1>1, MergedIs
<1>3. run.pass \in {1, 2}
  BY <1>1 DEF RunInv, RunOK, Runs
<1>4. CASE run.pass = 1
  BY <1>1, <1>2, <1>4 DEF OutcomeOK, HeldOK, RunNumbers, AllDone
<1>5. CASE run.pass = 2
  <2>1. run.job # "delete" => Merged.stagings = {}
    BY <1>1, <1>2, <1>5 DEF HeldOK, Own
  <2>2. CASE run.job = "delete"
    <3>1. Merged.stagings = run.first.stagings \union run.outcome.stagings
          /\ Range(Merged.done) = Range(run.first.done) \union Range(run.outcome.done)
      BY <1>1, <1>2, <1>5, <2>2, SecondDoneIs DEF Own
    <3>2. Numbers(Merged) \subseteq RunNumbers
      BY <2>2, <3>1 DEF Numbers, RunNumbers
    <3>3. Known(run.first) /\ Known(run.outcome)
      BY <1>1 DEF HeldOK
    <3>4. HeldBy(run.first) \subseteq HeldBy(Merged) /\ HeldBy(run.outcome) \subseteq HeldBy(Merged)
      BY <3>1, HeldByIs
    <3>5. Known(Merged)
      BY <3>1, <3>3, <3>4 DEF Known
    <3> QED
      BY <1>2, <2>2, <3>1, <3>2, <3>5 DEF OutcomeOK, AllDone
  <2> QED
    BY <1>1, <1>2, <2>1, <2>2 DEF OutcomeOK
<1> QED
  BY <1>1, <1>3, <1>4, <1>5

\* What is recorded of it.
Recorded(rec, o) ==
    /\ RecordOK(rec) /\ rec.job = IF run.job = "rename" THEN "rename" ELSE "delete"
    /\ Range(rec.done) = {d \in Range(o.done) : d.dst # Nowhere}
    /\ rec.stagings = IF run.doing = "undo" THEN {} ELSE o.stagings
    /\ run.doing = "do" => rec.before = begun /\ rec.after = Looks(disk)
    /\ run.doing = "undo" => rec.before = Last(past).before /\ rec.after = Last(past).after
    /\ run.doing = "redo" => rec.before = Head(undone).before /\ rec.after = Head(undone).after

\* How an operation ends: with its record in the history, or with nothing recorded.
LEMMA EndsIs ==
    ASSUME Inv, NEW o, OutcomeOK(o), run.job # "none", NEW helperLost, Ends(o, helperLost)
    PROVE  /\ run' = Idle /\ UNCHANGED <<disk, serial, given, since, made, begun, emptied>>
           /\ clean' = (clean /\ ~helperLost /\ Settles(o)) /\ lost' = (lost \/ helperLost)
           /\ \/ Recoverable(o.done) = <<>> /\ UNCHANGED <<past, undone>>
              \/ \E rec : /\ Recorded(rec, o)
                          /\ \/ run.doing = "do" /\ past' = Append(past, rec) /\ undone' = <<>>
                             \/ run.doing = "undo" /\ past # <<>> /\ past' = Front(past) /\ undone' = <<rec>> \o undone
                             \/ run.doing = "redo" /\ undone # <<>> /\ past' = Append(past, rec) /\ undone' = Tail(undone)
<1> DEFINE kept == Recoverable(o.done)
           rec == [job |-> IF run.job = "rename" THEN "rename" ELSE "delete", done |-> kept,
                   stagings |-> IF run.doing = "undo" THEN {} ELSE o.stagings,
                   before |-> IF run.doing = "do" THEN begun ELSE IF run.doing = "undo" THEN Last(past).before ELSE Head(undone).before,
                   after  |-> IF run.doing = "do" THEN Looks(disk) ELSE IF run.doing = "undo" THEN Last(past).after ELSE Head(undone).after]
<1>1. /\ CASE kept = <<>> -> UNCHANGED <<past, undone>>
           [] kept # <<>> /\ run.doing = "do" -> past' = Append(past, rec) /\ undone' = <<>>
           [] kept # <<>> /\ run.doing = "undo" -> past' = Front(past) /\ undone' = <<rec>> \o undone
           [] kept # <<>> /\ run.doing = "redo" -> past' = Append(past, rec) /\ undone' = Tail(undone)
      /\ run' = Idle /\ UNCHANGED <<disk, serial, given, since, made, begun, emptied>>
      /\ clean' = (clean /\ ~helperLost /\ Settles(o)) /\ lost' = (lost \/ helperLost)
  BY DEF Ends, userVars
<1>2. CASE kept = <<>>
  BY <1>1, <1>2
<1>3. CASE kept # <<>>
  <2>1. /\ run.job \in {"rename", "delete", "restore"} /\ run.doing \in {"do", "undo", "redo"} /\ run.plan \in Seq(Items)
        /\ Plan(run.job, run.plan) /\ HistoryOK /\ DiskOK
    BY DEF Inv, RunInv, RunOK, Runs
  <2>2. /\ rec.job = (IF run.job = "rename" THEN "rename" ELSE "delete") /\ rec.done = kept
        /\ rec.stagings = (IF run.doing = "undo" THEN {} ELSE o.stagings)
        /\ (run.doing = "do" => rec.before = begun /\ rec.after = Looks(disk))
        /\ (run.doing = "undo" => rec.before = Last(past).before /\ rec.after = Last(past).after)
        /\ (run.doing = "redo" => rec.before = Head(undone).before /\ rec.after = Head(undone).after)
        /\ rec = [job |-> rec.job, done |-> rec.done, stagings |-> rec.stagings, before |-> rec.before, after |-> rec.after]
    BY <2>1
  <2> HIDE DEF rec
  <2>3. rec.before \in SUBSET (Names \X Nat) /\ rec.after \in SUBSET (Names \X Nat)
    <3>1. CASE run.doing = "do"
      BY <2>1, <2>2, <3>1, LooksTyped DEF HistoryOK
    <3>2. CASE run.doing = "undo"
      <4>1. past # <<>> /\ past \in Seq(Records)
        BY <2>1, <3>2 DEF HistoryOK
      <4>2. Last(past) \in Range(past)
        BY <4>1, FrontIs
      <4>3. Last(past) \in Records
        BY <2>1, <4>2 DEF HistoryOK, RecordOK
      <4> QED
        BY <2>2, <3>2, <4>3 DEF Records
    <3>3. CASE run.doing = "redo"
      <4>1. undone # <<>> /\ undone \in Seq(Records)
        BY <2>1, <3>3 DEF HistoryOK
      <4>2. Head(undone) \in Range(undone)
        BY <4>1, TailIs
      <4>3. Head(undone) \in Records
        BY <2>1, <4>2 DEF HistoryOK, RecordOK
      <4> QED
        BY <2>2, <3>3, <4>3 DEF Records
    <3> QED
      BY <2>1, <3>1, <3>2, <3>3
  <2>4. RecordOK(rec) /\ Range(rec.done) = {d \in Range(o.done) : d.dst # Nowhere}
    <3>1. rec.stagings \in SUBSET Nat /\ (run.job = "rename" => rec.stagings = {})
      BY <2>2 DEF OutcomeOK
    <3>2. Tells(run.job, run.plan, o.done) /\ rec.done = Recoverable(o.done) /\ rec.done # <<>>
      BY <1>3, <2>2 DEF OutcomeOK
    <3> HIDE DEF kept
    <3> QED
      BY <2>1, <2>2, <2>3, <3>1, <3>2, RecordIs
  <2>5. Recorded(rec, o)
    BY <2>2, <2>4 DEF Recorded
  <2>6. \/ run.doing = "do" /\ past' = Append(past, rec) /\ undone' = <<>>
        \/ run.doing = "undo" /\ past # <<>> /\ past' = Front(past) /\ undone' = <<rec>> \o undone
        \/ run.doing = "redo" /\ undone # <<>> /\ past' = Append(past, rec) /\ undone' = Tail(undone)
    BY <1>1, <1>3, <2>1 DEF HistoryOK, rec
  <2> QED
    BY <1>1, <2>5, <2>6
<1> QED
  BY <1>2, <1>3

\* HeldOK where no pass is under way, of the records as they are then.
LEMMA HeldNewFrom ==
    ASSUME run'.outcome = NoOutcome, run'.first = NoOutcome, run'.batch = 0, DOMAIN disk' \subseteq DOMAIN disk,
           \A i \in DOMAIN past' : Known(past'[i]) /\ \A k \in Numbers(past'[i]) : k \in Nat /\ since' <= k /\ k < serial',
           \A i, j \in DOMAIN past' : i # j => Numbers(past'[i]) \intersect Numbers(past'[j]) = {}
    PROVE  HeldOK'
<1>1. \A i \in DOMAIN past' : Known(past[i])'
  <2> TAKE i \in DOMAIN past'
  <2>1. Known(past'[i])
    OBVIOUS
  <2> QED
    BY <2>1 DEF Known, HeldBy
<1>2. \A i \in DOMAIN past' : Numbers(past[i])' = Numbers(past'[i])
  BY DEF Numbers
<1> QED
  BY <1>1, <1>2, HeldNew

\* A record that is new holds what the pass held.
LEMMA RecordedHolds ==
    ASSUME Inv, NEW o, OutcomeOK(o), run.job # "none", run.doing # "undo", NEW rec, Recorded(rec, o)
    PROVE  Known(rec) /\ Numbers(rec) \subseteq RunNumbers
<1>1. RecordOK(rec) /\ rec.stagings = o.stagings /\ Range(rec.done) = {d \in Range(o.done) : d.dst # Nowhere}
      /\ rec.job = IF run.job = "rename" THEN "rename" ELSE "delete"
  BY DEF Recorded
<1>2. run.job \in {"rename", "delete"}
  BY DEF Inv, RunInv, RunOK, Runs, Phased
<1>3. CASE run.job = "rename"
  <2>1. rec.stagings = {} /\ \A d \in Range(rec.done) : d.dst \in Folder
    BY <1>1, <1>3 DEF RecordOK
  <2>2. Numbers(rec) = {}
    BY <2>1, FolderPlaces DEF Numbers
  <2> QED
    BY <2>1, <2>2 DEF Known
<1>4. CASE run.job = "delete"
  <2>1. Known(o) /\ Numbers(o) \subseteq RunNumbers
    BY <1>4 DEF OutcomeOK
  <2>2. Numbers(rec) \subseteq Numbers(o)
    BY <1>1 DEF Numbers
  <2>3. \A p \in DOMAIN disk : p # Nowhere
    <3>1. \A p \in Places : p.at # "nowhere"
      BY DEF Places
    <3>2. Nowhere.at = "nowhere" /\ \A p \in DOMAIN disk : p \in Places
      BY DEF Inv, DiskOK, Nowhere
    <3> QED
      BY <3>1, <3>2
  <2>4. \A p \in HeldBy(o) : p # Nowhere => p \in HeldBy(rec)
    BY <1>1, HeldByIs
  <2> QED
    BY <1>1, <2>1, <2>2, <2>3, <2>4 DEF Known
<1> QED
  BY <1>2, <1>3, <1>4

\* The end of an operation keeps the invariant.
LEMMA EndsKeeps ==
    ASSUME Inv, NEW o, OutcomeOK(o), run.job # "none", NEW helperLost, Ends(o, helperLost)
    PROVE  Inv' /\ (NothingLost => NothingLost')
<1>1. /\ run' = Idle /\ UNCHANGED <<disk, serial, given, since, made, begun>>
      /\ \/ UNCHANGED <<past, undone>>
         \/ \E rec : /\ Recorded(rec, o)
                     /\ \/ run.doing = "do" /\ past' = Append(past, rec) /\ undone' = <<>>
                        \/ run.doing = "undo" /\ past # <<>> /\ past' = Front(past) /\ undone' = <<rec>> \o undone
                        \/ run.doing = "redo" /\ undone # <<>> /\ past' = Append(past, rec) /\ undone' = Tail(undone)
  BY EndsIs
<1>2. /\ HistoryOK /\ DiskOK /\ HeldOK /\ serial \in Nat /\ past \in Seq(Records) /\ undone \in Seq(Records)
      /\ (\A rec \in Range(past) : RecordOK(rec)) /\ (\A rec \in Range(undone) : RecordOK(rec))
  BY DEF Inv, DiskOK, HistoryOK
<1>3. RunInv(run', serial') /\ PhaseOK' /\ run'.doing = "do"
  BY <1>1, <1>2, IdleIs, IdleKeeps DEF PhaseOK
<1>4. DiskOK'
  BY <1>1, <1>2 DEF DiskOK
<1>5. /\ \A i \in DOMAIN past : Known(past[i]) /\ \A k \in Numbers(past[i]) : k \in Nat /\ since <= k /\ k < serial /\ k \notin RunNumbers
      /\ \A i, j \in DOMAIN past : i # j => Numbers(past[i]) \intersect Numbers(past[j]) = {}
  <2>1. \A i \in DOMAIN past : past[i] \in Range(past)
    BY DEF Range
  <2> QED
    BY <1>2, <2>1 DEF HeldOK
<1>6. /\ run'.outcome = NoOutcome /\ run'.first = NoOutcome /\ run'.batch = 0 /\ DOMAIN disk' \subseteq DOMAIN disk
      /\ since' = since /\ serial' = serial /\ begun' = begun
  BY <1>1, IdleIs
<1>7. SUFFICES HistoryOK' /\ HeldOK'
  BY <1>1, <1>3, <1>4, <1>7 DEF Inv, NothingLost, IdsAt
<1>8. CASE UNCHANGED <<past, undone>>
  <2>1. HistoryOK'
    BY <1>2, <1>3, <1>6, <1>8 DEF HistoryOK
  <2>2. HeldOK'
    BY <1>5, <1>6, <1>8, HeldNewFrom
  <2> QED
    BY <2>1, <2>2
<1>9. ASSUME NEW rec, Recorded(rec, o), run.doing # "undo", past' = Append(past, rec), undone' \in Seq(Records),
             Range(undone') \subseteq Range(undone)
      PROVE  HistoryOK' /\ HeldOK'
  <2>1. RecordOK(rec) /\ rec \in Records
    BY <1>9 DEF Recorded, RecordOK
  <2>2. /\ past' \in Seq(Records) /\ Range(past') = Range(past) \union {rec}
        /\ \A i \in DOMAIN past' : \/ i \in DOMAIN past /\ past'[i] = past[i]
                                   \/ i = Len(past) + 1 /\ past'[i] = rec
    BY <1>2, <1>9, <2>1, AppendIs
  <2>3. HistoryOK'
    BY <1>2, <1>3, <1>6, <1>9, <2>1, <2>2 DEF HistoryOK
  <2>4. Known(rec) /\ Numbers(rec) \subseteq RunNumbers
    BY <1>9, RecordedHolds
  <2>5. \A k \in RunNumbers : k \in Nat /\ since <= k /\ k < serial
    BY <1>2 DEF HeldOK
  <2>6. \A i \in DOMAIN past' : Known(past'[i]) /\ \A k \in Numbers(past'[i]) : k \in Nat /\ since' <= k /\ k < serial'
    BY <1>5, <1>6, <2>2, <2>4, <2>5
  <2>7. \A i, j \in DOMAIN past' : i # j => Numbers(past'[i]) \intersect Numbers(past'[j]) = {}
    BY <1>5, <2>2, <2>4
  <2> QED
    BY <1>6, <2>3, <2>6, <2>7, HeldNewFrom
<1>10. ASSUME NEW rec, Recorded(rec, o), past # <<>>, past' = Front(past), undone' = <<rec>> \o undone
       PROVE  HistoryOK' /\ HeldOK'
  <2>1. RecordOK(rec) /\ rec \in Records
    BY <1>10 DEF Recorded, RecordOK
  <2>2. /\ past' \in Seq(Records) /\ Range(past') \subseteq Range(past)
        /\ \A i \in DOMAIN past' : past'[i] = past[i] /\ i \in DOMAIN past
    BY <1>2, <1>10, FrontIs
  <2>3. undone' \in Seq(Records) /\ Range(undone') = Range(undone) \union {rec}
    BY <1>2, <1>10, <2>1, PrependIs
  <2>4. HistoryOK'
    BY <1>2, <1>3, <1>6, <2>1, <2>2, <2>3 DEF HistoryOK
  <2>5. \A i \in DOMAIN past' : Known(past'[i]) /\ \A k \in Numbers(past'[i]) : k \in Nat /\ since' <= k /\ k < serial'
    BY <1>5, <1>6, <2>2
  <2>6. \A i, j \in DOMAIN past' : i # j => Numbers(past'[i]) \intersect Numbers(past'[j]) = {}
    BY <1>5, <2>2
  <2> QED
    BY <1>6, <2>4, <2>5, <2>6, HeldNewFrom
<1>11. CASE \E rec : /\ Recorded(rec, o)
                     /\ \/ run.doing = "do" /\ past' = Append(past, rec) /\ undone' = <<>>
                        \/ run.doing = "undo" /\ past # <<>> /\ past' = Front(past) /\ undone' = <<rec>> \o undone
                        \/ run.doing = "redo" /\ undone # <<>> /\ past' = Append(past, rec) /\ undone' = Tail(undone)
  <2>1. PICK rec : /\ Recorded(rec, o)
                   /\ \/ run.doing = "do" /\ past' = Append(past, rec) /\ undone' = <<>>
                      \/ run.doing = "undo" /\ past # <<>> /\ past' = Front(past) /\ undone' = <<rec>> \o undone
                      \/ run.doing = "redo" /\ undone # <<>> /\ past' = Append(past, rec) /\ undone' = Tail(undone)
    BY <1>11
  <2>2. CASE run.doing = "do" /\ past' = Append(past, rec) /\ undone' = <<>>
    <3>1. undone' \in Seq(Records) /\ Range(undone') \subseteq Range(undone)
      BY <2>2, NoneListed
    <3> QED
      BY <1>9, <2>1, <2>2, <3>1
  <2>3. CASE run.doing = "redo" /\ undone # <<>> /\ past' = Append(past, rec) /\ undone' = Tail(undone)
    <3>1. undone' \in Seq(Records) /\ Range(undone') \subseteq Range(undone)
      BY <1>2, <2>3, TailIs
    <3> QED
      BY <1>9, <2>1, <2>3, <3>1
  <2> QED
    BY <1>10, <2>1, <2>2, <2>3
<1> QED
  BY <1>1, <1>8, <1>11

\* Whether its helper answered or was lost.
LEMMA FinishesKeeps ==
    ASSUME Inv, Finishes \/ HelperLost
    PROVE  Inv' /\ (NothingLost => NothingLost')
<1>1. CASE Finishes
  BY <1>1, OutcomeMerged, EndsKeeps DEF Finishes
<1>2. CASE HelperLost
  BY <1>2, OutcomeFirst, EndsKeeps DEF HelperLost
<1> QED
  BY <1>1, <1>2

(***************************************************************************)
(* What holds of every behaviour.                                          *)
(***************************************************************************)
LEMMA OrderOf ==
    ASSUME NEW S, IsFiniteSet(S)
    PROVE  \E n \in Nat :
              /\ SetToSeq(S) \in [1..n -> S] /\ Len(SetToSeq(S)) = n
              /\ \A i, j \in 1..n : SetToSeq(S)[i] = SetToSeq(S)[j] => i = j
              /\ \A x \in S : \E i \in 1..n : SetToSeq(S)[i] = x
<1> DEFINE n == Cardinality(S)
           s == SetToSeq(S)
<1>1. n \in Nat /\ ExistsBijection(1..n, S)
  BY FS_CardinalityType
<1> HIDE DEF n
<1>2. \E f \in [1..n -> S] : IsInjective(f)
  BY <1>1 DEF ExistsBijection, Bijection, Injection, IsInjective
<1>3. s \in [1..n -> S] /\ IsInjective(s)
  BY <1>2 DEF SetToSeq, n
<1> HIDE DEF s
<1>4. s \in Injection(1..n, S)
  BY <1>3 DEF Injection, IsInjective
<1>5. IsFiniteSet(1..n) /\ Cardinality(1..n) = n
  BY <1>1, FS_Interval
<1>6. s \in Surjection(1..n, S)
  BY <1>1, <1>4, <1>5, FS_Injection DEF n
<1>7. s \in Seq(S) /\ Len(s) = n
  <2>1. s \in Seq(S)
    BY <1>1, <1>3, SeqDef
  <2>2. DOMAIN s = 1..Len(s) /\ Len(s) \in Nat /\ DOMAIN s = 1..n
    BY <1>3, <2>1, LenProperties
  <2>3. \A k \in Nat : k \in 1..Len(s) <=> k \in 1..n
    BY <2>2
  <2>4. n <= Len(s) /\ Len(s) <= n
    BY <1>1, <2>2, <2>3
  <2>5. Len(s) \in Nat /\ n \in Nat
    BY <1>1, <2>2
  <2>6. Len(s) = n
    BY <2>4, <2>5
  <2> QED
    BY <2>1, <2>6
<1>8. (\A i, j \in 1..n : s[i] = s[j] => i = j) /\ \A x \in S : \E i \in 1..n : s[i] = x
  BY <1>3, <1>6 DEF Surjection, IsInjective
<1> QED
  BY <1>1, <1>3, <1>7, <1>8 DEF s

\* At first nothing is done, and the entries there are have an id each.
LEMMA Starts ==
    ASSUME Init
    PROVE  Inv /\ NothingLost
<1>1. PICK names \in SUBSET Names :
         LET taken == SetToSeq(names)
         IN  /\ disk = [p \in {In(n) : n \in names} |-> CHOOSE i \in DOMAIN taken : In(taken[i]) = p]
             /\ made = Len(taken)
  BY DEF Init
<1> DEFINE taken == SetToSeq(names)
<1>2. IsFiniteSet(names)
  BY NamesAssumption, FS_Subset
<1>3. PICK n \in Nat : /\ taken \in [1..n -> names] /\ Len(taken) = n
                       /\ \A i, j \in 1..n : taken[i] = taken[j] => i = j
                       /\ \A x \in names : \E i \in 1..n : taken[i] = x
  BY <1>2, OrderOf
<1>4. /\ disk = [p \in {In(x) : x \in names} |-> CHOOSE i \in DOMAIN taken : In(taken[i]) = p]
      /\ made = n
  BY <1>1, <1>3
<1> HIDE DEF taken
<1>5. DOMAIN taken = 1..n /\ \A i \in 1..n : taken[i] \in names
  BY <1>3
<1>6. \A p \in DOMAIN disk : p \in Folder /\ disk[p] \in 1..n /\ In(taken[disk[p]]) = p
  <2> TAKE p \in DOMAIN disk
  <2>1. PICK x \in names : p = In(x)
    BY <1>4
  <2>2. PICK i \in 1..n : taken[i] = x
    BY <1>3
  <2>3. disk[p] = CHOOSE k \in DOMAIN taken : In(taken[k]) = p
    BY <1>4
  <2>4. disk[p] \in 1..n /\ In(taken[disk[p]]) = p
    BY <1>5, <2>1, <2>2, <2>3
  <2> QED
    BY <2>1, <2>4 DEF Folder
<1>7. \A i \in 1..n : In(taken[i]) \in DOMAIN disk /\ disk[In(taken[i])] = i
  <2> TAKE i \in 1..n
  <2>1. In(taken[i]) \in DOMAIN disk
    BY <1>4, <1>5
  <2>2. disk[In(taken[i])] \in 1..n /\ In(taken[disk[In(taken[i])]]) = In(taken[i])
    BY <1>6, <2>1
  <2>3. taken[disk[In(taken[i])]] = taken[i]
    BY <2>2 DEF In
  <2> QED
    BY <1>3, <2>1, <2>2, <2>3
<1>8. serial = 1 /\ since = 1 /\ run = Idle /\ given = {} /\ past = <<>> /\ undone = <<>> /\ begun = {}
  BY DEF Init
<1>9. DiskOK
  <2>1. \A p \in DOMAIN disk : p \in Places /\ disk[p] \in 1..made /\ p \in Folder /\ p.at = "folder"
    BY <1>4, <1>6, FolderPlaces
  <2>2. \A p, q \in DOMAIN disk : disk[p] = disk[q] => p = q
    BY <1>6
  <2>3. made \in Nat /\ given \subseteq 1..made /\ serial \in Nat /\ since \in Nat /\ 1 <= since /\ since <= serial
    BY <1>4, <1>8
  <2> QED
    BY <2>1, <2>2, <2>3 DEF DiskOK
<1>10. RunInv(run, serial) /\ PhaseOK
  BY <1>8, IdleIs, IdleKeeps DEF PhaseOK
<1>11. HistoryOK /\ HeldOK
  <2>1. Range(past) = {} /\ Range(undone) = {} /\ past \in Seq(Records) /\ undone \in Seq(Records) /\ DOMAIN past = {}
    BY <1>8, NoneListed
  <2>2. HistoryOK
    BY <1>8, <2>1, IdleIs DEF HistoryOK
  <2>3. HeldOK
    BY <1>8, <2>1, IdleIs, NoneHeld DEF HeldOK, RunNumbers
  <2> QED
    BY <2>2, <2>3
<1>12. NothingLost
  <2>1. made = n
    BY <1>4
  <2>2. \A i \in 1..n : i \in IdsAt(DOMAIN disk)
    BY <1>7 DEF IdsAt
  <2> QED
    BY <2>1, <2>2 DEF NothingLost
<1> QED
  BY <1>9, <1>10, <1>11, <1>12 DEF Inv

\* Every step keeps the invariant, and loses nothing unless a holding folder is purged of what no
\* record told of.
LEMMA StepKeeps ==
    ASSUME Inv, [Next]_vars
    PROVE  Inv' /\ ("leftovers purged" \notin Circumstances /\ NothingLost => NothingLost')
<1>1. CASE Next
  BY <1>1, OperatesKeeps, UndoesKeeps, RedoesKeeps, BatchKeeps, FinishesKeeps, MakesKeeps, RemovesKeeps, ForgetsKeeps,
     KilledKeeps, PurgesKeeps DEF Next
<1>2. CASE UNCHANGED vars
  <2>1. /\ UNCHANGED <<serial, run, historyVars, begun, disk, given, made>>
    BY <1>2 DEF vars, batchVars, userVars
  <2>2. DiskOK'
    BY <2>1 DEF Inv, DiskOK, historyVars
  <2>3. Inv'
    BY <2>1, <2>2, MeddlesKeeps
  <2> QED
    BY <2>1, <2>3 DEF NothingLost, IdsAt
<1> QED
  BY <1>1, <1>2

\* The invariant: lists, records, disk and holding folders fit together.
THEOREM FolderInv == Spec => []Inv
<1>1. Inv /\ [Next]_vars => Inv'
  BY StepKeeps
<1> QED
  BY Starts, <1>1, PTL DEF Spec

\* Whatever renames, deletes, undos, redos and kills there are, every entry is at one place, a place
\* the code can name, and no two places hold the same one (move_entry of both executors).
THEOREM FolderTyped == Spec => []TypeOK
<1>1. Inv => TypeOK
  <2> SUFFICES ASSUME Inv PROVE TypeOK
    OBVIOUS
  <2>1. DiskOK
    BY DEF Inv
  <2>2. \A p \in DOMAIN disk : p \in Places /\ disk[p] \in Nat
    BY <2>1 DEF DiskOK
  <2> QED
    BY <2>1, <2>2 DEF TypeOK, DiskTypeOK, DiskOK
<1> QED
  BY FolderInv, <1>1, PTL

\* Nothing the user has is gone from the disk unless he gave it up, whatever fails, is refused, cancelled or
\* killed: but for purge_abandoned_staging, which may take what no record told of.
THEOREM NothingIsLost ==
    ASSUME "leftovers purged" \notin Circumstances
    PROVE  Spec => []NothingLost
<1>1. Inv /\ NothingLost /\ [Next]_vars => (Inv /\ NothingLost)'
  BY StepKeeps
<1>2. Init => Inv /\ NothingLost
  BY Starts
<1> QED
  BY <1>1, <1>2, PTL DEF Spec

\* Of a list that has each id once, an id is counted once or not at all.
LEMMA TimesIs ==
    ASSUME NEW X, NEW s \in Seq(X), Once(s), NEW id
    PROVE  Times(id, s) = IF id \in Ids(s) THEN 1 ELSE 0
<1> DEFINE at == {i \in DOMAIN s : s[i].id = id}
<1>1. CASE id \in Ids(s)
  <2>1. PICK i \in DOMAIN s : s[i].id = id
    BY <1>1 DEF Ids
  <2>2. at = {i}
    BY <2>1 DEF Once
  <2> HIDE DEF at
  <2>3. Cardinality(at) = 1
    BY <2>2, FS_Singleton
  <2> QED
    BY <1>1, <2>3 DEF Times, at
<1>2. CASE id \notin Ids(s)
  <2>1. at = {}
    BY <1>2 DEF Ids
  <2> HIDE DEF at
  <2>2. Cardinality(at) = 0
    BY <2>1, FS_EmptySet
  <2> QED
    BY <1>2, <2>2 DEF Times, at
<1> QED
  BY <1>1, <1>2

\* Of an operation that is over and was not cancelled, every item is among what was done or among what
\* failed, once, though two processes each worked on a part of it (merge_* in elevation/retry.rs).
THEOREM AllAccounted == Spec => []Accounted
<1>1. ASSUME Inv PROVE Accounted
  <2>1. SUFFICES ASSUME Over, ~run.cancelled, NEW item \in Range(run.plan)
                 PROVE  Times(item.id, Merged.done) + Times(item.id, Merged.failed) = 1
    BY DEF Accounted
  <2>2. RunInv(run, serial) /\ serial \in Nat /\ run.plan \in Seq(Items)
    BY <1>1 DEF Inv, DiskOK, RunInv, RunOK, Runs
  <2>3. /\ Merged.done \in Seq(Items) /\ Once(Merged.done) /\ Merged.failed \in Seq(Failures) /\ Once(Merged.failed)
        /\ Ids(Merged.done) \intersect Ids(Merged.failed) = {}
        /\ Ids(run.plan) \subseteq Ids(Merged.done) \union Ids(Merged.failed)
    BY <2>1, <2>2, MergedIs DEF Tells
  <2>4. item.id \in Ids(run.plan)
    BY <2>1, <2>2, ListIs
  <2>5. /\ Times(item.id, Merged.done) = IF item.id \in Ids(Merged.done) THEN 1 ELSE 0
        /\ Times(item.id, Merged.failed) = IF item.id \in Ids(Merged.failed) THEN 1 ELSE 0
    BY <2>3, TimesIs
  <2>6. CASE item.id \in Ids(Merged.done)
    BY <2>3, <2>5, <2>6
  <2>7. CASE item.id \in Ids(Merged.failed)
    BY <2>3, <2>5, <2>7
  <2> QED
    BY <2>3, <2>4, <2>6, <2>7
<1> QED
  BY FolderInv, <1>1, PTL

(***************************************************************************)
(* What a delete in the history holds is there.                            *)
(***************************************************************************)
LEMMA RecordsHold ==
    ASSUME Inv, NEW i \in DOMAIN past
    PROVE  /\ RecordOK(past[i]) /\ past[i] \in Range(past) /\ past \in Seq(Records)
           /\ past[i].job = "delete" => \A p \in HeldBy(past[i]) : p \in Stores /\ p.no \in Numbers(past[i])
<1>1. past[i] \in Range(past) /\ past \in Seq(Records) /\ \A rec \in Range(past) : RecordOK(rec)
  BY DEF Inv, HistoryOK, Range
<1>2. RecordOK(past[i])
  BY <1>1
<1>3. ASSUME past[i].job = "delete", NEW p \in HeldBy(past[i]) PROVE p \in Stores /\ p.no \in Numbers(past[i])
  <2>1. PICK d \in Range(past[i].done) : d.dst = p
    BY <1>3, HeldByIs
  <2>2. d.dst \in Stores
    BY <1>2, <1>3 DEF RecordOK
  <2> QED
    BY <2>1, <2>2 DEF Numbers
<1> QED
  BY <1>1, <1>2, <1>3

\* The records stay as they are, and what they hold stays there or is put back.
LEMMA KeptRest ==
    ASSUME Inv, KeptOK, lost' = lost, past' = past, run'.job = run.job, AllDone \subseteq AllDone',
           ASSUME NEW d \in AllDone', d \notin AllDone, run.job = "delete", d.dst \in Stores
           PROVE  d.dst \in DOMAIN disk',
           ASSUME NEW p \in Stores, There(p), ~There(p)'
           PROVE  /\ run.job = "delete" => \A d \in AllDone : d.dst # p
                  /\ \A i \in DOMAIN past : past[i].job = "delete" /\ p \in HeldBy(past[i]) =>
                        run.job = "restore" /\ i = Len(past) /\ \E d \in AllDone' : d.dst = p
    PROVE  KeptOK'
<1>1. CASE lost
  BY <1>1 DEF KeptOK
<1>2. CASE ~lost
  <2>1. ASSUME NEW i \in DOMAIN past, past[i].job = "delete", NEW p \in HeldBy(past[i])
        PROVE  There(p)' \/ (run.job = "restore" /\ i = Len(past) /\ \E d \in AllDone' : d.dst = p)
    <3>1. p \in Stores
      BY <2>1, RecordsHold
    <3>2. There(p) \/ (run.job = "restore" /\ i = Len(past) /\ \E d \in AllDone : d.dst = p)
      BY <1>2, <2>1 DEF KeptOK
    <3> QED
      BY <2>1, <3>1, <3>2
  <2>2. ASSUME run.job = "delete", NEW d \in AllDone', d.dst \in Stores PROVE There(d.dst)'
    <3>1. CASE d \in AllDone
      <4>1. There(d.dst)
        BY <1>2, <2>2, <3>1 DEF KeptOK
      <4>2. PICK p \in Stores : p = d.dst
        BY <2>2
      <4>3. There(p)'
        BY <2>2, <3>1, <4>1, <4>2
      <4> QED
        BY <4>2, <4>3 DEF There, Exists
    <3>2. CASE d \notin AllDone
      BY <2>2, <3>2 DEF There, Exists
    <3> QED
      BY <3>1, <3>2
  <2> QED
    BY <2>1, <2>2 DEF KeptOK, There, Exists, HeldBy, AllDone
<1> QED
  BY <1>1, <1>2

\* A place there is after a step.
LEMMA StaysThere == \A p : There(p)' <=> (p \in DOMAIN disk' \/ (p.at = "bin" /\ emptied'))
BY DEF There, Exists

\* What is put back is of the last record.
LEMMA RestoredIsLasts ==
    ASSUME Inv, run.job = "restore", NEW d, AskedTo(d, run.asked)
    PROVE  /\ run.doing = "undo" /\ past # <<>> /\ Len(past) \in DOMAIN past /\ past[Len(past)].job = "delete"
           /\ \E a \in Range(past[Len(past)].done) : a.dst = d.dst /\ a.id = d.id
<1>1. run.doing = "undo"
  BY DEF Inv, RunInv, RunOK, Phased
<1>2. past # <<>> /\ run.job = UndoJob(Last(past)) /\ run.plan = UndoPlan(Last(past)) /\ past \in Seq(Records)
  BY <1>1 DEF Inv, HistoryOK
<1>3. Last(past) = past[Len(past)] /\ Len(past) \in DOMAIN past
  BY <1>2, FrontIs
<1>4. past[Len(past)].job # "rename" /\ run.plan = past[Len(past)].done
  BY <1>2, <1>3 DEF UndoJob, UndoPlan
<1>5. past[Len(past)].job = "delete"
  BY <1>3, <1>4, RecordsHold DEF RecordOK, Records
<1>6. PICK a \in Range(run.asked) : SameItem(d, a) /\ d.dst = a.dst
  BY DEF AskedTo
<1>7. \E p \in Range(run.plan) : p.dst = a.dst /\ p.id = a.id
  <2>1. run.pass \in {1, 2}
    BY DEF Inv, RunInv, RunOK, Runs
  <2>2. CASE run.pass = 1
    BY <1>6, <2>2 DEF Inv, RunInv, RunOK
  <2>3. CASE run.pass = 2
    BY <1>6, <2>3 DEF Inv, RunInv, RunOK, Second
  <2> QED
    BY <2>1, <2>2, <2>3
<1> QED
  BY <1>1, <1>2, <1>3, <1>4, <1>5, <1>6, <1>7 DEF SameItem

\* No action of a pass takes away what a record holds, but for what it puts back.
LEMMA PassKept ==
    ASSUME Inv, KeptOK,
           \/ Stays
           \/ \E h, to : Shifts(h, to)
           \/ \E h, from, to, d : Lands(h, from, to, d)
           \/ \E h, d : GoneForGood(h, d),
           run'.first = run.first, run'.job = run.job, UNCHANGED <<past, lost, emptied>>
    PROVE  KeptOK'
<1>1. CASE Stays
  <2>1. disk' = disk /\ AllDone' = AllDone
    BY <1>1 DEF Stays, Same, AllDone
  <2> QED
    BY <2>1, KeptRest, StaysThere DEF There, Exists
<1>2. CASE \E h, to : Shifts(h, to)
  <2>1. PICK h : \E to : Shifts(h, to)
    BY <1>2
  <2>2. PICK to : Shifts(h, to)
    BY <2>1
  <2>3. /\ Exists(h.from) /\ ~Exists(to) /\ disk' = Moved(h.from, to) /\ h.from \in Folder \union Asides
        /\ Range(run'.outcome.done) = Range(run.outcome.done)
    BY <2>2 DEF Shifts
  <2>4. AllDone' = AllDone
    BY <2>3 DEF AllDone
  <2>5. DOMAIN disk' = (DOMAIN disk \ {h.from}) \union {to}
    BY <2>3, MovedIs
  <2>6. h.from \notin Stores
    BY <2>3, FolderPlaces
  <2> QED
    BY <2>4, <2>5, <2>6, KeptRest, StaysThere DEF There, Exists
<1>3. CASE \E h, from, to, d : Lands(h, from, to, d)
  <2>1. PICK h : \E from, to, d : Lands(h, from, to, d)
    BY <1>3
  <2>2. PICK from : \E to, d : Lands(h, from, to, d)
    BY <2>1
  <2>3. PICK to : \E d : Lands(h, from, to, d)
    BY <2>2
  <2>4. PICK d : Lands(h, from, to, d)
    BY <2>3
  <2>5. /\ Exists(from) /\ ~Exists(to) /\ disk' = Moved(from, to)
        /\ Range(run'.outcome.done) = Range(run.outcome.done) \union {d}
    BY <2>4 DEF Lands, Leaves
  <2>6. AllDone' = AllDone \union {d}
    BY <2>5 DEF AllDone
  <2>7. DOMAIN disk' = (DOMAIN disk \ {from}) \union {to}
    BY <2>5, MovedIs
  <2>8. CASE run.job = "restore"
    <3>1. from = d.dst /\ AskedTo(d, run.asked)
      BY <2>4, <2>8 DEF Lands
    <3>2. /\ Len(past) \in DOMAIN past /\ past[Len(past)].job = "delete"
          /\ \E a \in Range(past[Len(past)].done) : a.dst = d.dst
      BY <2>8, <3>1, RestoredIsLasts
    <3>3. from \in HeldBy(past[Len(past)])
      BY <3>1, <3>2, HeldByIs
    <3>4. from.no \in Numbers(past[Len(past)])
      BY <3>2, <3>3, RecordsHold
    <3>5. ASSUME NEW i \in DOMAIN past, past[i].job = "delete", from \in HeldBy(past[i]) PROVE i = Len(past)
      <4>1. from.no \in Numbers(past[i])
        BY <3>5, RecordsHold
      <4> QED
        BY <3>2, <3>4, <4>1 DEF Inv, HeldOK
    <3>6. ASSUME NEW p \in Stores, There(p), ~There(p)' PROVE p = from
      BY <2>7, <3>6, StaysThere DEF There, Exists
    <3>7. d \in AllDone' /\ d.dst = from
      BY <2>6, <3>1
    <3> QED
      BY <2>6, <2>8, <3>5, <3>6, <3>7, KeptRest
  <2>9. CASE run.job # "restore"
    <3>1. from \in Folder \union Asides /\ (run.job = "delete" => d.dst = to)
      BY <2>4, <2>9 DEF Lands
    <3>2. from \notin Stores
      BY <3>1, FolderPlaces
    <3>3. ASSUME NEW p \in Stores, There(p) PROVE There(p)'
      BY <2>7, <3>2, <3>3, StaysThere DEF There, Exists
    <3> QED
      BY <2>6, <2>7, <3>1, <3>3, KeptRest
  <2> QED
    BY <2>8, <2>9
<1>4. CASE \E h, d : GoneForGood(h, d)
  <2>1. PICK h : \E d : GoneForGood(h, d)
    BY <1>4
  <2>2. PICK d : GoneForGood(h, d)
    BY <2>1
  <2>3. /\ disk' = Without({h.from}) /\ d.dst = Nowhere /\ h.from \in Folder
        /\ Range(run'.outcome.done) = Range(run.outcome.done) \union {d}
    BY <2>2 DEF GoneForGood, Leaves
  <2>4. DOMAIN disk' = DOMAIN disk \ {h.from}
    BY <2>3, WithoutIs
  <2>5. AllDone' = AllDone \union {d}
    BY <2>3 DEF AllDone
  <2>6. h.from \notin Stores /\ d.dst \notin Stores
    BY <2>3, FolderPlaces
  <2> QED
    BY <2>4, <2>5, <2>6, KeptRest, StaysThere DEF There, Exists
<1> QED
  BY <1>1, <1>2, <1>3, <1>4

\* What the user does, and what is purged, takes nothing of what this session's records hold.
LEMMA MeddlesKept ==
    ASSUME Inv, KeptOK, Makes \/ Removes \/ EmptiesBin \/ Purges
    PROVE  KeptOK'
<1>1. /\ run' = run /\ past' = past /\ lost' = lost
  BY DEF Makes, Removes, EmptiesBin, Purges, Meddles, historyVars
<1>2. AllDone' = AllDone /\ run'.job = run.job
  BY <1>1 DEF AllDone
<1>3. SUFFICES ASSUME NEW p \in Stores, There(p), ~There(p)'
               PROVE  /\ run.job = "delete" => \A d \in AllDone : d.dst # p
                      /\ \A i \in DOMAIN past : past[i].job = "delete" /\ p \in HeldBy(past[i]) =>
                            run.job = "restore" /\ i = Len(past) /\ \E d \in AllDone' : d.dst = p
  BY <1>1, <1>2, KeptRest
<1>4. CASE Makes
  <2>1. DOMAIN disk \subseteq DOMAIN disk' /\ emptied' = emptied
    BY <1>4 DEF Makes, Meddles, With
  <2> QED
    BY <1>3, <2>1, StaysThere DEF There, Exists
<1>5. CASE Removes
  <2>1. PICK q \in OnDisk : disk' = Without({q}) /\ emptied' = emptied
    BY <1>5 DEF Removes, Meddles, userVars
  <2>2. DOMAIN disk' = DOMAIN disk \ {q} /\ q.at = "folder"
    BY <2>1, WithoutIs DEF OnDisk
  <2>3. p # q
    BY <1>3, <2>2, FolderPlaces
  <2> QED
    BY <1>3, <2>1, <2>2, <2>3, StaysThere DEF There, Exists
<1>6. CASE EmptiesBin
  <2>1. disk' = Without({q \in DOMAIN disk : q.at = "bin"}) /\ emptied' = TRUE
    BY <1>6 DEF EmptiesBin, Meddles
  <2>2. DOMAIN disk' = DOMAIN disk \ {q \in DOMAIN disk : q.at = "bin"}
    BY <2>1, WithoutIs
  <2> QED
    BY <1>3, <2>1, <2>2, StaysThere DEF There, Exists
<1>7. CASE Purges
  <2>1. disk' = Without({q \in DOMAIN disk : q.at = "held" /\ q.no < since}) /\ emptied' = emptied
    BY <1>7 DEF Purges, userVars
  <2>2. DOMAIN disk' = DOMAIN disk \ {q \in DOMAIN disk : q.at = "held" /\ q.no < since}
    BY <2>1, WithoutIs
  <2>3. p.no < since
    BY <1>3, <2>1, <2>2, StaysThere DEF There, Exists
  <2>4. \A i \in DOMAIN past : past[i].job = "delete" => p \notin HeldBy(past[i])
    <3> SUFFICES ASSUME NEW i \in DOMAIN past, past[i].job = "delete", p \in HeldBy(past[i]) PROVE FALSE
      OBVIOUS
    <3>1. p.no \in Numbers(past[i])
      BY RecordsHold
    <3>2. since <= p.no /\ p.no \in Nat /\ since \in Nat
      BY <3>1 DEF Inv, HeldOK, DiskOK
    <3> QED
      BY <2>3, <3>2
  <2>5. ASSUME run.job = "delete", NEW d \in AllDone, d.dst = p PROVE FALSE
    <3>1. p.no \in RunNumbers
      BY <1>3, <2>5 DEF AllDone, RunNumbers, Numbers
    <3>2. since <= p.no /\ p.no \in Nat /\ since \in Nat
      BY <3>1 DEF Inv, HeldOK, DiskOK
    <3> QED
      BY <2>3, <3>2
  <2> QED
    BY <2>4, <2>5
<1> QED
  BY <1>4, <1>5, <1>6, <1>7

\* Nothing is taken where nothing is being put back.
LEMMA KeptNew ==
    ASSUME run'.outcome = NoOutcome, run'.first = NoOutcome,
           ASSUME NEW i \in DOMAIN past', past'[i].job = "delete", NEW p \in HeldBy(past'[i])
           PROVE  There(p)'
    PROVE  KeptOK'
<1>1. AllDone' = {}
  BY NoneHeld DEF AllDone
<1>2. \A i \in DOMAIN past' : HeldBy(past[i])' = HeldBy(past'[i])
  BY DEF HeldBy
<1> QED
  BY <1>1, <1>2 DEF KeptOK

\* What is restored is told of, when the restoring is over.
LEMMA RestoredIsTold ==
    ASSUME Inv, Over, run.job = "restore", NEW d \in AllDone
    PROVE  \E e \in Range(Merged.done) : e.id = d.id /\ e.src = d.src /\ e.dst = d.dst
<1>1. RunInv(run, serial) /\ serial \in Nat /\ run.todo = <<>> /\ run.job # "none"
  BY DEF Inv, DiskOK, Over
<1>2. /\ run.pass = 1 => Merged = run.outcome
      /\ run.pass = 2 => Range(Merged.done) = Range(run.first.done) \union Range(SecondDone)
  BY <1>1, MergedIs
<1>3. /\ run \in Runs /\ (run.pass = 1 => run.first = NoOutcome) /\ run.pass \in {1, 2}
      /\ Asks(run.job, run.asked) /\ Worked(run.job, run.asked, run.outcome)
  BY <1>1 DEF RunInv, RunOK, Runs
<1>4. CASE run.pass = 1
  BY <1>2, <1>3, <1>4, NoneHeld DEF AllDone
<1>5. CASE run.pass = 2 /\ d \in Range(run.outcome.done)
  <2>1. PICK a \in Range(run.asked) : SameItem(d, a) /\ d.dst = a.dst
    BY <1>3, <1>5 DEF Worked, AskedTo
  <2>2. /\ run.asked \in Seq(Items) /\ Once(run.asked) /\ run.outcome.done \in Seq(Items)
    BY <1>3 DEF Runs, Outcomes, Asks
  <2>3. Ids(Own.done) \subseteq Ids(SecondDone) /\ SecondDone \in Seq(Items)
    BY <1>1, <1>5, SecondDoneIs DEF Tells
  <2>4. d.id \in Ids(SecondDone)
    BY <1>5, <2>2, <2>3, ListIs DEF Own
  <2>5. PICK e \in Range(SecondDone) : e.id = d.id
    BY <2>3, <2>4, ListIs
  <2>6. e \in Range(run.asked)
    <3> DEFINE fine == {item \in Range(run.asked) : \A f \in Range(Own.failed) : f.src # item.src}
    <3>1. SecondDone = Among(run.asked, fine)
      BY DEF SecondDone
    <3> HIDE DEF fine
    <3> QED
      BY <2>2, <2>5, <3>1, AmongListed
  <2>7. e = a
    BY <2>1, <2>2, <2>5, <2>6, OneOfAnId DEF SameItem
  <2> QED
    BY <1>2, <1>5, <2>1, <2>5, <2>7 DEF SameItem
<1>6. CASE run.pass = 2 /\ d \in Range(run.first.done)
  BY <1>2, <1>6
<1> QED
  BY <1>3, <1>4, <1>5, <1>6 DEF AllDone

\* The record of a delete that ends tells of what is there; the undo of one takes its record off.
LEMMA FinishesKept ==
    ASSUME Inv, KeptOK, Finishes
    PROVE  KeptOK'
<1>1. OutcomeOK(Merged) /\ run.job # "none" /\ Over /\ Ends(Merged, FALSE)
  BY OutcomeMerged DEF Finishes
<1>2. /\ run' = Idle /\ UNCHANGED <<disk, emptied>> /\ (lost' <=> lost)
      /\ \/ Recoverable(Merged.done) = <<>> /\ UNCHANGED <<past, undone>>
         \/ \E rec : /\ Recorded(rec, Merged)
                     /\ \/ run.doing = "do" /\ past' = Append(past, rec) /\ undone' = <<>>
                        \/ run.doing = "undo" /\ past # <<>> /\ past' = Front(past) /\ undone' = <<rec>> \o undone
                        \/ run.doing = "redo" /\ undone # <<>> /\ past' = Append(past, rec) /\ undone' = Tail(undone)
  BY <1>1, EndsIs
<1>3. \A p : There(p)' <=> There(p)
  BY <1>2 DEF There, Exists
<1>4. past \in Seq(Records) /\ DOMAIN past = 1..Len(past) /\ Len(past) \in Nat
  BY LenProperties DEF Inv, HistoryOK
<1>5. /\ run.job \in {"rename", "delete", "restore"} /\ (run.job = "restore" <=> run.job # "rename" /\ run.doing = "undo")
  BY <1>1 DEF Inv, RunInv, RunOK, Runs, Phased
<1>6. CASE lost
  BY <1>2, <1>6 DEF KeptOK
<1>7. CASE ~lost
  <2>1. \A i \in DOMAIN past : past[i].job = "delete" => \A p \in HeldBy(past[i]) :
           There(p) \/ (run.job = "restore" /\ i = Len(past) /\ \E d \in AllDone : d.dst = p)
    BY <1>7 DEF KeptOK
  <2>2. run'.outcome = NoOutcome /\ run'.first = NoOutcome
    BY <1>2, IdleIs
  <2>3. CASE Recoverable(Merged.done) = <<>> /\ past' = past
    <3>1. ASSUME run.job = "restore", NEW d \in AllDone PROVE FALSE
      <4>1. PICK e \in Range(Merged.done) : e.dst = d.dst
        BY <1>1, <3>1, RestoredIsTold
      <4>2. Tells(run.job, run.plan, Merged.done)
        BY <1>1 DEF OutcomeOK
      <4>3. Merged.done \in Seq(Items) /\ e.dst \in Stores
        BY <3>1, <4>2 DEF Tells, Went
      <4>4. e.dst # Nowhere
        BY <4>3, FolderPlaces
      <4>5. e \in Range(Among(Merged.done, {x \in Range(Merged.done) : x.dst # Nowhere}))
        BY <4>3, <4>4, AmongListed
      <4> QED
        BY <2>3, <4>5, NoneListed DEF Recoverable
    <3> QED
      BY <1>3, <2>1, <2>2, <2>3, <3>1, KeptNew
  <2>4. ASSUME NEW rec, Recorded(rec, Merged), run.doing # "undo", past' = Append(past, rec) PROVE KeptOK'
    <3>1. rec \in Records /\ rec.job = (IF run.job = "rename" THEN "rename" ELSE "delete")
          /\ Range(rec.done) \subseteq Range(Merged.done) /\ RecordOK(rec)
      BY <2>4 DEF Recorded, RecordOK
    <3>2. \A i \in DOMAIN past' : \/ i \in DOMAIN past /\ past'[i] = past[i]
                                  \/ i = Len(past) + 1 /\ past'[i] = rec
      BY <1>4, <2>4, <3>1, AppendIs
    <3>3. ASSUME rec.job = "delete", NEW p \in HeldBy(rec) PROVE There(p)
      <4>1. PICK d \in Range(rec.done) : d.dst = p
        BY <3>3, HeldByIs
      <4>2. run.job = "delete"
        BY <1>5, <2>4, <3>1, <3>3
      <4>3. d \in AllDone /\ d.dst \in Stores
        BY <1>1, <3>1, <3>3, <4>1, <4>2 DEF OutcomeOK, RecordOK
      <4> QED
        BY <1>7, <4>1, <4>2, <4>3 DEF KeptOK
    <3>4. run.job # "restore"
      BY <1>5, <2>4
    <3> QED
      BY <1>3, <2>1, <2>2, <3>2, <3>3, <3>4, KeptNew
  <2>5. CASE past # <<>> /\ past' = Front(past)
    <3>1. \A i \in DOMAIN past' : past'[i] = past[i] /\ i \in DOMAIN past /\ i # Len(past)
      <4>1. Len(past') = Len(past) - 1 /\ past' \in Seq(Records) /\ \A i \in DOMAIN past' : past'[i] = past[i] /\ i \in DOMAIN past
        BY <1>4, <2>5, FrontIs
      <4>2. DOMAIN past' = 1..Len(past')
        BY <4>1, LenProperties
      <4> QED
        BY <1>4, <4>1, <4>2
    <3> QED
      BY <1>3, <2>1, <2>2, <3>1, KeptNew
  <2> QED
    BY <1>2, <2>3, <2>4, <2>5
<1> QED
  BY <1>6, <1>7

\* Of where nothing is under way, all is there.
LEMMA IdleKept ==
    ASSUME Inv, KeptOK, run.job = "none", ~lost, NEW i \in DOMAIN past, past[i].job = "delete", NEW p \in HeldBy(past[i])
    PROVE  There(p)
BY DEF KeptOK

\* When an operation begins, all that is held is there.
LEMMA BeginsKept ==
    ASSUME Inv, KeptOK, Operates \/ Undoes \/ Redoes
    PROVE  KeptOK'
<1>1. /\ run.job = "none" /\ UNCHANGED <<disk, past, lost, emptied>>
      /\ \E job, doing, plan : run' = Onward(Pass(job, doing, plan))
  <2>1. run.job = "none" /\ \E job, doing, plan : Begins(Pass(job, doing, plan))
    <3>1. CASE Operates
      BY <3>1 DEF Operates, NoRun
    <3>2. CASE Undoes
      BY <3>2 DEF Undoes, NoRun
    <3>3. CASE Redoes
      BY <3>3 DEF Redoes, NoRun
    <3> QED
      BY <3>1, <3>2, <3>3
  <2> QED
    BY <2>1 DEF Begins, historyVars, userVars
<1>2. run'.outcome = NoOutcome /\ run'.first = NoOutcome
  <2>1. PICK job, doing, plan : run' = Onward(Pass(job, doing, plan))
    BY <1>1
  <2>2. PICK q : q = Pass(job, doing, plan) /\ run' = Onward(q)
    BY <2>1
  <2>3. q.outcome = NoOutcome /\ q.first = NoOutcome
    BY <2>2 DEF Pass
  <2> QED
    BY <2>2, <2>3 DEF Onward
<1>3. CASE lost
  BY <1>1, <1>3 DEF KeptOK
<1>4. CASE ~lost
  <2>1. \A p : There(p)' <=> There(p)
    BY <1>1 DEF There, Exists
  <2> QED
    BY <1>1, <1>2, <1>4, <2>1, IdleKept, KeptNew
<1> QED
  BY <1>3, <1>4

\* What is forgotten with a record is none of another's.
LEMMA ForgetsKept ==
    ASSUME Inv, KeptOK, Forgets
    PROVE  KeptOK'
<1>1. /\ run.job = "none" /\ past # <<>> /\ disk' = Without(HeldIn(Head(past).stagings)) /\ past' = Tail(past)
      /\ run' = run /\ lost' = lost /\ emptied' = emptied
  BY DEF Forgets, NoRun, userVars
<1>2. past \in Seq(Records) /\ HeldOK /\ run = Idle
  BY <1>1 DEF Inv, HistoryOK, RunInv, RunOK
<1>3. \A i \in DOMAIN past' : past'[i] = past[i + 1] /\ i + 1 \in DOMAIN past /\ i \in Nat
  BY <1>1, <1>2, TailIs
<1>4. run'.outcome = NoOutcome /\ run'.first = NoOutcome
  BY <1>1, <1>2, IdleIs
<1>5. CASE lost
  BY <1>1, <1>5 DEF KeptOK
<1>6. CASE ~lost
  <2>1. SUFFICES ASSUME NEW i \in DOMAIN past', past'[i].job = "delete", NEW p \in HeldBy(past'[i])
                 PROVE  There(p)'
    BY <1>4, KeptNew
  <2>2. There(p) /\ p \in Stores /\ p.no \in Numbers(past[i + 1])
    BY <1>1, <1>3, <1>6, <2>1, IdleKept, RecordsHold
  <2>3. DOMAIN disk' = DOMAIN disk \ HeldIn(Head(past).stagings)
    BY <1>1, WithoutIs
  <2>4. p \notin HeldIn(Head(past).stagings)
    <3>1. Head(past) = past[1] /\ 1 \in DOMAIN past
      BY <1>1, <1>2, EmptySeq, LenProperties
    <3>2. Head(past).stagings \subseteq Numbers(past[1]) /\ i + 1 # 1
      <4>1. \A o : o.stagings \subseteq Numbers(o)
        BY DEF Numbers
      <4>2. past' \in Seq(Records)
        BY <1>1, <1>2, TailIs
      <4>3. i \in 1..Len(past') /\ Len(past') \in Nat
        BY <4>2, LenProperties
      <4>4. i \in Nat /\ 1 <= i
        BY <4>3
      <4> QED
        BY <3>1, <4>1, <4>4
    <3>3. Numbers(past[i + 1]) \intersect Numbers(past[1]) = {}
      BY <1>2, <1>3, <3>1, <3>2 DEF HeldOK
    <3> QED
      BY <2>2, <3>2, <3>3 DEF HeldIn
  <2> QED
    BY <1>1, <2>2, <2>3, <2>4 DEF There, Exists
<1> QED
  BY <1>5, <1>6

\* The steps of a pass, and the beginning of the second.
LEMMA BatchKept ==
    ASSUME Inv, KeptOK, BatchActs
    PROVE  KeptOK'
<1>1. UNCHANGED <<past, lost, emptied>>
  BY DEF BatchActs, historyVars, userVars
<1>2. CASE Accepts
  <2>1. /\ run'.outcome = NoOutcome /\ run'.first = run.outcome /\ run'.job = run.job /\ disk' = disk /\ run.pass = 1
    BY <1>2, AcceptsKeeps DEF Accepts, Same, Inv, DiskOK
  <2>2. run.first = NoOutcome
    BY <2>1 DEF Inv, RunInv, RunOK
  <2>3. AllDone' = AllDone
    BY <2>1, <2>2 DEF AllDone
  <2> QED
    BY <1>1, <2>1, <2>3, KeptRest, StaysThere DEF There, Exists
<1>3. CASE RenameActs \/ DeleteActs \/ Restores \/ RestoreFails
  <2>1. /\ run'.job = run.job /\ run'.first = run.first
        /\ \/ Stays
           \/ \E h, to : Shifts(h, to)
           \/ \E h, from, to, d : Lands(h, from, to, d)
           \/ \E h, d : GoneForGood(h, d)
    BY <1>3, PassActs DEF Inv
  <2> QED
    BY <1>1, <2>1, PassKept
<1> QED
  BY <1>2, <1>3 DEF BatchActs

\* Every step keeps it.
LEMMA KeptKeeps ==
    ASSUME Inv, KeptOK, [Next]_vars
    PROVE  KeptOK'
<1>1. CASE HelperLost
  <2>1. lost'
    BY <1>1 DEF HelperLost, Ends
  <2> QED
    BY <2>1 DEF KeptOK
<1>2. CASE Killed
  <2>1. run' = Idle /\ past' = <<>>
    BY <1>2 DEF Killed
  <2>2. DOMAIN past' = {} /\ run'.outcome = NoOutcome /\ run'.first = NoOutcome
    BY <2>1, IdleIs
  <2> QED
    BY <2>2, KeptNew
<1>3. CASE UNCHANGED vars
  <2>1. UNCHANGED <<disk, run, past, lost, emptied>>
    BY <1>3 DEF vars, batchVars, historyVars, userVars
  <2> QED
    BY <2>1 DEF KeptOK, There, Exists, HeldBy, AllDone
<1> QED
  BY <1>1, <1>2, <1>3, BeginsKept, BatchKept, FinishesKept, MeddlesKept, ForgetsKept DEF Next

\* At first nothing is held.
LEMMA KeptAtFirst == Init => KeptOK
<1> SUFFICES ASSUME Init PROVE KeptOK
  OBVIOUS
<1>1. past = <<>> /\ run = Idle
  BY DEF Init
<1> QED
  BY <1>1, IdleIs DEF KeptOK

(***************************************************************************)
(* What the history tells of the folder.                                   *)
(***************************************************************************)
\* Sources and targets of what was done, as the user sees them; it leads from the one view to
\* the other.
Srcs(done) == {<<d.src.name, d.id>> : d \in Range(done)}
Dsts(done) == {<<d.dst.name, d.id>> : d \in {e \in Range(done) : e.dst \in Folder}}
Turns(done, a, b) == Srcs(done) \subseteq a /\ Dsts(done) \subseteq b /\ a \ Srcs(done) = b \ Dsts(done)
\* An undone rename is recorded as it went, an undone delete as it was.
TurnsBack(rec) == IF rec.job = "rename" THEN Turns(rec.done, rec.after, rec.before)
                  ELSE Turns(rec.done, rec.before, rec.after)

At(p, id) == Exists(p) /\ disk[p] = id
\* Where what is not done stands; of a first pass, what it could not do and is not tried again.
Left  == {<<f.id, f.from>> : f \in {g \in Range(run.first.failed) : run.pass = 2 /\ ~g.denied}}
Where == Spots(run) \union Left
DoneIds == {d.id : d \in AllDone}
\* What is not in the folder under a name of the user's.
OutOf(ids, where) == ids \union {s[1] : s \in {t \in where : t[2] \notin Folder}}
Out == OutOf(DoneIds, Where)
Landed == IF run.job = "restore" THEN {<<d.src.name, d.id>> : d \in AllDone}
          ELSE {<<d.dst.name, d.id>> : d \in {e \in AllDone : e.dst \in Folder}}
View == IF NoRun THEN Looks(disk) ELSE begun

\* The views of the records join up, up to what the operation under way began with.
LineOK ==
    /\ \A i \in DOMAIN past : /\ Turns(past[i].done, past[i].before, past[i].after)
                              /\ i > 1 => past[i - 1].after = past[i].before
    /\ \A i \in DOMAIN undone : /\ TurnsBack(undone[i])
                                /\ i > 1 => undone[i - 1].after = undone[i].before
    /\ past # <<>> => Last(past).after = View
    /\ undone # <<>> => Head(undone).before = View
\* What a delete holds is where it was put, but for what is put back.
HoldsOK ==
    \A i \in DOMAIN past : past[i].job = "delete" => \A d \in Range(past[i].done) :
        At(d.dst, d.id) \/ (run.job = "restore" /\ i = Len(past) /\ d.id \in DoneIds)
\* The folder is what it was, less what is done or stands aside, with what has come.
ViewOK ==
    ~NoRun =>
        /\ Looks(disk) = {x \in begun : x[2] \notin Out} \union Landed
        /\ \A x, y \in begun : x[2] = y[2] => x = y
        /\ run.job # "restore" => Srcs(run.plan) \subseteq begun /\ \A s \in Where : At(s[2], s[1])
        /\ run.job = "restore" => \A a \in Range(run.plan) :
              (\A x \in begun : x[2] # a.id) /\ (At(a.dst, a.id) \/ a.id \in DoneIds)
        /\ run.job = "delete" => \A d \in AllDone : d.dst \in Stores => At(d.dst, d.id)
TrueOK  == LineOK /\ HoldsOK /\ ViewOK
CleanOK == clean => TrueOK

\* What the user sees is what is in the folder, each entry once.
LEMMA LooksAre ==
    ASSUME DiskOK
    PROVE  /\ \A x, y \in Looks(disk) : x[2] = y[2] => x = y
           /\ \A p \in Folder : \A id : <<p.name, id>> \in Looks(disk) <=> At(p, id)
           /\ \A x \in Looks(disk) : \E p \in Folder : x = <<p.name, disk[p]>> /\ At(p, x[2])
<1>1. \A x \in Looks(disk) : \E p \in DOMAIN disk : p.at = "folder" /\ x = <<p.name, disk[p]>>
  BY DEF Looks
<1>2. \A p \in DOMAIN disk : p.at = "folder" => p \in Folder /\ <<p.name, disk[p]>> \in Looks(disk)
  BY DEF Looks, DiskOK
<1>3. \A x, y \in Looks(disk) : x[2] = y[2] => x = y
  <2> SUFFICES ASSUME NEW x \in Looks(disk), NEW y \in Looks(disk), x[2] = y[2] PROVE x = y
    OBVIOUS
  <2>1. PICK p \in DOMAIN disk : x = <<p.name, disk[p]>>
    BY <1>1
  <2>2. PICK q \in DOMAIN disk : y = <<q.name, disk[q]>>
    BY <1>1
  <2>3. p = q
    BY <2>1, <2>2 DEF DiskOK
  <2> QED
    BY <2>1, <2>2, <2>3
<1>4. ASSUME NEW p \in Folder, NEW id PROVE <<p.name, id>> \in Looks(disk) <=> At(p, id)
  <2>1. ASSUME At(p, id) PROVE <<p.name, id>> \in Looks(disk)
    BY <1>2, <2>1, FolderPlaces DEF At, Exists
  <2>2. ASSUME <<p.name, id>> \in Looks(disk) PROVE At(p, id)
    <3>1. PICK q \in DOMAIN disk : q.at = "folder" /\ <<p.name, id>> = <<q.name, disk[q]>>
      BY <1>1, <2>2
    <3>2. p.name = q.name /\ id = disk[q] /\ q \in Folder
      BY <1>2, <3>1
    <3>3. p = q
      BY <3>2, FolderPlaces
    <3> QED
      BY <3>2, <3>3 DEF At, Exists
  <2> QED
    BY <2>1, <2>2
<1>5. \A x \in Looks(disk) : \E p \in Folder : x = <<p.name, disk[p]>> /\ At(p, x[2])
  <2> TAKE x \in Looks(disk)
  <2>1. PICK p \in DOMAIN disk : p.at = "folder" /\ x = <<p.name, disk[p]>>
    BY <1>1
  <2> QED
    BY <1>2, <2>1 DEF At, Exists
<1> QED
  BY <1>3, <1>4, <1>5

\* An entry that is moved is seen where it is moved to, if that is in the folder.
LEMMA LooksMoved ==
    ASSUME DiskOK, NEW from, NEW to \in Places, Exists(from), ~Exists(to), disk' = Moved(from, to)
    PROVE  Looks(disk') = {x \in Looks(disk) : x[2] # disk[from]}
                          \union (IF to.at = "folder" THEN {<<to.name, disk[from]>>} ELSE {})
<1> DEFINE new == {x \in Looks(disk) : x[2] # disk[from]}
                  \union (IF to.at = "folder" THEN {<<to.name, disk[from]>>} ELSE {})
<1>1. /\ DOMAIN disk' = (DOMAIN disk \ {from}) \union {to} /\ disk'[to] = disk[from]
      /\ \A p \in DOMAIN disk \ {from} : p # to /\ p \in DOMAIN disk' /\ disk'[p] = disk[p]
  BY MovedIs
<1>2. \A p \in DOMAIN disk : disk[p] = disk[from] => p = from
  BY DEF DiskOK, Exists
<1>3. ASSUME NEW x \in Looks(disk') PROVE x \in new
  <2>1. PICK p \in DOMAIN disk' : p.at = "folder" /\ x = <<p.name, disk'[p]>>
    BY <1>3 DEF Looks
  <2>2. CASE p = to
    BY <1>1, <2>1, <2>2
  <2>3. CASE p # to
    <3>1. p \in DOMAIN disk \ {from} /\ disk'[p] = disk[p]
      BY <1>1, <2>1, <2>3
    <3>2. x[2] # disk[from]
      BY <1>2, <2>1, <3>1
    <3>3. x \in Looks(disk)
      BY <2>1, <3>1 DEF Looks
    <3> QED
      BY <3>2, <3>3
  <2> QED
    BY <2>2, <2>3
<1>4. ASSUME NEW x \in new PROVE x \in Looks(disk')
  <2>1. CASE x \in Looks(disk) /\ x[2] # disk[from]
    <3>1. PICK p \in DOMAIN disk : p.at = "folder" /\ x = <<p.name, disk[p]>>
      BY <2>1 DEF Looks
    <3>2. p # from
      BY <2>1, <3>1
    <3>3. p \in DOMAIN disk' /\ disk'[p] = disk[p]
      BY <1>1, <3>1, <3>2
    <3> QED
      BY <3>1, <3>3 DEF Looks
  <2>2. CASE to.at = "folder" /\ x = <<to.name, disk[from]>>
    BY <1>1, <2>2 DEF Looks
  <2> QED
    BY <1>4, <2>1, <2>2
<1> QED
  BY <1>3, <1>4

\* What goes from elsewhere is not missed in the folder; what goes from it is.
LEMMA LooksWithout ==
    ASSUME DiskOK, NEW S, disk' = Without(S)
    PROVE  /\ S \intersect Folder = {} => Looks(disk') = Looks(disk)
           /\ \A from \in DOMAIN disk : S = {from} => Looks(disk') = {x \in Looks(disk) : x[2] # disk[from]}
<1>1. DOMAIN disk' = DOMAIN disk \ S /\ \A p \in DOMAIN disk \ S : disk'[p] = disk[p]
  BY WithoutIs
<1>2. Looks(disk') = {<<p.name, disk[p]>> : p \in {q \in DOMAIN disk \ S : q.at = "folder"}}
  BY <1>1 DEF Looks
<1>3. ASSUME S \intersect Folder = {} PROVE Looks(disk') = Looks(disk)
  <2>1. \A p \in DOMAIN disk : p.at = "folder" => p \notin S
    BY <1>3 DEF DiskOK
  <2>2. {q \in DOMAIN disk \ S : q.at = "folder"} = {q \in DOMAIN disk : q.at = "folder"}
    BY <2>1
  <2> QED
    BY <1>2, <2>2 DEF Looks
<1>4. ASSUME NEW from \in DOMAIN disk, S = {from} PROVE Looks(disk') = {x \in Looks(disk) : x[2] # disk[from]}
  <2>1. \A p \in DOMAIN disk : p \notin S <=> disk[p] # disk[from]
    BY <1>4 DEF DiskOK
  <2>2. \A x \in Looks(disk') : x \in Looks(disk) /\ x[2] # disk[from]
    BY <1>2, <2>1 DEF Looks
  <2>3. \A x \in Looks(disk) : x[2] # disk[from] => x \in Looks(disk')
    BY <1>2, <2>1 DEF Looks
  <2> QED
    BY <2>2, <2>3
<1> QED
  BY <1>3, <1>4

\* An entry is where it was, unless it is the one that is moved or taken.
LEMMA AtMoved ==
    ASSUME NEW from, NEW to, Exists(from), ~Exists(to), disk' = Moved(from, to)
    PROVE  /\ \A p, id : At(p, id) /\ p # from => At(p, id)'
           /\ \A p, id : At(p, id) /\ id # disk[from] => At(p, id)'
           /\ \A id : id = disk[from] => At(to, id)'
<1>1. /\ DOMAIN disk' = (DOMAIN disk \ {from}) \union {to} /\ disk'[to] = disk[from]
      /\ \A p \in DOMAIN disk \ {from} : p # to /\ p \in DOMAIN disk' /\ disk'[p] = disk[p]
  BY MovedIs
<1>2. \A p, id : At(p, id) /\ p # from => At(p, id)'
  BY <1>1 DEF At, Exists
<1>3. \A id : id = disk[from] => At(to, id)'
  BY <1>1 DEF At, Exists
<1>4. \A p, id : At(p, id) /\ id # disk[from] => p # from
  BY DEF At
<1> QED
  BY <1>2, <1>3, <1>4

\* What is not taken away is where it was.
LEMMA AtWithout ==
    ASSUME NEW S, disk' = Without(S)
    PROVE  \A p, id : At(p, id) /\ p \notin S => At(p, id)'
<1>1. DOMAIN disk' = DOMAIN disk \ S /\ \A p \in DOMAIN disk \ S : disk'[p] = disk[p]
  BY WithoutIs
<1> QED
  BY <1>1 DEF At, Exists

\* One that is moved while it waits, or as it fails, is out of the folder if it is aside.
LEMMA OutTurns ==
    ASSUME NEW ids, NEW w, NEW w2, NEW id, NEW from, NEW to, id \notin ids, <<id, to>> \in w2,
           \A s \in w2 : s = <<id, to>> \/ (s \in w /\ s[1] # id), \A s \in w : s \in w2 \/ s = <<id, from>>
    PROVE  /\ to \notin Folder => OutOf(ids, w2) = OutOf(ids, w) \union {id}
           /\ to \in Folder => OutOf(ids, w2) = OutOf(ids, w) \ {id}
<1>1. \A x \in OutOf(ids, w2) : x \in OutOf(ids, w) \/ (x = id /\ to \notin Folder)
  <2> TAKE x \in OutOf(ids, w2)
  <2>1. CASE x \in ids
    BY <2>1 DEF OutOf
  <2>2. CASE x \in {s[1] : s \in {t \in w2 : t[2] \notin Folder}}
    <3>1. PICK s \in w2 : x = s[1] /\ s[2] \notin Folder
      BY <2>2
    <3>2. CASE s = <<id, to>>
      BY <3>1, <3>2
    <3>3. CASE s \in w
      BY <3>1, <3>3 DEF OutOf
    <3> QED
      BY <3>2, <3>3
  <2> QED
    BY <2>1, <2>2 DEF OutOf
<1>2. \A x \in OutOf(ids, w) : x # id => x \in OutOf(ids, w2)
  <2> SUFFICES ASSUME NEW x \in OutOf(ids, w), x # id PROVE x \in OutOf(ids, w2)
    OBVIOUS
  <2>1. CASE x \in ids
    BY <2>1 DEF OutOf
  <2>2. CASE x \in {s[1] : s \in {t \in w : t[2] \notin Folder}}
    <3>1. PICK s \in w : x = s[1] /\ s[2] \notin Folder
      BY <2>2
    <3>2. s \in w2
      BY <3>1
    <3> QED
      BY <3>1, <3>2 DEF OutOf
  <2> QED
    BY <2>1, <2>2 DEF OutOf
<1>3. ASSUME to \notin Folder PROVE id \in OutOf(ids, w2)
  <2>1. <<id, to>>[1] = id /\ <<id, to>>[2] = to
    OBVIOUS
  <2> QED
    BY <1>3, <2>1 DEF OutOf
<1>4. ASSUME to \in Folder PROVE id \notin OutOf(ids, w2)
  <2>1. \A s \in w2 : s[2] \notin Folder => s[1] # id
    BY <1>4
  <2> QED
    BY <2>1 DEF OutOf
<1> QED
  BY <1>1, <1>2, <1>3, <1>4

\* What a view becomes when an entry is done with or stands aside.
LEMMA ViewGoes ==
    ASSUME NEW view, NEW old, NEW out, NEW come, NEW id, NEW new,
           view = {x \in old : x[2] \notin out} \union come, \A x \in come : x[2] # id
    PROVE  {x \in view : x[2] # id} \union new = {x \in old : x[2] \notin out \union {id}} \union (come \union new)
OBVIOUS

\* Where what is left stands, and that it is none of what waits.
LEMMA WhereIs ==
    ASSUME RunInv(run, serial), run.job # "none"
    PROVE  /\ \A s \in Where : s[2] \in Folder \union Asides
           /\ run.job # "rename" => \A s \in Where : s[2] \in Folder
           /\ \A h \in Waiting(run) : \A s \in Left : s[1] # h.id
           /\ \A h \in Waiting(run) : h.src \in Folder => <<h.src.name, h.id>> \in Srcs(run.plan)
<1>1. /\ run \in Runs /\ Plan(run.job, run.plan) /\ Asks(run.job, run.asked) /\ Worked(run.job, run.asked, run.outcome)
      /\ Waits(run) /\ (run.pass = 2 => Second(run)) /\ (run.pass = 1 => run.asked = run.plan)
      /\ run.job \in {"rename", "delete", "restore"} /\ run.pass \in {1, 2}
  BY DEF RunInv, RunOK, Runs
<1>2. ASSUME NEW plan, Asks(run.job, plan), NEW e, Asked(e, plan), Stands(run.job, e, plan)
      PROVE  e.from \in Folder \union Asides /\ (run.job # "rename" => e.from \in Folder)
  <2>1. PICK a \in Range(plan) : e.src = a.src
    BY <1>2 DEF Asked, SameItem
  <2>2. Fits(run.job, a)
    BY <1>2 DEF Asks
  <2> QED
    BY <1>1, <1>2, <2>1, <2>2 DEF Fits, Stands
<1>3. \A e \in Waiting(run) : Asked(e, run.asked) /\ Stands(run.job, e, run.asked)
  BY <1>1 DEF Waits, AskedTo, Asked
<1>4. \A f \in Range(run.outcome.failed) : Asked(f, run.asked) /\ Stands(run.job, f, run.asked)
  BY <1>1 DEF Worked
<1>5. ASSUME run.pass = 2, NEW f \in Range(run.first.failed) PROVE Asked(f, run.plan) /\ Stands(run.job, f, run.plan)
  BY <1>1, <1>5 DEF Second, Worked
<1>6. Asks(run.job, run.plan)
  BY <1>1 DEF Plan
<1>7. \A e \in Waiting(run) \union Range(run.outcome.failed) : e.from \in Folder \union Asides /\ (run.job # "rename" => e.from \in Folder)
  BY <1>1, <1>2, <1>3, <1>4
<1>8. ASSUME run.pass = 2, NEW f \in Range(run.first.failed) PROVE f.from \in Folder \union Asides /\ (run.job # "rename" => f.from \in Folder)
  BY <1>2, <1>5, <1>6, <1>8
<1>9. \A s \in Where : s[2] \in Folder \union Asides /\ (run.job # "rename" => s[2] \in Folder)
  <2> TAKE s \in Where
  <2>1. CASE s \in Spots(run)
    <3>1. PICK e \in Waiting(run) \union Range(run.outcome.failed) : s = <<e.id, e.from>>
      BY <2>1 DEF Spots
    <3> QED
      BY <1>7, <3>1
  <2>2. CASE s \in Left
    <3>1. PICK f \in Range(run.first.failed) : s = <<f.id, f.from>> /\ run.pass = 2
      BY <2>2 DEF Left
    <3> QED
      BY <1>8, <3>1
  <2> QED
    BY <2>1, <2>2 DEF Where
<1>10. ASSUME NEW h \in Waiting(run), NEW s \in Left PROVE s[1] # h.id
  <2>1. PICK f \in Range(run.first.failed) : s = <<f.id, f.from>> /\ run.pass = 2 /\ ~f.denied
    BY <1>10 DEF Left
  <2>2. PICK a \in Range(run.asked) : h.id = a.id
    BY <1>3, <1>10 DEF Asked, SameItem
  <2>3. run.asked \in Seq(Items) /\ run.first.failed \in Seq(Failures) /\ Once(run.first.failed)
    BY <1>1, <2>1 DEF Runs, Outcomes, Second, Worked
  <2>4. a.id \in Ids(run.asked)
    BY <2>2, <2>3, ListIs
  <2>5. PICK g \in Range(run.first.failed) : g.denied /\ g.id = a.id
    BY <1>1, <2>1, <2>4 DEF Second
  <2>6. f.id # g.id
    <3>1. f # g
      BY <2>1, <2>5
    <3> QED
      BY <2>3, <3>1, OneOfAnId
  <2> QED
    BY <2>1, <2>2, <2>5, <2>6
<1>11. ASSUME NEW h \in Waiting(run), h.src \in Folder PROVE <<h.src.name, h.id>> \in Srcs(run.plan)
  <2>1. PICK a \in Range(run.asked) : h.id = a.id /\ h.src = a.src
    BY <1>3, <1>11 DEF Asked, SameItem
  <2>2. CASE run.pass = 1
    BY <1>1, <2>1, <2>2 DEF Srcs
  <2>3. CASE run.pass = 2
    <3>1. PICK p \in Range(run.plan) : \E f \in Range(run.first.failed) :
              /\ p.id = a.id /\ f.id = a.id /\ f.src = p.src
              /\ a.src = IF run.job = "rename" THEN f.from ELSE p.src
      BY <1>1, <2>3, AskedAgain
    <3>2. PICK f \in Range(run.first.failed) :
              /\ p.id = a.id /\ f.id = a.id /\ f.src = p.src
              /\ a.src = IF run.job = "rename" THEN f.from ELSE p.src
      BY <3>1
    <3>3. a.src = p.src
      <4>1. Stands(run.job, f, run.plan)
        BY <1>5, <2>3
      <4> QED
        BY <1>11, <2>1, <3>2, <4>1, FolderPlaces DEF Stands
    <3> QED
      BY <2>1, <3>2, <3>3 DEF Srcs
  <2> QED
    BY <1>1, <2>2, <2>3
<1> QED
  BY <1>9, <1>10, <1>11

\* What is held stays as it is but for what is put back.
LEMMA HoldsRest ==
    ASSUME Inv, HoldsOK, past' = past, run'.job = run.job, DoneIds \subseteq DoneIds',
           ASSUME NEW p \in Stores, NEW id, At(p, id), ~At(p, id)',
                  NEW i \in DOMAIN past, past[i].job = "delete", NEW d \in Range(past[i].done), d.dst = p, d.id = id
           PROVE  run.job = "restore" /\ i = Len(past) /\ id \in DoneIds'
    PROVE  HoldsOK'
<1>1. ASSUME NEW i \in DOMAIN past, past[i].job = "delete", NEW d \in Range(past[i].done)
      PROVE  At(d.dst, d.id)' \/ (run.job = "restore" /\ i = Len(past) /\ d.id \in DoneIds')
  <2>1. d.dst \in Stores
    BY <1>1, RecordsHold DEF RecordOK
  <2>2. At(d.dst, d.id) \/ (run.job = "restore" /\ i = Len(past) /\ d.id \in DoneIds)
    BY <1>1 DEF HoldsOK
  <2>3. PICK p \in Stores : p = d.dst
    BY <2>1
  <2>4. PICK id : id = d.id
    OBVIOUS
  <2> QED
    BY <1>1, <2>2, <2>3, <2>4
<1> QED
  BY <1>1 DEF HoldsOK, At, Exists, DoneIds, AllDone

\* The line of records, while an operation is under way.
LEMMA LineRests ==
    ASSUME LineOK, UNCHANGED <<past, undone, begun>>, run.job # "none", run'.job = run.job
    PROVE  LineOK'
<1>1. View' = View
  BY DEF View, NoRun
<1> QED
  BY <1>1 DEF LineOK, Turns, TurnsBack, Srcs, Dsts

\* What has to be seen of a step of a pass for the view to stay true.
LEMMA Views ==
    ASSUME ViewOK, run.job # "none", run'.job = run.job, run'.plan = run.plan, begun' = begun, DoneIds \subseteq DoneIds',
           Looks(disk') = {x \in begun : x[2] \notin Out'} \union Landed',
           run.job # "restore" => \A s \in Where' : At(s[2], s[1])',
           run.job = "restore" => \A a \in Range(run.plan) : At(a.dst, a.id) => At(a.dst, a.id)' \/ a.id \in DoneIds',
           run.job = "delete" => \A d \in AllDone' : d.dst \in Stores => At(d.dst, d.id)'
    PROVE  ViewOK'
<1>1. Looks(disk)' = {x \in begun' : x[2] \notin Out'} \union Landed'
  BY DEF Looks
<1>2. \A x, y \in begun' : x[2] = y[2] => x = y
  BY DEF ViewOK, NoRun
<1>3. run'.job # "restore" => Srcs(run'.plan) \subseteq begun' /\ \A s \in Where' : At(s[2], s[1])'
  BY DEF ViewOK, NoRun
<1>4. run'.job = "restore" => \A a \in Range(run'.plan) :
              (\A x \in begun' : x[2] # a.id) /\ (At(a.dst, a.id)' \/ a.id \in DoneIds')
  BY DEF ViewOK, NoRun
<1>5. Srcs(run.plan)' = Srcs(run'.plan)
  BY DEF Srcs
<1> QED
  BY <1>1, <1>2, <1>3, <1>4, <1>5 DEF ViewOK, At, Exists

\* A step that moves nothing.
LEMMA StaysTrue ==
    ASSUME Inv, TrueOK, run.job # "none", Stays, run'.job = run.job, run'.pass = run.pass, run'.plan = run.plan,
           run'.first = run.first, UNCHANGED <<past, undone, begun>>
    PROVE  TrueOK'
<1>1. LineOK' /\ ViewOK /\ HoldsOK
  BY LineRests DEF TrueOK
<1>2. disk' = disk /\ AllDone' = AllDone /\ Left' = Left
  BY DEF Stays, Same, AllDone, Left
<1>3. DoneIds' = DoneIds /\ Landed' = Landed
  BY <1>2 DEF DoneIds, Landed
<1>4. Where' \subseteq Where /\ \A s \in Where \ Where' : s[2] \in Folder
  BY <1>2 DEF Stays, Where
<1>5. Out' = Out
  <2>1. {s[1] : s \in {t \in Where' : t[2] \notin Folder}} = {s[1] : s \in {t \in Where : t[2] \notin Folder}}
    BY <1>4
  <2> QED
    BY <1>3, <2>1 DEF Out, OutOf
<1>6. \A p, id : At(p, id)' <=> At(p, id)
  BY <1>2 DEF At, Exists
<1>7. HoldsOK'
  BY <1>1, <1>3, <1>6, HoldsRest
<1>8. ViewOK'
  <2>1. Looks(disk') = {x \in begun : x[2] \notin Out'} \union Landed'
    BY <1>1, <1>2, <1>3, <1>5 DEF ViewOK, NoRun
  <2>2. run.job # "restore" => \A s \in Where' : At(s[2], s[1])'
    BY <1>1, <1>4, <1>6 DEF ViewOK, NoRun
  <2>3. run.job = "delete" => \A d \in AllDone' : d.dst \in Stores => At(d.dst, d.id)'
    BY <1>1, <1>2, <1>6 DEF ViewOK, NoRun
  <2> QED
    BY <1>1, <1>3, <1>6, <2>1, <2>2, <2>3, Views
<1> QED
  BY <1>1, <1>7, <1>8 DEF TrueOK

\* Nothing that is done has landed under the id of what is not.
LEMMA LandedIds == \A x \in Landed : x[2] \in DoneIds
BY DEF Landed, DoneIds

\* An entry that steps aside, or is put back.
LEMMA ShiftsTrue ==
    ASSUME Inv, TrueOK, NEW h, NEW to, Shifts(h, to), run'.job = run.job, run'.pass = run.pass, run'.plan = run.plan,
           run'.first = run.first, UNCHANGED <<past, undone, begun>>
    PROVE  TrueOK'
<1>1. /\ run.job = "rename" /\ h \in Waiting(run) /\ Exists(h.from) /\ ~Exists(to) /\ disk' = Moved(h.from, to)
      /\ Range(run'.outcome.done) = Range(run.outcome.done)
      /\ h.from \in Folder \union Asides /\ to \in Folder \union Asides /\ (to = h.src \/ to \in Asides)
      /\ \A s \in Spots(run') : s = <<h.id, to>> \/ (s \in Spots(run) /\ s[1] # h.id)
      /\ Spots(run) \subseteq Spots(run') \union {<<h.id, h.from>>} /\ <<h.id, to>> \in Spots(run')
      /\ \A e \in AllDone : e.id # h.id
  BY DEF Shifts
<1>2. LineOK' /\ ViewOK /\ HoldsOK /\ DiskOK /\ RunInv(run, serial)
  BY <1>1, LineRests DEF TrueOK, Inv
<1>3. AllDone' = AllDone /\ Left' = Left
  BY <1>1 DEF AllDone, Left
<1>4. DoneIds' = DoneIds /\ Landed' = Landed /\ h.id \notin DoneIds
  BY <1>1, <1>3 DEF DoneIds, Landed
<1>5. /\ \A s \in Left : s[1] # h.id
      /\ h.src \in Folder => <<h.src.name, h.id>> \in Srcs(run.plan)
  BY <1>1, <1>2, WhereIs
<1>6. /\ \A s \in Where' : s = <<h.id, to>> \/ (s \in Where /\ s[1] # h.id)
      /\ \A s \in Where : s \in Where' \/ s = <<h.id, h.from>>
      /\ <<h.id, to>> \in Where' /\ <<h.id, h.from>> \in Where
  <2>1. <<h.id, h.from>> \in Spots(run)
    BY <1>1 DEF Spots
  <2>2. Where = Spots(run) \union Left /\ Where' = Spots(run') \union Left
    BY <1>3 DEF Where, Spots, Waiting
  <2> QED
    BY <1>1, <1>5, <2>1, <2>2
<1>7. At(h.from, h.id) /\ \A s \in Where : At(s[2], s[1])
  <2>1. \A s \in Where : At(s[2], s[1])
    BY <1>1, <1>2 DEF ViewOK, NoRun
  <2>2. <<h.id, h.from>>[1] = h.id /\ <<h.id, h.from>>[2] = h.from
    OBVIOUS
  <2> QED
    BY <1>6, <2>1, <2>2
<1>8. disk[h.from] = h.id
  BY <1>7 DEF At
<1>9. /\ \A p, id : At(p, id) /\ p # h.from => At(p, id)'
      /\ \A p, id : At(p, id) /\ id # h.id => At(p, id)'
      /\ At(to, h.id)'
  BY <1>1, <1>8, AtMoved
<1>10. /\ to \notin Folder => Out' = Out \union {h.id}
       /\ to \in Folder => Out' = Out \ {h.id}
  <2>1. /\ to \notin Folder => OutOf(DoneIds, Where') = OutOf(DoneIds, Where) \union {h.id}
        /\ to \in Folder => OutOf(DoneIds, Where') = OutOf(DoneIds, Where) \ {h.id}
    BY <1>4, <1>6, OutTurns
  <2> QED
    BY <1>4, <2>1 DEF Out, OutOf
<1>11. to \in Places /\ (to.at = "folder" <=> to \in Folder)
  BY <1>1, FolderPlaces
<1>12. Looks(disk') = {x \in Looks(disk) : x[2] # h.id} \union (IF to.at = "folder" THEN {<<to.name, h.id>>} ELSE {})
  BY <1>1, <1>2, <1>8, <1>11, LooksMoved
<1>13. Looks(disk) = {x \in begun : x[2] \notin Out} \union Landed /\ \A x, y \in begun : x[2] = y[2] => x = y
  BY <1>1, <1>2 DEF ViewOK, NoRun
<1>14. \A x \in Landed : x[2] # h.id
  BY <1>4, LandedIds
<1>15. Looks(disk') = {x \in begun : x[2] \notin Out'} \union Landed'
  <2>1. CASE to \notin Folder
    <3>1. {x \in Looks(disk) : x[2] # h.id} \union {} = {x \in begun : x[2] \notin Out \union {h.id}} \union (Landed \union {})
      BY <1>13, <1>14, ViewGoes
    <3> QED
      BY <1>4, <1>10, <1>11, <1>12, <2>1, <3>1
  <2>2. CASE to \in Folder
    <3>1. to = h.src
      BY <1>1, <2>2, FolderPlaces
    <3>2. <<to.name, h.id>> \in begun
      BY <1>1, <1>2, <1>5, <2>2, <3>1 DEF ViewOK, NoRun
    <3>3. {x \in Looks(disk) : x[2] # h.id} \union {<<to.name, h.id>>} = {x \in begun : x[2] \notin Out \ {h.id}} \union Landed
      <4>1. PICK name : name = to.name
        OBVIOUS
      <4>2. PICK id : id = h.id
        OBVIOUS
      <4>3. Looks(disk) = {x \in begun : x[2] \notin Out} \union Landed
        BY <1>13
      <4>4. \A x, y \in begun : x[2] = y[2] => x = y
        BY <1>13
      <4>5. \A x \in Landed : x[2] # id
        BY <1>14, <4>2
      <4>6. <<name, id>> \in begun
        BY <3>2, <4>1, <4>2
      <4>7. {x \in Looks(disk) : x[2] # id} \union {<<name, id>>} = {x \in begun : x[2] \notin Out \ {id}} \union Landed
        <5>1. <<name, id>>[2] = id
          OBVIOUS
        <5>2. \A x \in begun : x[2] = id => x = <<name, id>>
          BY <4>4, <4>6, <5>1
        <5> QED
          BY <4>3, <4>5, <4>6, <5>1, <5>2
      <4> QED
        BY <4>1, <4>2, <4>7
    <3> QED
      BY <1>4, <1>10, <1>11, <1>12, <2>2, <3>3
  <2> QED
    BY <2>1, <2>2
<1>16. \A s \in Where' : At(s[2], s[1])'
  <2> TAKE s \in Where'
  <2>1. CASE s = <<h.id, to>>
    BY <1>9, <2>1
  <2>2. CASE s \in Where /\ s[1] # h.id
    BY <1>7, <1>9, <2>2
  <2> QED
    BY <1>6, <2>1, <2>2
<1>17. ViewOK'
  BY <1>1, <1>2, <1>4, <1>15, <1>16, Views
<1>18. HoldsOK'
  BY <1>1, <1>2, <1>4, <1>9, HoldsRest, FolderPlaces
<1> QED
  BY <1>2, <1>17, <1>18 DEF TrueOK

\* What an entry that is done with changes of the lists.
LEMMA LeavesThere ==
    ASSUME RunInv(run, serial), run.job # "none", NEW h, NEW d, Leaves(h, d), run'.pass = run.pass, run'.first = run.first
    PROVE  /\ AllDone' = AllDone \union {d} /\ DoneIds' = DoneIds \union {h.id} /\ h.id \notin DoneIds
           /\ \A s \in Where' : s \in Where /\ s[1] # h.id
           /\ <<h.id, h.from>> \in Where
           /\ Out' = Out \union {h.id}
<1>1. /\ h \in Waiting(run) /\ d.id = h.id
      /\ Range(run'.outcome.done) = Range(run.outcome.done) \union {d}
      /\ \A s \in Spots(run') : s \in Spots(run) /\ s[1] # h.id
      /\ Spots(run) \subseteq Spots(run') \union {<<h.id, h.from>>}
      /\ \A e \in AllDone : e.id # h.id
  BY DEF Leaves
<1>2. AllDone' = AllDone \union {d} /\ Left' = Left
  BY <1>1 DEF AllDone, Left
<1>3. DoneIds' = DoneIds \union {h.id} /\ h.id \notin DoneIds
  BY <1>1, <1>2 DEF DoneIds
<1>4. \A s \in Left : s[1] # h.id
  BY <1>1, WhereIs
<1>5. <<h.id, h.from>> \in Spots(run)
  BY <1>1 DEF Spots
<1>6. Where = Spots(run) \union Left /\ Where' = Spots(run') \union Left
  BY <1>2 DEF Where, Spots, Waiting
<1>7. /\ \A s \in Where' : s \in Where /\ s[1] # h.id
      /\ \A s \in Where : s \in Where' \/ s = <<h.id, h.from>>
      /\ <<h.id, h.from>> \in Where
  BY <1>1, <1>4, <1>5, <1>6
<1>8. \A x \in Out' : x \in Out \union {h.id}
  BY <1>3, <1>7 DEF Out, OutOf
<1>9. \A x \in Out \union {h.id} : x \in Out'
  <2> TAKE x \in Out \union {h.id}
  <2>1. CASE x \in DoneIds \/ x = h.id
    BY <1>3, <2>1 DEF Out, OutOf
  <2>2. CASE x \in {s[1] : s \in {t \in Where : t[2] \notin Folder}}
    <3>1. PICK s \in Where : x = s[1] /\ s[2] \notin Folder
      BY <2>2
    <3>2. CASE s \in Where'
      BY <3>1, <3>2 DEF Out, OutOf
    <3>3. CASE s = <<h.id, h.from>>
      BY <1>3, <3>1, <3>3 DEF Out, OutOf
    <3> QED
      BY <1>7, <3>2, <3>3
  <2> QED
    BY <2>1, <2>2 DEF Out, OutOf
<1>10. Out' = Out \union {h.id}
  BY <1>8, <1>9
<1> QED
  BY <1>2, <1>3, <1>7, <1>10

\* What stands in the folder or aside is where the lists say.
LEMMA StandsAt ==
    ASSUME ViewOK, run.job \notin {"none", "restore"}, NEW id, NEW p, <<id, p>> \in Where
    PROVE  At(p, id)
<1>1. <<id, p>>[1] = id /\ <<id, p>>[2] = p
  OBVIOUS
<1> QED
  BY <1>1 DEF ViewOK, NoRun

\* An entry that is renamed, held or restored.
LEMMA LandsTrue ==
    ASSUME Inv, TrueOK, run.job # "none", NEW h, NEW from, NEW to, NEW d, Lands(h, from, to, d),
           run'.job = run.job, run'.pass = run.pass, run'.plan = run.plan,
           run'.first = run.first, UNCHANGED <<past, undone, begun>>
    PROVE  TrueOK'
<1>1. /\ Leaves(h, d) /\ d.id = h.id /\ d.src = h.src /\ Exists(from) /\ ~Exists(to) /\ disk' = Moved(from, to)
      /\ \/ run.job = "rename" /\ from = h.from /\ from \in Folder \union Asides /\ to = d.dst /\ to \in Folder
         \/ run.job = "restore" /\ from = d.dst /\ from \in Stores /\ to = d.src /\ to \in Folder /\ AskedTo(d, run.asked)
         \/ run.job = "delete" /\ from = h.from /\ from \in Folder /\ to = d.dst /\ to \in Stores
  BY DEF Lands, Leaves
<1>2. LineOK' /\ ViewOK /\ HoldsOK /\ DiskOK /\ RunInv(run, serial)
  BY <1>1, LineRests DEF TrueOK, Inv
<1>3. /\ AllDone' = AllDone \union {d} /\ DoneIds' = DoneIds \union {h.id} /\ h.id \notin DoneIds
      /\ \A s \in Where' : s \in Where /\ s[1] # h.id
      /\ <<h.id, h.from>> \in Where
      /\ Out' = Out \union {h.id}
  BY <1>1, <1>2, LeavesThere
<1>4. disk[from] = h.id
  <2>1. CASE run.job = "restore"
    <3>1. /\ Len(past) \in DOMAIN past /\ past[Len(past)].job = "delete"
          /\ \E a \in Range(past[Len(past)].done) : a.dst = d.dst /\ a.id = d.id
      BY <1>1, <2>1, RestoredIsLasts
    <3>2. At(d.dst, d.id) \/ d.id \in DoneIds
      BY <1>2, <3>1 DEF HoldsOK
    <3> QED
      BY <1>1, <1>3, <2>1, <3>2 DEF At
  <2>2. CASE run.job # "restore"
    <3>1. At(h.from, h.id)
      BY <1>2, <1>3, <2>2, StandsAt
    <3> QED
      BY <1>1, <2>2, <3>1 DEF At
  <2> QED
    BY <2>1, <2>2
<1>5. /\ \A p, id : At(p, id) /\ p # from => At(p, id)'
      /\ \A p, id : At(p, id) /\ id # h.id => At(p, id)'
      /\ At(to, h.id)'
  BY <1>1, <1>4, AtMoved
<1>6. to \in Places /\ (to.at = "folder" <=> to \in Folder)
  BY <1>1, FolderPlaces
<1> DEFINE new == IF to.at = "folder" THEN {<<to.name, h.id>>} ELSE {}
<1>7. Looks(disk') = {x \in Looks(disk) : x[2] # h.id} \union new
  BY <1>1, <1>2, <1>4, <1>6, LooksMoved
<1>8. Landed' = Landed \union new
  <2>1. CASE run.job = "rename"
    <3>1. to \in Folder /\ to = d.dst
      BY <1>1, <2>1
    <3> QED
      BY <1>1, <1>3, <1>6, <2>1, <3>1 DEF Landed
  <2>2. CASE run.job = "restore"
    <3>1. to \in Folder /\ to = d.src
      BY <1>1, <2>2
    <3> QED
      BY <1>1, <1>3, <1>6, <2>2, <3>1 DEF Landed
  <2>3. CASE run.job = "delete"
    <3>1. to \notin Folder /\ to = d.dst
      BY <1>1, <2>3, FolderPlaces
    <3> QED
      BY <1>1, <1>3, <1>6, <2>3, <3>1 DEF Landed
  <2> QED
    BY <1>1, <2>1, <2>2, <2>3
<1> HIDE DEF new
<1>9. Looks(disk) = {x \in begun : x[2] \notin Out} \union Landed
  BY <1>1, <1>2 DEF ViewOK, NoRun
<1>10. \A x \in Landed : x[2] # h.id
  BY <1>3, LandedIds
<1>11. {x \in Looks(disk) : x[2] # h.id} \union new = {x \in begun : x[2] \notin Out \union {h.id}} \union (Landed \union new)
  BY <1>9, <1>10, ViewGoes
<1>12. Looks(disk') = {x \in begun : x[2] \notin Out'} \union Landed'
  BY <1>3, <1>7, <1>8, <1>11
<1>13. run.job # "restore" => \A s \in Where' : At(s[2], s[1])'
  <2> SUFFICES ASSUME run.job # "restore", NEW s \in Where' PROVE At(s[2], s[1])'
    OBVIOUS
  <2>1. At(s[2], s[1]) /\ s[1] # h.id
    BY <1>1, <1>2, <1>3 DEF ViewOK, NoRun
  <2> QED
    BY <1>5, <2>1
<1>14. run.job = "restore" => \A a \in Range(run.plan) : At(a.dst, a.id) => At(a.dst, a.id)' \/ a.id \in DoneIds'
  BY <1>3, <1>5
<1>15. run.job = "delete" => \A e \in AllDone' : e.dst \in Stores => At(e.dst, e.id)'
  <2> SUFFICES ASSUME run.job = "delete", NEW e \in AllDone', e.dst \in Stores PROVE At(e.dst, e.id)'
    OBVIOUS
  <2>1. CASE e = d
    BY <1>1, <1>5, <2>1
  <2>2. CASE e \in AllDone
    <3>1. At(e.dst, e.id) /\ e.id # h.id
      BY <1>2, <1>3, <2>2 DEF ViewOK, NoRun, DoneIds
    <3> QED
      BY <1>5, <3>1
  <2> QED
    BY <1>3, <2>1, <2>2
<1>16. ViewOK'
  BY <1>1, <1>2, <1>3, <1>12, <1>13, <1>14, <1>15, Views
<1>17. HoldsOK'
  <2>1. SUFFICES ASSUME NEW p \in Stores, NEW id, At(p, id), ~At(p, id)',
                        NEW i \in DOMAIN past, past[i].job = "delete", NEW e \in Range(past[i].done), e.dst = p, e.id = id
                 PROVE  run.job = "restore" /\ i = Len(past) /\ id \in DoneIds'
    BY <1>2, <1>3, HoldsRest
  <2>2. p = from /\ id = h.id
    BY <1>5, <2>1
  <2>3. run.job = "restore"
    BY <1>1, <2>1, <2>2, FolderPlaces
  <2>4. /\ Len(past) \in DOMAIN past /\ past[Len(past)].job = "delete"
        /\ \E a \in Range(past[Len(past)].done) : a.dst = d.dst
    BY <1>1, <2>3, RestoredIsLasts
  <2>5. from \in HeldBy(past[Len(past)]) /\ from \in HeldBy(past[i])
    BY <1>1, <2>1, <2>2, <2>3, <2>4, HeldByIs
  <2>6. from.no \in Numbers(past[Len(past)]) /\ from.no \in Numbers(past[i])
    BY <2>1, <2>4, <2>5, RecordsHold
  <2>7. i = Len(past)
    BY <2>1, <2>4, <2>6 DEF Inv, HeldOK
  <2> QED
    BY <1>3, <2>2, <2>3, <2>7
<1> QED
  BY <1>2, <1>16, <1>17 DEF TrueOK

\* An entry that is erased.
LEMMA GoneTrue ==
    ASSUME Inv, TrueOK, NEW h, NEW d, GoneForGood(h, d), run'.job = run.job, run'.pass = run.pass, run'.plan = run.plan,
           run'.first = run.first, UNCHANGED <<past, undone, begun>>
    PROVE  TrueOK'
<1>1. /\ Leaves(h, d) /\ d.dst = Nowhere /\ run.job = "delete" /\ h.from \in Folder /\ Exists(h.from)
      /\ disk' = Without({h.from})
  BY DEF GoneForGood
<1>2. LineOK' /\ ViewOK /\ HoldsOK /\ DiskOK /\ RunInv(run, serial)
  BY <1>1, LineRests DEF TrueOK, Inv
<1>3. /\ AllDone' = AllDone \union {d} /\ DoneIds' = DoneIds \union {h.id} /\ h.id \notin DoneIds
      /\ \A s \in Where' : s \in Where /\ s[1] # h.id
      /\ <<h.id, h.from>> \in Where
      /\ Out' = Out \union {h.id}
  BY <1>1, <1>2, LeavesThere
<1>4. At(h.from, h.id) /\ disk[h.from] = h.id
  BY <1>1, <1>2, <1>3, StandsAt DEF At
<1>5. \A p, id : At(p, id) /\ p # h.from => At(p, id)'
  BY <1>1, AtWithout
<1>6. \A p, id : At(p, id) /\ id # h.id => At(p, id)'
  BY <1>4, <1>5 DEF At
<1>7. Looks(disk') = {x \in Looks(disk) : x[2] # h.id}
  BY <1>1, <1>2, <1>4, LooksWithout DEF Exists
<1>8. Landed' = Landed
  BY <1>1, <1>3, FolderPlaces DEF Landed
<1>9. Looks(disk) = {x \in begun : x[2] \notin Out} \union Landed
  BY <1>1, <1>2 DEF ViewOK, NoRun
<1>10. \A x \in Landed : x[2] # h.id
  BY <1>3, LandedIds
<1>11. {x \in Looks(disk) : x[2] # h.id} \union {} = {x \in begun : x[2] \notin Out \union {h.id}} \union (Landed \union {})
  BY <1>9, <1>10, ViewGoes
<1>12. Looks(disk') = {x \in begun : x[2] \notin Out'} \union Landed'
  BY <1>3, <1>7, <1>8, <1>11
<1>13. \A s \in Where' : At(s[2], s[1])'
  <2> TAKE s \in Where'
  <2>1. At(s[2], s[1]) /\ s[1] # h.id
    BY <1>1, <1>2, <1>3 DEF ViewOK, NoRun
  <2> QED
    BY <1>6, <2>1
<1>14. \A e \in AllDone' : e.dst \in Stores => At(e.dst, e.id)'
  <2> SUFFICES ASSUME NEW e \in AllDone', e.dst \in Stores PROVE At(e.dst, e.id)'
    OBVIOUS
  <2>1. e \in AllDone
    BY <1>1, <1>3, FolderPlaces
  <2>2. At(e.dst, e.id) /\ e.id # h.id
    BY <1>1, <1>2, <1>3, <2>1 DEF ViewOK, NoRun, DoneIds
  <2> QED
    BY <1>6, <2>2
<1>15. ViewOK'
  BY <1>1, <1>2, <1>3, <1>12, <1>13, <1>14, Views
<1>16. HoldsOK'
  BY <1>1, <1>2, <1>3, <1>5, HoldsRest, FolderPlaces
<1> QED
  BY <1>2, <1>15, <1>16 DEF TrueOK

\* Every step of a pass.
LEMMA PassTrue ==
    ASSUME Inv, TrueOK, RenameActs \/ DeleteActs \/ Restores \/ RestoreFails, UNCHANGED <<past, undone, begun>>
    PROVE  TrueOK'
<1>1. run.job # "none"
  BY DEF RenameActs, DeleteActs, Restores, RestoreFails, Doing, StandsBy, StepsAside, Stumbles, Renames, RenameFails,
         DeleteFails, Gathers, Stages, Erases, Recycles, BinFails, Cancels
<1>2. /\ run'.job = run.job /\ run'.pass = run.pass /\ run'.plan = run.plan /\ run'.first = run.first
      /\ \/ Stays
         \/ \E h, to : Shifts(h, to)
         \/ \E h, from, to, d : Lands(h, from, to, d)
         \/ \E h, d : GoneForGood(h, d)
  BY PassActs DEF Inv
<1>3. CASE Stays
  BY <1>1, <1>2, <1>3, StaysTrue
<1>4. CASE \E h, to : Shifts(h, to)
  <2>1. PICK h : \E to : Shifts(h, to)
    BY <1>4
  <2> QED
    BY <1>2, <2>1, ShiftsTrue
<1>5. CASE \E h, from, to, d : Lands(h, from, to, d)
  <2>1. PICK h : \E from, to, d : Lands(h, from, to, d)
    BY <1>5
  <2>2. PICK from : \E to, d : Lands(h, from, to, d)
    BY <2>1
  <2>3. PICK to : \E d : Lands(h, from, to, d)
    BY <2>2
  <2> QED
    BY <1>1, <1>2, <2>3, LandsTrue
<1>6. CASE \E h, d : GoneForGood(h, d)
  <2>1. PICK h : \E d : GoneForGood(h, d)
    BY <1>6
  <2> QED
    BY <1>2, <2>1, GoneTrue
<1> QED
  BY <1>2, <1>3, <1>4, <1>5, <1>6

\* What was denied stands where it stood, and waits there for the second pass.
LEMMA AcceptsWhere ==
    ASSUME Inv, Accepts
    PROVE  Where' = Where /\ AllDone' = AllDone
<1>1. /\ RunInv(run', serial) /\ run'.pass = 2 /\ run'.outcome = NoOutcome /\ run'.first = run.outcome
      /\ run'.job = run.job /\ run'.plan = run.plan /\ Waiting(run') = Range(run'.asked)
  BY AcceptsKeeps DEF Inv, DiskOK
<1>2. run.pass = 1 /\ run.todo = <<>> /\ run.ready = <<>> /\ run.first = NoOutcome /\ run.job # "none"
  BY DEF Inv, RunInv, RunOK, Accepts, Over
<1>3. /\ run' \in Runs /\ Plan(run'.job, run'.plan) /\ Second(run') /\ Asks(run'.job, run'.asked)
  BY <1>1 DEF RunInv, RunOK
<1>4. /\ run'.asked \in Seq(Items) /\ run.outcome.failed \in Seq(Failures) /\ Once(run.outcome.failed)
      /\ \A f \in Range(run.outcome.failed) : Stands(run.job, f, run.plan)
  BY <1>1, <1>3 DEF Runs, Outcomes, Second, Worked
<1>5. AllDone' = AllDone
  BY <1>1, <1>2, NoneHeld DEF AllDone
<1>6. Where = {<<f.id, f.from>> : f \in Range(run.outcome.failed)}
  <2>1. Waiting(run) = {} /\ Left = {}
    BY <1>2, NoneListed DEF Waiting, Left
  <2> QED
    BY <2>1 DEF Where, Spots
<1>7. Where' = {<<a.id, a.from>> : a \in Range(run'.asked)}
               \union {<<f.id, f.from>> : f \in {g \in Range(run.outcome.failed) : ~g.denied}}
  <2>1. Spots(run') = {<<a.id, a.from>> : a \in Range(run'.asked)}
    BY <1>1, NoneHeld DEF Spots
  <2>2. Left' = {<<f.id, f.from>> : f \in {g \in Range(run.outcome.failed) : ~g.denied}}
    BY <1>1 DEF Left
  <2>3. Where' = Spots(run') \union Left'
    BY DEF Where, Spots, Waiting
  <2> QED
    BY <2>1, <2>2, <2>3
<1>8. ASSUME NEW a \in Range(run'.asked)
      PROVE  \E f \in Range(run.outcome.failed) : f.id = a.id /\ f.from = a.from
  <2>1. PICK p \in Range(run'.plan) : \E f \in Range(run'.first.failed) :
              /\ p.id = a.id /\ f.id = a.id /\ f.src = p.src
              /\ a.src = IF run'.job = "rename" THEN f.from ELSE p.src
    BY <1>3, <1>8, AskedAgain
  <2>2. PICK f \in Range(run'.first.failed) :
              /\ p.id = a.id /\ f.id = a.id /\ f.src = p.src
              /\ a.src = IF run'.job = "rename" THEN f.from ELSE p.src
    BY <2>1
  <2>3. f \in Range(run.outcome.failed)
    BY <1>1, <2>2
  <2>4. a.from = a.src
    BY <1>3, <1>8 DEF Asks
  <2>5. run.job # "rename" => f.from = f.src
    BY <1>4, <2>3 DEF Stands
  <2> QED
    BY <1>1, <2>2, <2>3, <2>4, <2>5
<1>9. ASSUME NEW f \in Range(run.outcome.failed), f.denied
      PROVE  \E a \in Range(run'.asked) : f.id = a.id /\ f.from = a.from
  <2>1. f.id \in Ids(run'.asked)
    BY <1>1, <1>3, <1>9 DEF Second
  <2>2. PICK a \in Range(run'.asked) : a.id = f.id
    BY <1>4, <2>1, ListIs
  <2>3. PICK g \in Range(run.outcome.failed) : g.id = a.id /\ g.from = a.from
    BY <1>8
  <2>4. g = f
    BY <1>4, <1>9, <2>2, <2>3, OneOfAnId
  <2> QED
    BY <2>2, <2>3, <2>4
<1>10. \A s \in Where' : s \in Where
  BY <1>6, <1>7, <1>8
<1>11. \A s \in Where : s \in Where'
  <2> TAKE s \in Where
  <2>1. PICK f \in Range(run.outcome.failed) : s = <<f.id, f.from>>
    BY <1>6
  <2>2. CASE f.denied
    BY <1>7, <1>9, <2>1, <2>2
  <2>3. CASE ~f.denied
    BY <1>7, <2>1, <2>3
  <2> QED
    BY <2>2, <2>3
<1> QED
  BY <1>5, <1>10, <1>11

\* The second pass begins with the folder as the first left it.
LEMMA AcceptsTrue ==
    ASSUME Inv, TrueOK, Accepts, UNCHANGED <<past, undone, begun>>
    PROVE  TrueOK'
<1>1. run'.job = run.job /\ run'.plan = run.plan /\ run.job # "none" /\ disk' = disk
  BY AcceptsKeeps DEF Inv, DiskOK, Accepts, Over, Same
<1>2. Where' = Where /\ AllDone' = AllDone
  BY AcceptsWhere
<1>3. DoneIds' = DoneIds /\ Out' = Out /\ Landed' = Landed
  BY <1>1, <1>2 DEF DoneIds, Out, OutOf, Landed
<1>4. \A p, id : At(p, id)' <=> At(p, id)
  BY <1>1 DEF At, Exists
<1>5. ViewOK /\ HoldsOK /\ LineOK
  BY DEF TrueOK
<1>6. LineOK'
  BY <1>1, <1>5, LineRests
<1>7. HoldsOK'
  BY <1>1, <1>3, <1>4, <1>5, HoldsRest
<1>8. Looks(disk') = {x \in begun : x[2] \notin Out'} \union Landed'
  BY <1>1, <1>3, <1>5 DEF ViewOK, NoRun
<1>9. ViewOK'
  <2>1. run.job # "restore" => \A s \in Where' : At(s[2], s[1])'
    BY <1>1, <1>2, <1>4, <1>5 DEF ViewOK, NoRun
  <2>2. run.job = "delete" => \A d \in AllDone' : d.dst \in Stores => At(d.dst, d.id)'
    BY <1>1, <1>2, <1>4, <1>5 DEF ViewOK, NoRun
  <2> QED
    BY <1>1, <1>3, <1>4, <1>5, <1>8, <2>1, <2>2, Views
<1> QED
  BY <1>6, <1>7, <1>9 DEF TrueOK

\* What the two ends of the line say.
LEMMA LineEnds ==
    ASSUME Inv, LineOK
    PROVE  /\ past # <<>> => LET rec == Last(past)
                             IN  /\ RecordOK(rec) /\ Len(past) \in DOMAIN past /\ rec = past[Len(past)]
                                 /\ Turns(rec.done, rec.before, rec.after) /\ rec.after = View
           /\ undone # <<>> => LET rec == Head(undone)
                               IN  /\ RecordOK(rec) /\ 1 \in DOMAIN undone /\ rec = undone[1]
                                   /\ TurnsBack(rec) /\ rec.before = View
<1>1. /\ past \in Seq(Records) /\ \A rec \in Range(past) : RecordOK(rec)
      /\ undone \in Seq(Records) /\ \A rec \in Range(undone) : RecordOK(rec)
  BY DEF Inv, HistoryOK
<1>2. ASSUME past # <<>> PROVE Len(past) \in DOMAIN past /\ Last(past) = past[Len(past)] /\ RecordOK(Last(past))
  BY <1>1, <1>2, FrontIs
<1>3. ASSUME undone # <<>> PROVE 1 \in DOMAIN undone /\ Head(undone) = undone[1] /\ RecordOK(Head(undone))
  BY <1>1, <1>3, TailIs
<1> QED
  BY <1>2, <1>3 DEF LineOK

\* An operation begins: the folder is as it begins with, and its entries are where it says.
LEMMA BeginsTrue ==
    ASSUME Inv, TrueOK, run.job = "none",
           NEW job \in {"rename", "delete", "restore"}, NEW doing \in {"do", "undo", "redo"},
           NEW plan \in Seq(Items), Plan(job, plan), job = "restore" <=> (job # "rename" /\ doing = "undo"),
           Begins(Pass(job, doing, plan)),
           job # "restore" => Srcs(plan) \subseteq Looks(disk),
           job = "restore" => \A a \in Range(plan) : At(a.dst, a.id)
    PROVE  TrueOK'
<1>1. /\ run' = Onward(Pass(job, doing, plan)) /\ begun' = Looks(disk)
      /\ UNCHANGED <<disk, past, undone>>
  BY DEF Begins, historyVars
<1>2. serial \in Nat /\ 1 <= serial /\ DiskOK
  BY DEF Inv, DiskOK
<1>3. /\ run'.job = job /\ run'.plan = plan /\ run'.pass = 1
      /\ run'.outcome = NoOutcome /\ run'.first = NoOutcome /\ Waiting(run') = Range(plan)
  BY <1>1, <1>2, PassIs
<1>4. AllDone' = {}
  BY <1>3, NoneHeld DEF AllDone
<1>5. Where' = {<<a.id, a.from>> : a \in Range(plan)}
  <2>1. Left' = {}
    BY <1>3 DEF Left
  <2>2. Spots(run') = {<<a.id, a.from>> : a \in Range(plan)}
    BY <1>3, NoneHeld DEF Spots
  <2> QED
    BY <2>1, <2>2 DEF Where, Spots, Waiting
<1>6. \A a \in Range(plan) : a.from = a.src /\ a.src \in Folder /\ Fits(job, a)
  BY DEF Plan, Asks
<1>7. DoneIds' = {} /\ Landed' = {} /\ Out' = {}
  BY <1>4, <1>5, <1>6 DEF DoneIds, Landed, Out, OutOf
<1>8. \A p, id : At(p, id)' <=> At(p, id)
  BY <1>1 DEF At, Exists
<1>9. LineOK'
  <2>1. View = Looks(disk) /\ View' = Looks(disk)
    BY <1>1, <1>3 DEF View, NoRun
  <2> QED
    BY <1>1, <2>1 DEF TrueOK, LineOK, Turns, TurnsBack, Srcs, Dsts
<1>10. HoldsOK'
  BY <1>1, <1>8 DEF TrueOK, HoldsOK
<1>11. ViewOK'
  <2>1. Looks(disk)' = {x \in begun' : x[2] \notin Out'} \union Landed'
    BY <1>1, <1>7 DEF Looks
  <2>2. \A x, y \in begun' : x[2] = y[2] => x = y
    BY <1>1, <1>2, LooksAre
  <2>3. ASSUME job # "restore" PROVE (Srcs(run.plan) \subseteq begun)' /\ \A s \in Where' : At(s[2], s[1])'
    <3>1. (Srcs(run.plan) \subseteq begun)'
      BY <1>1, <1>3, <2>3 DEF Srcs
    <3>2. ASSUME NEW s \in Where' PROVE At(s[2], s[1])'
      <4>1. PICK a \in Range(plan) : s = <<a.id, a.from>>
        BY <1>5, <3>2
      <4>2. <<a.src.name, a.id>> \in Looks(disk)
        BY <2>3 DEF Srcs
      <4>3. At(a.src, a.id)
        BY <1>2, <1>6, <4>2, LooksAre
      <4> QED
        BY <1>6, <1>8, <4>1, <4>3
    <3> QED
      BY <3>1, <3>2
  <2>4. ASSUME job = "restore", NEW a \in Range(plan) PROVE (\A x \in begun' : x[2] # a.id) /\ At(a.dst, a.id)'
    <3>1. At(a.dst, a.id) /\ a.dst \in Stores
      BY <1>6, <2>4 DEF Fits
    <3>2. ASSUME NEW x \in Looks(disk), x[2] = a.id PROVE FALSE
      <4>1. PICK p \in Folder : At(p, x[2])
        BY <1>2, <3>2, LooksAre
      <4>2. p = a.dst
        BY <1>2, <3>1, <3>2, <4>1 DEF At, Exists, DiskOK
      <4> QED
        BY <3>1, <4>2, FolderPlaces
    <3> QED
      BY <1>1, <1>8, <3>1, <3>2
  <2> QED
    BY <1>3, <1>4, <2>1, <2>2, <2>3, <2>4 DEF ViewOK
<1> QED
  BY <1>9, <1>10, <1>11 DEF TrueOK

\* What a planner lets pass is there.
LEMMA OperatesTrue ==
    ASSUME Inv, TrueOK, Operates
    PROVE  TrueOK'
<1>1. PICK plan \in RenamePlans \union DeletePlans :
         Begins(Pass(IF plan[1].way = "name" THEN "rename" ELSE "delete", "do", plan))
  BY DEF Operates
<1> DEFINE job == IF plan[1].way = "name" THEN "rename" ELSE "delete"
<1>2. plan \in Seq(Items) /\ Plan(job, plan) /\ \A a \in Range(plan) : a.src \in DOMAIN disk /\ a.id = disk[a.src]
  BY PlannedIs DEF Inv
<1>3. job \in {"rename", "delete", "restore"} /\ job # "restore"
  OBVIOUS
<1>4. Begins(Pass(job, "do", plan)) /\ run.job = "none"
  BY <1>1 DEF Operates, NoRun
<1> HIDE DEF job
<1>5. Srcs(plan) \subseteq Looks(disk)
  <2> SUFFICES ASSUME NEW a \in Range(plan) PROVE <<a.src.name, a.id>> \in Looks(disk)
    BY DEF Srcs
  <2>1. a.src \in Folder /\ At(a.src, a.id)
    BY <1>2 DEF Plan, At, Exists
  <2> QED
    BY <2>1, LooksAre DEF Inv
<1> QED
  BY <1>2, <1>3, <1>4, <1>5, BeginsTrue

\* What the last record did is there to be undone.
LEMMA UndoesTrue ==
    ASSUME Inv, TrueOK, Undoes
    PROVE  TrueOK'
<1>1. /\ past # <<>> /\ run.job = "none"
      /\ Begins(IF Last(past).job = "rename" THEN Pass("rename", "undo", Swapped(Last(past).done))
                ELSE Pass("restore", "undo", Last(past).done))
  BY DEF Undoes, NoRun
<1>2. PICK rec : rec = Last(past)
  OBVIOUS
<1>3. /\ RecordOK(rec) /\ Len(past) \in DOMAIN past /\ rec = past[Len(past)]
      /\ Turns(rec.done, rec.before, rec.after) /\ rec.after = Looks(disk)
  BY <1>1, <1>2, LineEnds DEF TrueOK, View, NoRun
<1>4. rec.job \in {"rename", "delete"}
  BY <1>3 DEF RecordOK, Records
<1>5. CASE rec.job = "rename"
  <2>1. PICK plan : plan = Swapped(rec.done)
    OBVIOUS
  <2>2. /\ plan \in Seq(Items) /\ Plan("rename", plan)
        /\ \A a \in Range(plan) : \E d \in Range(rec.done) : a.id = d.id /\ a.src = d.dst
    BY <1>3, <1>5, <2>1, SwappedIs
  <2>3. Srcs(plan) \subseteq Looks(disk)
    <3> SUFFICES ASSUME NEW a \in Range(plan) PROVE <<a.src.name, a.id>> \in Looks(disk)
      BY DEF Srcs
    <3>1. PICK d \in Range(rec.done) : a.id = d.id /\ a.src = d.dst
      BY <2>2
    <3>2. d.dst \in Folder
      BY <1>3, <1>5 DEF RecordOK
    <3> QED
      BY <1>3, <3>1, <3>2 DEF Turns, Dsts
  <2>4. Begins(Pass("rename", "undo", plan))
    BY <1>1, <1>2, <1>5, <2>1
  <2> QED
    BY <1>1, <2>2, <2>3, <2>4, BeginsTrue
<1>6. CASE rec.job = "delete"
  <2>1. rec.done \in Seq(Items) /\ Plan("restore", rec.done)
    BY <1>3, <1>6, RestorePlanIs
  <2>2. \A a \in Range(rec.done) : At(a.dst, a.id)
    BY <1>1, <1>3, <1>6 DEF TrueOK, HoldsOK
  <2>3. Begins(Pass("restore", "undo", rec.done))
    BY <1>1, <1>2, <1>6
  <2> QED
    BY <1>1, <2>1, <2>2, <2>3, BeginsTrue
<1> QED
  BY <1>4, <1>5, <1>6

\* What was undone last is there to be done again.
LEMMA RedoesTrue ==
    ASSUME Inv, TrueOK, Redoes
    PROVE  TrueOK'
<1>1. /\ undone # <<>> /\ run.job = "none"
      /\ Begins(IF Head(undone).job = "rename" THEN Pass("rename", "redo", Swapped(Head(undone).done))
                ELSE Pass("delete", "redo", RedoPlan(Head(undone).done)))
  BY DEF Redoes, NoRun
<1>2. PICK rec : rec = Head(undone)
  OBVIOUS
<1>3. RecordOK(rec) /\ TurnsBack(rec) /\ rec.before = Looks(disk)
  BY <1>1, <1>2, LineEnds DEF TrueOK, View, NoRun
<1>4. rec.job \in {"rename", "delete"}
  BY <1>3 DEF RecordOK, Records
<1>5. CASE rec.job = "rename"
  <2>1. PICK plan : plan = Swapped(rec.done)
    OBVIOUS
  <2>2. /\ plan \in Seq(Items) /\ Plan("rename", plan)
        /\ \A a \in Range(plan) : \E d \in Range(rec.done) : a.id = d.id /\ a.src = d.dst
    BY <1>3, <1>5, <2>1, SwappedIs
  <2>3. Srcs(plan) \subseteq Looks(disk)
    <3> SUFFICES ASSUME NEW a \in Range(plan) PROVE <<a.src.name, a.id>> \in Looks(disk)
      BY DEF Srcs
    <3>1. PICK d \in Range(rec.done) : a.id = d.id /\ a.src = d.dst
      BY <2>2
    <3>2. d.dst \in Folder
      BY <1>3, <1>5 DEF RecordOK
    <3> QED
      BY <1>3, <1>5, <3>1, <3>2 DEF TurnsBack, Turns, Dsts
  <2>4. Begins(Pass("rename", "redo", plan))
    BY <1>1, <1>2, <1>5, <2>1
  <2> QED
    BY <1>1, <2>2, <2>3, <2>4, BeginsTrue
<1>6. CASE rec.job = "delete"
  <2>1. PICK plan : plan = RedoPlan(rec.done)
    OBVIOUS
  <2>2. /\ plan \in Seq(Items) /\ Plan("delete", plan)
        /\ \A a \in Range(plan) : \E d \in Range(rec.done) : a.id = d.id /\ a.src = d.src
    BY <1>3, <1>6, <2>1, RedoPlanIs
  <2>3. Srcs(plan) \subseteq Looks(disk)
    <3> SUFFICES ASSUME NEW a \in Range(plan) PROVE <<a.src.name, a.id>> \in Looks(disk)
      BY DEF Srcs
    <3>1. PICK d \in Range(rec.done) : a.id = d.id /\ a.src = d.src
      BY <2>2
    <3> QED
      BY <1>3, <1>6, <3>1 DEF TurnsBack, Turns, Srcs
  <2>4. Begins(Pass("delete", "redo", plan))
    BY <1>1, <1>2, <1>6, <2>1
  <2> QED
    BY <1>1, <2>2, <2>3, <2>4, BeginsTrue
<1> QED
  BY <1>4, <1>5, <1>6

\* What is purged is older than whatever this session knows of.
LEMMA PurgesTrue ==
    ASSUME Inv, TrueOK, Purges
    PROVE  TrueOK'
<1> DEFINE old == {p \in DOMAIN disk : p.at = "held" /\ p.no < since}
<1>1. disk' = Without(old) /\ UNCHANGED <<run, past, undone, begun>>
  BY DEF Purges, historyVars
<1>2. \A p \in old : p.at = "held" /\ p.no < since
  OBVIOUS
<1> HIDE DEF old
<1>3. /\ run' = run /\ past' = past /\ undone' = undone /\ begun' = begun
      /\ DiskOK /\ HeldOK /\ LineOK /\ HoldsOK /\ ViewOK /\ since \in Nat
  BY <1>1 DEF TrueOK, Inv, DiskOK
<1>4. \A p, id : At(p, id) /\ p \notin old => At(p, id)'
  BY <1>1, AtWithout
<1>5. old \intersect (Folder \union Asides) = {}
  BY <1>2, FolderPlaces DEF Asides
<1>6. Looks(disk') = Looks(disk)
  <2>1. old \intersect Folder = {}
    BY <1>5
  <2> QED
    BY <1>1, <1>3, <2>1, LooksWithout
<1>7. AllDone' = AllDone /\ DoneIds' = DoneIds /\ Where' = Where /\ Out' = Out /\ Landed' = Landed
  BY <1>3 DEF AllDone, DoneIds, Where, Spots, Waiting, Left, Out, OutOf, Landed
<1>8. \A i \in DOMAIN past : \A n \in Numbers(past[i]) : n \in Nat /\ since <= n
  BY <1>3 DEF HeldOK
<1>9. ASSUME NEW i \in DOMAIN past, past[i].job = "delete", NEW d \in Range(past[i].done) PROVE d.dst \notin old
  <2>1. d.dst \in HeldBy(past[i])
    BY HeldByIs
  <2>2. d.dst.no \in Numbers(past[i])
    BY <1>9, <2>1, RecordsHold
  <2> QED
    BY <1>2, <1>3, <1>8, <2>2
<1>10. LineOK'
  <2>1. View' = View
    BY <1>3, <1>6 DEF View, NoRun
  <2> QED
    BY <1>3, <2>1 DEF LineOK, Turns, TurnsBack, Srcs, Dsts
<1>11. HoldsOK'
  BY <1>3, <1>4, <1>7, <1>9, HoldsRest
<1>12. CASE run.job = "none"
  <2>1. ViewOK'
    BY <1>3, <1>12 DEF ViewOK, NoRun
  <2> QED
    BY <1>10, <1>11, <2>1 DEF TrueOK
<1>13. CASE run.job # "none"
  <2>1. Looks(disk') = {x \in begun : x[2] \notin Out'} \union Landed'
    BY <1>3, <1>6, <1>7, <1>13 DEF ViewOK, NoRun
  <2>2. run.job # "restore" => \A s \in Where' : At(s[2], s[1])'
    <3> SUFFICES ASSUME run.job # "restore", NEW s \in Where PROVE At(s[2], s[1])'
      BY <1>7
    <3>1. At(s[2], s[1])
      BY <1>3, <1>13 DEF ViewOK, NoRun
    <3>2. s[2] \in Folder \union Asides
      BY <1>13, WhereIs DEF Inv
    <3>3. s[2] \notin old
      BY <1>5, <3>2
    <3> QED
      BY <1>4, <3>1, <3>3
  <2>3. run.job = "restore" => \A a \in Range(run.plan) : At(a.dst, a.id) => At(a.dst, a.id)' \/ a.id \in DoneIds'
    <3> SUFFICES ASSUME run.job = "restore", NEW a \in Range(run.plan) PROVE a.dst \notin old
      BY <1>4
    <3>1. run.doing = "undo"
      BY DEF Inv, RunInv, RunOK, Phased
    <3>2. past # <<>> /\ "restore" = UndoJob(Last(past)) /\ run.plan = UndoPlan(Last(past)) /\ past \in Seq(Records)
      BY <3>1 DEF Inv, HistoryOK
    <3>3. Last(past) = past[Len(past)] /\ Len(past) \in DOMAIN past /\ Last(past) \in Records
      BY <3>2, FrontIs, ListIs
    <3>4. Last(past).job = "delete" /\ run.plan = Last(past).done
      BY <3>2, <3>3 DEF UndoJob, UndoPlan, Records
    <3> QED
      BY <1>9, <3>3, <3>4
  <2>4. run.job = "delete" => \A d \in AllDone' : d.dst \in Stores => At(d.dst, d.id)'
    <3> SUFFICES ASSUME run.job = "delete", NEW d \in AllDone, d.dst \in Stores PROVE At(d.dst, d.id)'
      BY <1>7
    <3>1. At(d.dst, d.id)
      BY <1>3, <1>13 DEF ViewOK, NoRun
    <3>2. d.dst.no \in RunNumbers
      BY DEF RunNumbers, Numbers, AllDone
    <3>3. since <= d.dst.no /\ d.dst.no \in Nat
      BY <1>3, <3>2 DEF HeldOK
    <3> QED
      BY <1>2, <1>3, <1>4, <3>1, <3>3
  <2>5. ViewOK'
    BY <1>3, <1>7, <1>13, <2>1, <2>2, <2>3, <2>4, Views
  <2> QED
    BY <1>10, <1>11, <2>5 DEF TrueOK
<1> QED
  BY <1>12, <1>13

\* What is forgotten with a record is none of another's, and none of the folder's.
LEMMA ForgetsTrue ==
    ASSUME Inv, TrueOK, Forgets
    PROVE  TrueOK'
<1>1. /\ run.job = "none" /\ past # <<>> /\ disk' = Without(HeldIn(Head(past).stagings)) /\ past' = Tail(past)
      /\ run' = run /\ undone' = undone
  BY DEF Forgets, NoRun
<1>2. past \in Seq(Records) /\ HeldOK /\ DiskOK
  BY DEF Inv, HistoryOK
<1>3. \A i \in DOMAIN past' : past'[i] = past[i + 1] /\ i + 1 \in DOMAIN past /\ i \in Nat /\ i >= 1
  <2>1. past' \in Seq(Records) /\ \A i \in DOMAIN past' : past'[i] = past[i + 1] /\ i + 1 \in DOMAIN past /\ i \in Nat
    BY <1>1, <1>2, TailIs
  <2>2. \A i \in DOMAIN past' : i >= 1
    BY <2>1, LenProperties
  <2> QED
    BY <2>1, <2>2
<1>4. LineOK /\ HoldsOK
  BY DEF TrueOK
<1>5. View' = View
  <2>1. HeldIn(Head(past).stagings) \intersect Folder = {}
    BY FolderPlaces DEF HeldIn
  <2>2. Looks(disk') = Looks(disk)
    BY <1>1, <1>2, <2>1, LooksWithout
  <2> QED
    BY <1>1, <2>2 DEF View, NoRun
<1>6. LineOK'
  <2>1. \A i \in DOMAIN past' : /\ Turns(past'[i].done, past'[i].before, past'[i].after)
                                /\ i > 1 => past'[i - 1].after = past'[i].before
    <3> TAKE i \in DOMAIN past'
    <3>1. Turns(past'[i].done, past'[i].before, past'[i].after)
      BY <1>3, <1>4 DEF LineOK
    <3>2. ASSUME i > 1 PROVE past'[i - 1].after = past'[i].before
      <4>1. past' \in Seq(Records)
        BY <1>1, <1>2, TailIs
      <4>2. i - 1 \in DOMAIN past'
        BY <1>3, <3>2, <4>1, LenProperties
      <4>3. past'[i - 1] = past[i]
        BY <1>3, <4>2
      <4>4. past[(i + 1) - 1].after = past[i + 1].before
        BY <1>3, <1>4 DEF LineOK
      <4> QED
        BY <1>3, <4>3, <4>4
    <3> QED
      BY <3>1, <3>2
  <2>2. past' # <<>> => Last(past').after = View
    BY <1>1, <1>2, <1>4, TailIs DEF LineOK
  <2>3. /\ \A i \in DOMAIN undone : TurnsBack(undone[i]) /\ (i > 1 => undone[i - 1].after = undone[i].before)
        /\ undone # <<>> => Head(undone).before = View
    BY <1>4 DEF LineOK
  <2> QED
    BY <1>1, <1>5, <2>1, <2>2, <2>3 DEF LineOK, Turns, TurnsBack, Srcs, Dsts
<1>7. HoldsOK'
  <2>1. \A p, id : At(p, id) /\ p \notin HeldIn(Head(past).stagings) => At(p, id)'
    BY <1>1, AtWithout
  <2>2. SUFFICES ASSUME NEW i \in DOMAIN past', past'[i].job = "delete", NEW d \in Range(past'[i].done)
                 PROVE  At(d.dst, d.id)'
    BY DEF HoldsOK, At, Exists
  <2>3. i + 1 \in DOMAIN past /\ past'[i] = past[i + 1] /\ i + 1 # 1
    BY <1>3
  <2>4. At(d.dst, d.id)
    BY <1>1, <1>4, <2>2, <2>3 DEF HoldsOK
  <2>5. d.dst \notin HeldIn(Head(past).stagings)
    <3>1. Head(past) = past[1] /\ 1 \in DOMAIN past
      BY <1>1, <1>2, EmptySeq, LenProperties
    <3>2. Head(past).stagings \subseteq Numbers(past[1])
      BY <3>1 DEF Numbers
    <3>3. Numbers(past[i + 1]) \intersect Numbers(past[1]) = {}
      BY <1>2, <2>3, <3>1 DEF HeldOK
    <3>4. d.dst \in HeldBy(past[i + 1])
      BY <2>2, <2>3, HeldByIs
    <3>5. d.dst.no \in Numbers(past[i + 1])
      BY <2>2, <2>3, <3>4, RecordsHold
    <3> QED
      BY <3>2, <3>3, <3>5 DEF HeldIn
  <2> QED
    BY <2>1, <2>4, <2>5
<1>8. ViewOK'
  BY <1>1 DEF ViewOK, NoRun
<1> QED
  BY <1>6, <1>7, <1>8 DEF TrueOK

(***************************************************************************)
(* How an operation ends that was whole and is recorded.                   *)
(***************************************************************************)
\* What was done and what is told of it.
SameDone(d, e) == d.id = e.id /\ d.dst = e.dst /\ (run.job # "rename" => d.src = e.src)

\* What is told is what was done, in both passes, and nothing else.
LEMMA ToldIs ==
    ASSUME Inv, Over
    PROVE  /\ \A d \in AllDone : \E e \in Range(Merged.done) : SameDone(d, e)
           /\ \A e \in Range(Merged.done) : \E d \in AllDone : SameDone(d, e)
<1>1. RunInv(run, serial) /\ serial \in Nat /\ run.todo = <<>> /\ run.job # "none"
  BY DEF Inv, DiskOK, Over
<1>2. /\ run.pass = 1 => Merged = run.outcome
      /\ run.pass = 2 => Range(Merged.done) = Range(run.first.done) \union Range(SecondDone)
  BY <1>1, MergedIs
<1>3. /\ run \in Runs /\ (run.pass = 1 => run.first = NoOutcome) /\ run.pass \in {1, 2}
      /\ run.job \in {"rename", "delete", "restore"} /\ Phased(run)
      /\ Asks(run.job, run.asked) /\ Worked(run.job, run.asked, run.outcome)
  BY <1>1 DEF RunInv, RunOK, Runs
<1>4. \A d : SameDone(d, d)
  BY DEF SameDone
<1>5. CASE run.pass = 1
  <2>1. AllDone = Range(Merged.done)
    BY <1>2, <1>3, <1>5, NoneHeld DEF AllDone
  <2> QED
    BY <1>4, <2>1
<1>6. CASE run.pass = 2
  <2>1. /\ run.asked \in Seq(Items) /\ Once(run.asked) /\ run.outcome.done \in Seq(Items) /\ Own.done = run.outcome.done
        /\ SecondDone \in Seq(Items)
    BY <1>1, <1>3, <1>6, SecondDoneIs DEF Runs, Outcomes, Asks, Own, Tells
  <2>2. CASE run.job = "delete"
    <3>1. SecondDone = Own.done
      BY <1>1, <1>6, <2>2, SecondDoneIs
    <3>2. AllDone = Range(Merged.done)
      BY <1>2, <1>6, <2>1, <3>1 DEF AllDone
    <3> QED
      BY <1>4, <3>2
  <2>3. CASE run.job = "rename"
    <3>1. SecondDone = [i \in DOMAIN Own.done |-> Origin(Own.done[i])]
      BY <2>3 DEF SecondDone
    <3>2. \A d \in Range(Own.done) : SameDone(d, Origin(d)) /\ SameDone(d, Origin(d))
      BY <1>1, <1>6, <2>3, OriginIs DEF SameDone
    <3>3. \A i \in DOMAIN Own.done : Own.done[i] \in Range(Own.done)
      BY <2>1, ListIs
    <3>4. DOMAIN SecondDone = DOMAIN Own.done /\ \A i \in DOMAIN Own.done : SecondDone[i] = Origin(Own.done[i])
      BY <3>1
    <3>5. ASSUME NEW d \in Range(Own.done) PROVE \E e \in Range(SecondDone) : SameDone(d, e)
      <4>1. PICK i \in DOMAIN Own.done : Own.done[i] = d
        BY <2>1, <3>5, ListIs
      <4>2. SecondDone[i] \in Range(SecondDone)
        BY <2>1, <3>4, ListIs
      <4> QED
        BY <3>2, <3>4, <4>1, <4>2
    <3>6. ASSUME NEW e \in Range(SecondDone) PROVE \E d \in Range(Own.done) : SameDone(d, e)
      <4>1. PICK i \in DOMAIN SecondDone : SecondDone[i] = e
        BY <2>1, <3>6, ListIs
      <4> QED
        BY <3>2, <3>3, <3>4, <4>1
    <3> QED
      BY <1>2, <1>4, <1>6, <2>1, <3>5, <3>6 DEF AllDone
  <2>4. CASE run.job = "restore"
    <3>1. \A d \in AllDone : \E e \in Range(Merged.done) : SameDone(d, e)
      BY <2>4, RestoredIsTold DEF SameDone
    <3>2. ASSUME NEW e \in Range(SecondDone) PROVE \E d \in Range(Own.done) : SameDone(d, e)
      <4>1. ~run.cancelled
        BY <1>3, <2>4 DEF Phased
      <4>2. Ids(SecondDone) = Ids(Own.done)
        BY <1>1, <1>6, <4>1, SecondDoneIs
      <4>3. e.id \in Ids(Own.done)
        BY <2>1, <3>2, <4>2, ListIs
      <4>4. PICK d \in Range(Own.done) : d.id = e.id
        BY <2>1, <4>3, ListIs
      <4>5. PICK a \in Range(run.asked) : SameItem(d, a) /\ d.dst = a.dst
        BY <1>3, <2>1, <2>4, <4>4 DEF Worked, AskedTo
      <4>6. e \in Range(run.asked)
        <5> DEFINE fine == {item \in Range(run.asked) : \A f \in Range(Own.failed) : f.src # item.src}
        <5>1. SecondDone = Among(run.asked, fine)
          BY <2>4 DEF SecondDone
        <5> HIDE DEF fine
        <5> QED
          BY <2>1, <3>2, <5>1, AmongListed
      <4>7. e = a
        BY <2>1, <4>4, <4>5, <4>6, OneOfAnId DEF SameItem
      <4> QED
        BY <4>4, <4>5, <4>7 DEF SameDone, SameItem
    <3> QED
      BY <1>2, <1>4, <1>6, <2>1, <3>1, <3>2 DEF AllDone
  <2> QED
    BY <1>3, <2>2, <2>3, <2>4
<1> QED
  BY <1>3, <1>5, <1>6

\* Where nothing is left of the lists, what failed is in the folder under the user's name.
LEMMA EndsThere ==
    ASSUME Inv, ViewOK, Over, Settles(Merged)
    PROVE  /\ Looks(disk) = {x \in begun : x[2] \notin Ids(Merged.done)}
                            \union (IF run.job = "restore" THEN Srcs(Merged.done) ELSE Dsts(Merged.done))
           /\ DoneIds = Ids(Merged.done)
           /\ run.job # "restore" => Srcs(Merged.done) \subseteq begun
<1>1. RunInv(run, serial) /\ serial \in Nat /\ run.todo = <<>> /\ run.ready = <<>> /\ run.job # "none"
  BY DEF Inv, DiskOK, Over, RunInv
<1>2. /\ Tells(run.job, run.plan, Merged.done)
      /\ run.pass = 1 => Merged = run.outcome
      /\ run.pass = 2 => Range(Merged.failed) = {f \in Range(run.first.failed) : ~f.denied} \union Range(Own.failed)
      /\ run.pass \in {1, 2}
  BY <1>1, MergedIs DEF RunInv, RunOK, Runs
<1>3. /\ \A d \in AllDone : \E e \in Range(Merged.done) : SameDone(d, e)
      /\ \A e \in Range(Merged.done) : \E d \in AllDone : SameDone(d, e)
  BY ToldIs
<1>4. Where = {<<f.id, f.from>> : f \in Range(Merged.failed)}
  <2>1. Waiting(run) = {}
    BY <1>1, NoneListed DEF Waiting
  <2>2. Spots(run) = {<<f.id, f.from>> : f \in Range(run.outcome.failed)}
    BY <2>1 DEF Spots
  <2>3. CASE run.pass = 1
    <3>1. Left = {}
      BY <2>3 DEF Left
    <3> QED
      BY <1>2, <2>2, <2>3, <3>1 DEF Where
  <2>4. CASE run.pass = 2
    <3>1. Left = {<<f.id, f.from>> : f \in {g \in Range(run.first.failed) : ~g.denied}}
      BY <2>4 DEF Left
    <3> QED
      BY <1>2, <2>2, <2>4, <3>1 DEF Where, Own
  <2> QED
    BY <1>2, <2>3, <2>4
<1>5. \A s \in Where : s[2] \in Folder
  <2> TAKE s \in Where
  <2>1. PICK f \in Range(Merged.failed) : s = <<f.id, f.from>>
    BY <1>4
  <2>2. f.from.at = "folder"
    BY DEF Settles
  <2>3. s[2] \in Folder \union Asides
    BY <1>1, WhereIs
  <2> QED
    BY <2>1, <2>2, <2>3, FolderPlaces DEF Asides
<1>6. Ids(Merged.done) = {e.id : e \in Range(Merged.done)}
  BY <1>2, ListIs DEF Tells
<1>7. DoneIds = Ids(Merged.done)
  <2>1. \A x \in DoneIds : x \in Ids(Merged.done)
    BY <1>3, <1>6 DEF DoneIds, SameDone
  <2>2. \A x \in Ids(Merged.done) : x \in DoneIds
    BY <1>3, <1>6 DEF DoneIds, SameDone
  <2> QED
    BY <2>1, <2>2
<1>8. Out = DoneIds
  BY <1>5 DEF Out, OutOf
<1>9. Landed = IF run.job = "restore" THEN Srcs(Merged.done) ELSE Dsts(Merged.done)
  <2>1. CASE run.job = "restore"
    <3>1. \A x \in Landed : x \in Srcs(Merged.done)
      <4> TAKE x \in Landed
      <4>1. PICK d \in AllDone : x = <<d.src.name, d.id>>
        BY <2>1 DEF Landed
      <4>2. PICK e \in Range(Merged.done) : SameDone(d, e)
        BY <1>3
      <4> QED
        BY <2>1, <4>1, <4>2 DEF Srcs, SameDone
    <3>2. \A x \in Srcs(Merged.done) : x \in Landed
      <4> TAKE x \in Srcs(Merged.done)
      <4>1. PICK e \in Range(Merged.done) : x = <<e.src.name, e.id>>
        BY DEF Srcs
      <4>2. PICK d \in AllDone : SameDone(d, e)
        BY <1>3
      <4> QED
        BY <2>1, <4>1, <4>2 DEF Landed, SameDone
    <3> QED
      BY <2>1, <3>1, <3>2
  <2>2. CASE run.job # "restore"
    <3>1. \A x \in Landed : x \in Dsts(Merged.done)
      <4> TAKE x \in Landed
      <4>1. PICK d \in AllDone : x = <<d.dst.name, d.id>> /\ d.dst \in Folder
        BY <2>2 DEF Landed
      <4>2. PICK e \in Range(Merged.done) : SameDone(d, e)
        BY <1>3
      <4> QED
        BY <4>1, <4>2 DEF Dsts, SameDone
    <3>2. \A x \in Dsts(Merged.done) : x \in Landed
      <4> TAKE x \in Dsts(Merged.done)
      <4>1. PICK e \in Range(Merged.done) : x = <<e.dst.name, e.id>> /\ e.dst \in Folder
        BY DEF Dsts
      <4>2. PICK d \in AllDone : SameDone(d, e)
        BY <1>3
      <4> QED
        BY <2>2, <4>1, <4>2 DEF Landed, SameDone
    <3> QED
      BY <2>2, <3>1, <3>2
  <2> QED
    BY <2>1, <2>2
<1>10. ASSUME run.job # "restore" PROVE Srcs(Merged.done) \subseteq begun
  <2> SUFFICES ASSUME NEW e \in Range(Merged.done) PROVE <<e.src.name, e.id>> \in begun
    BY DEF Srcs
  <2>1. PICK a \in Range(run.plan) : e.id = a.id /\ e.src = a.src
    BY <1>2 DEF Tells, Asked, SameItem
  <2> QED
    BY <1>1, <1>10, <2>1 DEF ViewOK, NoRun, Srcs
<1>11. Looks(disk) = {x \in begun : x[2] \notin Out} \union Landed
  BY <1>1 DEF ViewOK, NoRun
<1> QED
  BY <1>7, <1>8, <1>9, <1>10, <1>11

\* A view from which some entries went and to which they came under other names.
LEMMA TurnsWhen ==
    ASSUME NEW old, NEW now, NEW srcs, NEW dsts, NEW ids,
           \A x, y \in old : x[2] = y[2] => x = y, srcs \subseteq old,
           \A x \in srcs \union dsts : x[2] \in ids, \A i \in ids : \E x \in srcs : x[2] = i,
           now = {x \in old : x[2] \notin ids} \union dsts
    PROVE  dsts \subseteq now /\ old \ srcs = now \ dsts
<1>1. \A x \in old \ srcs : x \in now \ dsts
  <2> TAKE x \in old \ srcs
  <2>1. x[2] \notin ids
    <3> SUFFICES ASSUME x[2] \in ids PROVE FALSE
      OBVIOUS
    <3>1. PICK y \in srcs : y[2] = x[2]
      OBVIOUS
    <3> QED
      BY <3>1
  <2> QED
    BY <2>1
<1>2. \A x \in now \ dsts : x \in old \ srcs
  OBVIOUS
<1> QED
  BY <1>1, <1>2

\* All of a plan was done, and nothing else.
Covers(job, done, plan) ==
    /\ \A e \in Range(done) : \E a \in Range(plan) : SameItem(e, a) /\ (job # "delete" => e.dst = a.dst)
    /\ \A a \in Range(plan) : \E e \in Range(done) : SameItem(e, a) /\ (job # "delete" => e.dst = a.dst)

\* A rename that goes the other way has the other's targets for sources.
LEMMA SwapTurns ==
    ASSUME NEW rec, RecordOK(rec), rec.job = "rename", NEW done, Covers("rename", done, Swapped(rec.done))
    PROVE  Srcs(done) = Dsts(rec.done) /\ Dsts(done) = Srcs(rec.done)
<1>1. PICK plan : plan = Swapped(rec.done)
  OBVIOUS
<1>2. /\ plan \in Seq(Items) /\ Ids(plan) = Ids(rec.done)
      /\ \A a \in Range(plan) : \E d \in Range(rec.done) : a.id = d.id /\ a.src = d.dst /\ a.dst = d.src
  BY <1>1, SwappedIs
<1>3. /\ rec.done \in Seq(Items) /\ Once(rec.done)
      /\ \A d \in Range(rec.done) : d.src \in Folder /\ d.dst \in Folder
  BY DEF RecordOK, Records
<1>4. ASSUME NEW d \in Range(rec.done) PROVE \E a \in Range(plan) : a.id = d.id /\ a.src = d.dst /\ a.dst = d.src
  <2>1. d.id \in Ids(plan)
    BY <1>2, <1>3, <1>4, ListIs
  <2>2. PICK a \in Range(plan) : a.id = d.id
    BY <1>2, <2>1, ListIs
  <2>3. PICK b \in Range(rec.done) : a.id = b.id /\ a.src = b.dst /\ a.dst = b.src
    BY <1>2
  <2>4. b = d
    BY <1>3, <1>4, <2>2, <2>3, OneOfAnId
  <2> QED
    BY <2>2, <2>3, <2>4
<1>5. ASSUME NEW e \in Range(done) PROVE \E d \in Range(rec.done) : e.id = d.id /\ e.src = d.dst /\ e.dst = d.src
  <2>1. PICK a \in Range(plan) : SameItem(e, a) /\ e.dst = a.dst
    BY <1>1, <1>5 DEF Covers
  <2> QED
    BY <1>2, <2>1 DEF SameItem
<1>6. ASSUME NEW d \in Range(rec.done) PROVE \E e \in Range(done) : e.id = d.id /\ e.src = d.dst /\ e.dst = d.src
  <2>1. PICK a \in Range(plan) : a.id = d.id /\ a.src = d.dst /\ a.dst = d.src
    BY <1>4
  <2>2. PICK e \in Range(done) : SameItem(e, a) /\ e.dst = a.dst
    BY <1>1 DEF Covers
  <2> QED
    BY <2>1, <2>2 DEF SameItem
<1>7. Srcs(done) = Dsts(rec.done)
  <2>1. \A x \in Srcs(done) : x \in Dsts(rec.done)
    <3> TAKE x \in Srcs(done)
    <3>1. PICK e \in Range(done) : x = <<e.src.name, e.id>>
      BY DEF Srcs
    <3>2. PICK d \in Range(rec.done) : e.id = d.id /\ e.src = d.dst
      BY <1>5
    <3> QED
      BY <1>3, <3>1, <3>2 DEF Dsts
  <2>2. \A x \in Dsts(rec.done) : x \in Srcs(done)
    <3> TAKE x \in Dsts(rec.done)
    <3>1. PICK d \in Range(rec.done) : x = <<d.dst.name, d.id>>
      BY DEF Dsts
    <3>2. PICK e \in Range(done) : e.id = d.id /\ e.src = d.dst
      BY <1>6
    <3> QED
      BY <3>1, <3>2 DEF Srcs
  <2> QED
    BY <2>1, <2>2
<1>8. Dsts(done) = Srcs(rec.done)
  <2>1. \A x \in Dsts(done) : x \in Srcs(rec.done)
    <3> TAKE x \in Dsts(done)
    <3>1. PICK e \in Range(done) : x = <<e.dst.name, e.id>>
      BY DEF Dsts
    <3>2. PICK d \in Range(rec.done) : e.id = d.id /\ e.dst = d.src
      BY <1>5
    <3> QED
      BY <3>1, <3>2 DEF Srcs
  <2>2. \A x \in Srcs(rec.done) : x \in Dsts(done)
    <3> TAKE x \in Srcs(rec.done)
    <3>1. PICK d \in Range(rec.done) : x = <<d.src.name, d.id>>
      BY DEF Srcs
    <3>2. PICK e \in Range(done) : e.id = d.id /\ e.dst = d.src
      BY <1>6
    <3> QED
      BY <1>3, <3>1, <3>2 DEF Dsts
  <2> QED
    BY <2>1, <2>2
<1> QED
  BY <1>7, <1>8

\* A delete, or its undoing, that is whole has the sources of its record.
LEMMA SameTurns ==
    ASSUME NEW rec, RecordOK(rec), rec.job = "delete", NEW job, NEW done, NEW plan,
           Covers(job, done, plan), plan \in {rec.done, RedoPlan(rec.done)}
    PROVE  Srcs(done) = Srcs(rec.done) /\ Dsts(rec.done) = {}
<1>1. rec.done \in Seq(Items) /\ Once(rec.done) /\ \A d \in Range(rec.done) : d.dst \in Stores
  BY DEF RecordOK, Records
<1>2. /\ \A a \in Range(plan) : \E d \in Range(rec.done) : a.id = d.id /\ a.src = d.src
      /\ plan \in Seq(Items) /\ Ids(plan) = Ids(rec.done)
  BY <1>1, RedoPlanIs
<1>3. ASSUME NEW d \in Range(rec.done) PROVE \E a \in Range(plan) : a.id = d.id /\ a.src = d.src
  <2>1. d.id \in Ids(plan)
    BY <1>1, <1>2, <1>3, ListIs
  <2>2. PICK a \in Range(plan) : a.id = d.id
    BY <1>2, <2>1, ListIs
  <2>3. PICK b \in Range(rec.done) : a.id = b.id /\ a.src = b.src
    BY <1>2
  <2>4. b = d
    BY <1>1, <1>3, <2>2, <2>3, OneOfAnId
  <2> QED
    BY <2>2, <2>3, <2>4
<1>4. \A x \in Srcs(done) : x \in Srcs(rec.done)
  <2> TAKE x \in Srcs(done)
  <2>1. PICK e \in Range(done) : x = <<e.src.name, e.id>>
    BY DEF Srcs
  <2>2. PICK a \in Range(plan) : SameItem(e, a)
    BY DEF Covers
  <2>3. PICK d \in Range(rec.done) : a.id = d.id /\ a.src = d.src
    BY <1>2
  <2> QED
    BY <2>1, <2>2, <2>3 DEF Srcs, SameItem
<1>5. \A x \in Srcs(rec.done) : x \in Srcs(done)
  <2> TAKE x \in Srcs(rec.done)
  <2>1. PICK d \in Range(rec.done) : x = <<d.src.name, d.id>>
    BY DEF Srcs
  <2>2. PICK a \in Range(plan) : a.id = d.id /\ a.src = d.src
    BY <1>3
  <2>3. PICK e \in Range(done) : SameItem(e, a)
    BY DEF Covers
  <2> QED
    BY <2>1, <2>2, <2>3 DEF Srcs, SameItem
<1>6. Dsts(rec.done) = {}
  BY <1>1, FolderPlaces DEF Dsts
<1> QED
  BY <1>4, <1>5, <1>6

\* A step of the history that is recorded and of which nothing failed did all of its plan.
LEMMA WholeCovers ==
    ASSUME Inv, Over, run.doing # "do", Merged.failed = <<>>
    PROVE  Covers(run.job, Merged.done, run.plan)
<1>1. RunInv(run, serial) /\ serial \in Nat /\ run.todo = <<>> /\ run.job # "none"
  BY DEF Inv, DiskOK, Over
<1>2. /\ Tells(run.job, run.plan, Merged.done)
      /\ run.cancelled \/ Ids(run.plan) \subseteq Ids(Merged.done) \union Ids(Merged.failed)
  BY <1>1, MergedIs
<1>3. ~run.cancelled /\ run.plan \in Seq(Items) /\ Once(run.plan)
  BY <1>1 DEF RunInv, RunOK, Phased, Runs, Plan, Asks
<1>4. Ids(run.plan) \subseteq Ids(Merged.done)
  BY <1>2, <1>3, NoneListed
<1>5. \A e \in Range(Merged.done) : \E a \in Range(run.plan) : SameItem(e, a) /\ (run.job # "delete" => e.dst = a.dst)
  BY <1>2 DEF Tells, Asked, AskedTo
<1>6. ASSUME NEW a \in Range(run.plan)
      PROVE  \E e \in Range(Merged.done) : SameItem(e, a) /\ (run.job # "delete" => e.dst = a.dst)
  <2>1. a.id \in Ids(Merged.done)
    BY <1>3, <1>4, <1>6, ListIs
  <2>2. PICK e \in Range(Merged.done) : e.id = a.id
    BY <1>2, <2>1, ListIs DEF Tells
  <2>3. PICK b \in Range(run.plan) : SameItem(e, b) /\ (run.job # "delete" => e.dst = b.dst)
    BY <1>5
  <2>4. a = b
    BY <1>3, <1>6, <2>2, <2>3, OneOfAnId DEF SameItem
  <2> QED
    BY <2>3, <2>4
<1> QED
  BY <1>5, <1>6 DEF Covers

\* What was done and came of it depends on the items only, not on their order.
LEMMA TurnsOf ==
    ASSUME NEW done, NEW done2, Range(done) = Range(done2)
    PROVE  Srcs(done) = Srcs(done2) /\ Dsts(done) = Dsts(done2)
BY DEF Srcs, Dsts

\* From one view to the other and back.
LEMMA TurnBack ==
    ASSUME NEW srcs, NEW dsts, NEW a, NEW b, NEW c,
           srcs \subseteq a, dsts \subseteq b, a \ srcs = b \ dsts,
           srcs \subseteq c, b \ dsts = c \ srcs
    PROVE  c = a
<1>1. \A x \in a : x \in c
  <2> TAKE x \in a
  <2>1. CASE x \in srcs
    BY <2>1
  <2>2. CASE x \notin srcs
    BY <2>2
  <2> QED
    BY <2>1, <2>2
<1>2. \A x \in c : x \in a
  <2> TAKE x \in c
  <2>1. CASE x \in srcs
    BY <2>1
  <2>2. CASE x \notin srcs
    BY <2>2
  <2> QED
    BY <2>1, <2>2
<1> QED
  BY <1>1, <1>2

\* What the record of an operation that was whole says of the folder.
LEMMA EndsRecorded ==
    ASSUME Inv, TrueOK, Over, Settles(Merged), NEW rec, Recorded(rec, Merged)
    PROVE  /\ run.doing # "undo" => /\ rec.before = begun /\ rec.after = Looks(disk)
                                    /\ Turns(rec.done, rec.before, rec.after)
           /\ run.doing = "undo" => /\ rec.after = begun /\ rec.before = Looks(disk) /\ TurnsBack(rec)
                                    /\ rec.before = Last(past).before
           /\ run.doing = "redo" => rec.after = Head(undone).after
<1>1. /\ RunInv(run, serial) /\ serial \in Nat /\ run.job \in {"rename", "delete", "restore"}
      /\ run.doing \in {"do", "undo", "redo"} /\ (run.job = "restore" <=> run.job # "rename" /\ run.doing = "undo")
      /\ ViewOK /\ LineOK /\ View = begun /\ HistoryOK
  BY DEF Inv, DiskOK, Over, RunInv, RunOK, Runs, Phased, TrueOK, View, NoRun
<1>2. Tells(run.job, run.plan, Merged.done)
  BY <1>1, MergedIs
<1>3. RecordOK(rec) /\ rec.job = (IF run.job = "rename" THEN "rename" ELSE "delete") /\ rec.done # <<>>
  BY DEF Recorded, RecordOK
<1>4. Range(rec.done) = Range(Merged.done)
  <2>1. Range(rec.done) = {d \in Range(Merged.done) : d.dst # Nowhere}
    BY DEF Recorded
  <2>2. PICK fine : fine = {d \in Range(Merged.done) : d.dst # Nowhere}
    OBVIOUS
  <2>3. Merged.done = Among(Merged.done, fine)
    BY <2>2 DEF Settles, Recoverable
  <2>4. Merged.done \in Seq(Items)
    BY <1>2 DEF Tells
  <2>5. Range(Among(Merged.done, fine)) = Range(Merged.done) \intersect fine
    BY <2>4, AmongListed
  <2> QED
    BY <2>1, <2>2, <2>3, <2>5
<1>5. Srcs(rec.done) = Srcs(Merged.done) /\ Dsts(rec.done) = Dsts(Merged.done)
  BY <1>4, TurnsOf
<1>6. PICK ids : ids = Ids(Merged.done)
  OBVIOUS
<1>7. ids = {e.id : e \in Range(Merged.done)}
  BY <1>2, <1>6, ListIs DEF Tells
<1>8. /\ Looks(disk) = {x \in begun : x[2] \notin ids}
                       \union (IF run.job = "restore" THEN Srcs(rec.done) ELSE Dsts(rec.done))
      /\ run.job # "restore" => Srcs(rec.done) \subseteq begun
  BY <1>1, <1>5, <1>6, EndsThere
<1>9. /\ \A x \in Srcs(rec.done) \union Dsts(rec.done) : x[2] \in ids
      /\ \A i \in ids : \E x \in Srcs(rec.done) : x[2] = i
  <2>1. \A e \in Range(rec.done) : e.id \in ids
    BY <1>4, <1>7
  <2>2. \A x \in Srcs(rec.done) : x[2] \in ids
    BY <2>1 DEF Srcs
  <2>3. \A x \in Dsts(rec.done) : x[2] \in ids
    BY <2>1 DEF Dsts
  <2>4. ASSUME NEW i \in ids PROVE \E x \in Srcs(rec.done) : x[2] = i
    <3>1. PICK e \in Range(rec.done) : e.id = i
      BY <1>4, <1>7
    <3>2. <<e.src.name, e.id>> \in Srcs(rec.done)
      BY DEF Srcs
    <3> QED
      BY <3>1, <3>2
  <2> QED
    BY <2>2, <2>3, <2>4
<1>10. \A x, y \in begun : x[2] = y[2] => x = y
  BY <1>1 DEF ViewOK, NoRun, Over
<1>11. run.job # "restore" => Turns(rec.done, begun, Looks(disk))
  <2> SUFFICES ASSUME run.job # "restore" PROVE Turns(rec.done, begun, Looks(disk))
    OBVIOUS
  <2>1. PICK srcs, dsts : srcs = Srcs(rec.done) /\ dsts = Dsts(rec.done)
    OBVIOUS
  <2>2. PICK now : now = Looks(disk)
    OBVIOUS
  <2>3. now = {x \in begun : x[2] \notin ids} \union dsts /\ srcs \subseteq begun
    BY <1>8, <2>1, <2>2
  <2>4. /\ \A x \in srcs \union dsts : x[2] \in ids
        /\ \A i \in ids : \E x \in srcs : x[2] = i
    BY <1>9, <2>1
  <2>5. dsts \subseteq now /\ begun \ srcs = now \ dsts
    BY <1>10, <2>3, <2>4, TurnsWhen
  <2> QED
    BY <2>1, <2>2, <2>3, <2>5 DEF Turns
<1>12. run.doing # "do" => Covers(run.job, rec.done, run.plan)
  <2> SUFFICES ASSUME run.doing # "do" PROVE Covers(run.job, rec.done, run.plan)
    OBVIOUS
  <2>1. Merged.done # <<>>
    <3>1. Range(rec.done) # {}
      BY <1>3, ListIs DEF RecordOK, Records
    <3> QED
      BY <1>4, <3>1, NoneListed
  <2>2. Merged.failed = <<>>
    BY <2>1 DEF Settles
  <2>3. Covers(run.job, Merged.done, run.plan)
    BY <2>2, WholeCovers
  <2> QED
    BY <1>4, <2>3 DEF Covers
<1>13. CASE run.doing = "do"
  <2>1. rec.before = begun /\ rec.after = Looks(disk)
    BY <1>13 DEF Recorded
  <2> QED
    BY <1>1, <1>11, <1>13, <2>1
<1>14. CASE run.doing = "undo"
  <2>1. past # <<>> /\ run.job = UndoJob(Last(past)) /\ run.plan = UndoPlan(Last(past))
    BY <1>1, <1>14 DEF HistoryOK
  <2>2. PICK l : l = Last(past)
    OBVIOUS
  <2>3. RecordOK(l) /\ Turns(l.done, l.before, l.after) /\ l.after = begun
    BY <1>1, <2>1, <2>2, LineEnds
  <2>4. rec.before = l.before /\ rec.after = begun
    BY <1>14, <2>2, <2>3 DEF Recorded
  <2>5. l.job \in {"rename", "delete"}
    BY <2>3 DEF RecordOK, Records
  <2>6. CASE l.job = "rename"
    <3>1. run.job = "rename" /\ run.plan = Swapped(l.done)
      BY <2>1, <2>2, <2>6 DEF UndoJob, UndoPlan
    <3>2. Srcs(rec.done) = Dsts(l.done) /\ Dsts(rec.done) = Srcs(l.done)
      BY <1>12, <1>14, <2>3, <2>6, <3>1, SwapTurns
    <3>3. PICK s, d : s = Srcs(l.done) /\ d = Dsts(l.done)
      OBVIOUS
    <3>4. s \subseteq l.before /\ d \subseteq begun /\ l.before \ s = begun \ d
      BY <2>3, <3>3 DEF Turns
    <3>5. PICK now : now = Looks(disk)
      OBVIOUS
    <3>6. d \subseteq begun /\ s \subseteq now /\ begun \ d = now \ s
      BY <1>11, <3>1, <3>2, <3>3, <3>5 DEF Turns
    <3>7. now = l.before
      BY <3>4, <3>6, TurnBack
    <3>8. TurnsBack(rec)
      <4>1. rec.job = "rename" /\ Turns(rec.done, begun, Looks(disk))
        BY <1>3, <1>11, <3>1
      <4> QED
        BY <2>4, <3>5, <3>7, <4>1 DEF TurnsBack
    <3> QED
      BY <1>14, <2>2, <2>4, <3>5, <3>7, <3>8
  <2>7. CASE l.job = "delete"
    <3>1. run.job = "restore" /\ run.plan = l.done
      BY <2>1, <2>2, <2>7 DEF UndoJob, UndoPlan
    <3>2. Srcs(rec.done) = Srcs(l.done) /\ Dsts(l.done) = {}
      BY <1>12, <1>14, <2>3, <2>7, <3>1, SameTurns
    <3>3. Dsts(rec.done) = {}
      BY <1>3, <3>1, FolderPlaces DEF RecordOK, Dsts
    <3>4. l.before \ Srcs(l.done) = begun /\ Srcs(l.done) \subseteq l.before
      BY <2>3, <3>2 DEF Turns
    <3>5. \A x \in begun : x[2] \notin ids
      <4> SUFFICES ASSUME NEW x \in begun, x[2] \in ids PROVE FALSE
        OBVIOUS
      <4>1. PICK e \in Range(rec.done) : x[2] = e.id
        BY <1>4, <1>7
      <4>2. PICK a \in Range(run.plan) : e.id = a.id
        BY <1>12, <1>14, <4>1 DEF Covers, SameItem
      <4> QED
        BY <1>1, <3>1, <4>1, <4>2 DEF ViewOK, NoRun
    <3>6. Looks(disk) = begun \union Srcs(l.done)
      BY <1>8, <3>1, <3>2, <3>5
    <3>7. Looks(disk) = l.before
      BY <3>4, <3>6
    <3>8. TurnsBack(rec)
      <4>1. rec.job = "delete"
        BY <1>3, <3>1
      <4> QED
        BY <2>4, <3>2, <3>3, <3>4, <4>1 DEF TurnsBack, Turns
    <3> QED
      BY <1>14, <2>2, <2>4, <3>7, <3>8
  <2> QED
    BY <2>5, <2>6, <2>7
<1>15. CASE run.doing = "redo"
  <2>1. undone # <<>> /\ run.job = Head(undone).job /\ run.plan = AgainPlan(Head(undone))
    BY <1>1, <1>15 DEF HistoryOK
  <2>2. PICK u : u = Head(undone)
    OBVIOUS
  <2>3. RecordOK(u) /\ TurnsBack(u) /\ u.before = begun
    BY <1>1, <2>1, <2>2, LineEnds
  <2>4. rec.before = begun /\ rec.after = u.after
    BY <1>15, <2>2, <2>3 DEF Recorded
  <2>5. u.job \in {"rename", "delete"} /\ run.job # "restore"
    BY <1>1, <1>15, <2>3 DEF RecordOK, Records
  <2>6. CASE u.job = "rename"
    <3>1. run.job = "rename" /\ run.plan = Swapped(u.done)
      BY <2>1, <2>2, <2>6 DEF AgainPlan
    <3>2. Srcs(rec.done) = Dsts(u.done) /\ Dsts(rec.done) = Srcs(u.done)
      BY <1>12, <1>15, <2>3, <2>6, <3>1, SwapTurns
    <3>3. PICK s, d : s = Srcs(u.done) /\ d = Dsts(u.done)
      OBVIOUS
    <3>4. s \subseteq u.after /\ d \subseteq begun /\ u.after \ s = begun \ d
      BY <2>3, <2>6, <3>3 DEF TurnsBack, Turns
    <3>5. PICK now : now = Looks(disk)
      OBVIOUS
    <3>6. d \subseteq begun /\ s \subseteq now /\ begun \ d = now \ s
      BY <1>11, <2>5, <3>2, <3>3, <3>5 DEF Turns
    <3>7. now = u.after
      BY <3>4, <3>6, TurnBack
    <3> QED
      BY <1>11, <1>15, <2>2, <2>4, <2>5, <3>5, <3>7
  <2>7. CASE u.job = "delete"
    <3>1. run.job = "delete" /\ run.plan = RedoPlan(u.done)
      BY <2>1, <2>2, <2>7 DEF AgainPlan
    <3>2. Srcs(rec.done) = Srcs(u.done) /\ Dsts(u.done) = {}
      BY <1>12, <1>15, <2>3, <2>7, <3>1, SameTurns
    <3>3. Dsts(rec.done) = {}
      BY <1>3, <3>1, FolderPlaces DEF RecordOK, Dsts
    <3>4. begun \ Srcs(u.done) = u.after
      BY <2>3, <2>7, <3>2 DEF TurnsBack, Turns
    <3>5. begun \ Srcs(rec.done) = Looks(disk)
      BY <1>11, <2>5, <3>3 DEF Turns
    <3> QED
      BY <1>11, <1>15, <2>2, <2>4, <2>5, <3>2, <3>4, <3>5
  <2> QED
    BY <2>5, <2>6, <2>7
<1> QED
  BY <1>1, <1>13, <1>14, <1>15

\* The view of a line whose end changes.
LEMMA LineNew ==
    ASSUME past' \in Seq(Records), undone' \in Seq(Records),
           \A i \in DOMAIN past' : /\ Turns(past'[i].done, past'[i].before, past'[i].after)
                                   /\ i > 1 => past'[i - 1].after = past'[i].before,
           \A i \in DOMAIN undone' : TurnsBack(undone'[i]) /\ (i > 1 => undone'[i - 1].after = undone'[i].before),
           past' # <<>> => Last(past').after = View',
           undone' # <<>> => Head(undone').before = View'
    PROVE  LineOK'
BY DEF LineOK, Turns, TurnsBack, Srcs, Dsts

\* A record is appended that leads on from the last one.
LEMMA LineAppends ==
    ASSUME Inv, LineOK, NEW rec, RecordOK(rec), Turns(rec.done, rec.before, rec.after),
           rec.before = View, rec.after = View', past' = Append(past, rec),
           \/ undone' = <<>>
           \/ undone # <<>> /\ undone' = Tail(undone) /\ rec.after = Head(undone).after
    PROVE  LineOK'
<1>1. past \in Seq(Records) /\ undone \in Seq(Records) /\ rec \in Records
  BY DEF Inv, HistoryOK, RecordOK
<1>2. /\ past' \in Seq(Records) /\ past' # <<>> /\ Last(past') = rec /\ Len(past) \in Nat
      /\ DOMAIN past = 1..Len(past) /\ DOMAIN past' = 1..(Len(past) + 1)
      /\ \A i \in DOMAIN past' : \/ i \in DOMAIN past /\ past'[i] = past[i]
                                 \/ i = Len(past) + 1 /\ past'[i] = rec
  BY <1>1, AppendIs
<1>3. \A i \in DOMAIN past : past'[i] = past[i]
  <2> TAKE i \in DOMAIN past
  <2>1. i \in DOMAIN past' /\ i # Len(past) + 1
    BY <1>2
  <2> QED
    BY <1>2, <2>1
<1>4. ASSUME NEW i \in DOMAIN past'
      PROVE  /\ Turns(past'[i].done, past'[i].before, past'[i].after)
             /\ i > 1 => past'[i - 1].after = past'[i].before
  <2>1. CASE i \in DOMAIN past
    <3>1. i > 1 => i - 1 \in DOMAIN past
      BY <1>2, <2>1
    <3> QED
      BY <1>3, <2>1, <3>1 DEF LineOK
  <2>2. CASE i = Len(past) + 1 /\ past'[i] = rec
    <3>1. ASSUME i > 1 PROVE past'[i - 1].after = rec.before
      <4>1. Len(past) \in DOMAIN past /\ past # <<>> /\ i - 1 = Len(past)
        BY <1>1, <1>2, <2>2, <3>1, EmptySeq
      <4>2. Last(past) = past[Len(past)] /\ Last(past).after = View
        BY <4>1, LineEnds
      <4> QED
        BY <1>3, <4>1, <4>2
    <3> QED
      BY <2>2, <3>1
  <2> QED
    BY <1>2, <2>1, <2>2
<1>5. CASE undone' = <<>>
  <2>1. DOMAIN undone' = {} /\ undone' \in Seq(Records)
    BY <1>5, NoneListed
  <2> QED
    BY <1>2, <1>4, <1>5, <2>1, LineNew
<1>6. CASE undone # <<>> /\ undone' = Tail(undone) /\ rec.after = Head(undone).after
  <2>1. /\ undone' \in Seq(Records) /\ Head(undone) = undone[1] /\ 1 \in DOMAIN undone
        /\ \A i \in DOMAIN undone' : undone'[i] = undone[i + 1] /\ i + 1 \in DOMAIN undone /\ i \in Nat
        /\ undone' # <<>> => Head(undone') = undone[2] /\ 2 \in DOMAIN undone
    BY <1>1, <1>6, TailIs
  <2>2. DOMAIN undone' = 1..Len(undone') /\ Len(undone') \in Nat
    BY <2>1, LenProperties
  <2>3. ASSUME NEW i \in DOMAIN undone' PROVE TurnsBack(undone'[i]) /\ (i > 1 => undone'[i - 1].after = undone'[i].before)
    <3>1. TurnsBack(undone'[i])
      BY <2>1 DEF LineOK
    <3>2. ASSUME i > 1 PROVE undone'[i - 1].after = undone'[i].before
      <4>1. i - 1 \in DOMAIN undone' /\ i + 1 > 1 /\ (i + 1) - 1 = i /\ (i - 1) + 1 = i
        BY <2>2, <3>2
      <4>2. undone[(i + 1) - 1].after = undone[i + 1].before
        BY <2>1, <4>1 DEF LineOK
      <4>3. undone'[i - 1] = undone[(i - 1) + 1]
        BY <2>1, <4>1
      <4> QED
        BY <2>1, <4>1, <4>2, <4>3
    <3> QED
      BY <3>1, <3>2
  <2>4. undone' # <<>> => Head(undone').before = View'
    <3> SUFFICES ASSUME undone' # <<>> PROVE Head(undone').before = View'
      OBVIOUS
    <3>1. undone[2 - 1].after = undone[2].before
      BY <2>1 DEF LineOK
    <3> QED
      BY <1>6, <2>1, <3>1
  <2> QED
    BY <1>2, <1>4, <2>1, <2>3, <2>4, LineNew
<1> QED
  BY <1>5, <1>6

\* The last record goes over to the other side.
LEMMA LineSteps ==
    ASSUME Inv, LineOK, NEW rec, RecordOK(rec), TurnsBack(rec), rec.after = View, rec.before = View',
           past # <<>>, rec.before = Last(past).before, past' = Front(past), undone' = <<rec>> \o undone
    PROVE  LineOK'
<1>1. past \in Seq(Records) /\ undone \in Seq(Records) /\ rec \in Records
  BY DEF Inv, HistoryOK, RecordOK
<1>2. /\ past' \in Seq(Records) /\ DOMAIN past' = 1..(Len(past) - 1) /\ Last(past) = past[Len(past)]
      /\ \A i \in DOMAIN past' : past'[i] = past[i] /\ i \in DOMAIN past
      /\ past' # <<>> => Last(past') = past[Len(past) - 1] /\ Len(past) - 1 \in DOMAIN past
      /\ Len(past) \in Nat /\ Len(past) \in DOMAIN past /\ DOMAIN past = 1..Len(past)
  BY <1>1, FrontIs
<1>3. /\ undone' \in Seq(Records) /\ Head(undone') = rec /\ undone'[1] = rec
      /\ \A i \in DOMAIN undone' : i = 1 \/ (i > 1 /\ i - 1 \in DOMAIN undone /\ undone'[i] = undone[i - 1])
      /\ Len(undone) \in Nat /\ DOMAIN undone = 1..Len(undone) /\ DOMAIN undone' = 1..(Len(undone) + 1)
  BY <1>1, PrependIs
<1>4. ASSUME NEW i \in DOMAIN past'
      PROVE  /\ Turns(past'[i].done, past'[i].before, past'[i].after)
             /\ i > 1 => past'[i - 1].after = past'[i].before
  <2>1. i > 1 => i - 1 \in DOMAIN past'
    BY <1>2
  <2> QED
    BY <1>2, <2>1 DEF LineOK
<1>5. past' # <<>> => Last(past').after = View'
  <2> SUFFICES ASSUME past' # <<>> PROVE Last(past').after = View'
    OBVIOUS
  <2>1. Len(past) > 1
    BY <1>2
  <2>2. past[Len(past) - 1].after = past[Len(past)].before
    BY <1>2, <2>1 DEF LineOK
  <2> QED
    BY <1>2, <2>2
<1>6. ASSUME NEW i \in DOMAIN undone' PROVE TurnsBack(undone'[i]) /\ (i > 1 => undone'[i - 1].after = undone'[i].before)
  <2>1. CASE i = 1
    BY <1>3, <2>1
  <2>2. CASE i = 2
    <3>1. 1 \in DOMAIN undone /\ undone'[2] = undone[1] /\ undone # <<>>
      BY <1>3, <2>2, EmptySeq
    <3>2. undone[1].before = View
      BY <3>1, LineEnds
    <3> QED
      BY <1>3, <2>2, <3>1, <3>2 DEF LineOK
  <2>3. CASE i > 2
    <3>1. i - 1 \in DOMAIN undone' /\ i - 1 \in DOMAIN undone /\ i - 1 > 1 /\ i - 1 # 1
      BY <1>3, <2>3
    <3>2. undone'[i] = undone[i - 1] /\ undone'[i - 1] = undone[(i - 1) - 1]
      BY <1>3, <2>3, <3>1
    <3> QED
      BY <3>1, <3>2 DEF LineOK
  <2> QED
    BY <1>3, <2>1, <2>2, <2>3
<1> QED
  BY <1>2, <1>3, <1>4, <1>5, <1>6, LineNew

\* An operation ends that was whole: its record joins up with the others.
LEMMA FinishesTrue ==
    ASSUME Inv, TrueOK, Finishes, Settles(Merged)
    PROVE  TrueOK'
<1>1. OutcomeOK(Merged) /\ run.job # "none" /\ Over /\ Ends(Merged, FALSE)
  BY OutcomeMerged DEF Finishes
<1>2. /\ run' = Idle /\ disk' = disk
      /\ \/ Recoverable(Merged.done) = <<>> /\ UNCHANGED <<past, undone>>
         \/ \E rec : /\ Recorded(rec, Merged)
                     /\ \/ run.doing = "do" /\ past' = Append(past, rec) /\ undone' = <<>>
                        \/ run.doing = "undo" /\ past # <<>> /\ past' = Front(past) /\ undone' = <<rec>> \o undone
                        \/ run.doing = "redo" /\ undone # <<>> /\ past' = Append(past, rec) /\ undone' = Tail(undone)
  BY <1>1, EndsIs
<1>3. View = begun /\ View' = Looks(disk) /\ run'.job = "none"
  BY <1>1, <1>2, IdleIs DEF View, NoRun, Looks
<1>4. ViewOK'
  BY <1>3 DEF ViewOK, NoRun
<1>5. \A p, id : At(p, id)' <=> At(p, id)
  BY <1>2 DEF At, Exists
<1>6. /\ LineOK /\ HoldsOK /\ ViewOK /\ past \in Seq(Records) /\ DOMAIN past = 1..Len(past) /\ Len(past) \in Nat
      /\ (run.job = "restore" <=> run.job # "rename" /\ run.doing = "undo")
  BY <1>1, LenProperties DEF TrueOK, Inv, HistoryOK, RunInv, RunOK, Phased
<1>7. CASE Recoverable(Merged.done) = <<>> /\ past' = past /\ undone' = undone
  <2>1. Merged.done = <<>>
    BY <1>7 DEF Settles
  <2>2. DoneIds = {} /\ Looks(disk) = begun
    <3>1. Ids(Merged.done) = {} /\ Range(Merged.done) = {}
      BY <2>1, NoneListed
    <3>2. Srcs(Merged.done) = {} /\ Dsts(Merged.done) = {}
      BY <3>1 DEF Srcs, Dsts
    <3> QED
      BY <1>1, <1>6, <3>1, <3>2, EndsThere
  <2>3. LineOK'
    BY <1>3, <1>6, <1>7, <2>2 DEF LineOK, Turns, TurnsBack, Srcs, Dsts
  <2>4. HoldsOK'
    <3>1. \A i \in DOMAIN past : past[i].job = "delete" => \A d \in Range(past[i].done) : At(d.dst, d.id)
      BY <1>6, <2>2 DEF HoldsOK
    <3> QED
      BY <1>5, <1>7, <3>1 DEF HoldsOK
  <2> QED
    BY <1>4, <2>3, <2>4 DEF TrueOK
<1>8. ASSUME NEW rec, Recorded(rec, Merged), run.doing # "undo", past' = Append(past, rec),
             undone' = <<>> \/ (run.doing = "redo" /\ undone # <<>> /\ undone' = Tail(undone))
      PROVE  TrueOK'
  <2>1. /\ rec.before = begun /\ rec.after = Looks(disk) /\ Turns(rec.done, rec.before, rec.after)
        /\ run.doing = "redo" => rec.after = Head(undone).after
    BY <1>1, <1>8, EndsRecorded
  <2>2. RecordOK(rec) /\ rec \in Records /\ rec.job = (IF run.job = "rename" THEN "rename" ELSE "delete")
        /\ Range(rec.done) \subseteq Range(Merged.done)
    BY <1>8 DEF Recorded, RecordOK
  <2>3. LineOK'
    BY <1>3, <1>6, <1>8, <2>1, <2>2, LineAppends
  <2>4. \A i \in DOMAIN past' : \/ i \in DOMAIN past /\ past'[i] = past[i]
                                \/ i = Len(past) + 1 /\ past'[i] = rec
    BY <1>6, <1>8, <2>2, AppendIs
  <2>5. \A i \in DOMAIN past : past[i].job = "delete" => \A d \in Range(past[i].done) : At(d.dst, d.id)
    BY <1>6, <1>8 DEF HoldsOK
  <2>6. ASSUME rec.job = "delete", NEW e \in Range(rec.done) PROVE At(e.dst, e.id)
    <3>1. run.job = "delete"
      BY <1>6, <1>8, <2>2, <2>6, <1>1 DEF Inv, RunInv, RunOK, Runs
    <3>2. PICK d \in AllDone : SameDone(d, e)
      BY <1>1, <2>2, <2>6, ToldIs
    <3>3. d.dst \in Stores /\ d.dst = e.dst /\ d.id = e.id
      BY <2>2, <2>6, <3>2 DEF RecordOK, SameDone
    <3> QED
      BY <1>1, <1>6, <3>1, <3>3 DEF ViewOK, NoRun
  <2>7. HoldsOK'
    <3>1. ASSUME NEW i \in DOMAIN past', past'[i].job = "delete", NEW d \in Range(past'[i].done) PROVE At(d.dst, d.id)'
      BY <1>5, <2>4, <2>5, <2>6, <3>1
    <3> QED
      BY <3>1 DEF HoldsOK, At, Exists
  <2> QED
    BY <1>4, <2>3, <2>7 DEF TrueOK
<1>9. ASSUME NEW rec, Recorded(rec, Merged), run.doing = "undo", past # <<>>, past' = Front(past), undone' = <<rec>> \o undone
      PROVE  TrueOK'
  <2>1. rec.after = begun /\ rec.before = Looks(disk) /\ TurnsBack(rec) /\ rec.before = Last(past).before
    BY <1>1, <1>9, EndsRecorded
  <2>2. RecordOK(rec)
    BY <1>9 DEF Recorded
  <2>3. LineOK'
    BY <1>3, <1>6, <1>9, <2>1, <2>2, LineSteps
  <2>4. \A i \in DOMAIN past' : past'[i] = past[i] /\ i \in DOMAIN past /\ i # Len(past)
    BY <1>6, <1>9, FrontIs
  <2>5. HoldsOK'
    <3>1. ASSUME NEW i \in DOMAIN past', past'[i].job = "delete", NEW d \in Range(past'[i].done) PROVE At(d.dst, d.id)'
      BY <1>5, <1>6, <2>4, <3>1 DEF HoldsOK
    <3> QED
      BY <3>1 DEF HoldsOK, At, Exists
  <2> QED
    BY <1>4, <2>3, <2>5 DEF TrueOK
<1>10. CASE \E rec : /\ Recorded(rec, Merged)
                     /\ \/ run.doing = "do" /\ past' = Append(past, rec) /\ undone' = <<>>
                        \/ run.doing = "undo" /\ past # <<>> /\ past' = Front(past) /\ undone' = <<rec>> \o undone
                        \/ run.doing = "redo" /\ undone # <<>> /\ past' = Append(past, rec) /\ undone' = Tail(undone)
  <2>1. PICK rec : /\ Recorded(rec, Merged)
                   /\ \/ run.doing = "do" /\ past' = Append(past, rec) /\ undone' = <<>>
                      \/ run.doing = "undo" /\ past # <<>> /\ past' = Front(past) /\ undone' = <<rec>> \o undone
                      \/ run.doing = "redo" /\ undone # <<>> /\ past' = Append(past, rec) /\ undone' = Tail(undone)
    BY <1>10
  <2> QED
    BY <1>8, <1>9, <2>1
<1> QED
  BY <1>2, <1>7, <1>10

\* What is told of the folder stays true, step by step.
LEMMA CleanKeeps ==
    ASSUME Inv, CleanOK, [Next]_vars
    PROVE  CleanOK'
<1>1. CASE Operates
  <2>1. clean' = clean
    BY <1>1 DEF Operates, Begins
  <2> QED
    BY <1>1, <2>1, OperatesTrue DEF CleanOK
<1>2. CASE Undoes
  <2>1. clean' = clean
    BY <1>2 DEF Undoes, Begins
  <2> QED
    BY <1>2, <2>1, UndoesTrue DEF CleanOK
<1>3. CASE Redoes
  <2>1. clean' = clean
    BY <1>3 DEF Redoes, Begins
  <2> QED
    BY <1>3, <2>1, RedoesTrue DEF CleanOK
<1>4. CASE BatchActs
  <2>1. clean' = clean /\ UNCHANGED <<past, undone, begun>>
    BY <1>4 DEF BatchActs, historyVars
  <2> QED
    BY <1>4, <2>1, AcceptsTrue, PassTrue DEF CleanOK, BatchActs
<1>5. CASE Finishes
  <2>1. clean' => clean /\ Settles(Merged)
    BY <1>5 DEF Finishes, Ends
  <2> QED
    BY <1>5, <2>1, FinishesTrue DEF CleanOK
<1>6. CASE HelperLost \/ Makes \/ Removes \/ EmptiesBin \/ Killed
  <2>1. ~clean'
    BY <1>6 DEF HelperLost, Ends, Makes, Removes, EmptiesBin, Killed
  <2> QED
    BY <2>1 DEF CleanOK
<1>7. CASE Forgets
  <2>1. clean' = clean
    BY <1>7 DEF Forgets
  <2> QED
    BY <1>7, <2>1, ForgetsTrue DEF CleanOK
<1>8. CASE Purges
  <2>1. clean' = clean
    BY <1>8 DEF Purges
  <2> QED
    BY <1>8, <2>1, PurgesTrue DEF CleanOK
<1>9. CASE UNCHANGED vars
  <2>1. UNCHANGED <<disk, run, past, undone, begun, clean>>
    BY <1>9 DEF vars, batchVars, historyVars
  <2>2. AllDone' = AllDone /\ DoneIds' = DoneIds /\ Where' = Where /\ Out' = Out /\ Landed' = Landed /\ View' = View
    BY <2>1 DEF AllDone, DoneIds, Where, Spots, Waiting, Left, Out, OutOf, Landed, View, NoRun, Looks
  <2>3. LineOK => LineOK'
    BY <2>1, <2>2 DEF LineOK, Turns, TurnsBack, Srcs, Dsts
  <2>4. \A p, id : At(p, id)' <=> At(p, id)
    BY <2>1 DEF At, Exists
  <2>5. HoldsOK => HoldsOK'
    BY <2>1, <2>2, <2>4 DEF HoldsOK
  <2>6. ViewOK => ViewOK'
    <3>1. CASE run.job = "none"
      BY <2>1, <3>1 DEF ViewOK, NoRun
    <3>2. ASSUME run.job # "none", ViewOK PROVE ViewOK'
      <4>1. /\ Looks(disk') = {x \in begun : x[2] \notin Out'} \union Landed'
            /\ run.job # "restore" => \A s \in Where' : At(s[2], s[1])'
            /\ run.job = "delete" => \A d \in AllDone' : d.dst \in Stores => At(d.dst, d.id)'
        BY <2>1, <2>2, <2>4, <3>2 DEF ViewOK, NoRun
      <4>2. run'.job = run.job /\ run'.plan = run.plan /\ begun' = begun /\ DoneIds \subseteq DoneIds'
        BY <2>1, <2>2
      <4> QED
        BY <2>4, <3>2, <4>1, <4>2, Views
    <3> QED
      BY <3>1, <3>2
  <2> QED
    BY <2>1, <2>3, <2>5, <2>6 DEF CleanOK, TrueOK
<1> QED
  BY <1>1, <1>2, <1>3, <1>4, <1>5, <1>6, <1>7, <1>8, <1>9 DEF Next

\* At first nothing is told.
LEMMA CleanAtFirst == Init => CleanOK
<1> SUFFICES ASSUME Init PROVE CleanOK
  OBVIOUS
<1>1. past = <<>> /\ undone = <<>> /\ run.job = "none"
  BY IdleIs DEF Init
<1>2. DOMAIN past = {} /\ DOMAIN undone = {}
  BY <1>1
<1> QED
  BY <1>1, <1>2 DEF CleanOK, TrueOK, LineOK, HoldsOK, ViewOK, NoRun

\* RecordsAreTrue holds in every behaviour: what a delete in the history says it holds is there, in
\* its holding folder or in the bin (DeletedItem::is_recoverable, delete/models.rs); and while all that
\* changed is recorded, the folder looks as the last operation left it and the next redo needs it.
THEOREM RecordsTrue == Spec => []RecordsAreTrue
<1> DEFINE IInv == Inv /\ KeptOK /\ CleanOK
<1>1. Init => IInv
  BY Starts, KeptAtFirst, CleanAtFirst
<1>2. IInv /\ [Next]_vars => IInv'
  BY StepKeeps, KeptKeeps, CleanKeeps
<1>3. IInv => RecordsAreTrue
  <2> SUFFICES ASSUME Inv, KeptOK, CleanOK, NoRun PROVE RecordsAreTrue
    BY DEF RecordsAreTrue
  <2>1. ASSUME ~lost, NEW i \in DOMAIN past, past[i].job = "delete", NEW p \in HeldBy(past[i])
        PROVE  Exists(p) \/ (p.at = "bin" /\ emptied)
    BY <2>1, IdleKept DEF NoRun, There
  <2>2. ASSUME clean PROVE /\ past # <<>> => Looks(disk) = Last(past).after
                           /\ undone # <<>> => Looks(disk) = Head(undone).before
    BY <2>2 DEF CleanOK, TrueOK, LineOK, View
  <2> QED
    BY <2>1, <2>2 DEF RecordsAreTrue
<1> QED
  BY <1>1, <1>2, <1>3, PTL DEF Spec
================================================================================
