-------------------------- MODULE CrawledIndex_proofs --------------------------
(***************************************************************************)
(* For any names, roots, watchers and slots and however often the app is   *)
(* started again: a crawled root that searches are served from has the rows *)
(* the disk says it should, if none of the circumstances comes about.      *)
(***************************************************************************)
EXTENDS CrawledIndex, FiniteSetTheorems, SequenceTheorems, WellFoundedInduction, TLAPS

--------------------------------------------------------------------------------
(* Paths. *)

Trails == Seq(Names)

LEMMA WithinIs ==
    ASSUME NEW p \in Trails, NEW q \in Trails
    PROVE  /\ Within(p, q) <=> Len(q) <= Len(p) /\ \A i \in 1..Len(q) : p[i] = q[i]
           /\ Len(p) \in Nat /\ DOMAIN p = 1..Len(p) /\ \A i \in 1..Len(p) : p[i] \in Names
           /\ Len(q) \in Nat
<1>1. /\ Len(p) \in Nat /\ Len(q) \in Nat /\ DOMAIN p = 1..Len(p) /\ DOMAIN q = 1..Len(q)
      /\ \A i \in 1..Len(p) : p[i] \in Names
  BY LenProperties, ElementOfSeq DEF Trails
<1>2. SubSeq(q, 1, Len(q)) = q
  BY SubSeqFull DEF Trails
<1>3. ASSUME Len(q) <= Len(p)
      PROVE  SubSeq(p, 1, Len(q)) = q <=> \A i \in 1..Len(q) : p[i] = q[i]
  <2> DEFINE s == SubSeq(p, 1, Len(q))
             n == Len(q)
  <2>1. \A i \in 1..n : p[i] \in Names
    BY <1>1, <1>3
  <2>2. s \in Trails /\ Len(s) = n /\ \A i \in 1..n : s[i] = p[i]
    BY <1>1, <2>1 DEF Trails
  <2>3. s = q <=> Len(s) = Len(q) /\ \A i \in 1..Len(q) : s[i] = q[i]
    <3> HIDE DEF s
    <3> QED
      BY <2>2, SeqEqual DEF Trails
  <2> QED
    BY <2>2, <2>3
<1> QED
  BY <1>1, <1>2, <1>3 DEF Within, IsPrefix

LEMMA FirstNames ==
    ASSUME NEW p \in Trails, NEW n \in Nat, n <= Len(p)
    PROVE  /\ SubSeq(p, 1, n) \in Trails /\ Len(SubSeq(p, 1, n)) = n
           /\ \A i \in 1..n : SubSeq(p, 1, n)[i] = p[i]
<1> DEFINE s == SubSeq(p, 1, n)
<1>1. \A i \in 1..n : p[i] \in Names
  BY WithinIs
<1>2. /\ s \in Seq(Names) /\ Len(s) = IF 1 <= n THEN n - 1 + 1 ELSE 0
      /\ \A i \in 1..(n - 1 + 1) : s[i] = p[1 + i - 1]
  BY <1>1, SubSeqProperties
<1> HIDE DEF s
<1>3. s \in Trails /\ Len(s) = n /\ \A i \in 1..n : s[i] = p[i]
  BY <1>2 DEF Trails
<1> QED
  BY <1>3 DEF s

LEMMA SameTrail ==
    ASSUME NEW p \in Trails, NEW q \in Trails, Len(p) = Len(q), \A i \in 1..Len(p) : p[i] = q[i]
    PROVE  p = q
  BY SeqEqual DEF Trails

LEMMA WithinItself == \A p \in Trails : Within(p, p)
<1> TAKE p \in Trails
<1> QED
  BY WithinIs

LEMMA WithinThrough ==
    ASSUME NEW p \in Trails, NEW q \in Trails, NEW d \in Trails, Within(p, q), Within(q, d)
    PROVE  Within(p, d)
<1>1. Len(q) <= Len(p) /\ \A i \in 1..Len(q) : p[i] = q[i]
  BY WithinIs
<1>2. Len(d) <= Len(q) /\ \A i \in 1..Len(d) : q[i] = d[i]
  BY WithinIs
<1>3. Len(p) \in Nat /\ Len(q) \in Nat /\ Len(d) \in Nat
  BY WithinIs
<1>4. Len(d) <= Len(p) /\ \A i \in 1..Len(d) : p[i] = d[i]
  BY <1>1, <1>2, <1>3
<1> QED
  BY <1>4, WithinIs

LEMMA WithinEither ==
    ASSUME NEW p \in Trails, NEW q \in Trails, NEW d \in Trails, Within(p, q), Within(p, d)
    PROVE  Within(q, d) \/ Within(d, q)
<1>1. Len(q) <= Len(p) /\ \A i \in 1..Len(q) : p[i] = q[i]
  BY WithinIs
<1>2. Len(d) <= Len(p) /\ \A i \in 1..Len(d) : p[i] = d[i]
  BY WithinIs
<1>3. Len(p) \in Nat /\ Len(q) \in Nat /\ Len(d) \in Nat
  BY WithinIs
<1>4. CASE Len(d) <= Len(q)
  <2>1. \A i \in 1..Len(d) : q[i] = d[i]
    BY <1>1, <1>2, <1>3, <1>4
  <2> QED
    BY <1>4, <2>1, WithinIs
<1>5. CASE Len(q) <= Len(d)
  <2>1. \A i \in 1..Len(q) : d[i] = q[i]
    BY <1>1, <1>2, <1>3, <1>5
  <2> QED
    BY <1>5, <2>1, WithinIs
<1> QED
  BY <1>3, <1>4, <1>5

LEMMA WithinBoth ==
    ASSUME NEW p \in Trails, NEW q \in Trails, Within(p, q), Within(q, p)
    PROVE  p = q
<1>1. Len(q) <= Len(p) /\ Len(p) <= Len(q) /\ \A i \in 1..Len(q) : p[i] = q[i]
  BY WithinIs
<1>2. Len(p) = Len(q)
  BY <1>1, WithinIs
<1> QED
  BY <1>1, <1>2, SameTrail

\* The root is the first name.
LEMMA RootIs ==
    ASSUME NEW p \in Trails, Len(p) >= 1
    PROVE  /\ RootOf(p) = <<p[1]>> /\ p[1] \in Names
           /\ RootOf(p) \in Roots <=> p[1] \in RootNames
<1>1. Len(p) \in Nat /\ p[1] \in Names
  BY WithinIs
<1>2. RootOf(p) = <<p[1]>>
  <2> DEFINE s == SubSeq(p, 1, 1)
             t == <<p[1]>>
  <2>1. s \in Trails /\ Len(s) = 1 /\ \A i \in 1..1 : s[i] = p[i]
    BY <1>1, FirstNames
  <2>2. t \in Trails /\ Len(t) = 1 /\ t[1] = p[1]
    BY <1>1 DEF Trails
  <2> HIDE DEF s, t
  <2>3. s = t
    <3>1. Len(s) = Len(t) /\ \A i \in 1..Len(s) : s[i] = t[i]
      BY <2>1, <2>2
    <3> QED
      BY <2>1, <2>2, <3>1, SameTrail
  <2> QED
    BY <2>3 DEF s, t, RootOf
<1>3. \A n, m : <<n>> = <<m>> => n = m
  OBVIOUS
<1> QED
  BY <1>1, <1>2, <1>3 DEF Roots

LEMMA WithinRoot ==
    ASSUME NEW p \in Trails, NEW q \in Trails, Within(p, q), Len(q) >= 1
    PROVE  RootOf(p) = RootOf(q) /\ Len(p) >= Len(q)
<1>1. Len(q) <= Len(p) /\ p[1] = q[1] /\ Len(p) \in Nat /\ Len(q) \in Nat
  BY WithinIs
<1>2. Len(p) >= 1
  BY <1>1
<1> QED
  BY <1>1, <1>2, RootIs

LEMMA RootTrail ==
    ASSUME NEW r \in Roots
    PROVE  r \in Trails /\ Len(r) = 1 /\ RootOf(r) = r
<1>1. PICK n \in RootNames : r = <<n>>
  BY DEF Roots
<1>2. r \in Trails /\ Len(r) = 1 /\ r[1] = n
  BY <1>1, CrawledAssumption DEF Trails
<1> QED
  BY <1>1, <1>2, RootIs

LEMMA UnderRoot ==
    ASSUME NEW r \in Roots, NEW p \in Trails
    PROVE  Under(p, r) <=> Len(p) > 1 /\ RootOf(p) = r
<1>1. r \in Trails /\ Len(r) = 1 /\ RootOf(r) = r
  BY RootTrail
<1>2. Len(p) \in Nat
  BY WithinIs
<1>3. Under(p, r) <=> Within(p, r) /\ p # r
  BY DEF Under, Within, IsStrictPrefix
<1>4. ASSUME Under(p, r) PROVE Len(p) > 1 /\ RootOf(p) = r
  <2>1. Within(p, r) /\ p # r
    BY <1>3, <1>4
  <2>2. RootOf(p) = r /\ Len(p) >= 1 /\ p[1] = r[1]
    BY <1>1, <2>1, WithinRoot, WithinIs
  <2>3. Len(p) # 1
    <3> SUFFICES ASSUME Len(p) = 1 PROVE FALSE
      OBVIOUS
    <3>1. \A i \in 1..Len(p) : p[i] = r[i]
      BY <2>2
    <3> QED
      BY <1>1, <2>1, <3>1, SameTrail
  <2> QED
    BY <1>2, <2>2, <2>3
<1>5. ASSUME Len(p) > 1, RootOf(p) = r PROVE Under(p, r)
  <2>1. r = <<p[1]>>
    BY <1>2, <1>5, RootIs
  <2>2. r[1] = p[1]
    BY <2>1
  <2>3. Within(p, r)
    BY <1>1, <1>2, <1>5, <2>2, WithinIs
  <2>4. p # r
    <3> SUFFICES ASSUME p = r PROVE FALSE
      OBVIOUS
    <3>1. Len(p) = 1
      BY <1>1
    <3> QED
      BY <1>5, <3>1
  <2> QED
    BY <1>3, <2>3, <2>4
<1> QED
  BY <1>4, <1>5

\* What was under one name is under another; and back again.
LEMMA RebasedIs ==
    ASSUME NEW p \in Trails, NEW from \in Trails, NEW to \in Trails, Within(p, from)
    PROVE  /\ Rebased(p, from, to) \in Trails /\ Within(Rebased(p, from, to), to)
           /\ Rebased(Rebased(p, from, to), to, from) = p
           /\ Len(Rebased(p, from, to)) = Len(to) + (Len(p) - Len(from))
           /\ \A i \in (Len(to) + 1)..(Len(to) + (Len(p) - Len(from))) :
                  Rebased(p, from, to)[i] = p[Len(from) + (i - Len(to))]
<1> DEFINE rest(x, n) == SubSeq(x, n + 1, Len(x))
<1>1. /\ Len(p) \in Nat /\ Len(from) \in Nat /\ Len(to) \in Nat /\ Len(from) <= Len(p)
      /\ \A i \in 1..Len(p) : p[i] \in Names
      /\ \A i \in 1..Len(from) : p[i] = from[i]
  BY WithinIs
<1>2. ASSUME NEW x \in Trails, NEW n \in Nat, n <= Len(x)
      PROVE  /\ rest(x, n) \in Trails /\ Len(rest(x, n)) = Len(x) - n
             /\ \A i \in 1..(Len(x) - n) : rest(x, n)[i] = x[n + i]
  <2>1. Len(x) \in Nat /\ \A i \in 1..Len(x) : x[i] \in Names
    BY WithinIs
  <2>2. \A i \in (n + 1)..Len(x) : x[i] \in Names
    BY <1>2, <2>1
  <2>3. n + 1 \in Int /\ Len(x) \in Int
    BY <1>2, <2>1
  <2>4. /\ rest(x, n) \in Seq(Names)
        /\ Len(rest(x, n)) = IF n + 1 <= Len(x) THEN Len(x) - (n + 1) + 1 ELSE 0
        /\ \A i \in 1..(Len(x) - (n + 1) + 1) : rest(x, n)[i] = x[(n + 1) + i - 1]
    BY <2>2, <2>3, SubSeqProperties
  <2> HIDE DEF rest
  <2>5. Len(rest(x, n)) = Len(x) - n
    BY <1>2, <2>1, <2>4
  <2>6. \A i \in 1..(Len(x) - n) : rest(x, n)[i] = x[n + i]
    <3> TAKE i \in 1..(Len(x) - n)
    <3>1. i \in 1..(Len(x) - (n + 1) + 1) /\ (n + 1) + i - 1 = n + i
      BY <1>2, <2>1
    <3> QED
      BY <2>4, <3>1
  <2> QED
    BY <2>4, <2>5, <2>6 DEF Trails
<1> DEFINE s == rest(p, Len(from))
           q == Rebased(p, from, to)
<1>3. s \in Trails /\ Len(s) = Len(p) - Len(from) /\ \A i \in 1..(Len(p) - Len(from)) : s[i] = p[Len(from) + i]
  <2> HIDE DEF rest
  <2> QED
    BY <1>1, <1>2
<1>4. q = to \o s
  BY DEF Rebased
<1> HIDE DEF s, q, rest
<1>5. /\ q \in Trails /\ Len(q) = Len(to) + Len(s)
      /\ \A i \in 1..(Len(to) + Len(s)) : q[i] = IF i <= Len(to) THEN to[i] ELSE s[i - Len(to)]
  BY <1>3, <1>4, ConcatProperties DEF Trails
<1>6. /\ \A i \in 1..Len(to) : q[i] = to[i]
      /\ Len(q) = Len(to) + (Len(p) - Len(from))
  BY <1>1, <1>3, <1>5
<1>7. \A i \in (Len(to) + 1)..(Len(to) + (Len(p) - Len(from))) : q[i] = p[Len(from) + (i - Len(to))]
  <2> TAKE i \in (Len(to) + 1)..(Len(to) + (Len(p) - Len(from)))
  <2>1. i \in 1..(Len(to) + Len(s)) /\ ~(i <= Len(to)) /\ i - Len(to) \in 1..(Len(p) - Len(from))
    BY <1>1, <1>3
  <2> QED
    BY <1>3, <1>5, <2>1
<1>8. Within(q, to)
  <2>1. Len(to) <= Len(q)
    BY <1>1, <1>6
  <2> QED
    BY <1>5, <1>6, <2>1, WithinIs
<1>9. Rebased(q, to, from) = p
  <2> DEFINE u == rest(q, Len(to))
             v == from \o u
  <2>1. Len(to) <= Len(q)
    BY <1>1, <1>6
  <2>2. u \in Trails /\ Len(u) = Len(q) - Len(to) /\ \A i \in 1..(Len(q) - Len(to)) : u[i] = q[Len(to) + i]
    BY <1>1, <1>2, <1>5, <2>1
  <2>3. v = Rebased(q, to, from)
    BY DEF Rebased, rest
  <2> HIDE DEF u
  <2>4. /\ v \in Trails /\ Len(v) = Len(from) + Len(u)
        /\ \A i \in 1..(Len(from) + Len(u)) : v[i] = IF i <= Len(from) THEN from[i] ELSE u[i - Len(from)]
    BY <2>2, ConcatProperties DEF Trails
  <2> HIDE DEF v
  <2>5. Len(v) = Len(p)
    BY <1>1, <1>6, <2>2, <2>4
  <2>6. ASSUME NEW i \in 1..Len(v) PROVE v[i] = p[i]
    <3>1. i \in 1..(Len(from) + Len(u)) /\ i \in 1..Len(p)
      BY <2>4, <2>5
    <3>2. CASE i <= Len(from)
      BY <1>1, <2>4, <3>1, <3>2
    <3>3. CASE ~(i <= Len(from))
      <4> DEFINE k == i - Len(from)
      <4>1. /\ k \in 1..(Len(q) - Len(to)) /\ v[i] = u[k]
            /\ Len(to) + k \in (Len(to) + 1)..(Len(to) + (Len(p) - Len(from)))
            /\ Len(from) + ((Len(to) + k) - Len(to)) = i
        BY <1>1, <1>6, <2>4, <3>1, <3>3
      <4> HIDE DEF k
      <4>2. u[k] = q[Len(to) + k] /\ q[Len(to) + k] = p[i]
        BY <1>7, <2>2, <4>1
      <4> QED
        BY <4>1, <4>2
    <3> QED
      BY <3>2, <3>3
  <2> QED
    BY <2>3, <2>4, <2>5, <2>6, SameTrail
<1> QED
  BY <1>5, <1>6, <1>7, <1>8, <1>9 DEF q

LEMMA RebasedWithin ==
    ASSUME NEW p \in Trails, NEW d \in Trails, NEW from \in Trails, NEW to \in Trails,
           Within(p, d), Within(d, from)
    PROVE  Within(Rebased(p, from, to), Rebased(d, from, to))
<1> DEFINE P == Rebased(p, from, to)
           D == Rebased(d, from, to)
<1>1. Within(p, from)
  BY WithinThrough
<1>2. /\ P \in Trails /\ Within(P, to) /\ Len(P) = Len(to) + (Len(p) - Len(from))
      /\ \A i \in (Len(to) + 1)..(Len(to) + (Len(p) - Len(from))) : P[i] = p[Len(from) + (i - Len(to))]
  BY <1>1, RebasedIs
<1>3. /\ D \in Trails /\ Within(D, to) /\ Len(D) = Len(to) + (Len(d) - Len(from))
      /\ \A i \in (Len(to) + 1)..(Len(to) + (Len(d) - Len(from))) : D[i] = d[Len(from) + (i - Len(to))]
  BY RebasedIs
<1> HIDE DEF P, D
<1>4. /\ Len(p) \in Nat /\ Len(d) \in Nat /\ Len(from) \in Nat /\ Len(to) \in Nat
      /\ Len(d) <= Len(p) /\ Len(from) <= Len(d) /\ \A i \in 1..Len(d) : p[i] = d[i]
  BY WithinIs
<1>5. /\ Len(to) <= Len(P) /\ \A i \in 1..Len(to) : P[i] = to[i] /\ D[i] = to[i]
  BY <1>2, <1>3, WithinIs
<1>6. ASSUME NEW i \in 1..Len(D) PROVE P[i] = D[i]
  <2>1. CASE i <= Len(to)
    BY <1>3, <1>4, <1>5, <2>1
  <2>2. CASE ~(i <= Len(to))
    <3> DEFINE k == Len(from) + (i - Len(to))
    <3>1. /\ i \in (Len(to) + 1)..(Len(to) + (Len(d) - Len(from))) /\ k \in 1..Len(d)
          /\ i \in (Len(to) + 1)..(Len(to) + (Len(p) - Len(from)))
      BY <1>3, <1>4, <2>2
    <3>2. P[i] = p[k] /\ D[i] = d[k]
      BY <1>2, <1>3, <3>1
    <3> HIDE DEF k
    <3> QED
      BY <1>4, <3>1, <3>2
  <2> QED
    BY <2>1, <2>2
<1>7. Len(D) <= Len(P)
  BY <1>2, <1>3, <1>4
<1>8. Within(P, D)
  BY <1>2, <1>3, <1>6, <1>7, WithinIs
<1> QED
  BY <1>8 DEF P, D

LEMMA RebasedItself ==
    ASSUME NEW from \in Trails, NEW to \in Trails
    PROVE  Rebased(from, from, to) = to
<1> DEFINE q == Rebased(from, from, to)
<1>1. /\ q \in Trails /\ Within(q, to) /\ Len(q) = Len(to) + (Len(from) - Len(from))
  BY RebasedIs, WithinItself
<1> HIDE DEF q
<1>2. Len(q) = Len(to) /\ \A i \in 1..Len(to) : q[i] = to[i]
  BY <1>1, WithinIs
<1> QED
  BY <1>1, <1>2, SameTrail DEF q

\* The folder an entry is in.
LEMMA ParentIs ==
    ASSUME NEW p \in Trails, Len(p) >= 1
    PROVE  /\ Parent(p) \in Trails /\ Len(Parent(p)) = Len(p) - 1 /\ Within(p, Parent(p))
           /\ \A d \in Trails : Within(p, d) /\ d # p => Within(Parent(p), d)
<1>1. Len(p) \in Nat /\ \A i \in 1..Len(p) : p[i] \in Names
  BY WithinIs
<1> DEFINE q == Parent(p)
           n == Len(p) - 1
<1>2. q \in Trails /\ Len(q) = n /\ \A i \in 1..n : q[i] = p[i]
  <2>1. n \in Nat /\ n <= Len(p) /\ q = SubSeq(p, 1, n)
    BY <1>1 DEF Parent, Front
  <2> HIDE DEF n, q
  <2> QED
    BY <2>1, FirstNames
<1> HIDE DEF q
<1>3. Within(p, q)
  BY <1>1, <1>2, WithinIs
<1>4. ASSUME NEW d \in Trails, Within(p, d), d # p PROVE Within(q, d)
  <2>1. Len(d) \in Nat /\ Len(d) <= Len(p) /\ \A i \in 1..Len(d) : p[i] = d[i]
    BY <1>4, WithinIs
  <2>2. Len(d) # Len(p)
    BY <1>4, <2>1, SameTrail
  <2>3. Len(d) <= n /\ \A i \in 1..Len(d) : q[i] = d[i]
    BY <1>1, <1>2, <2>1, <2>2
  <2> QED
    BY <1>2, <2>3, WithinIs
<1> QED
  BY <1>2, <1>3, <1>4 DEF q

\* On the way from a folder to what is somewhere below it is an entry of the folder.
LEMMA ChildTowards ==
    ASSUME NEW p \in Trails, NEW d \in Trails, Within(p, d), p # d
    PROVE  \E c \in Trails : /\ Within(p, c) /\ Within(c, d) /\ c # d
                             /\ Len(c) = Len(d) + 1 /\ Parent(c) = d
<1>1. /\ Len(p) \in Nat /\ Len(d) \in Nat /\ Len(d) <= Len(p)
      /\ \A i \in 1..Len(p) : p[i] \in Names /\ \A j \in 1..Len(d) : p[j] = d[j]
  BY WithinIs
<1>2. Len(d) # Len(p)
  BY <1>1, SameTrail, WithinIs
<1> DEFINE n == Len(d) + 1
           c == SubSeq(p, 1, n)
<1>3. c \in Trails /\ Len(c) = n /\ \A i \in 1..n : c[i] = p[i]
  BY <1>1, <1>2, FirstNames
<1> HIDE DEF c
<1>4. Within(p, c)
  BY <1>1, <1>2, <1>3, WithinIs
<1>5. \A i \in 1..Len(d) : p[i] = d[i]
  BY WithinIs
<1>6. Within(c, d) /\ c # d
  <2>1. Len(d) <= Len(c) /\ \A i \in 1..Len(d) : c[i] = d[i]
    BY <1>1, <1>3, <1>5
  <2> QED
    BY <1>1, <1>3, <2>1, WithinIs
<1>7. Parent(c) = d
  <2>1. /\ Parent(c) \in Trails /\ Len(Parent(c)) = Len(d) /\ Within(Parent(c), d)
    BY <1>1, <1>3, <1>6, ParentIs
  <2>2. \A i \in 1..Len(d) : Parent(c)[i] = d[i]
    BY <2>1, WithinIs
  <2> QED
    BY <2>1, <2>2, SameTrail
<1> QED
  BY <1>3, <1>4, <1>6, <1>7
--------------------------------------------------------------------------------
(* Where entries are, and what the operators on rows and on what was found do. *)

LEMMA InsideIs ==
    ASSUME NEW p \in Inside
    PROVE  /\ p \in Trails /\ p \in Paths /\ Len(p) > 1 /\ Len(p) \in Nat /\ RootOf(p) \in Roots
           /\ p[1] \in BusyNames /\ \A i \in 2..Len(p) : p[i] \notin RootNames
<1>1. p \in Paths /\ Len(p) > 1 /\ p[1] \in BusyNames /\ \A i \in 2..Len(p) : p[i] \notin RootNames
  BY DEF Inside
<1>2. p \in Trails
  BY <1>1, SeqDef DEF Paths, Trails
<1>3. Len(p) \in Nat
  BY <1>2, WithinIs
<1>4. Len(p) >= 1 /\ p[1] \in RootNames
  BY <1>1, <1>3, CrawledAssumption
<1> QED
  BY <1>1, <1>2, <1>3, <1>4, RootIs

LEMMA LandsInside ==
    ASSUME NEW p \in Inside, NEW old \in Inside, NEW new \in Inside, Within(p, old),
           Rebased(p, old, new) \in Paths
    PROVE  Rebased(p, old, new) \in Inside
<1> DEFINE q == Rebased(p, old, new)
<1>1. p \in Trails /\ old \in Trails /\ new \in Trails
  BY InsideIs
<1>2. /\ q \in Trails /\ Within(q, new) /\ Len(q) = Len(new) + (Len(p) - Len(old))
      /\ \A i \in (Len(new) + 1)..(Len(new) + (Len(p) - Len(old))) : q[i] = p[Len(old) + (i - Len(new))]
  BY <1>1, RebasedIs
<1> HIDE DEF q
<1>3. /\ Len(old) <= Len(p) /\ Len(p) \in Nat /\ Len(new) > 1 /\ Len(new) \in Nat
      /\ Len(old) \in Nat /\ Len(old) > 1
  BY <1>1, InsideIs, WithinIs
<1>4. Len(new) <= Len(q) /\ \A i \in 1..Len(new) : q[i] = new[i]
  BY <1>1, <1>2, WithinIs
<1>5. Len(q) > 1 /\ q[1] \in BusyNames
  BY <1>2, <1>3, <1>4, InsideIs
<1>6. ASSUME NEW i \in 2..Len(q) PROVE q[i] \notin RootNames
  <2>1. CASE i <= Len(new)
    <3>1. i \in 2..Len(new) /\ i \in 1..Len(new)
      BY <2>1, <1>3
    <3> QED
      BY <1>4, <3>1, InsideIs
  <2>2. CASE ~(i <= Len(new))
    <3> DEFINE k == Len(old) + (i - Len(new))
    <3>1. i \in (Len(new) + 1)..(Len(new) + (Len(p) - Len(old))) /\ k \in 2..Len(p)
      BY <1>2, <1>3, <2>2
    <3>2. q[i] = p[k]
      BY <1>2, <3>1
    <3> HIDE DEF k
    <3> QED
      BY <3>1, <3>2, InsideIs
  <2> QED
    BY <2>1, <2>2
<1>7. q \in Paths
  BY DEF q
<1> QED
  BY <1>5, <1>6, <1>7 DEF Inside, q

LEMMA OverIs ==
    ASSUME NEW f, NEW g
    PROVE  /\ DOMAIN Over(f, g) = DOMAIN f \union DOMAIN g
           /\ \A x \in DOMAIN f : Over(f, g)[x] = f[x]
           /\ \A x \in DOMAIN g : x \notin DOMAIN f => Over(f, g)[x] = g[x]
  BY DEF Over

LEMMA AsRowsIs ==
    ASSUME NEW paths
    PROVE  /\ DOMAIN AsRows(paths) = paths
           /\ \A p \in paths : AsRows(paths)[p] = [folder |-> disk[p], hidden |-> FALSE]
           /\ \A p \in paths : AsRows(paths)[p].folder = disk[p]
  BY DEF AsRows

LEMMA UpsertIs ==
    ASSUME NEW w, NEW e, NEW g
    PROVE  /\ DOMAIN UpsertEntries(w, e, g) = DOMAIN w \union DOMAIN e
           /\ \A p \in DOMAIN e : UpsertEntries(w, e, g)[p]
                                      = [folder |-> e[p].folder, hidden |-> e[p].hidden, gen |-> g]
           /\ \A p \in DOMAIN w : p \notin DOMAIN e => UpsertEntries(w, e, g)[p] = w[p]
  BY DEF UpsertEntries

LEMMA DeleteIs ==
    ASSUME NEW w, NEW path
    PROVE  /\ \A p : p \in DOMAIN DeleteSubtree(w, path) <=> p \in DOMAIN w /\ ~Within(p, path)
           /\ \A p \in DOMAIN DeleteSubtree(w, path) : DeleteSubtree(w, path)[p] = w[p]
  BY DEF DeleteSubtree, Restrict

LEMMA SweptIs ==
    ASSUME NEW w, NEW r, NEW g
    PROVE  /\ \A p : p \in DOMAIN SweepVanished(w, r, g) <=> p \in DOMAIN w /\ (Under(p, r) => w[p].gen >= g)
           /\ \A p \in DOMAIN SweepVanished(w, r, g) : SweepVanished(w, r, g)[p] = w[p]
  BY DEF SweepVanished, Restrict

\* What a rename keeps, and what it brings.
LEMMA RenameIs ==
    ASSUME NEW w, NEW old \in Trails, NEW new \in Trails, NEW g, old # new,
           \A p \in DOMAIN w : p \in Trails /\ w[p] \in Row
    PROVE  /\ \A p \in DOMAIN Rename(w, old, new, g) :
                  \/ /\ p \in DOMAIN w /\ ~Within(p, new) /\ ~Within(p, old)
                     /\ Rename(w, old, new, g)[p] = w[p]
                  \/ \E q \in DOMAIN w : /\ Within(q, old) /\ p = Rebased(q, old, new)
                                         /\ q = Rebased(p, new, old) /\ ~Within(q, new)
                                         /\ p \in Trails /\ Within(p, new)
                                         /\ Rename(w, old, new, g)[p] = [w[q] EXCEPT !.gen = g]
           /\ \A p \in DOMAIN w : ~Within(p, new) /\ ~Within(p, old) => p \in DOMAIN Rename(w, old, new, g)
           /\ \A q \in DOMAIN w : Within(q, old) /\ ~Within(q, new)
                  => Rebased(q, old, new) \in DOMAIN Rename(w, old, new, g)
<1> DEFINE kept == DeleteSubtree(w, new)
           moved == {p \in DOMAIN kept : Within(p, old)}
           landed == {Rebased(p, old, new) : p \in moved}
           res == [p \in (DOMAIN kept \ moved) \union landed |->
                      IF p \in landed THEN [kept[Rebased(p, new, old)] EXCEPT !.gen = g] ELSE kept[p]]
<1>1. Rename(w, old, new, g) = res
  BY DEF Rename
<1>2. /\ \A p : p \in DOMAIN kept <=> p \in DOMAIN w /\ ~Within(p, new)
      /\ \A p \in DOMAIN kept : kept[p] = w[p]
  BY DeleteIs
<1> HIDE DEF kept
<1>3. ASSUME NEW p \in landed
      PROVE  \E q \in moved : /\ p = Rebased(q, old, new) /\ q = Rebased(p, new, old) /\ q \in DOMAIN w
                              /\ Within(q, old) /\ ~Within(q, new) /\ p \in Trails /\ Within(p, new)
                              /\ res[p] = [w[q] EXCEPT !.gen = g]
  <2>1. PICK q \in moved : p = Rebased(q, old, new)
    OBVIOUS
  <2>2. q \in DOMAIN w /\ Within(q, old) /\ ~Within(q, new) /\ q \in Trails /\ q \in DOMAIN kept /\ kept[q] = w[q]
    BY <1>2
  <2>3. p \in Trails /\ Within(p, new) /\ Rebased(p, new, old) = q
    BY <2>1, <2>2, RebasedIs
  <2>4. res[p] = [kept[Rebased(p, new, old)] EXCEPT !.gen = g]
    OBVIOUS
  <2> QED
    BY <2>1, <2>2, <2>3, <2>4
<1>4. ASSUME NEW p \in DOMAIN kept \ moved, p \notin landed PROVE res[p] = w[p]
  BY <1>2, <1>4
<1>5. DOMAIN res = (DOMAIN kept \ moved) \union landed
  OBVIOUS
<1>6. \A p \in DOMAIN kept : p \in moved <=> Within(p, old)
  OBVIOUS
<1>7. \A p \in moved : Rebased(p, old, new) \in landed
  OBVIOUS
<1> HIDE DEF res, moved, landed
<1>8. ASSUME NEW p \in DOMAIN res
      PROVE  \/ p \in DOMAIN w /\ ~Within(p, new) /\ ~Within(p, old) /\ res[p] = w[p]
             \/ \E q \in DOMAIN w : /\ Within(q, old) /\ p = Rebased(q, old, new)
                                    /\ q = Rebased(p, new, old) /\ ~Within(q, new)
                                    /\ p \in Trails /\ Within(p, new)
                                    /\ res[p] = [w[q] EXCEPT !.gen = g]
  <2>1. CASE p \in landed
    BY <1>3, <2>1
  <2>2. CASE p \notin landed
    BY <1>2, <1>4, <1>5, <1>6, <2>2
  <2> QED
    BY <2>1, <2>2
<1>9. ASSUME NEW p \in DOMAIN w, ~Within(p, new), ~Within(p, old) PROVE p \in DOMAIN res
  BY <1>2, <1>5, <1>6, <1>9
<1>10. ASSUME NEW q \in DOMAIN w, Within(q, old), ~Within(q, new) PROVE Rebased(q, old, new) \in DOMAIN res
  BY <1>2, <1>5, <1>6, <1>7, <1>10
<1> QED
  BY <1>1, <1>8, <1>9, <1>10

--------------------------------------------------------------------------------
(* What the variables hold, and that on the disk there is a folder around everything. *)

Event  == {c \in Change : c.kind = "renamed" => /\ RootOf(c.old) = RootOf(c.path)
                                               /\ ~Within(c.old, c.path) /\ ~Within(c.path, c.old)}
Founds == UNION {[held -> Entry] : held \in SUBSET Inside}
Crawl  == [step : Steps, gen : Nat, todo : SUBSET (Inside \union Roots), found : Founds]

DiskTyped   == DOMAIN disk \subseteq Inside /\ \A p \in DOMAIN disk : disk[p] \in BOOLEAN
Placed      == \A p \in DOMAIN disk, d \in Trails :
                   Within(p, d) /\ d # p /\ Len(d) > 1 => d \in DOMAIN disk /\ disk[d] = TRUE
RowsTyped   == \A p \in DOMAIN rows : /\ p \in Trails /\ Len(p) > 1 /\ RootOf(p) \in Roots
                                      /\ rows[p] \in Row /\ rows[p].gen <= clock
RootsTyped  == DOMAIN roots \subseteq Roots /\ \A r \in DOMAIN roots : roots[r] \in BOOLEAN
WatchedTyped == watched \in Seq(Roots) /\ IsInjective(watched) /\ Len(watched) <= MaxWatchers
QueueTyped  == batch \in Seq(Event) /\ pending \in Seq(Event)
UpsertsTyped == upserts \in Founds
CrawlsTyped == crawls \in [Roots -> Crawl] /\ \A r \in Roots : crawls[r].gen <= clock
ClockTyped  == clock \in Nat /\ batchGen \in Nat /\ batchGen <= clock

Typed == /\ DiskTyped /\ Placed /\ RowsTyped /\ RootsTyped /\ WatchedTyped
         /\ QueueTyped /\ UpsertsTyped /\ CrawlsTyped /\ ClockTyped

LEMMA FoundsIs ==
    ASSUME NEW f \in Founds
    PROVE  DOMAIN f \subseteq Inside /\ \A p \in DOMAIN f : f[p] \in Entry /\ f[p].folder \in BOOLEAN
                                                           /\ f[p].hidden = FALSE
<1>1. PICK held \in SUBSET Inside : f \in [held -> Entry]
  BY DEF Founds
<1> QED
  BY <1>1 DEF Entry

LEMMA NothingFound == <<>> \in Founds /\ DOMAIN <<>> = {}
<1>1. \A f : f = [p \in {} |-> f[p]] => f \in [{} -> Entry]
  OBVIOUS
<1>2. <<>> = [p \in {} |-> {}]
  BY DEF Founds
<1> QED
  BY <1>1, <1>2 DEF Founds

LEMMA FoundsGrow ==
    ASSUME DiskTyped, NEW paths \in SUBSET DOMAIN disk, NEW f \in Founds
    PROVE  Over(AsRows(paths), f) \in Founds
<1> DEFINE g == Over(AsRows(paths), f)
           held == paths \union DOMAIN f
<1>1. held \in SUBSET Inside
  BY FoundsIs DEF DiskTyped
<1>2. ASSUME NEW p \in held
      PROVE  (IF p \in DOMAIN AsRows(paths) THEN AsRows(paths)[p] ELSE f[p]) \in Entry
  <2>1. CASE p \in paths
    <3>1. disk[p] \in BOOLEAN
      BY <2>1 DEF DiskTyped
    <3>2. [folder |-> disk[p], hidden |-> FALSE] \in Entry
      BY <3>1 DEF Entry
    <3> QED
      BY <2>1, <3>2, AsRowsIs
  <2>2. CASE p \notin paths
    BY <2>2, AsRowsIs, FoundsIs
  <2> QED
    BY <2>1, <2>2
<1>3. g = [p \in held |-> IF p \in DOMAIN AsRows(paths) THEN AsRows(paths)[p] ELSE f[p]]
  BY AsRowsIs DEF Over
<1>4. g \in [held -> Entry]
  BY <1>2, <1>3
<1> QED
  BY <1>1, <1>4 DEF Founds

\* The folders around a place that there is.
LEMMA PlaceIs ==
    ASSUME DiskTyped, NEW path \in Inside, HasPlace(path), NEW d \in Trails,
           Within(path, d), d # path, Len(d) > 1,
           \A x \in Trails : Within(Parent(path), x) /\ x # Parent(path) /\ Len(x) > 1
                                /\ Parent(path) \in DOMAIN disk => x \in DOMAIN disk /\ disk[x] = TRUE
    PROVE  d \in DOMAIN disk /\ disk[d] = TRUE
<1>1. path \in Trails /\ Len(path) > 1 /\ Len(path) \in Nat
  BY InsideIs
<1>2. Parent(path) \in Trails /\ Len(Parent(path)) = Len(path) - 1 /\ Within(Parent(path), d)
  BY <1>1, ParentIs
<1>3. Len(d) \in Nat /\ Len(d) <= Len(Parent(path))
  BY <1>2, WithinIs
<1>4. Parent(path) \notin Roots
  <2> SUFFICES ASSUME Parent(path) \in Roots PROVE FALSE
    OBVIOUS
  <2>1. Len(Parent(path)) = 1
    BY RootTrail
  <2> QED
    BY <1>3, <2>1
<1>5. Parent(path) \in DOMAIN disk /\ disk[Parent(path)]
  BY <1>4 DEF HasPlace
<1>6. disk[Parent(path)] = TRUE
  BY <1>5 DEF DiskTyped
<1>7. CASE d = Parent(path)
  BY <1>5, <1>6, <1>7
<1>8. CASE d # Parent(path)
  BY <1>2, <1>5, <1>8
<1> QED
  BY <1>7, <1>8

LEMMA PlacedAround ==
    ASSUME DiskTyped, Placed, NEW path \in Inside, HasPlace(path), NEW d \in Trails,
           Within(path, d), d # path, Len(d) > 1
    PROVE  d \in DOMAIN disk /\ disk[d] = TRUE
<1>1. \A x \in Trails : Within(Parent(path), x) /\ x # Parent(path) /\ Len(x) > 1
                            /\ Parent(path) \in DOMAIN disk => x \in DOMAIN disk /\ disk[x] = TRUE
  BY DEF Placed
<1> QED
  BY <1>1, PlaceIs

Less == {ss \in Nat \X Nat : ss[1] < ss[2]}

LEMMA LeastOf ==
    ASSUME NEW S \in SUBSET Nat, S # {}
    PROVE  \E n \in S : \A m \in S : n <= m
<1>1. IsWellFoundedOn(Less, Nat)
  BY NatLessThanWellFounded, SMT DEF OpToRel, Less
<1>2. PICK n \in S : \A m \in S : ~ <<m, n>> \in Less
  <2> HIDE DEF Less
  <2> QED
    BY <1>1, WFMin, Zenon
<1>3. \A m \in S : n <= m
  <2> SUFFICES ASSUME NEW m \in S, m < n PROVE FALSE
    OBVIOUS
  <2>1. <<m, n>> \in Nat \X Nat /\ <<m, n>>[1] < <<m, n>>[2]
    OBVIOUS
  <2>2. <<m, n>> \in Less
    BY <2>1, Zenon DEF Less
  <2> QED
    BY <1>2, <2>2
<1> QED
  BY <1>3

LEMMA PlacedAtFirst ==
    ASSUME DiskTyped, \A p \in DOMAIN disk : HasPlace(p)
    PROVE  Placed
<1> DEFINE Right(p) == \A d \in Trails : Within(p, d) /\ d # p /\ Len(d) > 1 => d \in DOMAIN disk /\ disk[d] = TRUE
           Wrong == {p \in DOMAIN disk : ~Right(p)}
           Lengths == {Len(p) : p \in Wrong}
<1>1. Wrong = {}
  <2> SUFFICES ASSUME Wrong # {} PROVE FALSE
    OBVIOUS
  <2>1. Lengths \in SUBSET Nat /\ Lengths # {}
    BY InsideIs DEF DiskTyped
  <2>2. PICK n \in Lengths : \A m \in Lengths : n <= m
    BY <2>1, LeastOf
  <2>3. PICK p \in Wrong : Len(p) = n
    OBVIOUS
  <2>4. \A q \in Wrong : Len(p) <= Len(q)
    BY <2>2, <2>3
  <2>5. p \in Inside /\ p \in DOMAIN disk /\ HasPlace(p) /\ p \in Trails /\ Len(p) \in Nat /\ Len(p) > 1
    BY InsideIs DEF DiskTyped
  <2>6. Parent(p) \in Trails /\ Len(Parent(p)) = Len(p) - 1
    BY <2>5, ParentIs
  <2>7. Parent(p) \in DOMAIN disk => Right(Parent(p))
    <3> SUFFICES ASSUME Parent(p) \in DOMAIN disk, ~Right(Parent(p)) PROVE FALSE
      OBVIOUS
    <3>1. Parent(p) \in Wrong
      OBVIOUS
    <3>2. Len(p) <= Len(Parent(p))
      BY <2>4, <3>1
    <3> QED
      BY <2>5, <2>6, <3>2
  <2>8. Right(p)
    <3> SUFFICES ASSUME NEW d \in Trails, Within(p, d), d # p, Len(d) > 1
                 PROVE  d \in DOMAIN disk /\ disk[d] = TRUE
      OBVIOUS
    <3>1. \A x \in Trails : Within(Parent(p), x) /\ x # Parent(p) /\ Len(x) > 1
                               /\ Parent(p) \in DOMAIN disk => x \in DOMAIN disk /\ disk[x] = TRUE
      BY <2>7
    <3> QED
      BY <2>5, <3>1, PlaceIs
  <2> QED
    BY <2>8
<1>2. \A p \in DOMAIN disk : Right(p)
  BY <1>1
<1> QED
  BY <1>2 DEF Placed

--------------------------------------------------------------------------------
(* What a row will be once the changes noticed so far are applied.  A change gives an entry,  *)
(* for which the disk will be asked, brings it from elsewhere, or takes it.                   *)

Gives(c, p)  == (c.kind = "created" /\ Within(p, c.path)) \/ (c.kind = "changed" /\ p = c.path)
Brings(c, p) == c.kind = "renamed" /\ Within(p, c.path)
Takes(c, p)  == \/ c.kind = "deleted" /\ Within(p, c.path)
                \/ c.kind = "renamed" /\ (Within(p, c.path) \/ Within(p, c.old))
Source(c, p) == Rebased(p, c.path, c.old)

Untaken(q, i, p) == \A j \in DOMAIN q : j > i => ~Takes(q[j], p)

Given(q, p)         == \E i \in DOMAIN q : Gives(q[i], p) /\ Untaken(q, i, p)
Kept(q, k, p)       == Untaken(q, 0, p) /\ p \in DOMAIN k
Brought(q, k, p, i) == Brings(q[i], p) /\ Untaken(q, i, p) /\ Source(q[i], p) \in DOMAIN k

\* k: the kinds known of; d: the disk.
WillBe(q, k, d, p) ==
    /\ p \in DOMAIN d => \/ Given(q, p)
                         \/ Kept(q, k, p) /\ k[p] = d[p]
                         \/ \E i \in DOMAIN q : Brought(q, k, p, i) /\ k[Source(q[i], p)] = d[p]
    /\ p \notin DOMAIN d => ~Kept(q, k, p) /\ \A i \in DOMAIN q : ~Brought(q, k, p, i)

InStepWith(q, k, d, r) == \A p \in Trails : Under(p, r) => WillBe(q, k, d, p)

\* Nothing noticed before a rename is about what it moves.
Ahead(q, c)     == c.kind = "renamed" => \A i \in DOMAIN q : ~About(c.old, q[i])
RenamesFirst(q) == \A i, j \in DOMAIN q : i < j /\ q[j].kind = "renamed" => ~About(q[j].old, q[i])

LEMMA EventIs ==
    ASSUME NEW c \in Event
    PROVE  /\ c.kind \in {"created", "changed", "deleted", "renamed"} /\ c.path \in Inside
           /\ c.path \in Trails /\ Len(c.path) > 1
           /\ c.kind = "renamed" => /\ c.old \in Inside /\ c.old \in Trails /\ Len(c.old) > 1
                                    /\ RootOf(c.old) = RootOf(c.path)
                                    /\ ~Within(c.old, c.path) /\ ~Within(c.path, c.old)
<1>1. c \in Change /\ (c.kind = "renamed" => /\ RootOf(c.old) = RootOf(c.path)
                                            /\ ~Within(c.old, c.path) /\ ~Within(c.path, c.old))
  BY DEF Event
<1>2. \/ c \in [kind : {"created", "changed", "deleted"}, path : Inside]
      \/ c \in [kind : {"renamed"}, path : Inside, old : Inside]
  BY <1>1 DEF Change
<1>3. /\ c.kind \in {"created", "changed", "deleted", "renamed"} /\ c.path \in Inside
      /\ c.kind = "renamed" => c.old \in Inside
  BY <1>2
<1> QED
  BY <1>1, <1>3, InsideIs

LEMMA SourceIs ==
    ASSUME NEW c \in Event, NEW p \in Trails, Brings(c, p)
    PROVE  /\ Source(c, p) \in Trails /\ Within(Source(c, p), c.old) /\ Len(Source(c, p)) > 1
           /\ RootOf(Source(c, p)) = RootOf(p) /\ Rebased(Source(c, p), c.old, c.path) = p
           /\ ~Within(Source(c, p), c.path)
<1>1. /\ c.kind = "renamed" /\ Within(p, c.path) /\ c.path \in Trails /\ c.old \in Trails /\ Len(c.path) > 1
      /\ Len(c.old) > 1 /\ RootOf(c.old) = RootOf(c.path) /\ ~Within(c.old, c.path) /\ ~Within(c.path, c.old)
  BY EventIs DEF Brings
<1>2. /\ Source(c, p) \in Trails /\ Within(Source(c, p), c.old) /\ Rebased(Source(c, p), c.old, c.path) = p
  BY <1>1, RebasedIs DEF Source
<1>3. Len(c.path) >= 1 /\ Len(c.old) >= 1
  BY <1>1, WithinIs
<1>4. RootOf(Source(c, p)) = RootOf(c.old) /\ RootOf(p) = RootOf(c.path) /\ Len(Source(c, p)) >= Len(c.old)
  BY <1>1, <1>2, <1>3, WithinRoot
<1>5. Len(Source(c, p)) > 1
  BY <1>1, <1>2, <1>4, WithinIs
<1>6. ~Within(Source(c, p), c.path)
  BY <1>1, <1>2, WithinEither
<1> QED
  BY <1>1, <1>2, <1>4, <1>5, <1>6

\* A change is about entries of its own root.
LEMMA OfItsRoot ==
    ASSUME NEW c \in Event, NEW p \in Trails, Gives(c, p) \/ Takes(c, p) \/ Brings(c, p)
    PROVE  RootOf(p) = RootOf(c.path)
<1>1. /\ c.path \in Trails /\ Len(c.path) >= 1
      /\ c.kind = "renamed" => c.old \in Trails /\ Len(c.old) >= 1 /\ RootOf(c.old) = RootOf(c.path)
  BY EventIs, WithinIs
<1>2. CASE Within(p, c.path)
  BY <1>1, <1>2, WithinRoot
<1>3. CASE c.kind = "renamed" /\ Within(p, c.old)
  BY <1>1, <1>3, WithinRoot
<1> QED
  BY <1>1, <1>2, <1>3 DEF Gives, Takes, Brings

\* What a change is about that is not about what another moves does not concern that.
LEMMA NotConcerned ==
    ASSUME NEW c \in Event, NEW b \in Event, c.kind = "renamed", ~About(c.old, b),
           NEW p \in Trails, Within(p, c.old)
    PROVE  ~Gives(b, p) /\ ~Takes(b, p) /\ ~Brings(b, p) /\ ~Within(p, b.path)
<1>1. /\ c.old \in Trails /\ b.path \in Trails /\ (b.kind = "renamed" => b.old \in Trails)
      /\ b.kind \in {"created", "changed", "deleted", "renamed"}
  BY EventIs
<1>2. ~Within(p, b.path)
  BY <1>1, WithinEither DEF About
<1>3. b.kind = "renamed" => ~Within(p, b.old)
  BY <1>1, WithinEither DEF About
<1>4. p # b.path
  BY <1>1, <1>2, WithinItself
<1> QED
  BY <1>2, <1>3, <1>4 DEF Gives, Takes, Brings

\* A change comes about: what it does to the disk.
Happens(c, d, e) ==
    \A p \in Trails :
        /\ p \in DOMAIN e => \/ Gives(c, p)
                             \/ ~Takes(c, p) /\ p \in DOMAIN d /\ d[p] = e[p]
                             \/ Brings(c, p) /\ Source(c, p) \in DOMAIN d /\ d[Source(c, p)] = e[p]
        /\ p \notin DOMAIN e => \/ ~Takes(c, p) /\ p \notin DOMAIN d
                                \/ Takes(c, p) /\ (Brings(c, p) => Source(c, p) \notin DOMAIN d)

LEMMA UntakenMore ==
    ASSUME NEW q \in Seq(Event), NEW c \in Event
    PROVE  /\ DOMAIN Append(q, c) = 1..(Len(q) + 1) /\ Len(q) \in Nat /\ DOMAIN q = 1..Len(q)
           /\ \A i \in DOMAIN q : Append(q, c)[i] = q[i] /\ q[i] \in Event
           /\ Append(q, c)[Len(q) + 1] = c
           /\ \A p : /\ \A i \in 0..Len(q) : Untaken(Append(q, c), i, p) <=> Untaken(q, i, p) /\ ~Takes(c, p)
                     /\ Untaken(Append(q, c), Len(q) + 1, p)
<1> DEFINE a == Append(q, c)
           n == Len(q)
<1>1. n \in Nat /\ DOMAIN q = 1..n /\ \A i \in 1..n : q[i] \in Event
  BY LenProperties, ElementOfSeq
<1>2. a \in Seq(Event) /\ Len(a) = n + 1 /\ (\A i \in 1..n : a[i] = q[i]) /\ a[n + 1] = c
  BY AppendProperties
<1>3. DOMAIN a = 1..(n + 1)
  BY <1>2, LenProperties
<1> HIDE DEF a, n
<1>4. ASSUME NEW p, NEW i \in 0..n
      PROVE  Untaken(a, i, p) <=> Untaken(q, i, p) /\ ~Takes(c, p)
  <2>1. ASSUME Untaken(a, i, p) PROVE Untaken(q, i, p) /\ ~Takes(c, p)
    <3>1. ~Takes(c, p)
      <4>1. n + 1 \in DOMAIN a /\ n + 1 > i
        BY <1>1, <1>3
      <4>2. ~Takes(a[n + 1], p)
        BY <2>1, <4>1 DEF Untaken
      <4> QED
        BY <1>2, <4>2
    <3>2. ASSUME NEW j \in DOMAIN q, j > i PROVE ~Takes(q[j], p)
      <4>1. j \in DOMAIN a /\ a[j] = q[j]
        BY <1>1, <1>2, <1>3
      <4>2. ~Takes(a[j], p)
        BY <2>1, <3>2, <4>1 DEF Untaken
      <4> QED
        BY <4>1, <4>2
    <3> QED
      BY <3>1, <3>2 DEF Untaken
  <2>2. ASSUME Untaken(q, i, p), ~Takes(c, p) PROVE Untaken(a, i, p)
    <3> SUFFICES ASSUME NEW j \in DOMAIN a, j > i PROVE ~Takes(a[j], p)
      BY DEF Untaken
    <3>1. CASE j \in DOMAIN q
      <4>1. ~Takes(q[j], p)
        BY <2>2, <3>1 DEF Untaken
      <4> QED
        BY <1>1, <1>2, <3>1, <4>1
    <3>2. CASE j \notin DOMAIN q
      <4>1. j = n + 1
        BY <1>1, <1>3, <3>2
      <4> QED
        BY <1>2, <2>2, <4>1
    <3> QED
      BY <3>1, <3>2
  <2> QED
    BY <2>1, <2>2
<1>5. ASSUME NEW p PROVE Untaken(a, n + 1, p)
  <2> SUFFICES ASSUME NEW j \in DOMAIN a, j > n + 1 PROVE FALSE
    BY DEF Untaken
  <2> QED
    BY <1>1, <1>3
<1> QED
  BY <1>1, <1>2, <1>3, <1>4, <1>5 DEF a, n

\* What comes about and is noticed leaves what will be in step with the disk.
LEMMA InStepMore ==
    ASSUME NEW q \in Seq(Event), NEW c \in Event, NEW k, NEW d, NEW e, NEW r \in Roots,
           Ahead(q, c), Happens(c, d, e), InStepWith(q, k, d, r)
    PROVE  InStepWith(Append(q, c), k, e, r)
<1> DEFINE a == Append(q, c)
           n == Len(q)
<1> SUFFICES ASSUME NEW p \in Trails, Under(p, r) PROVE WillBe(a, k, e, p)
  BY DEF InStepWith
<1>1. /\ DOMAIN a = 1..(n + 1) /\ n \in Nat /\ DOMAIN q = 1..n
      /\ \A i \in DOMAIN q : a[i] = q[i] /\ q[i] \in Event
      /\ a[n + 1] = c
      /\ \A x : /\ \A i \in 0..n : Untaken(a, i, x) <=> Untaken(q, i, x) /\ ~Takes(c, x)
                /\ Untaken(a, n + 1, x)
  BY UntakenMore
<1> HIDE DEF a, n
<1>2. /\ n + 1 \in DOMAIN a /\ 0 \in 0..n
      /\ \A i \in DOMAIN q : i \in DOMAIN a /\ i \in 0..n
      /\ \A i \in DOMAIN a : i \in DOMAIN q \/ i = n + 1
  BY <1>1
<1>3. WillBe(q, k, d, p)
  BY DEF InStepWith
\* Nothing noticed before is about what this change brings p from.
<1>4. ASSUME Brings(c, p)
      PROVE  /\ Source(c, p) \in Trails /\ WillBe(q, k, d, Source(c, p)) /\ c.kind = "renamed"
             /\ ~Given(q, Source(c, p)) /\ Untaken(q, 0, Source(c, p))
             /\ \A i \in DOMAIN q : ~Brought(q, k, Source(c, p), i)
  <2> DEFINE s == Source(c, p)
  <2>1. s \in Trails /\ Within(s, c.old) /\ Len(s) > 1 /\ RootOf(s) = RootOf(p)
    BY <1>4, SourceIs
  <2>2. Under(s, r)
    BY <2>1, UnderRoot
  <2>3. c.kind = "renamed"
    BY <1>4 DEF Brings
  <2>4. \A i \in DOMAIN q : ~Gives(q[i], s) /\ ~Takes(q[i], s) /\ ~Brings(q[i], s)
    <3> TAKE i \in DOMAIN q
    <3>1. ~About(c.old, q[i]) /\ q[i] \in Event
      BY <1>1, <2>3 DEF Ahead
    <3> QED
      BY <2>1, <2>3, <3>1, NotConcerned
  <2>5. WillBe(q, k, d, s)
    BY <2>1, <2>2 DEF InStepWith
  <2> HIDE DEF s
  <2>6. ~Given(q, s) /\ Untaken(q, 0, s) /\ \A i \in DOMAIN q : ~Brought(q, k, s, i)
    BY <2>4 DEF Given, Untaken, Brought
  <2> QED
    BY <2>1, <2>3, <2>5, <2>6 DEF s
<1>5. ASSUME p \in DOMAIN e
      PROVE  \/ Given(a, p)
             \/ Kept(a, k, p) /\ k[p] = e[p]
             \/ \E i \in DOMAIN a : Brought(a, k, p, i) /\ k[Source(a[i], p)] = e[p]
  <2>1. CASE Gives(c, p)
    BY <1>1, <1>2, <2>1 DEF Given
  <2>2. CASE ~Takes(c, p) /\ p \in DOMAIN d /\ d[p] = e[p]
    <3>1. CASE Given(q, p)
      <4>1. PICK i \in DOMAIN q : Gives(q[i], p) /\ Untaken(q, i, p)
        BY <3>1 DEF Given
      <4>2. i \in DOMAIN a /\ Gives(a[i], p) /\ Untaken(a, i, p)
        BY <1>1, <1>2, <2>2, <4>1
      <4> QED
        BY <4>2 DEF Given
    <3>2. CASE Kept(q, k, p) /\ k[p] = d[p]
      <4>1. Untaken(a, 0, p)
        BY <1>1, <1>2, <2>2, <3>2 DEF Kept
      <4> QED
        BY <2>2, <3>2, <4>1 DEF Kept
    <3>3. CASE \E i \in DOMAIN q : Brought(q, k, p, i) /\ k[Source(q[i], p)] = d[p]
      <4>1. PICK i \in DOMAIN q : Brought(q, k, p, i) /\ k[Source(q[i], p)] = d[p]
        BY <3>3
      <4>2. i \in DOMAIN a /\ a[i] = q[i] /\ Untaken(a, i, p)
        BY <1>1, <1>2, <2>2, <4>1 DEF Brought
      <4>3. Brought(a, k, p, i) /\ k[Source(a[i], p)] = e[p]
        BY <2>2, <4>1, <4>2 DEF Brought
      <4> QED
        BY <4>2, <4>3
    <3> QED
      BY <1>3, <2>2, <3>1, <3>2, <3>3 DEF WillBe
  <2>3. CASE Brings(c, p) /\ Source(c, p) \in DOMAIN d /\ d[Source(c, p)] = e[p]
    <3>1. Kept(q, k, Source(c, p)) /\ k[Source(c, p)] = d[Source(c, p)]
      BY <1>4, <2>3 DEF WillBe
    <3>2. Brought(a, k, p, n + 1)
      BY <1>1, <2>3, <3>1 DEF Brought, Kept
    <3>3. n + 1 \in DOMAIN a /\ k[Source(a[n + 1], p)] = e[p]
      BY <1>1, <1>2, <2>3, <3>1
    <3> QED
      BY <3>2, <3>3
  <2> QED
    BY <1>5, <2>1, <2>2, <2>3 DEF Happens
<1>6. ASSUME p \notin DOMAIN e
      PROVE  ~Kept(a, k, p) /\ \A i \in DOMAIN a : ~Brought(a, k, p, i)
  <2>1. CASE ~Takes(c, p) /\ p \notin DOMAIN d
    <3>1. ~Kept(q, k, p) /\ \A i \in DOMAIN q : ~Brought(q, k, p, i)
      BY <1>3, <2>1 DEF WillBe
    <3>2. ~Kept(a, k, p)
      BY <1>1, <1>2, <3>1 DEF Kept
    <3>3. ASSUME NEW i \in DOMAIN a, Brought(a, k, p, i) PROVE FALSE
      <4>1. Brings(a[i], p) /\ Untaken(a, i, p) /\ Source(a[i], p) \in DOMAIN k
        BY <3>3 DEF Brought
      <4>2. ~Brings(c, p)
        BY <2>1 DEF Brings, Takes
      <4>3. i \in DOMAIN q
        BY <1>1, <1>2, <4>1, <4>2
      <4>4. Brought(q, k, p, i)
        BY <1>1, <1>2, <4>1, <4>3 DEF Brought
      <4> QED
        BY <3>1, <4>3, <4>4
    <3> QED
      BY <3>2, <3>3
  <2>2. CASE Takes(c, p) /\ (Brings(c, p) => Source(c, p) \notin DOMAIN d)
    <3>1. \A i \in 0..n : ~Untaken(a, i, p)
      BY <1>1, <2>2
    <3>2. ~Kept(a, k, p)
      BY <1>2, <3>1 DEF Kept
    <3>3. ASSUME NEW i \in DOMAIN a, Brought(a, k, p, i) PROVE FALSE
      <4>1. Brings(a[i], p) /\ Untaken(a, i, p) /\ Source(a[i], p) \in DOMAIN k
        BY <3>3 DEF Brought
      <4>2. i = n + 1
        BY <1>2, <3>1, <4>1
      <4>3. Brings(c, p) /\ Source(c, p) \in DOMAIN k
        BY <1>1, <4>1, <4>2
      <4>4. ~Kept(q, k, Source(c, p))
        BY <1>4, <2>2, <4>3 DEF WillBe
      <4> QED
        BY <1>4, <4>3, <4>4 DEF Kept
    <3> QED
      BY <3>2, <3>3
  <2> QED
    BY <1>6, <2>1, <2>2 DEF Happens
<1>7. WillBe(a, k, e, p)
  BY <1>5, <1>6 DEF WillBe
<1> QED
  BY <1>7 DEF a

\* What comes about below another root is of no concern here.
LEMMA InStepElsewhere ==
    ASSUME NEW q \in Seq(Event), NEW c \in Event, NEW k, NEW d, NEW e, NEW r \in Roots,
           RootOf(c.path) # r, Happens(c, d, e), InStepWith(q, k, d, r)
    PROVE  InStepWith(q, k, e, r)
<1> SUFFICES ASSUME NEW p \in Trails, Under(p, r) PROVE WillBe(q, k, e, p)
  BY DEF InStepWith
<1>1. RootOf(p) = r
  BY UnderRoot
<1>2. ~Gives(c, p) /\ ~Takes(c, p) /\ ~Brings(c, p)
  BY <1>1, OfItsRoot
<1>3. (p \in DOMAIN e => p \in DOMAIN d /\ d[p] = e[p]) /\ (p \notin DOMAIN e => p \notin DOMAIN d)
  BY <1>2 DEF Happens
<1>4. WillBe(q, k, d, p)
  BY DEF InStepWith
<1> QED
  BY <1>3, <1>4 DEF WillBe

\* The next change is applied: what that does to what is known.
Applying(c, d, k, m) ==
    \A p \in Trails :
        /\ Gives(c, p) /\ p \in DOMAIN d => p \in DOMAIN m /\ m[p] = d[p]
        /\ ~Takes(c, p) /\ p \in DOMAIN d /\ p \in DOMAIN k /\ k[p] = d[p] => p \in DOMAIN m /\ m[p] = d[p]
        /\ ~Takes(c, p) /\ p \notin DOMAIN d /\ p \in DOMAIN m => p \in DOMAIN k
        /\ Takes(c, p) /\ ~Brings(c, p) => p \notin DOMAIN m
        /\ Brings(c, p) => /\ p \in DOMAIN m <=> Source(c, p) \in DOMAIN k
                           /\ p \in DOMAIN m => m[p] = k[Source(c, p)]
        /\ ~Within(p, c.path) /\ ~(c.kind = "renamed" /\ Within(p, c.old))
              => (p \in DOMAIN m <=> p \in DOMAIN k) /\ (p \in DOMAIN k => m[p] = k[p])

LEMMA UntakenNext ==
    ASSUME NEW q \in Seq(Event), q # <<>>
    PROVE  /\ Len(q) \in Nat /\ Len(q) > 0 /\ DOMAIN q = 1..Len(q) /\ DOMAIN Tail(q) = 1..(Len(q) - 1)
           /\ Head(q) \in Event /\ q[1] = Head(q) /\ Tail(q) \in Seq(Event)
           /\ \A i \in DOMAIN q : q[i] \in Event
           /\ \A i \in DOMAIN Tail(q) : Tail(q)[i] = q[i + 1]
           /\ \A p : /\ Untaken(q, 0, p) <=> ~Takes(Head(q), p) /\ Untaken(Tail(q), 0, p)
                     /\ \A i \in 0..(Len(q) - 1) : Untaken(q, i + 1, p) <=> Untaken(Tail(q), i, p)
<1> DEFINE t == Tail(q)
           n == Len(q)
<1>1. n \in Nat /\ n > 0 /\ DOMAIN q = 1..n /\ (\A i \in 1..n : q[i] \in Event)
  BY LenProperties, ElementOfSeq, EmptySeq
<1>2. Head(q) \in Event /\ t \in Seq(Event) /\ Len(t) = n - 1 /\ \A i \in 1..Len(t) : t[i] = q[i + 1]
  BY HeadTailProperties
<1>3. DOMAIN t = 1..(n - 1)
  BY <1>2, LenProperties
<1>4. Head(q) = q[1]
  BY <1>1
<1> HIDE DEF t, n
<1>5. \A i \in DOMAIN t : t[i] = q[i + 1]
  BY <1>2, <1>3
<1>6. ASSUME NEW p, NEW i \in 0..(n - 1)
      PROVE  Untaken(q, i + 1, p) <=> Untaken(t, i, p)
  <2>1. ASSUME Untaken(q, i + 1, p) PROVE Untaken(t, i, p)
    <3> SUFFICES ASSUME NEW j \in DOMAIN t, j > i PROVE ~Takes(t[j], p)
      BY DEF Untaken
    <3>1. j + 1 \in DOMAIN q /\ j + 1 > i + 1
      BY <1>1, <1>3
    <3>2. ~Takes(q[j + 1], p)
      BY <2>1, <3>1 DEF Untaken
    <3> QED
      BY <1>5, <3>2
  <2>2. ASSUME Untaken(t, i, p) PROVE Untaken(q, i + 1, p)
    <3> SUFFICES ASSUME NEW j \in DOMAIN q, j > i + 1 PROVE ~Takes(q[j], p)
      BY DEF Untaken
    <3> DEFINE h == j - 1
    <3>1. h \in DOMAIN t /\ h > i /\ j = h + 1
      BY <1>1, <1>3
    <3> HIDE DEF h
    <3>2. ~Takes(t[h], p) /\ t[h] = q[h + 1]
      BY <1>5, <2>2, <3>1 DEF Untaken
    <3> QED
      BY <3>1, <3>2
  <2> QED
    BY <2>1, <2>2
<1>7. ASSUME NEW p
      PROVE  Untaken(q, 0, p) <=> ~Takes(Head(q), p) /\ Untaken(t, 0, p)
  <2>1. 0 \in 0..(n - 1) /\ 1 \in DOMAIN q
    BY <1>1
  <2>2. Untaken(q, 0 + 1, p) <=> Untaken(t, 0, p)
    BY <1>6, <2>1
  <2>3. Untaken(q, 1, p) <=> Untaken(t, 0, p)
    BY <2>2
  <2>4. ASSUME Untaken(q, 0, p) PROVE ~Takes(q[1], p) /\ Untaken(q, 1, p)
    <3>1. \A j \in DOMAIN q : j > 0
      BY <1>1
    <3> QED
      BY <2>1, <2>4, <3>1 DEF Untaken
  <2>5. ASSUME ~Takes(q[1], p), Untaken(q, 1, p) PROVE Untaken(q, 0, p)
    <3>1. \A j \in DOMAIN q : j = 1 \/ j > 1
      BY <1>1
    <3> QED
      BY <2>5, <3>1 DEF Untaken
  <2> QED
    BY <1>4, <2>3, <2>4, <2>5
<1> QED
  BY <1>1, <1>2, <1>3, <1>4, <1>5, <1>6, <1>7 DEF t, n

LEMMA InStepNext ==
    ASSUME NEW q \in Seq(Event), q # <<>>, NEW k, NEW m, NEW d, NEW r \in Roots,
           RenamesFirst(q), Applying(Head(q), d, k, m), InStepWith(q, k, d, r)
    PROVE  InStepWith(Tail(q), m, d, r)
<1> DEFINE t == Tail(q)
           c == Head(q)
           n == Len(q)
<1> SUFFICES ASSUME NEW p \in Trails, Under(p, r) PROVE WillBe(t, m, d, p)
  BY DEF InStepWith
<1>1. /\ n \in Nat /\ n > 0 /\ DOMAIN q = 1..n /\ DOMAIN t = 1..(n - 1)
      /\ c \in Event /\ q[1] = c
      /\ \A i \in DOMAIN q : q[i] \in Event
      /\ \A i \in DOMAIN t : t[i] = q[i + 1]
      /\ \A x : /\ Untaken(q, 0, x) <=> ~Takes(c, x) /\ Untaken(t, 0, x)
                /\ \A i \in 0..(n - 1) : Untaken(q, i + 1, x) <=> Untaken(t, i, x)
  BY UntakenNext
<1> HIDE DEF t, c, n
<1>2. Applying(c, d, k, m)
  BY DEF c
<1>3. /\ 1 \in DOMAIN q /\ 0 \in 0..(n - 1)
      /\ \A i \in DOMAIN t : i + 1 \in DOMAIN q /\ i \in 0..(n - 1) /\ i + 1 > 1
  BY <1>1
<1>4. ASSUME NEW i \in DOMAIN q PROVE i = 1 \/ \E j \in DOMAIN t : i = j + 1
  <2>1. CASE i # 1
    <3>1. i - 1 \in DOMAIN t /\ i = (i - 1) + 1
      BY <1>1, <2>1
    <3> QED
      BY <3>1
  <2> QED
    BY <2>1
<1>5. WillBe(q, k, d, p)
  BY DEF InStepWith
\* What another rename will bring is not what this change is about.
<1>6. ASSUME NEW j \in DOMAIN t, Brings(t[j], p)
      PROVE  LET s == Source(t[j], p)
             IN  (s \in DOMAIN m <=> s \in DOMAIN k) /\ (s \in DOMAIN k => m[s] = k[s])
  <2> DEFINE s == Source(t[j], p)
  <2>1. t[j] = q[j + 1] /\ t[j] \in Event
    BY <1>1, <1>3
  <2>2. t[j].kind = "renamed"
    BY <1>6 DEF Brings
  <2>3. ~About(t[j].old, c)
    BY <1>1, <1>3, <2>1, <2>2 DEF RenamesFirst
  <2>4. s \in Trails /\ Within(s, t[j].old)
    BY <1>6, <2>1, SourceIs
  <2>5. ~Within(s, c.path) /\ ~Takes(c, s)
    BY <1>1, <2>1, <2>2, <2>3, <2>4, NotConcerned
  <2> HIDE DEF s
  <2>6. ~(c.kind = "renamed" /\ Within(s, c.old))
    BY <2>5 DEF Takes
  <2>7. (s \in DOMAIN m <=> s \in DOMAIN k) /\ (s \in DOMAIN k => m[s] = k[s])
    BY <1>2, <2>4, <2>5, <2>6 DEF Applying
  <2> QED
    BY <2>7 DEF s
<1>7. ASSUME p \in DOMAIN d
      PROVE  \/ Given(t, p)
             \/ Kept(t, m, p) /\ m[p] = d[p]
             \/ \E i \in DOMAIN t : Brought(t, m, p, i) /\ m[Source(t[i], p)] = d[p]
  <2>1. CASE Given(q, p)
    <3>1. PICK i \in DOMAIN q : Gives(q[i], p) /\ Untaken(q, i, p)
      BY <2>1 DEF Given
    <3>2. CASE i = 1
      <4>1. Gives(c, p)
        BY <1>1, <3>1, <3>2
      <4>2. p \in DOMAIN m /\ m[p] = d[p]
        BY <1>2, <1>7, <4>1 DEF Applying
      <4>3. Untaken(q, 0 + 1, p)
        BY <3>1, <3>2
      <4>4. Untaken(t, 0, p)
        BY <1>1, <1>3, <4>3
      <4> QED
        BY <4>2, <4>4 DEF Kept
    <3>3. CASE i # 1
      <4>1. PICK j \in DOMAIN t : i = j + 1
        BY <1>4, <3>3
      <4>2. Gives(t[j], p) /\ Untaken(t, j, p)
        BY <1>1, <1>3, <3>1, <4>1
      <4> QED
        BY <4>2 DEF Given
    <3> QED
      BY <3>2, <3>3
  <2>2. CASE Kept(q, k, p) /\ k[p] = d[p]
    <3>1. ~Takes(c, p) /\ Untaken(t, 0, p) /\ p \in DOMAIN k
      BY <1>1, <2>2 DEF Kept
    <3>2. p \in DOMAIN m /\ m[p] = d[p]
      BY <1>2, <1>7, <2>2, <3>1 DEF Applying
    <3> QED
      BY <3>1, <3>2 DEF Kept
  <2>3. CASE \E i \in DOMAIN q : Brought(q, k, p, i) /\ k[Source(q[i], p)] = d[p]
    <3>1. PICK i \in DOMAIN q : Brought(q, k, p, i) /\ k[Source(q[i], p)] = d[p]
      BY <2>3
    <3>2. Brings(q[i], p) /\ Untaken(q, i, p) /\ Source(q[i], p) \in DOMAIN k
      BY <3>1 DEF Brought
    <3>3. CASE i = 1
      <4>1. Brings(c, p) /\ Source(c, p) \in DOMAIN k /\ k[Source(c, p)] = d[p]
        BY <1>1, <3>1, <3>2, <3>3
      <4>2. p \in DOMAIN m /\ m[p] = d[p]
        BY <1>2, <4>1 DEF Applying
      <4>3. Untaken(q, 0 + 1, p)
        BY <3>2, <3>3
      <4>4. Untaken(t, 0, p)
        BY <1>1, <1>3, <4>3
      <4> QED
        BY <4>2, <4>4 DEF Kept
    <3>4. CASE i # 1
      <4>1. PICK j \in DOMAIN t : i = j + 1
        BY <1>4, <3>4
      <4>2. t[j] = q[i] /\ Untaken(t, j, p)
        BY <1>1, <1>3, <3>2, <4>1
      <4>3. Source(t[j], p) \in DOMAIN m /\ m[Source(t[j], p)] = k[Source(t[j], p)]
        BY <1>6, <3>2, <4>2
      <4>4. Brought(t, m, p, j) /\ m[Source(t[j], p)] = d[p]
        BY <3>1, <3>2, <4>2, <4>3 DEF Brought
      <4> QED
        BY <4>4
    <3> QED
      BY <3>3, <3>4
  <2> QED
    BY <1>5, <1>7, <2>1, <2>2, <2>3 DEF WillBe
<1>8. ASSUME p \notin DOMAIN d
      PROVE  ~Kept(t, m, p) /\ \A i \in DOMAIN t : ~Brought(t, m, p, i)
  <2>1. ~Kept(q, k, p) /\ \A i \in DOMAIN q : ~Brought(q, k, p, i)
    BY <1>5, <1>8 DEF WillBe
  <2>2. ASSUME Kept(t, m, p) PROVE FALSE
    <3>1. Untaken(t, 0, p) /\ p \in DOMAIN m
      BY <2>2 DEF Kept
    <3>2. CASE ~Takes(c, p)
      <4>1. p \in DOMAIN k /\ Untaken(q, 0, p)
        BY <1>1, <1>2, <1>8, <3>1, <3>2 DEF Applying
      <4> QED
        BY <2>1, <4>1 DEF Kept
    <3>3. CASE Takes(c, p)
      <4>1. Brings(c, p) /\ Source(c, p) \in DOMAIN k
        BY <1>2, <3>1, <3>3 DEF Applying
      <4>2. Untaken(q, 0 + 1, p)
        BY <1>1, <1>3, <3>1
      <4>3. Untaken(q, 1, p)
        BY <4>2
      <4>4. Brought(q, k, p, 1)
        BY <1>1, <4>1, <4>3 DEF Brought
      <4> QED
        BY <1>3, <2>1, <4>4
    <3> QED
      BY <3>2, <3>3
  <2>3. ASSUME NEW j \in DOMAIN t, Brought(t, m, p, j) PROVE FALSE
    <3>1. Brings(t[j], p) /\ Untaken(t, j, p) /\ Source(t[j], p) \in DOMAIN m
      BY <2>3 DEF Brought
    <3>2. Source(t[j], p) \in DOMAIN k
      BY <1>6, <3>1
    <3>3. j + 1 \in DOMAIN q /\ t[j] = q[j + 1] /\ Untaken(q, j + 1, p)
      BY <1>1, <1>3, <3>1
    <3>4. Brought(q, k, p, j + 1)
      BY <3>1, <3>2, <3>3 DEF Brought
    <3> QED
      BY <2>1, <3>3, <3>4
  <2> QED
    BY <2>2, <2>3
<1>9. WillBe(t, m, d, p)
  BY <1>7, <1>8 DEF WillBe
<1> QED
  BY <1>9 DEF t

\* Nothing is noticed, and what is known is what is on the disk.
LEMMA InStepAtLast ==
    ASSUME NEW q \in Seq(Event), NEW k, NEW d, NEW r \in Roots, InStepWith(q, k, d, r),
           \A i \in DOMAIN q : RootOf(q[i].path) # r, NEW p \in Trails, Under(p, r)
    PROVE  (p \in DOMAIN d <=> p \in DOMAIN k) /\ (p \in DOMAIN d => k[p] = d[p])
<1>1. RootOf(p) = r
  BY UnderRoot
<1>2. \A i \in DOMAIN q : ~Gives(q[i], p) /\ ~Takes(q[i], p) /\ ~Brings(q[i], p)
  <2> TAKE i \in DOMAIN q
  <2>1. q[i] \in Event
    BY LenProperties, ElementOfSeq
  <2> QED
    BY <1>1, <2>1, OfItsRoot
<1>3. ~Given(q, p) /\ Untaken(q, 0, p) /\ \A i \in DOMAIN q : ~Brought(q, k, p, i)
  BY <1>2 DEF Given, Untaken, Brought
<1>4. WillBe(q, k, d, p)
  BY DEF InStepWith
<1> QED
  BY <1>3, <1>4 DEF WillBe, Kept

--------------------------------------------------------------------------------
(* The invariant: what was noticed brings the rows of a root in step with the disk if it is *)
(* not being crawled, and the crawl and what was noticed do if it is.                       *)

Queue == batch \o pending
KnownOf(u, w) == [p \in DOMAIN u \union DOMAIN w |-> IF p \in DOMAIN u THEN u[p].folder ELSE w[p].folder]
Known == KnownOf(upserts, rows)

OnDisk(d, p, kind) == p \in DOMAIN d /\ d[p] = kind

\* What the crawl of r has found, and what will be written meanwhile, is there; nothing goes.
SoundWith(q, d, r) ==
    /\ \A p \in DOMAIN crawls[r].found : Under(p, r) /\ OnDisk(d, p, crawls[r].found[p].folder)
    /\ \A p \in DOMAIN upserts : Under(p, r) => OnDisk(d, p, upserts[p].folder)
    /\ \A p \in DOMAIN rows : Under(p, r) /\ rows[p].gen >= crawls[r].gen => OnDisk(d, p, rows[p].folder)
    /\ \A i \in DOMAIN q : RootOf(q[i].path) = r => q[i].kind \in {"created", "changed"} /\ q[i].path \in DOMAIN d
    /\ \A x \in crawls[r].todo : x = r \/ (Under(x, r) /\ OnDisk(d, x, TRUE))

\* What there is has been found, or will be, or was noticed.
WholeWith(q, d, r) ==
    \A p \in DOMAIN d : Under(p, r) =>
        \/ \E i \in DOMAIN q : Gives(q[i], p)
        \/ p \in DOMAIN upserts \union DOMAIN crawls[r].found
        \/ p \in DOMAIN rows /\ rows[p].gen >= crawls[r].gen
        \/ \E x \in crawls[r].todo : Under(p, x)

\* What the drain writes below r meanwhile the sweep spares.
CrawlOrder(r) ==
    /\ (\E p \in DOMAIN upserts : Under(p, r)) => batchGen >= crawls[r].gen
    /\ (\E i \in DOMAIN batch : RootOf(batch[i].path) = r) => batchGen >= crawls[r].gen
    /\ crawls[r].step \in {"written", "swept"} => crawls[r].found = <<>> /\ crawls[r].todo = {}
    /\ crawls[r].step = "swept" => \A p \in DOMAIN rows : Under(p, r) => rows[p].gen >= crawls[r].gen

Told(q, d) ==
    /\ q \in Seq(Event) /\ RenamesFirst(q)
    /\ \A r \in Roots : Fresh(r) /\ crawls[r].step = "none" => InStepWith(q, Known, d, r)
    /\ \A r \in Roots : InSlot(r) => SoundWith(q, d, r)
    /\ \A r \in Roots : InSlot(r) /\ IsWatched(r) => WholeWith(q, d, r)

InTruth == Told(Queue, disk) /\ \A r \in Roots : InSlot(r) => CrawlOrder(r)

LEMMA HeardIs ==
    ASSUME NEW q \in Seq(Event), NEW c \in Event
    PROVE  /\ IsWatched(RootOf(c.path)) => q \o Heard(c) = Append(q, c)
           /\ ~IsWatched(RootOf(c.path)) => q \o Heard(c) = q
           /\ Heard(c) \in Seq(Event) /\ q \o Heard(c) \in Seq(Event)
<1>1. CASE IsWatched(RootOf(c.path))
  <2>1. Heard(c) = <<c>> /\ <<c>> \in Seq(Event)
    BY <1>1 DEF Heard
  <2> QED
    BY <1>1, <2>1, AppendIsConcat, ConcatProperties
<1>2. CASE ~IsWatched(RootOf(c.path))
  <2>1. Heard(c) = <<>>
    BY <1>2 DEF Heard
  <2>2. <<>> \in Seq(Event) /\ q \o <<>> = q
    BY EmptySeq, ConcatEmptySeq
  <2> QED
    BY <1>2, <2>1, <2>2
<1> QED
  BY <1>1, <1>2

LEMMA RenamesFirstMore ==
    ASSUME NEW q \in Seq(Event), NEW c \in Event, RenamesFirst(q), Ahead(q, c)
    PROVE  RenamesFirst(Append(q, c))
<1> DEFINE a == Append(q, c)
           n == Len(q)
<1>1. /\ DOMAIN a = 1..(n + 1) /\ n \in Nat /\ DOMAIN q = 1..n
      /\ \A i \in DOMAIN q : a[i] = q[i]
      /\ a[n + 1] = c
  BY UntakenMore
<1> HIDE DEF a, n
<1> SUFFICES ASSUME NEW i \in DOMAIN a, NEW j \in DOMAIN a, i < j, a[j].kind = "renamed"
             PROVE  ~About(a[j].old, a[i])
  BY DEF RenamesFirst, a
<1>2. i \in DOMAIN q /\ (j \in DOMAIN q \/ j = n + 1)
  BY <1>1
<1> QED
  BY <1>1, <1>2 DEF RenamesFirst, Ahead

\* What comes about is noticed by those that must.
LEMMA ToldMore ==
    ASSUME NEW q, NEW d, NEW e, NEW c \in Event, Typed, DOMAIN e \subseteq Inside,
           Told(q, d), Happens(c, d, e), Ahead(q, c),
           InSlot(RootOf(c.path)) => /\ c.kind \in {"created", "changed"} /\ c.path \in DOMAIN e
                                     /\ \A p \in DOMAIN d : p \in DOMAIN e /\ e[p] = d[p]
    PROVE  Told(q \o Heard(c), e)
<1> DEFINE a == q \o Heard(c)
<1>1. q \in Seq(Event)
  BY DEF Told
<1>2. a \in Seq(Event) /\ RenamesFirst(a)
  BY <1>1, HeardIs, RenamesFirstMore DEF Told
<1>3. ASSUME NEW r \in Roots, Fresh(r), crawls[r].step = "none"
      PROVE  InStepWith(a, Known, e, r)
  <2>1. InStepWith(q, Known, d, r) /\ IsWatched(r)
    BY <1>3 DEF Told, Fresh
  <2>2. CASE IsWatched(RootOf(c.path))
    <3>1. a = Append(q, c)
      BY <1>1, <2>2, HeardIs
    <3> QED
      BY <1>1, <2>1, <3>1, InStepMore
  <2>3. CASE ~IsWatched(RootOf(c.path))
    <3>1. a = q
      BY <1>1, <2>3, HeardIs
    <3>2. RootOf(c.path) # r
      BY <2>1, <2>3
    <3> QED
      BY <1>1, <2>1, <3>1, <3>2, InStepElsewhere
  <2> QED
    BY <2>2, <2>3
<1>4. /\ \A i \in DOMAIN q : q[i] \in Event
      /\ \A i \in DOMAIN a : (i \in DOMAIN q /\ a[i] = q[i]) \/ (a[i] = c /\ IsWatched(RootOf(c.path)))
      /\ \A i \in DOMAIN q : i \in DOMAIN a /\ a[i] = q[i]
      /\ IsWatched(RootOf(c.path)) => \E i \in DOMAIN a : a[i] = c
  <2>1. CASE IsWatched(RootOf(c.path))
    <3>1. a = Append(q, c)
      BY <1>1, <2>1, HeardIs
    <3>2. /\ DOMAIN Append(q, c) = 1..(Len(q) + 1) /\ Len(q) \in Nat /\ DOMAIN q = 1..Len(q)
          /\ \A i \in DOMAIN q : Append(q, c)[i] = q[i] /\ q[i] \in Event
          /\ Append(q, c)[Len(q) + 1] = c
      BY <1>1, UntakenMore
    <3> HIDE DEF a
    <3>3. \A i \in DOMAIN a : i \in DOMAIN q \/ i = Len(q) + 1
      BY <3>1, <3>2
    <3>4. Len(q) + 1 \in DOMAIN a /\ \A i \in DOMAIN q : i \in DOMAIN a
      BY <3>1, <3>2
    <3> QED
      BY <2>1, <3>1, <3>2, <3>3, <3>4
  <2>2. CASE ~IsWatched(RootOf(c.path))
    <3>1. a = q
      BY <1>1, <2>2, HeardIs
    <3>2. \A i \in DOMAIN q : q[i] \in Event
      BY <1>1, LenProperties, ElementOfSeq
    <3> QED
      BY <2>2, <3>1, <3>2
  <2> QED
    BY <2>1, <2>2
<1> HIDE DEF a
\* Of a root that is being crawled nothing goes, and nothing becomes something else.
<1>5. ASSUME NEW r \in Roots, InSlot(r), NEW p \in Trails, Under(p, r), p \in DOMAIN d
      PROVE  p \in DOMAIN e /\ e[p] = d[p]
  <2>1. CASE RootOf(c.path) = r
    BY <1>5, <2>1
  <2>2. CASE RootOf(c.path) # r
    <3>1. ~Gives(c, p) /\ ~Takes(c, p) /\ ~Brings(c, p)
      BY <1>5, <2>2, UnderRoot, OfItsRoot
    <3> QED
      BY <1>5, <3>1 DEF Happens
  <2> QED
    BY <2>1, <2>2
<1>6. ASSUME NEW r \in Roots, InSlot(r), NEW p, NEW kind, Under(p, r), p \in Trails, OnDisk(d, p, kind)
      PROVE  OnDisk(e, p, kind)
  BY <1>5, <1>6 DEF OnDisk
<1>7. ASSUME NEW r \in Roots, InSlot(r)
      PROVE  SoundWith(a, e, r)
  <2>1. SoundWith(q, d, r)
    BY <1>7 DEF Told
  <2>2. crawls[r].found \in Founds /\ upserts \in Founds /\ crawls[r].todo \subseteq Inside \union Roots
    BY DEF Typed, CrawlsTyped, UpsertsTyped, Crawl
  <2>3. \A p \in DOMAIN crawls[r].found : Under(p, r) /\ OnDisk(e, p, crawls[r].found[p].folder)
    BY <1>6, <1>7, <2>1, <2>2, FoundsIs, InsideIs DEF SoundWith
  <2>4. \A p \in DOMAIN upserts : Under(p, r) => OnDisk(e, p, upserts[p].folder)
    BY <1>6, <1>7, <2>1, <2>2, FoundsIs, InsideIs DEF SoundWith
  <2>5. \A p \in DOMAIN rows : Under(p, r) /\ rows[p].gen >= crawls[r].gen => OnDisk(e, p, rows[p].folder)
    BY <1>6, <1>7, <2>1 DEF SoundWith, Typed, RowsTyped
  <2>6. \A x \in crawls[r].todo : x = r \/ (Under(x, r) /\ OnDisk(e, x, TRUE))
    BY <1>6, <1>7, <2>1, <2>2, InsideIs, RootTrail DEF SoundWith
  <2>7. ASSUME NEW i \in DOMAIN a, RootOf(a[i].path) = r
        PROVE  a[i].kind \in {"created", "changed"} /\ a[i].path \in DOMAIN e
    <3>1. CASE i \in DOMAIN q /\ a[i] = q[i]
      <4>1. q[i].kind \in {"created", "changed"} /\ q[i].path \in DOMAIN d /\ q[i] \in Event
        BY <1>4, <2>1, <2>7, <3>1 DEF SoundWith
      <4>2. q[i].path \in Trails /\ Under(q[i].path, r)
        BY <2>7, <3>1, <4>1, EventIs, UnderRoot
      <4> QED
        BY <1>5, <1>7, <3>1, <4>1, <4>2
    <3>2. CASE a[i] = c
      BY <1>7, <2>7, <3>2
    <3> QED
      BY <1>4, <3>1, <3>2
  <2> QED
    BY <2>3, <2>4, <2>5, <2>6, <2>7 DEF SoundWith
<1>8. ASSUME NEW r \in Roots, InSlot(r), IsWatched(r)
      PROVE  WholeWith(a, e, r)
  <2>1. WholeWith(q, d, r)
    BY <1>8 DEF Told
  <2>0. \A p \in DOMAIN e : p \in Trails
    BY InsideIs
  <2> SUFFICES ASSUME NEW p \in DOMAIN e, Under(p, r), p \in Trails
               PROVE  \/ \E i \in DOMAIN a : Gives(a[i], p)
                      \/ p \in DOMAIN upserts \union DOMAIN crawls[r].found
                      \/ p \in DOMAIN rows /\ rows[p].gen >= crawls[r].gen
                      \/ \E x \in crawls[r].todo : Under(p, x)
    BY <2>0 DEF WholeWith
  <2>2. CASE Gives(c, p)
    <3>1. RootOf(c.path) = r
      BY <2>2, OfItsRoot, UnderRoot
    <3> QED
      BY <1>4, <1>8, <2>2, <3>1
  <2>3. CASE p \in DOMAIN d
    <3>1. (\E i \in DOMAIN q : Gives(q[i], p)) => \E i \in DOMAIN a : Gives(a[i], p)
      BY <1>4
    <3> QED
      BY <2>1, <2>3, <3>1 DEF WholeWith
  <2>4. CASE Brings(c, p)
    <3>1. RootOf(c.path) = r /\ c.kind = "renamed"
      BY <2>4, OfItsRoot, UnderRoot DEF Brings
    <3> QED
      BY <1>8, <3>1
  <2> QED
    BY <2>2, <2>3, <2>4 DEF Happens
<1> QED
  BY <1>2, <1>3, <1>7, <1>8 DEF Told, a

--------------------------------------------------------------------------------
(* What programs do. *)

LEMMA ThereIs ==
    ASSUME DiskTyped, NEW p \in DOMAIN disk
    PROVE  p \in Inside /\ p \in Trails /\ Len(p) > 1 /\ disk[p] \in BOOLEAN
  BY InsideIs DEF DiskTyped

\* A move, entry by entry.
LEMMA MoveIs ==
    ASSUME DiskTyped, Placed, NEW old \in Inside, NEW new \in Inside, Moves(old, new)
    PROVE  /\ DOMAIN disk' \subseteq Inside /\ (\A p \in DOMAIN disk' : disk'[p] \in BOOLEAN)
           /\ ~Within(new, old) /\ ~Within(old, new) /\ old \in DOMAIN disk /\ HasPlace(new)
           /\ \A p \in DOMAIN disk : Within(p, new) => p = new
           /\ \A p \in Trails :
                 /\ Within(p, new) => /\ p \in DOMAIN disk' <=> Rebased(p, new, old) \in DOMAIN disk
                                      /\ p \in DOMAIN disk' => disk'[p] = disk[Rebased(p, new, old)]
                 /\ Within(p, old) => p \notin DOMAIN disk'
                 /\ ~Within(p, new) /\ ~Within(p, old) => /\ p \in DOMAIN disk' <=> p \in DOMAIN disk
                                                          /\ p \in DOMAIN disk' => disk'[p] = disk[p]
<1> DEFINE gone == Below(old)
           landed == {Rebased(p, old, new) : p \in gone}
<1>1. /\ old \in DOMAIN disk /\ HasPlace(new) /\ ~Within(new, old) /\ landed \subseteq Paths
      /\ new \in DOMAIN disk => ~disk[new] /\ ~disk[old]
      /\ disk' = [p \in (DOMAIN disk \ gone) \union landed |->
                     IF p \in landed THEN disk[Rebased(p, new, old)] ELSE disk[p]]
  BY DEF Moves
<1>2. /\ old \in Trails /\ new \in Trails /\ Len(old) > 1 /\ Len(new) > 1
      /\ \A p \in DOMAIN disk : p \in Trails /\ p \in Inside /\ disk[p] \in BOOLEAN
  BY InsideIs, ThereIs
<1>3. ASSUME NEW p \in DOMAIN disk, Within(p, new) PROVE p = new
  <2> SUFFICES ASSUME p # new PROVE FALSE
    OBVIOUS
  <2>1. new \in DOMAIN disk /\ disk[new] = TRUE
    BY <1>2, <1>3 DEF Placed
  <2> QED
    BY <1>1, <2>1
<1>4. ~Within(old, new)
  <2> SUFFICES ASSUME Within(old, new) PROVE FALSE
    OBVIOUS
  <2>1. old = new
    BY <1>1, <1>3
  <2> QED
    BY <1>1, <1>2, <2>1, WithinItself
<1>5. /\ \A p : p \in gone <=> p \in DOMAIN disk /\ Within(p, old)
      /\ DOMAIN disk' = (DOMAIN disk \ gone) \union landed
      /\ \A p \in landed : disk'[p] = disk[Rebased(p, new, old)]
      /\ \A p \in DOMAIN disk \ gone : p \notin landed => disk'[p] = disk[p]
  BY <1>1 DEF Below
<1>6. ASSUME NEW p \in landed
      PROVE  /\ p \in Trails /\ p \in Inside /\ Within(p, new)
             /\ Rebased(p, new, old) \in DOMAIN disk
  <2>1. PICK q \in gone : p = Rebased(q, old, new)
    OBVIOUS
  <2>2. q \in DOMAIN disk /\ Within(q, old) /\ q \in Trails /\ q \in Inside
    BY <1>2, <1>5
  <2>3. p \in Trails /\ Within(p, new) /\ Rebased(p, new, old) = q
    BY <1>2, <2>1, <2>2, RebasedIs
  <2>4. p \in Paths
    BY <1>1
  <2>5. p \in Inside
    BY <2>1, <2>2, <2>4, LandsInside
  <2> QED
    BY <2>2, <2>3, <2>5
<1>7. ASSUME NEW s \in DOMAIN disk, Within(s, old) PROVE Rebased(s, old, new) \in landed
  BY <1>5, <1>7
<1>8. new \in landed
  <2>1. Rebased(old, old, new) = new /\ Within(old, old)
    BY <1>2, RebasedItself, WithinItself
  <2> QED
    BY <1>1, <1>7, <2>1
<1> HIDE DEF gone, landed
<1>9. ASSUME NEW p \in Trails, Within(p, new)
      PROVE  /\ p \in DOMAIN disk' <=> Rebased(p, new, old) \in DOMAIN disk
             /\ p \in DOMAIN disk' => disk'[p] = disk[Rebased(p, new, old)]
  <2> DEFINE s == Rebased(p, new, old)
  <2>1. ASSUME p \in DOMAIN disk' PROVE p \in landed
    BY <1>3, <1>5, <1>8, <1>9, <2>1
  <2>2. ASSUME s \in DOMAIN disk PROVE p \in landed
    <3>1. Within(s, old) /\ Rebased(s, old, new) = p
      BY <1>2, <1>9, RebasedIs
    <3> QED
      BY <1>7, <2>2, <3>1
  <2> HIDE DEF s
  <2> QED
    BY <1>5, <1>6, <2>1, <2>2 DEF s
<1>10. ASSUME NEW p \in Trails, Within(p, old) PROVE p \notin DOMAIN disk'
  <2>1. p \notin landed
    <3> SUFFICES ASSUME p \in landed PROVE FALSE
      OBVIOUS
    <3>1. Within(p, new)
      BY <1>6
    <3> QED
      BY <1>1, <1>2, <1>4, <1>10, <3>1, WithinEither
  <2> QED
    BY <1>5, <1>10, <2>1
<1>11. ASSUME NEW p \in Trails, ~Within(p, new), ~Within(p, old)
       PROVE  /\ p \in DOMAIN disk' <=> p \in DOMAIN disk
              /\ p \in DOMAIN disk' => disk'[p] = disk[p]
  <2>1. p \notin landed /\ p \notin gone
    BY <1>5, <1>6, <1>11
  <2> QED
    BY <1>5, <2>1
<1>12. ASSUME NEW p \in DOMAIN disk' PROVE p \in Inside /\ disk'[p] \in BOOLEAN
  <2>1. CASE p \in landed
    BY <1>2, <1>5, <1>6, <2>1
  <2>2. CASE p \notin landed
    BY <1>2, <1>5, <2>2
  <2> QED
    BY <2>1, <2>2
<1> QED
  BY <1>1, <1>3, <1>4, <1>9, <1>10, <1>11, <1>12

LEMMA CreateIs ==
    ASSUME DiskTyped, Placed, NEW path \in Inside, NEW folder \in BOOLEAN, Creates(path, folder)
    PROVE  /\ path \notin DOMAIN disk /\ HasPlace(path) /\ DOMAIN disk' = DOMAIN disk \union {path}
           /\ \A p \in DOMAIN disk : disk'[p] = disk[p]
           /\ disk'[path] = folder
  BY DEF Creates

LEMMA DeletionIs ==
    ASSUME DiskTyped, Placed, NEW path \in Inside, Deletes(path)
    PROVE  /\ path \in DOMAIN disk /\ DOMAIN disk' = DOMAIN disk \ {path}
           /\ \A p \in DOMAIN disk' : disk'[p] = disk[p]
           /\ \A p \in DOMAIN disk : Within(p, path) => p = path
<1>1. /\ path \in DOMAIN disk /\ ChildrenOf(path) = {}
      /\ DOMAIN disk' = DOMAIN disk \ {path} /\ \A p \in DOMAIN disk' : disk'[p] = disk[p]
  BY DEF Deletes, Without, Restrict
<1>2. ASSUME NEW p \in DOMAIN disk, Within(p, path), p # path PROVE FALSE
  <2>1. p \in Trails /\ path \in Trails /\ Len(path) > 1 /\ Len(path) \in Nat
    BY ThereIs, InsideIs
  <2>2. PICK c \in Trails : Within(p, c) /\ Len(c) = Len(path) + 1 /\ Parent(c) = path
    BY <1>2, <2>1, ChildTowards
  <2>3. c \in DOMAIN disk
    <3>1. Len(c) > 1
      BY <2>1, <2>2
    <3> QED
      BY <2>1, <2>2, <3>1 DEF Placed
  <2> QED
    BY <1>1, <2>2, <2>3 DEF ChildrenOf
<1> QED
  BY <1>1, <1>2

LEMMA PlacedMore ==
    ASSUME DiskTyped, Placed, NEW path \in Inside, NEW folder \in BOOLEAN, Creates(path, folder)
    PROVE  DiskTyped' /\ Placed'
<1>1. /\ path \notin DOMAIN disk /\ HasPlace(path) /\ DOMAIN disk' = DOMAIN disk \union {path}
      /\ \A p \in DOMAIN disk : disk'[p] = disk[p]
      /\ disk'[path] = folder
  BY CreateIs
<1>2. DiskTyped'
  BY <1>1 DEF DiskTyped
<1>3. ASSUME NEW p \in DOMAIN disk', NEW d \in Trails, Within(p, d), d # p, Len(d) > 1
      PROVE  d \in DOMAIN disk' /\ disk'[d] = TRUE
  <2>1. d \in DOMAIN disk /\ disk[d] = TRUE
    <3>1. CASE p = path
      BY <1>1, <1>3, <3>1, PlacedAround
    <3>2. CASE p # path
      <4>1. p \in DOMAIN disk
        BY <1>1, <3>2
      <4> QED
        BY <1>3, <4>1 DEF Placed
    <3> QED
      BY <3>1, <3>2
  <2> QED
    BY <1>1, <2>1
<1> QED
  BY <1>2, <1>3 DEF Placed

LEMMA PlacedLess ==
    ASSUME DiskTyped, Placed, NEW path \in Inside, Deletes(path)
    PROVE  DiskTyped' /\ Placed'
<1>1. /\ path \in DOMAIN disk /\ DOMAIN disk' = DOMAIN disk \ {path}
      /\ \A p \in DOMAIN disk' : disk'[p] = disk[p]
      /\ \A p \in DOMAIN disk : Within(p, path) => p = path
  BY DeletionIs
<1>2. DiskTyped'
  BY <1>1 DEF DiskTyped
<1>3. ASSUME NEW p \in DOMAIN disk', NEW d \in Trails, Within(p, d), d # p, Len(d) > 1
      PROVE  d \in DOMAIN disk' /\ disk'[d] = TRUE
  <2>1. p \in DOMAIN disk /\ p # path
    BY <1>1
  <2>2. d \in DOMAIN disk /\ disk[d] = TRUE
    BY <1>3, <2>1 DEF Placed
  <2>3. d # path
    BY <1>1, <1>3, <2>1
  <2> QED
    BY <1>1, <2>2, <2>3
<1> QED
  BY <1>2, <1>3 DEF Placed

LEMMA PlacedElsewhere ==
    ASSUME DiskTyped, Placed, NEW old \in Inside, NEW new \in Inside, Moves(old, new)
    PROVE  DiskTyped' /\ Placed'
<1>1. /\ DOMAIN disk' \subseteq Inside /\ (\A p \in DOMAIN disk' : disk'[p] \in BOOLEAN)
      /\ ~Within(new, old) /\ ~Within(old, new) /\ old \in DOMAIN disk /\ HasPlace(new)
      /\ \A p \in DOMAIN disk : Within(p, new) => p = new
      /\ \A p \in Trails :
            /\ Within(p, new) => /\ p \in DOMAIN disk' <=> Rebased(p, new, old) \in DOMAIN disk
                                 /\ p \in DOMAIN disk' => disk'[p] = disk[Rebased(p, new, old)]
            /\ Within(p, old) => p \notin DOMAIN disk'
            /\ ~Within(p, new) /\ ~Within(p, old) => /\ p \in DOMAIN disk' <=> p \in DOMAIN disk
                                                     /\ p \in DOMAIN disk' => disk'[p] = disk[p]
  BY MoveIs
<1>2. old \in Trails /\ new \in Trails /\ Len(old) > 1 /\ \A p \in DOMAIN disk' : p \in Trails
  BY <1>1, InsideIs
<1>3. DiskTyped'
  BY <1>1 DEF DiskTyped
<1>4. ASSUME NEW p \in DOMAIN disk', NEW d \in Trails, Within(p, d), d # p, Len(d) > 1
      PROVE  d \in DOMAIN disk' /\ disk'[d] = TRUE
  <2>1. p \in Trails /\ ~Within(p, old)
    BY <1>1, <1>2
  <2>2. ~Within(d, old)
    BY <1>2, <1>4, <2>1, WithinThrough
  <2>3. CASE Within(d, new)
    <3> DEFINE s == Rebased(p, new, old)
               x == Rebased(d, new, old)
    <3>1. Within(p, new)
      BY <1>2, <1>4, <2>1, <2>3, WithinThrough
    <3>2. s \in DOMAIN disk
      BY <1>1, <2>1, <3>1
    <3>3. x \in Trails /\ Within(x, old) /\ Within(s, x)
      BY <1>2, <1>4, <2>1, <2>3, RebasedIs, RebasedWithin
    <3>4. x # s
      <4>1. Rebased(s, old, new) = p /\ Rebased(x, old, new) = d
        BY <1>2, <2>1, <2>3, <3>1, RebasedIs
      <4> QED
        BY <1>4, <4>1
    <3> HIDE DEF s, x
    <3>5. Len(x) > 1
      <4>1. Len(x) >= Len(old) /\ Len(x) \in Nat /\ Len(old) \in Nat
        BY <1>2, <3>3, WithinIs
      <4> QED
        BY <1>2, <4>1
    <3>6. x \in DOMAIN disk /\ disk[x] = TRUE
      BY <3>2, <3>3, <3>4, <3>5 DEF Placed
    <3> QED
      BY <1>1, <2>3, <3>6 DEF x
  <2>4. CASE ~Within(d, new)
    <3>1. d \in DOMAIN disk /\ disk[d] = TRUE
      <4>1. CASE Within(p, new)
        <5>1. Within(new, d) /\ d # new
          BY <1>2, <1>4, <2>1, <2>4, <4>1, WithinEither, WithinItself
        <5> QED
          BY <1>1, <1>4, <5>1, PlacedAround
      <4>2. CASE ~Within(p, new)
        <5>1. p \in DOMAIN disk
          BY <1>1, <2>1, <4>2
        <5> QED
          BY <1>4, <5>1 DEF Placed
      <4> QED
        BY <4>1, <4>2
    <3> QED
      BY <1>1, <2>2, <2>4, <3>1
  <2> QED
    BY <2>3, <2>4
<1> QED
  BY <1>3, <1>4 DEF Placed

LEMMA PlainEvents ==
    ASSUME NEW path \in Inside, NEW kind \in {"created", "changed", "deleted"}
    PROVE  LET c == [kind |-> kind, path |-> path]
           IN  c \in Event /\ c.kind = kind /\ c.path = path /\ c.kind # "renamed"
  BY DEF Event, Change

LEMMA RenameEvents ==
    ASSUME NEW old \in Inside, NEW new \in Inside, RootOf(old) = RootOf(new), ~Within(old, new), ~Within(new, old)
    PROVE  LET c == [kind |-> "renamed", path |-> new, old |-> old]
           IN  c \in Event /\ c.kind = "renamed" /\ c.path = new /\ c.old = old
  BY DEF Event, Change

\* What a move is heard as.
LEMMA MoveHeard ==
    ASSUME Typed, NEW old \in Inside, NEW new \in Inside, Moves(old, new)
    PROVE  LET away   == [kind |-> "deleted", path |-> new]
               gone   == [kind |-> "deleted", path |-> old]
               come   == [kind |-> "created", path |-> new]
               passed == [kind |-> "renamed", path |-> new, old |-> old]
               q      == IF new \in DOMAIN disk THEN Queue \o Heard(away) ELSE Queue
           IN  /\ Queue \in Seq(Event) /\ q \in Seq(Event) /\ QueueTyped'
               /\ away \in Event /\ gone \in Event /\ come \in Event
               /\ RootOf(old) = RootOf(new) => passed \in Event /\ Queue' = q \o Heard(passed)
               /\ RootOf(old) # RootOf(new) => Queue' = (q \o Heard(gone)) \o Heard(come)
<1> DEFINE away   == [kind |-> "deleted", path |-> new]
           gone   == [kind |-> "deleted", path |-> old]
           come   == [kind |-> "created", path |-> new]
           passed == [kind |-> "renamed", path |-> new, old |-> old]
           q      == IF new \in DOMAIN disk THEN Queue \o Heard(away) ELSE Queue
           ahead  == IF new \in DOMAIN disk THEN Heard(away) ELSE <<>>
           moved  == IF RootOf(old) = RootOf(new) THEN Heard(passed) ELSE Heard(gone) \o Heard(come)
<1>1. batch' = batch /\ pending' = pending \o (ahead \o moved)
  BY DEF Moves, Changed
<1>2. ~Within(new, old) /\ ~Within(old, new)
  BY MoveIs DEF Typed
<1>3. away \in Event /\ gone \in Event /\ come \in Event
  BY PlainEvents
<1>4. RootOf(old) = RootOf(new) => passed \in Event
  BY <1>2, RenameEvents
<1>5. Heard(away) \in Seq(Event) /\ Heard(gone) \in Seq(Event) /\ Heard(come) \in Seq(Event)
      /\ (RootOf(old) = RootOf(new) => Heard(passed) \in Seq(Event)) /\ <<>> \in Seq(Event)
  <2> HIDE DEF away, gone, come, passed
  <2>1. <<>> \in Seq(Event)
    BY EmptySeq
  <2> QED
    BY <1>3, <1>4, <2>1, HeardIs
<1>6. batch \in Seq(Event) /\ pending \in Seq(Event)
  BY DEF Typed, QueueTyped
<1>7. Queue \in Seq(Event)
  BY <1>6, ConcatProperties DEF Queue
<1>8. ahead \in Seq(Event) /\ q = Queue \o ahead
  <2>1. Queue \o <<>> = Queue
    BY <1>7, ConcatEmptySeq
  <2> QED
    BY <1>5, <2>1
<1> HIDE DEF away, gone, come, passed, ahead, q
<1>9. moved \in Seq(Event)
  BY <1>5, ConcatProperties
<1> HIDE DEF moved
<1>10. Queue' = q \o moved /\ q \in Seq(Event)
  <2>1. pending \o (ahead \o moved) = (pending \o ahead) \o moved
    BY <1>6, <1>8, <1>9, ConcatAssociative
  <2>2. pending \o ahead \in Seq(Event)
    BY <1>6, <1>8, ConcatProperties
  <2>3. batch \o ((pending \o ahead) \o moved) = (batch \o (pending \o ahead)) \o moved
    BY <1>6, <1>9, <2>2, ConcatAssociative
  <2>4. batch \o (pending \o ahead) = (batch \o pending) \o ahead
    BY <1>6, <1>8, ConcatAssociative
  <2>5. q \in Seq(Event)
    BY <1>7, <1>8, ConcatProperties
  <2> QED
    BY <1>1, <1>8, <2>1, <2>3, <2>4, <2>5 DEF Queue
<1>11. QueueTyped'
  <2>1. ahead \o moved \in Seq(Event)
    BY <1>8, <1>9, ConcatProperties
  <2>2. pending \o (ahead \o moved) \in Seq(Event)
    BY <1>6, <2>1, ConcatProperties
  <2> QED
    BY <1>1, <1>6, <2>2 DEF QueueTyped
<1>12. RootOf(old) = RootOf(new) => Queue' = q \o Heard(passed)
  BY <1>10 DEF moved
<1>13. RootOf(old) # RootOf(new) => Queue' = (q \o Heard(gone)) \o Heard(come)
  <2> DEFINE x == Heard(gone)
             y == Heard(come)
  <2>1. x \in Seq(Event) /\ y \in Seq(Event)
    BY <1>5
  <2>2. RootOf(old) # RootOf(new) => moved = x \o y
    BY DEF moved
  <2> HIDE DEF x, y
  <2>3. q \o (x \o y) = (q \o x) \o y
    BY <1>10, <2>1, ConcatAssociative
  <2>4. RootOf(old) # RootOf(new) => Queue' = (q \o x) \o y
    BY <1>10, <2>2, <2>3
  <2> QED
    BY <2>4 DEF x, y
<1> QED
  BY <1>3, <1>4, <1>7, <1>10, <1>11, <1>12, <1>13 DEF away, gone, come, passed, q

LEMMA PlainHeard ==
    ASSUME Typed, NEW path \in Inside, NEW kind \in {"created", "changed", "deleted"},
           Changed(Heard([kind |-> kind, path |-> path]))
    PROVE  /\ Queue \in Seq(Event) /\ Queue' = Queue \o Heard([kind |-> kind, path |-> path])
           /\ QueueTyped' /\ [kind |-> kind, path |-> path] \in Event
<1> DEFINE c == [kind |-> kind, path |-> path]
<1>1. c \in Event
  BY PlainEvents
<1>2. batch' = batch /\ pending' = pending \o Heard(c)
  BY DEF Changed
<1> HIDE DEF c
<1>3. batch \in Seq(Event) /\ pending \in Seq(Event) /\ Heard(c) \in Seq(Event)
  BY <1>1, HeardIs DEF Typed, QueueTyped
<1>4. batch \o (pending \o Heard(c)) = (batch \o pending) \o Heard(c)
  BY <1>3, ConcatAssociative
<1>5. pending \o Heard(c) \in Seq(Event) /\ batch \o pending \in Seq(Event)
  BY <1>3, ConcatProperties
<1>6. Queue \in Seq(Event) /\ Queue' = Queue \o Heard(c) /\ QueueTyped'
  BY <1>2, <1>3, <1>4, <1>5 DEF Queue, QueueTyped
<1> QED
  BY <1>1, <1>6 DEF c

LEMMA ProgramsTyped ==
    ASSUME Typed, ProgramsAct
    PROVE  DiskTyped' /\ Placed' /\ QueueTyped'
<1> USE DEF Typed
<1>1. ASSUME NEW path \in Inside, NEW folder \in BOOLEAN, Creates(path, folder)
      PROVE  DiskTyped' /\ Placed' /\ QueueTyped'
  <2>1. Changed(Heard([kind |-> "created", path |-> path]))
    BY <1>1 DEF Creates
  <2> QED
    BY <1>1, <2>1, PlainHeard, PlacedMore
<1>2. ASSUME NEW path \in Inside, Writes(path)
      PROVE  DiskTyped' /\ Placed' /\ QueueTyped'
  <2>1. Changed(Heard([kind |-> "changed", path |-> path])) /\ disk' = disk
    BY <1>2 DEF Writes
  <2>2. DiskTyped' /\ Placed'
    BY <2>1 DEF DiskTyped, Placed
  <2> QED
    BY <2>1, <2>2, PlainHeard
<1>3. ASSUME NEW path \in Inside, Deletes(path)
      PROVE  DiskTyped' /\ Placed' /\ QueueTyped'
  <2>1. Changed(Heard([kind |-> "deleted", path |-> path]))
    BY <1>3 DEF Deletes
  <2> QED
    BY <1>3, <2>1, PlainHeard, PlacedLess
<1>4. ASSUME NEW old \in Inside, NEW new \in Inside, Moves(old, new)
      PROVE  DiskTyped' /\ Placed' /\ QueueTyped'
  BY <1>4, MoveHeard, PlacedElsewhere
<1> QED
  BY <1>1, <1>2, <1>3, <1>4 DEF ProgramsAct

\* Whether a change is about an entry is settled below its root.
LEMMA AboutItsRoot ==
    ASSUME NEW c \in Event, NEW p \in Trails, Len(p) > 1, About(p, c)
    PROVE  RootOf(p) = RootOf(c.path)
<1>1. /\ c.path \in Trails /\ Len(c.path) >= 1 /\ Len(p) >= 1
      /\ c.kind = "renamed" => c.old \in Trails /\ Len(c.old) >= 1 /\ RootOf(c.old) = RootOf(c.path)
  BY EventIs, WithinIs
<1> QED
  BY <1>1, WithinRoot DEF About

LEMMA QueueHolds ==
    ASSUME Typed
    PROVE  /\ Queue \in Seq(Event)
           /\ \A i \in DOMAIN Queue : Queue[i] \in Event /\ Queue[i] \in Range(pending \o batch)
<1>1. batch \in Seq(Event) /\ pending \in Seq(Event)
  BY DEF Typed, QueueTyped
<1>2. Queue \in Seq(Event)
  BY <1>1, ConcatProperties DEF Queue
<1>3. Range(batch \o pending) = Range(batch) \union Range(pending)
      /\ Range(pending \o batch) = Range(pending) \union Range(batch)
  BY <1>1, RangeConcatenation
<1>4. ASSUME NEW i \in DOMAIN Queue PROVE Queue[i] \in Event /\ Queue[i] \in Range(pending \o batch)
  <2>1. Queue[i] \in Range(batch \o pending)
    BY DEF Range, Queue
  <2>2. Queue[i] \in Event
    BY <1>2, LenProperties, ElementOfSeq
  <2> QED
    BY <1>3, <2>1, <2>2
<1> QED
  BY <1>2, <1>4

LEMMA MayMoveIs ==
    ASSUME Typed, "moves at once" \notin Circumstances, NEW path \in Inside, MayMove(path)
    PROVE  \A i \in DOMAIN Queue : ~About(path, Queue[i])
<1> TAKE i \in DOMAIN Queue
<1>1. Queue[i] \in Event /\ Queue[i] \in Range(pending \o batch)
  BY QueueHolds
<1>2. path \in Trails /\ Len(path) > 1
  BY InsideIs
<1>3. CASE RootOf(Queue[i].path) = RootOf(path)
  <2>1. Queue[i] \in Noticed(RootOf(path))
    BY <1>1, <1>3 DEF Noticed, AreOf
  <2> QED
    BY <2>1 DEF MayMove
<1>4. CASE RootOf(Queue[i].path) # RootOf(path)
  BY <1>1, <1>2, <1>4, AboutItsRoot
<1> QED
  BY <1>3, <1>4

LEMMA CreateTold ==
    ASSUME Typed, Told(Queue, disk), NEW path \in Inside, NEW folder \in BOOLEAN, Creates(path, folder)
    PROVE  Told(Queue', disk')
<1> DEFINE c == [kind |-> "created", path |-> path]
<1>1. /\ path \notin DOMAIN disk /\ DOMAIN disk' = DOMAIN disk \union {path}
      /\ \A p \in DOMAIN disk : disk'[p] = disk[p]
  BY CreateIs DEF Typed
<1>2. /\ c \in Event /\ c.kind = "created" /\ c.path = path
      /\ Queue' = Queue \o Heard(c)
  <2>1. Changed(Heard(c))
    BY DEF Creates
  <2> QED
    BY <2>1, PlainHeard
<1> HIDE DEF c
<1>3. Happens(c, disk, disk')
  <2> SUFFICES ASSUME NEW p \in Trails
               PROVE  /\ p \in DOMAIN disk' => \/ Gives(c, p)
                                               \/ ~Takes(c, p) /\ p \in DOMAIN disk /\ disk[p] = disk'[p]
                      /\ p \notin DOMAIN disk' => ~Takes(c, p) /\ p \notin DOMAIN disk
    BY DEF Happens
  <2>1. ~Takes(c, p)
    BY <1>2 DEF Takes
  <2>2. p = path => Gives(c, p)
    BY <1>2, WithinItself DEF Gives
  <2> QED
    BY <1>1, <2>1, <2>2
<1>4. Ahead(Queue, c)
  BY <1>2 DEF Ahead
<1>5. DOMAIN disk' \subseteq Inside
  BY <1>1 DEF Typed, DiskTyped
<1>6. \A p \in DOMAIN disk : p \in DOMAIN disk' /\ disk'[p] = disk[p]
  BY <1>1
<1> QED
  BY <1>1, <1>2, <1>3, <1>4, <1>5, <1>6, ToldMore

LEMMA WriteTold ==
    ASSUME Typed, Told(Queue, disk), NEW path \in Inside, Writes(path)
    PROVE  Told(Queue', disk')
<1> DEFINE c == [kind |-> "changed", path |-> path]
<1>1. path \in DOMAIN disk /\ disk' = disk /\ Changed(Heard(c))
  BY DEF Writes
<1>2. /\ c \in Event /\ c.kind = "changed" /\ c.path = path
      /\ Queue' = Queue \o Heard(c)
  BY <1>1, PlainHeard
<1> HIDE DEF c
<1>3. Happens(c, disk, disk)
  <2>1. \A p : ~Takes(c, p)
    BY <1>2 DEF Takes
  <2> QED
    BY <2>1 DEF Happens
<1>4. Ahead(Queue, c)
  BY <1>2 DEF Ahead
<1>5. DOMAIN disk \subseteq Inside
  BY DEF Typed, DiskTyped
<1>6. Told(Queue \o Heard(c), disk)
  BY <1>1, <1>2, <1>3, <1>4, <1>5, ToldMore
<1> QED
  BY <1>1, <1>2, <1>6

LEMMA AtRest ==
    ASSUME "removes in crawl" \notin Circumstances, NEW path, MayGo(path)
    PROVE  ~InSlot(RootOf(path))
  BY DEF MayGo, InSlot

LEMMA DeleteTold ==
    ASSUME Typed, Told(Queue, disk), "removes in crawl" \notin Circumstances,
           NEW path \in Inside, Deletes(path)
    PROVE  Told(Queue', disk')
<1> DEFINE c == [kind |-> "deleted", path |-> path]
<1>1. /\ path \in DOMAIN disk /\ DOMAIN disk' = DOMAIN disk \ {path}
      /\ \A p \in DOMAIN disk' : disk'[p] = disk[p]
      /\ \A p \in DOMAIN disk : Within(p, path) => p = path
  BY DeletionIs DEF Typed
<1>2. Changed(Heard(c)) /\ MayGo(path)
  BY DEF Deletes
<1>3. /\ c \in Event /\ c.kind = "deleted" /\ c.path = path
      /\ Queue' = Queue \o Heard(c)
  BY <1>2, PlainHeard
<1> HIDE DEF c
<1>4. Happens(c, disk, disk')
  <2> SUFFICES ASSUME NEW p \in Trails
               PROVE  /\ p \in DOMAIN disk' => ~Takes(c, p) /\ p \in DOMAIN disk /\ disk[p] = disk'[p]
                      /\ p \notin DOMAIN disk' => (~Takes(c, p) /\ p \notin DOMAIN disk) \/ Takes(c, p)
                      /\ ~Brings(c, p)
    BY DEF Happens
  <2>1. Takes(c, p) <=> Within(p, path)
    BY <1>3 DEF Takes
  <2>2. ~Brings(c, p)
    BY <1>3 DEF Brings
  <2>3. p = path => Within(p, path)
    BY WithinItself
  <2> QED
    BY <1>1, <2>1, <2>2, <2>3
<1>5. Ahead(Queue, c)
  BY <1>3 DEF Ahead
<1>6. DOMAIN disk' \subseteq Inside
  BY <1>1 DEF Typed, DiskTyped
<1>7. ~InSlot(RootOf(c.path))
  BY <1>2, <1>3, AtRest
<1> QED
  BY <1>3, <1>4, <1>5, <1>6, <1>7, ToldMore

LEMMA MoveTold ==
    ASSUME Typed, Told(Queue, disk), Circumstances = {},
           NEW old \in Inside, NEW new \in Inside, Moves(old, new)
    PROVE  Told(Queue', disk')
<1> DEFINE away   == [kind |-> "deleted", path |-> new]
           gone   == [kind |-> "deleted", path |-> old]
           come   == [kind |-> "created", path |-> new]
           passed == [kind |-> "renamed", path |-> new, old |-> old]
           q      == IF new \in DOMAIN disk THEN Queue \o Heard(away) ELSE Queue
           clear  == IF new \in DOMAIN disk THEN Without(disk, {new}) ELSE disk
           left   == Without(clear, Below(old))
<1>1. /\ DOMAIN disk' \subseteq Inside
      /\ ~Within(new, old) /\ ~Within(old, new) /\ old \in DOMAIN disk
      /\ \A p \in DOMAIN disk : Within(p, new) => p = new
      /\ \A p \in Trails :
            /\ Within(p, new) => /\ p \in DOMAIN disk' <=> Rebased(p, new, old) \in DOMAIN disk
                                 /\ p \in DOMAIN disk' => disk'[p] = disk[Rebased(p, new, old)]
            /\ Within(p, old) => p \notin DOMAIN disk'
            /\ ~Within(p, new) /\ ~Within(p, old) => /\ p \in DOMAIN disk' <=> p \in DOMAIN disk
                                                     /\ p \in DOMAIN disk' => disk'[p] = disk[p]
  BY MoveIs DEF Typed
<1>2. /\ Queue \in Seq(Event) /\ q \in Seq(Event)
      /\ away \in Event /\ gone \in Event /\ come \in Event
      /\ RootOf(old) = RootOf(new) => passed \in Event /\ Queue' = q \o Heard(passed)
      /\ RootOf(old) # RootOf(new) => Queue' = (q \o Heard(gone)) \o Heard(come)
  BY MoveHeard
<1>3. MayGo(old) /\ MayGo(new) /\ MayMove(old)
  BY DEF Moves
<1>4. ~InSlot(RootOf(old)) /\ ~InSlot(RootOf(new))
  BY <1>3, AtRest
<1>5. old \in Trails /\ new \in Trails /\ Len(old) > 1 /\ Len(new) > 1 /\ Within(new, new)
  BY InsideIs, WithinItself
<1>6. /\ away.kind = "deleted" /\ away.path = new /\ gone.kind = "deleted" /\ gone.path = old
      /\ come.kind = "created" /\ come.path = new
      /\ passed.kind = "renamed" /\ passed.path = new /\ passed.old = old
  OBVIOUS
<1>7. /\ \A p : p \in DOMAIN clear <=> p \in DOMAIN disk /\ p # new
      /\ \A p \in DOMAIN clear : clear[p] = disk[p]
  BY DEF Without, Restrict
<1>8. /\ \A p : p \in DOMAIN left <=> p \in DOMAIN clear /\ ~(p \in DOMAIN disk /\ Within(p, old))
      /\ \A p \in DOMAIN left : left[p] = clear[p]
  BY DEF Without, Restrict, Below
<1>9. DOMAIN clear \subseteq Inside /\ DOMAIN left \subseteq Inside
  BY <1>7, <1>8 DEF Typed, DiskTyped
<1> HIDE DEF away, gone, come, passed, left
<1>10. Told(q, clear)
  <2>1. CASE new \notin DOMAIN disk
    BY <2>1
  <2>2. CASE new \in DOMAIN disk
    <3>1. q = Queue \o Heard(away)
      BY <2>2
    <3> HIDE DEF q, clear
    <3>2. Happens(away, disk, clear)
      <4> SUFFICES ASSUME NEW p \in Trails
                   PROVE  /\ p \in DOMAIN clear => ~Takes(away, p) /\ p \in DOMAIN disk /\ disk[p] = clear[p]
                          /\ p \notin DOMAIN clear => (~Takes(away, p) /\ p \notin DOMAIN disk) \/ Takes(away, p)
                          /\ ~Brings(away, p)
        BY DEF Happens
      <4>1. Takes(away, p) <=> Within(p, new)
        BY <1>6 DEF Takes
      <4>2. ~Brings(away, p)
        BY <1>6 DEF Brings
      <4> QED
        BY <1>1, <1>5, <1>7, <4>1, <4>2
    <3>3. Ahead(Queue, away) /\ ~InSlot(RootOf(away.path))
      BY <1>4, <1>6 DEF Ahead
    <3>4. Told(Queue \o Heard(away), clear)
      BY <1>2, <1>9, <3>2, <3>3, ToldMore
    <3> QED
      BY <3>1, <3>4
  <2> QED
    BY <2>1, <2>2
<1>11. \A i \in DOMAIN q : ~About(old, q[i])
  <2>1. \A i \in DOMAIN Queue : ~About(old, Queue[i])
    BY <1>3, MayMoveIs
  <2>2. CASE q = Queue
    BY <2>1, <2>2
  <2>3. CASE q = Queue \o Heard(away) /\ ~IsWatched(RootOf(away.path))
    <3>1. q = Queue
      BY <1>2, <2>3, HeardIs
    <3> QED
      BY <2>1, <3>1
  <2>4. CASE q = Queue \o Heard(away) /\ IsWatched(RootOf(away.path))
    <3>1. q = Append(Queue, away)
      BY <1>2, <2>4, HeardIs
    <3>2. /\ DOMAIN Append(Queue, away) = 1..(Len(Queue) + 1) /\ Len(Queue) \in Nat
          /\ DOMAIN Queue = 1..Len(Queue)
          /\ \A i \in DOMAIN Queue : Append(Queue, away)[i] = Queue[i]
          /\ Append(Queue, away)[Len(Queue) + 1] = away
      BY <1>2, UntakenMore
    <3>3. \A i \in 1..(Len(Queue) + 1) : i \in DOMAIN Queue \/ i = Len(Queue) + 1
      BY <3>2
    <3>4. ~About(old, away)
      BY <1>1, <1>6 DEF About
    <3> HIDE DEF q
    <3> QED
      BY <2>1, <3>1, <3>2, <3>3, <3>4
  <2> QED
    BY <2>2, <2>3, <2>4
<1> HIDE DEF q, clear
<1>12. CASE RootOf(old) = RootOf(new)
  <2>1. Happens(passed, clear, disk')
    <3> SUFFICES ASSUME NEW p \in Trails
                 PROVE  /\ p \in DOMAIN disk' =>
                              \/ ~Takes(passed, p) /\ p \in DOMAIN clear /\ clear[p] = disk'[p]
                              \/ /\ Brings(passed, p) /\ Source(passed, p) \in DOMAIN clear
                                 /\ clear[Source(passed, p)] = disk'[p]
                        /\ p \notin DOMAIN disk' =>
                              \/ ~Takes(passed, p) /\ p \notin DOMAIN clear
                              \/ Takes(passed, p) /\ (Brings(passed, p) => Source(passed, p) \notin DOMAIN clear)
      BY DEF Happens
    <3>1. /\ Takes(passed, p) <=> Within(p, new) \/ Within(p, old)
          /\ Brings(passed, p) <=> Within(p, new)
          /\ Source(passed, p) = Rebased(p, new, old)
      BY <1>6 DEF Takes, Brings, Source
    <3>2. CASE Within(p, new)
      <4>1. Rebased(p, new, old) # new
        <5>1. Within(Rebased(p, new, old), old)
          BY <1>5, <3>2, RebasedIs
        <5> QED
          BY <1>1, <5>1
      <4>2. Rebased(p, new, old) \in DOMAIN clear <=> Rebased(p, new, old) \in DOMAIN disk
        BY <1>7, <4>1
      <4> QED
        BY <1>1, <1>7, <3>1, <3>2, <4>2
    <3>3. CASE Within(p, old) /\ ~Within(p, new)
      BY <1>1, <3>1, <3>3
    <3>4. CASE ~Within(p, old) /\ ~Within(p, new)
      <4>1. p # new
        BY <1>5, <3>4
      <4> QED
        BY <1>1, <1>7, <3>1, <3>4, <4>1
    <3> QED
      BY <3>2, <3>3, <3>4
  <2>2. Ahead(q, passed) /\ ~InSlot(RootOf(passed.path))
    BY <1>4, <1>6, <1>11 DEF Ahead
  <2>3. Told(q \o Heard(passed), disk')
    BY <1>1, <1>2, <1>10, <1>12, <2>1, <2>2, ToldMore
  <2> QED
    BY <1>2, <1>12, <2>3
<1>13. CASE RootOf(old) # RootOf(new)
  <2>1. Happens(gone, clear, left)
    <3> SUFFICES ASSUME NEW p \in Trails
                 PROVE  /\ p \in DOMAIN left => ~Takes(gone, p) /\ p \in DOMAIN clear /\ clear[p] = left[p]
                        /\ p \notin DOMAIN left => (~Takes(gone, p) /\ p \notin DOMAIN clear) \/ Takes(gone, p)
                        /\ ~Brings(gone, p)
      BY DEF Happens
    <3>1. Takes(gone, p) <=> Within(p, old)
      BY <1>6 DEF Takes
    <3>2. ~Brings(gone, p)
      BY <1>6 DEF Brings
    <3> QED
      BY <1>7, <1>8, <3>1, <3>2
  <2>2. Ahead(q, gone) /\ ~InSlot(RootOf(gone.path))
    BY <1>4, <1>6 DEF Ahead
  <2>3. Told(q \o Heard(gone), left)
    BY <1>2, <1>9, <1>10, <2>1, <2>2, ToldMore
  <2> DEFINE z == q \o Heard(gone)
  <2> HIDE DEF z
  <2>4. Happens(come, left, disk')
    <3> SUFFICES ASSUME NEW p \in Trails
                 PROVE  /\ p \in DOMAIN disk' => Gives(come, p) \/ (p \in DOMAIN left /\ left[p] = disk'[p])
                        /\ p \notin DOMAIN disk' => p \notin DOMAIN left
                        /\ ~Takes(come, p)
      BY DEF Happens
    <3>1. Gives(come, p) <=> Within(p, new)
      BY <1>6 DEF Gives
    <3>2. ~Takes(come, p)
      BY <1>6 DEF Takes
    <3>3. CASE Within(p, new)
      <4>1. p \notin DOMAIN left
        BY <1>1, <1>7, <1>8, <3>3
      <4> QED
        BY <3>1, <3>2, <3>3, <4>1
    <3>4. CASE Within(p, old) /\ ~Within(p, new)
      <4>1. p \notin DOMAIN left /\ p \notin DOMAIN disk'
        BY <1>1, <1>7, <1>8, <3>4
      <4> QED
        BY <3>2, <4>1
    <3>5. CASE ~Within(p, new) /\ ~Within(p, old)
      <4>1. p # new
        BY <1>5, <3>5
      <4>2. (p \in DOMAIN left <=> p \in DOMAIN disk) /\ (p \in DOMAIN left => left[p] = disk[p])
        BY <1>7, <1>8, <3>5, <4>1
      <4> QED
        BY <1>1, <3>2, <3>5, <4>2
    <3> QED
      BY <3>3, <3>4, <3>5
  <2>5. Ahead(z, come) /\ ~InSlot(RootOf(come.path))
    BY <1>4, <1>6 DEF Ahead
  <2>6. Told(z \o Heard(come), disk')
    BY <1>1, <1>2, <2>3, <2>4, <2>5, ToldMore DEF z
  <2> QED
    BY <1>2, <1>13, <2>6 DEF z
<1> QED
  BY <1>12, <1>13

LEMMA ProgramsTold ==
    ASSUME Typed, Told(Queue, disk), Circumstances = {}, ProgramsAct
    PROVE  Told(Queue', disk')
  BY CreateTold, WriteTold, DeleteTold, MoveTold DEF ProgramsAct

--------------------------------------------------------------------------------
(* The watchers. *)

Watches(w, r) == \E i \in DOMAIN w : w[i] = r
Watchers(w)   == w \in Seq(Roots) /\ IsInjective(w) /\ Len(w) <= MaxWatchers

LEMMA RemovedIs ==
    ASSUME NEW S, NEW w \in Seq(S), NEW i \in 1..Len(w)
    PROVE  /\ RemoveAt(w, i) \in Seq(S) /\ Len(RemoveAt(w, i)) = Len(w) - 1
           /\ \A j \in 1..(Len(w) - 1) : RemoveAt(w, i)[j] = IF j < i THEN w[j] ELSE w[j + 1]
<1> DEFINE n == Len(w)
           a == SubSeq(w, 1, i - 1)
           b == SubSeq(w, i + 1, n)
<1>1. n \in Nat /\ i \in 1..n /\ \A j \in 1..n : w[j] \in S
  BY LenProperties, ElementOfSeq
<1>2. a \in Seq(S) /\ Len(a) = i - 1 /\ \A j \in 1..(i - 1) : a[j] = w[j]
  <2>1. 1 \in Int /\ i - 1 \in Int /\ \A j \in 1..(i - 1) : w[j] \in S
    BY <1>1
  <2>2. /\ a \in Seq(S) /\ Len(a) = IF 1 <= i - 1 THEN (i - 1) - 1 + 1 ELSE 0
        /\ \A j \in 1..((i - 1) - 1 + 1) : a[j] = w[1 + j - 1]
    BY <2>1, SubSeqProperties
  <2> HIDE DEF a, n
  <2> QED
    BY <1>1, <2>2
<1>3. b \in Seq(S) /\ Len(b) = n - i /\ \A j \in 1..(n - i) : b[j] = w[i + j]
  <2>1. i + 1 \in Int /\ n \in Int /\ \A j \in (i + 1)..n : w[j] \in S
    BY <1>1
  <2>2. /\ b \in Seq(S) /\ Len(b) = IF i + 1 <= n THEN n - (i + 1) + 1 ELSE 0
        /\ \A j \in 1..(n - (i + 1) + 1) : b[j] = w[(i + 1) + j - 1]
    BY <2>1, SubSeqProperties
  <2> HIDE DEF b, n
  <2>3. \A j \in 1..(n - i) : (i + 1) + j - 1 = i + j /\ j \in 1..(n - (i + 1) + 1)
    BY <1>1
  <2> QED
    BY <1>1, <2>2, <2>3
<1>4. RemoveAt(w, i) = a \o b
  BY DEF RemoveAt
<1> HIDE DEF a, b, n
<1>5. /\ a \o b \in Seq(S) /\ Len(a \o b) = Len(a) + Len(b)
      /\ \A j \in 1..(Len(a) + Len(b)) : (a \o b)[j] = IF j <= Len(a) THEN a[j] ELSE b[j - Len(a)]
  BY <1>2, <1>3, ConcatProperties
<1>6. ASSUME NEW j \in 1..(n - 1) PROVE (a \o b)[j] = IF j < i THEN w[j] ELSE w[j + 1]
  <2>1. j \in 1..(Len(a) + Len(b))
    BY <1>1, <1>2, <1>3
  <2>2. CASE j < i
    BY <1>1, <1>2, <1>5, <2>1, <2>2
  <2>3. CASE ~(j < i)
    <3> DEFINE h == j - Len(a)
    <3>1. h \in 1..(n - i) /\ i + h = j + 1 /\ ~(j <= Len(a))
      BY <1>1, <1>2, <2>3
    <3>2. (a \o b)[j] = b[h]
      BY <1>5, <2>1, <3>1
    <3> HIDE DEF h
    <3> QED
      BY <1>3, <2>3, <3>1, <3>2
  <2> QED
    BY <2>2, <2>3
<1> QED
  BY <1>1, <1>2, <1>3, <1>4, <1>5, <1>6 DEF n

LEMMA UnwatchedIs ==
    ASSUME WatchedTyped, NEW r \in Roots
    PROVE  /\ Watchers(Unwatched(r))
           /\ \A s : Watches(Unwatched(r), s) <=> IsWatched(s) /\ s # r
           /\ IsWatched(r) => Len(Unwatched(r)) = Len(watched) - 1
<1>1. /\ watched \in Seq(Roots) /\ IsInjective(watched) /\ Len(watched) \in Nat /\ Len(watched) <= MaxWatchers
      /\ DOMAIN watched = 1..Len(watched)
  BY LenProperties DEF WatchedTyped
<1>2. CASE ~IsWatched(r)
  <2>1. Unwatched(r) = watched
    BY <1>2 DEF Unwatched
  <2> QED
    BY <1>1, <1>2, <2>1 DEF Watchers, Watches, IsWatched
<1>3. CASE IsWatched(r)
  <2> DEFINE at == CHOOSE i \in DOMAIN watched : watched[i] = r
             u  == RemoveAt(watched, at)
             n  == Len(watched)
  <2>1. Unwatched(r) = u
    BY <1>3 DEF Unwatched
  <2>2. at \in 1..n /\ watched[at] = r
    BY <1>1, <1>3 DEF IsWatched
  <2> HIDE DEF at
  <2>3. u \in Seq(Roots) /\ Len(u) = n - 1 /\ \A j \in 1..(n - 1) : u[j] = IF j < at THEN watched[j] ELSE watched[j + 1]
    BY <1>1, <2>2, RemovedIs
  <2> HIDE DEF u, n
  <2>4. DOMAIN u = 1..(n - 1)
    BY <2>3, LenProperties
  <2>5. /\ n \in Nat /\ DOMAIN watched = 1..n /\ n <= MaxWatchers
        /\ \A i, j \in 1..n : watched[i] = watched[j] => i = j
    BY <1>1 DEF n, IsInjective
  <2>6. IsInjective(u)
    <3> SUFFICES ASSUME NEW i \in DOMAIN u, NEW j \in DOMAIN u, u[i] = u[j] PROVE i = j
      BY DEF IsInjective
    <3> DEFINE x == IF i < at THEN i ELSE i + 1
               y == IF j < at THEN j ELSE j + 1
    <3>1. x \in 1..n /\ y \in 1..n /\ u[i] = watched[x] /\ u[j] = watched[y]
      BY <2>2, <2>3, <2>4, <2>5
    <3>2. x = y
      <4> HIDE DEF x, y
      <4> QED
        BY <2>5, <3>1
    <3> QED
      BY <2>2, <2>4, <2>5, <3>2
  <2>7. ASSUME NEW s PROVE Watches(u, s) <=> IsWatched(s) /\ s # r
    <3>1. ASSUME NEW j \in DOMAIN u, u[j] = s PROVE IsWatched(s) /\ s # r
      <4> DEFINE x == IF j < at THEN j ELSE j + 1
      <4>1. x \in 1..n /\ u[j] = watched[x] /\ x # at
        BY <2>2, <2>3, <2>4, <2>5
      <4> HIDE DEF x
      <4>2. watched[x] # r
        BY <2>2, <2>5, <4>1
      <4> QED
        BY <2>5, <3>1, <4>1, <4>2 DEF IsWatched
    <3>2. ASSUME IsWatched(s), s # r PROVE Watches(u, s)
      <4>1. PICK x \in 1..n : watched[x] = s
        BY <2>5, <3>2 DEF IsWatched
      <4>2. x # at
        BY <2>2, <3>2, <4>1
      <4> DEFINE j == IF x < at THEN x ELSE x - 1
      <4>3. j \in 1..(n - 1) /\ (IF j < at THEN j ELSE j + 1) = x
        BY <2>2, <2>5, <4>1, <4>2
      <4> HIDE DEF j
      <4>4. j \in DOMAIN u /\ u[j] = IF j < at THEN watched[j] ELSE watched[j + 1]
        BY <2>3, <2>4, <4>3
      <4>5. u[j] = s
        BY <4>1, <4>3, <4>4
      <4> QED
        BY <4>4, <4>5 DEF Watches
    <3> QED
      BY <3>1, <3>2 DEF Watches
  <2>8. n - 1 <= MaxWatchers
    BY <2>5, CrawledAssumption
  <2> QED
    BY <1>3, <2>1, <2>3, <2>6, <2>7, <2>8 DEF Watchers, n
<1> QED
  BY <1>2, <1>3

LEMMA OneMoreWatcher ==
    ASSUME NEW w, Watchers(w), NEW r \in Roots, ~Watches(w, r), Len(w) < MaxWatchers
    PROVE  Watchers(Append(w, r)) /\ \A s : Watches(Append(w, r), s) <=> Watches(w, s) \/ s = r
<1> DEFINE a == Append(w, r)
           n == Len(w)
<1>1. w \in Seq(Roots) /\ n \in Nat /\ DOMAIN w = 1..n /\ \A i, j \in DOMAIN w : w[i] = w[j] => i = j
  BY LenProperties DEF Watchers, IsInjective
<1>2. a \in Seq(Roots) /\ Len(a) = n + 1 /\ (\A i \in 1..n : a[i] = w[i]) /\ a[n + 1] = r
  BY <1>1, AppendProperties
<1>3. DOMAIN a = 1..(n + 1)
  BY <1>2, LenProperties
<1>4. n < MaxWatchers
  OBVIOUS
<1> HIDE DEF a, n
<1>5. \A i \in DOMAIN a : i \in DOMAIN w \/ i = n + 1
  BY <1>1, <1>3
<1>6. \A i \in DOMAIN w : i \in DOMAIN a /\ a[i] = w[i] /\ w[i] # r
  BY <1>1, <1>2, <1>3 DEF Watches
<1>7. IsInjective(a)
  BY <1>1, <1>2, <1>5, <1>6 DEF IsInjective
<1>8. \A s : Watches(a, s) <=> Watches(w, s) \/ s = r
  <2>1. n + 1 \in DOMAIN a
    BY <1>1, <1>3
  <2> QED
    BY <1>2, <1>5, <1>6, <2>1 DEF Watches
<1>9. Len(a) <= MaxWatchers
  BY <1>1, <1>2, <1>4, CrawledAssumption
<1> QED
  BY <1>2, <1>7, <1>8, <1>9 DEF Watchers, a

LEMMA TouchedIs ==
    ASSUME WatchedTyped, NEW r \in Roots, IsWatched(r)
    PROVE  Watchers(Touched(r)) /\ \A s : Watches(Touched(r), s) <=> IsWatched(s)
<1>1. /\ Watchers(Unwatched(r)) /\ Len(Unwatched(r)) = Len(watched) - 1
      /\ \A s : Watches(Unwatched(r), s) <=> IsWatched(s) /\ s # r
  BY UnwatchedIs
<1>2. Len(watched) \in Nat /\ Len(watched) <= MaxWatchers
  BY LenProperties DEF WatchedTyped
<1>3. Len(Unwatched(r)) < MaxWatchers
  BY <1>1, <1>2, CrawledAssumption
<1>4. ~Watches(Unwatched(r), r)
  BY <1>1
<1> QED
  BY <1>1, <1>3, <1>4, OneMoreWatcher DEF Touched

LEMMA RoomIs ==
    ASSUME WatchedTyped, Len(watched) >= MaxWatchers
    PROVE  /\ Watchers(Tail(watched)) /\ Len(Tail(watched)) < MaxWatchers
           /\ \A s : Watches(Tail(watched), s) => IsWatched(s)
<1> DEFINE t == Tail(watched)
           n == Len(watched)
<1>1. /\ watched \in Seq(Roots) /\ n \in Nat /\ n = MaxWatchers /\ n > 0 /\ DOMAIN watched = 1..n
      /\ \A i, j \in DOMAIN watched : watched[i] = watched[j] => i = j
  BY LenProperties, CrawledAssumption DEF WatchedTyped, IsInjective
<1>2. watched # <<>>
  BY <1>1, EmptySeq
<1>3. t \in Seq(Roots) /\ Len(t) = n - 1 /\ \A i \in 1..Len(t) : t[i] = watched[i + 1]
  BY <1>1, <1>2, HeadTailProperties
<1>4. DOMAIN t = 1..(n - 1)
  BY <1>3, LenProperties
<1> HIDE DEF t, n
<1>5. \A i \in DOMAIN t : i + 1 \in DOMAIN watched /\ t[i] = watched[i + 1] /\ i \in Int
  BY <1>1, <1>3, <1>4
<1>6. IsInjective(t)
  <2> SUFFICES ASSUME NEW i \in DOMAIN t, NEW j \in DOMAIN t, t[i] = t[j] PROVE i = j
    BY DEF IsInjective
  <2>1. i + 1 = j + 1
    BY <1>1, <1>5
  <2> QED
    BY <1>5, <2>1
<1>7. Len(t) < MaxWatchers /\ Len(t) <= MaxWatchers
  BY <1>1, <1>3
<1> QED
  BY <1>3, <1>5, <1>6, <1>7 DEF Watchers, Watches, IsWatched, t

--------------------------------------------------------------------------------
(* The crawls. *)

LEMMA CrawlIs ==
    ASSUME CrawlsTyped, NEW r \in Roots
    PROVE  /\ crawls[r] \in Crawl /\ DOMAIN crawls = Roots
           /\ crawls[r].step \in Steps /\ crawls[r].gen \in Nat /\ crawls[r].gen <= clock
           /\ crawls[r].todo \in SUBSET (Inside \union Roots) /\ crawls[r].found \in Founds
           /\ crawls[r] = [step |-> crawls[r].step, gen |-> crawls[r].gen,
                           todo |-> crawls[r].todo, found |-> crawls[r].found]
<1>1. crawls[r] \in Crawl /\ DOMAIN crawls = Roots /\ crawls[r].gen <= clock
  BY DEF CrawlsTyped
<1> DEFINE c == crawls[r]
<1>2. c \in Crawl
  BY <1>1
<1> HIDE DEF c
<1>3. /\ c.step \in Steps /\ c.gen \in Nat /\ c.todo \in SUBSET (Inside \union Roots) /\ c.found \in Founds
      /\ c = [step |-> c.step, gen |-> c.gen, todo |-> c.todo, found |-> c.found]
  BY <1>2 DEF Crawl
<1> QED
  BY <1>1, <1>3 DEF c

LEMMA SameCrawl ==
    ASSUME NEW b \in Crawl, NEW c \in Crawl, b.step = c.step, b.gen = c.gen, b.todo = c.todo, b.found = c.found
    PROVE  b = c
  BY DEF Crawl

\* The crawl of r becomes c, and no other changes.
Becomes(r, c) == /\ crawls' \in [Roots -> Crawl] /\ crawls'[r] = c
                 /\ \A s \in Roots : s # r => crawls'[s] = crawls[s]

LEMMA BecomesIs ==
    ASSUME CrawlsTyped, NEW r \in Roots, NEW c \in Crawl, crawls' = [crawls EXCEPT ![r] = c]
    PROVE  Becomes(r, c)
<1>1. crawls \in [Roots -> Crawl]
  BY DEF CrawlsTyped
<1> QED
  BY <1>1 DEF Becomes

LEMMA SearchIs ==
    ASSUME CrawlsTyped, NEW r \in Roots, Searches(r)
    PROVE  \/ crawls' = crawls
           \/ /\ ~Fresh(r) /\ crawls[r].step = "none"
              /\ Becomes(r, [step |-> "attaching", gen |-> 0, todo |-> {}, found |-> <<>>])
<1> DEFINE c == [step |-> "attaching", gen |-> 0, todo |-> {}, found |-> <<>>]
<1>2. c \in Crawl /\ Idle \in Crawl
  BY NothingFound DEF Crawl, Steps, Idle
<1>1. [Idle EXCEPT !.step = "attaching"] = c
  <2> DEFINE x == Idle
             b == [x EXCEPT !.step = "attaching"]
  <2>1. x.gen = 0 /\ x.todo = {} /\ x.found = <<>>
    BY DEF Idle
  <2> HIDE DEF x
  <2>2. b \in Crawl /\ b.step = "attaching" /\ b.gen = x.gen /\ b.todo = x.todo /\ b.found = x.found
    BY <1>2 DEF x, Crawl, Steps
  <2>3. c.step = "attaching" /\ c.gen = 0 /\ c.todo = {} /\ c.found = <<>>
    OBVIOUS
  <2> HIDE DEF b, c
  <2>4. b = c
    BY <1>2, <2>1, <2>2, <2>3, SameCrawl
  <2> QED
    BY <2>4 DEF b, x
<1> HIDE DEF c
<1>3. CASE crawls' = [crawls EXCEPT ![r] = c] /\ ~Fresh(r) /\ crawls[r].step = "none"
  BY <1>2, <1>3, BecomesIs DEF c
<1> QED
  BY <1>1, <1>3 DEF Searches

LEMMA AttachIs ==
    ASSUME CrawlsTyped, NEW r \in Roots, Attaches(r)
    PROVE  /\ crawls[r].step = "attaching"
           /\ Becomes(r, [step |-> "queued", gen |-> crawls[r].gen, todo |-> crawls[r].todo, found |-> crawls[r].found])
<1> DEFINE x == crawls[r]
           c == [step |-> "queued", gen |-> x.gen, todo |-> x.todo, found |-> x.found]
<1>1. /\ x.gen \in Nat /\ x.todo \in SUBSET (Inside \union Roots) /\ x.found \in Founds
      /\ x = [step |-> x.step, gen |-> x.gen, todo |-> x.todo, found |-> x.found]
  BY CrawlIs
<1>2. c \in Crawl
  BY <1>1 DEF Crawl, Steps
<1>3. crawls' = [crawls EXCEPT ![r] = [x EXCEPT !.step = "queued"]] /\ x.step = "attaching"
  BY DEF Attaches
<1> HIDE DEF x
<1>4. [x EXCEPT !.step = "queued"] = c
  BY <1>1
<1> HIDE DEF c
<1>5. crawls' = [crawls EXCEPT ![r] = c]
  BY <1>3, <1>4
<1> QED
  BY <1>2, <1>3, <1>5, BecomesIs DEF c, x

LEMMA BeginIs ==
    ASSUME CrawlsTyped, ClockTyped, NEW r \in Roots, Begins(r)
    PROVE  /\ crawls[r].step = "queued" /\ clock' = clock + 1
           /\ "crawls at once" \in Circumstances \/ Applied(r)
           /\ Becomes(r, [step |-> "walking", gen |-> clock + 1, todo |-> {r}, found |-> <<>>])
<1> DEFINE c == [step |-> "walking", gen |-> clock + 1, todo |-> {r}, found |-> <<>>]
<1>1. /\ crawls' = [crawls EXCEPT ![r] = c] /\ crawls[r].step = "queued" /\ clock' = clock + 1
      /\ "crawls at once" \in Circumstances \/ Applied(r)
  BY DEF Begins
<1>2. c \in Crawl
  <2>1. {r} \in SUBSET (Inside \union Roots) /\ clock + 1 \in Nat
    BY DEF ClockTyped
  <2> QED
    BY <2>1, NothingFound DEF Crawl, Steps
<1> HIDE DEF c
<1> QED
  BY <1>1, <1>2, BecomesIs DEF c

LEMMA ListIs ==
    ASSUME CrawlsTyped, DiskTyped, NEW r \in Roots, Lists(r)
    PROVE  /\ crawls[r].step = "walking"
           /\ \E dir \in crawls[r].todo :
                 Becomes(r, [step |-> "walking", gen |-> crawls[r].gen,
                             todo |-> (crawls[r].todo \ {dir}) \union {p \in ChildrenOf(dir) : disk[p]},
                             found |-> Over(AsRows(ChildrenOf(dir)), crawls[r].found)])
<1> DEFINE x == crawls[r]
<1>1. x.step = "walking"
  BY DEF Lists
<1>2. PICK dir \in x.todo :
          crawls' = [crawls EXCEPT ![r].todo = (@ \ {dir}) \union {p \in ChildrenOf(dir) : disk[p]},
                                   ![r].found = Over(AsRows(ChildrenOf(dir)), @)]
  BY DEF Lists
<1> DEFINE td == (x.todo \ {dir}) \union {p \in ChildrenOf(dir) : disk[p]}
           fd == Over(AsRows(ChildrenOf(dir)), x.found)
           c == [step |-> "walking", gen |-> x.gen, todo |-> td, found |-> fd]
<1>3. /\ x.gen \in Nat /\ x.todo \in SUBSET (Inside \union Roots) /\ x.found \in Founds
      /\ x = [step |-> x.step, gen |-> x.gen, todo |-> x.todo, found |-> x.found]
      /\ DOMAIN crawls = Roots
  BY CrawlIs
<1>4. ChildrenOf(dir) \subseteq DOMAIN disk
  BY DEF ChildrenOf
<1>5. fd \in Founds
  BY <1>3, <1>4, FoundsGrow
<1>6. td \in SUBSET (Inside \union Roots)
  BY <1>3, <1>4 DEF DiskTyped
<1>7. crawls' = [crawls EXCEPT ![r] = [x EXCEPT !.todo = td, !.found = fd]]
  BY <1>2, <1>3
<1> HIDE DEF td, fd, x
<1>8. c \in Crawl
  BY <1>3, <1>5, <1>6 DEF Crawl, Steps
<1>9. [x EXCEPT !.todo = td, !.found = fd] = c
  <2> DEFINE b == [x EXCEPT !.todo = td, !.found = fd]
  <2>1. x \in Crawl
    BY CrawlIs DEF x
  <2>2. b \in Crawl /\ b.step = x.step /\ b.gen = x.gen /\ b.todo = td /\ b.found = fd
    BY <1>5, <1>6, <2>1 DEF Crawl
  <2>3. c.step = "walking" /\ c.gen = x.gen /\ c.todo = td /\ c.found = fd
    OBVIOUS
  <2> HIDE DEF b, c
  <2>4. b = c
    BY <1>1, <1>8, <2>2, <2>3, SameCrawl
  <2> QED
    BY <2>4 DEF b
<1> HIDE DEF c
<1>10. crawls' = [crawls EXCEPT ![r] = c]
  BY <1>7, <1>9
<1>11. Becomes(r, c)
  BY <1>8, <1>10, BecomesIs
<1> QED
  BY <1>1, <1>2, <1>11 DEF c, x, td, fd

LEMMA WriteFoundIs ==
    ASSUME CrawlsTyped, NEW r \in Roots, WritesFound(r)
    PROVE  /\ crawls[r].step = "walking"
           /\ rows' = UpsertEntries(rows, crawls[r].found, crawls[r].gen)
           /\ \E step \in {"walking", "written"} :
                 /\ step = "written" => crawls[r].todo = {}
                 /\ Becomes(r, [step |-> step, gen |-> crawls[r].gen, todo |-> crawls[r].todo, found |-> <<>>])
<1> DEFINE x == crawls[r]
           step == IF x.todo = {} THEN "written" ELSE x.step
           c == [step |-> step, gen |-> x.gen, todo |-> x.todo, found |-> <<>>]
<1>1. x.step = "walking" /\ rows' = UpsertEntries(rows, x.found, x.gen)
  BY DEF WritesFound
<1>2. /\ x.gen \in Nat /\ x.todo \in SUBSET (Inside \union Roots) /\ x.found \in Founds
      /\ x = [step |-> x.step, gen |-> x.gen, todo |-> x.todo, found |-> x.found]
      /\ DOMAIN crawls = Roots
  BY CrawlIs
<1>3. crawls' = [crawls EXCEPT ![r] = [x EXCEPT !.found = <<>>, !.step = step]]
  <2>1. crawls' = [crawls EXCEPT ![r].found = <<>>,
                                 ![r].step = IF crawls[r].todo = {} THEN "written" ELSE @]
    BY DEF WritesFound
  <2> QED
    BY <1>2, <2>1
<1>4. step \in {"walking", "written"} /\ (step = "written" => x.todo = {})
  BY <1>1
<1> HIDE DEF x, step
<1>5. c \in Crawl
  BY <1>2, <1>4, NothingFound DEF Crawl, Steps
<1>6. [x EXCEPT !.found = <<>>, !.step = step] = c
  <2> DEFINE b == [x EXCEPT !.found = <<>>, !.step = step]
  <2>1. x \in Crawl /\ step \in Steps
    BY <1>4, CrawlIs DEF x, Steps
  <2>2. b \in Crawl /\ b.step = step /\ b.gen = x.gen /\ b.todo = x.todo /\ b.found = <<>>
    BY <2>1, NothingFound DEF Crawl
  <2>3. c.step = step /\ c.gen = x.gen /\ c.todo = x.todo /\ c.found = <<>>
    OBVIOUS
  <2> HIDE DEF b, c
  <2>4. b = c
    BY <1>5, <2>2, <2>3, SameCrawl
  <2> QED
    BY <2>4 DEF b
<1> HIDE DEF c
<1>7. crawls' = [crawls EXCEPT ![r] = c]
  BY <1>3, <1>6
<1>8. Becomes(r, c)
  BY <1>5, <1>7, BecomesIs
<1> QED
  BY <1>1, <1>4, <1>8 DEF c, x

LEMMA SweepIs ==
    ASSUME CrawlsTyped, NEW r \in Roots, Sweeps(r)
    PROVE  /\ crawls[r].step = "written" /\ rows' = SweepVanished(rows, r, crawls[r].gen)
           /\ Becomes(r, [step |-> "swept", gen |-> crawls[r].gen, todo |-> crawls[r].todo, found |-> crawls[r].found])
<1> DEFINE x == crawls[r]
           c == [step |-> "swept", gen |-> x.gen, todo |-> x.todo, found |-> x.found]
<1>1. /\ x.gen \in Nat /\ x.todo \in SUBSET (Inside \union Roots) /\ x.found \in Founds
      /\ x = [step |-> x.step, gen |-> x.gen, todo |-> x.todo, found |-> x.found]
  BY CrawlIs
<1>2. c \in Crawl
  BY <1>1 DEF Crawl, Steps
<1>3. /\ crawls' = [crawls EXCEPT ![r] = [x EXCEPT !.step = "swept"]] /\ x.step = "written"
      /\ rows' = SweepVanished(rows, r, x.gen)
  BY DEF Sweeps
<1> HIDE DEF x
<1>4. [x EXCEPT !.step = "swept"] = c
  BY <1>1
<1> HIDE DEF c
<1>5. crawls' = [crawls EXCEPT ![r] = c]
  BY <1>3, <1>4
<1> QED
  BY <1>2, <1>3, <1>5, BecomesIs DEF c, x

LEMMA RegisterIs ==
    ASSUME CrawlsTyped, NEW r \in Roots, Registers(r)
    PROVE  /\ Becomes(r, [step |-> "none", gen |-> 0, todo |-> {}, found |-> <<>>])
           /\ \/ /\ crawls[r].step = "swept" /\ DOMAIN roots' = DOMAIN roots \union {r} /\ roots'[r] = FALSE
                 /\ \A s \in DOMAIN roots : s # r => roots'[s] = roots[s]
              \/ "crawl fails" \in Circumstances /\ roots' = roots
<1> DEFINE c == [step |-> "none", gen |-> 0, todo |-> {}, found |-> <<>>]
<1>1. crawls' = [crawls EXCEPT ![r] = c]
  BY DEF Registers, Idle
<1>2. c \in Crawl
  BY NothingFound DEF Crawl, Steps
<1> HIDE DEF c
<1>3. Becomes(r, c)
  BY <1>1, <1>2, BecomesIs
<1> QED
  BY <1>3 DEF Registers, c

--------------------------------------------------------------------------------
(* The variables hold what they should. *)

RowsWith(w, g) == \A p \in DOMAIN w : /\ p \in Trails /\ Len(p) > 1 /\ RootOf(p) \in Roots
                                      /\ w[p] \in Row /\ w[p].gen <= g

LEMMA UpsertTyped ==
    ASSUME NEW w, NEW c \in Nat, RowsWith(w, c), NEW f \in Founds, NEW g \in Nat, g <= c
    PROVE  RowsWith(UpsertEntries(w, f, g), c)
<1> DEFINE v == UpsertEntries(w, f, g)
<1>1. /\ DOMAIN v = DOMAIN w \union DOMAIN f
      /\ \A p \in DOMAIN f : v[p] = [folder |-> f[p].folder, hidden |-> f[p].hidden, gen |-> g]
      /\ \A p \in DOMAIN w : p \notin DOMAIN f => v[p] = w[p]
  BY UpsertIs
<1> HIDE DEF v
<1> SUFFICES ASSUME NEW p \in DOMAIN v
             PROVE  /\ p \in Trails /\ Len(p) > 1 /\ RootOf(p) \in Roots
                    /\ v[p] \in Row /\ v[p].gen <= c
  BY DEF RowsWith, v
<1>2. CASE p \in DOMAIN f
  <2>1. p \in Inside /\ f[p].folder \in BOOLEAN /\ f[p].hidden = FALSE
    BY <1>2, FoundsIs
  <2>2. v[p] = [folder |-> f[p].folder, hidden |-> FALSE, gen |-> g]
    BY <1>1, <1>2, <2>1
  <2>3. v[p] \in Row /\ v[p].gen <= c
    BY <2>1, <2>2 DEF Row
  <2> QED
    BY <2>1, <2>3, InsideIs
<1>3. CASE p \notin DOMAIN f
  BY <1>1, <1>3 DEF RowsWith
<1> QED
  BY <1>2, <1>3

LEMMA DeleteTyped ==
    ASSUME NEW w, NEW c, RowsWith(w, c), NEW path
    PROVE  RowsWith(DeleteSubtree(w, path), c)
  BY DeleteIs DEF RowsWith

LEMMA SweepTyped ==
    ASSUME NEW w, NEW c, RowsWith(w, c), NEW r, NEW g
    PROVE  RowsWith(SweepVanished(w, r, g), c)
  BY SweptIs DEF RowsWith

LEMMA RenameTyped ==
    ASSUME NEW w, NEW c \in Nat, RowsWith(w, c), NEW e \in Event, e.kind = "renamed", NEW g \in Nat, g <= c
    PROVE  RowsWith(Rename(w, e.old, e.path, g), c)
<1> DEFINE v == Rename(w, e.old, e.path, g)
<1>1. /\ e.old \in Trails /\ e.path \in Trails /\ Len(e.path) > 1 /\ Len(e.path) >= 1 /\ e.old # e.path
      /\ RootOf(e.path) \in Roots /\ Len(e.path) \in Nat
  BY EventIs, InsideIs, WithinItself
<1>2. \A p \in DOMAIN w : p \in Trails /\ w[p] \in Row
  BY DEF RowsWith
<1>3. \A p \in DOMAIN v :
          \/ p \in DOMAIN w /\ v[p] = w[p]
          \/ \E q \in DOMAIN w : p \in Trails /\ Within(p, e.path) /\ v[p] = [w[q] EXCEPT !.gen = g]
  BY <1>1, <1>2, RenameIs
<1> HIDE DEF v
<1> SUFFICES ASSUME NEW p \in DOMAIN v
             PROVE  /\ p \in Trails /\ Len(p) > 1 /\ RootOf(p) \in Roots
                    /\ v[p] \in Row /\ v[p].gen <= c
  BY DEF RowsWith, v
<1>4. CASE p \in DOMAIN w /\ v[p] = w[p]
  BY <1>4 DEF RowsWith
<1>5. ASSUME NEW q \in DOMAIN w, p \in Trails, Within(p, e.path), v[p] = [w[q] EXCEPT !.gen = g]
      PROVE  /\ p \in Trails /\ Len(p) > 1 /\ RootOf(p) \in Roots
             /\ v[p] \in Row /\ v[p].gen <= c
  <2>1. RootOf(p) = RootOf(e.path) /\ Len(p) >= Len(e.path) /\ Len(p) \in Nat
    BY <1>1, <1>5, WithinRoot, WithinIs
  <2>2. w[q] \in Row
    BY <1>2
  <2>3. v[p] \in Row /\ v[p].gen = g
    BY <1>5, <2>2 DEF Row
  <2> QED
    BY <1>1, <1>5, <2>1, <2>3
<1> QED
  BY <1>3, <1>4, <1>5

LEMMA TypedAtFirst ==
    ASSUME Init
    PROVE  Typed
<1>1. DiskTyped
  <2>1. PICK held \in SUBSET Inside : disk \in [held -> BOOLEAN]
    BY DEF Init
  <2> QED
    BY <2>1 DEF DiskTyped
<1>2. Placed
  BY <1>1, PlacedAtFirst DEF Init
<1>3. DOMAIN <<>> = {}
  BY NothingFound
<1>4. RowsTyped /\ RootsTyped
  BY <1>3 DEF Init, RowsTyped, RootsTyped
<1>5. WatchedTyped
  <2>1. watched = <<>> /\ watched \in Seq(Roots) /\ Len(watched) = 0 /\ DOMAIN watched = {}
    BY <1>3, EmptySeq DEF Init
  <2> QED
    BY <2>1, CrawledAssumption DEF WatchedTyped, IsInjective
<1>6. QueueTyped
  BY EmptySeq DEF Init, QueueTyped
<1>7. UpsertsTyped
  BY NothingFound DEF Init, UpsertsTyped
<1>8. ClockTyped
  BY DEF Init, ClockTyped
<1>9. CrawlsTyped
  <2>1. Idle \in Crawl /\ Idle.gen = 0
    BY NothingFound DEF Idle, Crawl, Steps
  <2>2. crawls = [r \in Roots |-> Idle] /\ clock = 0
    BY DEF Init
  <2> HIDE DEF Idle
  <2> QED
    BY <2>1, <2>2 DEF CrawlsTyped
<1> QED
  BY <1>1, <1>2, <1>4, <1>5, <1>6, <1>7, <1>8, <1>9 DEF Typed

\* A crawl that becomes something else, with the others as they were.
LEMMA CrawlsTypedOn ==
    ASSUME CrawlsTyped, ClockTyped, NEW r \in Roots, NEW c \in Crawl, Becomes(r, c),
           clock' \in Nat, clock <= clock', c.gen <= clock'
    PROVE  CrawlsTyped'
<1>1. crawls' \in [Roots -> Crawl]
  BY DEF Becomes
<1>2. ASSUME NEW s \in Roots PROVE crawls'[s].gen <= clock'
  <2>1. CASE s = r
    BY <2>1 DEF Becomes
  <2>2. CASE s # r
    <3>1. crawls'[s] = crawls[s]
      BY <2>2 DEF Becomes
    <3>2. crawls[s].gen <= clock /\ crawls[s].gen \in Nat
      BY CrawlIs
    <3> QED
      BY <3>1, <3>2 DEF ClockTyped
  <2> QED
    BY <2>1, <2>2
<1> QED
  BY <1>1, <1>2 DEF CrawlsTyped

LEMMA WatchersTyped ==
    ASSUME Watchers(watched')
    PROVE  WatchedTyped'
  BY DEF Watchers, WatchedTyped

LEMMA SearchTyped ==
    ASSUME Typed, NEW r \in Roots, Searches(r)
    PROVE  Typed'
<1> USE DEF Typed
<1>1. /\ disk' = disk /\ rows' = rows /\ roots' = roots /\ pending' = pending /\ batch' = batch
      /\ batchGen' = batchGen /\ upserts' = upserts /\ clock' = clock
  BY DEF Searches, diskVars, drainVars
<1>2. WatchedTyped'
  <2>1. CASE watched' = watched
    BY <2>1 DEF WatchedTyped
  <2>2. CASE watched' = Touched(r) /\ IsWatched(r)
    BY <2>2, TouchedIs, WatchersTyped
  <2> QED
    BY <2>1, <2>2 DEF Searches
<1>3. CrawlsTyped'
  <2> DEFINE c == [step |-> "attaching", gen |-> 0, todo |-> {}, found |-> <<>>]
  <2>1. CASE crawls' = crawls
    BY <1>1, <2>1 DEF CrawlsTyped
  <2>2. CASE Becomes(r, c)
    <3>1. c \in Crawl /\ c.gen = 0
      BY NothingFound DEF Crawl, Steps
    <3>2. clock' \in Nat /\ clock <= clock' /\ 0 <= clock'
      BY <1>1 DEF ClockTyped
    <3> HIDE DEF c
    <3> QED
      BY <2>2, <3>1, <3>2, CrawlsTypedOn
  <2> QED
    BY <2>1, <2>2, SearchIs
<1>4. DiskTyped' /\ Placed' /\ RowsTyped' /\ RootsTyped' /\ QueueTyped' /\ UpsertsTyped' /\ ClockTyped'
  BY <1>1 DEF DiskTyped, Placed, RowsTyped, RootsTyped, QueueTyped, UpsertsTyped, ClockTyped
<1> QED
  BY <1>2, <1>3, <1>4

LEMMA WatchIs ==
    ASSUME WatchedTyped, NEW r \in Roots, Attaches(r)
    PROVE  Watchers(watched') /\ \A s : Watches(watched', s) => IsWatched(s) \/ s = r
<1>1. CASE IsWatched(r)
  <2>1. watched' = Touched(r)
    BY <1>1 DEF Attaches
  <2> QED
    BY <1>1, <2>1, TouchedIs
<1>2. CASE ~IsWatched(r)
  <2> DEFINE kept == IF Len(watched) >= MaxWatchers THEN Tail(watched) ELSE watched
  <2>1. watched' \in {kept, Append(kept, r)}
    BY <1>2 DEF Attaches
  <2>2. Watchers(kept) /\ Len(kept) < MaxWatchers /\ \A s : Watches(kept, s) => IsWatched(s)
    <3>1. CASE Len(watched) >= MaxWatchers
      BY <3>1, RoomIs
    <3>2. CASE ~(Len(watched) >= MaxWatchers)
      <4>1. Len(watched) \in Nat
        BY LenProperties DEF WatchedTyped
      <4> QED
        BY <3>2, <4>1, CrawledAssumption DEF Watchers, WatchedTyped, Watches, IsWatched
    <3> QED
      BY <3>1, <3>2
  <2> HIDE DEF kept
  <2>3. ~Watches(kept, r)
    BY <1>2, <2>2
  <2>4. Watchers(Append(kept, r)) /\ \A s : Watches(Append(kept, r), s) <=> Watches(kept, s) \/ s = r
    BY <2>2, <2>3, OneMoreWatcher
  <2> QED
    BY <2>1, <2>2, <2>4
<1> QED
  BY <1>1, <1>2

LEMMA CrawlTyped ==
    ASSUME Typed, NEW r \in Roots, CrawlActs(r)
    PROVE  Typed'
<1> USE DEF Typed
<1>1. /\ disk' = disk /\ pending' = pending /\ batch' = batch /\ batchGen' = batchGen /\ upserts' = upserts
      /\ clock' = clock \/ (Begins(r) /\ clock' = clock + 1 /\ rows' = rows)
  BY DEF CrawlActs, Attaches, Begins, Lists, WritesFound, Sweeps, Registers, diskVars, drainVars
<1>2. /\ crawls[r] \in Crawl /\ crawls[r].gen \in Nat /\ crawls[r].gen <= clock
      /\ crawls[r].todo \in SUBSET (Inside \union Roots) /\ crawls[r].found \in Founds
  BY CrawlIs
<1>3. clock' \in Nat /\ clock <= clock' /\ clock \in Nat
  BY <1>1 DEF ClockTyped
<1>4. ClockTyped'
  BY <1>1, <1>3 DEF ClockTyped
<1>5. DiskTyped' /\ Placed' /\ QueueTyped' /\ UpsertsTyped'
  BY <1>1 DEF DiskTyped, Placed, QueueTyped, UpsertsTyped
<1>6. RowsTyped'
  <2>1. RowsWith(rows, clock)
    BY DEF RowsTyped, RowsWith
  <2>2. CASE rows' = rows
    <3>1. RowsWith(rows, clock')
      <4> SUFFICES ASSUME NEW p \in DOMAIN rows PROVE rows[p].gen <= clock'
        BY <2>1 DEF RowsWith
      <4>1. rows[p].gen \in Nat /\ rows[p].gen <= clock
        BY <2>1 DEF RowsWith, Row
      <4> QED
        BY <1>3, <4>1
    <3> QED
      BY <2>2, <3>1 DEF RowsTyped, RowsWith
  <2>3. CASE WritesFound(r)
    <3>1. rows' = UpsertEntries(rows, crawls[r].found, crawls[r].gen) /\ clock' = clock
      BY <2>3, WriteFoundIs DEF WritesFound
    <3>2. RowsWith(UpsertEntries(rows, crawls[r].found, crawls[r].gen), clock)
      BY <1>2, <1>3, <2>1, UpsertTyped
    <3> QED
      BY <3>1, <3>2 DEF RowsTyped, RowsWith
  <2>4. CASE Sweeps(r)
    <3>1. rows' = SweepVanished(rows, r, crawls[r].gen) /\ clock' = clock
      BY <2>4 DEF Sweeps
    <3>2. RowsWith(SweepVanished(rows, r, crawls[r].gen), clock)
      BY <2>1, SweepTyped
    <3> QED
      BY <3>1, <3>2 DEF RowsTyped, RowsWith
  <2> QED
    BY <2>2, <2>3, <2>4 DEF CrawlActs, Attaches, Begins, Lists, Registers
<1>7. RootsTyped'
  <2>1. CASE roots' = roots
    BY <2>1 DEF RootsTyped
  <2>2. CASE Registers(r)
    BY <2>2, RegisterIs DEF RootsTyped
  <2> QED
    BY <2>1, <2>2 DEF CrawlActs, Attaches, Begins, Lists, WritesFound, Sweeps
<1>8. WatchedTyped'
  <2>1. CASE watched' = watched
    BY <2>1 DEF WatchedTyped
  <2>2. CASE Attaches(r)
    BY <2>2, WatchIs, WatchersTyped
  <2> QED
    BY <2>1, <2>2 DEF CrawlActs, Begins, Lists, WritesFound, Sweeps, Registers
<1>9. CrawlsTyped'
  <2>1. \E c : Becomes(r, c) /\ c.gen <= clock'
    <3>1. CASE Attaches(r)
      <4> DEFINE c == [step |-> "queued", gen |-> crawls[r].gen, todo |-> crawls[r].todo, found |-> crawls[r].found]
      <4>1. Becomes(r, c) /\ c.gen = crawls[r].gen
        BY <3>1, AttachIs
      <4> QED
        BY <1>2, <1>3, <4>1
    <3>2. CASE Begins(r)
      <4> DEFINE c == [step |-> "walking", gen |-> clock + 1, todo |-> {r}, found |-> <<>>]
      <4>1. Becomes(r, c) /\ c.gen = clock + 1 /\ clock' = clock + 1
        BY <3>2, BeginIs
      <4> QED
        BY <1>3, <4>1
    <3>3. CASE Lists(r)
      <4>1. PICK dir \in crawls[r].todo :
                Becomes(r, [step |-> "walking", gen |-> crawls[r].gen,
                            todo |-> (crawls[r].todo \ {dir}) \union {p \in ChildrenOf(dir) : disk[p]},
                            found |-> Over(AsRows(ChildrenOf(dir)), crawls[r].found)])
        BY <3>3, ListIs
      <4> DEFINE c == [step |-> "walking", gen |-> crawls[r].gen,
                       todo |-> (crawls[r].todo \ {dir}) \union {p \in ChildrenOf(dir) : disk[p]},
                       found |-> Over(AsRows(ChildrenOf(dir)), crawls[r].found)]
      <4>2. Becomes(r, c) /\ c.gen = crawls[r].gen
        BY <4>1
      <4> HIDE DEF c
      <4> QED
        BY <1>2, <1>3, <4>2
    <3>4. CASE WritesFound(r)
      <4>1. PICK step \in {"walking", "written"} :
                Becomes(r, [step |-> step, gen |-> crawls[r].gen, todo |-> crawls[r].todo, found |-> <<>>])
        BY <3>4, WriteFoundIs
      <4> DEFINE c == [step |-> step, gen |-> crawls[r].gen, todo |-> crawls[r].todo, found |-> <<>>]
      <4>2. Becomes(r, c) /\ c.gen = crawls[r].gen
        BY <4>1
      <4> QED
        BY <1>2, <1>3, <4>2
    <3>5. CASE Sweeps(r)
      <4> DEFINE c == [step |-> "swept", gen |-> crawls[r].gen, todo |-> crawls[r].todo, found |-> crawls[r].found]
      <4>1. Becomes(r, c) /\ c.gen = crawls[r].gen
        BY <3>5, SweepIs
      <4> QED
        BY <1>2, <1>3, <4>1
    <3>6. CASE Registers(r)
      <4> DEFINE c == [step |-> "none", gen |-> 0, todo |-> {}, found |-> <<>>]
      <4>1. Becomes(r, c) /\ c.gen = 0
        BY <3>6, RegisterIs
      <4> QED
        BY <1>3, <4>1
    <3> QED
      BY <3>1, <3>2, <3>3, <3>4, <3>5, <3>6 DEF CrawlActs
  <2>2. PICK c : Becomes(r, c) /\ c.gen <= clock'
    BY <2>1
  <2>3. c \in Crawl
    BY <2>2 DEF Becomes
  <2> QED
    BY <1>3, <2>2, <2>3, CrawlsTypedOn
<1> QED
  BY <1>4, <1>5, <1>6, <1>7, <1>8, <1>9

LEMMA FailTyped ==
    ASSUME Typed, NEW r \in Roots, WatcherFails(r)
    PROVE  Typed'
<1> USE DEF Typed
<1>1. /\ disk' = disk /\ rows' = rows /\ pending' = pending /\ batch' = batch /\ crawls' = crawls
      /\ batchGen' = batchGen /\ upserts' = upserts /\ clock' = clock
      /\ watched' = Unwatched(r) /\ roots' = Staled(r)
  BY DEF WatcherFails, diskVars, drainVars
<1>2. WatchedTyped'
  BY <1>1, UnwatchedIs, WatchersTyped
<1>3. RootsTyped'
  BY <1>1 DEF RootsTyped, Staled
<1>4. DiskTyped' /\ Placed' /\ RowsTyped' /\ QueueTyped' /\ UpsertsTyped' /\ ClockTyped' /\ CrawlsTyped'
  BY <1>1 DEF DiskTyped, Placed, RowsTyped, CrawlsTyped, QueueTyped, UpsertsTyped, ClockTyped
<1> QED
  BY <1>2, <1>3, <1>4

LEMMA FlushTyped ==
    ASSUME Typed
    PROVE  RowsWith(Flushed, clock)
<1>1. RowsWith(rows, clock) /\ upserts \in Founds /\ batchGen \in Nat /\ batchGen <= clock /\ clock \in Nat
  BY DEF Typed, RowsTyped, RowsWith, UpsertsTyped, ClockTyped
<1> QED
  BY <1>1, UpsertTyped DEF Flushed

LEMMA DrainTyped ==
    ASSUME Typed, DrainActs
    PROVE  Typed'
<1> USE DEF Typed
<1>1. /\ disk' = disk /\ watched' = watched /\ crawls' = crawls /\ clock' = clock
  BY DEF DrainActs, Drains, ApplyNext, FlushesLast, diskVars
<1>2. DiskTyped' /\ Placed' /\ WatchedTyped' /\ CrawlsTyped'
  BY <1>1 DEF DiskTyped, Placed, WatchedTyped, CrawlsTyped
<1>3. CASE Drains
  <2>1. rows' = rows /\ roots' = roots /\ upserts' = upserts /\ batch' = pending /\ pending' = <<>> /\ batchGen' = clock
    BY <1>3 DEF Drains
  <2>2. QueueTyped'
    BY <2>1, EmptySeq DEF QueueTyped
  <2>3. RowsTyped' /\ RootsTyped' /\ UpsertsTyped' /\ ClockTyped'
    BY <1>1, <2>1 DEF RowsTyped, RootsTyped, UpsertsTyped, ClockTyped
  <2> QED
    BY <1>2, <2>2, <2>3
<1>4. CASE FlushesLast
  <2>1. rows' = Flushed /\ roots' = roots /\ upserts' = <<>> /\ batch' = batch /\ pending' = pending /\ batchGen' = batchGen
    BY <1>4 DEF FlushesLast
  <2>2. RowsTyped'
    BY <1>1, <2>1, FlushTyped DEF RowsTyped, RowsWith
  <2>3. QueueTyped' /\ RootsTyped' /\ UpsertsTyped' /\ ClockTyped'
    BY <1>1, <2>1, NothingFound DEF QueueTyped, RootsTyped, UpsertsTyped, ClockTyped
  <2> QED
    BY <1>2, <2>2, <2>3
<1>5. CASE ApplyNext
  <2> DEFINE c == Head(batch)
  <2>1. batch \in Seq(Event) /\ batch # <<>> /\ batch' = Tail(batch) /\ pending' = pending /\ batchGen' = batchGen
    BY <1>5 DEF ApplyNext, QueueTyped
  <2>2. c \in Event /\ QueueTyped'
    BY <2>1, HeadTailProperties DEF QueueTyped
  <2>3. ClockTyped'
    BY <1>1, <2>1 DEF ClockTyped
  <2>4. RootsTyped'
    <3>1. roots' = roots \/ roots' = Staled(RootOf(Head(batch).path))
      BY <1>5 DEF ApplyNext
    <3> QED
      BY <3>1 DEF RootsTyped, Staled
  <2>5. RowsWith(rows, clock) /\ clock \in Nat /\ batchGen \in Nat /\ batchGen <= clock /\ upserts \in Founds
    BY DEF RowsTyped, RowsWith, ClockTyped, UpsertsTyped
  <2> HIDE DEF c
  <2>6. RowsWith(rows', clock) /\ upserts' \in Founds
    <3>1. CASE rows' = rows /\ upserts' = upserts
      BY <2>5, <3>1
    <3>2. CASE AppliesUpsert(c)
      <4>1. CASE c.path \in DOMAIN disk
        <5> DEFINE paths == IF c.kind = "created" THEN Below(c.path) ELSE {c.path}
        <5>1. upserts' = Over(AsRows(paths), upserts) /\ rows' = rows
          BY <3>2, <4>1 DEF AppliesUpsert
        <5>2. paths \in SUBSET DOMAIN disk
          BY <4>1 DEF Below
        <5> HIDE DEF paths
        <5> QED
          BY <2>5, <5>1, <5>2, FoundsGrow
      <4>2. CASE c.path \notin DOMAIN disk
        BY <2>5, <3>2, <4>2, DeleteTyped DEF AppliesUpsert
      <4> QED
        BY <4>1, <4>2
    <3>3. CASE AppliesRemoval(c)
      <4>1. RowsWith(Flushed, clock)
        BY FlushTyped
      <4>2. c.kind = "deleted" => RowsWith(DeleteSubtree(Flushed, c.path), clock)
        BY <4>1, DeleteTyped
      <4>3. c.kind = "renamed" => RowsWith(Rename(Flushed, c.old, c.path, batchGen), clock)
        BY <2>2, <2>5, <4>1, RenameTyped
      <4> QED
        BY <3>3, <4>2, <4>3, NothingFound DEF AppliesRemoval
    <3> QED
      BY <1>5, <3>1, <3>2, <3>3 DEF ApplyNext, c
  <2>7. RowsTyped' /\ UpsertsTyped'
    BY <1>1, <2>6 DEF RowsTyped, RowsWith, UpsertsTyped
  <2> QED
    BY <1>2, <2>2, <2>3, <2>4, <2>7
<1> QED
  BY <1>3, <1>4, <1>5 DEF DrainActs

LEMMA RestartTyped ==
    ASSUME Typed, Restarts
    PROVE  Typed'
<1> USE DEF Typed
<1>1. /\ disk' = disk /\ rows' = rows /\ roots' = roots /\ clock' = clock
      /\ watched' = <<>> /\ pending' = <<>> /\ batch' = <<>> /\ upserts' = <<>> /\ batchGen' = 0
      /\ crawls' = [r \in Roots |-> Idle]
  BY DEF Restarts, diskVars
<1>2. DOMAIN <<>> = {}
  BY NothingFound
<1>3. WatchedTyped'
  <2>1. <<>> \in Seq(Roots) /\ Len(<<>>) = 0
    BY EmptySeq
  <2> QED
    BY <1>1, <1>2, <2>1, CrawledAssumption DEF WatchedTyped, IsInjective
<1>4. QueueTyped'
  BY <1>1, EmptySeq DEF QueueTyped
<1>5. CrawlsTyped'
  <2>1. Idle \in Crawl /\ Idle.gen = 0
    BY NothingFound DEF Idle, Crawl, Steps
  <2>2. crawls' = [r \in Roots |-> Idle] /\ clock' \in Nat
    BY <1>1 DEF ClockTyped
  <2> HIDE DEF Idle
  <2> QED
    BY <2>1, <2>2 DEF CrawlsTyped
<1>6. UpsertsTyped' /\ DiskTyped' /\ Placed' /\ RowsTyped' /\ RootsTyped' /\ ClockTyped'
  BY <1>1, NothingFound DEF UpsertsTyped, DiskTyped, Placed, RowsTyped, RootsTyped, ClockTyped
<1> QED
  BY <1>3, <1>4, <1>5, <1>6

LEMMA TypedNext ==
    ASSUME Typed, [Next]_vars
    PROVE  Typed'
<1>1. CASE ProgramsAct
  <2>1. DiskTyped' /\ Placed' /\ QueueTyped'
    BY <1>1, ProgramsTyped
  <2>2. /\ rows' = rows /\ roots' = roots /\ watched' = watched /\ batchGen' = batchGen /\ upserts' = upserts
        /\ crawls' = crawls /\ clock' = clock
    BY <1>1 DEF ProgramsAct, Creates, Writes, Deletes, Moves, Changed
  <2>3. RowsTyped' /\ RootsTyped' /\ WatchedTyped' /\ UpsertsTyped' /\ CrawlsTyped' /\ ClockTyped'
    BY <2>2 DEF Typed, RowsTyped, RootsTyped, WatchedTyped, UpsertsTyped, CrawlsTyped, ClockTyped
  <2> QED
    BY <2>1, <2>3 DEF Typed
<1>2. CASE UNCHANGED vars
  BY <1>2 DEF vars, diskVars, drainVars, Typed, DiskTyped, Placed, RowsTyped, RootsTyped, WatchedTyped,
              QueueTyped, UpsertsTyped, CrawlsTyped, ClockTyped
<1> QED
  BY <1>1, <1>2, SearchTyped, CrawlTyped, FailTyped, DrainTyped, RestartTyped DEF Next

LEMMA TypedIsTypeOK ==
    ASSUME Typed
    PROVE  TypeOK
<1>1. DOMAIN disk \subseteq Inside /\ RowsTypeOK(rows) /\ DOMAIN roots \subseteq Roots
  BY DEF Typed, DiskTyped, RowsTyped, RowsTypeOK, RootsTyped, Trails
<1>2. \A p \in DOMAIN rows : \E r \in Roots : Under(p, r)
  BY UnderRoot DEF Typed, RowsTyped
<1>3. IsInjective(watched) /\ Range(watched) \subseteq Roots /\ Len(watched) <= MaxWatchers
  <2>1. watched \in Seq(Roots) /\ IsInjective(watched) /\ Len(watched) <= MaxWatchers
    BY DEF Typed, WatchedTyped
  <2>2. Range(watched) \subseteq Roots
    BY <2>1, RangeOfSeq
  <2> QED
    BY <2>1, <2>2
<1>4. \A r \in Roots : crawls[r].step \in Steps /\ crawls[r].gen <= clock
  BY CrawlIs DEF Typed
<1> QED
  BY <1>1, <1>2, <1>3, <1>4 DEF TypeOK

\* The rows are of entries below roots, no generation is one that is still to come, and there
\* are never more watchers than there may be, nor two of one root: IndexWatcherService::watch
\* makes room before it adds one, and whoever writes rows (crawl, drain, rename) writes below
\* the root it is about.
THEOREM TypeCorrect == Spec => []TypeOK
<1>1. Init => Typed
  BY TypedAtFirst
<1>2. Typed /\ [Next]_vars => Typed'
  BY TypedNext
<1>3. Typed => TypeOK
  BY TypedIsTypeOK
<1> QED
  BY <1>1, <1>2, <1>3, PTL DEF Spec

--------------------------------------------------------------------------------
(* What is known, and what the drain does to it. *)

LEMMA KnownIs ==
    /\ DOMAIN Known = DOMAIN upserts \union DOMAIN rows
    /\ \A p \in DOMAIN upserts : Known[p] = upserts[p].folder
    /\ \A p \in DOMAIN rows : p \notin DOMAIN upserts => Known[p] = rows[p].folder
  BY DEF Known, KnownOf

LEMMA KnownThen ==
    /\ DOMAIN Known' = DOMAIN upserts' \union DOMAIN rows'
    /\ \A p \in DOMAIN upserts' : Known'[p] = upserts'[p].folder
    /\ \A p \in DOMAIN rows' : p \notin DOMAIN upserts' => Known'[p] = rows'[p].folder
  BY DEF Known, KnownOf

LEMMA FlushedIs ==
    ASSUME Typed
    PROVE  /\ DOMAIN Flushed = DOMAIN upserts \union DOMAIN rows /\ DOMAIN Flushed = DOMAIN Known
           /\ \A p \in DOMAIN Flushed : Flushed[p] \in Row /\ p \in Trails /\ Flushed[p].folder = Known[p]
           /\ \A p \in DOMAIN upserts : Flushed[p].folder = upserts[p].folder /\ Flushed[p].gen = batchGen
           /\ \A p \in DOMAIN rows : p \notin DOMAIN upserts => Flushed[p] = rows[p]
<1>1. /\ DOMAIN Flushed = DOMAIN rows \union DOMAIN upserts
      /\ \A p \in DOMAIN upserts : Flushed[p] = [folder |-> upserts[p].folder, hidden |-> upserts[p].hidden,
                                                 gen |-> batchGen]
      /\ \A p \in DOMAIN rows : p \notin DOMAIN upserts => Flushed[p] = rows[p]
  BY DEF Flushed, UpsertEntries
<1>2. /\ DOMAIN Known = DOMAIN upserts \union DOMAIN rows
      /\ \A p \in DOMAIN upserts : Known[p] = upserts[p].folder
      /\ \A p \in DOMAIN rows : p \notin DOMAIN upserts => Known[p] = rows[p].folder
  BY KnownIs
<1>3. \A p \in DOMAIN Flushed : Flushed[p] \in Row /\ p \in Trails
  BY FlushTyped DEF RowsWith
<1>4. \A p \in DOMAIN upserts : Flushed[p].folder = upserts[p].folder /\ Flushed[p].gen = batchGen
  BY <1>1
<1> QED
  BY <1>1, <1>2, <1>3, <1>4

LEMMA CollectedApplies ==
    ASSUME Typed, NEW c \in Event, AppliesUpsert(c), c.path \in DOMAIN disk
    PROVE  /\ Applying(c, disk, Known, Known') /\ rows' = rows
           /\ \A p \in Trails : p \in DOMAIN upserts' <=> p \in DOMAIN upserts \/ (p \in DOMAIN disk /\ Gives(c, p))
           /\ \A p \in DOMAIN disk : Gives(c, p) => upserts'[p].folder = disk[p]
           /\ \A p \in DOMAIN upserts : ~(p \in DOMAIN disk /\ Gives(c, p)) => upserts'[p] = upserts[p]
<1> DEFINE paths == IF c.kind = "created" THEN Below(c.path) ELSE {c.path}
<1>1. upserts' = Over(AsRows(paths), upserts) /\ rows' = rows /\ c.kind \in {"created", "changed"}
  BY DEF AppliesUpsert
<1>2. c.path \in Trails /\ \A p \in DOMAIN disk : p \in Trails
  BY EventIs, ThereIs DEF Typed
<1>3. \A p : p \in paths <=> p \in DOMAIN disk /\ Gives(c, p)
  <2>1. CASE c.kind = "created"
    BY <2>1 DEF Below, Gives
  <2>2. CASE c.kind = "changed"
    BY <2>2 DEF Gives
  <2> QED
    BY <1>1, <2>1, <2>2
<1> HIDE DEF paths
<1>13. upserts' = [p \in DOMAIN AsRows(paths) \union DOMAIN upserts |->
                       IF p \in DOMAIN AsRows(paths) THEN AsRows(paths)[p] ELSE upserts[p]]
  BY <1>1 DEF Over
<1>14. /\ DOMAIN AsRows(paths) = paths
       /\ \A p \in paths : AsRows(paths)[p].folder = disk[p]
  BY AsRowsIs
<1>4. /\ DOMAIN upserts' = paths \union DOMAIN upserts
      /\ \A p \in paths : upserts'[p] = AsRows(paths)[p] /\ AsRows(paths)[p].folder = disk[p]
      /\ \A p \in DOMAIN upserts : p \notin paths => upserts'[p] = upserts[p]
  BY <1>13, <1>14
<1>5. /\ DOMAIN Known = DOMAIN upserts \union DOMAIN rows
      /\ \A p \in DOMAIN upserts : Known[p] = upserts[p].folder
      /\ \A p \in DOMAIN rows : p \notin DOMAIN upserts => Known[p] = rows[p].folder
  BY KnownIs
<1> DEFINE m == Known'
<1>6. /\ DOMAIN m = DOMAIN upserts' \union DOMAIN rows
      /\ \A p \in DOMAIN upserts' : m[p] = upserts'[p].folder
      /\ \A p \in DOMAIN rows : p \notin DOMAIN upserts' => m[p] = rows[p].folder
  BY <1>1, KnownThen
<1> HIDE DEF m
<1>7. \A p \in paths : p \in DOMAIN m /\ m[p] = disk[p]
  BY <1>4, <1>6
<1>8. \A p : p \notin paths => (p \in DOMAIN m <=> p \in DOMAIN Known) /\ (p \in DOMAIN m => m[p] = Known[p])
  BY <1>4, <1>5, <1>6
<1>9. \A p : ~Takes(c, p) /\ ~Brings(c, p) /\ (Gives(c, p) => Within(p, c.path) \/ p = c.path)
  BY <1>1 DEF Takes, Brings, Gives
<1>10. Within(c.path, c.path)
  BY <1>2, WithinItself
<1>11. Applying(c, disk, Known, m)
  BY <1>3, <1>7, <1>8, <1>9, <1>10 DEF Applying
<1>12. Known' = m
  BY DEF m
<1> QED
  BY <1>1, <1>3, <1>4, <1>11, <1>12

LEMMA MissingApplies ==
    ASSUME Typed, NEW c \in Event, AppliesUpsert(c), c.path \notin DOMAIN disk
    PROVE  /\ Applying(c, disk, Known, Known') /\ upserts' = upserts
           /\ \A p : p \in DOMAIN rows' <=> p \in DOMAIN rows /\ ~Within(p, c.path)
           /\ \A p \in DOMAIN rows' : rows'[p] = rows[p]
<1>1. upserts' = upserts /\ rows' = DeleteSubtree(rows, c.path) /\ c.kind \in {"created", "changed"}
  BY DEF AppliesUpsert
<1>2. /\ \A p : p \in DOMAIN rows' <=> p \in DOMAIN rows /\ ~Within(p, c.path)
      /\ \A p \in DOMAIN rows' : rows'[p] = rows[p]
  BY <1>1, DeleteIs
<1>3. /\ DOMAIN Known = DOMAIN upserts \union DOMAIN rows
      /\ \A p \in DOMAIN upserts : Known[p] = upserts[p].folder
      /\ \A p \in DOMAIN rows : p \notin DOMAIN upserts => Known[p] = rows[p].folder
  BY KnownIs
<1> DEFINE m == Known'
<1>4. /\ DOMAIN m = DOMAIN upserts \union DOMAIN rows'
      /\ \A p \in DOMAIN upserts : m[p] = upserts[p].folder
      /\ \A p \in DOMAIN rows' : p \notin DOMAIN upserts => m[p] = rows'[p].folder
  BY <1>1, KnownThen
<1> HIDE DEF m
<1>5. \A p : /\ p \in DOMAIN m => p \in DOMAIN Known /\ m[p] = Known[p]
             /\ p \in DOMAIN Known /\ ~Within(p, c.path) => p \in DOMAIN m
  BY <1>2, <1>3, <1>4
\* What is below a path that is not there is not there either.
<1>6. ASSUME NEW p \in DOMAIN disk PROVE ~Within(p, c.path)
  <2>1. p \in Trails /\ c.path \in Trails /\ Len(c.path) > 1 /\ p # c.path
    BY EventIs, ThereIs DEF Typed
  <2> QED
    BY <2>1 DEF Typed, Placed
<1>7. \A p : ~Takes(c, p) /\ ~Brings(c, p)
  BY <1>1 DEF Takes, Brings
<1>8. \A p \in DOMAIN disk : ~Gives(c, p)
  BY <1>6 DEF Gives
<1>9. Applying(c, disk, Known, m)
  BY <1>5, <1>6, <1>7, <1>8 DEF Applying
<1>10. Known' = m
  BY DEF m
<1> QED
  BY <1>1, <1>2, <1>9, <1>10

LEMMA DeletionApplies ==
    ASSUME Typed, NEW c \in Event, AppliesRemoval(c), c.kind = "deleted"
    PROVE  /\ Applying(c, disk, Known, Known') /\ upserts' = <<>>
           /\ \A p : p \in DOMAIN rows' <=> p \in DOMAIN Flushed /\ ~Within(p, c.path)
           /\ \A p \in DOMAIN rows' : rows'[p] = Flushed[p]
<1>1. upserts' = <<>> /\ rows' = DeleteSubtree(Flushed, c.path)
  BY DEF AppliesRemoval
<1>2. /\ \A p : p \in DOMAIN rows' <=> p \in DOMAIN Flushed /\ ~Within(p, c.path)
      /\ \A p \in DOMAIN rows' : rows'[p] = Flushed[p]
  BY <1>1, DeleteIs
<1>3. DOMAIN Flushed = DOMAIN Known /\ \A p \in DOMAIN Flushed : Flushed[p].folder = Known[p]
  BY FlushedIs
<1> DEFINE m == Known'
<1>4. DOMAIN m = DOMAIN rows' /\ \A p \in DOMAIN rows' : m[p] = rows'[p].folder
  BY <1>1, KnownThen, NothingFound
<1> HIDE DEF m
<1>5. \A p : /\ p \in DOMAIN m <=> p \in DOMAIN Known /\ ~Within(p, c.path)
             /\ p \in DOMAIN m => m[p] = Known[p]
  BY <1>2, <1>3, <1>4
<1>6. \A p : (Takes(c, p) <=> Within(p, c.path)) /\ ~Brings(c, p) /\ ~Gives(c, p)
  BY DEF Takes, Brings, Gives
<1>7. Applying(c, disk, Known, m)
  BY <1>5, <1>6 DEF Applying
<1>8. Known' = m
  BY DEF m
<1> QED
  BY <1>1, <1>2, <1>7, <1>8

LEMMA RenameApplies ==
    ASSUME Typed, NEW c \in Event, AppliesRemoval(c), c.kind = "renamed"
    PROVE  /\ Applying(c, disk, Known, Known') /\ upserts' = <<>>
           /\ \A p \in DOMAIN rows' : \/ p \in DOMAIN Flushed /\ rows'[p] = Flushed[p]
                                      \/ p \in Trails /\ Within(p, c.path)
           /\ \A p \in DOMAIN Flushed : ~Within(p, c.path) /\ ~Within(p, c.old)
                                            => p \in DOMAIN rows' /\ rows'[p] = Flushed[p]
<1>1. upserts' = <<>> /\ rows' = Rename(Flushed, c.old, c.path, batchGen)
  BY DEF AppliesRemoval
<1>2. /\ c.old \in Trails /\ c.path \in Trails /\ c.old # c.path
      /\ \A p \in DOMAIN Flushed : p \in Trails /\ Flushed[p] \in Row
  BY EventIs, WithinItself, FlushedIs
<1>3. /\ \A p \in DOMAIN rows' :
             \/ p \in DOMAIN Flushed /\ ~Within(p, c.path) /\ ~Within(p, c.old) /\ rows'[p] = Flushed[p]
             \/ \E q \in DOMAIN Flushed : /\ Within(q, c.old) /\ p = Rebased(q, c.old, c.path)
                                          /\ q = Rebased(p, c.path, c.old) /\ ~Within(q, c.path)
                                          /\ p \in Trails /\ Within(p, c.path)
                                          /\ rows'[p] = [Flushed[q] EXCEPT !.gen = batchGen]
      /\ \A p \in DOMAIN Flushed : ~Within(p, c.path) /\ ~Within(p, c.old) => p \in DOMAIN rows'
      /\ \A q \in DOMAIN Flushed : Within(q, c.old) /\ ~Within(q, c.path) => Rebased(q, c.old, c.path) \in DOMAIN rows'
  BY <1>1, <1>2, RenameIs
<1>4. DOMAIN Flushed = DOMAIN Known /\ \A p \in DOMAIN Flushed : Flushed[p].folder = Known[p]
  BY FlushedIs
<1>5. \A p \in DOMAIN rows' :
          \/ p \in DOMAIN Flushed /\ ~Within(p, c.path) /\ ~Within(p, c.old) /\ rows'[p] = Flushed[p]
          \/ /\ p \in Trails /\ Within(p, c.path) /\ Source(c, p) \in DOMAIN Flushed
             /\ rows'[p].folder = Flushed[Source(c, p)].folder
  <2> TAKE p \in DOMAIN rows'
  <2>1. ASSUME NEW q \in DOMAIN Flushed, q = Rebased(p, c.path, c.old), p \in Trails, Within(p, c.path),
               rows'[p] = [Flushed[q] EXCEPT !.gen = batchGen]
        PROVE  /\ Source(c, p) \in DOMAIN Flushed
               /\ rows'[p].folder = Flushed[Source(c, p)].folder
    <3>1. Flushed[q] \in Row /\ q = Source(c, p)
      BY <1>2, <2>1 DEF Source
    <3>2. rows'[p].folder = Flushed[q].folder
      BY <2>1, <3>1 DEF Row
    <3> QED
      BY <3>1, <3>2
  <2> QED
    BY <1>3, <2>1
<1> DEFINE m == Known'
<1>6. DOMAIN m = DOMAIN rows' /\ \A p \in DOMAIN rows' : m[p] = rows'[p].folder
  BY <1>1, KnownThen, NothingFound
<1> HIDE DEF m
<1>7. ASSUME NEW p \in Trails
      PROVE  /\ Brings(c, p) <=> Within(p, c.path)
             /\ Takes(c, p) <=> Within(p, c.path) \/ Within(p, c.old)
             /\ ~Gives(c, p)
  BY DEF Takes, Brings, Gives
<1>8. ASSUME NEW p \in Trails, ~Within(p, c.path)
      PROVE  /\ p \in DOMAIN m <=> p \in DOMAIN Known /\ ~Within(p, c.old)
             /\ p \in DOMAIN m => m[p] = Known[p]
  BY <1>3, <1>4, <1>5, <1>6, <1>8
<1>9. ASSUME NEW p \in Trails, Within(p, c.path)
      PROVE  /\ p \in DOMAIN m <=> Source(c, p) \in DOMAIN Known
             /\ p \in DOMAIN m => m[p] = Known[Source(c, p)]
  <2>1. ASSUME p \in DOMAIN m PROVE Source(c, p) \in DOMAIN Known /\ m[p] = Known[Source(c, p)]
    BY <1>4, <1>5, <1>6, <1>9, <2>1
  <2>2. ASSUME Source(c, p) \in DOMAIN Known PROVE p \in DOMAIN m
    <3>1. /\ Within(Source(c, p), c.old) /\ Rebased(Source(c, p), c.old, c.path) = p
          /\ ~Within(Source(c, p), c.path)
      BY <1>7, <1>9, SourceIs
    <3> QED
      BY <1>3, <1>4, <1>6, <2>2, <3>1
  <2> QED
    BY <2>1, <2>2
<1>10. Applying(c, disk, Known, m)
  BY <1>7, <1>8, <1>9 DEF Applying
<1>11. Known' = m
  BY DEF m
<1> QED
  BY <1>1, <1>3, <1>5, <1>10, <1>11


--------------------------------------------------------------------------------
(* What is true of one root, and that it stays so while others are at work. *)

RootTruth(r) ==
    /\ Fresh(r) /\ crawls[r].step = "none" => InStepWith(Queue, Known, disk, r)
    /\ InSlot(r) => SoundWith(Queue, disk, r) /\ CrawlOrder(r)
    /\ InSlot(r) /\ IsWatched(r) => WholeWith(Queue, disk, r)

QueueTruth == Queue \in Seq(Event) /\ RenamesFirst(Queue)

LEMMA TruthIs == InTruth <=> QueueTruth /\ \A r \in Roots : RootTruth(r)
  BY DEF InTruth, Told, QueueTruth, RootTruth

LEMMA InStepSame ==
    ASSUME NEW q \in Seq(Event), NEW k, NEW m, NEW d, NEW r \in Roots, InStepWith(q, k, d, r),
           \A p \in Trails : Under(p, r) => /\ p \in DOMAIN m <=> p \in DOMAIN k
                                            /\ p \in DOMAIN k => m[p] = k[p]
    PROVE  InStepWith(q, m, d, r)
<1> SUFFICES ASSUME NEW p \in Trails, Under(p, r) PROVE WillBe(q, m, d, p)
  BY DEF InStepWith
<1>1. WillBe(q, k, d, p)
  BY DEF InStepWith
<1>2. (p \in DOMAIN m <=> p \in DOMAIN k) /\ (p \in DOMAIN k => m[p] = k[p])
  OBVIOUS
<1>3. ASSUME NEW i \in DOMAIN q
      PROVE  /\ Brought(q, m, p, i) <=> Brought(q, k, p, i)
             /\ Brought(q, k, p, i) => m[Source(q[i], p)] = k[Source(q[i], p)]
  <2>1. q[i] \in Event
    BY LenProperties, ElementOfSeq
  <2>2. ASSUME Brings(q[i], p)
        PROVE  /\ Source(q[i], p) \in DOMAIN m <=> Source(q[i], p) \in DOMAIN k
               /\ Source(q[i], p) \in DOMAIN k => m[Source(q[i], p)] = k[Source(q[i], p)]
    <3>1. Source(q[i], p) \in Trails /\ Len(Source(q[i], p)) > 1 /\ RootOf(Source(q[i], p)) = RootOf(p)
      BY <2>1, <2>2, SourceIs
    <3>2. Under(Source(q[i], p), r)
      BY <3>1, UnderRoot
    <3> QED
      BY <3>1, <3>2
  <2> QED
    BY <2>2 DEF Brought
<1>4. Kept(q, m, p) <=> Kept(q, k, p)
  BY <1>2 DEF Kept
<1>5. ASSUME Kept(q, k, p), k[p] = d[p] PROVE Kept(q, m, p) /\ m[p] = d[p]
  BY <1>2, <1>4, <1>5 DEF Kept
<1>6. ASSUME NEW i \in DOMAIN q, Brought(q, k, p, i), k[Source(q[i], p)] = d[p]
      PROVE  Brought(q, m, p, i) /\ m[Source(q[i], p)] = d[p]
  BY <1>3, <1>6
<1> QED
  BY <1>1, <1>3, <1>4, <1>5, <1>6 DEF WillBe

LEMMA Bystander ==
    ASSUME NEW r \in Roots, RootTruth(r), QueueTruth, RowsTyped',
           batch' = batch, pending' = pending, upserts' = upserts, batchGen' = batchGen, disk' = disk,
           \A p \in DOMAIN disk : p \in Trails,
           crawls'[r] = crawls[r], Fresh(r)' => Fresh(r), IsWatched(r)' => IsWatched(r),
           \A p \in Trails : Under(p, r) => /\ p \in DOMAIN rows' <=> p \in DOMAIN rows
                                            /\ p \in DOMAIN rows => rows'[p] = rows[p]
    PROVE  RootTruth(r)'
<1>1. Queue' = Queue /\ (InSlot(r)' <=> InSlot(r)) /\ \A p \in DOMAIN rows' : p \in Trails
  BY DEF Queue, InSlot, RowsTyped
<1>2. ASSUME Fresh(r)', crawls'[r].step = "none" PROVE InStepWith(Queue', Known', disk', r)
  <2>1. InStepWith(Queue, Known, disk, r) /\ Queue \in Seq(Event)
    BY <1>2 DEF RootTruth, QueueTruth
  <2>2. ASSUME NEW p \in Trails, Under(p, r)
        PROVE  (p \in DOMAIN Known' <=> p \in DOMAIN Known) /\ (p \in DOMAIN Known => Known'[p] = Known[p])
    BY <2>2, KnownIs, KnownThen
  <2>3. InStepWith(Queue, Known', disk, r)
    BY <2>1, <2>2, InStepSame
  <2> QED
    BY <1>1, <2>3
<1>3. ASSUME InSlot(r)' PROVE SoundWith(Queue, disk, r)'
  <2>1. SoundWith(Queue, disk, r)
    BY <1>1, <1>3 DEF RootTruth
  <2> QED
    BY <1>1, <2>1 DEF SoundWith
<1>4. ASSUME InSlot(r)' PROVE CrawlOrder(r)'
  <2>1. CrawlOrder(r)
    BY <1>1, <1>4 DEF RootTruth
  <2> QED
    BY <1>1, <2>1 DEF CrawlOrder
<1>5. ASSUME InSlot(r)', IsWatched(r)' PROVE WholeWith(Queue, disk, r)'
  <2>1. WholeWith(Queue, disk, r)
    BY <1>1, <1>5 DEF RootTruth
  <2> QED
    BY <1>1, <1>5, <2>1 DEF WholeWith
<1> QED
  BY <1>1, <1>2, <1>3, <1>4, <1>5 DEF RootTruth

LEMMA NotAtWork ==
    ASSUME NEW r \in Roots, crawls'[r].step \in {"attaching", "queued"}
    PROVE  RootTruth(r)'
  BY DEF RootTruth, InSlot

--------------------------------------------------------------------------------
(* Searches, watchers that fail, and the roots a crawl is not about. *)

LEMMA OneRoot ==
    ASSUME NEW r \in Roots, NEW s \in Roots, NEW p \in Trails, Under(p, r), Under(p, s)
    PROVE  r = s
  BY UnderRoot

LEMMA WatchedThen ==
    ASSUME NEW r, IsWatched(r)'
    PROVE  Watches(watched', r)
  BY DEF IsWatched, Watches

LEMMA SearchTruth ==
    ASSUME Typed, Typed', QueueTruth, NEW r \in Roots, Searches(r), NEW s \in Roots, RootTruth(s)
    PROVE  RootTruth(s)'
<1>1. /\ disk' = disk /\ rows' = rows /\ roots' = roots /\ pending' = pending /\ batch' = batch
      /\ batchGen' = batchGen /\ upserts' = upserts
      /\ watched' = watched \/ (watched' = Touched(r) /\ IsWatched(r))
  BY DEF Searches, diskVars, drainVars
<1>2. IsWatched(s)' => IsWatched(s)
  <2>1. CASE watched' = watched
    BY <2>1 DEF IsWatched
  <2>2. CASE watched' = Touched(r) /\ IsWatched(r)
    BY <2>2, TouchedIs, WatchedThen DEF Typed
  <2> QED
    BY <1>1, <2>1, <2>2
<1>3. Fresh(s)' => Fresh(s)
  BY <1>1, <1>2 DEF Fresh
<1>4. RowsTyped' /\ (\A p \in DOMAIN disk : p \in Trails) /\ CrawlsTyped
  BY InsideIs DEF Typed, DiskTyped
<1>5. CASE crawls'[s] = crawls[s]
  BY <1>1, <1>2, <1>3, <1>4, <1>5, Bystander
<1>6. CASE crawls'[s] # crawls[s]
  <2>1. s = r /\ crawls'[s].step = "attaching"
    BY <1>4, <1>6, SearchIs DEF Becomes
  <2> QED
    BY <2>1, NotAtWork
<1> QED
  BY <1>5, <1>6

LEMMA FailTruth ==
    ASSUME Typed, Typed', QueueTruth, NEW r \in Roots, WatcherFails(r), NEW s \in Roots, RootTruth(s)
    PROVE  RootTruth(s)'
<1>1. /\ disk' = disk /\ rows' = rows /\ pending' = pending /\ batch' = batch /\ crawls' = crawls
      /\ batchGen' = batchGen /\ upserts' = upserts
      /\ watched' = Unwatched(r) /\ roots' = Staled(r)
  BY DEF WatcherFails, diskVars, drainVars
<1>2. IsWatched(s)' => IsWatched(s)
  BY <1>1, UnwatchedIs, WatchedThen DEF Typed
<1>3. Fresh(s)' => Fresh(s)
  BY <1>1, <1>2 DEF Fresh, Staled
<1>4. RowsTyped' /\ (\A p \in DOMAIN disk : p \in Trails)
  BY InsideIs DEF Typed, DiskTyped
<1> QED
  BY <1>1, <1>2, <1>3, <1>4, Bystander

LEMMA CrawlElsewhere ==
    ASSUME Typed, Typed', QueueTruth, NEW r \in Roots, RootTruth(r), CrawlActs(r),
           NEW s \in Roots, s # r, RootTruth(s)
    PROVE  RootTruth(s)'
<1>1. /\ disk' = disk /\ pending' = pending /\ batch' = batch /\ batchGen' = batchGen /\ upserts' = upserts
      /\ watched' = watched \/ Attaches(r)
  BY DEF CrawlActs, Attaches, Begins, Lists, WritesFound, Sweeps, Registers, diskVars, drainVars
<1>2. IsWatched(s)' => IsWatched(s)
  <2>1. CASE watched' = watched
    BY <2>1 DEF IsWatched
  <2>2. CASE Attaches(r)
    BY <2>2, WatchIs, WatchedThen DEF Typed
  <2> QED
    BY <1>1, <2>1, <2>2
<1>3. RowsTyped' /\ RowsTyped /\ (\A p \in DOMAIN disk : p \in Trails) /\ CrawlsTyped /\ ClockTyped /\ DiskTyped
  BY InsideIs DEF Typed, DiskTyped
<1>4. crawls'[s] = crawls[s]
  BY <1>3, AttachIs, BeginIs, ListIs, WriteFoundIs, SweepIs, RegisterIs DEF CrawlActs, Becomes
<1>5. s \in DOMAIN roots' /\ ~roots'[s] => s \in DOMAIN roots /\ ~roots[s]
  <2>1. CASE roots' = roots
    BY <2>1
  <2>2. CASE Registers(r)
    BY <1>3, <2>2, RegisterIs
  <2> QED
    BY <2>1, <2>2 DEF CrawlActs, Attaches, Begins, Lists, WritesFound, Sweeps
<1>6. Fresh(s)' => Fresh(s)
  BY <1>2, <1>5 DEF Fresh
<1>7. ASSUME NEW p \in Trails, Under(p, s)
      PROVE  (p \in DOMAIN rows' <=> p \in DOMAIN rows) /\ (p \in DOMAIN rows => rows'[p] = rows[p])
  <2>1. ~Under(p, r)
    BY <1>7, OneRoot
  <2>2. CASE rows' = rows
    BY <2>2
  <2>3. CASE WritesFound(r)
    <3> DEFINE f == crawls[r].found
               g == crawls[r].gen
    <3>1. rows' = UpsertEntries(rows, f, g) /\ InSlot(r)
      BY <1>3, <2>3, WriteFoundIs DEF InSlot
    <3>2. p \notin DOMAIN f
      BY <2>1, <3>1 DEF RootTruth, SoundWith
    <3> HIDE DEF f, g
    <3> QED
      BY <3>1, <3>2 DEF UpsertEntries
  <2>4. CASE Sweeps(r)
    <3> DEFINE g == crawls[r].gen
    <3>1. rows' = SweepVanished(rows, r, g)
      BY <1>3, <2>4, SweepIs
    <3> HIDE DEF g
    <3> QED
      BY <2>1, <3>1, SweptIs
  <2> QED
    BY <2>2, <2>3, <2>4 DEF CrawlActs, Attaches, Begins, Lists, Registers
<1> QED
  BY <1>1, <1>2, <1>3, <1>4, <1>6, <1>7, Bystander

--------------------------------------------------------------------------------
(* The root a crawl is of. *)

\* Nothing is left to be applied below r.
LEMMA AppliedIs ==
    ASSUME Typed, NEW r \in Roots, Applied(r)
    PROVE  /\ \A i \in DOMAIN Queue : RootOf(Queue[i].path) # r
           /\ \A i \in DOMAIN batch : RootOf(batch[i].path) # r
           /\ \A p \in DOMAIN upserts : p \in Trails /\ ~Under(p, r)
<1>1. ASSUME NEW i \in DOMAIN Queue PROVE RootOf(Queue[i].path) # r
  <2>1. Queue[i] \in Range(pending \o batch) /\ Noticed(r) = {}
    BY QueueHolds DEF Applied
  <2> QED
    BY <2>1 DEF Noticed, AreOf
<1>2. \A i \in DOMAIN batch : i \in DOMAIN Queue /\ Queue[i] = batch[i]
  <2>1. batch \in Seq(Event) /\ pending \in Seq(Event)
    BY DEF Typed, QueueTyped
  <2>2. /\ Len(Queue) = Len(batch) + Len(pending) /\ Queue \in Seq(Event)
        /\ \A i \in 1..Len(batch) : Queue[i] = batch[i]
    BY <2>1, ConcatProperties DEF Queue
  <2>3. DOMAIN batch = 1..Len(batch) /\ DOMAIN Queue = 1..Len(Queue) /\ Len(batch) \in Nat /\ Len(pending) \in Nat
    BY <2>1, <2>2, LenProperties
  <2>4. \A i \in 1..Len(batch) : i \in 1..Len(Queue)
    BY <2>2, <2>3
  <2> QED
    BY <2>2, <2>3, <2>4
<1>3. ASSUME NEW p \in DOMAIN upserts PROVE p \in Trails /\ ~Under(p, r)
  <2>1. p \in Trails /\ RootOf(p) # r
    BY FoundsIs, InsideIs DEF Applied, AreOf, Typed, UpsertsTyped
  <2> QED
    BY <2>1, UnderRoot
<1> QED
  BY <1>1, <1>2, <1>3

LEMMA NotYet == \A a, b \in Nat : a <= b => ~(a >= b + 1)
  OBVIOUS

LEMMA BeginTruth ==
    ASSUME Typed, "crawls at once" \notin Circumstances, NEW r \in Roots, Begins(r)
    PROVE  RootTruth(r)'
<1>1. /\ disk' = disk /\ rows' = rows /\ batch' = batch /\ pending' = pending /\ upserts' = upserts
      /\ batchGen' = batchGen
  BY DEF Begins, diskVars, drainVars
<1>2. /\ Applied(r) /\ crawls'[r] = [step |-> "walking", gen |-> clock + 1, todo |-> {r}, found |-> <<>>]
  BY BeginIs DEF Typed, Becomes
<1>3. /\ crawls'[r].step = "walking" /\ crawls'[r].gen = clock + 1 /\ crawls'[r].todo = {r}
      /\ crawls'[r].found = <<>> /\ DOMAIN <<>> = {}
  <2> DEFINE none == <<>>
             now == crawls'[r]
  <2>1. now = [step |-> "walking", gen |-> clock + 1, todo |-> {r}, found |-> none]
    BY <1>2
  <2> HIDE DEF none, now
  <2>2. now.step = "walking" /\ now.gen = clock + 1 /\ now.todo = {r} /\ now.found = none
    BY <2>1
  <2> QED
    BY <2>2, NothingFound DEF none, now
<1>4. /\ \A i \in DOMAIN Queue : RootOf(Queue[i].path) # r
      /\ \A i \in DOMAIN batch : RootOf(batch[i].path) # r
      /\ \A p \in DOMAIN upserts : ~Under(p, r)
  BY <1>2, AppliedIs
<1>5. Queue' = Queue
  BY <1>1 DEF Queue
<1>6. \A p \in DOMAIN rows : ~(rows[p].gen >= clock + 1)
  <2> TAKE p \in DOMAIN rows
  <2> DEFINE gen == rows[p].gen
  <2>1. gen \in Nat /\ gen <= clock /\ clock \in Nat
    BY DEF Typed, RowsTyped, ClockTyped, Row
  <2> HIDE DEF gen
  <2>2. ~(gen >= clock + 1)
    BY <2>1, NotYet
  <2> QED
    BY <2>2 DEF gen
<1>7. SoundWith(Queue, disk, r)'
  BY <1>1, <1>3, <1>4, <1>5, <1>6 DEF SoundWith
<1>8. CrawlOrder(r)'
  BY <1>1, <1>3, <1>4 DEF CrawlOrder
<1>9. WholeWith(Queue, disk, r)'
  BY <1>3 DEF WholeWith
<1> QED
  BY <1>3, <1>7, <1>8, <1>9 DEF RootTruth

\* What a folder holds that is listed, or is below what it holds.
LEMMA ListedIs ==
    ASSUME Typed, NEW r \in Roots, NEW dir \in Inside \union Roots, dir = r \/ Under(dir, r)
    PROVE  /\ \A p \in ChildrenOf(dir) : p \in DOMAIN disk /\ p \in Trails /\ Under(p, r)
           /\ \A p \in DOMAIN disk : Under(p, dir) =>
                  \/ p \in ChildrenOf(dir)
                  \/ \E c \in ChildrenOf(dir) : Under(p, c) /\ disk[c] = TRUE
<1>1. dir \in Trails /\ RootOf(dir) = r /\ Len(dir) >= 1 /\ Len(dir) \in Nat
  <2>1. CASE dir = r
    BY <2>1, RootTrail
  <2>2. CASE dir \in Inside /\ Under(dir, r)
    <3>1. dir \in Trails /\ Len(dir) > 1 /\ Len(dir) \in Nat
      BY <2>2, InsideIs
    <3> QED
      BY <2>2, <3>1, UnderRoot
  <2>3. CASE dir \in Roots /\ Under(dir, r)
    <3>1. dir \in Trails /\ Len(dir) = 1
      BY <2>3, RootTrail
    <3>2. Len(dir) > 1
      BY <2>3, <3>1, UnderRoot
    <3> QED
      BY <3>1, <3>2
  <2> QED
    BY <2>1, <2>2, <2>3
<1>2. \A p \in DOMAIN disk : p \in Trails /\ Len(p) > 1 /\ Len(p) \in Nat
  BY InsideIs DEF Typed, DiskTyped
<1>3. ASSUME NEW p \in ChildrenOf(dir) PROVE p \in DOMAIN disk /\ p \in Trails /\ Under(p, r)
  <2>1. p \in DOMAIN disk /\ Parent(p) = dir /\ p \in Trails /\ Len(p) > 1 /\ Len(p) \in Nat
    BY <1>2 DEF ChildrenOf
  <2>2. Within(p, dir)
    BY <2>1, ParentIs
  <2>3. RootOf(p) = r
    BY <1>1, <2>1, <2>2, WithinRoot
  <2> QED
    BY <2>1, <2>3, UnderRoot
<1>4. ASSUME NEW p \in DOMAIN disk, Under(p, dir)
      PROVE  \/ p \in ChildrenOf(dir)
             \/ \E c \in ChildrenOf(dir) : Under(p, c) /\ disk[c] = TRUE
  <2>1. p \in Trails /\ Within(p, dir) /\ p # dir
    BY <1>2, <1>4 DEF Under, Within, IsStrictPrefix
  <2>2. PICK c \in Trails : Within(p, c) /\ Len(c) = Len(dir) + 1 /\ Parent(c) = dir
    BY <1>1, <2>1, ChildTowards
  <2>3. Len(c) > 1
    BY <1>1, <2>2
  <2>4. CASE c = p
    BY <2>2, <2>4 DEF ChildrenOf
  <2>5. CASE c # p
    <3>1. c \in DOMAIN disk /\ disk[c] = TRUE
      BY <2>2, <2>3, <2>5 DEF Typed, Placed
    <3>2. Under(p, c)
      BY <2>2, <2>5 DEF Under, Within, IsStrictPrefix
    <3> QED
      BY <2>2, <3>1, <3>2 DEF ChildrenOf
  <2> QED
    BY <2>4, <2>5
<1> QED
  BY <1>3, <1>4

LEMMA ListTruth ==
    ASSUME Typed, NEW r \in Roots, RootTruth(r), Lists(r)
    PROVE  RootTruth(r)'
<1>1. /\ disk' = disk /\ rows' = rows /\ batch' = batch /\ pending' = pending /\ upserts' = upserts
      /\ batchGen' = batchGen /\ watched' = watched
  BY DEF Lists, diskVars, drainVars
<1>2. /\ crawls[r].step = "walking" /\ crawls[r].found \in Founds
      /\ crawls[r].todo \in SUBSET (Inside \union Roots)
  BY ListIs, CrawlIs DEF Typed
<1>3. PICK dir \in crawls[r].todo :
          Becomes(r, [step |-> "walking", gen |-> crawls[r].gen,
                      todo |-> (crawls[r].todo \ {dir}) \union {p \in ChildrenOf(dir) : disk[p]},
                      found |-> Over(AsRows(ChildrenOf(dir)), crawls[r].found)])
  BY ListIs DEF Typed
<1> DEFINE held == ChildrenOf(dir)
<1>4. /\ crawls'[r].step = "walking" /\ crawls'[r].gen = crawls[r].gen
      /\ crawls'[r].todo = (crawls[r].todo \ {dir}) \union {p \in held : disk[p]}
      /\ crawls'[r].found = Over(AsRows(held), crawls[r].found)
  BY <1>3 DEF Becomes
<1>5. InSlot(r) /\ SoundWith(Queue, disk, r) /\ CrawlOrder(r) /\ (IsWatched(r) => WholeWith(Queue, disk, r))
  BY <1>2 DEF InSlot, RootTruth
<1>6. dir = r \/ (Under(dir, r) /\ OnDisk(disk, dir, TRUE))
  BY <1>5 DEF SoundWith
<1>7. /\ \A p \in held : p \in DOMAIN disk /\ Under(p, r)
      /\ \A p \in DOMAIN disk : Under(p, dir) => p \in held \/ \E c \in held : Under(p, c) /\ disk[c] = TRUE
  BY <1>2, <1>6, ListedIs
<1>8. \A p \in DOMAIN disk : disk[p] \in BOOLEAN
  BY DEF Typed, DiskTyped
<1> HIDE DEF held
<1> DEFINE f == crawls[r].found
           g == crawls'[r].found
<1>9. /\ DOMAIN g = held \union DOMAIN f
      /\ \A p \in held : g[p].folder = disk[p]
      /\ \A p \in DOMAIN f : p \notin held => g[p] = f[p]
  <2>1. g = [p \in DOMAIN AsRows(held) \union DOMAIN f |-> IF p \in DOMAIN AsRows(held) THEN AsRows(held)[p] ELSE f[p]]
    BY <1>4 DEF Over
  <2> HIDE DEF f, g
  <2> QED
    BY <2>1, AsRowsIs
<1>10. \A p \in DOMAIN f : Under(p, r) /\ OnDisk(disk, p, f[p].folder)
  BY <1>5 DEF SoundWith
<1> HIDE DEF f, g
<1>11. \A p \in DOMAIN g : Under(p, r) /\ OnDisk(disk, p, g[p].folder)
  BY <1>7, <1>9, <1>10 DEF OnDisk
<1>12. \A x \in crawls'[r].todo : x = r \/ (Under(x, r) /\ OnDisk(disk, x, TRUE))
  BY <1>4, <1>5, <1>7, <1>8 DEF SoundWith, OnDisk
<1>13. Queue' = Queue
  BY <1>1 DEF Queue
<1>14. SoundWith(Queue, disk, r)'
  BY <1>1, <1>4, <1>5, <1>11, <1>12, <1>13 DEF SoundWith, g
<1>15. CrawlOrder(r)'
  BY <1>1, <1>4, <1>5 DEF CrawlOrder
<1>16. ASSUME IsWatched(r)' PROVE WholeWith(Queue, disk, r)'
  <2>1. WholeWith(Queue, disk, r)
    BY <1>1, <1>5, <1>16 DEF IsWatched
  <2> SUFFICES ASSUME NEW p \in DOMAIN disk, Under(p, r)
               PROVE  \/ \E i \in DOMAIN Queue : Gives(Queue[i], p)
                      \/ p \in DOMAIN upserts \union DOMAIN g
                      \/ p \in DOMAIN rows /\ rows[p].gen >= crawls[r].gen
                      \/ \E x \in crawls'[r].todo : Under(p, x)
    BY <1>1, <1>4, <1>13 DEF WholeWith, g
  <2>2. ASSUME NEW x \in crawls[r].todo, Under(p, x)
        PROVE  p \in DOMAIN g \/ \E y \in crawls'[r].todo : Under(p, y)
    <3>1. CASE x # dir
      BY <1>4, <2>2, <3>1
    <3>2. CASE x = dir
      <4>1. CASE p \in held
        BY <1>9, <4>1
      <4>2. CASE \E c \in held : Under(p, c) /\ disk[c] = TRUE
        BY <1>4, <4>2
      <4> QED
        BY <1>7, <2>2, <3>2, <4>1, <4>2
    <3> QED
      BY <3>1, <3>2
  <2>3. DOMAIN crawls[r].found \subseteq DOMAIN g
    BY <1>9 DEF f
  <2> QED
    BY <2>1, <2>2, <2>3 DEF WholeWith
<1> QED
  BY <1>4, <1>14, <1>15, <1>16 DEF RootTruth

LEMMA WriteTruth ==
    ASSUME Typed, NEW r \in Roots, RootTruth(r), WritesFound(r)
    PROVE  RootTruth(r)'
<1>1. /\ disk' = disk /\ batch' = batch /\ pending' = pending /\ upserts' = upserts
      /\ batchGen' = batchGen /\ watched' = watched
  BY DEF WritesFound, diskVars, drainVars
<1> DEFINE f == crawls[r].found
           g == crawls[r].gen
<1>2. /\ crawls[r].step = "walking" /\ rows' = UpsertEntries(rows, f, g) /\ g \in Nat
  BY WriteFoundIs, CrawlIs DEF Typed
<1>3. PICK step \in {"walking", "written"} :
          /\ step = "written" => crawls[r].todo = {}
          /\ Becomes(r, [step |-> step, gen |-> crawls[r].gen, todo |-> crawls[r].todo, found |-> <<>>])
  BY WriteFoundIs DEF Typed
<1>4. /\ crawls'[r].step = step /\ crawls'[r].gen = g /\ crawls'[r].todo = crawls[r].todo
      /\ crawls'[r].found = <<>> /\ DOMAIN <<>> = {}
  <2> DEFINE none == <<>>
             todo == crawls[r].todo
             now == crawls'[r]
  <2>1. now = [step |-> step, gen |-> g, todo |-> todo, found |-> none]
    BY <1>3 DEF Becomes
  <2> HIDE DEF none, now, g, todo
  <2>2. now.step = step /\ now.gen = g /\ now.todo = todo /\ now.found = none
    BY <2>1
  <2> QED
    BY <2>2, NothingFound DEF none, now, todo
<1>5. InSlot(r) /\ SoundWith(Queue, disk, r) /\ CrawlOrder(r) /\ (IsWatched(r) => WholeWith(Queue, disk, r))
  BY <1>2 DEF InSlot, RootTruth
<1>6. Queue' = Queue
  BY <1>1 DEF Queue
<1>7. \A p \in DOMAIN f : OnDisk(disk, p, f[p].folder)
  BY <1>5 DEF SoundWith
<1>8. /\ DOMAIN rows' = DOMAIN rows \union DOMAIN f
      /\ \A p \in DOMAIN f : rows'[p].folder = f[p].folder /\ rows'[p].gen = g
      /\ \A p \in DOMAIN rows : p \notin DOMAIN f => rows'[p] = rows[p]
  <2> HIDE DEF f, g
  <2> QED
    BY <1>2 DEF UpsertEntries
<1>9. \A p \in DOMAIN rows' : Under(p, r) /\ rows'[p].gen >= g => OnDisk(disk, p, rows'[p].folder)
  <2> TAKE p \in DOMAIN rows'
  <2>1. CASE p \in DOMAIN f
    BY <1>7, <1>8, <2>1
  <2>2. CASE p \notin DOMAIN f
    BY <1>5, <1>8, <2>2 DEF SoundWith
  <2> QED
    BY <2>1, <2>2
<1>10. SoundWith(Queue, disk, r)'
  BY <1>1, <1>4, <1>5, <1>6, <1>9 DEF SoundWith
<1>11. CrawlOrder(r)'
  BY <1>1, <1>3, <1>4, <1>5 DEF CrawlOrder
<1>12. ASSUME IsWatched(r)' PROVE WholeWith(Queue, disk, r)'
  <2>1. WholeWith(Queue, disk, r)
    BY <1>1, <1>5, <1>12 DEF IsWatched
  <2>2. \A p \in DOMAIN f : p \in DOMAIN rows' /\ rows'[p].gen >= g
    BY <1>2, <1>8
  <2>3. \A p \in DOMAIN rows : rows[p].gen >= g => p \in DOMAIN rows' /\ rows'[p].gen >= g
    <3> TAKE p \in DOMAIN rows
    <3>1. CASE p \in DOMAIN f
      BY <2>2, <3>1
    <3>2. CASE p \notin DOMAIN f
      BY <1>8, <3>2
    <3> QED
      BY <3>1, <3>2
  <2> SUFFICES ASSUME NEW p \in DOMAIN disk, Under(p, r)
               PROVE  \/ \E i \in DOMAIN Queue : Gives(Queue[i], p)
                      \/ p \in DOMAIN upserts
                      \/ p \in DOMAIN rows' /\ rows'[p].gen >= g
                      \/ \E x \in crawls[r].todo : Under(p, x)
    BY <1>1, <1>4, <1>6 DEF WholeWith
  <2> QED
    BY <2>1, <2>2, <2>3 DEF WholeWith
<1> QED
  BY <1>3, <1>4, <1>10, <1>11, <1>12 DEF RootTruth

LEMMA SweepTruth ==
    ASSUME Typed, NEW r \in Roots, RootTruth(r), Sweeps(r)
    PROVE  RootTruth(r)'
<1>1. /\ disk' = disk /\ batch' = batch /\ pending' = pending /\ upserts' = upserts
      /\ batchGen' = batchGen /\ watched' = watched
  BY DEF Sweeps, diskVars, drainVars
<1> DEFINE g == crawls[r].gen
<1>2. crawls[r].step = "written" /\ rows' = SweepVanished(rows, r, g)
  BY SweepIs DEF Typed
<1>3. /\ crawls'[r].step = "swept" /\ crawls'[r].gen = g /\ crawls'[r].todo = crawls[r].todo
      /\ crawls'[r].found = crawls[r].found
  <2> DEFINE todo == crawls[r].todo
             found == crawls[r].found
             now == crawls'[r]
  <2>1. now = [step |-> "swept", gen |-> g, todo |-> todo, found |-> found]
    BY SweepIs DEF Typed, Becomes
  <2> HIDE DEF now, g, todo, found
  <2>2. now.step = "swept" /\ now.gen = g /\ now.todo = todo /\ now.found = found
    BY <2>1
  <2> QED
    BY <2>2 DEF now, todo, found
<1>4. InSlot(r) /\ SoundWith(Queue, disk, r) /\ CrawlOrder(r) /\ (IsWatched(r) => WholeWith(Queue, disk, r))
  BY <1>2 DEF InSlot, RootTruth
<1>5. Queue' = Queue
  BY <1>1 DEF Queue
<1>6. /\ \A p : p \in DOMAIN rows' <=> p \in DOMAIN rows /\ (Under(p, r) => rows[p].gen >= g)
      /\ \A p \in DOMAIN rows' : rows'[p] = rows[p]
  <2> HIDE DEF g
  <2> QED
    BY <1>2 DEF SweepVanished, Restrict
<1>7. SoundWith(Queue, disk, r)'
  BY <1>1, <1>3, <1>4, <1>5, <1>6 DEF SoundWith
<1>8. CrawlOrder(r)'
  BY <1>1, <1>2, <1>3, <1>4, <1>6 DEF CrawlOrder
<1>9. ASSUME IsWatched(r)' PROVE WholeWith(Queue, disk, r)'
  <2>1. WholeWith(Queue, disk, r)
    BY <1>1, <1>4, <1>9 DEF IsWatched
  <2>2. \A p \in DOMAIN rows : rows[p].gen >= g => p \in DOMAIN rows' /\ rows'[p].gen >= g
    BY <1>6
  <2> SUFFICES ASSUME NEW p \in DOMAIN disk, Under(p, r)
               PROVE  \/ \E i \in DOMAIN Queue : Gives(Queue[i], p)
                      \/ p \in DOMAIN upserts \union DOMAIN crawls[r].found
                      \/ p \in DOMAIN rows' /\ rows'[p].gen >= g
                      \/ \E x \in crawls[r].todo : Under(p, x)
    BY <1>1, <1>3, <1>5 DEF WholeWith
  <2> QED
    BY <2>1, <2>2 DEF WholeWith
<1> QED
  BY <1>3, <1>7, <1>8, <1>9 DEF RootTruth

\* A crawl that has gone through leaves the rows in step with the disk, up to what was noticed.
LEMMA CrawledInStep ==
    ASSUME Typed, NEW r \in Roots, crawls[r].step = "swept", SoundWith(Queue, disk, r), CrawlOrder(r),
           WholeWith(Queue, disk, r)
    PROVE  InStepWith(Queue, Known, disk, r)
<1> DEFINE q == Queue
<1>1. crawls[r].found = <<>> /\ crawls[r].todo = {} /\ DOMAIN <<>> = {}
  BY NothingFound DEF CrawlOrder
<1>2. \A p \in DOMAIN rows : Under(p, r) => rows[p].gen >= crawls[r].gen
  BY DEF CrawlOrder
<1>3. \A p \in DOMAIN rows : Under(p, r) => p \in DOMAIN disk /\ disk[p] = rows[p].folder
  BY <1>2 DEF SoundWith, OnDisk
<1>4. \A p \in DOMAIN upserts : Under(p, r) => p \in DOMAIN disk /\ disk[p] = upserts[p].folder
  BY DEF SoundWith, OnDisk
<1>5. \A p \in DOMAIN Known : Under(p, r) => p \in DOMAIN disk /\ Known[p] = disk[p]
  BY <1>3, <1>4, KnownIs
<1>6. \A i \in DOMAIN q : q[i] \in Event
  BY QueueHolds
<1>7. \A i \in DOMAIN q : RootOf(q[i].path) = r => q[i].kind \in {"created", "changed"}
  BY DEF SoundWith
<1> HIDE DEF q
<1> SUFFICES ASSUME NEW p \in Trails, Under(p, r) PROVE WillBe(q, Known, disk, p)
  BY DEF InStepWith, q
<1>8. \A i \in DOMAIN q : ~Takes(q[i], p) /\ ~Brings(q[i], p)
  <2> TAKE i \in DOMAIN q
  <2>1. CASE RootOf(q[i].path) = r
    BY <1>7, <2>1 DEF Takes, Brings
  <2>2. CASE RootOf(q[i].path) # r
    BY <1>6, <2>2, OfItsRoot, UnderRoot
  <2> QED
    BY <2>1, <2>2
<1>9. \A i : Untaken(q, i, p)
  BY <1>8 DEF Untaken
<1>10. ASSUME p \in DOMAIN disk PROVE Given(q, p) \/ (Kept(q, Known, p) /\ Known[p] = disk[p])
  <2>1. (\E i \in DOMAIN q : Gives(q[i], p)) \/ p \in DOMAIN upserts \/ p \in DOMAIN rows
    BY <1>1, <1>10 DEF WholeWith, q
  <2>2. CASE \E i \in DOMAIN q : Gives(q[i], p)
    BY <1>9, <2>2 DEF Given
  <2>3. CASE p \in DOMAIN Known
    BY <1>5, <1>9, <2>3 DEF Kept
  <2> QED
    BY <2>1, <2>2, <2>3, KnownIs
<1>11. ASSUME p \notin DOMAIN disk PROVE ~Kept(q, Known, p) /\ \A i \in DOMAIN q : ~Brought(q, Known, p, i)
  BY <1>5, <1>8, <1>11 DEF Kept, Brought
<1> QED
  BY <1>10, <1>11 DEF WillBe

LEMMA RegisterTruth ==
    ASSUME Typed, NEW r \in Roots, RootTruth(r), Registers(r), "crawl fails" \notin Circumstances
    PROVE  RootTruth(r)'
<1>1. /\ disk' = disk /\ rows' = rows /\ batch' = batch /\ pending' = pending /\ upserts' = upserts
      /\ watched' = watched
  BY DEF Registers, diskVars, drainVars
<1>2. crawls[r].step = "swept" /\ crawls'[r].step = "none"
  <2> DEFINE none == <<>>
             now == crawls'[r]
  <2>1. now = [step |-> "none", gen |-> 0, todo |-> {}, found |-> none] /\ crawls[r].step = "swept"
    BY RegisterIs DEF Typed, Becomes
  <2> HIDE DEF none, now
  <2>2. now.step = "none"
    BY <2>1
  <2> QED
    BY <2>1, <2>2 DEF now
<1>3. SoundWith(Queue, disk, r) /\ CrawlOrder(r) /\ (IsWatched(r) => WholeWith(Queue, disk, r))
  BY <1>2 DEF InSlot, RootTruth
<1>4. Queue' = Queue /\ Known' = Known
  BY <1>1 DEF Queue, Known
<1>5. ASSUME Fresh(r)' PROVE InStepWith(Queue', Known', disk', r)
  <2>1. IsWatched(r)
    BY <1>1, <1>5 DEF Fresh, IsWatched
  <2>2. InStepWith(Queue, Known, disk, r)
    BY <1>2, <1>3, <2>1, CrawledInStep
  <2> QED
    BY <1>1, <1>4, <2>2
<1> QED
  BY <1>2, <1>5 DEF RootTruth, InSlot

LEMMA CrawlTruth ==
    ASSUME Typed, Typed', QueueTruth, NEW r \in Roots, CrawlActs(r), Circumstances = {},
           NEW s \in Roots, \A x \in Roots : RootTruth(x)
    PROVE  RootTruth(s)'
<1>1. CASE s # r
  BY <1>1, CrawlElsewhere
<1>2. CASE s = r /\ Attaches(r)
  <2> DEFINE x == crawls[r]
             now == crawls'[r]
  <2>1. now = [step |-> "queued", gen |-> x.gen, todo |-> x.todo, found |-> x.found]
    BY <1>2, AttachIs DEF Typed, Becomes
  <2> HIDE DEF now, x
  <2>2. now.step = "queued"
    BY <2>1
  <2> QED
    BY <1>2, <2>2, NotAtWork DEF now
<1> QED
  BY <1>1, <1>2, BeginTruth, ListTruth, WriteTruth, SweepTruth, RegisterTruth DEF CrawlActs

--------------------------------------------------------------------------------
(* The drain. *)

LEMMA TailOfConcat ==
    ASSUME NEW S, NEW s \in Seq(S), NEW u \in Seq(S), s # <<>>
    PROVE  /\ s \o u \in Seq(S) /\ s \o u # <<>> /\ Tail(s \o u) = Tail(s) \o u /\ Head(s \o u) = Head(s)
<1> DEFINE a == s \o u
           b == Tail(s) \o u
           n == Len(s)
           m == Len(u)
<1>1. n \in Nat /\ m \in Nat /\ n > 0
  BY LenProperties, EmptySeq
<1>2. a \in Seq(S) /\ Len(a) = n + m /\ \A i \in 1..(n + m) : a[i] = IF i <= n THEN s[i] ELSE u[i - n]
  BY ConcatProperties
<1>3. a # <<>>
  <2>1. Len(a) > 0
    BY <1>1, <1>2
  <2> QED
    BY <2>1, EmptySeq
<1>4. Tail(s) \in Seq(S) /\ Len(Tail(s)) = n - 1 /\ \A i \in 1..(n - 1) : Tail(s)[i] = s[i + 1]
  BY HeadTailProperties
<1>5. /\ b \in Seq(S) /\ Len(b) = Len(Tail(s)) + m
      /\ \A i \in 1..(Len(Tail(s)) + m) : b[i] = IF i <= Len(Tail(s)) THEN Tail(s)[i] ELSE u[i - Len(Tail(s))]
  BY <1>4, ConcatProperties
<1>6. /\ Len(b) = n - 1 + m
      /\ \A i \in 1..(n - 1 + m) : b[i] = IF i <= n - 1 THEN Tail(s)[i] ELSE u[i - (n - 1)]
  BY <1>4, <1>5
<1>7. Tail(a) \in Seq(S) /\ Len(Tail(a)) = n + m - 1 /\ \A i \in 1..Len(Tail(a)) : Tail(a)[i] = a[i + 1]
  BY <1>2, <1>3, HeadTailProperties
<1>8. Len(Tail(a)) = Len(b)
  BY <1>1, <1>6, <1>7
<1>9. Head(a) = a[1] /\ Head(s) = s[1] /\ a[1] = s[1]
  BY <1>1, <1>2
<1> DEFINE c == Tail(a)
           d == Tail(s)
<1> HIDE DEF a, b, n, m, c, d
<1>10. ASSUME NEW i \in 1..Len(c) PROVE c[i] = b[i]
  <2>1. i \in Nat /\ 1 <= i /\ i <= n + m - 1 /\ i + 1 \in 1..(n + m) /\ i \in 1..(n - 1 + m)
    BY <1>1, <1>7, <1>10 DEF c
  <2>2. c[i] = a[i + 1]
    BY <1>7, <1>10 DEF c
  <2>3. CASE i <= n - 1
    <3>1. i + 1 <= n /\ i \in 1..(n - 1)
      BY <1>1, <2>1, <2>3
    <3>2. a[i + 1] = s[i + 1]
      BY <1>2, <2>1, <3>1
    <3>3. b[i] = Tail(s)[i]
      BY <1>6, <2>1, <2>3
    <3> QED
      BY <1>4, <2>2, <3>1, <3>2, <3>3
  <2>4. CASE ~(i <= n - 1)
    <3>1. ~(i + 1 <= n) /\ (i + 1) - n = i - (n - 1)
      BY <1>1, <2>1, <2>4
    <3>2. a[i + 1] = u[(i + 1) - n]
      BY <1>2, <2>1, <3>1
    <3>3. b[i] = u[i - (n - 1)]
      BY <1>6, <2>1, <2>4
    <3> QED
      BY <2>2, <3>1, <3>2, <3>3
  <2> QED
    BY <2>3, <2>4
<1>11. c = b
  BY <1>5, <1>7, <1>8, <1>10, SeqEqual DEF c
<1> QED
  BY <1>2, <1>3, <1>9, <1>11 DEF a, b, c

LEMMA QueueNext ==
    ASSUME Typed, batch # <<>>, batch' = Tail(batch), pending' = pending
    PROVE  /\ Queue' = Tail(Queue) /\ Queue # <<>> /\ Queue \in Seq(Event)
           /\ Head(Queue) = Head(batch) /\ Head(batch) \in Event
<1>1. batch \in Seq(Event) /\ pending \in Seq(Event)
  BY DEF Typed, QueueTyped
<1>2. Head(batch) \in Event
  BY <1>1, HeadTailProperties
<1> QED
  BY <1>1, <1>2, TailOfConcat DEF Queue

LEMMA RenamesFirstNext ==
    ASSUME NEW q \in Seq(Event), q # <<>>, RenamesFirst(q)
    PROVE  RenamesFirst(Tail(q))
<1> DEFINE t == Tail(q)
           n == Len(q)
<1>1. /\ n \in Nat /\ DOMAIN q = 1..n /\ DOMAIN t = 1..(n - 1)
      /\ \A i \in DOMAIN t : t[i] = q[i + 1]
  BY UntakenNext
<1> HIDE DEF t, n
<1> SUFFICES ASSUME NEW i \in DOMAIN t, NEW j \in DOMAIN t, i < j, t[j].kind = "renamed"
             PROVE  ~About(t[j].old, t[i])
  BY DEF RenamesFirst, t
<1>2. i + 1 \in DOMAIN q /\ j + 1 \in DOMAIN q /\ i + 1 < j + 1
  BY <1>1
<1>3. t[j] = q[j + 1] /\ t[i] = q[i + 1]
  BY <1>1
<1> QED
  BY <1>2, <1>3 DEF RenamesFirst

\* What the drain does to the rows of a root that is being crawled.
RowsCarry(r) ==
    LET gen == crawls[r].gen
    IN  /\ \A p \in DOMAIN upserts' : Under(p, r) => OnDisk(disk, p, upserts'[p].folder) /\ batchGen >= gen
        /\ \A p \in DOMAIN rows' : Under(p, r) => \/ p \in DOMAIN rows /\ rows'[p] = rows[p]
                                                  \/ OnDisk(disk, p, rows'[p].folder) /\ rows'[p].gen >= gen
        /\ \A p \in DOMAIN upserts : Under(p, r) => p \in DOMAIN upserts' \/ (p \in DOMAIN rows' /\ rows'[p].gen >= gen)
        /\ \A p \in DOMAIN rows : Under(p, r) /\ rows[p].gen >= gen => p \in DOMAIN rows' /\ rows'[p].gen >= gen

LEMMA SlotDrained ==
    ASSUME NEW r \in Roots, RootTruth(r), InSlot(r), RowsCarry(r),
           crawls' = crawls, disk' = disk, watched' = watched, batchGen' = batchGen,
           \A i \in DOMAIN Queue' : \E j \in DOMAIN Queue : Queue'[i] = Queue[j],
           \A i \in DOMAIN batch' : \E j \in DOMAIN batch : batch'[i] = batch[j],
           \A i \in DOMAIN Queue, p \in DOMAIN disk :
               Gives(Queue[i], p) /\ Under(p, r) => \/ \E j \in DOMAIN Queue' : Queue'[j] = Queue[i]
                                                    \/ p \in DOMAIN upserts'
    PROVE  RootTruth(r)'
<1>1. InSlot(r)' /\ crawls'[r].step # "none" /\ (IsWatched(r)' => IsWatched(r))
  BY DEF InSlot, IsWatched
<1>2. SoundWith(Queue, disk, r) /\ CrawlOrder(r) /\ (IsWatched(r) => WholeWith(Queue, disk, r))
  BY DEF RootTruth
<1>3. \A p \in DOMAIN rows' : Under(p, r) /\ rows'[p].gen >= crawls[r].gen => OnDisk(disk, p, rows'[p].folder)
  BY <1>2 DEF SoundWith, RowsCarry
<1>4. \A p \in DOMAIN upserts' : Under(p, r) => OnDisk(disk, p, upserts'[p].folder) /\ batchGen >= crawls[r].gen
  BY DEF RowsCarry
<1>5. \A i \in DOMAIN Queue' : RootOf(Queue'[i].path) = r
          => Queue'[i].kind \in {"created", "changed"} /\ Queue'[i].path \in DOMAIN disk
  BY <1>2 DEF SoundWith
<1>6. SoundWith(Queue, disk, r)'
  BY <1>2, <1>3, <1>4, <1>5 DEF SoundWith
<1>7. crawls[r].step = "swept" => \A p \in DOMAIN rows' : Under(p, r) => rows'[p].gen >= crawls[r].gen
  BY <1>2 DEF CrawlOrder, RowsCarry
<1>8. CrawlOrder(r)'
  BY <1>2, <1>4, <1>7 DEF CrawlOrder
<1>9. ASSUME IsWatched(r)' PROVE WholeWith(Queue, disk, r)'
  <2>1. WholeWith(Queue, disk, r)
    BY <1>1, <1>2, <1>9
  <2> SUFFICES ASSUME NEW p \in DOMAIN disk, Under(p, r)
               PROVE  \/ \E i \in DOMAIN Queue' : Gives(Queue'[i], p)
                      \/ p \in DOMAIN upserts' \union DOMAIN crawls[r].found
                      \/ p \in DOMAIN rows' /\ rows'[p].gen >= crawls[r].gen
                      \/ \E x \in crawls[r].todo : Under(p, x)
    BY DEF WholeWith
  <2>2. CASE \E i \in DOMAIN Queue : Gives(Queue[i], p)
    BY <2>2
  <2>3. CASE p \in DOMAIN upserts
    BY <2>3 DEF RowsCarry
  <2>4. CASE p \in DOMAIN rows /\ rows[p].gen >= crawls[r].gen
    BY <2>4 DEF RowsCarry
  <2> QED
    BY <2>1, <2>2, <2>3, <2>4 DEF WholeWith
<1> QED
  BY <1>1, <1>6, <1>8, <1>9 DEF RootTruth

\* What has been collected is written, and of what is below r nothing else becomes of the rows.
LEMMA FlushCarries ==
    ASSUME Typed, NEW r \in Roots, RootTruth(r), InSlot(r), upserts' = <<>>,
           \A p \in Trails : Under(p, r) => /\ p \in DOMAIN rows' <=> p \in DOMAIN Flushed
                                            /\ p \in DOMAIN rows' => rows'[p] = Flushed[p],
           \A p \in DOMAIN rows' : p \in Trails
    PROVE  RowsCarry(r)
<1> DEFINE gen == crawls[r].gen
<1>1. SoundWith(Queue, disk, r) /\ CrawlOrder(r)
  BY DEF RootTruth
<1>2. \A p \in DOMAIN upserts : Under(p, r) => OnDisk(disk, p, upserts[p].folder) /\ batchGen >= gen
  BY <1>1 DEF SoundWith, CrawlOrder
<1>3. /\ DOMAIN Flushed = DOMAIN upserts \union DOMAIN rows
      /\ \A p \in DOMAIN Flushed : p \in Trails
      /\ \A p \in DOMAIN upserts : Flushed[p].folder = upserts[p].folder /\ Flushed[p].gen = batchGen
      /\ \A p \in DOMAIN rows : p \notin DOMAIN upserts => Flushed[p] = rows[p]
  BY FlushedIs
<1> HIDE DEF gen
<1>4. DOMAIN upserts' = {}
  BY NothingFound
<1>5. ASSUME NEW p \in DOMAIN upserts, Under(p, r)
      PROVE  /\ p \in DOMAIN rows' /\ rows'[p].gen >= gen /\ OnDisk(disk, p, rows'[p].folder)
  <2>1. p \in DOMAIN Flushed /\ p \in Trails
    BY <1>3
  <2>2. p \in DOMAIN rows' /\ rows'[p] = Flushed[p]
    BY <1>5, <2>1
  <2> QED
    BY <1>2, <1>3, <1>5, <2>2
<1>6. ASSUME NEW p \in DOMAIN rows, Under(p, r), p \notin DOMAIN upserts
      PROVE  p \in DOMAIN rows' /\ rows'[p] = rows[p]
  BY <1>3, <1>6
<1>7. ASSUME NEW p \in DOMAIN rows', Under(p, r), p \notin DOMAIN upserts
      PROVE  p \in DOMAIN rows /\ rows'[p] = rows[p]
  BY <1>3, <1>7
<1> QED
  BY <1>4, <1>5, <1>6, <1>7 DEF RowsCarry, gen

LEMMA TailIs ==
    ASSUME NEW q \in Seq(Event), q # <<>>
    PROVE  /\ \A i \in DOMAIN Tail(q) : \E j \in DOMAIN q : Tail(q)[i] = q[j]
           /\ \A i \in DOMAIN q : q[i] = Head(q) \/ \E j \in DOMAIN Tail(q) : Tail(q)[j] = q[i]
<1> DEFINE t == Tail(q)
           n == Len(q)
<1>1. /\ n \in Nat /\ DOMAIN q = 1..n /\ DOMAIN t = 1..(n - 1) /\ q[1] = Head(q)
      /\ \A i \in DOMAIN t : t[i] = q[i + 1]
  BY UntakenNext
<1> HIDE DEF t, n
<1>2. \A i \in DOMAIN t : i + 1 \in DOMAIN q
  BY <1>1
<1>3. \A i \in DOMAIN q : i # 1 => i - 1 \in DOMAIN t /\ (i - 1) + 1 = i
  BY <1>1
<1>4. \A i \in DOMAIN q : i # 1 => t[i - 1] = q[i]
  BY <1>1, <1>3
<1> QED
  BY <1>1, <1>2, <1>3, <1>4 DEF t

\* Of what was noticed, no rename comes to be about what was noticed ahead of it.
LEMMA QueueStays ==
    ASSUME Typed, QueueTruth, DrainActs
    PROVE  QueueTruth'
<1>1. CASE Drains
  <2>1. pending \in Seq(Event)
    BY DEF Typed, QueueTyped
  <2>2. pending \o <<>> = <<>> \o pending
    BY <2>1, ConcatEmptySeq
  <2>3. Queue' = Queue
    BY <1>1, <2>2 DEF Drains, Queue
  <2> QED
    BY <2>3 DEF QueueTruth
<1>2. CASE FlushesLast
  BY <1>2 DEF FlushesLast, QueueTruth, Queue
<1>3. CASE ApplyNext
  <2>1. Queue' = Tail(Queue) /\ Queue # <<>> /\ Queue \in Seq(Event)
    BY <1>3, QueueNext DEF ApplyNext
  <2>2. Tail(Queue) \in Seq(Event) /\ RenamesFirst(Tail(Queue))
    BY <2>1, UntakenNext, RenamesFirstNext DEF QueueTruth
  <2> QED
    BY <2>1, <2>2 DEF QueueTruth
<1> QED
  BY <1>1, <1>2, <1>3 DEF DrainActs

LEMMA DrainsTruth ==
    ASSUME Typed, QueueTruth, NEW r \in Roots, RootTruth(r), Drains
    PROVE  RootTruth(r)'
<1>1. /\ disk' = disk /\ rows' = rows /\ roots' = roots /\ watched' = watched /\ upserts' = <<>> /\ upserts = <<>>
      /\ crawls' = crawls /\ batch = <<>> /\ batch' = pending /\ pending' = <<>> /\ batchGen' = clock
  BY DEF Drains, diskVars
<1>2. Queue' = Queue
  <2>1. pending \in Seq(Event)
    BY DEF Typed, QueueTyped
  <2>2. pending \o <<>> = <<>> \o pending
    BY <2>1, ConcatEmptySeq
  <2>3. Queue = <<>> \o pending /\ Queue' = pending \o <<>>
    BY <1>1 DEF Queue
  <2> QED
    BY <2>2, <2>3
<1>3. Known' = Known /\ (Fresh(r)' <=> Fresh(r)) /\ (InSlot(r)' <=> InSlot(r)) /\ (IsWatched(r)' <=> IsWatched(r))
  BY <1>1 DEF Known, Fresh, InSlot, IsWatched
<1>4. SoundWith(Queue, disk, r) => SoundWith(Queue, disk, r)'
  BY <1>1, <1>2 DEF SoundWith
<1>5. WholeWith(Queue, disk, r) => WholeWith(Queue, disk, r)'
  BY <1>1, <1>2 DEF WholeWith
<1>6. CrawlOrder(r) => CrawlOrder(r)'
  <2>1. batchGen' >= crawls[r].gen
    <3>1. crawls[r].gen \in Nat /\ crawls[r].gen <= clock /\ clock \in Nat
      BY CrawlIs DEF Typed, ClockTyped
    <3> QED
      BY <1>1, <3>1
  <2> QED
    BY <1>1, <2>1 DEF CrawlOrder
<1>7. InStepWith(Queue, Known, disk, r) => InStepWith(Queue', Known', disk', r)
  BY <1>1, <1>2, <1>3
<1> QED
  BY <1>1, <1>3, <1>4, <1>5, <1>6, <1>7 DEF RootTruth

LEMMA FlushTruth ==
    ASSUME Typed, Typed', QueueTruth, NEW r \in Roots, RootTruth(r), FlushesLast
    PROVE  RootTruth(r)'
<1>1. /\ disk' = disk /\ roots' = roots /\ watched' = watched /\ batchGen' = batchGen
      /\ crawls' = crawls /\ batch' = batch /\ pending' = pending /\ upserts' = <<>> /\ rows' = Flushed
  BY DEF FlushesLast, diskVars
<1>2. Queue' = Queue
  BY <1>1 DEF Queue
<1>3. (Fresh(r)' <=> Fresh(r)) /\ (InSlot(r)' <=> InSlot(r))
  BY <1>1 DEF Fresh, InSlot, IsWatched
<1>4. DOMAIN Known' = DOMAIN Known /\ \A p \in DOMAIN Known : Known'[p] = Known[p]
  <2>1. DOMAIN Flushed = DOMAIN Known /\ \A p \in DOMAIN Flushed : Flushed[p].folder = Known[p]
    BY FlushedIs
  <2>2. DOMAIN upserts' = {}
    BY <1>1, NothingFound
  <2>3. DOMAIN Known' = DOMAIN rows' /\ \A p \in DOMAIN rows' : Known'[p] = rows'[p].folder
    BY <2>2, KnownThen
  <2> QED
    BY <1>1, <2>1, <2>3
<1>5. CASE ~InSlot(r)
  <2>1. ASSUME Fresh(r), crawls[r].step = "none" PROVE InStepWith(Queue', Known', disk', r)
    <3>1. InStepWith(Queue, Known, disk, r) /\ Queue \in Seq(Event)
      BY <2>1 DEF RootTruth, QueueTruth
    <3>2. InStepWith(Queue, Known', disk, r)
      BY <1>4, <3>1, InStepSame
    <3> QED
      BY <1>1, <1>2, <3>2
  <2> QED
    BY <1>1, <1>3, <1>5, <2>1 DEF RootTruth
<1>6. CASE InSlot(r)
  <2>1. \A p \in DOMAIN rows' : p \in Trails
    BY DEF Typed, RowsTyped
  <2>2. RowsCarry(r)
    BY <1>1, <1>6, <2>1, FlushCarries
  <2> QED
    BY <1>1, <1>2, <1>6, <2>2, SlotDrained
<1> QED
  BY <1>5, <1>6

\* The next change is applied, and is not the last of what there is to know of it.
LEMMA NextApplies ==
    ASSUME Typed, NEW c \in Event, AppliesUpsert(c) \/ AppliesRemoval(c)
    PROVE  Applying(c, disk, Known, Known')
<1>1. c.kind \in {"created", "changed", "deleted", "renamed"}
  BY EventIs
<1>2. CASE AppliesUpsert(c)
  BY <1>2, CollectedApplies, MissingApplies
<1>3. CASE AppliesRemoval(c)
  <2>1. c.kind = "deleted" \/ c.kind = "renamed"
    BY <1>3 DEF AppliesRemoval
  <2> QED
    BY <1>3, <2>1, DeletionApplies, RenameApplies
<1> QED
  BY <1>2, <1>3

LEMMA NextCarries ==
    ASSUME Typed, Typed', NEW r \in Roots, RootTruth(r), InSlot(r), batch # <<>>, NEW c, c = Head(batch),
           disk' = disk, AppliesUpsert(c) \/ AppliesRemoval(c)
    PROVE  /\ RowsCarry(r)
           /\ \A p \in DOMAIN disk : Gives(c, p) /\ Under(p, r) => p \in DOMAIN upserts'
<1>1. SoundWith(Queue, disk, r) /\ CrawlOrder(r)
  BY DEF RootTruth
<1>2. batch \in Seq(Event) /\ c \in Event /\ batch[1] = c /\ 1 \in DOMAIN batch
  BY UntakenNext DEF Typed, QueueTyped
<1>3. \E i \in DOMAIN Queue : Queue[i] = c
  <2>1. batch \in Seq(Event) /\ pending \in Seq(Event)
    BY DEF Typed, QueueTyped
  <2>2. Queue \in Seq(Event) /\ Queue # <<>> /\ Head(Queue) = c
    BY <2>1, TailOfConcat DEF Queue
  <2>3. 1 \in DOMAIN Queue /\ Queue[1] = c
    BY <2>2, UntakenNext
  <2> QED
    BY <2>3
<1>4. /\ \A p \in DOMAIN rows' : p \in Trails
      /\ \A p \in DOMAIN rows : p \in Trails
      /\ \A p \in DOMAIN upserts : p \in Trails
      /\ \A p \in DOMAIN upserts' : p \in Trails
      /\ \A p \in DOMAIN disk : p \in Trails
      /\ \A p \in DOMAIN Flushed : p \in Trails
  BY FoundsIs, InsideIs, FlushedIs DEF Typed, RowsTyped, UpsertsTyped, DiskTyped
<1>5. c.path \in Trails /\ (c.kind = "renamed" => c.old \in Trails) /\ Len(c.path) > 1
  BY <1>2, EventIs
<1>6. \A p \in DOMAIN upserts : Under(p, r) => OnDisk(disk, p, upserts[p].folder) /\ batchGen >= crawls[r].gen
  BY <1>1 DEF SoundWith, CrawlOrder
<1>7. CASE RootOf(c.path) = r
  <2>1. c.kind \in {"created", "changed"} /\ c.path \in DOMAIN disk
    BY <1>1, <1>3, <1>7 DEF SoundWith
  <2>2. AppliesUpsert(c)
    BY <2>1 DEF AppliesRemoval
  <2>3. /\ rows' = rows
        /\ \A p \in Trails : p \in DOMAIN upserts' <=> p \in DOMAIN upserts \/ (p \in DOMAIN disk /\ Gives(c, p))
        /\ \A p \in DOMAIN disk : Gives(c, p) => upserts'[p].folder = disk[p]
        /\ \A p \in DOMAIN upserts : ~(p \in DOMAIN disk /\ Gives(c, p)) => upserts'[p] = upserts[p]
    BY <1>2, <2>1, <2>2, CollectedApplies
  <2>4. batchGen >= crawls[r].gen
    BY <1>1, <1>2, <1>7 DEF CrawlOrder
  <2>5. \A p \in DOMAIN upserts' : Under(p, r) => OnDisk(disk, p, upserts'[p].folder)
    <3> SUFFICES ASSUME NEW p \in DOMAIN upserts', Under(p, r) PROVE OnDisk(disk, p, upserts'[p].folder)
      OBVIOUS
    <3>1. CASE p \in DOMAIN disk /\ Gives(c, p)
      BY <2>3, <3>1 DEF OnDisk
    <3>2. CASE ~(p \in DOMAIN disk /\ Gives(c, p))
      <4>1. p \in DOMAIN upserts /\ upserts'[p] = upserts[p]
        BY <1>4, <2>3, <3>2
      <4> QED
        BY <1>6, <4>1
    <3> QED
      BY <3>1, <3>2
  <2> QED
    BY <1>4, <2>3, <2>4, <2>5 DEF RowsCarry
<1>8. CASE RootOf(c.path) # r
  <2>1. \A p \in Trails : Under(p, r) => /\ ~Gives(c, p) /\ ~Within(p, c.path)
                                         /\ c.kind = "renamed" => ~Within(p, c.old)
    <3> TAKE p \in Trails
    <3> HAVE Under(p, r)
    <3>1. RootOf(p) = r
      BY UnderRoot
    <3>2. ~Gives(c, p) /\ ~Takes(c, p) /\ ~Brings(c, p)
      BY <1>2, <1>8, <3>1, OfItsRoot
    <3>3. Len(c.path) >= 1
      BY <1>5, WithinIs
    <3>4. ~Within(p, c.path)
      BY <1>5, <1>8, <3>1, <3>3, WithinRoot
    <3> QED
      BY <3>2, <3>4 DEF Takes
  <2>2. \A p \in DOMAIN disk : ~(Gives(c, p) /\ Under(p, r))
    BY <1>4, <2>1
  <2>3. CASE AppliesUpsert(c) /\ c.path \in DOMAIN disk
    <3>1. /\ rows' = rows
          /\ \A p \in Trails : p \in DOMAIN upserts' <=> p \in DOMAIN upserts \/ (p \in DOMAIN disk /\ Gives(c, p))
          /\ \A p \in DOMAIN upserts : ~(p \in DOMAIN disk /\ Gives(c, p)) => upserts'[p] = upserts[p]
      BY <1>2, <2>3, CollectedApplies
    <3> QED
      BY <1>4, <1>6, <2>1, <2>2, <3>1 DEF RowsCarry
  <2>4. CASE AppliesUpsert(c) /\ c.path \notin DOMAIN disk
    <3>1. /\ upserts' = upserts
          /\ \A p : p \in DOMAIN rows' <=> p \in DOMAIN rows /\ ~Within(p, c.path)
          /\ \A p \in DOMAIN rows' : rows'[p] = rows[p]
      BY <1>2, <2>4, MissingApplies
    <3> QED
      BY <1>4, <1>6, <2>1, <2>2, <3>1 DEF RowsCarry
  <2>5. CASE AppliesRemoval(c)
    <3>1. c.kind = "deleted" \/ c.kind = "renamed"
      BY <2>5 DEF AppliesRemoval
    <3>2. CASE c.kind = "deleted"
      <4>1. /\ upserts' = <<>>
            /\ \A p : p \in DOMAIN rows' <=> p \in DOMAIN Flushed /\ ~Within(p, c.path)
            /\ \A p \in DOMAIN rows' : rows'[p] = Flushed[p]
        BY <1>2, <2>5, <3>2, DeletionApplies
      <4>2. \A p \in Trails : Under(p, r) => /\ p \in DOMAIN rows' <=> p \in DOMAIN Flushed
                                             /\ p \in DOMAIN rows' => rows'[p] = Flushed[p]
        BY <2>1, <4>1
      <4>3. RowsCarry(r)
        BY <1>4, <4>1, <4>2, FlushCarries
      <4> QED
        BY <2>2, <4>3
    <3>3. CASE c.kind = "renamed"
      <4>1. /\ upserts' = <<>>
            /\ \A p \in DOMAIN rows' : \/ p \in DOMAIN Flushed /\ rows'[p] = Flushed[p]
                                       \/ p \in Trails /\ Within(p, c.path)
            /\ \A p \in DOMAIN Flushed : ~Within(p, c.path) /\ ~Within(p, c.old)
                                            => p \in DOMAIN rows' /\ rows'[p] = Flushed[p]
        BY <1>2, <2>5, <3>3, RenameApplies
      <4>2. \A p \in Trails : Under(p, r) => /\ p \in DOMAIN rows' <=> p \in DOMAIN Flushed
                                             /\ p \in DOMAIN rows' => rows'[p] = Flushed[p]
        BY <2>1, <3>3, <4>1
      <4>3. RowsCarry(r)
        BY <1>4, <4>1, <4>2, FlushCarries
      <4> QED
        BY <2>2, <4>3
    <3> QED
      BY <3>1, <3>2, <3>3
  <2> QED
    BY <2>3, <2>4, <2>5
<1> QED
  BY <1>7, <1>8

LEMMA ApplyTruth ==
    ASSUME Typed, Typed', QueueTruth, NEW r \in Roots, RootTruth(r), ApplyNext, "drain fails" \notin Circumstances
    PROVE  RootTruth(r)'
<1> DEFINE c == Head(batch)
<1>1. /\ disk' = disk /\ roots' = roots /\ watched' = watched /\ batchGen' = batchGen /\ crawls' = crawls
      /\ pending' = pending /\ batch # <<>> /\ batch' = Tail(batch)
      /\ AppliesUpsert(c) \/ AppliesRemoval(c)
  BY DEF ApplyNext, diskVars
<1>2. /\ Queue' = Tail(Queue) /\ Queue # <<>> /\ Queue \in Seq(Event) /\ Head(Queue) = c /\ c \in Event
  BY <1>1, QueueNext
<1>4. (Fresh(r)' <=> Fresh(r)) /\ (InSlot(r)' <=> InSlot(r))
  BY <1>1 DEF Fresh, InSlot, IsWatched
<1> HIDE DEF c
<1>5. CASE ~InSlot(r)
  <2>1. ASSUME Fresh(r), crawls[r].step = "none" PROVE InStepWith(Queue', Known', disk', r)
    <3>1. InStepWith(Queue, Known, disk, r) /\ RenamesFirst(Queue)
      BY <2>1 DEF RootTruth, QueueTruth
    <3>2. Applying(c, disk, Known, Known')
      BY <1>1, <1>2, NextApplies
    <3>3. InStepWith(Tail(Queue), Known', disk, r)
      BY <1>2, <3>1, <3>2, InStepNext
    <3> QED
      BY <1>1, <1>2, <3>3
  <2> QED
    BY <1>1, <1>4, <1>5, <2>1 DEF RootTruth
<1>6. CASE InSlot(r)
  <2>1. RowsCarry(r) /\ \A p \in DOMAIN disk : Gives(c, p) /\ Under(p, r) => p \in DOMAIN upserts'
    BY <1>1, <1>6, NextCarries DEF c
  <2>2. \A i \in DOMAIN Queue' : \E j \in DOMAIN Queue : Queue'[i] = Queue[j]
    BY <1>2, TailIs
  <2>3. \A i \in DOMAIN batch' : \E j \in DOMAIN batch : batch'[i] = batch[j]
    BY <1>1, TailIs DEF Typed, QueueTyped
  <2>4. \A i \in DOMAIN Queue : Queue[i] = c \/ \E j \in DOMAIN Queue' : Queue'[j] = Queue[i]
    BY <1>2, TailIs
  <2>5. \A i \in DOMAIN Queue, p \in DOMAIN disk :
            Gives(Queue[i], p) /\ Under(p, r) => \/ \E j \in DOMAIN Queue' : Queue'[j] = Queue[i]
                                                 \/ p \in DOMAIN upserts'
    BY <2>1, <2>4
  <2> QED
    BY <1>1, <1>6, <2>1, <2>2, <2>3, <2>5, SlotDrained
<1> QED
  BY <1>5, <1>6

--------------------------------------------------------------------------------
(* At first nothing is fresh, and after a restart nothing is noticed and nothing is fresh. *)

LEMMA NothingQueued ==
    ASSUME batch' = <<>>, pending' = <<>>
    PROVE  QueueTruth'
<1>1. <<>> \in Seq(Event) /\ <<>> \o <<>> = <<>>
  BY EmptySeq, ConcatEmptySeq
<1>2. Queue' = <<>>
  BY <1>1 DEF Queue
<1>3. RenamesFirst(<<>>)
  BY NothingFound DEF RenamesFirst
<1> QED
  BY <1>1, <1>2, <1>3 DEF QueueTruth

LEMMA TruthAtFirst ==
    ASSUME Init
    PROVE  InTruth
<1>1. <<>> \in Seq(Event) /\ <<>> \o <<>> = <<>> /\ DOMAIN <<>> = {}
  BY EmptySeq, ConcatEmptySeq, NothingFound
<1>2. Queue = <<>>
  BY <1>1 DEF Queue, Init
<1>3. RenamesFirst(<<>>)
  BY NothingFound DEF RenamesFirst
<1>4. \A r \in Roots : ~Fresh(r) /\ ~InSlot(r)
  <2> TAKE r \in Roots
  <2>1. crawls[r].step = "none"
    BY DEF Init, Idle
  <2>2. r \notin DOMAIN roots
    BY <1>1 DEF Init
  <2> QED
    BY <2>1, <2>2 DEF Fresh, InSlot
<1> QED
  BY <1>1, <1>2, <1>3, <1>4 DEF InTruth, Told

LEMMA RestartTruth ==
    ASSUME Restarts
    PROVE  InTruth'
<1>1. QueueTruth'
  BY NothingQueued DEF Restarts
<1>2. ASSUME NEW r \in Roots PROVE RootTruth(r)'
  <2>1. crawls'[r].step = "none"
    BY DEF Restarts, Idle
  <2>2. ~IsWatched(r)'
    BY NothingFound DEF Restarts, IsWatched
  <2> QED
    BY <2>1, <2>2 DEF RootTruth, Fresh, InSlot
<1> QED
  BY <1>1, <1>2 DEF InTruth, Told, QueueTruth, RootTruth

LEMMA ProgramsTruth ==
    ASSUME Typed, InTruth, Circumstances = {}, ProgramsAct
    PROVE  InTruth'
<1>1. /\ rows' = rows /\ roots' = roots /\ watched' = watched /\ batch' = batch /\ batchGen' = batchGen
      /\ upserts' = upserts /\ crawls' = crawls
  BY DEF ProgramsAct, Creates, Writes, Deletes, Moves, Changed
<1>2. Told(Queue', disk') /\ \A r \in Roots : InSlot(r) => CrawlOrder(r)
  BY ProgramsTold DEF InTruth
<1>3. Told(Queue, disk)'
  BY <1>1, <1>2 DEF Told, Fresh, InSlot, IsWatched, Known, SoundWith, WholeWith
<1>4. \A r \in Roots : InSlot(r)' => CrawlOrder(r)'
  BY <1>1, <1>2 DEF InSlot, CrawlOrder
<1> QED
  BY <1>3, <1>4 DEF InTruth

LEMMA TruthNext ==
    ASSUME Typed, Typed', InTruth, Circumstances = {}, [Next]_vars
    PROVE  InTruth'
<1>1. QueueTruth /\ \A r \in Roots : RootTruth(r)
  BY TruthIs
<1> DEFINE Then == QueueTruth' /\ \A r \in Roots : RootTruth(r)'
<1>2. Then => InTruth'
  BY DEF InTruth, Told, QueueTruth, RootTruth
<1>3. CASE ProgramsAct
  BY <1>3, ProgramsTruth
<1>4. CASE DrainActs
  <2>1. QueueTruth'
    BY <1>1, <1>4, QueueStays
  <2>2. ASSUME NEW r \in Roots PROVE RootTruth(r)'
    BY <1>1, <1>4, DrainsTruth, FlushTruth, ApplyTruth DEF DrainActs
  <2> QED
    BY <1>2, <2>1, <2>2
<1>5. CASE Restarts
  BY <1>5, RestartTruth
<1>6. ASSUME NEW r \in Roots, Searches(r) \/ CrawlActs(r) \/ WatcherFails(r)
      PROVE  InTruth'
  <2>1. batch' = batch /\ pending' = pending
    BY <1>6 DEF Searches, CrawlActs, Attaches, Begins, Lists, WritesFound, Sweeps, Registers, WatcherFails, drainVars
  <2>2. QueueTruth'
    BY <1>1, <2>1 DEF QueueTruth, Queue
  <2>3. ASSUME NEW s \in Roots PROVE RootTruth(s)'
    BY <1>1, <1>6, SearchTruth, CrawlTruth, FailTruth
  <2> QED
    BY <1>2, <2>2, <2>3
<1>7. CASE UNCHANGED vars
  <2>1. /\ disk' = disk /\ rows' = rows /\ roots' = roots /\ watched' = watched /\ pending' = pending
        /\ batch' = batch /\ batchGen' = batchGen /\ upserts' = upserts /\ crawls' = crawls
    BY <1>7 DEF vars, diskVars, drainVars
  <2> QED
    BY <2>1 DEF InTruth, Told, Queue, Known, Fresh, InSlot, IsWatched, SoundWith, WholeWith, CrawlOrder
<1> QED
  BY <1>3, <1>4, <1>5, <1>6, <1>7 DEF Next

LEMMA TruthIsFresh ==
    ASSUME Typed, InTruth
    PROVE  FreshIsTrue
<1> SUFFICES ASSUME NEW r \in Roots, Fresh(r), Settled(r)
             PROVE  /\ {p \in DOMAIN rows : Under(p, r)} = {p \in DOMAIN disk : Under(p, r)}
                    /\ \A p \in DOMAIN disk : Under(p, r) => rows[p].folder = disk[p]
  BY DEF FreshIsTrue
<1>1. InStepWith(Queue, Known, disk, r) /\ Applied(r)
  BY DEF InTruth, Told, Settled
<1>2. /\ \A i \in DOMAIN Queue : RootOf(Queue[i].path) # r
      /\ \A p \in DOMAIN upserts : ~Under(p, r)
  BY <1>1, AppliedIs
<1>3. \A p \in Trails : Under(p, r) => /\ p \in DOMAIN disk <=> p \in DOMAIN Known
                                       /\ p \in DOMAIN disk => Known[p] = disk[p]
  BY <1>1, <1>2, QueueHolds, InStepAtLast
<1>4. (\A p \in DOMAIN rows : p \in Trails) /\ (\A p \in DOMAIN disk : p \in Trails)
  BY InsideIs DEF Typed, RowsTyped, DiskTyped
<1>5. ASSUME NEW p \in Trails, Under(p, r)
      PROVE  (p \in DOMAIN Known <=> p \in DOMAIN rows) /\ (p \in DOMAIN Known => Known[p] = rows[p].folder)
  BY <1>2, <1>5, KnownIs
<1> QED
  BY <1>3, <1>4, <1>5

\* Nothing that was dropped, evicted, forgotten by a restart or overtaken leaves a root fresh
\* whose rows are not what is on the disk (search_service.rs, index_crawler.rs,
\* index_watcher.rs): for any names, roots, watchers and slots, and however many changes,
\* crawls and restarts there are.  Each of the circumstances is known to break it.
THEOREM FreshTrue ==
    ASSUME Circumstances = {}
    PROVE  Spec => []FreshIsTrue
<1>1. Init => Typed /\ InTruth
  BY TypedAtFirst, TruthAtFirst
<1>2. Typed /\ InTruth /\ [Next]_vars => (Typed /\ InTruth)'
  BY TypedNext, TruthNext
<1>3. Typed /\ InTruth => FreshIsTrue
  BY TruthIsFresh
<1> QED
  BY <1>1, <1>2, <1>3, PTL DEF Spec
================================================================================
