----------------------------- MODULE HostFeed_proofs -----------------------------
(***************************************************************************)
(* One helper process keeps IndexFeed's promise to every app that attaches *)
(* to it: whatever messages are on the line, each step of the volume       *)
(* threads, of the serving thread and of the app is a step of IndexFeed or *)
(* changes nothing it speaks of.  The line is what makes it hard: what an  *)
(* app is shown was written some time ago, while builds went on.           *)
(***************************************************************************)
EXTENDS HostFeed, FiniteSetTheorems, WellFoundedInduction, TLAPS

--------------------------------------------------------------------------------
(* What the host's news hold. *)

\* Counting from zero, one by one, reaches every number.
LEMMA Counting ==
    ASSUME NEW T \in SUBSET Nat, 0 \in T, \A n \in T : n + 1 \in T
    PROVE  T = Nat
<1> SUFFICES ASSUME T # Nat PROVE FALSE
  OBVIOUS
<1> DEFINE U == Nat \ T
<1>1. U \in SUBSET Nat /\ U # {}
  OBVIOUS
<1>2. PICK m \in U : \A k \in U : ~(<<k, m>> \in OpToRel(<, Nat))
  BY <1>1, WFMin, NatLessThanWellFounded
<1>3. \A k \in U : ~(k < m)
  BY <1>1, <1>2 DEF OpToRel
<1>4. m # 0 /\ m - 1 \in Nat /\ m - 1 \notin U
  BY <1>3
<1> QED
  BY <1>4

Holds(q, x) == \E i \in 1..Len(q) : q[i] = x

LEMMA HoldsNone == \A x : ~Holds(<<>>, x)
  BY DEF Holds

LEMMA HoldsOne == \A m, x : Holds(<<m>>, x) <=> x = m
  BY DEF Holds

LEMMA HoldsJoined ==
    ASSUME NEW M, NEW p \in Seq(M), NEW q \in Seq(M), NEW x
    PROVE  p \o q \in Seq(M) /\ (Holds(p \o q, x) <=> Holds(p, x) \/ Holds(q, x))
<1>1. PICK s : s = p \o q
  OBVIOUS
<1>2. /\ s \in Seq(M) /\ Len(s) = Len(p) + Len(q) /\ Len(p) \in Nat /\ Len(q) \in Nat
      /\ \A i \in 1..Len(p) : s[i] = p[i]
      /\ \A i \in 1..Len(q) : s[Len(p) + i] = q[i]
  BY <1>1
<1>3. ASSUME Holds(p, x) PROVE Holds(s, x)
  BY <1>2, <1>3 DEF Holds
<1>4. ASSUME Holds(q, x) PROVE Holds(s, x)
  <2>1. PICK i \in 1..Len(q) : q[i] = x
    BY <1>4 DEF Holds
  <2>2. Len(p) + i \in 1..Len(s)
    BY <1>2
  <2> QED
    BY <1>2, <2>1, <2>2 DEF Holds
<1>5. ASSUME Holds(s, x) PROVE Holds(p, x) \/ Holds(q, x)
  <2>1. PICK i \in 1..Len(s) : s[i] = x
    BY <1>5 DEF Holds
  <2>2. CASE i <= Len(p)
    BY <1>2, <2>1, <2>2 DEF Holds
  <2>3. CASE ~(i <= Len(p))
    <3>1. i - Len(p) \in 1..Len(q) /\ Len(p) + (i - Len(p)) = i
      BY <1>2, <2>3
    <3> QED
      BY <1>2, <2>1, <3>1 DEF Holds
  <2> QED
    BY <2>2, <2>3
<1> QED
  BY <1>1, <1>2, <1>3, <1>4, <1>5

\* g[i] joins the first i of seqs, for i up to k.
Joined(p, q) == p \o q
JoinedAt(g, seqs, i) == IF i = 1 THEN seqs[i] ELSE Joined(g[i - 1], seqs[i])
JoinedUpTo(g, seqs, k) == g = [i \in 1..k |-> JoinedAt(g, seqs, i)]
CanJoin(seqs, k) == \E g : JoinedUpTo(g, seqs, k)

LEMMA JoinOneMore ==
    ASSUME NEW seqs, NEW k \in Nat, CanJoin(seqs, k)
    PROVE  CanJoin(seqs, k + 1)
<1>1. PICK g : JoinedUpTo(g, seqs, k)
  BY DEF CanJoin
<1>2. \A i \in 1..k : g[i] = JoinedAt(g, seqs, i)
  BY <1>1 DEF JoinedUpTo
<1> DEFINE h == [i \in 1..(k + 1) |-> JoinedAt(g, seqs, i)]
<1>3. \A i \in 1..k : h[i] = g[i]
  BY <1>2
<1>4. \A i \in 1..(k + 1) : i # 1 => h[i - 1] = g[i - 1]
  <2> HIDE DEF h
  <2> TAKE i \in 1..(k + 1)
  <2>1. CASE i # 1
    <3>1. i - 1 \in 1..k
      BY <2>1
    <3> QED
      BY <1>3, <3>1
  <2> QED
    BY <2>1
<1>5. \A i \in 1..(k + 1) : JoinedAt(h, seqs, i) = JoinedAt(g, seqs, i)
  <2> HIDE DEF h
  <2> TAKE i \in 1..(k + 1)
  <2>1. CASE i = 1
    BY <2>1 DEF JoinedAt
  <2>2. CASE i # 1
    <3>1. h[i - 1] = g[i - 1]
      BY <1>4, <2>2
    <3> QED
      BY <2>2, <3>1 DEF JoinedAt
  <2> QED
    BY <2>1, <2>2
<1>6. h = [i \in 1..(k + 1) |-> JoinedAt(h, seqs, i)]
  BY <1>5
<1> HIDE DEF h
<1> QED
  BY <1>6 DEF CanJoin, JoinedUpTo

\* FlattenSeq holds what the sequences hold.
FlatUpTo(M, seqs, q, k) ==
    q \in Seq(M) /\ \A x : Holds(q, x) <=> \E i \in 1..k : Holds(seqs[i], x)

LEMMA FlatOneMore ==
    ASSUME NEW M, NEW seqs, NEW q, NEW k \in Nat, FlatUpTo(M, seqs, q, k), seqs[k + 1] \in Seq(M)
    PROVE  FlatUpTo(M, seqs, Joined(q, seqs[k + 1]), k + 1)
<1>1. \A x : Holds(Joined(q, seqs[k + 1]), x) <=> Holds(q, x) \/ Holds(seqs[k + 1], x)
  BY HoldsJoined DEF Joined, FlatUpTo
<1>2. Joined(q, seqs[k + 1]) \in Seq(M)
  BY DEF Joined, FlatUpTo
<1>3. 1..(k + 1) = 1..k \union {k + 1}
  OBVIOUS
<1> QED
  BY <1>1, <1>2, <1>3 DEF FlatUpTo

LEMMA Flattened ==
    ASSUME NEW M, NEW n \in Nat, NEW seqs \in [1..n -> Seq(M)]
    PROVE  FlatUpTo(M, seqs, FlattenSeq(seqs), n)
<1>0. seqs \in Seq(Seq(M)) /\ Len(seqs) = n
  OBVIOUS
<1>1. CASE n = 0
  <2>1. FlattenSeq(seqs) = seqs /\ 1..0 = {}
    BY <1>0, <1>1 DEF FlattenSeq
  <2>2. seqs = <<>>
    BY <1>0, <1>1
  <2> QED
    BY <1>1, <2>1, <2>2, HoldsNone DEF FlatUpTo
<1>2. CASE n # 0
  <2> DEFINE T == {k \in Nat : CanJoin(seqs, k)}
  <2>1. 0 \in T
    <3>1. JoinedUpTo(<<>>, seqs, 0)
      BY DEF JoinedUpTo
    <3> QED
      BY <3>1 DEF CanJoin
  <2>2. \A k \in T : k + 1 \in T
    BY JoinOneMore
  <2>3. T = Nat
    <3>1. T \in SUBSET Nat
      OBVIOUS
    <3> HIDE DEF T
    <3> QED
      BY <2>1, <2>2, <3>1, Counting
  <2>4. CanJoin(seqs, n)
    BY <2>3
  <2> HIDE DEF T
  <2> DEFINE f == CHOOSE g : JoinedUpTo(g, seqs, n)
  <2>5. JoinedUpTo(f, seqs, n)
    BY <2>4 DEF CanJoin
  <2>6. FlattenSeq(seqs) = f[n]
    BY <1>0, <1>2 DEF FlattenSeq, JoinedUpTo, JoinedAt, Joined
  <2> HIDE DEF f
  <2>7. \A i \in 1..n : f[i] = JoinedAt(f, seqs, i)
    BY <2>5 DEF JoinedUpTo
  <2> DEFINE R == {k \in Nat : k \in 1..n => FlatUpTo(M, seqs, f[k], k)}
  <2>8. 0 \in R
    OBVIOUS
  <2>9. ASSUME NEW k \in R PROVE k + 1 \in R
    <3>0. k \in Nat /\ (k \in 1..n => FlatUpTo(M, seqs, f[k], k))
      OBVIOUS
    <3> HIDE DEF R
    <3>1. ASSUME k + 1 \in 1..n PROVE FlatUpTo(M, seqs, f[k + 1], k + 1)
      <4>1. CASE k = 0
        <5>1. k + 1 = 1 /\ 1 \in 1..n /\ 1..1 = {1}
          BY <3>1, <4>1
        <5>2. f[1] = seqs[1] /\ seqs[1] \in Seq(M)
          BY <2>7, <5>1 DEF JoinedAt
        <5>3. FlatUpTo(M, seqs, f[1], 1)
          BY <5>1, <5>2 DEF FlatUpTo
        <5> QED
          BY <5>1, <5>3
      <4>2. CASE k # 0
        <5>1. k \in 1..n /\ FlatUpTo(M, seqs, f[k], k) /\ seqs[k + 1] \in Seq(M)
          BY <3>0, <3>1, <4>2
        <5>2. k + 1 # 1 /\ (k + 1) - 1 = k
          BY <3>0, <4>2
        <5>3. f[k + 1] = Joined(f[k], seqs[k + 1])
          BY <2>7, <3>1, <5>2 DEF JoinedAt
        <5> QED
          BY <3>0, <5>1, <5>3, FlatOneMore
      <4> QED
        BY <4>1, <4>2
    <3> QED
      BY <3>0, <3>1 DEF R
  <2>10. R \in SUBSET Nat
    OBVIOUS
  <2> HIDE DEF R
  <2>11. R = Nat
    BY <2>8, <2>9, <2>10, Counting
  <2>12. FlatUpTo(M, seqs, f[n], n)
    <3>1. n \in R /\ n \in 1..n
      BY <1>2, <2>11
    <3> QED
      BY <3>1 DEF R
  <2> QED
    BY <2>6, <2>12
<1> QED
  BY <1>1, <1>2

\* SetToSeq lists every volume of a set.
LEMMA InOrder ==
    ASSUME NEW S \in SUBSET Drives
    PROVE  \E n \in Nat : /\ SetToSeq(S) \in [1..n -> S]
                          /\ \A d \in S : \E i \in 1..n : SetToSeq(S)[i] = d
<1> DEFINE n == Cardinality(S)
           s == SetToSeq(S)
<1>1. IsFiniteSet(S) /\ n \in Nat /\ ExistsBijection(1..n, S)
  BY HelperAssumption, FS_Subset, FS_CardinalityType
<1> HIDE DEF n
<1>2. \E f \in [1..n -> S] : IsInjective(f)
  BY <1>1 DEF ExistsBijection, Bijection, Injection, IsInjective
<1>3. s \in [1..n -> S] /\ IsInjective(s)
  BY <1>2 DEF SetToSeq, n
<1> HIDE DEF s
<1>4. s \in Injection(1..n, S)
  BY <1>3 DEF Injection, IsInjective
<1>5. IsFiniteSet(1..n) /\ Cardinality(1..n) = n
  BY <1>1, FS_Interval
<1>6. s \in Surjection(1..n, S)
  BY <1>1, <1>4, <1>5, FS_Injection DEF n
<1> QED
  BY <1>1, <1>3, <1>6 DEF Surjection, s

Begins(d)      == Msg("Building", d)
Ends(d)        == Msg("Idle", d)
Finishes(d)    == Msg("Complete", d)
Reaches(d, p)  == Msg("Progress", <<d, p>>)
Others         == {Msg("Hello", v) : v \in Versions} \union {Msg("Ready", 0)}

\* What a helper writes to an app it does not turn away.
FeedMsgs == {Begins(d) : d \in Drives} \union {Ends(d) : d \in Drives} \union {Finishes(d) : d \in Drives}
            \union {Reaches(news[1], news[2]) : news \in Drives \X Percents} \union Others

Buildings == [Drives -> Percents \union {Off}]

\* No message is two things.
LEMMA Apart ==
    /\ \A d, e : (Begins(d) = Begins(e) => d = e) /\ (Ends(d) = Ends(e) => d = e) /\ (Finishes(d) = Finishes(e) => d = e)
    /\ \A d, e : Begins(d) # Ends(e) /\ Begins(d) # Finishes(e) /\ Ends(d) # Finishes(e)
    /\ \A d, e, p : Reaches(e, p) # Begins(d) /\ Reaches(e, p) # Ends(d) /\ Reaches(e, p) # Finishes(d)
    /\ \A m \in Others : \A d : m # Begins(d) /\ m # Ends(d) /\ m # Finishes(d)
<1>1. \A a, b, u, v : Msg(u, a) = Msg(v, b) => u = v /\ a = b
  BY DEF Msg
<1>2. \A d, e : (Begins(d) = Begins(e) => d = e) /\ (Ends(d) = Ends(e) => d = e) /\ (Finishes(d) = Finishes(e) => d = e)
  BY <1>1, Zenon DEF Begins, Ends, Finishes
<1>3. \A d, e : Begins(d) # Ends(e) /\ Begins(d) # Finishes(e) /\ Ends(d) # Finishes(e)
  BY <1>1 DEF Begins, Ends, Finishes
<1>4. \A d, e, p : Reaches(e, p) # Begins(d) /\ Reaches(e, p) # Ends(d) /\ Reaches(e, p) # Finishes(d)
  BY <1>1 DEF Begins, Ends, Finishes, Reaches
<1>5. ASSUME NEW m \in Others PROVE \A d : m # Begins(d) /\ m # Ends(d) /\ m # Finishes(d)
  <2>1. m = Msg("Ready", 0) \/ \E v \in Versions : m = Msg("Hello", v)
    BY DEF Others
  <2> QED
    BY <1>1, <2>1 DEF Begins, Ends, Finishes
<1> QED
  BY <1>2, <1>3, <1>4, <1>5

LEMMA KindsTyped ==
    /\ \A d \in Drives : Begins(d) \in FeedMsgs /\ Ends(d) \in FeedMsgs /\ Finishes(d) \in FeedMsgs
    /\ \A d \in Drives, p \in Percents : Reaches(d, p) \in FeedMsgs
    /\ \A m \in Others : m \in FeedMsgs
<1>1. \A d \in Drives, p \in Percents : \E news \in Drives \X Percents : Reaches(d, p) = Reaches(news[1], news[2])
  <2> TAKE d \in Drives, p \in Percents
  <2>1. <<d, p>> \in Drives \X Percents /\ <<d, p>>[1] = d /\ <<d, p>>[2] = p
    OBVIOUS
  <2> QED
    BY <2>1
<1> QED
  BY <1>1 DEF FeedMsgs

\* What the news say: of a build this app has not heard of that it is on, of one it has heard of
\* that it is over, of one that is on how far it is, and nothing else.
LEMMA NewsHold ==
    ASSUME NEW now \in Buildings, reported \in Buildings
    PROVE  /\ News(now) \in Seq(FeedMsgs)
           /\ \A x : Holds(News(now), x)
                 => \/ \E d \in Drives : now[d] # Off /\ reported[d] = Off /\ x = Begins(d)
                    \/ \E d \in Drives : now[d] \in Percents /\ x = Reaches(d, now[d])
                    \/ \E d \in Drives : now[d] = Off /\ reported[d] # Off /\ x = Ends(d)
           /\ \A d \in Drives : now[d] # Off /\ reported[d] = Off => Holds(News(now), Begins(d))
<1> DEFINE started == {d \in Drives : now[d] # Off}
           stopped == {d \in Drives : now[d] = Off /\ reported[d] # Off}
           first(d) == IF reported[d] = Off THEN <<Begins(d)>> ELSE <<>>
           then(d) == IF now[d] # (IF reported[d] = Off THEN Unsaid ELSE reported[d])
                      THEN <<Reaches(d, now[d])>> ELSE <<>>
           telling(d) == first(d) \o then(d)
           s == SetToSeq(started)
           t == SetToSeq(stopped)
           seqs == [i \in DOMAIN s |-> telling(s[i])]
           idle == [i \in DOMAIN t |-> Ends(t[i])]
<1>1. News(now) = FlattenSeq(seqs) \o idle
  BY DEF News, Begins, Ends, Reaches
<1> HIDE DEF s, t
<1>2. PICK n \in Nat : s \in [1..n -> started] /\ \A d \in started : \E i \in 1..n : s[i] = d
  BY InOrder DEF s
<1>3. PICK m \in Nat : t \in [1..m -> stopped] /\ \A d \in stopped : \E i \in 1..m : t[i] = d
  BY InOrder DEF t
<1>4. ASSUME NEW d \in started
      PROVE  /\ telling(d) \in Seq(FeedMsgs)
             /\ \A x : Holds(telling(d), x) => (reported[d] = Off /\ x = Begins(d)) \/ x = Reaches(d, now[d])
             /\ reported[d] = Off => Holds(telling(d), Begins(d))
             /\ now[d] \in Percents
  <2>1. now[d] \in Percents
    BY DEF Buildings
  <2>2. first(d) \in Seq(FeedMsgs) /\ then(d) \in Seq(FeedMsgs)
    <3>1. Begins(d) \in FeedMsgs /\ Reaches(d, now[d]) \in FeedMsgs
      BY <2>1, KindsTyped
    <3> QED
      BY <3>1
  <2>3. \A x : Holds(first(d), x) <=> reported[d] = Off /\ x = Begins(d)
    BY HoldsNone, HoldsOne
  <2>4. \A x : Holds(then(d), x) => x = Reaches(d, now[d])
    BY HoldsNone, HoldsOne
  <2> HIDE DEF first, then
  <2>5. \A x : Holds(telling(d), x) <=> Holds(first(d), x) \/ Holds(then(d), x)
    BY <2>2, HoldsJoined
  <2>6. telling(d) \in Seq(FeedMsgs)
    BY <2>2
  <2> HIDE DEF telling
  <2> QED
    BY <2>1, <2>3, <2>4, <2>5, <2>6
<1> HIDE DEF first, then, telling
<1>5. seqs \in [1..n -> Seq(FeedMsgs)] /\ \A i \in 1..n : seqs[i] = telling(s[i])
  <2>1. DOMAIN s = 1..n /\ \A i \in 1..n : s[i] \in started
    BY <1>2
  <2> QED
    BY <1>4, <2>1
<1> HIDE DEF seqs
<1>6. FlatUpTo(FeedMsgs, seqs, FlattenSeq(seqs), n)
  BY <1>5, Flattened
<1>7. idle \in Seq(FeedMsgs) /\ \A x : Holds(idle, x) => \E d \in stopped : x = Ends(d)
  <2>1. DOMAIN t = 1..m /\ \A i \in 1..m : t[i] \in stopped
    BY <1>3
  <2>2. idle \in [1..m -> FeedMsgs] /\ \A i \in 1..m : idle[i] = Ends(t[i])
    BY <2>1, KindsTyped
  <2> HIDE DEF idle
  <2>3. idle \in Seq(FeedMsgs) /\ Len(idle) = m
    BY <2>2
  <2> QED
    BY <2>1, <2>2, <2>3 DEF Holds
<1> HIDE DEF idle
<1>8. /\ News(now) \in Seq(FeedMsgs)
      /\ \A x : Holds(News(now), x) <=> Holds(FlattenSeq(seqs), x) \/ Holds(idle, x)
  BY <1>1, <1>6, <1>7, HoldsJoined DEF FlatUpTo
<1>9. \A x : Holds(FlattenSeq(seqs), x) <=> \E i \in 1..n : Holds(telling(s[i]), x)
  BY <1>5, <1>6 DEF FlatUpTo
<1>10. \A i \in 1..n : s[i] \in started
  BY <1>2
<1>11. ASSUME NEW x, Holds(News(now), x)
       PROVE  \/ \E d \in Drives : now[d] # Off /\ reported[d] = Off /\ x = Begins(d)
              \/ \E d \in Drives : now[d] \in Percents /\ x = Reaches(d, now[d])
              \/ \E d \in Drives : now[d] = Off /\ reported[d] # Off /\ x = Ends(d)
  <2>1. CASE Holds(idle, x)
    BY <1>7, <2>1
  <2>2. CASE Holds(FlattenSeq(seqs), x)
    <3>1. PICK i \in 1..n : Holds(telling(s[i]), x)
      BY <1>9, <2>2
    <3>2. PICK d : d = s[i]
      OBVIOUS
    <3>3. d \in started /\ Holds(telling(d), x)
      BY <1>10, <3>1, <3>2
    <3>4. d \in Drives /\ now[d] # Off /\ now[d] \in Percents
          /\ ((reported[d] = Off /\ x = Begins(d)) \/ x = Reaches(d, now[d]))
      BY <1>4, <3>3
    <3> QED
      BY <3>4
  <2> QED
    BY <1>8, <1>11, <2>1, <2>2
<1>12. ASSUME NEW d \in Drives, now[d] # Off, reported[d] = Off PROVE Holds(News(now), Begins(d))
  <2>1. d \in started
    BY <1>12
  <2>2. PICK i \in 1..n : s[i] = d
    BY <1>2, <2>1
  <2>3. Holds(telling(s[i]), Begins(d))
    BY <1>4, <1>12, <2>1, <2>2
  <2> QED
    BY <1>8, <1>9, <2>3
<1> QED
  BY <1>8, <1>11, <1>12

--------------------------------------------------------------------------------
(* What is on the line to the app. *)

\* A build that was, and is no more.  There is no second one.
Past(d) == d \in begun /\ service.building[d] = Off

\* What the app shows as building, or has.
Seen == {d \in Drives : view.building[d] # Off} \union takenDown

\* What a message says is so, and stays so.
Honest(m) == \A d \in Drives : /\ m = Begins(d) => d \in begun
                               /\ m = Ends(d) => Past(d)
                               /\ m = Finishes(d) => d \in service.completed

\* A build is not told to begin when it was told to end, nor to end when it was not told to begin.
InTurn(q, seen, down) ==
    \A d \in Drives, i \in 1..Len(q) :
        /\ q[i] = Begins(d) => d \notin down /\ \A j \in 1..(i - 1) : q[j] # Ends(d)
        /\ q[i] = Ends(d) => d \in seen \/ \E j \in 1..(i - 1) : q[j] = Begins(d)

Line == /\ \A x : Holds(toApp, x) => Honest(x)
        /\ InTurn(toApp, Seen, takenDown)
        /\ \A d \in Drives : reported[d] # Off => d \in Seen \/ Holds(toApp, Begins(d))

LEMMA TurnGrows ==
    ASSUME NEW p \in Seq(FeedMsgs), NEW r \in Seq(FeedMsgs), NEW seen, NEW down, InTurn(p, seen, down),
           \A d \in Drives : Holds(r, Begins(d)) => d \notin down /\ ~Holds(p, Ends(d)) /\ ~Holds(r, Ends(d)),
           \A d \in Drives : Holds(r, Ends(d)) => d \in seen \/ Holds(p, Begins(d))
    PROVE  InTurn(p \o r, seen, down)
<1>1. PICK q : q = p \o r
  OBVIOUS
<1>2. /\ q \in Seq(FeedMsgs) /\ Len(q) = Len(p) + Len(r) /\ Len(p) \in Nat /\ Len(r) \in Nat
      /\ \A i \in 1..Len(p) : q[i] = p[i]
      /\ \A i \in 1..Len(r) : q[Len(p) + i] = r[i]
  BY <1>1
<1>3. ASSUME NEW i \in 1..Len(q), NEW x, q[i] = x
      PROVE  \/ i \in 1..Len(p) /\ p[i] = x
             \/ i > Len(p) /\ Holds(r, x)
  <2>1. CASE i <= Len(p)
    BY <1>2, <1>3, <2>1
  <2>2. CASE ~(i <= Len(p))
    <3>1. i - Len(p) \in 1..Len(r) /\ Len(p) + (i - Len(p)) = i
      BY <1>2, <2>2
    <3>2. r[i - Len(p)] = q[i]
      BY <1>2, <3>1
    <3> QED
      BY <1>2, <1>3, <2>2, <3>1, <3>2 DEF Holds
  <2> QED
    BY <2>1, <2>2
<1>4. ASSUME NEW d \in Drives, NEW i \in 1..Len(q), q[i] = Begins(d)
      PROVE  d \notin down /\ \A j \in 1..(i - 1) : q[j] # Ends(d)
  <2>1. CASE i \in 1..Len(p) /\ p[i] = Begins(d)
    <3>1. \A j \in 1..(i - 1) : j \in 1..Len(p) /\ q[j] = p[j]
      BY <1>2, <2>1
    <3>2. d \notin down /\ \A j \in 1..(i - 1) : p[j] # Ends(d)
      BY <2>1 DEF InTurn
    <3> QED
      BY <3>1, <3>2
  <2>2. CASE Holds(r, Begins(d))
    <3>1. d \notin down /\ ~Holds(p, Ends(d)) /\ ~Holds(r, Ends(d))
      BY <2>2
    <3>2. ASSUME NEW j \in 1..(i - 1), q[j] = Ends(d) PROVE FALSE
      <4>1. j \in 1..Len(q)
        BY <1>2
      <4>2. Holds(p, Ends(d)) \/ Holds(r, Ends(d))
        BY <1>3, <3>2, <4>1 DEF Holds
      <4> QED
        BY <3>1, <4>2
    <3> QED
      BY <3>1, <3>2
  <2> QED
    BY <1>3, <1>4, <2>1, <2>2
<1>5. ASSUME NEW d \in Drives, NEW i \in 1..Len(q), q[i] = Ends(d)
      PROVE  d \in seen \/ \E j \in 1..(i - 1) : q[j] = Begins(d)
  <2>1. CASE i \in 1..Len(p) /\ p[i] = Ends(d)
    <3>1. \A j \in 1..(i - 1) : j \in 1..Len(p) /\ q[j] = p[j]
      BY <1>2, <2>1
    <3>2. d \in seen \/ \E j \in 1..(i - 1) : p[j] = Begins(d)
      BY <2>1 DEF InTurn
    <3> QED
      BY <3>1, <3>2
  <2>2. CASE i > Len(p) /\ Holds(r, Ends(d))
    <3>1. CASE Holds(p, Begins(d))
      <4>1. PICK j \in 1..Len(p) : p[j] = Begins(d)
        BY <3>1 DEF Holds
      <4>2. j \in 1..(i - 1) /\ q[j] = Begins(d)
        BY <1>2, <2>2, <4>1
      <4> QED
        BY <4>2
    <3> QED
      BY <2>2, <3>1
  <2> QED
    BY <1>3, <1>5, <2>1, <2>2
<1>6. InTurn(q, seen, down)
  BY <1>4, <1>5 DEF InTurn
<1> QED
  BY <1>1, <1>6

LEMMA TurnGoesOn ==
    ASSUME NEW q \in Seq(FeedMsgs), q # <<>>, NEW seen, NEW down, InTurn(q, seen, down),
           NEW seen2, seen \subseteq seen2, \A d \in Drives : q[1] = Begins(d) => d \in seen2,
           NEW down2, \A d \in down2 : d \in down \/ q[1] = Ends(d)
    PROVE  InTurn(Tail(q), seen2, down2)
<1>1. PICK t : t = Tail(q)
  OBVIOUS
<1>2. /\ Len(q) \in Nat \ {0} /\ Len(t) = Len(q) - 1
      /\ \A i \in 1..(Len(q) - 1) : t[i] = q[i + 1]
  BY <1>1
<1>3. ASSUME NEW i \in 1..Len(t) PROVE i + 1 \in 1..Len(q) /\ t[i] = q[i + 1] /\ 1 \in 1..((i + 1) - 1)
  BY <1>2
<1>4. ASSUME NEW d \in Drives, NEW i \in 1..Len(t), t[i] = Begins(d)
      PROVE  d \notin down2 /\ \A j \in 1..(i - 1) : t[j] # Ends(d)
  <2>1. i + 1 \in 1..Len(q) /\ q[i + 1] = Begins(d) /\ 1 \in 1..((i + 1) - 1)
    BY <1>3, <1>4
  <2>2. d \notin down /\ \A j \in 1..((i + 1) - 1) : q[j] # Ends(d)
    BY <2>1 DEF InTurn
  <2>3. \A j \in 1..(i - 1) : j + 1 \in 1..((i + 1) - 1) /\ t[j] = q[j + 1]
    BY <1>2
  <2> QED
    BY <2>1, <2>2, <2>3
<1>5. ASSUME NEW d \in Drives, NEW i \in 1..Len(t), t[i] = Ends(d)
      PROVE  d \in seen2 \/ \E j \in 1..(i - 1) : t[j] = Begins(d)
  <2>1. i + 1 \in 1..Len(q) /\ q[i + 1] = Ends(d)
    BY <1>3, <1>5
  <2>2. d \in seen \/ \E j \in 1..((i + 1) - 1) : q[j] = Begins(d)
    BY <2>1 DEF InTurn
  <2>3. CASE \E j \in 1..((i + 1) - 1) : q[j] = Begins(d)
    <3>1. PICK j \in 1..i : q[j] = Begins(d)
      BY <2>3
    <3>2. CASE j = 1
      BY <3>1, <3>2
    <3>3. CASE j # 1
      <4>1. j - 1 \in 1..(i - 1) /\ j - 1 \in 1..(Len(q) - 1) /\ (j - 1) + 1 = j
        BY <1>2, <3>1, <3>3
      <4>2. t[j - 1] = q[j]
        BY <1>2, <4>1
      <4> QED
        BY <3>1, <4>1, <4>2
    <3> QED
      BY <3>2, <3>3
  <2> QED
    BY <2>2, <2>3
<1>6. InTurn(t, seen2, down2)
  BY <1>4, <1>5 DEF InTurn
<1> QED
  BY <1>1, <1>6

LEMMA HoldsRest ==
    ASSUME NEW q \in Seq(FeedMsgs), q # <<>>, NEW x
    PROVE  /\ Holds(Tail(q), x) => Holds(q, x)
           /\ Holds(q, x) => Holds(Tail(q), x) \/ q[1] = x
           /\ Head(q) = q[1] /\ Holds(q, q[1]) /\ q[1] \in FeedMsgs
           /\ Tail(q) \in Seq(FeedMsgs)
<1>1. PICK t : t = Tail(q)
  OBVIOUS
<1>2. /\ Len(q) \in Nat \ {0} /\ Len(t) = Len(q) - 1 /\ t \in Seq(FeedMsgs)
      /\ \A i \in 1..(Len(q) - 1) : t[i] = q[i + 1]
      /\ Head(q) = q[1]
  BY <1>1
<1>3. ASSUME Holds(t, x) PROVE Holds(q, x)
  <2>1. PICK i \in 1..Len(t) : t[i] = x
    BY <1>3 DEF Holds
  <2>2. i + 1 \in 1..Len(q) /\ q[i + 1] = x
    BY <1>2, <2>1
  <2> QED
    BY <2>2 DEF Holds
<1>4. ASSUME Holds(q, x) PROVE Holds(t, x) \/ q[1] = x
  <2>1. PICK i \in 1..Len(q) : q[i] = x
    BY <1>4 DEF Holds
  <2>2. CASE i # 1
    <3>1. i - 1 \in 1..Len(t) /\ i - 1 \in 1..(Len(q) - 1) /\ (i - 1) + 1 = i
      BY <1>2, <2>2
    <3>2. t[i - 1] = x
      BY <1>2, <2>1, <3>1
    <3> QED
      BY <3>1, <3>2 DEF Holds
  <2> QED
    BY <2>1, <2>2
<1>5. Holds(q, q[1]) /\ q[1] \in FeedMsgs
  <2>1. 1 \in 1..Len(q)
    BY <1>2
  <2> QED
    BY <2>1 DEF Holds
<1> QED
  BY <1>1, <1>2, <1>3, <1>4, <1>5

\* What the helper adds to the line.
LEMMA LineGrows ==
    ASSUME Line, toApp \in Seq(FeedMsgs), \A d \in takenDown : Past(d),
           NEW r \in Seq(FeedMsgs), toApp' = toApp \o r, view' = view, takenDown' = takenDown,
           begun \subseteq begun', service.completed \subseteq service'.completed,
           \A d \in Drives : Past(d) => service'.building[d] = Off,
           \A x : Holds(r, x) => Honest(x)',
           \A d \in Drives : Holds(r, Begins(d)) => ~Past(d) /\ ~Holds(r, Ends(d)),
           \A d \in Drives : Holds(r, Ends(d)) => reported[d] # Off,
           \A d \in Drives : reported'[d] # Off => reported[d] # Off \/ Holds(r, Begins(d))
    PROVE  Line' /\ toApp' \in Seq(FeedMsgs)
<1>1. /\ toApp' \in Seq(FeedMsgs)
      /\ \A x : Holds(toApp', x) <=> Holds(toApp, x) \/ Holds(r, x)
  BY HoldsJoined
<1>2. ASSUME NEW x, Honest(x) PROVE Honest(x)'
  BY <1>2 DEF Honest, Past
<1>3. \A x : Holds(toApp', x) => Honest(x)'
  BY <1>1, <1>2 DEF Line
<1>4. Seen' = Seen
  BY DEF Seen
<1>5. InTurn(toApp', Seen, takenDown)
  <2>1. ASSUME NEW d \in Drives, Holds(r, Begins(d)) PROVE d \notin takenDown /\ ~Holds(toApp, Ends(d)) /\ ~Holds(r, Ends(d))
    <3>1. Holds(toApp, Ends(d)) => Past(d)
      BY DEF Line, Honest
    <3> QED
      BY <2>1, <3>1
  <2>2. \A d \in Drives : Holds(r, Ends(d)) => d \in Seen \/ Holds(toApp, Begins(d))
    BY DEF Line
  <2>3. InTurn(toApp, Seen, takenDown)
    BY DEF Line
  <2> QED
    BY <2>1, <2>2, <2>3, TurnGrows
<1>6. \A d \in Drives : reported'[d] # Off => d \in Seen \/ Holds(toApp', Begins(d))
  BY <1>1 DEF Line
<1> QED
  BY <1>1, <1>3, <1>4, <1>5, <1>6 DEF Line

--------------------------------------------------------------------------------
(* What a state says is on, and how it changes. *)

\* The volumes a state has building.
On(st) == {d \in Drives : st.building[d] # Off}

LEMMA StatesMove ==
    ASSUME NEW st \in IndexStates, NEW d \in Drives
    PROVE  /\ MarkBuilding(st, d) \in IndexStates
           /\ On(MarkBuilding(st, d)) = On(st) \union {d} /\ MarkBuilding(st, d).completed = st.completed
           /\ ClearBuilding(st, d) \in IndexStates
           /\ On(ClearBuilding(st, d)) = On(st) \ {d} /\ ClearBuilding(st, d).completed = st.completed
           /\ MarkComplete(st, d) \in IndexStates
           /\ On(MarkComplete(st, d)) = On(st) /\ MarkComplete(st, d).completed = st.completed \union {d}
           /\ \A p \in Percents : /\ SetProgress(st, d, p) \in IndexStates
                                  /\ On(SetProgress(st, d, p)) = On(st)
                                  /\ SetProgress(st, d, p).completed = st.completed
<1>1. /\ Unsaid \in Percents /\ Off \notin Percents
      /\ st.building \in [Drives -> Percents \union {Off}] /\ st.completed \in SUBSET Drives
      /\ st = [completed |-> st.completed, building |-> st.building]
  BY PercentAssumption DEF Unsaid, Off, Percents, IndexStates
<1>2. ASSUME NEW b \in [Drives -> Percents \union {Off}], NEW c \in SUBSET Drives
      PROVE  [st EXCEPT !.building = b] \in IndexStates /\ [st EXCEPT !.completed = c] \in IndexStates
             /\ [st EXCEPT !.building = b].building = b /\ [st EXCEPT !.completed = c].building = st.building
             /\ [st EXCEPT !.building = b].completed = st.completed /\ [st EXCEPT !.completed = c].completed = c
  BY <1>1 DEF IndexStates
<1>3. ASSUME NEW p \in Percents \union {Off}
      PROVE  /\ [st EXCEPT !.building[d] = p] \in IndexStates
             /\ [st EXCEPT !.building[d] = p].completed = st.completed
             /\ On([st EXCEPT !.building[d] = p]) = IF p = Off THEN On(st) \ {d} ELSE On(st) \union {d}
  <2> DEFINE b == [st.building EXCEPT ![d] = p]
  <2>1. b \in [Drives -> Percents \union {Off}] /\ [st EXCEPT !.building[d] = p] = [st EXCEPT !.building = b]
    BY <1>1 DEF IndexStates
  <2>2. \A e \in Drives : b[e] = IF e = d THEN p ELSE st.building[e]
    BY <1>1
  <2> HIDE DEF b
  <2>3. [st EXCEPT !.building = b] \in IndexStates
        /\ [st EXCEPT !.building = b].building = b /\ [st EXCEPT !.building = b].completed = st.completed
    BY <1>2, <2>1
  <2>4. PICK new : new = [st EXCEPT !.building[d] = p]
    OBVIOUS
  <2>5. new \in IndexStates /\ new.building = b /\ new.completed = st.completed
    BY <2>1, <2>3, <2>4
  <2>6. On(new) = IF p = Off THEN On(st) \ {d} ELSE On(st) \union {d}
    BY <2>2, <2>5 DEF On
  <2> QED
    BY <2>4, <2>5, <2>6
<1>4. MarkBuilding(st, d) \in IndexStates
      /\ On(MarkBuilding(st, d)) = On(st) \union {d} /\ MarkBuilding(st, d).completed = st.completed
  <2>1. CASE st.building[d] = Off
    <3>1. MarkBuilding(st, d) = [st EXCEPT !.building[d] = Unsaid]
      BY <2>1 DEF MarkBuilding
    <3> QED
      BY <1>1, <1>3, <3>1
  <2>2. CASE st.building[d] # Off
    <3>1. MarkBuilding(st, d) = st /\ d \in On(st)
      BY <2>2 DEF MarkBuilding, On
    <3>2. On(st) \union {d} = On(st)
      BY <3>1
    <3> QED
      BY <3>1, <3>2
  <2> QED
    BY <2>1, <2>2
<1>5. ClearBuilding(st, d) \in IndexStates
      /\ On(ClearBuilding(st, d)) = On(st) \ {d} /\ ClearBuilding(st, d).completed = st.completed
  <2>1. ClearBuilding(st, d) = [st EXCEPT !.building[d] = Off]
    BY DEF ClearBuilding
  <2> QED
    BY <1>1, <1>3, <2>1
<1>6. MarkComplete(st, d) \in IndexStates
      /\ On(MarkComplete(st, d)) = On(st) /\ MarkComplete(st, d).completed = st.completed \union {d}
  <2>1. PICK c \in SUBSET Drives : c = st.completed \union {d}
    BY <1>1
  <2>2. PICK new : new = [st EXCEPT !.completed = c]
    OBVIOUS
  <2>3. new \in IndexStates /\ new.building = st.building /\ new.completed = c
    <3>1. PICK b \in [Drives -> Percents \union {Off}] : b = st.building
      BY <1>1
    <3>2. /\ [st EXCEPT !.completed = c] \in IndexStates
          /\ [st EXCEPT !.completed = c].building = st.building /\ [st EXCEPT !.completed = c].completed = c
      BY <1>2, <3>1, Zenon
    <3> QED
      BY <2>2, <3>2
  <2>4. MarkComplete(st, d) = new
    BY <1>1, <2>1, <2>2 DEF MarkComplete
  <2>5. On(new) = On(st)
    BY <2>3 DEF On
  <2> QED
    BY <2>1, <2>3, <2>4, <2>5
<1>7. ASSUME NEW p \in Percents
      PROVE  SetProgress(st, d, p) \in IndexStates
             /\ On(SetProgress(st, d, p)) = On(st) /\ SetProgress(st, d, p).completed = st.completed
  <2>1. CASE st.building[d] = Off
    BY <2>1 DEF SetProgress
  <2>2. CASE st.building[d] # Off
    <3>1. SetProgress(st, d, p) = [st EXCEPT !.building[d] = p] /\ d \in On(st) /\ p # Off
      BY <1>1, <2>2 DEF SetProgress, On
    <3>2. On(st) \union {d} = On(st)
      BY <3>1
    <3> QED
      BY <1>3, <3>1, <3>2
  <2> QED
    BY <2>1, <2>2
<1> QED
  BY <1>4, <1>5, <1>6, <1>7

LEMMA ClearedIsState == Cleared \in IndexStates /\ On(Cleared) = {} /\ Cleared.completed = {}
<1>1. [d \in Drives |-> Off] \in [Drives -> Percents \union {Off}]
  OBVIOUS
<1>2. PICK b \in [Drives -> Percents \union {Off}] : b = [d \in Drives |-> Off]
  BY <1>1
<1>3. Cleared = [completed |-> {}, building |-> b]
  BY <1>2 DEF Cleared
<1>4. Cleared \in IndexStates /\ Cleared.building = b /\ Cleared.completed = {}
  BY <1>3 DEF IndexStates
<1>5. \A d \in Drives : b[d] = Off
  BY <1>2
<1> QED
  BY <1>4, <1>5 DEF On

\* What a message does to a mirror.
LEMMA MirroredBy ==
    ASSUME NEW st, NEW d
    PROVE  /\ Mirrored(st, Begins(d)) = MarkBuilding(st, d) /\ Begins(d).verb # "Idle"
           /\ Mirrored(st, Ends(d)) = ClearBuilding(st, d) /\ Ends(d).verb = "Idle" /\ Ends(d).arg = d
           /\ Mirrored(st, Finishes(d)) = MarkComplete(st, d) /\ Finishes(d).verb # "Idle"
           /\ \A m \in Others : Mirrored(st, m) = st /\ m.verb # "Idle"
<1>1. \A v, a : Msg(v, a).verb = v /\ Msg(v, a).arg = a
  BY DEF Msg
<1>2. \A m \in Others : m.verb \in {"Hello", "Ready"}
  BY <1>1 DEF Others
<1>3. Begins(d).verb = "Building" /\ Begins(d).arg = d /\ Ends(d).verb = "Idle" /\ Ends(d).arg = d
      /\ Finishes(d).verb = "Complete" /\ Finishes(d).arg = d
  BY <1>1 DEF Begins, Ends, Finishes
<1> HIDE DEF Begins, Ends, Finishes, Others
<1>4. Mirrored(st, Begins(d)) = MarkBuilding(st, d)
  BY <1>3 DEF Mirrored
<1>5. Mirrored(st, Ends(d)) = ClearBuilding(st, d)
  BY <1>3 DEF Mirrored
<1>6. Mirrored(st, Finishes(d)) = MarkComplete(st, d)
  BY <1>3 DEF Mirrored
<1>7. \A m \in Others : Mirrored(st, m) = st
  BY <1>2 DEF Mirrored
<1> QED
  BY <1>2, <1>3, <1>4, <1>5, <1>6, <1>7

LEMMA MirroredReach ==
    ASSUME NEW st, NEW d, NEW p
    PROVE  Mirrored(st, Reaches(d, p)) = SetProgress(st, d, p) /\ Reaches(d, p).verb # "Idle"
<1>1. Reaches(d, p).verb = "Progress" /\ Reaches(d, p).arg[1] = d /\ Reaches(d, p).arg[2] = p
  BY DEF Reaches, Msg
<1> HIDE DEF Reaches
<1> QED
  BY <1>1 DEF Mirrored

--------------------------------------------------------------------------------
(* The invariant. *)

\* What the app sends, and its states.
Notes  == {Msg("Record", p) : p \in Policies}
Stages == {"away", "listening", "attached"}

FeedTyped ==
    /\ version \in Versions /\ volume \in [Drives -> VolumePhases]
    /\ service \in IndexStates /\ view \in IndexStates /\ reported \in Buildings
    /\ toApp \in Seq(FeedMsgs) /\ toHelper \in Seq(Notes) /\ inbox \in Seq(Notes)
    /\ stage \in Stages /\ conn \in Nat
    /\ subscribed \in BOOLEAN /\ appEnd \in BOOLEAN

\* A process that is looking for an app is not listened to; where none is, nothing was begun.
Process == /\ lifetimeOver = FALSE
           /\ phase \in {"gone", "seeking"} \union InSession
           /\ phase \in {"gone", "seeking"} => ~subscribed
           /\ helper = 0 => phase = "gone" /\ begun = {} /\ service = Cleared

\* A volume is begun once, and finished before it is taken down.
Built == /\ begun \subseteq Drives /\ On(service) \subseteq begun
         /\ replaying \subseteq service.completed
         /\ \A d \in Drives :
               /\ volume[d] = "starting" => d \notin begun
               /\ volume[d] \in {"opened", "building", "progressed", "completed"} => d \in On(service)
               /\ volume[d] \in {"completed", "cleared", "idleTold", "tailing"} => d \in service.completed

\* The app has a session exactly while it is attached to one, or one waits for it to be.
Parties == /\ appEnd => phase \in InSession /\ conn # 0
           /\ stage = "away" => ~appEnd /\ listening \in {"idle", "connected"}
           /\ stage = "listening" => (listening = "pending" /\ ~appEnd) \/ (listening = "signalled" /\ appEnd)
           /\ stage = "attached" => listening = "connected" /\ appEnd

\* What the app has seen begun was begun, and is over if it saw its end; and what is on the
\* line is in order.
Watched == /\ stage # "attached" => view = Cleared /\ takenDown = {}
           /\ On(view) \subseteq begun
           /\ \A d \in takenDown : Past(d)
           /\ appEnd => Line

FeedInv == FeedTyped /\ Process /\ Built /\ Parties /\ Watched

LEMMA FeedInvFirst == Init => FeedInv
<1> SUFFICES ASSUME Init PROVE FeedInv
  OBVIOUS
<1>1. FeedTyped
  <2>1. NobodyTold \in Buildings
    BY DEF NobodyTold, Buildings
  <2>2. volume \in [Drives -> VolumePhases]
    BY DEF Init, HelperInit, NoProcess, VolumePhases
  <2>3. version \in Versions
    BY HelperAssumption DEF Init, HelperInit, NoProcess
  <2>4. /\ service = Cleared /\ view = Cleared /\ reported = NobodyTold
        /\ toApp = <<>> /\ toHelper = <<>> /\ inbox = <<>>
        /\ stage = "away" /\ conn = 0 /\ subscribed = FALSE /\ appEnd = FALSE
    BY DEF Init, HelperInit, NoProcess, WireInit
  <2>5. toApp \in Seq(FeedMsgs) /\ toHelper \in Seq(Notes) /\ inbox \in Seq(Notes)
    BY <2>4
  <2>6. stage \in Stages /\ conn \in Nat /\ subscribed \in BOOLEAN /\ appEnd \in BOOLEAN
    BY <2>4 DEF Stages
  <2>7. service \in IndexStates /\ view \in IndexStates /\ reported \in Buildings
    BY <2>1, <2>4, ClearedIsState, Zenon
  <2> QED
    BY <2>2, <2>3, <2>5, <2>6, <2>7 DEF FeedTyped
<1>2. Process
  BY DEF Process, Init, HelperInit, NoProcess
<1>3. Built
  <2>1. \A d \in Drives : volume[d] = "over"
    BY DEF Init, HelperInit, NoProcess
  <2> QED
    BY <2>1, ClearedIsState DEF Built, Init, HelperInit, NoProcess
<1>4. Parties
  BY DEF Parties, Init, WireInit
<1>5. Watched
  BY ClearedIsState DEF Watched, Init, WireInit
<1> QED
  BY <1>1, <1>2, <1>3, <1>4, <1>5 DEF FeedInv

\* What is over, in the words of the state.
LEMMA PastIsOff == \A d \in Drives : Past(d) <=> d \in begun /\ d \notin On(service)
  BY DEF Past, On

--------------------------------------------------------------------------------
(* The volume threads. *)

\* What is begun is what is building now, and before.
Begun == begun' = begun \union On(service')

\* The service as a step leaves it: a volume begun, finished or over, or nothing.
Opens(d)    == On(service') = On(service) \union {d} /\ service'.completed = service.completed /\ d \notin begun
Completes(d) == /\ On(service') = On(service) /\ service'.completed = service.completed \union {d}
                /\ d \in On(service)
Closes(d)   == On(service') = On(service) \ {d} /\ service'.completed = service.completed /\ d \in On(service)
Stays       == On(service') = On(service) /\ service'.completed = service.completed

Serves(d) == (Opens(d) \/ Completes(d) \/ Closes(d) \/ Stays) /\ service' \in IndexStates

\* What a volume thread does to the service.
LEMMA VolumeServes ==
    ASSUME FeedTyped, Built, NEW d \in Drives, VolumeNext(d)
    PROVE  Serves(d)
<1>0. service \in IndexStates
  BY DEF FeedTyped
<1>1. CASE VolumeOpen(d)
  <2>1. service' = MarkBuilding(service, d) /\ volume[d] = "starting"
    BY <1>1 DEF VolumeOpen, SetService, VolumeStep
  <2> QED
    BY <1>0, <2>1, StatesMove DEF Serves, Opens, Built
<1>2. CASE VolumeProgress(d)
  <2>1. PICK p \in 0..(PercentSteps - 1) : service' = SetProgress(service, d, p)
    BY <1>2 DEF VolumeProgress, SetService
  <2>2. p \in Percents
    BY PercentAssumption DEF Percents, Unsaid
  <2> QED
    BY <1>0, <2>1, <2>2, StatesMove DEF Serves, Stays
<1>3. CASE VolumeComplete(d)
  <2>1. service' = MarkComplete(service, d) /\ volume[d] = "building"
    BY <1>3 DEF VolumeComplete, SetService, VolumeStep
  <2> QED
    BY <1>0, <2>1, StatesMove DEF Serves, Completes, Built
<1>4. CASE VolumeClear(d) \/ VolumeEndClear(d)
  <2>1. service' = ClearBuilding(service, d)
    BY <1>4 DEF VolumeClear, VolumeEndClear, SetService
  <2>2. service' \in IndexStates /\ On(service') = On(service) \ {d} /\ service'.completed = service.completed
    BY <1>0, <2>1, StatesMove
  <2>3. CASE d \in On(service)
    BY <2>2, <2>3 DEF Serves, Closes
  <2>4. CASE d \notin On(service)
    <3>1. On(service) \ {d} = On(service)
      BY <2>4
    <3> QED
      BY <2>2, <3>1 DEF Serves, Stays
  <2> QED
    BY <2>3, <2>4
<1>5. CASE VolumeOpenFails(d) \/ VolumeBuildFails(d) \/ VolumeTailEnds(d)
  <2>1. service' = service
    BY <1>5 DEF VolumeOpenFails, VolumeBuildFails, VolumeTailEnds, SetService
  <2> QED
    BY <1>0, <2>1 DEF Serves, Stays
<1>6. CASE VolumeTellOpen(d) \/ VolumeTellProgress(d) \/ VolumeTellIdle(d) \/ VolumeTellEnd(d) \/ VolumeTellRefreshed(d)
  <2>1. service' = service
    BY <1>6 DEF VolumeTellOpen, VolumeTellProgress, VolumeTellIdle, VolumeTellEnd, VolumeTellRefreshed, TellStatus
  <2> QED
    BY <1>0, <2>1 DEF Serves, Stays
<1> QED
  BY <1>1, <1>2, <1>3, <1>4, <1>5, <1>6 DEF VolumeNext

\* The service moves on with the volume.
LEMMA VolumeBuilds ==
    ASSUME FeedTyped, Built, NEW d \in Drives, VolumeNext(d), Begun
    PROVE  /\ Built' /\ volume' \in [Drives -> VolumePhases]
           /\ helper # 0 /\ UNCHANGED <<helper, version, phase, subscribed, replaying, lifetimeOver>>
<1>0. Serves(d)
  BY VolumeServes
<1>1. PICK from \in VolumePhases, to \in VolumePhases :
         /\ VolumeStep(d, from, to)
         /\ \/ from = "starting" /\ to = "opened" /\ service' = MarkBuilding(service, d)
            \/ from \notin {"starting"} /\ to = "ending" /\ service' = service
            \/ from = "starting" /\ to = "ending" /\ service' = service
            \/ from = "opened" /\ to = "building" /\ service' = service
            \/ from = "building" /\ to = "progressed" /\ Stays
            \/ from = "progressed" /\ to = "building" /\ service' = service
            \/ from = "building" /\ to = "completed" /\ service' = MarkComplete(service, d)
            \/ from = "completed" /\ to = "cleared" /\ service' = ClearBuilding(service, d)
            \/ from = "cleared" /\ to = "idleTold" /\ service' = service
            \/ from = "idleTold" /\ to = "tailing" /\ service' = service
            \/ from = "ending" /\ to = "endCleared" /\ service' = ClearBuilding(service, d)
            \/ from = "endCleared" /\ to = "over" /\ service' = service
  <2>1. CASE VolumeProgress(d)
    <3>1. VolumeStep(d, "building", "progressed")
      BY <2>1 DEF VolumeProgress
    <3>2. Stays
      <4>1. PICK p \in 0..(PercentSteps - 1) : service' = SetProgress(service, d, p)
        BY <2>1 DEF VolumeProgress, SetService
      <4>2. p \in Percents
        BY PercentAssumption DEF Percents, Unsaid
      <4> QED
        BY <4>1, <4>2, StatesMove DEF Stays, FeedTyped
    <3> QED
      BY <3>1, <3>2 DEF VolumePhases
  <2>2. CASE VolumeOpen(d)
    BY <2>2 DEF VolumeOpen, SetService, VolumePhases
  <2>3. CASE VolumeOpenFails(d)
    BY <2>3 DEF VolumeOpenFails, SetService, VolumePhases
  <2>4. CASE VolumeBuildFails(d)
    BY <2>4 DEF VolumeBuildFails, SetService, VolumePhases
  <2>5. CASE VolumeTailEnds(d)
    BY <2>5 DEF VolumeTailEnds, SetService, VolumePhases
  <2>6. CASE VolumeComplete(d)
    BY <2>6 DEF VolumeComplete, SetService, VolumePhases
  <2>7. CASE VolumeClear(d)
    BY <2>7 DEF VolumeClear, SetService, VolumePhases
  <2>8. CASE VolumeEndClear(d)
    BY <2>8 DEF VolumeEndClear, SetService, VolumePhases
  <2>9. CASE VolumeTellOpen(d)
    BY <2>9 DEF VolumeTellOpen, TellStatus, VolumePhases
  <2>10. CASE VolumeTellProgress(d)
    BY <2>10 DEF VolumeTellProgress, TellStatus, VolumePhases
  <2>11. CASE VolumeTellIdle(d)
    BY <2>11 DEF VolumeTellIdle, TellStatus, VolumePhases
  <2>12. CASE VolumeTellEnd(d)
    BY <2>12 DEF VolumeTellEnd, TellStatus, VolumePhases
  <2>13. CASE VolumeTellRefreshed(d)
    BY <2>13 DEF VolumeTellRefreshed, VolumePhases
  <2> QED
    BY <2>1, <2>2, <2>3, <2>4, <2>5, <2>6, <2>7, <2>8, <2>9, <2>10, <2>11, <2>12, <2>13 DEF VolumeNext
<1>2. /\ helper # 0 /\ volume[d] = from /\ volume' = [volume EXCEPT ![d] = to]
      /\ UNCHANGED <<helper, version, phase, subscribed, replaying, lifetimeOver>>
  BY <1>1 DEF VolumeStep
<1>3. volume' \in [Drives -> VolumePhases] /\ \A e \in Drives : volume'[e] = IF e = d THEN to ELSE volume[e]
  BY <1>2 DEF FeedTyped
<1>4. /\ service.completed \subseteq service'.completed
      /\ begun \subseteq begun' /\ begun' \subseteq begun \union {d} /\ On(service') \subseteq begun'
      /\ \A e \in Drives : e # d => (e \in On(service') <=> e \in On(service))
  BY <1>0 DEF Serves, Opens, Completes, Closes, Stays, Begun, Built
<1>5. /\ to # "starting"
      /\ to \in {"opened", "building", "progressed", "completed"} => d \in On(service')
      /\ to \in {"completed", "cleared", "idleTold", "tailing"} => d \in service'.completed
  <2>0. service \in IndexStates /\ volume[d] = from
    BY <1>2 DEF FeedTyped
  <2>1. /\ from \in {"opened", "building", "progressed", "completed"} => d \in On(service)
        /\ from \in {"completed", "cleared", "idleTold", "tailing"} => d \in service.completed
    BY <2>0 DEF Built
  <2> QED
    BY <1>1, <2>0, <2>1, StatesMove DEF Stays
<1>6. begun' \subseteq Drives /\ replaying' \subseteq service'.completed
  BY <1>2, <1>4 DEF Built
<1>7. ASSUME NEW e \in Drives
      PROVE  /\ volume'[e] = "starting" => e \notin begun'
             /\ volume'[e] \in {"opened", "building", "progressed", "completed"} => e \in On(service')
             /\ volume'[e] \in {"completed", "cleared", "idleTold", "tailing"} => e \in service'.completed
  <2>1. CASE e = d
    BY <1>3, <1>5, <2>1
  <2>2. CASE e # d
    <3>1. /\ volume[e] = "starting" => e \notin begun
          /\ volume[e] \in {"opened", "building", "progressed", "completed"} => e \in On(service)
          /\ volume[e] \in {"completed", "cleared", "idleTold", "tailing"} => e \in service.completed
      BY DEF Built
    <3> QED
      BY <1>3, <1>4, <2>2, <3>1
  <2> QED
    BY <2>1, <2>2
<1>8. Built'
  BY <1>4, <1>6, <1>7 DEF Built
<1> QED
  BY <1>2, <1>3, <1>8

--------------------------------------------------------------------------------
(* What is said on the line. *)

\* What was begun stays begun, what is over stays over, what is finished stays finished.
Grows == /\ begun \subseteq begun' /\ service.completed \subseteq service'.completed
         /\ \A d \in Drives : Past(d) => service'.building[d] = Off

LEMMA ServesGrows ==
    ASSUME Built, Begun, NEW d \in Drives, Serves(d)
    PROVE  Grows
<1>1. begun \subseteq begun' /\ service.completed \subseteq service'.completed
  BY DEF Begun, Serves, Opens, Completes, Closes, Stays
<1>2. ASSUME NEW e \in Drives, Past(e) PROVE service'.building[e] = Off
  <2>1. e \in begun /\ e \notin On(service)
    BY <1>2, PastIsOff
  <2>2. e \notin On(service')
    BY <2>1 DEF Serves, Opens, Completes, Closes, Stays
  <2> QED
    BY <2>2 DEF On
<1> QED
  BY <1>1, <1>2 DEF Grows

LEMMA SameGrows ==
    ASSUME Built, Begun, service' = service
    PROVE  Grows /\ begun' = begun
<1>1. begun' = begun
  BY DEF Begun, Built
<1> QED
  BY <1>1 DEF Grows, Past

\* The line after the helper writes r to whoever is there.
Said(r) == toApp' = IF appEnd THEN toApp \o r ELSE toApp

Onlooks == UNCHANGED <<stage, view, takenDown, appEnd>>

\* What may be written: nothing but what is so, and in its turn.
Sayable(r) == /\ r \in Seq(FeedMsgs)
              /\ \A x : Holds(r, x) => Honest(x)'
              /\ \A d \in Drives : Holds(r, Begins(d)) => ~Past(d) /\ ~Holds(r, Ends(d))
              /\ \A d \in Drives : Holds(r, Ends(d)) => reported[d] # Off
              /\ \A d \in Drives : reported'[d] # Off => reported[d] # Off \/ Holds(r, Begins(d))

LEMMA SaidKeeps ==
    ASSUME FeedTyped, Built, Watched, Grows, Onlooks, NEW r, Said(r), Sayable(r)
    PROVE  Watched' /\ toApp' \in Seq(FeedMsgs)
<1>1. toApp \in Seq(FeedMsgs) /\ \A d \in takenDown : Past(d)
  BY DEF FeedTyped, Watched
<1>6. view' = view => On(view)' \subseteq begun'
  BY DEF Watched, Grows, On
<1>2. takenDown' = takenDown /\ view' = view /\ stage' = stage /\ appEnd' = appEnd
  BY DEF Onlooks
<1>3. \A d \in takenDown' : Past(d)'
  <2> SUFFICES ASSUME NEW d \in takenDown PROVE Past(d)'
    BY <1>2
  <2>1. Past(d) /\ d \in Drives
    BY <1>1 DEF Past, Built
  <2> QED
    BY <2>1 DEF Grows, Past
<1>4. CASE ~appEnd
  <2>1. toApp' = toApp /\ ~appEnd'
    BY <1>2, <1>4 DEF Said
  <2> QED
    BY <1>1, <1>2, <1>3, <1>6, <2>1 DEF Watched
<1>5. CASE appEnd
  <2>1. toApp' = toApp \o r /\ Line
    BY <1>5 DEF Said, Watched
  <2>2. /\ r \in Seq(FeedMsgs)
        /\ \A x : Holds(r, x) => Honest(x)'
        /\ \A d \in Drives : Holds(r, Begins(d)) => ~Past(d) /\ ~Holds(r, Ends(d))
        /\ \A d \in Drives : Holds(r, Ends(d)) => reported[d] # Off
        /\ \A d \in Drives : reported'[d] # Off => reported[d] # Off \/ Holds(r, Begins(d))
    BY DEF Sayable
  <2>3. /\ begun \subseteq begun' /\ service.completed \subseteq service'.completed
        /\ \A d \in Drives : Past(d) => service'.building[d] = Off
    BY DEF Grows
  <2>4. Line' /\ toApp' \in Seq(FeedMsgs)
    BY <1>1, <1>2, <2>1, <2>2, <2>3, LineGrows
  <2> QED
    BY <1>2, <1>3, <1>6, <2>4 DEF Watched
<1> QED
  BY <1>4, <1>5

LEMMA NothingSayable == reported' = reported => Sayable(<<>>)
  BY HoldsNone DEF Sayable

LEMMA OtherSayable ==
    ASSUME NEW m \in Others, reported' = reported
    PROVE  Sayable(<<m>>)
<1>1. <<m>> \in Seq(FeedMsgs)
  BY KindsTyped
<1>2. \A d : m # Begins(d) /\ m # Ends(d) /\ m # Finishes(d)
  BY Apart
<1>3. Honest(m)'
  BY <1>2 DEF Honest
<1>4. \A x : Holds(<<m>>, x) <=> x = m
  BY HoldsOne
<1>5. ASSUME NEW x, Holds(<<m>>, x) PROVE Honest(x)'
  BY <1>3, <1>4, <1>5
<1>6. \A d \in Drives : ~Holds(<<m>>, Begins(d)) /\ ~Holds(<<m>>, Ends(d))
  BY <1>2, <1>4
<1> QED
  BY <1>1, <1>5, <1>6 DEF Sayable

LEMMA FinishSayable ==
    ASSUME NEW d \in Drives, d \in service'.completed, reported' = reported
    PROVE  Sayable(<<Finishes(d)>>)
<1>1. <<Finishes(d)>> \in Seq(FeedMsgs)
  BY KindsTyped
<1>2. \A e : Finishes(d) # Begins(e) /\ Finishes(d) # Ends(e) /\ (Finishes(d) = Finishes(e) => d = e)
  BY Apart
<1>3. Honest(Finishes(d))'
  BY <1>2 DEF Honest
<1>4. \A x : Holds(<<Finishes(d)>>, x) <=> x = Finishes(d)
  BY HoldsOne
<1>5. ASSUME NEW x, Holds(<<Finishes(d)>>, x) PROVE Honest(x)'
  BY <1>3, <1>4, <1>5
<1>6. \A e \in Drives : ~Holds(<<Finishes(d)>>, Begins(e)) /\ ~Holds(<<Finishes(d)>>, Ends(e))
  BY <1>2, <1>4
<1> QED
  BY <1>1, <1>5, <1>6 DEF Sayable

\* The news are so, and what the app has not heard of yet is among them.
LEMMA NewsSayable ==
    ASSUME FeedTyped, Built, Watched, appEnd, service' = service, begun' = begun, reported' = service.building
    PROVE  Sayable(News(service.building))
<1>1. PICK now : now = service.building
  OBVIOUS
<1>2. now \in Buildings /\ reported \in Buildings /\ Line
  BY <1>1 DEF FeedTyped, IndexStates, Buildings, Watched
<1>3. /\ News(now) \in Seq(FeedMsgs)
      /\ \A x : Holds(News(now), x)
             => \/ \E d \in Drives : now[d] # Off /\ reported[d] = Off /\ x = Begins(d)
                \/ \E d \in Drives : now[d] \in Percents /\ x = Reaches(d, now[d])
                \/ \E d \in Drives : now[d] = Off /\ reported[d] # Off /\ x = Ends(d)
      /\ \A d \in Drives : now[d] # Off /\ reported[d] = Off => Holds(News(now), Begins(d))
  BY <1>2, NewsHold
<1>4. PICK r : r = News(now)
  OBVIOUS
<1>5. ASSUME NEW d \in Drives, reported[d] # Off PROVE d \in begun
  <2>1. d \in Seen \/ Holds(toApp, Begins(d))
    BY <1>2, <1>5 DEF Line
  <2>2. CASE Holds(toApp, Begins(d))
    BY <1>2, <2>2 DEF Line, Honest
  <2>3. CASE d \in takenDown
    BY <2>3 DEF Watched, Past
  <2>4. CASE view.building[d] # Off
    BY <2>4 DEF Watched, On
  <2> QED
    BY <2>1, <2>2, <2>3, <2>4 DEF Seen
<1>6. \A d, e : Begins(d) # Ends(e)
  BY Apart
<1>7. ASSUME NEW x, Holds(r, x) PROVE Honest(x)'
  <2>1. CASE \E d \in Drives : now[d] # Off /\ reported[d] = Off /\ x = Begins(d)
    <3>1. PICK d \in Drives : now[d] # Off /\ x = Begins(d)
      BY <2>1
    <3>2. d \in begun'
      BY <1>1, <3>1 DEF Built, On
    <3>3. \A e \in Drives : (x = Begins(e) => e = d) /\ x # Ends(e) /\ x # Finishes(e)
      BY <3>1, Apart
    <3> QED
      BY <3>2, <3>3 DEF Honest
  <2>2. CASE \E d \in Drives : now[d] \in Percents /\ x = Reaches(d, now[d])
    <3>1. \A e \in Drives : x # Begins(e) /\ x # Ends(e) /\ x # Finishes(e)
      BY <2>2, Apart
    <3> QED
      BY <3>1 DEF Honest
  <2>3. CASE \E d \in Drives : now[d] = Off /\ reported[d] # Off /\ x = Ends(d)
    <3>1. PICK d \in Drives : now[d] = Off /\ reported[d] # Off /\ x = Ends(d)
      BY <2>3
    <3>2. d \in begun' /\ service'.building[d] = Off
      BY <1>1, <1>5, <3>1
    <3>3. \A e \in Drives : (x = Ends(e) => e = d) /\ x # Begins(e) /\ x # Finishes(e)
      BY <3>1, Apart
    <3> QED
      BY <3>2, <3>3 DEF Honest, Past
  <2> QED
    BY <1>3, <1>4, <1>7, <2>1, <2>2, <2>3
<1>8. ASSUME NEW d \in Drives, Holds(r, Begins(d)) PROVE now[d] # Off /\ reported[d] = Off
  <2>1. \A e, p : Begins(d) # Ends(e) /\ Begins(d) # Reaches(e, p) /\ (Begins(d) = Begins(e) => e = d)
    BY Apart
  <2> QED
    BY <1>3, <1>4, <1>8, <2>1
<1>9. ASSUME NEW d \in Drives, Holds(r, Ends(d)) PROVE now[d] = Off /\ reported[d] # Off
  <2>1. \A e, p : Ends(d) # Begins(e) /\ Ends(d) # Reaches(e, p) /\ (Ends(d) = Ends(e) => e = d)
    BY Apart
  <2> QED
    BY <1>3, <1>4, <1>9, <2>1
<1>10. \A d \in Drives : Holds(r, Begins(d)) => ~Past(d) /\ ~Holds(r, Ends(d))
  BY <1>1, <1>8, <1>9 DEF Past
<1>11. \A d \in Drives : reported'[d] # Off => reported[d] # Off \/ Holds(r, Begins(d))
  BY <1>1, <1>3, <1>4
<1>12. Sayable(r)
  BY <1>3, <1>4, <1>7, <1>9, <1>10, <1>11 DEF Sayable
<1> QED
  BY <1>1, <1>4, <1>12

\* What a process that is listened to sends arrives, if the app is still there.
LEMMA SentIsSaid ==
    ASSUME Parties, NEW r, HostSend(r)
    PROVE  Said(r)
  BY DEF Parties, HostSend, Said

LEMMA ListenedTo ==
    ASSUME Process, subscribed
    PROVE  phase \in InSession
  BY DEF Process

\* The host writes its news and counts them as told.
LEMMA StatusKeeps ==
    ASSUME FeedInv, StatusChanged, service' = service, Begun, Onlooks
    PROVE  Watched' /\ toApp' \in Seq(FeedMsgs) /\ reported' \in Buildings
<1>1. FeedTyped /\ Built /\ Watched /\ Parties
  BY DEF FeedInv
<1>2. Grows /\ begun' = begun
  BY <1>1, SameGrows
<1>3. PICK r : r = News(service.building)
  OBVIOUS
<1>4. HostSend(r) /\ reported' = service.building
  BY <1>3 DEF StatusChanged
<1>5. reported' \in Buildings
  BY <1>1, <1>4 DEF FeedTyped, IndexStates, Buildings
<1>6. Said(r)
  BY <1>1, <1>4, SentIsSaid
<1>7. CASE appEnd
  <2>1. Sayable(r)
    BY <1>1, <1>2, <1>3, <1>4, <1>7, NewsSayable
  <2> QED
    BY <1>1, <1>2, <1>5, <1>6, <2>1, SaidKeeps
<1>8. CASE ~appEnd
  <2>1. toApp' = toApp /\ ~appEnd'
    BY <1>6, <1>8 DEF Said, Onlooks
  <2>2. takenDown' = takenDown /\ view' = view /\ stage' = stage
    BY DEF Onlooks
  <2>3. \A d \in takenDown : Past(d)'
    <3>1. \A d \in takenDown : Past(d)
      BY <1>1 DEF Watched
    <3> QED
      BY <1>2, <3>1 DEF Past
  <2> QED
    BY <1>1, <1>2, <1>5, <2>1, <2>2, <2>3 DEF Watched, On, FeedTyped
<1> QED
  BY <1>7, <1>8

LEMMA VolumeTells ==
    ASSUME NEW d \in Drives, VolumeNext(d)
    PROVE  /\ UNCHANGED <<conn, listening, appEnd, toHelper, inbox>>
           /\ \/ toApp' = toApp /\ reported' = reported
              \/ StatusChanged /\ service' = service
              \/ /\ HostSend(<<Finishes(d)>>) /\ service' = service /\ reported' = reported
                 /\ volume[d] = "idleTold"
<1>1. CASE VolumeOpen(d) \/ VolumeOpenFails(d) \/ VolumeProgress(d) \/ VolumeBuildFails(d) \/ VolumeComplete(d)
           \/ VolumeClear(d) \/ VolumeTailEnds(d) \/ VolumeEndClear(d)
  BY <1>1 DEF VolumeOpen, VolumeOpenFails, VolumeProgress, VolumeBuildFails, VolumeComplete, VolumeClear,
              VolumeTailEnds, VolumeEndClear, SetService, wireVars
<1>2. CASE VolumeTellOpen(d) \/ VolumeTellProgress(d) \/ VolumeTellIdle(d) \/ VolumeTellEnd(d)
  <2>1. TellStatus
    BY <1>2 DEF VolumeTellOpen, VolumeTellProgress, VolumeTellIdle, VolumeTellEnd
  <2>2. CASE subscribed
    BY <2>1, <2>2 DEF TellStatus
  <2>3. CASE ~subscribed
    BY <2>1, <2>3 DEF TellStatus
  <2> QED
    BY <2>2, <2>3
<1>3. CASE VolumeTellRefreshed(d)
  <2>1. /\ UNCHANGED <<reported, service, conn, listening, appEnd, toHelper, inbox>> /\ volume[d] = "idleTold"
        /\ IF subscribed THEN HostSend(<<Msg("Complete", d)>>) ELSE UNCHANGED toApp
    BY <1>3 DEF VolumeTellRefreshed, VolumeStep
  <2>2. CASE subscribed
    BY <2>1, <2>2 DEF Finishes
  <2>3. CASE ~subscribed
    BY <2>1, <2>3
  <2> QED
    BY <2>2, <2>3
<1> QED
  BY <1>1, <1>2, <1>3 DEF VolumeNext

\* A volume thread keeps the invariant.
LEMMA VolumeKeeps ==
    ASSUME FeedInv, NEW d \in Drives, HelperActs(VolumeNext(d))
    PROVE  FeedInv' /\ Serves(d) /\ Begun /\ UNCHANGED <<stage, view, takenDown>>
<1>1. VolumeNext(d) /\ UNCHANGED <<stage, view, takenDown>> /\ Begun
  BY DEF HelperActs, appVars, Begun, On
<1>2. FeedTyped /\ Process /\ Built /\ Parties /\ Watched
  BY DEF FeedInv
<1>3. /\ Built' /\ volume' \in [Drives -> VolumePhases]
      /\ helper # 0 /\ UNCHANGED <<helper, version, phase, subscribed, replaying, lifetimeOver>>
  BY <1>1, <1>2, VolumeBuilds
<1>4. Serves(d) /\ Grows
  BY <1>1, <1>2, VolumeServes, ServesGrows
<1>5. UNCHANGED <<conn, listening, appEnd, toHelper, inbox>> /\ Onlooks
  BY <1>1, VolumeTells DEF Onlooks
<1>6. Watched' /\ toApp' \in Seq(FeedMsgs) /\ reported' \in Buildings
  <2>0. reported \in Buildings
    BY <1>2 DEF FeedTyped
  <2>1. CASE toApp' = toApp /\ reported' = reported
    <3>1. Sayable(<<>>)
      BY <2>1, NothingSayable
    <3>2. Said(<<>>)
      BY <1>2, <2>1 DEF Said, FeedTyped
    <3> QED
      BY <1>2, <1>4, <1>5, <2>0, <2>1, <3>1, <3>2, SaidKeeps
  <2>2. CASE StatusChanged /\ service' = service
    BY <1>1, <1>5, <2>2, StatusKeeps
  <2>3. CASE HostSend(<<Finishes(d)>>) /\ service' = service /\ reported' = reported /\ volume[d] = "idleTold"
    <3>1. d \in service'.completed
      BY <1>2, <2>3 DEF Built
    <3>2. Sayable(<<Finishes(d)>>)
      BY <2>3, <3>1, FinishSayable
    <3>3. Said(<<Finishes(d)>>)
      BY <1>2, <2>3, SentIsSaid
    <3> QED
      BY <1>2, <1>4, <1>5, <2>0, <2>3, <3>2, <3>3, SaidKeeps
  <2> QED
    BY <1>1, <2>1, <2>2, <2>3, VolumeTells
<1>7. FeedTyped'
  BY <1>1, <1>2, <1>3, <1>4, <1>5, <1>6 DEF FeedTyped, Serves
<1>8. Process'
  BY <1>2, <1>3 DEF Process
<1>9. Parties'
  BY <1>1, <1>2, <1>3, <1>5 DEF Parties
<1> QED
  BY <1>1, <1>3, <1>4, <1>6, <1>7, <1>8, <1>9 DEF FeedInv

--------------------------------------------------------------------------------
(* The serving thread, and a process that comes up. *)

\* A step that writes nothing.
LEMMA SilentKeeps ==
    ASSUME FeedInv, Begun, Onlooks, UNCHANGED <<toApp, reported, service>>
    PROVE  Watched' /\ begun' = begun
<1>1. FeedTyped /\ Built /\ Watched
  BY DEF FeedInv
<1>2. Grows /\ begun' = begun
  BY <1>1, SameGrows
<1>3. Sayable(<<>>)
  BY NothingSayable
<1>4. Said(<<>>)
  BY <1>1 DEF Said, FeedTyped
<1> QED
  BY <1>1, <1>2, <1>3, <1>4, SaidKeeps

\* The serving thread moves on, and the volumes do not.
LEMMA ServingBuilds ==
    ASSUME Built, service' = service, begun' = begun, volume' = volume, replaying' \subseteq service.completed
    PROVE  Built'
  BY DEF Built, On

LEMMA InSessionPhases ==
    /\ \A x \in InSession : x # "gone" /\ x # "seeking" /\ x # "exiting"
    /\ "begun" \in InSession /\ "subscribed" \in InSession /\ "greeted" \in InSession
    /\ "toldBuilding" \in InSession /\ "replaying" \in InSession /\ "reading" \in InSession
  BY DEF InSession

LEMMA ConnectKeeps ==
    ASSUME FeedInv, HostConnect, Begun, UNCHANGED appVars
    PROVE  FeedInv' /\ service' = service /\ begun' = begun
<1>1. FeedTyped /\ Process /\ Built /\ Parties /\ Watched
  BY DEF FeedInv
<1>2. /\ phase = "seeking" /\ phase' = "begun" /\ reported' = NobodyTold
      /\ listening = "pending" /\ listening' = "signalled" /\ conn' = conn + 1 /\ appEnd' = TRUE
      /\ toApp' = <<>> /\ toHelper' = <<>> /\ inbox' = <<>>
      /\ UNCHANGED <<helper, version, subscribed, replaying, service, volume, lifetimeOver, stage, view, takenDown>>
  BY DEF HostConnect, HelperConnect, appVars
<1>3. begun' = begun
  BY <1>1, <1>2, SameGrows
<1>4. FeedTyped'
  <2>1. reported' \in Buildings
    BY <1>2 DEF NobodyTold, Buildings
  <2>2. toApp' \in Seq(FeedMsgs) /\ toHelper' \in Seq(Notes) /\ inbox' \in Seq(Notes)
    BY <1>2
  <2>3. conn' \in Nat /\ appEnd' \in BOOLEAN
    BY <1>1, <1>2 DEF FeedTyped
  <2> QED
    BY <1>1, <1>2, <2>1, <2>2, <2>3 DEF FeedTyped
<1>5. Process'
  <2>1. helper' # 0
    BY <1>1, <1>2 DEF Process
  <2> QED
    BY <1>1, <1>2, <2>1, InSessionPhases DEF Process
<1>6. Built'
  BY <1>1, <1>2, <1>3, ServingBuilds DEF Built
<1>7. Parties'
  <2>1. stage = "listening"
    BY <1>1, <1>2 DEF Parties, FeedTyped, Stages
  <2>2. conn' # 0
    BY <1>1, <1>2 DEF FeedTyped
  <2> QED
    BY <1>2, <2>1, <2>2, InSessionPhases DEF Parties
<1>8. Watched'
  <2>1. Line'
    <3>1. Len(toApp') = 0 /\ \A x : ~Holds(toApp', x)
      BY <1>2, HoldsNone
    <3>2. \A d \in Drives : reported'[d] = Off
      BY <1>2 DEF NobodyTold
    <3>3. InTurn(toApp', Seen', takenDown')
      BY <3>1 DEF InTurn
    <3> QED
      BY <3>1, <3>2, <3>3 DEF Line
  <2> QED
    BY <1>1, <1>2, <1>3, <2>1 DEF Watched, Past, On
<1> QED
  BY <1>2, <1>3, <1>4, <1>5, <1>6, <1>7, <1>8 DEF FeedInv

\* The session is greeted, told what is building and finished, and told that it is ready.
LEMMA GreetingKeeps ==
    ASSUME FeedInv, Begun, UNCHANGED appVars,
           HostSubscribe \/ HostGreet \/ HostReplayBuilding \/ HostListRoots \/ HostReplayRoot \/ HostReady
    PROVE  FeedInv' /\ service' = service /\ begun' = begun
<1>1. FeedTyped /\ Process /\ Built /\ Parties /\ Watched
  BY DEF FeedInv
<1>2. /\ UNCHANGED <<helper, version, service, volume, lifetimeOver, conn, listening, appEnd, toHelper, inbox>>
      /\ phase \in InSession /\ phase' \in InSession /\ subscribed' \in BOOLEAN
      /\ replaying' \subseteq service.completed
  <2>1. CASE HostSubscribe
    BY <1>1, <2>1, InSessionPhases DEF HostSubscribe, wireVars, Built
  <2>2. CASE HostGreet
    BY <1>1, <2>2, InSessionPhases DEF HostGreet, Built, FeedTyped
  <2>3. CASE HostReplayBuilding
    BY <1>1, <2>3, InSessionPhases DEF HostReplayBuilding, Built, FeedTyped
  <2>4. CASE HostListRoots
    BY <1>1, <2>4, InSessionPhases DEF HostListRoots, wireVars, FeedTyped
  <2>5. CASE HostReplayRoot
    BY <1>1, <2>5, InSessionPhases DEF HostReplayRoot, Built, FeedTyped
  <2>6. CASE HostReady
    BY <1>1, <2>6, InSessionPhases DEF HostReady, Built, FeedTyped
  <2> QED
    BY <2>1, <2>2, <2>3, <2>4, <2>5, <2>6
<1>3. UNCHANGED <<stage, view, takenDown>> /\ Onlooks
  BY <1>2 DEF appVars, Onlooks
<1>4. Grows /\ begun' = begun
  BY <1>1, <1>2, SameGrows
<1>5. Watched' /\ toApp' \in Seq(FeedMsgs) /\ reported' \in Buildings
  <2>0. reported \in Buildings /\ toApp \in Seq(FeedMsgs) /\ version \in Versions
    BY <1>1 DEF FeedTyped
  <2>1. CASE HostSubscribe \/ HostListRoots
    <3>1. toApp' = toApp /\ reported' = reported
      BY <2>1 DEF HostSubscribe, HostListRoots, wireVars
    <3> QED
      BY <1>2, <1>3, <2>0, <3>1, SilentKeeps
  <2>2. CASE HostGreet
    <3>1. PICK m : m = Msg("Hello", version)
      OBVIOUS
    <3>2. m \in Others /\ HostSend(<<m>>) /\ reported' = reported
      BY <2>0, <2>2, <3>1 DEF HostGreet, Others
    <3>3. Sayable(<<m>>) /\ Said(<<m>>)
      BY <1>1, <3>2, OtherSayable, SentIsSaid
    <3> QED
      BY <1>1, <1>3, <1>4, <2>0, <3>2, <3>3, SaidKeeps
  <2>3. CASE HostReady
    <3>1. PICK m : m = Msg("Ready", 0)
      OBVIOUS
    <3>2. m \in Others /\ HostSend(<<m>>) /\ reported' = reported
      BY <2>3, <3>1 DEF HostReady, Others
    <3>3. Sayable(<<m>>) /\ Said(<<m>>)
      BY <1>1, <3>2, OtherSayable, SentIsSaid
    <3> QED
      BY <1>1, <1>3, <1>4, <2>0, <3>2, <3>3, SaidKeeps
  <2>4. CASE HostReplayBuilding
    <3>1. StatusChanged
      BY <2>4 DEF HostReplayBuilding
    <3> QED
      BY <1>2, <1>3, <3>1, StatusKeeps
  <2>5. CASE HostReplayRoot
    <3>1. PICK d \in replaying : HostSend(<<Finishes(d)>>)
      BY <2>5 DEF HostReplayRoot, Finishes
    <3>2. reported' = reported /\ d \in Drives /\ d \in service'.completed
      BY <1>1, <1>2, <2>5 DEF HostReplayRoot, Built, FeedTyped, IndexStates
    <3>3. Sayable(<<Finishes(d)>>) /\ Said(<<Finishes(d)>>)
      BY <1>1, <3>1, <3>2, FinishSayable, SentIsSaid
    <3> QED
      BY <1>1, <1>3, <1>4, <2>0, <3>2, <3>3, SaidKeeps
  <2> QED
    BY <2>1, <2>2, <2>3, <2>4, <2>5
<1>6. FeedTyped'
  BY <1>1, <1>2, <1>3, <1>5 DEF FeedTyped
<1>7. Process'
  <2>1. helper' # 0
    BY <1>1, <1>2, InSessionPhases DEF Process
  <2> QED
    BY <1>1, <1>2, <2>1, InSessionPhases DEF Process
<1>8. Built'
  BY <1>1, <1>2, <1>4, ServingBuilds
<1>9. Parties'
  BY <1>1, <1>2, <1>3 DEF Parties
<1> QED
  BY <1>2, <1>4, <1>5, <1>6, <1>7, <1>8, <1>9 DEF FeedInv

\* It reads what the app sent, or finds that it is gone.
LEMMA ReadingKeeps ==
    ASSUME FeedInv, Begun, UNCHANGED appVars, HostFill \/ HostRead \/ HostPeerGone
    PROVE  FeedInv' /\ service' = service /\ begun' = begun
<1>1. FeedTyped /\ Process /\ Built /\ Parties /\ Watched
  BY DEF FeedInv
<1>2. /\ UNCHANGED <<helper, version, service, volume, reported, lifetimeOver, conn, listening, appEnd, toApp>>
      /\ toHelper' \in Seq(Notes) /\ inbox' \in Seq(Notes)
      /\ \/ UNCHANGED <<phase, subscribed, replaying>>
         \/ phase' = "seeking" /\ subscribed' = FALSE /\ replaying' = {} /\ ~appEnd
  <2>0. toHelper \in Seq(Notes) /\ inbox \in Seq(Notes) /\ lifetimeOver = FALSE
    BY <1>1 DEF FeedTyped, Process
  <2>1. CASE HostFill
    BY <2>0, <2>1 DEF HostFill, HelperFill, helperVars
  <2>2. CASE HostRead
    <3>1. PICK m : m = Head(inbox)
      OBVIOUS
    <3>2. inbox # <<>> /\ m \in Notes /\ Tail(inbox) \in Seq(Notes)
      BY <2>0, <2>2, <3>1 DEF HostRead
    <3>3. m.verb = "Record"
      BY <3>2 DEF Notes, Msg
    <3>4. /\ inbox' = Tail(inbox)
          /\ UNCHANGED <<helper, version, phase, subscribed, replaying, reported, service, volume,
                         lifetimeOver, conn, listening, peer, appEnd, helperEnd, toApp, toHelper>>
      BY <2>0, <2>2, <3>1, <3>3 DEF HostRead
    <3> QED
      BY <2>0, <3>2, <3>4
  <2>3. CASE HostPeerGone
    <3>1. EndSession(<<>>, "seeking") /\ ~appEnd
      BY <2>3 DEF HostPeerGone
    <3> QED
      BY <2>0, <3>1 DEF EndSession, HelperHangUp
  <2> QED
    BY <2>1, <2>2, <2>3
<1>3. phase = "reading" /\ phase \in InSession
  BY InSessionPhases DEF HostFill, HostRead, HostPeerGone
<1>4. UNCHANGED <<stage, view, takenDown>> /\ Onlooks
  BY <1>2 DEF appVars, Onlooks
<1>5. Watched' /\ begun' = begun
  BY <1>2, <1>4, SilentKeeps
<1>6. FeedTyped'
  BY <1>1, <1>2, <1>4 DEF FeedTyped
<1>7. Process'
  <2>1. helper' # 0
    BY <1>1, <1>2, <1>3 DEF Process
  <2> QED
    BY <1>1, <1>2, <1>3, <2>1, InSessionPhases DEF Process
<1>8. Built'
  <2>1. replaying' \subseteq service.completed
    BY <1>1, <1>2 DEF Built
  <2> QED
    BY <1>1, <1>2, <1>5, <2>1, ServingBuilds
<1>9. Parties'
  BY <1>1, <1>2, <1>4 DEF Parties
<1> QED
  BY <1>2, <1>5, <1>6, <1>7, <1>8, <1>9 DEF FeedInv

\* The serving thread keeps the invariant, and leaves the volumes alone.
LEMMA ServeKeeps ==
    ASSUME FeedInv, HelperActs(ServeNext)
    PROVE  FeedInv' /\ service' = service /\ begun' = begun /\ UNCHANGED <<stage, view, takenDown>>
<1>1. ServeNext /\ UNCHANGED appVars /\ Begun
  BY DEF HelperActs, Begun, On
<1>2. ~HelperExit /\ ~HostLifetimeOver
  BY InSessionPhases DEF HelperExit, HostLifetimeOver, FeedInv, Process
<1>3. UNCHANGED <<stage, view, takenDown>>
  BY <1>1 DEF appVars
<1> QED
  BY <1>1, <1>2, <1>3, ConnectKeeps, GreetingKeeps, ReadingKeeps DEF ServeNext

\* A process comes up, and nothing is begun yet.
LEMMA StartKeeps ==
    ASSUME FeedInv, HelperActs(HelperStart)
    PROVE  FeedInv' /\ service' = service /\ begun' = begun /\ UNCHANGED <<stage, view, takenDown>>
<1>1. FeedTyped /\ Process /\ Built /\ Parties /\ Watched
  BY DEF FeedInv
<1>2. /\ helper = 0 /\ helper' = 1 /\ version' = AppVersion /\ phase' = "seeking"
      /\ volume' = [d \in Drives |-> "starting"]
      /\ UNCHANGED <<subscribed, replaying, reported, service, lifetimeOver>>
      /\ UNCHANGED <<conn, listening, appEnd, toApp, toHelper, inbox>>
      /\ UNCHANGED <<stage, view, takenDown>> /\ Begun
  BY DEF HelperActs, HelperStart, StartProcess, wireVars, appVars, Begun, On
<1>3. begun = {} /\ service = Cleared /\ phase = "gone" /\ ~appEnd /\ ~subscribed
  BY <1>1, <1>2, InSessionPhases DEF Process, Parties
<1>4. Watched' /\ begun' = begun
  BY <1>2, SilentKeeps DEF Onlooks
<1>5. FeedTyped'
  <2>1. volume' \in [Drives -> VolumePhases]
    BY <1>2 DEF VolumePhases
  <2>2. version' \in Versions
    BY <1>2, HelperAssumption
  <2> QED
    BY <1>1, <1>2, <2>1, <2>2 DEF FeedTyped
<1>6. Process'
  BY <1>1, <1>2, <1>3 DEF Process
<1>7. Built'
  <2>1. \A d \in Drives : volume'[d] = "starting"
    BY <1>2
  <2> QED
    BY <1>1, <1>2, <1>3, <1>4, <2>1 DEF Built, On
<1>8. Parties'
  BY <1>1, <1>2, <1>3 DEF Parties
<1> QED
  BY <1>2, <1>4, <1>5, <1>6, <1>7, <1>8 DEF FeedInv

--------------------------------------------------------------------------------
(* The app. *)

\* The app comes, speaks and goes.
LEMMA ComingKeeps ==
    ASSUME FeedInv, AppActs(AppListen) \/ AppActs(AppAttach) \/ AppActs(AppHangUp)
    PROVE  /\ FeedInv' /\ service' = service /\ begun' = begun
           /\ \/ stage = "away" /\ stage' = "listening" /\ UNCHANGED <<view, takenDown>>
              \/ stage = "listening" /\ stage' = "attached" /\ view' = Cleared /\ takenDown' = {}
              \/ stage = "attached" /\ stage' = "away" /\ view' = Cleared /\ takenDown' = {}
<1>1. FeedTyped /\ Process /\ Built /\ Parties /\ Watched
  BY DEF FeedInv
<1>2. /\ UNCHANGED <<helper, version, phase, subscribed, replaying, reported, service, volume, lifetimeOver, begun>>
      /\ UNCHANGED <<conn, toApp, inbox>>
      /\ toHelper' \in {toHelper, <<>>}
      /\ \/ /\ stage = "away" /\ stage' = "listening" /\ UNCHANGED <<view, takenDown>>
            /\ listening' = "pending" /\ appEnd' = FALSE
         \/ /\ stage = "listening" /\ stage' = "attached" /\ view' = Cleared /\ takenDown' = {}
            /\ listening' = "connected" /\ appEnd' = appEnd /\ appEnd
         \/ /\ stage = "attached" /\ stage' = "away" /\ view' = Cleared /\ takenDown' = {}
            /\ listening' = "connected" /\ appEnd' = FALSE
  <2>1. CASE AppActs(AppListen)
    <3>1. listening \notin {"pending", "signalled"}
      BY <1>1, <2>1 DEF AppActs, AppListen, Parties
    <3> QED
      BY <2>1, <3>1 DEF AppActs, AppListen, PostConnect, HungUp, helperVars
  <2>2. CASE AppActs(AppAttach)
    <3>1. listening = "signalled" /\ stage = "listening"
      BY <2>2 DEF AppActs, AppAttach, TakeConnection
    <3>2. appEnd
      BY <1>1, <3>1 DEF Parties
    <3> QED
      BY <2>2, <3>1, <3>2 DEF AppActs, AppAttach, TakeConnection, helperVars
  <2>3. CASE AppActs(AppHangUp)
    <3>1. stage = "attached" /\ listening = "connected" /\ appEnd /\ conn # 0
      BY <1>1, <2>3 DEF AppActs, AppHangUp, Parties
    <3> QED
      BY <2>3, <3>1 DEF AppActs, AppHangUp, CloseStream, HungUp, helperVars
  <2> QED
    BY <2>1, <2>2, <2>3
<1>3. FeedTyped'
  <2>1. toHelper' \in Seq(Notes) /\ toApp' \in Seq(FeedMsgs) /\ inbox' \in Seq(Notes)
    <3>1. toHelper \in Seq(Notes) /\ toApp \in Seq(FeedMsgs) /\ inbox \in Seq(Notes)
      BY <1>1 DEF FeedTyped
    <3>2. toHelper' = toHelper \/ toHelper' = <<>>
      BY <1>2
    <3>3. toHelper' \in Seq(Notes)
      <4>1. <<>> \in Seq(Notes)
        OBVIOUS
      <4> QED
        BY <3>1, <3>2, <4>1, Zenon
    <3> QED
      BY <1>2, <3>1, <3>3
  <2>2. view' \in IndexStates
    BY <1>1, <1>2, ClearedIsState DEF FeedTyped
  <2>3. stage' \in Stages /\ appEnd' \in BOOLEAN
    BY <1>1, <1>2 DEF FeedTyped, Stages
  <2> QED
    BY <1>1, <1>2, <2>1, <2>2, <2>3 DEF FeedTyped
<1>4. Process'
  BY <1>1, <1>2 DEF Process
<1>5. Built'
  BY <1>1, <1>2 DEF Built, On
<1>6. Parties'
  BY <1>1, <1>2 DEF Parties
<1>7. Watched'
  <2>1. CASE appEnd'
    <3>1. stage = "listening" /\ appEnd /\ view' = Cleared /\ takenDown' = {} /\ stage' = "attached"
      BY <1>2, <2>1
    <3>2. view = Cleared /\ takenDown = {} /\ Line
      BY <1>1, <3>1 DEF Watched
    <3>3. view' = view /\ takenDown' = takenDown
      BY <3>1, <3>2
    <3>4. Line'
      BY <1>2, <3>2, <3>3 DEF Line, Honest, Past, Seen
    <3> QED
      BY <1>1, <1>2, <3>1, <3>3, <3>4 DEF Watched, Past, On
  <2>2. CASE ~appEnd'
    <3>1. stage' # "attached" /\ view' = Cleared /\ takenDown' = {}
      BY <1>1, <1>2, <2>2 DEF Watched
    <3>2. On(view') = {}
      BY <3>1, ClearedIsState
    <3> QED
      BY <2>2, <3>1, <3>2 DEF Watched
  <2> QED
    BY <2>1, <2>2
<1> QED
  BY <1>2, <1>3, <1>4, <1>5, <1>6, <1>7 DEF FeedInv

LEMMA SpeakKeeps ==
    ASSUME FeedInv, AppActs(AppSpeak)
    PROVE  FeedInv' /\ service' = service /\ begun' = begun /\ UNCHANGED <<stage, view, takenDown>>
<1>1. FeedTyped /\ Process /\ Built /\ Parties /\ Watched
  BY DEF FeedInv
<1>2. /\ UNCHANGED <<helper, version, phase, subscribed, replaying, reported, service, volume, lifetimeOver, begun>>
      /\ UNCHANGED <<stage, view, takenDown, conn, listening, appEnd, toApp>>
      /\ toHelper' \in Seq(Notes) /\ inbox' \in Seq(Notes)
  <2>1. PICK p \in Policies : AppWrite(conn, <<Msg("Record", p)>>, Parked)
    BY DEF AppActs, AppSpeak
  <2>2. PICK q : q = <<Msg("Record", p)>>
    OBVIOUS
  <2>3. q \in Seq(Notes)
    BY <2>2 DEF Notes
  <2>4. toHelper \in Seq(Notes) /\ inbox \in Seq(Notes)
    BY <1>1 DEF FeedTyped
  <2>5. toHelper \o q \in Seq(Notes)
    BY <2>3, <2>4
  <2>6. Delivered(conn, q, Parked) /\ UNCHANGED <<conn, listening, peer, appEnd, helperEnd, toApp>>
    BY <2>1, <2>2 DEF AppWrite
  <2>7. \/ UNCHANGED <<toHelper, inbox>>
        \/ inbox' = q /\ UNCHANGED toHelper
        \/ toHelper' = toHelper \o q /\ UNCHANGED inbox
    BY <2>6 DEF Delivered
  <2>8. toHelper' \in Seq(Notes) /\ inbox' \in Seq(Notes)
    BY <2>3, <2>4, <2>5, <2>7
  <2> QED
    BY <2>6, <2>8 DEF AppActs, AppSpeak, helperVars, appVars
<1>3. FeedTyped'
  BY <1>1, <1>2 DEF FeedTyped
<1>4. Process'
  BY <1>1, <1>2 DEF Process
<1>5. Built'
  BY <1>1, <1>2 DEF Built, On
<1>6. Parties'
  BY <1>1, <1>2 DEF Parties
<1>7. Watched'
  BY <1>1, <1>2 DEF Watched, Line, Honest, Past, Seen, On
<1> QED
  BY <1>2, <1>3, <1>4, <1>5, <1>6, <1>7 DEF FeedInv

\* What one message makes the app show.
Shows(d)     == On(view') = On(view) \union {d} /\ view'.completed = view.completed /\ takenDown' = takenDown
TakesDown(d) == On(view') = On(view) \ {d} /\ view'.completed = view.completed /\ takenDown' = takenDown \union {d}
Claims(d)    == On(view') = On(view) /\ view'.completed = view.completed \union {d} /\ takenDown' = takenDown
Looks        == On(view') = On(view) /\ view'.completed = view.completed /\ takenDown' = takenDown

\* A message is one of these.
LEMMA ReadAs ==
    ASSUME view \in IndexStates, NEW m \in FeedMsgs, view' = Mirrored(view, m),
           takenDown' = IF m.verb = "Idle" THEN takenDown \union {m.arg} ELSE takenDown
    PROVE  /\ view' \in IndexStates
           /\ \/ \E d \in Drives : m = Begins(d) /\ Shows(d)
              \/ \E d \in Drives : m = Ends(d) /\ TakesDown(d)
              \/ \E d \in Drives : m = Finishes(d) /\ Claims(d)
              \/ Looks /\ \A d : m # Begins(d) /\ m # Ends(d) /\ m # Finishes(d)
<1>1. CASE \E d \in Drives : m = Begins(d)
  <2>1. PICK d \in Drives : m = Begins(d)
    BY <1>1
  <2>2. view' = MarkBuilding(view, d) /\ takenDown' = takenDown
    BY <2>1, MirroredBy
  <2> QED
    BY <2>1, <2>2, StatesMove DEF Shows
<1>2. CASE \E d \in Drives : m = Ends(d)
  <2>1. PICK d \in Drives : m = Ends(d)
    BY <1>2
  <2>2. view' = ClearBuilding(view, d) /\ takenDown' = takenDown \union {d}
    BY <2>1, MirroredBy
  <2> QED
    BY <2>1, <2>2, StatesMove DEF TakesDown
<1>3. CASE \E d \in Drives : m = Finishes(d)
  <2>1. PICK d \in Drives : m = Finishes(d)
    BY <1>3
  <2>2. view' = MarkComplete(view, d) /\ takenDown' = takenDown
    BY <2>1, MirroredBy
  <2> QED
    BY <2>1, <2>2, StatesMove DEF Claims
<1>4. CASE \E news \in Drives \X Percents : m = Reaches(news[1], news[2])
  <2>1. PICK news \in Drives \X Percents : m = Reaches(news[1], news[2])
    BY <1>4
  <2>2. PICK d \in Drives, p \in Percents : m = Reaches(d, p)
    BY <2>1
  <2>3. view' = SetProgress(view, d, p) /\ takenDown' = takenDown
    <3>1. Mirrored(view, Reaches(d, p)) = SetProgress(view, d, p) /\ Reaches(d, p).verb # "Idle"
      BY MirroredReach
    <3> QED
      BY <2>2, <3>1
  <2>4. \A e : m # Begins(e) /\ m # Ends(e) /\ m # Finishes(e)
    BY <2>2, Apart
  <2>5. view' \in IndexStates /\ On(view') = On(view) /\ view'.completed = view.completed
    <3>1. /\ SetProgress(view, d, p) \in IndexStates /\ On(SetProgress(view, d, p)) = On(view)
          /\ SetProgress(view, d, p).completed = view.completed
      BY StatesMove
    <3> QED
      BY <2>3, <3>1
  <2> QED
    BY <2>3, <2>4, <2>5 DEF Looks
<1>5. CASE m \in Others
  <2>1. view' = view /\ takenDown' = takenDown
    BY <1>5, MirroredBy
  <2>2. \A e : m # Begins(e) /\ m # Ends(e) /\ m # Finishes(e)
    BY <1>5, Apart
  <2> QED
    BY <2>1, <2>2 DEF Looks
<1> QED
  BY <1>1, <1>2, <1>3, <1>4, <1>5 DEF FeedMsgs

\* The app reads a message that is so, and in its turn.
LEMMA ReadKeeps ==
    ASSUME FeedInv, AppActs(AppRead)
    PROVE  /\ FeedInv' /\ service' = service /\ begun' = begun /\ stage = "attached" /\ stage' = stage
           /\ \/ \E d \in Drives : d \in begun /\ d \notin takenDown /\ Shows(d)
              \/ \E d \in Drives : d \in On(view) \union takenDown /\ d \notin On(service) /\ TakesDown(d)
              \/ \E d \in Drives : d \in service.completed /\ Claims(d)
              \/ Looks
<1>1. FeedTyped /\ Process /\ Built /\ Parties /\ Watched
  BY DEF FeedInv
<1>2. PICK m : m = Head(toApp)
  OBVIOUS
<1>3. /\ UNCHANGED <<helper, version, phase, subscribed, replaying, reported, service, volume, lifetimeOver, begun>>
      /\ UNCHANGED <<stage, conn, listening, appEnd, toHelper, inbox>>
      /\ stage = "attached" /\ toApp # <<>> /\ toApp' = Tail(toApp)
      /\ view' = Mirrored(view, m)
      /\ takenDown' = IF m.verb = "Idle" THEN takenDown \union {m.arg} ELSE takenDown
  BY <1>2 DEF AppActs, AppRead, helperVars
<1>4. toApp \in Seq(FeedMsgs) /\ view \in IndexStates /\ appEnd /\ Line
  BY <1>1, <1>3 DEF FeedTyped, Parties, Watched
<1>5. /\ m = toApp[1] /\ Holds(toApp, m) /\ m \in FeedMsgs /\ Tail(toApp) \in Seq(FeedMsgs) /\ 1 \in 1..Len(toApp)
      /\ \A x : /\ Holds(Tail(toApp), x) => Holds(toApp, x)
                /\ Holds(toApp, x) => Holds(Tail(toApp), x) \/ m = x
  <2>1. 1 \in 1..Len(toApp)
    BY <1>3, <1>4
  <2> QED
    BY <1>2, <1>3, <1>4, <2>1, HoldsRest
<1>6. /\ view' \in IndexStates
      /\ \/ \E d \in Drives : m = Begins(d) /\ Shows(d)
         \/ \E d \in Drives : m = Ends(d) /\ TakesDown(d)
         \/ \E d \in Drives : m = Finishes(d) /\ Claims(d)
         \/ Looks /\ \A d : m # Begins(d) /\ m # Ends(d) /\ m # Finishes(d)
  BY <1>3, <1>4, <1>5, ReadAs
<1>7. Honest(m) /\ InTurn(toApp, Seen, takenDown)
  BY <1>4, <1>5 DEF Line
<1>8. ASSUME NEW d \in Drives
      PROVE  /\ m = Begins(d) => d \in begun /\ d \notin takenDown
             /\ m = Ends(d) => Past(d) /\ d \in Seen
             /\ m = Finishes(d) => d \in service.completed
  <2>1. \A j \in 1..(1 - 1) : FALSE
    OBVIOUS
  <2> QED
    BY <1>5, <1>7, <2>1 DEF Honest, InTurn
<1>9. \/ \E d \in Drives : m = Begins(d) /\ d \in begun /\ d \notin takenDown /\ Shows(d)
      \/ \E d \in Drives : m = Ends(d) /\ Past(d) /\ d \in Seen /\ TakesDown(d)
      \/ \E d \in Drives : m = Finishes(d) /\ d \in service.completed /\ Claims(d)
      \/ Looks /\ \A d : m # Begins(d) /\ m # Ends(d) /\ m # Finishes(d)
  BY <1>6, <1>8
<1>10. Seen = On(view) \union takenDown /\ Seen' = On(view') \union takenDown'
  BY DEF Seen, On
<1>11. /\ Seen \subseteq Seen'
       /\ \A d \in Drives : m = Begins(d) => d \in Seen'
       /\ \A d \in takenDown' : d \in takenDown \/ (m = Ends(d) /\ Past(d))
       /\ On(view') \subseteq begun
  <2>0. On(view) \subseteq begun
    BY <1>1 DEF Watched
  <2>1. ASSUME NEW d \in Drives, m = Begins(d), d \in begun, Shows(d)
        PROVE  /\ Seen \subseteq Seen' /\ \A e \in Drives : m = Begins(e) => e \in Seen'
               /\ takenDown' = takenDown /\ On(view') \subseteq begun
    <3>1. \A e : m = Begins(e) => e = d
      BY <2>1, Apart
    <3> QED
      BY <1>10, <2>0, <2>1, <3>1 DEF Shows
  <2>2. ASSUME NEW d \in Drives, m = Ends(d), Past(d), d \in Seen, TakesDown(d)
        PROVE  /\ Seen \subseteq Seen' /\ \A e \in Drives : m # Begins(e)
               /\ \A e \in takenDown' : e \in takenDown \/ (m = Ends(e) /\ Past(e))
               /\ On(view') \subseteq begun
    <3>1. \A e : m # Begins(e)
      BY <2>2, Apart
    <3> QED
      BY <1>10, <2>0, <2>2, <3>1 DEF TakesDown
  <2>3. ASSUME NEW d \in Drives, m = Finishes(d), Claims(d)
        PROVE  Seen' = Seen /\ (\A e \in Drives : m # Begins(e)) /\ takenDown' = takenDown /\ On(view') = On(view)
    <3>1. \A e : m # Begins(e)
      BY <2>3, Apart
    <3> QED
      BY <1>10, <2>3, <3>1 DEF Claims
  <2>4. ASSUME Looks, \A d : m # Begins(d)
        PROVE  Seen' = Seen /\ (\A e \in Drives : m # Begins(e)) /\ takenDown' = takenDown /\ On(view') = On(view)
    BY <1>10, <2>4 DEF Looks
  <2> QED
    BY <1>9, <2>0, <2>1, <2>2, <2>3, <2>4
<1>12. Watched'
  <2>1. \A d \in takenDown' : Past(d)'
    <3>1. \A d \in takenDown' : Past(d)
      BY <1>1, <1>11 DEF Watched
    <3> QED
      BY <1>3, <3>1 DEF Past
  <2>2. InTurn(toApp', Seen', takenDown')
    <3>1. PICK seen2, down2 : seen2 = Seen' /\ down2 = takenDown'
      OBVIOUS
    <3>2. InTurn(Tail(toApp), seen2, down2)
      BY <1>3, <1>4, <1>5, <1>7, <1>11, <3>1, TurnGoesOn
    <3> QED
      BY <1>3, <3>1, <3>2
  <2>3. \A x : Holds(toApp', x) => Honest(x)'
    BY <1>3, <1>4, <1>5 DEF Line, Honest, Past
  <2>4. \A d \in Drives : reported'[d] # Off => d \in Seen' \/ Holds(toApp', Begins(d))
    BY <1>3, <1>4, <1>5, <1>11 DEF Line
  <2>5. Line'
    BY <2>2, <2>3, <2>4 DEF Line
  <2> QED
    BY <1>3, <1>11, <2>1, <2>5 DEF Watched
<1>13. FeedTyped'
  <2>1. toApp' \in Seq(FeedMsgs)
    BY <1>3, <1>5
  <2> QED
    BY <1>1, <1>3, <1>6, <2>1 DEF FeedTyped
<1>14. Process'
  BY <1>1, <1>3 DEF Process
<1>15. Built'
  BY <1>1, <1>3 DEF Built, On
<1>16. Parties'
  BY <1>1, <1>3 DEF Parties
<1>17. FeedInv'
  BY <1>12, <1>13, <1>14, <1>15, <1>16 DEF FeedInv
<1>18. \A d \in Drives : Past(d) => d \notin On(service)
  BY PastIsOff
<1> QED
  BY <1>3, <1>9, <1>10, <1>17, <1>18

--------------------------------------------------------------------------------
(* The invariant is kept, and every step is a step of IndexFeed or none. *)

LEMMA StepKeeps ==
    ASSUME FeedInv, [Next]_feedVars
    PROVE  FeedInv'
<1>1. CASE \E d \in Drives : HelperActs(VolumeNext(d))
  BY <1>1, VolumeKeeps
<1>2. CASE UNCHANGED feedVars
  <2>1. /\ UNCHANGED <<helper, version, phase, subscribed, replaying, reported, service, volume, lifetimeOver>>
        /\ UNCHANGED <<stage, view, takenDown, begun, conn, listening, appEnd, toApp, toHelper, inbox>>
    BY <1>2 DEF feedVars, helperVars, wireVars
  <2> QED
    BY <2>1 DEF FeedInv, FeedTyped, Process, Built, Parties, Watched, Line, Honest, Past, Seen, On
<1> QED
  BY <1>1, <1>2, StartKeeps, ServeKeeps, ComingKeeps, ReadKeeps, SpeakKeeps DEF Next

\* A step that leaves what IndexFeed sees.
LEMMA Unseen ==
    ASSUME begun' = begun, On(service') = On(service), service'.completed = service.completed, stage' = stage,
           On(view') = On(view), view'.completed = view.completed, takenDown' = takenDown
    PROVE  UNCHANGED Feed!vars
  BY DEF Feed!vars, On

\* A volume begun, finished or over is IndexFeed's Begin, Finish or Over.
LEMMA VolumeSteps ==
    ASSUME FeedInv, NEW d \in Drives, HelperActs(VolumeNext(d))
    PROVE  [Feed!Next]_(Feed!vars)
<1>1. Serves(d) /\ Begun /\ UNCHANGED <<stage, view, takenDown>> /\ On(service) \subseteq begun
  BY VolumeKeeps DEF FeedInv, Built
<1>2. CASE Opens(d)
  <2>1. begun' = begun \union {d} /\ d \notin begun
    BY <1>1, <1>2 DEF Opens, Begun
  <2>2. Feed!Begin(d)
    BY <1>1, <1>2, <2>1 DEF Opens, On, Feed!Begin, Feed!appVars
  <2> QED
    BY <2>2 DEF Feed!Next
<1>3. CASE Completes(d)
  <2>1. begun' = begun
    BY <1>1, <1>3 DEF Completes, Begun
  <2>2. Feed!Finish(d)
    BY <1>1, <1>3, <2>1 DEF Completes, On, Feed!Finish, Feed!appVars
  <2> QED
    BY <2>2 DEF Feed!Next
<1>4. CASE Closes(d)
  <2>1. begun' = begun
    BY <1>1, <1>4 DEF Closes, Begun
  <2>2. Feed!Over(d)
    BY <1>1, <1>4, <2>1 DEF Closes, On, Feed!Over, Feed!appVars
  <2> QED
    BY <2>2 DEF Feed!Next
<1>5. CASE Stays
  <2>1. begun' = begun
    BY <1>1, <1>5 DEF Stays, Begun
  <2> QED
    BY <1>1, <1>5, <2>1, Unseen DEF Stays
<1> QED
  BY <1>1, <1>2, <1>3, <1>4, <1>5 DEF Serves

\* The app comes and goes as in IndexFeed.
LEMMA ComingSteps ==
    ASSUME FeedInv, AppActs(AppListen) \/ AppActs(AppAttach) \/ AppActs(AppHangUp)
    PROVE  [Feed!Next]_(Feed!vars)
<1>1. service' = service /\ begun' = begun
  BY ComingKeeps
<1>2. CASE stage = "away" /\ stage' = "listening" /\ UNCHANGED <<view, takenDown>>
  BY <1>1, <1>2 DEF Feed!vars
<1>3. CASE stage = "listening" /\ stage' = "attached" /\ view' = Cleared /\ takenDown' = {}
  <2>1. On(view') = {} /\ view'.completed = {}
    BY <1>3, ClearedIsState
  <2>2. Feed!Attach
    BY <1>1, <1>3, <2>1 DEF On, Feed!Attach, Feed!helperVars
  <2> QED
    BY <2>2 DEF Feed!Next
<1>4. CASE stage = "attached" /\ stage' = "away" /\ view' = Cleared /\ takenDown' = {}
  <2>1. On(view') = {} /\ view'.completed = {}
    BY <1>4, ClearedIsState
  <2>2. Feed!Detach
    BY <1>1, <1>4, <2>1 DEF On, Feed!Detach, Feed!helperVars
  <2> QED
    BY <2>2 DEF Feed!Next
<1> QED
  BY <1>2, <1>3, <1>4, ComingKeeps

\* A message read is shown, taken down or claimed, or is no news.
LEMMA ReadSteps ==
    ASSUME FeedInv, AppActs(AppRead)
    PROVE  [Feed!Next]_(Feed!vars)
<1>1. service' = service /\ begun' = begun /\ stage = "attached" /\ stage' = "attached"
  BY ReadKeeps
<1>2. ASSUME NEW d \in Drives, d \in begun, d \notin takenDown, Shows(d) PROVE [Feed!Next]_(Feed!vars)
  <2>1. CASE d \in On(view)
    <3>1. On(view') = On(view) /\ view'.completed = view.completed /\ takenDown' = takenDown
      BY <1>2, <2>1 DEF Shows
    <3> QED
      BY <1>1, <3>1, Unseen
  <2>2. CASE d \notin On(view)
    <3>1. Feed!Show(d)
      BY <1>1, <1>2, <2>2 DEF Shows, On, Feed!Show, Feed!helperVars
    <3> QED
      BY <3>1 DEF Feed!Next
  <2> QED
    BY <2>1, <2>2
<1>3. ASSUME NEW d \in Drives, d \in On(view) \union takenDown, d \notin On(service), TakesDown(d)
      PROVE  [Feed!Next]_(Feed!vars)
  <2>1. CASE d \notin On(view)
    <3>1. On(view') = On(view) /\ view'.completed = view.completed /\ takenDown' = takenDown
      BY <1>3, <2>1 DEF TakesDown
    <3> QED
      BY <1>1, <3>1, Unseen
  <2>2. CASE d \in On(view)
    <3>1. Feed!TakeDown(d)
      BY <1>1, <1>3, <2>2 DEF TakesDown, On, Feed!TakeDown, Feed!helperVars
    <3> QED
      BY <3>1 DEF Feed!Next
  <2> QED
    BY <2>1, <2>2
<1>4. ASSUME NEW d \in Drives, d \in service.completed, Claims(d) PROVE [Feed!Next]_(Feed!vars)
  <2>1. CASE d \in view.completed
    <3>1. On(view') = On(view) /\ view'.completed = view.completed /\ takenDown' = takenDown
      BY <1>4, <2>1 DEF Claims
    <3> QED
      BY <1>1, <3>1, Unseen
  <2>2. CASE d \notin view.completed
    <3>1. Feed!Claim(d)
      BY <1>1, <1>4, <2>2 DEF Claims, On, Feed!Claim, Feed!helperVars
    <3> QED
      BY <3>1 DEF Feed!Next
  <2> QED
    BY <2>1, <2>2
<1>5. ASSUME Looks PROVE [Feed!Next]_(Feed!vars)
  BY <1>1, <1>5, Unseen DEF Looks
<1> QED
  BY <1>2, <1>3, <1>4, <1>5, ReadKeeps

LEMMA FeedSteps ==
    ASSUME FeedInv, [Next]_feedVars
    PROVE  [Feed!Next]_(Feed!vars)
<1>1. CASE \E d \in Drives : HelperActs(VolumeNext(d))
  BY <1>1, VolumeSteps
<1>2. CASE HelperActs(HelperStart) \/ HelperActs(ServeNext) \/ AppActs(AppSpeak)
  <2>1. service' = service /\ begun' = begun /\ UNCHANGED <<stage, view, takenDown>>
    BY <1>2, StartKeeps, ServeKeeps, SpeakKeeps
  <2> QED
    BY <2>1 DEF Feed!vars
<1>3. CASE UNCHANGED feedVars
  BY <1>3 DEF feedVars, helperVars, Feed!vars
<1> QED
  BY <1>1, <1>2, <1>3, ComingSteps, ReadSteps DEF Next

\* The states of the helper, of the wire and of the app hang together, for any volumes, any
\* number of connections and any policies: a volume is begun once and finished before it is
\* taken down; what the helper wrote is so; no build is told to begin again after it ended, nor
\* to end where the app was not told that it began (reported_building, host.rs); an app that is
\* not attached shows nothing.
THEOREM FeedIsSound == Spec => []FeedInv
<1>1. FeedInv /\ [Next]_feedVars => FeedInv'
  BY StepKeeps
<1> QED
  BY <1>1, FeedInvFirst, PTL DEF Spec

\* One helper process keeps to IndexFeed with every app that attaches: each step of the helper's
\* threads, of the host and of the app's reading is a step of IndexFeed or changes nothing it
\* speaks of.  So an app shows each build at most once while it is attached, takes it down only
\* when it is over, and claims a volume only when it is finished.
THEOREM FeedIsKept == Spec => Feed!Safety
<1>1. Init => Feed!Init
  <2> SUFFICES ASSUME Init PROVE Feed!Init
    OBVIOUS
  <2>1. service = Cleared /\ view = Cleared /\ stage = "away" /\ takenDown = {} /\ begun = {}
    BY DEF Init, HelperInit, NoProcess
  <2>2. On(service) = {} /\ service.completed = {} /\ On(view) = {} /\ view.completed = {}
    BY <2>1, ClearedIsState
  <2> QED
    BY <2>1, <2>2 DEF Feed!Init, On
<1>2. FeedInv /\ [Next]_feedVars => [Feed!Next]_(Feed!vars)
  BY FeedSteps
<1> QED
  BY <1>1, <1>2, FeedIsSound, PTL DEF Spec, Feed!Safety
================================================================================
