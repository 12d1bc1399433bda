-------------------------- MODULE IndexSession_proofs --------------------------
(***************************************************************************)
(* Proofs about IndexSession: for any number of workers, callers, helper   *)
(* processes and connections, and whether or not end_session's wait may    *)
(* expire, no start begins a second live session beside the one on record. *)
(* If the wait does not expire, and all calls come from one thread, a live *)
(* conversation is on the gate, nothing is claimed of a volume that no     *)
(* helper keeps current, a quiet session shows what the helper knows, and  *)
(* the helper records under a policy of that session's.                    *)
(***************************************************************************)
EXTENDS IndexSession, FiniteSetTheorems, WellFoundedInduction, TLAPS

--------------------------------------------------------------------------------
(* What messages do to a mirror. *)

\* What a helper writes.
ToAppMsgs == {Msg("Hello", v) : v \in Versions} \union {Msg("Ready", 0), Msg("Fatal", 0)}
             \union {Msg("Building", d) : d \in Drives} \union {Msg("Idle", d) : d \in Drives}
             \union {Msg("Complete", d) : d \in Drives}
             \union {Msg("Progress", news) : news \in Drives \X Percents}

\* A mirror that shows a, and reads what q holds, shows b.
Leads(a, q, b) ==
    \E st \in [0..Len(q) -> IndexStates] :
        st[0] = a /\ st[Len(q)] = b /\ \A i \in 1..Len(q) : st[i] = Mirrored(st[i - 1], q[i])

\* A message leaves a mirror a mirror.
LEMMA MirroredTyped ==
    ASSUME NEW a \in IndexStates, NEW m \in ToAppMsgs
    PROVE  Mirrored(a, m) \in IndexStates
<1>0. Percents \union {Off} = {Off} \union Percents /\ Unsaid \in Percents
  BY PercentAssumption DEF Percents, Unsaid
<1>1. CASE \E d \in Drives : m = Msg("Building", d)
  BY <1>0, <1>1 DEF Msg, Mirrored, MarkBuilding, IndexStates
<1>2. CASE \E d \in Drives : m = Msg("Idle", d)
  BY <1>0, <1>2 DEF Msg, Mirrored, ClearBuilding, IndexStates
<1>3. CASE \E d \in Drives : m = Msg("Complete", d)
  BY <1>0, <1>3 DEF Msg, Mirrored, MarkComplete, IndexStates
<1>4. CASE \E news \in Drives \X Percents : m = Msg("Progress", news)
  BY <1>0, <1>4 DEF Msg, Mirrored, SetProgress, IndexStates
<1>5. CASE m.verb \in {"Hello", "Ready", "Fatal"}
  BY <1>0, <1>5 DEF Mirrored
<1> QED
  BY <1>1, <1>2, <1>3, <1>4, <1>5 DEF ToAppMsgs, Msg

\* Nothing read, nothing changed.
LEMMA LeadsNone ==
    ASSUME NEW a \in IndexStates
    PROVE  Leads(a, <<>>, a) /\ \A b : Leads(a, <<>>, b) => b = a
<1> DEFINE st == [i \in 0..0 |-> a]
<1>0. Len(<<>>) = 0 /\ 1..0 = {}
  OBVIOUS
<1>1. st \in [0..Len(<<>>) -> IndexStates] /\ st[0] = a
  BY <1>0
<1> HIDE DEF st
<1>2. Leads(a, <<>>, a)
  BY <1>0, <1>1 DEF Leads
<1> QED
  BY <1>2 DEF Leads

LEMMA LeadsOne ==
    ASSUME NEW a \in IndexStates, NEW m \in ToAppMsgs
    PROVE  Leads(a, <<m>>, Mirrored(a, m))
<1> DEFINE st == [i \in 0..1 |-> IF i = 0 THEN a ELSE Mirrored(a, m)]
<1>1. st \in [0..Len(<<m>>) -> IndexStates]
  BY MirroredTyped
<1>2. st[0] = a /\ st[1] = Mirrored(a, m)
  OBVIOUS
<1> HIDE DEF st
<1> QED
  BY <1>1, <1>2 DEF Leads

\* What one sequence leads to, the next goes on from.
LEMMA LeadsThen ==
    ASSUME NEW p \in Seq(ToAppMsgs), NEW q \in Seq(ToAppMsgs), NEW a, NEW b, NEW c,
           Leads(a, p, b), Leads(b, q, c)
    PROVE  Leads(a, p \o q, c)
<1>1. PICK f \in [0..Len(p) -> IndexStates] :
         f[0] = a /\ f[Len(p)] = b /\ \A i \in 1..Len(p) : f[i] = Mirrored(f[i - 1], p[i])
  BY DEF Leads
<1>2. PICK g \in [0..Len(q) -> IndexStates] :
         g[0] = b /\ g[Len(q)] = c /\ \A i \in 1..Len(q) : g[i] = Mirrored(g[i - 1], q[i])
  BY DEF Leads
<1> DEFINE n == Len(p)
           k == Len(q)
           st == [i \in 0..(n + k) |-> IF i <= n THEN f[i] ELSE g[i - n]]
<1>3. n \in Nat /\ k \in Nat /\ Len(p \o q) = n + k
  OBVIOUS
<1>4. st \in [0..Len(p \o q) -> IndexStates]
  BY <1>3
<1>5. st[0] = a /\ st[Len(p \o q)] = c
  <2>1. st[0] = f[0] /\ (k = 0 => st[n + k] = f[n]) /\ (k # 0 => st[n + k] = g[k])
    BY <1>3
  <2> QED
    BY <1>1, <1>2, <1>3, <2>1
<1>6. ASSUME NEW i \in 1..(n + k) PROVE st[i] = Mirrored(st[i - 1], (p \o q)[i])
  <2>1. CASE i <= n
    <3>1. st[i] = f[i] /\ st[i - 1] = f[i - 1] /\ (p \o q)[i] = p[i] /\ i \in 1..n
      BY <1>1, <1>3, <2>1
    <3> QED
      BY <1>1, <3>1
  <2>2. CASE i = n + 1
    <3>1. st[i] = g[1] /\ st[i - 1] = b /\ (p \o q)[i] = q[1] /\ 1 \in 1..k
      BY <1>1, <1>3, <2>2
    <3> QED
      BY <1>2, <3>1
  <2>3. CASE i > n + 1
    <3>1. st[i] = g[i - n] /\ st[i - 1] = g[(i - n) - 1] /\ (p \o q)[i] = q[i - n] /\ i - n \in 1..k
      BY <1>3, <2>3
    <3> QED
      BY <1>2, <3>1
  <2> QED
    BY <1>3, <2>1, <2>2, <2>3
<1> HIDE DEF st
<1> QED
  BY <1>3, <1>4, <1>5, <1>6 DEF Leads

\* The reader takes the first message.
LEMMA LeadsOn ==
    ASSUME NEW q \in Seq(ToAppMsgs), NEW a, NEW b, q # <<>>, Leads(a, q, b)
    PROVE  Leads(Mirrored(a, Head(q)), Tail(q), b) /\ Mirrored(a, Head(q)) \in IndexStates
<1>1. PICK f \in [0..Len(q) -> IndexStates] :
         f[0] = a /\ f[Len(q)] = b /\ \A i \in 1..Len(q) : f[i] = Mirrored(f[i - 1], q[i])
  BY DEF Leads
<1> DEFINE st == [i \in 0..(Len(q) - 1) |-> f[i + 1]]
<1>2. Len(q) \in Nat \ {0} /\ Len(Tail(q)) = Len(q) - 1 /\ Head(q) = q[1]
      /\ \A i \in 1..(Len(q) - 1) : Tail(q)[i] = q[i + 1]
  OBVIOUS
<1>3. st \in [0..Len(Tail(q)) -> IndexStates]
  BY <1>2
<1>4. f[1] = Mirrored(a, Head(q)) /\ f[1] \in IndexStates
  BY <1>1, <1>2
<1>5. st[0] = f[1] /\ st[Len(Tail(q))] = b
  BY <1>1, <1>2
<1>6. \A i \in 1..Len(Tail(q)) : st[i] = Mirrored(st[i - 1], Tail(q)[i])
  BY <1>1, <1>2
<1> HIDE DEF st
<1> QED
  BY <1>3, <1>4, <1>5, <1>6 DEF Leads

\* Counting from zero, one by one, reaches every number.
LEMMA Counting ==
    ASSUME NEW T \in SUBSET Nat, 0 \in T, \A n \in T : n + 1 \in T
    PROVE  T = Nat
<1> SUFFICES ASSUME T # Nat PROVE FALSE
  OBVIOUS
<1> DEFINE U == Nat \ T
<1>1. U \in SUBSET Nat /\ U # {}
  OBVIOUS
<1>2. PICK m \in U : \A k \in U : ~(<<k, m>> \in OpToRel(<, Nat))
  BY <1>1, WFMin, NatLessThanWellFounded
<1>3. \A k \in U : ~(k < m)
  BY <1>1, <1>2 DEF OpToRel
<1>4. m # 0 /\ m - 1 \in Nat /\ m - 1 \notin U
  BY <1>3
<1> QED
  BY <1>4

\* g[i] joins the first i of seqs, for i up to k.
Joined(p, q) == p \o q
JoinedAt(g, seqs, i) == IF i = 1 THEN seqs[i] ELSE Joined(g[i - 1], seqs[i])
JoinedUpTo(g, seqs, k) == g = [i \in 1..k |-> JoinedAt(g, seqs, i)]
CanJoin(seqs, k) == \E g : JoinedUpTo(g, seqs, k)

LEMMA JoinOneMore ==
    ASSUME NEW seqs, NEW k \in Nat, CanJoin(seqs, k)
    PROVE  CanJoin(seqs, k + 1)
<1>1. PICK g : JoinedUpTo(g, seqs, k)
  BY DEF CanJoin
<1>2. \A i \in 1..k : g[i] = JoinedAt(g, seqs, i)
  BY <1>1 DEF JoinedUpTo
<1> DEFINE h == [i \in 1..(k + 1) |-> JoinedAt(g, seqs, i)]
<1>3. \A i \in 1..k : h[i] = g[i]
  BY <1>2
<1>4. \A i \in 1..(k + 1) : i # 1 => h[i - 1] = g[i - 1]
  <2> HIDE DEF h
  <2> TAKE i \in 1..(k + 1)
  <2>1. CASE i # 1
    <3>1. i - 1 \in 1..k
      BY <2>1
    <3> QED
      BY <1>3, <3>1
  <2> QED
    BY <2>1
<1>5. \A i \in 1..(k + 1) : JoinedAt(h, seqs, i) = JoinedAt(g, seqs, i)
  <2> HIDE DEF h
  <2> TAKE i \in 1..(k + 1)
  <2>1. CASE i = 1
    BY <2>1 DEF JoinedAt
  <2>2. CASE i # 1
    <3>1. h[i - 1] = g[i - 1]
      BY <1>4, <2>2
    <3> QED
      BY <2>2, <3>1 DEF JoinedAt
  <2> QED
    BY <2>1, <2>2
<1>6. h = [i \in 1..(k + 1) |-> JoinedAt(h, seqs, i)]
  BY <1>5
<1> HIDE DEF h
<1> QED
  BY <1>6 DEF CanJoin, JoinedUpTo

\* FlattenSeq joins the sequences one after another, from the first to the last.
LEMMA Flattened ==
    ASSUME NEW M, NEW seqs \in Seq(Seq(M)), Len(seqs) # 0
    PROVE  \E f \in [1..Len(seqs) -> Seq(M)] :
              /\ f[1] = seqs[1] /\ FlattenSeq(seqs) = f[Len(seqs)]
              /\ \A i \in 2..Len(seqs) : f[i] = Joined(f[i - 1], seqs[i])
<1>0. PICK n \in Nat \ {0} : n = Len(seqs) /\ \A i \in 1..n : seqs[i] \in Seq(M)
  OBVIOUS
<1> DEFINE T == {k \in Nat : CanJoin(seqs, k)}
<1>1. 0 \in T
  <2>1. JoinedUpTo(<<>>, seqs, 0)
    BY DEF JoinedUpTo
  <2> QED
    BY <2>1 DEF CanJoin
<1>2. \A k \in T : k + 1 \in T
  BY JoinOneMore
<1>3. T = Nat
  <2>1. T \in SUBSET Nat
    OBVIOUS
  <2> HIDE DEF T
  <2> QED
    BY <1>1, <1>2, <2>1, Counting
<1>4. CanJoin(seqs, n)
  BY <1>3
<1> HIDE DEF T
<1> DEFINE f == CHOOSE g : JoinedUpTo(g, seqs, n)
<1>5. JoinedUpTo(f, seqs, n)
  BY <1>4 DEF CanJoin
<1>6. FlattenSeq(seqs) = f[n]
  BY <1>0 DEF FlattenSeq, JoinedUpTo, JoinedAt, Joined
<1> HIDE DEF f
<1>7. /\ DOMAIN f = 1..n /\ f = [i \in DOMAIN f |-> f[i]]
      /\ \A i \in 1..n : f[i] = JoinedAt(f, seqs, i)
  BY <1>5 DEF JoinedUpTo
<1>8. \A i \in 1..n : f[i] \in Seq(M)
  <2> DEFINE R == {k \in Nat : k \in 1..n => f[k] \in Seq(M)}
  <2>1. 0 \in R
    OBVIOUS
  <2>2. ASSUME NEW k \in R PROVE k + 1 \in R
    <3>0. k \in Nat /\ (k \in 1..n => f[k] \in Seq(M))
      OBVIOUS
    <3> HIDE DEF R
    <3>1. ASSUME k + 1 \in 1..n PROVE f[k + 1] \in Seq(M)
      <4>1. CASE k = 0
        <5>1. k + 1 = 1 /\ 1 \in 1..n
          BY <4>1
        <5>2. f[1] = seqs[1]
          BY <1>7, <5>1 DEF JoinedAt
        <5> QED
          BY <1>0, <5>1, <5>2
      <4>2. CASE k # 0
        <5>1. k \in 1..n /\ f[k] \in Seq(M) /\ f[k + 1] = Joined(f[k], seqs[k + 1])
          BY <1>7, <3>0, <3>1, <4>2 DEF JoinedAt
        <5>2. seqs[k + 1] \in Seq(M)
          BY <1>0, <3>1
        <5> QED
          BY <5>1, <5>2 DEF Joined
      <4> QED
        BY <4>1, <4>2
    <3> QED
      BY <3>0, <3>1 DEF R
  <2>3. R \in SUBSET Nat
    OBVIOUS
  <2> HIDE DEF R
  <2>4. R = Nat
    BY <2>1, <2>2, <2>3, Counting
  <2> QED
    BY <2>4 DEF R
<1> QED
  <2>1. f \in [1..n -> Seq(M)]
    BY <1>7, <1>8
  <2>2. f[1] = seqs[1] /\ \A i \in 2..n : f[i] = Joined(f[i - 1], seqs[i])
    BY <1>7 DEF JoinedAt
  <2> QED
    BY <1>0, <1>6, <2>1, <2>2

\* A flattened sequence of sequences leads where its parts lead, one after another.
LEMMA FlattenLeads ==
    ASSUME NEW seqs \in Seq(Seq(ToAppMsgs)), NEW st \in [0..Len(seqs) -> IndexStates],
           \A i \in 1..Len(seqs) : Leads(st[i - 1], seqs[i], st[i])
    PROVE  FlattenSeq(seqs) \in Seq(ToAppMsgs) /\ Leads(st[0], FlattenSeq(seqs), st[Len(seqs)])
<1>1. CASE Len(seqs) = 0
  <2>1. FlattenSeq(seqs) = <<>>
    BY <1>1 DEF FlattenSeq
  <2>2. st[0] \in IndexStates
    BY <1>1
  <2> QED
    BY <1>1, <2>1, <2>2, LeadsNone
<1>2. CASE Len(seqs) # 0
  <2>1. PICK f \in [1..Len(seqs) -> Seq(ToAppMsgs)] :
           /\ f[1] = seqs[1] /\ FlattenSeq(seqs) = f[Len(seqs)]
           /\ \A i \in 2..Len(seqs) : f[i] = Joined(f[i - 1], seqs[i])
    BY <1>2, Flattened
  <2>2. PICK n \in Nat \ {0} : n = Len(seqs) /\ \A i \in 1..n : seqs[i] \in Seq(ToAppMsgs)
    BY <1>2
  <2> DEFINE R == {k \in Nat : k \in 1..n => Leads(st[0], f[k], st[k])}
  <2>3. 0 \in R
    OBVIOUS
  <2>4. ASSUME NEW k \in R PROVE k + 1 \in R
    <3>0. k \in Nat /\ (k \in 1..n => Leads(st[0], f[k], st[k]))
      OBVIOUS
    <3> HIDE DEF R
    <3>1. ASSUME k + 1 \in 1..n PROVE Leads(st[0], f[k + 1], st[k + 1])
      <4>0. Leads(st[(k + 1) - 1], seqs[k + 1], st[k + 1]) /\ (k + 1) - 1 = k
        BY <2>2, <3>0, <3>1
      <4>1. CASE k = 0
        <5>1. k + 1 = 1
          BY <4>1
        <5> QED
          BY <2>1, <4>0, <4>1, <5>1
      <4>2. CASE k # 0
        <5>1. k \in 1..n /\ k + 1 \in 2..n /\ (k + 1) - 1 = k
          BY <3>0, <3>1, <4>2
        <5>2. f[k + 1] = f[k] \o seqs[k + 1]
          BY <2>1, <2>2, <5>1 DEF Joined
        <5>3. f[k] \in Seq(ToAppMsgs) /\ seqs[k + 1] \in Seq(ToAppMsgs)
          BY <2>1, <2>2, <3>1, <5>1
        <5> QED
          BY <3>0, <4>0, <5>1, <5>2, <5>3, LeadsThen
      <4> QED
        BY <4>1, <4>2
    <3> QED
      BY <3>0, <3>1 DEF R
  <2>5. R \in SUBSET Nat
    OBVIOUS
  <2> HIDE DEF R
  <2>6. R = Nat
    BY <2>3, <2>4, <2>5, Counting
  <2>7. Leads(st[0], f[n], st[n])
    <3>1. n \in R /\ n \in 1..n
      BY <2>6
    <3> QED
      BY <3>1 DEF R
  <2> QED
    BY <2>1, <2>2, <2>7
<1> QED
  BY <1>1, <1>2

\* SetToSeq lists every volume of a set once.
LEMMA InOrder ==
    ASSUME NEW S \in SUBSET Drives
    PROVE  \E n \in Nat :
              /\ SetToSeq(S) \in [1..n -> S]
              /\ \A i, j \in 1..n : SetToSeq(S)[i] = SetToSeq(S)[j] => i = j
              /\ \A d \in S : \E i \in 1..n : SetToSeq(S)[i] = d
<1> DEFINE n == Cardinality(S)
           s == SetToSeq(S)
<1>1. IsFiniteSet(S) /\ n \in Nat /\ ExistsBijection(1..n, S)
  BY HelperAssumption, FS_Subset, FS_CardinalityType
<1> HIDE DEF n
<1>2. \E f \in [1..n -> S] : IsInjective(f)
  BY <1>1 DEF ExistsBijection, Bijection, Injection, IsInjective
<1>3. s \in [1..n -> S] /\ IsInjective(s)
  BY <1>2 DEF SetToSeq, n
<1> HIDE DEF s
<1>4. s \in Injection(1..n, S)
  BY <1>3 DEF Injection, IsInjective
<1>5. IsFiniteSet(1..n) /\ Cardinality(1..n) = n
  BY <1>1, FS_Interval
<1>6. s \in Surjection(1..n, S)
  BY <1>1, <1>4, <1>5, FS_Injection DEF n
<1> QED
  BY <1>1, <1>3, <1>6 DEF IsInjective, Surjection, s

\* What News says of one drive that builds.
Telling(now, d) ==
    (IF reported[d] = Off THEN <<Msg("Building", d)>> ELSE <<>>)
    \o (IF now[d] # (IF reported[d] = Off THEN Unsaid ELSE reported[d])
        THEN <<Msg("Progress", <<d, now[d]>>)>> ELSE <<>>)

\* st, but for what it shows of the drives in S.
Shown(st, S, now) ==
    [completed |-> st.completed, building |-> [d \in Drives |-> IF d \in S THEN now[d] ELSE st.building[d]]]

Buildings == [Drives -> Percents \union {Off}]

LEMMA ShownTyped ==
    ASSUME NEW st \in IndexStates, NEW S \in SUBSET Drives, NEW now \in Buildings
    PROVE  Shown(st, S, now) \in IndexStates
  BY DEF Shown, IndexStates, Buildings

\* What is said of one drive brings a mirror up to date on it, and leaves it as it was otherwise.
LEMMA TellingLeads ==
    ASSUME NEW st \in IndexStates, NEW S \in SUBSET Drives, NEW now \in Buildings, NEW d \in Drives,
           st.building = reported, d \notin S, now[d] # Off
    PROVE  /\ Telling(now, d) \in Seq(ToAppMsgs)
           /\ Leads(Shown(st, S, now), Telling(now, d), Shown(st, S \union {d}, now))
<1> DEFINE a == Shown(st, S, now)
           c == Shown(st, S \union {d}, now)
           building == Msg("Building", d)
           progress == Msg("Progress", <<d, now[d]>>)
<1>0. a \in IndexStates /\ c \in IndexStates /\ a.building[d] = reported[d]
      /\ building \in ToAppMsgs /\ now[d] \in Percents
  BY ShownTyped DEF Shown, ToAppMsgs, Buildings
<1>1. progress \in ToAppMsgs
  BY <1>0 DEF ToAppMsgs
<1>2. Unsaid # Off /\ Mirrored(a, building) = MarkBuilding(a, d)
  BY DEF Mirrored, Msg, Unsaid, Off
<1>3. \A b : Mirrored(b, progress) = SetProgress(b, d, now[d])
  BY DEF Mirrored, Msg
<1>4. CASE reported[d] = Off
  <2> DEFINE b == MarkBuilding(a, d)
  <2>1. b \in IndexStates /\ b = [a EXCEPT !.building[d] = Unsaid] /\ Leads(a, <<building>>, b)
    BY <1>0, <1>2, <1>4, LeadsOne, MirroredTyped DEF MarkBuilding
  <2>2. CASE now[d] = Unsaid
    <3>1. b = c
      BY <1>4, <2>1, <2>2 DEF Shown
    <3>2. Telling(now, d) = <<building>>
      BY <1>4, <2>2 DEF Telling
    <3> QED
      BY <1>0, <2>1, <3>1, <3>2
  <2>3. CASE now[d] # Unsaid
    <3>1. Telling(now, d) = <<building>> \o <<progress>>
      BY <1>4, <2>3 DEF Telling
    <3>2. b.building[d] = Unsaid
      BY <1>0, <2>1 DEF IndexStates
    <3>3. SetProgress(b, d, now[d]) = [b EXCEPT !.building[d] = now[d]]
      BY <1>2, <3>2 DEF SetProgress
    <3>4. [b EXCEPT !.building[d] = now[d]] = c
      BY <2>1 DEF Shown
    <3>5. Leads(b, <<progress>>, c)
      BY <1>1, <1>3, <2>1, <3>3, <3>4, LeadsOne
    <3>6. <<building>> \in Seq(ToAppMsgs) /\ <<progress>> \in Seq(ToAppMsgs)
      BY <1>0, <1>1
    <3> HIDE DEF a, b, c, building, progress
    <3>7. <<building>> \o <<progress>> \in Seq(ToAppMsgs)
      BY <3>6
    <3> QED
      BY <2>1, <3>1, <3>5, <3>6, <3>7, LeadsThen DEF a, c
  <2> QED
    BY <2>2, <2>3
<1>5. CASE reported[d] # Off
  <2>1. CASE now[d] = reported[d]
    <3>1. a = c
      BY <1>0, <2>1 DEF Shown
    <3>2. Telling(now, d) = <<>>
      BY <1>5, <2>1 DEF Telling
    <3> QED
      BY <1>0, <3>1, <3>2, LeadsNone
  <2>2. CASE now[d] # reported[d]
    <3>1. Telling(now, d) = <<progress>>
      BY <1>5, <2>2 DEF Telling
    <3>2. SetProgress(a, d, now[d]) = [a EXCEPT !.building[d] = now[d]]
      BY <1>0, <1>5 DEF SetProgress
    <3>3. [a EXCEPT !.building[d] = now[d]] = c
      <4>1. [a.building EXCEPT ![d] = now[d]] = c.building
        BY DEF Shown
      <4>2. c = [completed |-> a.completed, building |-> c.building]
        BY DEF Shown
      <4> HIDE DEF a, c
      <4>3. [a EXCEPT !.building[d] = now[d]]
            = [completed |-> a.completed, building |-> [a.building EXCEPT ![d] = now[d]]]
        BY <1>0 DEF IndexStates
      <4> QED
        BY <4>1, <4>2, <4>3
    <3>4. Leads(a, <<progress>>, c)
      BY <1>0, <1>1, <1>3, <3>2, <3>3, LeadsOne
    <3> QED
      BY <1>1, <3>1, <3>4
  <2> QED
    BY <2>1, <2>2
<1> QED
  BY <1>4, <1>5

\* The host's news, read by a mirror that shows the building state the app was last told, show
\* the present one, whatever order the drives come in.
LEMMA NewsLeads ==
    ASSUME NEW st \in IndexStates, NEW now \in Buildings, reported \in Buildings,
           st.building = reported
    PROVE  /\ News(now) \in Seq(ToAppMsgs)
           /\ Leads(st, News(now), [st EXCEPT !.building = now])
<1> DEFINE begun   == {d \in Drives : now[d] # Off}
           stopped == {d \in Drives : now[d] = Off /\ reported[d] # Off}
           s == SetToSeq(begun)
           t == SetToSeq(stopped)
           seqs == [i \in DOMAIN s |-> Telling(now, s[i])]
           idle == [i \in DOMAIN t |-> Msg("Idle", t[i])]
<1>1. News(now) = FlattenSeq(seqs) \o idle
  BY DEF News, Telling
<1> HIDE DEF s, t
<1>2. PICK n \in Nat : /\ s \in [1..n -> begun]
                       /\ \A i, j \in 1..n : s[i] = s[j] => i = j
                       /\ \A d \in begun : \E i \in 1..n : s[i] = d
  BY InOrder DEF s
<1>3. PICK m \in Nat : /\ t \in [1..m -> stopped]
                       /\ \A i, j \in 1..m : t[i] = t[j] => i = j
                       /\ \A d \in stopped : \E i \in 1..m : t[i] = d
  BY InOrder DEF t
<1> DEFINE Upto(k) == {s[i] : i \in 1..k}
           f == [k \in 0..n |-> Shown(st, Upto(k), now)]
           mid == Shown(st, begun, now)
<1>4. FlattenSeq(seqs) \in Seq(ToAppMsgs) /\ Leads(st, FlattenSeq(seqs), mid)
  <2>1. \A k \in 0..n : Upto(k) \subseteq begun
    BY <1>2
  <2>2. f \in [0..n -> IndexStates]
    BY <2>1, ShownTyped
  <2>3. ASSUME NEW i \in 1..n
        PROVE  seqs[i] \in Seq(ToAppMsgs) /\ Leads(f[i - 1], seqs[i], f[i])
    <3>1. s[i] \in Drives /\ now[s[i]] # Off /\ s[i] \notin Upto(i - 1)
      BY <1>2
    <3>2. Upto(i) = Upto(i - 1) \union {s[i]}
      OBVIOUS
    <3>3. Upto(i - 1) \in SUBSET Drives
      BY <2>1
    <3>4. seqs[i] = Telling(now, s[i])
      BY <1>2
    <3>5. f[i - 1] = Shown(st, Upto(i - 1), now) /\ f[i] = Shown(st, Upto(i), now)
      OBVIOUS
    <3> HIDE DEF f, Upto, seqs
    <3> QED
      BY <3>1, <3>2, <3>3, <3>4, <3>5, TellingLeads
  <2>4. seqs \in Seq(Seq(ToAppMsgs)) /\ Len(seqs) = n
    <3>1. DOMAIN seqs = 1..n
      BY <1>2
    <3>2. seqs \in [1..n -> Seq(ToAppMsgs)]
      BY <2>3, <3>1
    <3> HIDE DEF seqs
    <3> QED
      BY <3>2
  <2>5. f[0] = st
    <3>1. Upto(0) = {}
      OBVIOUS
    <3>2. Shown(st, {}, now) = st
      BY DEF Shown, IndexStates
    <3> QED
      BY <3>1, <3>2
  <2>6. f[n] = mid
    <3>1. Upto(n) = begun
      BY <1>2
    <3> QED
      BY <3>1
  <2> HIDE DEF f, mid, seqs
  <2> QED
    BY <2>2, <2>3, <2>4, <2>5, <2>6, FlattenLeads
<1> DEFINE Past(k) == {t[i] : i \in 1..k}
           g == [k \in 0..m |-> Shown(mid, Past(k), now)]
<1>5. mid \in IndexStates
  BY ShownTyped
<1>6. idle \in Seq(ToAppMsgs) /\ Len(idle) = m /\ \A i \in 1..m : idle[i] = Msg("Idle", t[i])
  <2>1. idle \in [1..m -> ToAppMsgs] /\ \A i \in 1..m : idle[i] = Msg("Idle", t[i])
    BY <1>3 DEF ToAppMsgs
  <2> HIDE DEF idle
  <2> QED
    BY <2>1
<1>7. Leads(mid, idle, g[m])
  <2>1. \A k \in 0..m : Past(k) \in SUBSET Drives
    BY <1>3
  <2>2. g \in [0..m -> IndexStates]
    <3> HIDE DEF mid, Past
    <3> QED
      BY <1>5, <2>1, ShownTyped
  <2>3. g[0] = mid
    <3>1. Past(0) = {}
      OBVIOUS
    <3> HIDE DEF mid
    <3>2. Shown(mid, {}, now) = mid
      BY <1>5 DEF Shown, IndexStates
    <3> QED
      BY <3>1, <3>2
  <2>4. ASSUME NEW i \in 1..m PROVE g[i] = Mirrored(g[i - 1], idle[i])
    <3>1. t[i] \in Drives /\ now[t[i]] = Off
      BY <1>3
    <3>2. Past(i) = Past(i - 1) \union {t[i]}
      OBVIOUS
    <3>3. Mirrored(g[i - 1], idle[i]) = ClearBuilding(g[i - 1], t[i])
      BY <1>6 DEF Mirrored, Msg
    <3>4. g[i - 1] = Shown(mid, Past(i - 1), now) /\ g[i] = Shown(mid, Past(i), now)
      OBVIOUS
    <3> HIDE DEF g, Past, mid
    <3>5. ClearBuilding(g[i - 1], t[i]) = g[i]
      <4>1. [g[i - 1].building EXCEPT ![t[i]] = Off] = g[i].building
        BY <3>1, <3>2, <3>4 DEF Shown
      <4> QED
        BY <3>4, <4>1 DEF Shown, ClearBuilding
    <3> QED
      BY <3>3, <3>5
  <2> HIDE DEF g, mid, idle
  <2> QED
    BY <1>6, <2>2, <2>3, <2>4 DEF Leads
<1>8. g[m] = [st EXCEPT !.building = now]
  <2>1. Past(m) = stopped
    BY <1>3
  <2>2. Shown(mid, stopped, now).building = now
    BY DEF Shown, Buildings
  <2> QED
    BY <2>1, <2>2 DEF Shown, IndexStates
<1> HIDE DEF seqs, idle, g, mid
<1> QED
  BY <1>1, <1>4, <1>6, <1>7, <1>8, LeadsThen

--------------------------------------------------------------------------------
(* Types. *)

\* What the app writes.
ToHelperMsgs == {Msg("Hello", AppVersion), Msg("Start", 0), Msg("Shutdown", 0)}
                \union {Msg("Record", p) : p \in Policies}

WireTypeOK ==
    /\ conn \in 0..MaxConns /\ peer \in Nat
    /\ listening \in {"idle", "pending", "signalled", "connected"}
    /\ appEnd \in BOOLEAN /\ helperEnd \in BOOLEAN
    /\ toApp \in Seq(ToAppMsgs) /\ toHelper \in Seq(ToHelperMsgs) /\ inbox \in Seq(ToHelperMsgs)

Typed == WireTypeOK /\ TypeOK

LEMMA JoinTyped ==
    ASSUME NEW S, NEW s \in Seq(S), NEW t \in Seq(S)
    PROVE  s \o t \in Seq(S)
  OBVIOUS

LEMMA SendTyped ==
    ASSUME toApp \in Seq(ToAppMsgs), NEW msgs \in Seq(ToAppMsgs), HostSend(msgs)
    PROVE  toApp' \in Seq(ToAppMsgs)
  BY DEF HostSend

LEMMA DeliveredTyped ==
    ASSUME WireTypeOK, NEW s, NEW msgs \in Seq(ToHelperMsgs), NEW parked, Delivered(s, msgs, parked)
    PROVE  toHelper' \in Seq(ToHelperMsgs) /\ inbox' \in Seq(ToHelperMsgs)
<1>1. toHelper \in Seq(ToHelperMsgs) /\ inbox \in Seq(ToHelperMsgs)
  BY DEF WireTypeOK
<1>2. \/ UNCHANGED <<toHelper, inbox>>
      \/ inbox' = msgs /\ UNCHANGED toHelper
      \/ toHelper' = toHelper \o msgs /\ UNCHANGED inbox
  BY DEF Delivered
<1>3. toHelper \o msgs \in Seq(ToHelperMsgs)
  BY <1>1, JoinTyped
<1> QED
  BY <1>1, <1>2, <1>3

LEMMA HangUpTyped ==
    ASSUME WireTypeOK, NEW last \in Seq(ToAppMsgs), HelperHangUp(last)
    PROVE  WireTypeOK'
<1>1. toApp' = toApp \o last \/ toApp' = toApp
  BY DEF HelperHangUp
<1>2. toApp \o last \in Seq(ToAppMsgs) /\ toApp \in Seq(ToAppMsgs) /\ <<>> \in Seq(ToHelperMsgs)
  BY JoinTyped DEF WireTypeOK
<1>3. toApp' \in Seq(ToAppMsgs)
  BY <1>1, <1>2
<1> QED
  BY <1>2, <1>3 DEF HelperHangUp, WireTypeOK

LEMMA ServiceTyped ==
    ASSUME NEW st \in IndexStates, NEW d \in Drives
    PROVE  /\ MarkBuilding(st, d) \in IndexStates /\ ClearBuilding(st, d) \in IndexStates
           /\ MarkComplete(st, d) \in IndexStates
           /\ \A p \in 0..(PercentSteps - 1) : SetProgress(st, d, p) \in IndexStates
<1>1. /\ Off \in Percents \union {Off} /\ Unsaid \in Percents \union {Off}
      /\ \A p \in 0..(PercentSteps - 1) : p \in Percents \union {Off}
  BY PercentAssumption DEF Percents, Unsaid, Off
<1> HIDE DEF Unsaid
<1> QED
  BY <1>1 DEF IndexStates, MarkBuilding, ClearBuilding, MarkComplete, SetProgress

\* The serving thread.
LEMMA HostTyped ==
    ASSUME Typed, HelperActs(ServeNext)
    PROVE  Typed'
<1>0. UNCHANGED <<clientVars, processes, inForce, fresh>>
  BY DEF HelperActs
<1>1. /\ "begun" \in Phases /\ "subscribed" \in Phases /\ "greeted" \in Phases /\ "toldBuilding" \in Phases
      /\ "replaying" \in Phases /\ "reading" \in Phases /\ "seeking" \in Phases /\ "exiting" \in Phases
      /\ "gone" \in Phases
  BY DEF Phases, InSession
<1>2. ASSUME WireTypeOK', HelperTypeOK' PROVE Typed'
  BY <1>0, <1>2 DEF Typed, TypeOK, ClientTypeOK, GateTypeOK, WorkerTypeOK, clientVars, gateVars, workerVars
<1>3. CASE HostConnect
  <2>1. NobodyTold \in [Drives -> Percents \union {Off}]
    BY DEF NobodyTold
  <2>2. conn' \in 0..MaxConns
    BY <1>3, WireAssumption DEF HostConnect, HelperConnect, Typed, WireTypeOK
  <2>3. WireTypeOK'
    BY <1>3, <2>2 DEF HostConnect, HelperConnect, Typed, WireTypeOK, TypeOK, HelperTypeOK
  <2> QED
    BY <1>1, <1>2, <1>3, <2>1, <2>3 DEF HostConnect, Typed, TypeOK, HelperTypeOK
<1>4. CASE HostSubscribe \/ HostListRoots
  BY <1>1, <1>2, <1>4 DEF HostSubscribe, HostListRoots, Typed, TypeOK, HelperTypeOK, WireTypeOK,
                          wireVars, IndexStates
<1>5. CASE HostGreet \/ HostReady
  <2>1. /\ <<Msg("Hello", version)>> \in Seq(ToAppMsgs) /\ <<Msg("Ready", 0)>> \in Seq(ToAppMsgs)
    BY DEF ToAppMsgs, Typed, TypeOK, HelperTypeOK
  <2>2. toApp' \in Seq(ToAppMsgs)
    BY <1>5, <2>1, SendTyped DEF HostGreet, HostReady, Typed, WireTypeOK
  <2> QED
    BY <1>1, <1>2, <1>5, <2>2 DEF HostGreet, HostReady, Typed, TypeOK, HelperTypeOK, WireTypeOK
<1>6. CASE HostReplayBuilding
  <2>1. service.building \in Buildings /\ reported \in Buildings
    BY DEF Typed, TypeOK, HelperTypeOK, IndexStates, Buildings
  <2>2. [completed |-> {}, building |-> reported] \in IndexStates
    BY <2>1 DEF IndexStates, Buildings
  <2>3. News(service.building) \in Seq(ToAppMsgs)
    BY <2>1, <2>2, NewsLeads
  <2>4. toApp' \in Seq(ToAppMsgs) /\ reported' = service.building
    BY <1>6, <2>3, SendTyped DEF HostReplayBuilding, StatusChanged, Typed, WireTypeOK
  <2> QED
    BY <1>1, <1>2, <1>6, <2>1, <2>4 DEF HostReplayBuilding, Typed, TypeOK, HelperTypeOK, WireTypeOK, Buildings
<1>7. CASE HostReplayRoot
  <2>1. \A r \in replaying : <<Msg("Complete", r)>> \in Seq(ToAppMsgs)
    BY DEF ToAppMsgs, Typed, TypeOK, HelperTypeOK
  <2>2. toApp' \in Seq(ToAppMsgs) /\ replaying' \subseteq replaying
    BY <1>7, <2>1, SendTyped DEF HostReplayRoot, Typed, WireTypeOK
  <2> QED
    BY <1>1, <1>2, <1>7, <2>2 DEF HostReplayRoot, Typed, TypeOK, HelperTypeOK, WireTypeOK
<1>8. ASSUME NEW last \in Seq(ToAppMsgs), NEW next \in Phases, EndSession(last, next),
             recorded' \in Policies
      PROVE  Typed'
  <2>1. WireTypeOK'
    BY <1>8, HangUpTyped DEF EndSession, Typed
  <2> QED
    BY <1>1, <1>2, <1>8, <2>1 DEF EndSession, Typed, TypeOK, HelperTypeOK
<1>9. CASE HostLifetimeOver \/ HostPeerGone
  <2>1. recorded' \in Policies /\ <<>> \in Seq(ToAppMsgs)
        /\ (EndSession(<<>>, "exiting") \/ EndSession(<<>>, "seeking"))
    BY <1>9 DEF HostLifetimeOver, HostPeerGone, Typed, TypeOK, HelperTypeOK
  <2> QED
    BY <1>1, <1>8, <2>1
<1>10. CASE HostFill
  BY <1>2, <1>10 DEF HostFill, HelperFill, helperVars, Typed, TypeOK, HelperTypeOK, WireTypeOK
<1>11. CASE HostRead
  <2>1. Head(inbox) \in ToHelperMsgs /\ Tail(inbox) \in Seq(ToHelperMsgs)
    BY <1>11 DEF HostRead, Typed, WireTypeOK
  <2>2. recorded' \in Policies
    BY <1>11, <2>1 DEF HostRead, ToHelperMsgs, Msg, Typed, TypeOK, HelperTypeOK
  <2>3. <<Msg("Fatal", 0)>> \in Seq(ToAppMsgs) /\ <<>> \in Seq(ToAppMsgs)
    BY DEF ToAppMsgs
  <2>4. CASE EndSession(<<Msg("Fatal", 0)>>, "exiting") \/ EndSession(<<>>, "exiting")
    BY <1>1, <1>8, <2>2, <2>3, <2>4
  <2>5. CASE /\ inbox' = Tail(inbox)
             /\ UNCHANGED <<helper, version, phase, subscribed, replaying, reported, service, volume,
                            lifetimeOver, conn, listening, peer, appEnd, helperEnd, toApp, toHelper>>
    BY <1>2, <2>1, <2>2, <2>5 DEF Typed, TypeOK, HelperTypeOK, WireTypeOK
  <2> QED
    BY <1>11, <2>4, <2>5 DEF HostRead
<1>12. CASE HelperExit
  <2>1. NobodyTold \in [Drives -> Percents \union {Off}] /\ Cleared \in IndexStates
        /\ [d \in Drives |-> "over"] \in [Drives -> VolumePhases]
    BY DEF NobodyTold, Cleared, IndexStates, VolumePhases
  <2> QED
    BY <1>1, <1>2, <1>12, <2>1, HelperAssumption, WireAssumption
       DEF HelperExit, ProcessGone, wireVars, Typed, TypeOK, HelperTypeOK, WireTypeOK
<1> QED
  BY <1>3, <1>4, <1>5, <1>6, <1>7, <1>9, <1>10, <1>11, <1>12 DEF HelperActs, ServeNext

\* A volume thread.
LEMMA VolumeTyped ==
    ASSUME Typed, NEW d \in Drives, HelperActs(VolumeNext(d))
    PROVE  Typed'
<1>0. UNCHANGED <<clientVars, processes, inForce, fresh>>
  BY DEF HelperActs
<1>2. ASSUME WireTypeOK', HelperTypeOK' PROVE Typed'
  BY <1>0, <1>2 DEF Typed, TypeOK, ClientTypeOK, GateTypeOK, WorkerTypeOK, clientVars, gateVars, workerVars
<1>3. ASSUME NEW from \in VolumePhases, NEW to \in VolumePhases, VolumeStep(d, from, to),
             NEW st \in IndexStates, SetService(st)
      PROVE  Typed'
  BY <1>2, <1>3 DEF VolumeStep, SetService, wireVars, Typed, TypeOK, HelperTypeOK, WireTypeOK
<1>4. ASSUME NEW from \in VolumePhases, NEW to \in VolumePhases, VolumeStep(d, from, to), TellStatus
      PROVE  Typed'
  <2>1. service.building \in Buildings /\ reported \in Buildings
    BY DEF Typed, TypeOK, HelperTypeOK, IndexStates, Buildings
  <2>2. [completed |-> {}, building |-> reported] \in IndexStates
    BY <2>1 DEF IndexStates, Buildings
  <2>3. News(service.building) \in Seq(ToAppMsgs)
    BY <2>1, <2>2, NewsLeads
  <2>4. toApp' \in Seq(ToAppMsgs) /\ reported' \in Buildings
    BY <1>4, <2>1, <2>3, SendTyped DEF TellStatus, StatusChanged, Typed, WireTypeOK
  <2> QED
    BY <1>2, <1>4, <2>4 DEF VolumeStep, TellStatus, Typed, TypeOK, HelperTypeOK, WireTypeOK, Buildings
<1>5. /\ {"starting", "opened", "building", "progressed", "completed", "cleared", "idleTold", "tailing",
          "ending", "endCleared", "over"} \subseteq VolumePhases
      /\ service \in IndexStates
  BY DEF VolumePhases, Typed, TypeOK, HelperTypeOK
<1>6. CASE \/ VolumeOpen(d) \/ VolumeOpenFails(d) \/ VolumeBuildFails(d) \/ VolumeComplete(d)
           \/ VolumeClear(d) \/ VolumeTailEnds(d) \/ VolumeEndClear(d) \/ VolumeProgress(d)
  <2>1. \E from, to \in VolumePhases, st \in IndexStates : VolumeStep(d, from, to) /\ SetService(st)
    BY <1>5, <1>6, ServiceTyped DEF VolumeOpen, VolumeOpenFails, VolumeBuildFails, VolumeComplete,
                                    VolumeClear, VolumeTailEnds, VolumeEndClear, VolumeProgress
  <2> QED
    BY <1>3, <2>1
<1>7. CASE VolumeTellOpen(d) \/ VolumeTellProgress(d) \/ VolumeTellIdle(d) \/ VolumeTellEnd(d)
  <2>1. \E from, to \in VolumePhases : VolumeStep(d, from, to) /\ TellStatus
    BY <1>5, <1>7 DEF VolumeTellOpen, VolumeTellProgress, VolumeTellIdle, VolumeTellEnd
  <2> QED
    BY <1>4, <2>1
<1>8. CASE VolumeTellRefreshed(d)
  <2>1. <<Msg("Complete", d)>> \in Seq(ToAppMsgs)
    BY DEF ToAppMsgs
  <2>2. toApp' \in Seq(ToAppMsgs)
    BY <1>8, <2>1, SendTyped DEF VolumeTellRefreshed, Typed, WireTypeOK
  <2> QED
    BY <1>2, <1>5, <1>8, <2>2 DEF VolumeTellRefreshed, VolumeStep, Typed, TypeOK, HelperTypeOK, WireTypeOK
<1> QED
  BY <1>6, <1>7, <1>8 DEF HelperActs, VolumeNext

\* The process itself.
LEMMA ProcessTyped ==
    ASSUME Typed, HelperActs(HelperCrash) \/ HelperActs(SelfCheckFails) \/ HelperStartsItself
    PROVE  Typed'
<1>1. /\ UNCHANGED <<clientVars, inForce, fresh>> /\ processes' \in 0..MaxProcesses
  BY SessionAssumption DEF HelperActs, HelperStartsItself, Typed, TypeOK
<1>2. ASSUME WireTypeOK', HelperTypeOK' PROVE Typed'
  BY <1>1, <1>2 DEF Typed, TypeOK, ClientTypeOK, GateTypeOK, WorkerTypeOK, clientVars, gateVars, workerVars
<1>3. CASE HelperCrash
  <2>1. NobodyTold \in [Drives -> Percents \union {Off}] /\ Cleared \in IndexStates
        /\ [d \in Drives |-> "over"] \in [Drives -> VolumePhases]
    BY DEF NobodyTold, Cleared, IndexStates, VolumePhases
  <2>2. HelperTypeOK'
    BY <1>3, <2>1, HelperAssumption, WireAssumption DEF HelperCrash, ProcessGone, HelperTypeOK, Phases
  <2>3. WireTypeOK'
    <3>1. CASE UNCHANGED wireVars
      BY <3>1 DEF wireVars, Typed, WireTypeOK
    <3>2. CASE HelperHangUp(<<>>)
      <4>1. <<>> \in Seq(ToAppMsgs)
        OBVIOUS
      <4> QED
        BY <3>2, <4>1, HangUpTyped DEF Typed
    <3> QED
      BY <1>3, <3>1, <3>2 DEF HelperCrash
  <2> QED
    BY <1>2, <2>2, <2>3
<1>4. CASE SelfCheckFails
  BY <1>2, <1>4 DEF SelfCheckFails, wireVars, Typed, TypeOK, HelperTypeOK, WireTypeOK, Phases
<1>5. CASE HelperStartsItself
  <2>1. processes' \in Nat /\ [d \in Drives |-> "starting"] \in [Drives -> VolumePhases]
    BY <1>1, SessionAssumption DEF VolumePhases
  <2> QED
    BY <1>2, <1>5, <2>1 DEF HelperStartsItself, StartProcess, wireVars, Typed, TypeOK, HelperTypeOK,
                            WireTypeOK, Phases
<1> QED
  BY <1>3, <1>4, <1>5 DEF HelperActs

\* A worker of the client.
LEMMA WorkerTyped ==
    ASSUME Typed, NEW w \in Workers, WorkerActs(w)
    PROVE  Typed'
<1>1. Cleared \in IndexStates
  BY DEF Cleared, IndexStates
<1>2. /\ WireTypeOK /\ HelperTypeOK /\ GateTypeOK /\ WorkerTypeOK /\ call \in [Callers -> Calls]
      /\ processes \in 0..MaxProcesses /\ inForce \subseteq Policies /\ fresh \in BOOLEAN
  BY DEF Typed, TypeOK, ClientTypeOK
<1>3. ASSUME WireTypeOK', HelperTypeOK', GateTypeOK', WorkerTypeOK', call' = call,
             processes' \in 0..MaxProcesses, inForce' \subseteq Policies, fresh' = fresh
      PROVE  Typed'
  BY <1>2, <1>3 DEF Typed, TypeOK, ClientTypeOK
<1>4. ASSUME UNCHANGED wireVars PROVE WireTypeOK'
  BY <1>2, <1>4 DEF wireVars, WireTypeOK
<1>5. ASSUME UNCHANGED helperVars PROVE HelperTypeOK'
  BY <1>2, <1>5 DEF helperVars, HelperTypeOK
<1>6. /\ {"creating", "attaching", "listening", "storing", "probing", "prompting", "arriving",
          "awaiting", "greeting", "reading", "relaying", "ended", "exiting", "retiring",
          "done"} \subseteq Places
      /\ NextRead(w) \in Places
  BY DEF Places, NextRead
<1>7. ASSUME NEW from, NEW to \in Places, Go(w, from, to), talking' \in [Workers -> 0..MaxConns],
             launched' \in [Workers -> Nat], relaying' \in [Workers -> Policies],
             started' \subseteq Workers, accepting' \in Workers \union {0},
             stream' \in 0..MaxConns, mirror' \in IndexStates, failure' \in Failures,
             canRetry' \in BOOLEAN, canStart' \in BOOLEAN, presence' \in {"NotRunning", "Running"}
      PROVE  GateTypeOK' /\ WorkerTypeOK' /\ call' = call
  BY <1>2, <1>7 DEF Go, GateTypeOK, WorkerTypeOK
<1>8. ASSUME NoNews \/ (\E b \in BOOLEAN : Fail(b))
             \/ (\E seen \in {"NotRunning", "Running"}, why \in Failures, b \in BOOLEAN : Settle(seen, why, b))
      PROVE  /\ mirror' \in IndexStates /\ failure' \in Failures /\ canRetry' \in BOOLEAN
             /\ canStart' \in BOOLEAN /\ presence' \in {"NotRunning", "Running"}
  BY <1>1, <1>2, <1>8 DEF GateTypeOK, NoNews, Fail, Settle, Failures
<1>9. CanElevate \in BOOLEAN /\ {"none", "error", "not responding"} = Failures /\ OffPolicy \in Policies
  BY ClientAssumption, WireAssumption DEF Failures
<1>10. CASE \/ ClientActs(TransportReady(w)) \/ ClientActs(TransportInUse(w))
            \/ ClientActs(NobodyAttached(w) /\ NobodyComing) \/ ClientActs(Probe(w, helper # 0))
            \/ ClientActs(LaunchRefused(w)) \/ ClientActs(NobodyArrived(w) /\ NobodyComing)
            \/ ClientActs(StoreStream(w)) \/ ClientActs(ReadEnd(w)) \/ ClientActs(ConverseEnds(w))
            \/ ClientActs(ExitWaited(w))
  <2>1. /\ UNCHANGED <<wireVars, helperVars, processes, inForce, fresh>>
        /\ UNCHANGED <<talking, launched, relaying, started>>
    BY <1>10 DEF ClientActs, TransportReady, TransportInUse, NobodyAttached, Probe, LaunchRefused,
                 NobodyArrived, StoreStream, ReadEnd, ConverseEnds, ExitWaited
  <2>2. accepting' \in {0, accepting} /\ (stream' = stream \/ stream' = talking[w])
    BY <1>10 DEF ClientActs, TransportReady, TransportInUse, NobodyAttached, Probe, LaunchRefused,
                 NobodyArrived, StoreStream, ReadEnd, ConverseEnds, ExitWaited
  <2>3. \E from, to \in Places : Go(w, from, to)
    BY <1>6, <1>10 DEF ClientActs, TransportReady, TransportInUse, NobodyAttached, Probe, LaunchRefused,
                 NobodyArrived, StoreStream, ReadEnd, ConverseEnds, ExitWaited
  <2>4. NoNews \/ (\E b \in BOOLEAN : Fail(b))
        \/ (\E seen \in {"NotRunning", "Running"}, why \in Failures, b \in BOOLEAN : Settle(seen, why, b))
    BY <1>9, <1>10 DEF ClientActs, TransportReady, TransportInUse, NobodyAttached, Probe, LaunchRefused,
                 NobodyArrived, StoreStream, ReadEnd, ConverseEnds, ExitWaited
  <2>5. /\ stream' \in 0..MaxConns /\ accepting' \in Workers \union {0}
        /\ talking' \in [Workers -> 0..MaxConns] /\ launched' \in [Workers -> Nat]
        /\ relaying' \in [Workers -> Policies] /\ started' \subseteq Workers
    BY <1>2, <2>1, <2>2 DEF GateTypeOK, WorkerTypeOK
  <2>6. GateTypeOK' /\ WorkerTypeOK' /\ call' = call
    BY <1>7, <1>8, <2>3, <2>4, <2>5
  <2> QED
    BY <1>2, <1>3, <1>4, <1>5, <2>1, <2>6
<1>11. CASE \/ ClientActs(AttachBegins(w)) \/ ClientActs(Attached(w)) \/ ClientActs(ArrivalBegins(w))
            \/ ClientActs(Arrived(w)) \/ ClientActs(WrongPeer(w))
  <2>1. /\ UNCHANGED <<helperVars, processes, inForce, fresh>>
        /\ UNCHANGED <<stream, launched, relaying, started>>
    BY <1>11 DEF ClientActs, AttachBegins, ArrivalBegins, Attached, Arrived, WrongPeer, Accept, Accepted
  <2>2. accepting' \in {0, w} /\ (talking' = talking \/ talking' = [talking EXCEPT ![w] = conn])
    BY <1>11 DEF ClientActs, AttachBegins, ArrivalBegins, Attached, Arrived, WrongPeer, Accept, Accepted
  <2>3. \E from, to \in Places : Go(w, from, to)
    BY <1>6, <1>11 DEF ClientActs, AttachBegins, ArrivalBegins, Attached, Arrived, WrongPeer, Accept, Accepted
  <2>4. NoNews \/ (\E b \in BOOLEAN : Fail(b))
    BY <1>11 DEF ClientActs, AttachBegins, ArrivalBegins, Attached, Arrived, WrongPeer, Accept, Accepted
  <2>5. PostConnect \/ TakeConnection \/ RefuseConnection
    BY <1>11 DEF ClientActs, AttachBegins, ArrivalBegins, Attached, Arrived, WrongPeer, Accept, Accepted
  <2>6. WireTypeOK'
    <3>1. <<>> \in Seq(ToHelperMsgs)
      OBVIOUS
    <3> QED
      BY <1>2, <1>4, <2>5, <3>1 DEF PostConnect, TakeConnection, RefuseConnection, HungUp, WireTypeOK
  <2>7. /\ stream' \in 0..MaxConns /\ accepting' \in Workers \union {0}
        /\ talking' \in [Workers -> 0..MaxConns] /\ launched' \in [Workers -> Nat]
        /\ relaying' \in [Workers -> Policies] /\ started' \subseteq Workers
    BY <1>2, <2>1, <2>2 DEF GateTypeOK, WorkerTypeOK, WireTypeOK
  <2>8. GateTypeOK' /\ WorkerTypeOK' /\ call' = call
    BY <1>7, <1>8, <2>3, <2>4, <2>7
  <2> QED
    BY <1>2, <1>3, <1>5, <2>1, <2>6, <2>8
<1>12. CASE PromptAccepted(w)
  <2>1. processes' \in 0..MaxProcesses /\ processes' \in Nat
    BY <1>2, <1>12, SessionAssumption DEF PromptAccepted
  <2>2. /\ UNCHANGED <<wireVars, inForce, fresh, stream, talking, relaying, started, accepting>>
        /\ Go(w, "prompting", "arriving") /\ NoNews
        /\ launched' = [launched EXCEPT ![w] = processes']
    BY <1>12 DEF PromptAccepted, LaunchStarted
  <2>3. HelperTypeOK'
    <3>1. [d \in Drives |-> "starting"] \in [Drives -> VolumePhases]
      BY DEF VolumePhases
    <3> QED
      BY <1>2, <1>5, <1>12, <2>1, <3>1, HelperAssumption
         DEF PromptAccepted, StartProcess, HelperTypeOK, Phases
  <2>4. launched' \in [Workers -> Nat]
    BY <1>2, <2>1, <2>2 DEF WorkerTypeOK
  <2>5. GateTypeOK' /\ WorkerTypeOK' /\ call' = call
    BY <1>2, <1>6, <1>7, <1>8, <2>2, <2>4 DEF GateTypeOK, WorkerTypeOK
  <2> QED
    BY <1>2, <1>3, <1>4, <2>1, <2>2, <2>3, <2>5
<1>13. CASE ClientActs(Greet(w, Parked)) \/ ClientActs(RelayPolicy(w, Parked))
  <2>1. /\ UNCHANGED <<helperVars, processes, inForce, fresh, mirror, stream, talking, launched, started,
                       accepting>>
        /\ \E from \in Places : Go(w, from, NextRead(w))
    BY <1>6, <1>13 DEF ClientActs, Greet, RelayPolicy, NoNews
  <2>2. relaying' \in [Workers -> Policies]
    BY <1>2, <1>9, <1>13 DEF ClientActs, Greet, RelayPolicy, WorkerTypeOK
  <2>3. /\ failure' \in Failures /\ canRetry' \in BOOLEAN /\ canStart' \in BOOLEAN
        /\ presence' \in {"NotRunning", "Running"}
    BY <1>2, <1>9, <1>13 DEF ClientActs, Greet, RelayPolicy, NoNews, GateTypeOK
  <2>4. /\ <<Msg("Hello", AppVersion)>> \in Seq(ToHelperMsgs)
        /\ <<Msg("Start", 0), Msg("Record", relaying[w])>> \in Seq(ToHelperMsgs)
    BY <1>2 DEF ToHelperMsgs, WorkerTypeOK
  <2>5. \E msgs \in Seq(ToHelperMsgs) : AppWrite(talking[w], msgs, Parked)
    BY <1>13, <2>4 DEF ClientActs, Greet, RelayPolicy
  <2>6. toHelper' \in Seq(ToHelperMsgs) /\ inbox' \in Seq(ToHelperMsgs)
    BY <1>2, <2>5, DeliveredTyped DEF AppWrite
  <2>7. WireTypeOK'
    BY <1>2, <2>5, <2>6 DEF AppWrite, WireTypeOK
  <2>8. GateTypeOK' /\ WorkerTypeOK' /\ call' = call
    BY <1>2, <1>6, <1>7, <2>1, <2>2, <2>3 DEF GateTypeOK, WorkerTypeOK
  <2> QED
    BY <1>2, <1>3, <1>5, <2>1, <2>7, <2>8
<1>14. ASSUME HasMessage(w), Consume
       PROVE  /\ Head(toApp) \in ToAppMsgs /\ conn' \in 0..MaxConns /\ peer' \in Nat
              /\ UNCHANGED <<listening, appEnd, helperEnd>> /\ toApp' \in Seq(ToAppMsgs)
  BY <1>2, <1>14 DEF HasMessage, Consume, WireTypeOK
<1>15. CASE ClientActs(ReadState(w))
  <2>1. WireTypeOK'
    BY <1>2, <1>14, <1>15 DEF ClientActs, ReadState, WireTypeOK
  <2>2. mirror' \in IndexStates
    BY <1>2, <1>14, <1>15, MirroredTyped DEF ClientActs, ReadState, Announce, GateTypeOK
  <2>3. GateTypeOK' /\ WorkerTypeOK' /\ call' = call
    BY <1>2, <1>6, <1>7, <1>9, <1>15, <2>2 DEF ClientActs, ReadState, Announce, GateTypeOK, WorkerTypeOK
  <2> QED
    BY <1>2, <1>3, <1>5, <1>15, <2>1, <2>3 DEF ClientActs
<1>16. CASE ClientActs(ReadHello(w, Parked))
  <2>1. toHelper' \in Seq(ToHelperMsgs) /\ inbox' \in Seq(ToHelperMsgs)
    <3>1. <<Msg("Shutdown", 0)>> \in Seq(ToHelperMsgs)
      BY DEF ToHelperMsgs
    <3>2. UNCHANGED <<toHelper, inbox>> \/ Delivered(talking[w], <<Msg("Shutdown", 0)>>, Parked)
      BY <1>16 DEF ClientActs, ReadHello
    <3>3. CASE UNCHANGED <<toHelper, inbox>>
      BY <1>2, <3>3 DEF WireTypeOK
    <3>4. CASE Delivered(talking[w], <<Msg("Shutdown", 0)>>, Parked)
      BY <1>2, <3>1, <3>4, DeliveredTyped
    <3> QED
      BY <3>2, <3>3, <3>4
  <2>2. WireTypeOK'
    BY <1>2, <1>14, <1>16, <2>1 DEF ClientActs, ReadHello, WireTypeOK
  <2>3. \E to \in Places : Go(w, "reading", to) /\ (NoNews \/ Fail(TRUE))
    BY <1>6, <1>16 DEF ClientActs, ReadHello
  <2>4. GateTypeOK' /\ WorkerTypeOK' /\ call' = call
    BY <1>2, <1>7, <1>8, <1>16, <2>3 DEF ClientActs, ReadHello, GateTypeOK, WorkerTypeOK
  <2> QED
    BY <1>2, <1>3, <1>5, <1>16, <2>2, <2>4 DEF ClientActs
<1>17. CASE ReadReady(w) /\ inForce' = (IF w \in started THEN inForce ELSE {changeLog})
            /\ UNCHANGED <<helperVars, processes, fresh>>
  <2>1. WireTypeOK'
    BY <1>2, <1>14, <1>17 DEF ReadReady, WireTypeOK
  <2>2. relaying' \in [Workers -> Policies] /\ started' \subseteq Workers /\ inForce' \subseteq Policies
    BY <1>2, <1>17 DEF ReadReady, WorkerTypeOK, GateTypeOK
  <2>3. \E to \in Places : Go(w, "reading", to) /\ NoNews
    BY <1>6, <1>17 DEF ReadReady
  <2>4. GateTypeOK' /\ WorkerTypeOK' /\ call' = call
    BY <1>2, <1>7, <1>8, <1>17, <2>2, <2>3 DEF ReadReady, GateTypeOK, WorkerTypeOK
  <2> QED
    BY <1>2, <1>3, <1>5, <1>17, <2>1, <2>2, <2>4
<1>18. CASE ClientActs(Retire(w))
  <2>1. 0 \in 0..MaxConns /\ "AttachOnly" \in Modes
    BY WireAssumption DEF Modes
  <2>2. GateTypeOK' /\ WorkerTypeOK' /\ call' = call
    BY <1>2, <1>6, <1>9, <1>18, <2>1 DEF ClientActs, Retire, NoNews, GateTypeOK, WorkerTypeOK
  <2> QED
    BY <1>2, <1>3, <1>4, <1>5, <1>18, <2>2 DEF ClientActs, Retire
<1> QED
  BY <1>10, <1>11, <1>12, <1>13, <1>15, <1>16, <1>17, <1>18 DEF WorkerActs

\* A call on the client.
LEMMA CallTyped ==
    ASSUME Typed, NEW c \in Callers, CallContinues(c) \/ CallBegan(c)
    PROVE  Typed'
<1>1. /\ WireTypeOK /\ HelperTypeOK /\ GateTypeOK /\ WorkerTypeOK /\ call \in [Callers -> Calls]
      /\ processes \in 0..MaxProcesses /\ inForce \subseteq Policies /\ fresh \in BOOLEAN
  BY DEF Typed, TypeOK, ClientTypeOK
<1>2. HelperTypeOK' /\ processes' \in 0..MaxProcesses /\ fresh' \in BOOLEAN
  BY <1>1 DEF CallContinues, CallBegan, ClientActs, Begins, helperVars, HelperTypeOK
<1>3. ASSUME WireTypeOK', GateTypeOK', WorkerTypeOK', call' \in [Callers -> Calls], inForce' \subseteq Policies
      PROVE  Typed'
  BY <1>2, <1>3 DEF Typed, TypeOK, ClientTypeOK
<1>4. ASSUME UNCHANGED wireVars PROVE WireTypeOK'
  BY <1>1, <1>4 DEF wireVars, WireTypeOK
<1>5. /\ OffPolicy \in Policies /\ 0 \in 0..MaxConns /\ CanElevate \in BOOLEAN
      /\ Cleared \in IndexStates
  BY WireAssumption, ClientAssumption DEF Cleared, IndexStates
<1>6. ASSUME \/ call' = call \/ CallReturns(c)
             \/ \E step \in Steps : CallGoes(c, step)
             \/ \E op \in {"start", "stop", "retry", "dispose", "policy"}, step \in Steps,
                   s \in 0..MaxConns, p \in Policies : CallBegins(c, op, step, s, p)
      PROVE  call' \in [Callers -> Calls]
  <2>1. Idle \in Calls
    BY <1>5 DEF Idle, Calls, Steps
  <2>2. \A op \in {"start", "stop", "retry", "dispose", "policy"}, step \in Steps,
           s \in 0..MaxConns, p \in Policies :
              [op |-> op, step |-> step, w |-> 0, s |-> s, p |-> p] \in Calls
    BY DEF Calls
  <2>3. \A step \in Steps : [call[c] EXCEPT !.step = step] \in Calls
    BY <1>1 DEF Calls
  <2> QED
    BY <1>1, <1>6, <2>1, <2>2, <2>3 DEF CallReturns, CallGoes, CallBegins
<1>7. {"idle", "send", "take", "close", "wait", "finish", "relay"} = Steps
  BY DEF Steps
<1>8. CASE \/ Begins(StartFinishes(c)) \/ Begins(RetryFinishes(c))
           \/ Begins(StartAtLaunch(c) /\ WorkerLeft)
  <2>1. /\ UNCHANGED <<wireVars, inForce>> /\ (call' = call \/ CallReturns(c))
        /\ NoNews /\ SameWorkers /\ UNCHANGED <<stream, disposed, changeLog>>
        /\ \E m \in Modes : StartWith(m)
    BY <1>8 DEF Begins, StartFinishes, RetryFinishes, StartAtLaunch, Modes
  <2>2. /\ worker' \in Workers \union {0} /\ at' \in [Workers -> Places] /\ mode' \in [Workers -> Modes]
    BY <1>1, <2>1 DEF StartWith, GateTypeOK, WorkerTypeOK, Places
  <2>3. GateTypeOK' /\ WorkerTypeOK'
    BY <1>1, <2>1, <2>2 DEF NoNews, SameWorkers, GateTypeOK, WorkerTypeOK
  <2> QED
    BY <1>1, <1>3, <1>4, <1>6, <2>1, <2>3
<1>9. CASE \/ ClientActs(Start(c) /\ WorkerLeft) \/ ClientActs(Stop(c)) \/ ClientActs(Retry(c) /\ WorkerLeft)
           \/ ClientActs(Dispose(c)) \/ ClientActs(DisposeFinishes(c)) \/ ClientActs(StopFinishes(c))
           \/ ClientActs(EndWaited(c))
  <2>1. UNCHANGED <<wireVars, inForce, worker, stream, changeLog, at, mode>> /\ SameWorkers
    BY <1>9 DEF ClientActs, Start, Stop, Retry, Dispose, DisposeFinishes, StopFinishes, EndWaited
  <2>2. /\ mirror' \in IndexStates /\ failure' \in Failures /\ canRetry' \in BOOLEAN
        /\ canStart' \in BOOLEAN /\ presence' \in {"NotRunning", "Running"} /\ disposed' \in BOOLEAN
    BY <1>1, <1>5, <1>9 DEF ClientActs, Start, Stop, Retry, Dispose, DisposeFinishes, StopFinishes,
                            EndWaited, NoNews, Settle, GateTypeOK, Failures
  <2>3. GateTypeOK' /\ WorkerTypeOK'
    BY <1>1, <2>1, <2>2 DEF SameWorkers, GateTypeOK, WorkerTypeOK
  <2>4. call' \in [Callers -> Calls]
    BY <1>1, <1>5, <1>6, <1>7, <1>9 DEF ClientActs, Start, Stop, Retry, Dispose, DisposeFinishes,
                                        StopFinishes, EndWaited, GateTypeOK
  <2> QED
    BY <1>1, <1>3, <1>4, <2>1, <2>3, <2>4
<1>10. CASE ClientActs(StopSends(c, Parked)) \/ ClientActs(PolicySends(c, Parked))
  <2>1. call[c].p \in Policies
    BY <1>1 DEF Calls
  <2>2. <<Msg("Shutdown", 0)>> \in Seq(ToHelperMsgs) /\ <<Msg("Record", call[c].p)>> \in Seq(ToHelperMsgs)
    BY <2>1 DEF ToHelperMsgs
  <2>3. \E msgs \in Seq(ToHelperMsgs) : AppWrite(call[c].s, msgs, Parked)
    BY <1>10, <2>2 DEF ClientActs, StopSends, PolicySends
  <2>4. toHelper' \in Seq(ToHelperMsgs) /\ inbox' \in Seq(ToHelperMsgs)
    BY <1>1, <2>3, DeliveredTyped DEF AppWrite
  <2>5. WireTypeOK'
    BY <1>1, <2>3, <2>4 DEF AppWrite, WireTypeOK
  <2>6. GateTypeOK' /\ WorkerTypeOK' /\ inForce' = inForce
    BY <1>1, <1>10 DEF ClientActs, StopSends, PolicySends, NoNews, SameWorkers, GateTypeOK, WorkerTypeOK
  <2>7. call' \in [Callers -> Calls]
    BY <1>6, <1>7, <1>10 DEF ClientActs, StopSends, PolicySends
  <2> QED
    BY <1>1, <1>3, <2>5, <2>6, <2>7
<1>11. CASE ClientActs(EndTakes(c))
  <2>1. /\ UNCHANGED <<wireVars, inForce, stream, disposed, changeLog, at, mode, talking, launched, relaying,
                       started, accepting>> /\ NoNews
        /\ worker' = 0 /\ cancelled' \in {cancelled, cancelled \union {worker}}
        /\ worker = 0 => cancelled' = cancelled
        /\ call' = [call EXCEPT ![c].step = "close", ![c].w = worker, ![c].s = stream]
    BY <1>11 DEF ClientActs, EndTakes
  <2>2. call' \in [Callers -> Calls]
    <3>1. [call[c] EXCEPT !.step = "close", !.w = worker, !.s = stream] \in Calls
      BY <1>1, <1>7 DEF Calls, GateTypeOK
    <3>2. call' = [call EXCEPT ![c] = [call[c] EXCEPT !.step = "close", !.w = worker, !.s = stream]]
      BY <1>1, <2>1
    <3> QED
      BY <1>1, <3>1, <3>2
  <2>3. GateTypeOK' /\ WorkerTypeOK'
    BY <1>1, <2>1 DEF NoNews, GateTypeOK, WorkerTypeOK
  <2> QED
    BY <1>1, <1>3, <1>4, <2>1, <2>2, <2>3
<1>12. CASE ClientActs(EndCloses(c))
  <2>1. WireTypeOK'
    <3>1. <<>> \in Seq(ToHelperMsgs)
      OBVIOUS
    <3> QED
      BY <1>1, <1>4, <1>12, <3>1 DEF ClientActs, EndCloses, CloseStream, HungUp, WireTypeOK
  <2>2. GateTypeOK' /\ WorkerTypeOK' /\ inForce' = inForce
    BY <1>1, <1>12 DEF ClientActs, EndCloses, NoNews, SameWorkers, GateTypeOK, WorkerTypeOK
  <2>3. call' \in [Callers -> Calls]
    BY <1>6, <1>7, <1>12 DEF ClientActs, EndCloses
  <2> QED
    BY <1>1, <1>3, <2>1, <2>2, <2>3
<1>13. CASE SetPolicy(c) /\ inForce' = inForce \union {changeLog'} /\ UNCHANGED <<helperVars, processes, fresh>>
  <2>1. PICK p \in Policies : changeLog' = p /\ CallBegins(c, "policy", "relay", stream, p)
    BY <1>13 DEF SetPolicy
  <2>2. GateTypeOK' /\ WorkerTypeOK' /\ inForce' \subseteq Policies /\ UNCHANGED wireVars
    BY <1>1, <1>13, <2>1 DEF SetPolicy, NoNews, SameWorkers, GateTypeOK, WorkerTypeOK
  <2>3. call' \in [Callers -> Calls]
    BY <1>1, <1>6, <1>7, <2>1 DEF GateTypeOK
  <2> QED
    BY <1>1, <1>3, <1>4, <2>2, <2>3
<1> QED
  BY <1>8, <1>9, <1>10, <1>11, <1>12, <1>13 DEF CallContinues, CallBegan

LEMMA NextTyped == Typed /\ [Next]_vars => Typed'
<1> SUFFICES ASSUME Typed, [Next]_vars PROVE Typed'
  OBVIOUS
<1>1. CASE UNCHANGED vars
  BY <1>1 DEF vars, helperVars, wireVars, clientVars, gateVars, workerVars, Typed, TypeOK, WireTypeOK,
              HelperTypeOK, ClientTypeOK, GateTypeOK, WorkerTypeOK
<1> QED
  BY <1>1, HostTyped, VolumeTyped, ProcessTyped, WorkerTyped, CallTyped DEF Next

LEMMA InitTyped == Init => Typed
<1> SUFFICES ASSUME Init PROVE Typed
  OBVIOUS
<1>1. Cleared \in IndexStates /\ NobodyTold \in [Drives -> Percents \union {Off}]
      /\ [d \in Drives |-> "over"] \in [Drives -> VolumePhases]
  BY DEF Cleared, IndexStates, NobodyTold, VolumePhases
<1>2. WireTypeOK
  <2>1. <<>> \in Seq(ToAppMsgs) /\ <<>> \in Seq(ToHelperMsgs) /\ 0 \in 0..MaxConns
    BY WireAssumption
  <2> QED
    BY <2>1 DEF Init, WireInit, WireTypeOK
<1>3. HelperTypeOK
  BY <1>1, HelperAssumption, WireAssumption DEF Init, HelperInit, NoProcess, HelperTypeOK, Phases
<1>4. ClientTypeOK
  <2>1. Idle \in Calls /\ 0 \in 0..MaxConns
    BY WireAssumption DEF Idle, Calls, Steps
  <2>2. GateTypeOK
    BY <1>1, <2>1, WireAssumption DEF Init, ClientInit, GateTypeOK, Failures
  <2>3. WorkerTypeOK
    BY <2>1, WireAssumption DEF Init, ClientInit, WorkerTypeOK, Places, Modes
  <2> QED
    BY <2>1, <2>2, <2>3 DEF Init, ClientInit, ClientTypeOK
<1> QED
  BY <1>2, <1>3, <1>4, SessionAssumption DEF Init, Typed, TypeOK

\* Type correctness of the helper, of the client and of what the pipe carries between them.  Of
\* the host's news it takes that they are messages at all, whatever order the drives are listed in.
THEOREM SessionTyped == Spec => []TypeOK
<1>1. Typed => TypeOK
  BY DEF Typed
<1> QED
  BY <1>1, InitTyped, NextTyped, PTL DEF Spec

--------------------------------------------------------------------------------
(* One live session. *)

\* The part of the gate and of the workers' places that SoleWorker speaks of.
WorkersOK == /\ worker \in Workers \union {0}
             /\ cancelled \subseteq Workers
             /\ at \in [Workers -> Places]

\* The inductive invariant: SoleWorker with the types it needs.
Inv == WorkersOK /\ SoleWorker

\* A worker that takes a step of its own was already live, or is not live after it.
LEMMA GoKeepsInv ==
    ASSUME NEW w \in Workers, NEW from \in Places \ {"unborn", "done"}, NEW to \in Places,
           Inv, Go(w, from, to)
    PROVE  Inv'
  BY DEF Inv, WorkersOK, SoleWorker, Live, Go

\* Nor does a step that leaves the three of them alone disturb it.
LEMMA SameKeepsInv ==
    ASSUME Inv, UNCHANGED <<worker, cancelled, at>>
    PROVE  Inv'
  BY DEF Inv, WorkersOK, SoleWorker, Live

\* start_with: the new worker is the one on record, and there was none before it.
LEMMA StartWithKeepsInv ==
    ASSUME NEW m \in Modes, Inv, StartWith(m), cancelled' = cancelled
    PROVE  Inv'
<1>1. CASE disposed \/ worker # 0
  BY <1>1, SameKeepsInv DEF StartWith
<1>2. CASE ~(disposed \/ worker # 0)
  <2>1. PICK w \in Workers : at[w] = "unborn" /\ worker' = w
                             /\ at' = [at EXCEPT ![w] = "creating"]
    BY <1>2 DEF StartWith
  <2>2. 0 \notin Workers
    BY DEF Workers
  <2>3. \A v \in Workers : ~Live(v)
    BY <1>2, <2>2 DEF Inv, SoleWorker
  <2>4. \A v \in Workers : Live(v)' => v = w
    BY <2>1, <2>3 DEF Live, Inv, WorkersOK
  <2>5. WorkersOK'
    BY <2>1 DEF Inv, WorkersOK, Places
  <2> QED
    BY <2>1, <2>4, <2>5 DEF Inv, SoleWorker
<1> QED
  BY <1>1, <1>2

\* retire_session clears the record only if it still names this thread.
LEMMA RetireKeepsInv ==
    ASSUME NEW w \in Workers, Inv, Retire(w)
    PROVE  Inv'
<1>1. /\ at' = [at EXCEPT ![w] = "done"]
      /\ worker' = IF worker = w THEN 0 ELSE worker
      /\ cancelled' = cancelled \ {w}
  BY DEF Retire
<1>2. WorkersOK'
  BY <1>1 DEF Inv, WorkersOK, Places
<1>3. \A v \in Workers : Live(v)' => Live(v) /\ v # w
  BY <1>1 DEF Inv, WorkersOK, Live
<1>4. SoleWorker'
  BY <1>1, <1>3 DEF Inv, SoleWorker
<1> QED
  BY <1>2, <1>4 DEF Inv

\* end_session takes the worker off the record and cancels it.
LEMMA EndTakesKeepsInv ==
    ASSUME NEW c \in Callers, Inv, EndTakes(c)
    PROVE  Inv'
  BY DEF EndTakes, Inv, WorkersOK, SoleWorker, Live, Workers

LEMMA WorkerKeepsInv ==
    ASSUME NEW w \in Workers, Inv, WorkerActs(w)
    PROVE  Inv'
<1> DEFINE Moves == \E from \in Places \ {"unborn", "done"}, to \in Places : Go(w, from, to)
<1>1. CASE Moves
  BY <1>1, GoKeepsInv
<1>2. CASE Retire(w)
  BY <1>2, RetireKeepsInv
<1>3. Moves \/ Retire(w)
  <2>0. /\ {"creating", "attaching", "listening", "storing", "probing", "prompting",
            "arriving", "awaiting", "greeting", "reading", "relaying", "ended", "exiting",
            "retiring"} \subseteq Places \ {"unborn", "done"}
        /\ NextRead(w) \in Places
    BY DEF Places, NextRead
  <2>1. CASE \/ TransportReady(w) \/ TransportInUse(w) \/ AttachBegins(w) \/ Attached(w)
             \/ NobodyAttached(w) \/ Probe(w, helper # 0)
    BY <2>0, <2>1 DEF TransportReady, TransportInUse, AttachBegins, Attached, Accept, Accepted,
                      NobodyAttached, Probe
  <2>2. CASE \/ LaunchRefused(w) \/ PromptAccepted(w) \/ ArrivalBegins(w) \/ Arrived(w)
             \/ WrongPeer(w) \/ NobodyArrived(w) \/ StoreStream(w) \/ Greet(w, Parked)
    BY <2>0, <2>2 DEF LaunchRefused, PromptAccepted, LaunchStarted, ArrivalBegins, Arrived,
                      Accept, Accepted, WrongPeer, NobodyArrived, StoreStream, Greet
  <2>3. CASE \/ ReadState(w) \/ ReadHello(w, Parked) \/ ReadReady(w)
             \/ RelayPolicy(w, Parked) \/ ReadEnd(w) \/ ConverseEnds(w) \/ ExitWaited(w)
    BY <2>0, <2>3 DEF ReadState, ReadHello, ReadReady, RelayPolicy, ReadEnd,
                      ConverseEnds, ExitWaited
  <2> QED
    BY <2>1, <2>2, <2>3 DEF WorkerActs, ClientActs
<1> QED
  BY <1>1, <1>2, <1>3

LEMMA CallKeepsInv ==
    ASSUME NEW c \in Callers, Inv, CallContinues(c) \/ CallBegan(c)
    PROVE  Inv'
<1>1. CASE \/ StartFinishes(c) \/ RetryFinishes(c) \/ StartAtLaunch(c)
  <2>1. \E m \in Modes : StartWith(m)
    BY <1>1 DEF StartFinishes, RetryFinishes, StartAtLaunch, Modes
  <2>2. cancelled' = cancelled
    BY <1>1 DEF StartFinishes, RetryFinishes, StartAtLaunch, SameWorkers
  <2> QED
    BY <2>1, <2>2, StartWithKeepsInv
<1>2. CASE EndTakes(c)
  BY <1>2, EndTakesKeepsInv
<1>3. CASE \/ StopSends(c, Parked) \/ StopFinishes(c) \/ DisposeFinishes(c) \/ EndCloses(c)
           \/ EndWaited(c) \/ PolicySends(c, Parked) \/ Start(c) \/ Stop(c) \/ Retry(c)
           \/ Dispose(c) \/ SetPolicy(c)
  <2>1. UNCHANGED <<worker, cancelled, at>>
    BY <1>3 DEF StopSends, StopFinishes, DisposeFinishes, EndCloses, EndWaited, PolicySends,
                Start, Stop, Retry, Dispose, SetPolicy, SameWorkers
  <2> QED
    BY <2>1, SameKeepsInv
<1> QED
  BY <1>1, <1>2, <1>3 DEF CallContinues, CallBegan, ClientActs, Begins

LEMMA NextKeepsInv == Inv /\ [Next]_vars => Inv'
<1> SUFFICES ASSUME Inv, [Next]_vars PROVE Inv'
  OBVIOUS
<1>1. CASE \E w \in Workers : WorkerActs(w)
  BY <1>1, WorkerKeepsInv
<1>2. CASE \E c \in Callers : CallContinues(c) \/ CallBegan(c)
  BY <1>2, CallKeepsInv
<1>3. CASE \/ HelperActs(ServeNext) \/ (\E d \in Drives : HelperActs(VolumeNext(d)))
           \/ HelperActs(HelperCrash) \/ HelperActs(SelfCheckFails) \/ HelperStartsItself
  <2>1. UNCHANGED clientVars
    BY <1>3 DEF HelperActs, HelperStartsItself
  <2> QED
    BY <2>1, SameKeepsInv DEF clientVars, gateVars, workerVars
<1>4. CASE UNCHANGED vars
  BY <1>4, SameKeepsInv DEF vars, clientVars, gateVars, workerVars
<1> QED
  BY <1>1, <1>2, <1>3, <1>4 DEF Next

\* At most one live session, and the gate's record names it: start_with never begins a
\* second one beside a live worker, however stops, retries, prompts and retirements
\* interleave (client.rs: start_with, end_session, retire_session).
THEOREM OneLiveSession == Spec => []SoleWorker
<1>1. Init => Inv
  BY DEF Init, ClientInit, Inv, WorkersOK, SoleWorker, Live, Places, Workers
<1>2. Inv => SoleWorker
  BY DEF Inv
<1> QED
  BY <1>1, <1>2, NextKeepsInv, PTL DEF Spec

--------------------------------------------------------------------------------
(* One caller, whose wait for a worker does not expire. *)

Active(w)  == at[w] \notin {"unborn", "done"}
Ending(c)  == call[c].step \in {"close", "wait"}

Shapes == /\ DOMAIN talking = Workers /\ DOMAIN call = Callers
          /\ \A c \in Callers : {"step", "w"} \subseteq DOMAIN call[c]
\* While a session is being ended no worker is on record; a worker that is still at work is on
\* record or being waited for; and one that converses does so on the stream the gate holds.
EndsAlone == \A c \in Callers : Ending(c) => worker = 0
WaitedFor == \A w \in Workers : Active(w) => worker = w \/ \E c \in Callers : Ending(c) /\ call[c].w = w
OnGate    == \A w \in Workers : at[w] \in {"greeting", "reading", "relaying"} => stream = talking[w]

ReachInv == Inv /\ Shapes /\ EndsAlone /\ WaitedFor /\ OnGate

OneCaller == \E c : Callers = {c}

\* With one caller, no two workers are at work at once.
LEMMA OneAtWork ==
    ASSUME OneCaller, ReachInv, NEW v \in Workers, NEW w \in Workers, Active(v), Active(w)
    PROVE  v = w
BY DEF OneCaller, ReachInv, EndsAlone, WaitedFor, Workers

\* A worker's own step, other than taking a connection, storing it or retiring.
LEMMA GoReaches ==
    ASSUME NEW w \in Workers, NEW from \in Places \ {"unborn", "done"},
           NEW to \in Places \ {"unborn", "done"},
           ReachInv, Go(w, from, to), UNCHANGED <<stream, talking>>,
           to \in {"greeting", "reading", "relaying"} => from \in {"greeting", "reading", "relaying"}
    PROVE  ReachInv'
<1>1. Inv' /\ UNCHANGED <<worker, call>> /\ at \in [Workers -> Places]
  BY GoKeepsInv DEF ReachInv, Go, Inv, WorkersOK
<1>2. \A v \in Workers : /\ Active(v)' => Active(v)
                         /\ at'[v] \in {"greeting", "reading", "relaying"}
                               => at[v] \in {"greeting", "reading", "relaying"}
  BY <1>1 DEF Go, Active
<1> QED
  BY <1>1, <1>2 DEF ReachInv, Shapes, EndsAlone, WaitedFor, OnGate, Ending

\* A step that touches none of it.
LEMMA SameReaches ==
    ASSUME ReachInv, UNCHANGED <<worker, cancelled, at, stream, talking>>,
           DOMAIN call' = Callers,
           \A c \in Callers : {"step", "w"} \subseteq DOMAIN call'[c],
           \A c \in Callers : /\ Ending(c)' => Ending(c) /\ call'[c].w = call[c].w
                              /\ Ending(c) => Ending(c)' \/ ~ \E w \in Workers : call[c].w = w /\ Active(w)
    PROVE  ReachInv'
<1>1. Inv'
  BY SameKeepsInv DEF ReachInv
<1>2. Shapes' /\ EndsAlone' /\ OnGate'
  BY DEF ReachInv, Shapes, EndsAlone, OnGate
<1>3. WaitedFor'
  BY DEF ReachInv, WaitedFor, Active
<1> QED
  BY <1>1, <1>2, <1>3 DEF ReachInv

LEMMA StartWithReaches ==
    ASSUME OneCaller, ReachInv, NEW m \in Modes, StartWith(m),
           UNCHANGED <<cancelled, stream, talking>>,
           NEW c \in Callers, ~Ending(c), call' = call \/ call' = [call EXCEPT ![c] = Idle]
    PROVE  ReachInv'
<1>1. DOMAIN call' = Callers /\ \A b \in Callers : {"step", "w"} \subseteq DOMAIN call'[b]
  BY DEF ReachInv, Shapes, Idle
<1>2. \A b \in Callers : ~Ending(b) /\ ~Ending(b)'
  BY <1>1 DEF OneCaller, ReachInv, Shapes, Ending, Idle
<1>3. CASE disposed \/ worker # 0
  BY <1>1, <1>2, <1>3, SameReaches DEF StartWith
<1>4. CASE ~(disposed \/ worker # 0)
  <2>1. PICK w \in Workers : worker' = w /\ at' = [at EXCEPT ![w] = "creating"]
    BY <1>4 DEF StartWith
  <2>2. \A v \in Workers : ~Active(v) /\ v # 0
    BY <1>2, <1>4 DEF ReachInv, WaitedFor, Workers
  <2>3. at \in [Workers -> Places]
    BY DEF ReachInv, Inv, WorkersOK
  <2>4. \A v \in Workers : Active(v)' => v = w
    BY <2>1, <2>2, <2>3 DEF Active
  <2>5. Inv'
    BY StartWithKeepsInv DEF ReachInv
  <2>6. OnGate'
    BY <2>1, <2>2, <2>3 DEF OnGate, Active
  <2>7. Shapes' /\ EndsAlone' /\ WaitedFor'
    BY <1>1, <1>2, <2>1, <2>4 DEF ReachInv, Shapes, EndsAlone, WaitedFor
  <2> QED
    BY <2>5, <2>6, <2>7 DEF ReachInv
<1> QED
  BY <1>3, <1>4

LEMMA WorkerReaches ==
    ASSUME OneCaller, NEW w \in Workers, ReachInv, WorkerActs(w)
    PROVE  ReachInv'
<1> DEFINE AtWork == Places \ {"unborn", "done"}
           Talks  == {"greeting", "reading", "relaying"}
<1>0. /\ {"creating", "attaching", "listening", "storing", "probing", "prompting",
          "arriving", "awaiting", "greeting", "reading", "relaying", "ended", "exiting",
          "retiring"} \subseteq AtWork
      /\ NextRead(w) \in AtWork
      /\ at \in [Workers -> Places]
  BY DEF Places, NextRead, ReachInv, Inv, WorkersOK
<1>1. CASE \/ TransportReady(w) \/ TransportInUse(w) \/ AttachBegins(w)
           \/ NobodyAttached(w) \/ Probe(w, helper # 0)
  <2>1. UNCHANGED <<stream, talking>> /\ \E from, to \in AtWork \ Talks : Go(w, from, to)
    BY <1>0, <1>1 DEF TransportReady, TransportInUse, AttachBegins, Accept, NobodyAttached, Probe
  <2> QED
    BY <2>1, GoReaches
<1>2. CASE \/ LaunchRefused(w) \/ PromptAccepted(w) \/ ArrivalBegins(w)
           \/ WrongPeer(w) \/ NobodyArrived(w)
  <2>1. UNCHANGED <<stream, talking>> /\ \E from, to \in AtWork \ Talks : Go(w, from, to)
    BY <1>0, <1>2 DEF LaunchRefused, PromptAccepted, LaunchStarted, ArrivalBegins,
                      Accept, WrongPeer, NobodyArrived
  <2> QED
    BY <2>1, GoReaches
<1>3. CASE \/ Greet(w, Parked) \/ ReadState(w) \/ ReadHello(w, Parked) \/ ReadReady(w)
           \/ RelayPolicy(w, Parked) \/ ReadEnd(w)
  <2>1. UNCHANGED <<stream, talking>> /\ \E from \in Talks, to \in AtWork : Go(w, from, to)
    BY <1>0, <1>3 DEF Greet, ReadState, ReadHello, ReadReady, RelayPolicy, ReadEnd
  <2> QED
    BY <1>0, <2>1, GoReaches
<1>4. CASE ConverseEnds(w) \/ ExitWaited(w)
  <2>1. UNCHANGED <<stream, talking>> /\ \E from, to \in AtWork \ Talks : Go(w, from, to)
    BY <1>0, <1>4 DEF ConverseEnds, ExitWaited
  <2> QED
    BY <2>1, GoReaches
<1>5. CASE Attached(w) \/ Arrived(w)
  <2>1. /\ \E from \in AtWork : Go(w, from, "storing")
        /\ talking' = [talking EXCEPT ![w] = conn] /\ UNCHANGED stream
    BY <1>0, <1>5 DEF Attached, Arrived, Accepted
  <2>2. Inv' /\ UNCHANGED <<worker, call>>
    BY <1>0, <2>1, GoKeepsInv DEF ReachInv, Go
  <2>3. \A v \in Workers : /\ Active(v)' => Active(v)
                           /\ at'[v] \in Talks => v # w /\ at[v] \in Talks
    BY <1>0, <2>1 DEF Go, Active
  <2>4. Shapes' /\ \A v \in Workers : v # w => talking'[v] = talking[v]
    BY <2>1, <2>2 DEF ReachInv, Shapes
  <2>5. EndsAlone' /\ WaitedFor' /\ OnGate'
    BY <2>1, <2>2, <2>3, <2>4 DEF ReachInv, EndsAlone, WaitedFor, OnGate, Ending
  <2> QED
    BY <2>2, <2>4, <2>5 DEF ReachInv
<1>6. CASE StoreStream(w)
  <2>1. Go(w, "storing", "greeting") /\ stream' = talking[w] /\ UNCHANGED talking
    BY <1>6 DEF StoreStream
  <2>2. Inv' /\ UNCHANGED <<worker, call>>
    BY <1>0, <2>1, GoKeepsInv DEF ReachInv, Go
  <2>3. \A v \in Workers : Active(v)' => Active(v)
    BY <1>0, <2>1 DEF Go, Active
  <2>4. Active(w)
    BY <2>1 DEF Go, Active
  <2>5. \A v \in Workers : at'[v] \in Talks => v = w
    <3>1. \A v \in Workers : at'[v] \in Talks => Active(v)
      BY <2>3 DEF Active
    <3> QED
      BY <2>4, <3>1, OneAtWork
  <2>6. Shapes' /\ EndsAlone' /\ WaitedFor' /\ OnGate'
    BY <2>1, <2>2, <2>3, <2>5 DEF ReachInv, Shapes, EndsAlone, WaitedFor, OnGate, Ending
  <2> QED
    BY <2>2, <2>6 DEF ReachInv
<1>7. CASE Retire(w)
  <2>1. /\ at[w] = "retiring" /\ at' = [at EXCEPT ![w] = "done"] /\ call' = call
        /\ worker' = IF worker = w THEN 0 ELSE worker
        /\ talking' = [talking EXCEPT ![w] = 0]
    BY <1>7 DEF Retire
  <2>2. Inv'
    BY <1>7, RetireKeepsInv DEF ReachInv
  <2>3. Active(w) /\ \A v \in Workers : Active(v)' => Active(v) /\ v # w
    BY <1>0, <2>1 DEF Active
  <2>4. \A v \in Workers : ~Active(v)'
    BY <2>3, OneAtWork
  <2>5. Shapes' /\ EndsAlone' /\ WaitedFor' /\ OnGate'
    BY <2>1, <2>4 DEF ReachInv, Shapes, EndsAlone, WaitedFor, OnGate, Ending, Active
  <2> QED
    BY <2>2, <2>5 DEF ReachInv
<1> QED
  BY <1>1, <1>2, <1>3, <1>4, <1>5, <1>6, <1>7 DEF WorkerActs, ClientActs

LEMMA CallReaches ==
    ASSUME OneCaller, ~WaitMayExpire, NEW c \in Callers, ReachInv, CallContinues(c) \/ CallBegan(c)
    PROVE  ReachInv'
<1>0. /\ DOMAIN call = Callers /\ \A b \in Callers : {"step", "w"} \subseteq DOMAIN call[b]
      /\ {"step", "w"} \subseteq DOMAIN Idle /\ Idle.step = "idle"
  BY DEF ReachInv, Shapes, Idle
<1>1. CASE StartFinishes(c) \/ RetryFinishes(c)
  <2>1. /\ StartWith("AttachOrLaunch") /\ UNCHANGED <<cancelled, stream, talking>> /\ ~Ending(c)
        /\ call' = [call EXCEPT ![c] = Idle]
    BY <1>1 DEF StartFinishes, RetryFinishes, SameWorkers, Calling, CallReturns, Ending
  <2>2. "AttachOrLaunch" \in Modes
    BY DEF Modes
  <2> QED
    BY <2>1, <2>2, StartWithReaches
<1>2. CASE StartAtLaunch(c)
  <2>1. /\ \E m \in Modes : StartWith(m)
        /\ UNCHANGED <<cancelled, stream, talking, call>> /\ ~Ending(c)
    BY <1>0, <1>2 DEF StartAtLaunch, SameWorkers, Ending
  <2> QED
    BY <2>1, StartWithReaches
<1>3. CASE Start(c) \/ Stop(c) \/ Retry(c) \/ Dispose(c) \/ SetPolicy(c)
  <2>1. /\ UNCHANGED <<worker, cancelled, at, stream, talking>> /\ call[c] = Idle
        /\ \E op, s, p : \E step \in {"finish", "send", "take", "relay"} :
              call' = [call EXCEPT ![c] = [op |-> op, step |-> step, w |-> 0, s |-> s, p |-> p]]
    BY <1>3 DEF Start, Stop, Retry, Dispose, SetPolicy, CallBegins, SameWorkers
  <2>2. /\ DOMAIN call' = Callers /\ \A b \in Callers : {"step", "w"} \subseteq DOMAIN call'[b]
        /\ ~Ending(c) /\ ~Ending(c)' /\ \A b \in Callers : b # c => call'[b] = call[b]
    BY <1>0, <2>1 DEF Ending
  <2> QED
    BY <2>1, <2>2, SameReaches DEF Ending
<1>4. CASE StopSends(c, Parked) \/ StopFinishes(c) \/ DisposeFinishes(c) \/ PolicySends(c, Parked)
  <2>1. /\ UNCHANGED <<worker, cancelled, at, stream, talking>> /\ ~Ending(c)
        /\ call' = [call EXCEPT ![c] = Idle] \/ call' = [call EXCEPT ![c].step = "take"]
    BY <1>4 DEF StopSends, StopFinishes, DisposeFinishes, PolicySends, Calling, CallGoes,
                CallReturns, SameWorkers, Ending
  <2>2. /\ DOMAIN call' = Callers /\ \A b \in Callers : {"step", "w"} \subseteq DOMAIN call'[b]
        /\ ~Ending(c)' /\ \A b \in Callers : b # c => call'[b] = call[b]
    BY <1>0, <2>1 DEF Ending
  <2> QED
    BY <2>1, <2>2, SameReaches DEF Ending
<1>5. CASE EndTakes(c)
  <2>1. /\ call[c].step = "take" /\ worker' = 0 /\ UNCHANGED <<at, stream, talking>>
        /\ call' = [call EXCEPT ![c].step = "close", ![c].w = worker, ![c].s = stream]
    BY <1>5 DEF EndTakes
  <2>2. Inv'
    BY <1>5, EndTakesKeepsInv DEF ReachInv
  <2>3. /\ DOMAIN call' = Callers /\ \A b \in Callers : {"step", "w"} \subseteq DOMAIN call'[b]
        /\ ~Ending(c) /\ Ending(c)' /\ call'[c].w = worker
        /\ \A b \in Callers : b # c => call'[b] = call[b]
    BY <1>0, <2>1 DEF Ending
  <2>4. Shapes' /\ EndsAlone' /\ OnGate'
    BY <2>1, <2>3 DEF ReachInv, Shapes, EndsAlone, OnGate
  <2>5. WaitedFor'
    BY <2>1, <2>3 DEF ReachInv, WaitedFor, Active, Ending
  <2> QED
    BY <2>2, <2>4, <2>5 DEF ReachInv
<1>6. CASE EndCloses(c)
  <2>1. /\ UNCHANGED <<worker, cancelled, at, stream, talking>> /\ call[c].step = "close"
        /\ call' = [call EXCEPT ![c].step = "wait"]
    BY <1>6 DEF EndCloses, CallGoes, SameWorkers
  <2>2. /\ DOMAIN call' = Callers /\ \A b \in Callers : {"step", "w"} \subseteq DOMAIN call'[b]
        /\ Ending(c) /\ Ending(c)' /\ call'[c].w = call[c].w
        /\ \A b \in Callers : b # c => call'[b] = call[b]
    BY <1>0, <2>1 DEF Ending
  <2> QED
    BY <2>1, <2>2, SameReaches DEF Ending
<1>7. CASE EndWaited(c)
  <2>1. /\ UNCHANGED <<worker, cancelled, at, stream, talking>> /\ call[c].step = "wait"
        /\ \A w \in Workers : call[c].w = w => at[w] = "done"
        /\ call' = [call EXCEPT ![c].step = "finish"]
    BY <1>7 DEF EndWaited, CallGoes, SameWorkers
  <2>2. /\ DOMAIN call' = Callers /\ \A b \in Callers : {"step", "w"} \subseteq DOMAIN call'[b]
        /\ ~Ending(c)' /\ \A b \in Callers : b # c => call'[b] = call[b]
    BY <1>0, <2>1 DEF Ending
  <2>3. ~ \E w \in Workers : call[c].w = w /\ Active(w)
    BY <2>1 DEF Active
  <2> QED
    BY <2>1, <2>2, <2>3, SameReaches DEF Ending
<1> QED
  BY <1>1, <1>2, <1>3, <1>4, <1>5, <1>6, <1>7 DEF CallContinues, CallBegan, ClientActs, Begins

LEMMA NextReaches ==
    ASSUME OneCaller, ~WaitMayExpire, ReachInv, [Next]_vars
    PROVE  ReachInv'
<1>1. CASE \E w \in Workers : WorkerActs(w)
  BY <1>1, WorkerReaches
<1>2. CASE \E c \in Callers : CallContinues(c) \/ CallBegan(c)
  BY <1>2, CallReaches
<1>3. ASSUME UNCHANGED clientVars PROVE ReachInv'
  <2>1. UNCHANGED <<worker, cancelled, at, stream, talking, call>>
    BY <1>3 DEF clientVars, gateVars, workerVars
  <2>2. \A c \in Callers : Ending(c)' <=> Ending(c)
    BY <2>1 DEF Ending
  <2> QED
    BY <2>1, <2>2, SameReaches DEF ReachInv, Shapes
<1>4. CASE \/ HelperActs(ServeNext) \/ (\E d \in Drives : HelperActs(VolumeNext(d)))
           \/ HelperActs(HelperCrash) \/ HelperActs(SelfCheckFails) \/ HelperStartsItself
  BY <1>3, <1>4 DEF HelperActs, HelperStartsItself
<1>5. CASE UNCHANGED vars
  BY <1>3, <1>5 DEF vars
<1> QED
  BY <1>1, <1>2, <1>4, <1>5 DEF Next

\* Where all calls come from one thread, and end_session's wait for a worker is never cut short,
\* the gate holds the stream of whoever converses: stop can reach it, a policy is relayed down it,
\* and no retiring worker clears the stream of a newer session (retire_session clears it whoever
\* it belongs to).
THEOREM LiveStreamIsOnTheGate ==
    ASSUME OneCaller, ~WaitMayExpire
    PROVE  Spec => []LiveStreamReachable
<1>1. Init => ReachInv
  BY DEF Init, ClientInit, ReachInv, Inv, WorkersOK, SoleWorker, Live, Places, Workers, Shapes,
         EndsAlone, WaitedFor, OnGate, Active, Ending, Idle
<1>2. ReachInv /\ [Next]_vars => ReachInv'
  BY NextReaches
<1>3. ReachInv => LiveStreamReachable
  BY DEF ReachInv, OnGate, LiveStreamReachable
<1> QED
  BY <1>1, <1>2, <1>3, PTL DEF Spec

--------------------------------------------------------------------------------
(* The mirror, under the same two assumptions. *)

\* Who reads or has just read Ready has greeted a helper, and nobody has said since that none
\* runs; and as stop comes to its end, nobody is left to read.
Greeted  == \A w \in Workers : at[w] \in {"reading", "relaying"} => presence = "Running"
StopOver == \A c \in Callers : Calling(c, "stop", "finish") => \A w \in Workers : ~Active(w)
OpsKept  == \A c \in Callers : "op" \in DOMAIN call[c]
ClaimInv == ReachInv /\ OpsKept /\ Greeted /\ StopOver /\ NothingClaimedWithoutHelper

LEMMA WorkerClaims ==
    ASSUME OneCaller, ~WaitMayExpire, NEW w \in Workers, ClaimInv, WorkerActs(w)
    PROVE  ClaimInv'
<1>0. /\ ReachInv' /\ at \in [Workers -> Places] /\ UNCHANGED call
  <2>1. UNCHANGED call
    BY DEF WorkerActs, ClientActs, TransportReady, TransportInUse, AttachBegins, Attached, Accept,
           Accepted, NobodyAttached, Probe, LaunchRefused, PromptAccepted, LaunchStarted,
           ArrivalBegins, Arrived, WrongPeer, NobodyArrived, StoreStream, Greet, ReadState,
           ReadHello, ReadReady, RelayPolicy, ReadEnd, ConverseEnds, ExitWaited, Retire, Go
  <2> QED
    BY <2>1, WorkerReaches DEF ClaimInv, ReachInv, Inv, WorkersOK
<1>1. Active(w) /\ \A v \in Workers : v # w => ~Active(v) /\ at'[v] = at[v]
  <2>1. Active(w) /\ \A v \in Workers : v # w => at'[v] = at[v]
    BY <1>0 DEF WorkerActs, ClientActs, TransportReady, TransportInUse, AttachBegins, Attached, Accept,
           Accepted, NobodyAttached, Probe, LaunchRefused, PromptAccepted, LaunchStarted,
           ArrivalBegins, Arrived, WrongPeer, NobodyArrived, StoreStream, Greet, ReadState,
           ReadHello, ReadReady, RelayPolicy, ReadEnd, ConverseEnds, ExitWaited, Retire, Go, Active
  <2> QED
    BY <2>1, OneAtWork DEF ClaimInv
<1>2. \A v \in Workers : v # w => at'[v] \notin {"reading", "relaying"}
  BY <1>1 DEF Active
<1>3. OpsKept' /\ StopOver'
  BY <1>0, <1>1 DEF ClaimInv, OpsKept, StopOver, Calling
<1>4. ASSUME at'[w] \in {"reading", "relaying"} => presence' = "Running",
             presence' = "NotRunning" => mirror' = Cleared
      PROVE  ClaimInv'
  BY <1>0, <1>2, <1>3, <1>4 DEF ClaimInv, Greeted, NothingClaimedWithoutHelper
<1>5. CASE NoNews /\ (at'[w] \in {"reading", "relaying"} => at[w] \in {"reading", "relaying"})
  BY <1>4, <1>5 DEF NoNews, ClaimInv, Greeted, NothingClaimedWithoutHelper
<1>6. CASE at'[w] \notin {"reading", "relaying"} /\ mirror' = Cleared
  BY <1>4, <1>6
<1>7. CASE Greet(w, Parked)
  BY <1>4, <1>7 DEF Greet
<1>8. CASE ReadState(w)
  BY <1>0, <1>4, <1>8 DEF ReadState, Go, Announce, ClaimInv, Greeted
<1>9. \/ NoNews /\ (at'[w] \in {"reading", "relaying"} => at[w] \in {"reading", "relaying"})
      \/ at'[w] \notin {"reading", "relaying"} /\ mirror' = Cleared
      \/ Greet(w, Parked) \/ ReadState(w)
  <2>1. CASE \/ TransportReady(w) \/ TransportInUse(w) \/ AttachBegins(w) \/ Attached(w)
             \/ NobodyAttached(w) \/ Probe(w, helper # 0)
    BY <1>0, <2>1 DEF TransportReady, TransportInUse, AttachBegins, Attached, Accept, Accepted,
                      NobodyAttached, Probe, Go, Settle, Fail
  <2>2. CASE \/ LaunchRefused(w) \/ PromptAccepted(w) \/ ArrivalBegins(w) \/ Arrived(w)
             \/ WrongPeer(w) \/ NobodyArrived(w) \/ StoreStream(w)
    BY <1>0, <2>2 DEF LaunchRefused, PromptAccepted, LaunchStarted, ArrivalBegins, Arrived,
                      Accept, Accepted, WrongPeer, NobodyArrived, StoreStream, Go, Fail
  <2>3. CASE \/ ReadHello(w, Parked) \/ ReadReady(w) \/ RelayPolicy(w, Parked) \/ ReadEnd(w)
             \/ ConverseEnds(w) \/ ExitWaited(w)
    BY <1>0, <2>3 DEF ReadHello, ReadReady, RelayPolicy, ReadEnd, ConverseEnds, ExitWaited, Go, Fail
  <2>4. CASE Retire(w)
    BY <1>0, <2>4 DEF Retire
  <2> QED
    BY <2>1, <2>2, <2>3, <2>4 DEF WorkerActs, ClientActs
<1> QED
  BY <1>5, <1>6, <1>7, <1>8, <1>9

LEMMA CallClaims ==
    ASSUME OneCaller, ~WaitMayExpire, NEW c \in Callers, ClaimInv, CallContinues(c) \/ CallBegan(c)
    PROVE  ClaimInv'
<1>0. /\ ReachInv' /\ at \in [Workers -> Places] /\ Callers = {c}
      /\ DOMAIN call = Callers /\ {"step", "w", "op"} \subseteq DOMAIN call[c]
  BY CallReaches DEF ClaimInv, ReachInv, Inv, WorkersOK, Shapes, OpsKept, OneCaller
<1>1. CASE StartFinishes(c) \/ RetryFinishes(c) \/ StartAtLaunch(c)
  <2>1. NoNews /\ \E m \in Modes : StartWith(m)
    BY <1>1 DEF StartFinishes, RetryFinishes, StartAtLaunch, Modes
  <2>2. \A w \in Workers : at'[w] = at[w] \/ at'[w] = "creating"
    BY <1>0, <2>1 DEF StartWith
  <2>3. call'[c] = Idle /\ "op" \in DOMAIN Idle /\ Idle.op # "stop"
    BY <1>0, <1>1 DEF StartFinishes, RetryFinishes, StartAtLaunch, CallReturns, Idle
  <2>4. OpsKept' /\ StopOver'
    BY <1>0, <2>3 DEF OpsKept, StopOver, Calling
  <2> QED
    BY <1>0, <2>1, <2>2, <2>4 DEF ClaimInv, Greeted, NothingClaimedWithoutHelper, NoNews
<1>2. CASE StopFinishes(c)
  <2>1. /\ \A w \in Workers : ~Active(w)
        /\ at' = at /\ mirror' = Cleared
        /\ call'[c] = Idle /\ "op" \in DOMAIN Idle /\ Idle.op # "stop"
    BY <1>0, <1>2 DEF StopFinishes, ClaimInv, StopOver, CallReturns, Idle, Settle
  <2> QED
    BY <1>0, <2>1 DEF ClaimInv, OpsKept, StopOver, Calling, Greeted, Active,
                      NothingClaimedWithoutHelper
<1>3. CASE EndWaited(c)
  <2>1. /\ \A w \in Workers : ~Active(w)
        /\ NoNews /\ at' = at /\ "op" \in DOMAIN call'[c]
    <3>1. /\ Ending(c) /\ \A w \in Workers : call[c].w = w => ~Active(w)
          /\ NoNews /\ at' = at /\ call' = [call EXCEPT ![c].step = "finish"]
      BY <1>3 DEF EndWaited, Ending, Active, CallGoes
    <3> QED
      BY <1>0, <3>1 DEF ClaimInv, ReachInv, EndsAlone, WaitedFor, Workers
  <2> QED
    BY <1>0, <2>1 DEF ClaimInv, OpsKept, StopOver, Greeted, Active,
                      NothingClaimedWithoutHelper, NoNews
<1>4. CASE \/ StopSends(c, Parked) \/ DisposeFinishes(c) \/ EndTakes(c) \/ EndCloses(c)
           \/ PolicySends(c, Parked) \/ Start(c) \/ Stop(c) \/ Retry(c) \/ Dispose(c) \/ SetPolicy(c)
  <2>1. /\ at' = at /\ UNCHANGED <<mirror, presence>>
    BY <1>4 DEF StopSends, DisposeFinishes, EndTakes, EndCloses, PolicySends, Start, Stop, Retry,
                Dispose, SetPolicy, NoNews
  <2>2. "op" \in DOMAIN call'[c] /\ ~Calling(c, "stop", "finish")'
    BY <1>0, <1>4 DEF StopSends, DisposeFinishes, EndTakes, EndCloses, PolicySends, Start, Stop,
                Retry, Dispose, SetPolicy, CallGoes, CallReturns, CallBegins, Calling, Idle
  <2> QED
    BY <1>0, <2>1, <2>2 DEF ClaimInv, OpsKept, StopOver, Greeted, NothingClaimedWithoutHelper
<1> QED
  BY <1>1, <1>2, <1>3, <1>4 DEF CallContinues, CallBegan, ClientActs, Begins

LEMMA InitClaims == Init => ClaimInv
<1>1. Init => ReachInv
  BY DEF Init, ClientInit, ReachInv, Inv, WorkersOK, SoleWorker, Live, Places, Workers, Shapes,
         EndsAlone, WaitedFor, OnGate, Active, Ending, Idle
<1> QED
  BY <1>1 DEF Init, ClientInit, ClaimInv, OpsKept, Greeted, StopOver, Calling, Idle,
              NothingClaimedWithoutHelper

LEMMA NextClaims ==
    ASSUME OneCaller, ~WaitMayExpire, ClaimInv, [Next]_vars
    PROVE  ClaimInv'
<1>1. CASE \E w \in Workers : WorkerActs(w)
  BY <1>1, WorkerClaims
<1>2. CASE \E c \in Callers : CallContinues(c) \/ CallBegan(c)
  BY <1>2, CallClaims
<1>3. ASSUME UNCHANGED clientVars PROVE ClaimInv'
  <2>1. UNCHANGED <<at, presence, mirror, call>>
    BY <1>3 DEF clientVars, gateVars, workerVars
  <2>2. ReachInv'
    BY NextReaches DEF ClaimInv
  <2> QED
    BY <2>1, <2>2 DEF ClaimInv, OpsKept, Greeted, StopOver, Calling, Active,
                      NothingClaimedWithoutHelper
<1>4. CASE \/ HelperActs(ServeNext) \/ (\E d \in Drives : HelperActs(VolumeNext(d)))
           \/ HelperActs(HelperCrash) \/ HelperActs(SelfCheckFails) \/ HelperStartsItself
  BY <1>3, <1>4 DEF HelperActs, HelperStartsItself
<1>5. CASE UNCHANGED vars
  BY <1>3, <1>5 DEF vars
<1> QED
  BY <1>1, <1>2, <1>4, <1>5 DEF Next

\* Under the same assumptions, the mirror is empty whenever the app says that no helper is
\* running: whoever says so (fail, settle, the end of stop) drops the mirror, and no reader is
\* left that would fill it again from what it still has to read.
THEOREM NothingIsClaimed ==
    ASSUME OneCaller, ~WaitMayExpire
    PROVE  Spec => []NothingClaimedWithoutHelper
<1>1. ClaimInv /\ [Next]_vars => ClaimInv'
  BY NextClaims
<1>2. ClaimInv => NothingClaimedWithoutHelper
  BY DEF ClaimInv
<1> QED
  BY InitClaims, <1>1, <1>2, PTL DEF Spec

--------------------------------------------------------------------------------
(* What the mirror is about to show. *)

\* A volume the host has still to be told of; one that is finished, or has been.
Untold   == {"opened", "progressed", "cleared", "endCleared"}
Finished == {"completed", "cleared", "idleTold", "tailing"}

\* What the helper's threads keep between them.  A volume thread tells the host after every change
\* it makes, so what the host last said differs from what the service knows only where a thread is
\* between the two; and a finished volume is on the list a new session is sent.
HostShape ==
    /\ helper = 0 => phase = "gone"
    /\ helperEnd <=> phase \in InSession
    /\ subscribed <=> phase \in InSession \ {"begun"}
    /\ \A d \in Drives : volume[d] \in Finished => d \in service.completed
    /\ replaying \subseteq service.completed
    /\ phase = "reading" => replaying = {}
    /\ phase \in {"toldBuilding", "replaying", "reading"}
          => \A d \in Drives : reported[d] # service.building[d] => volume[d] \in Untold

\* A mirror that has heard everything said so far.
Agrees(told) ==
    /\ told.building = reported
    /\ told.completed \subseteq service.completed
    /\ phase \in {"replaying", "reading"}
          => \A d \in service.completed : \/ d \in told.completed \union replaying
                                          \/ volume[d] \in Finished \ {"tailing"}

\* A mirror that shows base has what it takes to come to agree in the pipe.
Hearing(base) == \E told \in IndexStates : Leads(base, toApp, told) /\ Agrees(told)

LEMMA SendHears ==
    ASSUME Typed, phase \in InSession, appEnd,
           NEW base \in IndexStates, NEW told \in IndexStates, Leads(base, toApp, told),
           NEW msgs \in Seq(ToAppMsgs), NEW then \in IndexStates, Leads(told, msgs, then),
           HostSend(msgs)
    PROVE  Leads(base, toApp', then)
<1>1. toApp' = toApp \o msgs /\ toApp \in Seq(ToAppMsgs)
  BY DEF HostSend, Typed, WireTypeOK
<1> QED
  BY <1>1, LeadsThen

\* The host says where the builds stand.
LEMMA StatusHears ==
    ASSUME Typed, phase \in InSession, appEnd, StatusChanged,
           NEW base \in IndexStates, NEW told \in IndexStates, Leads(base, toApp, told),
           told.building = reported
    PROVE  \E then \in IndexStates : /\ Leads(base, toApp', then)
                                     /\ then.building = reported' /\ then.completed = told.completed
<1> DEFINE then == [told EXCEPT !.building = service.building]
<1>1. service.building \in Buildings /\ reported \in Buildings
  BY DEF Typed, TypeOK, HelperTypeOK, IndexStates, Buildings
<1>2. then \in IndexStates /\ then.building = service.building /\ then.completed = told.completed
  BY <1>1 DEF IndexStates, Buildings
<1>3. News(service.building) \in Seq(ToAppMsgs) /\ Leads(told, News(service.building), then)
  BY <1>1, NewsLeads
<1> HIDE DEF then
<1>4. HostSend(News(service.building)) /\ reported' = service.building
  BY DEF StatusChanged
<1> QED
  BY <1>2, <1>3, <1>4, SendHears

LEMMA HostKeepsShape ==
    ASSUME Typed, HostShape, HelperActs(ServeNext)
    PROVE  HostShape'
<1>1. helper # 0 /\ phase # "gone"
  BY DEF HostShape, HelperActs, ServeNext, HostConnect, HostSubscribe, HostGreet, HostReplayBuilding,
         HostListRoots, HostReplayRoot, HostReady, HostLifetimeOver, HostFill, HostRead, HostPeerGone, HelperExit
<1>2. CASE HelperExit
  BY <1>2 DEF HelperExit, ProcessGone, wireVars, HostShape, InSession, Cleared, Finished
<1>3. ASSUME NEW last, NEW next \in {"seeking", "exiting"}, EndSession(last, next)
      PROVE  HostShape'
  BY <1>1, <1>3 DEF EndSession, HelperHangUp, HostShape, InSession
<1>4. CASE HostRead
  <2>1. CASE EndSession(<<Msg("Fatal", 0)>>, "exiting") \/ EndSession(<<>>, "exiting")
    BY <1>3, <2>1
  <2>2. CASE UNCHANGED <<helper, phase, subscribed, replaying, reported, service, volume, helperEnd>>
    BY <2>2 DEF HostShape
  <2> QED
    BY <1>4, <2>1, <2>2 DEF HostRead
<1>5. CASE HostLifetimeOver \/ HostPeerGone
  BY <1>3, <1>5 DEF HostLifetimeOver, HostPeerGone
<1>6. CASE HostConnect \/ HostSubscribe \/ HostGreet \/ HostFill
  BY <1>1, <1>6 DEF HostConnect, HelperConnect, HostSubscribe, HostGreet, HostFill, HelperFill, helperVars,
                    wireVars, HostShape, InSession
<1>11. CASE HostListRoots \/ HostReplayRoot
  <2>1. /\ UNCHANGED <<helper, subscribed, reported, service, volume, helperEnd>> /\ replaying' \subseteq service.completed
        /\ phase \in {"toldBuilding", "replaying"} /\ phase' = "replaying"
    BY <1>11 DEF HostListRoots, HostReplayRoot, wireVars, HostShape
  <2> QED
    BY <1>1, <2>1 DEF HostShape, InSession
<1>12. CASE HostReady
  BY <1>1, <1>12 DEF HostReady, HostShape, InSession
<1>7. CASE HostReplayBuilding
  BY <1>1, <1>7 DEF HostReplayBuilding, StatusChanged, HostShape, InSession
<1> QED
  BY <1>2, <1>4, <1>5, <1>6, <1>7, <1>11, <1>12 DEF HelperActs, ServeNext

LEMMA HostKeepsHearing ==
    ASSUME Typed, HostShape, HelperActs(ServeNext), appEnd, helperEnd, helperEnd',
           NEW base \in IndexStates, Hearing(base)
    PROVE  \E told \in IndexStates : Leads(base, toApp', told) /\ Agrees(told)'
<1>1. PICK told \in IndexStates : Leads(base, toApp, told) /\ Agrees(told)
  BY DEF Hearing
<1>2. phase \in InSession /\ phase \notin {"gone", "seeking", "exiting"}
  BY DEF HostShape, InSession
<1>3. CASE HostSubscribe \/ HostListRoots \/ HostFill
  <2>1. toApp' = toApp /\ Agrees(told)'
    BY <1>1, <1>3 DEF HostSubscribe, HostListRoots, HostFill, HelperFill, helperVars, wireVars, Agrees
  <2> QED
    BY <1>1, <2>1
<1>4. ASSUME NEW m \in {Msg("Hello", version), Msg("Ready", 0)}, HostSend(<<m>>)
      PROVE  Leads(base, toApp', told)
  <2>1. m \in ToAppMsgs
    BY DEF ToAppMsgs, Typed, TypeOK, HelperTypeOK
  <2>2. Mirrored(told, m) = told
    BY DEF Mirrored, Msg
  <2>3. Leads(told, <<m>>, told) /\ <<m>> \in Seq(ToAppMsgs)
    BY <2>1, <2>2, LeadsOne
  <2> QED
    BY <1>1, <1>2, <1>4, <2>3, SendHears
<1>5. CASE HostGreet
  <2>1. Agrees(told)'
    BY <1>1, <1>5 DEF HostGreet, Agrees
  <2> QED
    BY <1>4, <1>5, <2>1 DEF HostGreet
<1>6. CASE HostReady
  <2>1. Agrees(told)'
    BY <1>1, <1>6 DEF HostReady, Agrees
  <2> QED
    BY <1>4, <1>6, <2>1 DEF HostReady
<1>7. CASE HostReplayBuilding
  <2>1. PICK then \in IndexStates : /\ Leads(base, toApp', then)
                                    /\ then.building = reported' /\ then.completed = told.completed
    BY <1>1, <1>2, <1>7, StatusHears DEF HostReplayBuilding, Agrees
  <2>2. Agrees(then)'
    BY <1>1, <1>7, <2>1 DEF HostReplayBuilding, Agrees
  <2> QED
    BY <2>1, <2>2
<1>8. CASE HostReplayRoot
  <2>1. PICK r \in replaying : HostSend(<<Msg("Complete", r)>>) /\ replaying' = replaying \ {r}
    BY <1>8 DEF HostReplayRoot
  <2> DEFINE then == MarkComplete(told, r)
             m == Msg("Complete", r)
  <2>2. r \in Drives /\ r \in service.completed
    BY DEF HostShape, Typed, TypeOK, HelperTypeOK
  <2>3. m \in ToAppMsgs /\ Mirrored(told, m) = then
    BY <2>2 DEF ToAppMsgs, Mirrored, Msg
  <2>4. then \in IndexStates /\ Leads(told, <<m>>, then) /\ <<m>> \in Seq(ToAppMsgs)
    BY <2>3, LeadsOne, MirroredTyped
  <2>5. Leads(base, toApp', then)
    BY <1>1, <1>2, <2>1, <2>4, SendHears
  <2>6. then.building = told.building /\ then.completed = told.completed \union {r}
    BY DEF MarkComplete, IndexStates
  <2>7. Agrees(then)'
    BY <1>1, <1>8, <2>1, <2>2, <2>6 DEF HostReplayRoot, Agrees
  <2> QED
    BY <2>4, <2>5, <2>7
<1>9. CASE HostRead
  <2>1. UNCHANGED <<toApp, phase, replaying, reported, service, volume>>
    BY <1>9 DEF HostRead, EndSession, HelperHangUp
  <2> QED
    BY <1>1, <2>1 DEF Agrees
<1>10. ~HostConnect /\ ~HostLifetimeOver /\ ~HostPeerGone /\ ~HelperExit
  BY <1>2 DEF HostConnect, HostLifetimeOver, HostPeerGone, HelperExit, EndSession, HelperHangUp
<1> QED
  BY <1>3, <1>5, <1>6, <1>7, <1>8, <1>9, <1>10 DEF HelperActs, ServeNext

LEMMA VolumeKeepsShape ==
    ASSUME Typed, HostShape, NEW d \in Drives, HelperActs(VolumeNext(d))
    PROVE  HostShape'
<1>1. volume \in [Drives -> VolumePhases] /\ service \in IndexStates /\ reported \in Buildings
  BY DEF Typed, TypeOK, HelperTypeOK, Buildings
<1>2. ASSUME NEW from, NEW to, VolumeStep(d, from, to), helperEnd' = helperEnd,
             to \in Finished => d \in service'.completed,
             service.completed \subseteq service'.completed,
             \/ subscribed /\ reported' = service'.building
             \/ ~subscribed
             \/ /\ reported' = reported /\ \A b \in Drives \ {d} : service'.building[b] = service.building[b]
                /\ to \in Untold \/ (from \notin Untold /\ service'.building[d] = service.building[d])
      PROVE  HostShape'
  <2>1. /\ UNCHANGED <<helper, phase, subscribed, replaying, helperEnd>>
        /\ volume[d] = from /\ volume' = [volume EXCEPT ![d] = to]
    BY <1>2 DEF VolumeStep
  <2>2. \A b \in Drives : volume'[b] = IF b = d THEN to ELSE volume[b]
    BY <1>1, <2>1
  <2>3. phase \in {"toldBuilding", "replaying", "reading"} => subscribed
    BY DEF HostShape, InSession
  <2>4. phase \in {"toldBuilding", "replaying", "reading"}
          => \A b \in Drives : reported'[b] # service'.building[b] => volume'[b] \in Untold
    BY <1>2, <2>1, <2>2, <2>3 DEF HostShape
  <2> QED
    BY <1>2, <2>1, <2>2, <2>4 DEF HostShape
<1>3. CASE VolumeOpen(d)
  <2>1. service' = MarkBuilding(service, d)
    BY <1>3 DEF VolumeOpen, SetService
  <2>2. service'.completed = service.completed
        /\ \A b \in Drives \ {d} : service'.building[b] = service.building[b]
    BY <1>1, <2>1 DEF MarkBuilding, IndexStates
  <2> QED
    BY <1>2, <1>3, <2>2 DEF VolumeOpen, SetService, wireVars, Finished, Untold
<1>4. CASE VolumeOpenFails(d) \/ VolumeBuildFails(d) \/ VolumeTailEnds(d)
  <2>1. \E from \in {"starting", "building", "tailing"} : VolumeStep(d, from, "ending")
        /\ service' = service /\ UNCHANGED <<helperEnd, reported>>
    BY <1>4 DEF VolumeOpenFails, VolumeBuildFails, VolumeTailEnds, SetService, wireVars
  <2> QED
    BY <1>2, <2>1 DEF Finished, Untold
<1>5. CASE VolumeProgress(d)
  <2>1. PICK p : service' = SetProgress(service, d, p)
    BY <1>5 DEF VolumeProgress, SetService
  <2>2. service'.completed = service.completed
        /\ \A b \in Drives \ {d} : service'.building[b] = service.building[b]
    BY <1>1, <2>1 DEF SetProgress, IndexStates
  <2> QED
    BY <1>2, <1>5, <2>2 DEF VolumeProgress, SetService, wireVars, Finished, Untold
<1>6. CASE VolumeComplete(d)
  <2>1. service' = MarkComplete(service, d)
    BY <1>6 DEF VolumeComplete, SetService
  <2>2. service'.completed = service.completed \union {d} /\ service'.building = service.building
    BY <1>1, <2>1 DEF MarkComplete, IndexStates
  <2> QED
    BY <1>2, <1>6, <2>2 DEF VolumeComplete, SetService, wireVars, Finished, Untold
<1>7. CASE VolumeClear(d) \/ VolumeEndClear(d)
  <2>1. service' = ClearBuilding(service, d) /\ UNCHANGED <<helperEnd, reported>>
    BY <1>7 DEF VolumeClear, VolumeEndClear, SetService, wireVars
  <2>2. service'.completed = service.completed
        /\ \A b \in Drives \ {d} : service'.building[b] = service.building[b]
    BY <1>1, <2>1 DEF ClearBuilding, IndexStates
  <2>3. VolumeStep(d, "completed", "cleared") \/ VolumeStep(d, "ending", "endCleared")
    BY <1>7 DEF VolumeClear, VolumeEndClear
  <2>4. VolumeStep(d, "completed", "cleared") => d \in service.completed
    BY DEF VolumeStep, HostShape, Finished
  <2> QED
    BY <1>2, <2>1, <2>2, <2>3, <2>4 DEF Finished, Untold
<1>8. CASE VolumeTellOpen(d) \/ VolumeTellProgress(d) \/ VolumeTellIdle(d) \/ VolumeTellEnd(d)
  <2>1. service' = service /\ helperEnd' = helperEnd /\ (~subscribed \/ reported' = service'.building)
    BY <1>8 DEF VolumeTellOpen, VolumeTellProgress, VolumeTellIdle, VolumeTellEnd, TellStatus, StatusChanged
  <2>2. \/ VolumeStep(d, "opened", "building") \/ VolumeStep(d, "progressed", "building")
        \/ VolumeStep(d, "cleared", "idleTold") \/ VolumeStep(d, "endCleared", "over")
    BY <1>8 DEF VolumeTellOpen, VolumeTellProgress, VolumeTellIdle, VolumeTellEnd
  <2>3. VolumeStep(d, "cleared", "idleTold") => d \in service.completed
    BY DEF VolumeStep, HostShape, Finished
  <2> QED
    BY <1>2, <2>1, <2>2, <2>3 DEF Finished
<1>9. CASE VolumeTellRefreshed(d)
  <2>1. VolumeStep(d, "idleTold", "tailing") /\ UNCHANGED <<service, helperEnd, reported>>
    BY <1>9 DEF VolumeTellRefreshed
  <2>2. d \in service.completed
    BY <2>1 DEF VolumeStep, HostShape, Finished
  <2> QED
    BY <1>2, <2>1, <2>2 DEF Untold
<1> QED
  BY <1>3, <1>4, <1>5, <1>6, <1>7, <1>8, <1>9 DEF HelperActs, VolumeNext

LEMMA VolumeKeepsHearing ==
    ASSUME Typed, HostShape, NEW d \in Drives, HelperActs(VolumeNext(d)), appEnd, helperEnd,
           NEW base \in IndexStates, Hearing(base)
    PROVE  \E told \in IndexStates : Leads(base, toApp', told) /\ Agrees(told)'
<1>0. volume \in [Drives -> VolumePhases] /\ service \in IndexStates /\ reported \in Buildings
  BY DEF Typed, TypeOK, HelperTypeOK, Buildings
<1>1. PICK told \in IndexStates : Leads(base, toApp, told) /\ Agrees(told)
  BY DEF Hearing
<1>2. phase \in InSession
  BY DEF HostShape
<1>3. ASSUME NEW from, NEW to, VolumeStep(d, from, to), NEW then \in IndexStates,
             then.building = reported', told.completed \subseteq then.completed,
             then.completed \subseteq service'.completed,
             service'.completed \subseteq service.completed \union {d},
             service.completed \subseteq service'.completed,
             d \in service'.completed
                => \/ d \in then.completed \/ to \in Finished \ {"tailing"}
                   \/ d \in service.completed /\ from \notin Finished \ {"tailing"}
      PROVE  Agrees(then)'
  <2>1. /\ UNCHANGED <<phase, replaying>> /\ volume[d] = from
        /\ \A b \in Drives : volume'[b] = IF b = d THEN to ELSE volume[b]
    BY <1>0, <1>3 DEF VolumeStep
  <2>2. service.completed \subseteq Drives
    BY <1>0 DEF IndexStates
  <2>3. ASSUME phase \in {"replaying", "reading"}, NEW b \in service'.completed
        PROVE  b \in then.completed \union replaying \/ volume'[b] \in Finished \ {"tailing"}
    <3>1. CASE b = d
      BY <1>1, <1>3, <2>1, <2>3, <3>1 DEF Agrees
    <3>2. CASE b # d
      BY <1>1, <1>3, <2>1, <2>2, <2>3, <3>2 DEF Agrees
    <3> QED
      BY <3>1, <3>2
  <2> QED
    BY <1>3, <2>1, <2>3 DEF Agrees
<1>4. CASE \/ VolumeOpen(d) \/ VolumeOpenFails(d) \/ VolumeProgress(d) \/ VolumeBuildFails(d)
           \/ VolumeTailEnds(d) \/ VolumeEndClear(d)
  <2>1. /\ \E from \in {"starting", "building", "tailing", "ending"} : \E to : VolumeStep(d, from, to)
        /\ \E st : SetService(st)
        /\ \/ service' \in {service, MarkBuilding(service, d), ClearBuilding(service, d)}
           \/ \E p : service' = SetProgress(service, d, p)
    BY <1>4 DEF VolumeOpen, VolumeOpenFails, VolumeProgress, VolumeBuildFails, VolumeTailEnds,
                VolumeEndClear, SetService
  <2>2. service'.completed = service.completed
    BY <1>0, <2>1 DEF MarkBuilding, ClearBuilding, SetProgress, IndexStates
  <2>3. reported' = reported /\ toApp' = toApp
    BY <2>1 DEF SetService, wireVars
  <2>4. Agrees(told)'
    BY <1>1, <1>3, <2>1, <2>2, <2>3 DEF Agrees, Finished
  <2> QED
    BY <1>1, <2>3, <2>4
<1>5. CASE VolumeComplete(d) \/ VolumeClear(d)
  <2>1. /\ \E from, to \in {"building", "completed", "cleared"} :
              VolumeStep(d, from, to) /\ to \in Finished \ {"tailing"}
        /\ \E st : SetService(st)
        /\ service' \in {MarkComplete(service, d), ClearBuilding(service, d)}
    BY <1>5 DEF VolumeComplete, VolumeClear, SetService, Finished
  <2>2. service'.completed \in {service.completed, service.completed \union {d}}
    BY <1>0, <2>1 DEF MarkComplete, ClearBuilding, IndexStates
  <2>3. reported' = reported /\ toApp' = toApp
    BY <2>1 DEF SetService, wireVars
  <2>4. Agrees(told)'
    BY <1>1, <1>3, <2>1, <2>2, <2>3 DEF Agrees
  <2> QED
    BY <1>1, <2>3, <2>4
<1>6. CASE VolumeTellOpen(d) \/ VolumeTellProgress(d) \/ VolumeTellIdle(d) \/ VolumeTellEnd(d)
  <2>1. TellStatus /\ service' = service
    BY <1>6 DEF VolumeTellOpen, VolumeTellProgress, VolumeTellIdle, VolumeTellEnd, TellStatus, StatusChanged
  <2>4. \/ VolumeStep(d, "opened", "building") \/ VolumeStep(d, "progressed", "building")
        \/ VolumeStep(d, "cleared", "idleTold") \/ VolumeStep(d, "endCleared", "over")
    BY <1>6 DEF VolumeTellOpen, VolumeTellProgress, VolumeTellIdle, VolumeTellEnd
  <2>2. PICK then \in IndexStates : /\ Leads(base, toApp', then)
                                    /\ then.building = reported' /\ then.completed = told.completed
    <3>1. CASE subscribed
      BY <1>1, <1>2, <2>1, <3>1, StatusHears DEF TellStatus, Agrees
    <3>2. CASE ~subscribed
      BY <1>1, <2>1, <3>2 DEF TellStatus, Agrees
    <3> QED
      BY <3>1, <3>2
  <2>3. Agrees(then)'
    BY <1>1, <1>3, <2>1, <2>2, <2>4 DEF Agrees, Finished
  <2> QED
    BY <2>2, <2>3
<1>7. CASE VolumeTellRefreshed(d)
  <2>1. VolumeStep(d, "idleTold", "tailing") /\ UNCHANGED <<service, reported>>
        /\ (IF subscribed THEN HostSend(<<Msg("Complete", d)>>) ELSE UNCHANGED toApp)
    BY <1>7 DEF VolumeTellRefreshed
  <2>2. d \in service.completed
    BY <2>1 DEF VolumeStep, HostShape, Finished
  <2>3. CASE subscribed
    <3> DEFINE then == MarkComplete(told, d)
               m == Msg("Complete", d)
    <3>1. m \in ToAppMsgs /\ Mirrored(told, m) = then
      BY DEF ToAppMsgs, Mirrored, Msg
    <3>2. then \in IndexStates /\ Leads(told, <<m>>, then) /\ <<m>> \in Seq(ToAppMsgs)
      BY <3>1, LeadsOne, MirroredTyped
    <3>3. Leads(base, toApp', then)
      BY <1>1, <1>2, <2>1, <2>3, <3>2, SendHears
    <3>4. then.building = told.building /\ then.completed = told.completed \union {d}
      BY DEF MarkComplete, IndexStates
    <3> HIDE DEF then
    <3>5. Agrees(then)'
      BY <1>1, <1>3, <2>1, <2>2, <3>2, <3>4 DEF Agrees
    <3> QED
      BY <3>2, <3>3, <3>5
  <2>4. CASE ~subscribed
    <3>1. phase = "begun"
      BY <1>2, <2>4 DEF HostShape
    <3>2. Agrees(told)' /\ toApp' = toApp
      BY <1>1, <2>1, <2>4, <3>1 DEF Agrees, VolumeStep
    <3> QED
      BY <1>1, <3>2
  <2> QED
    BY <2>3, <2>4
<1> QED
  BY <1>4, <1>5, <1>6, <1>7 DEF HelperActs, VolumeNext

LEMMA ProcessKeepsShape ==
    ASSUME Typed, HostShape,
           \/ HelperActs(HelperCrash) \/ HelperActs(SelfCheckFails) \/ HelperStartsItself
           \/ \E h \in Nat \ {0} : \E v : StartProcess(h, v) /\ helperEnd' = helperEnd
    PROVE  HostShape'
<1>1. CASE HelperCrash
  <2>1. ~helperEnd'
    BY <1>1 DEF HelperCrash, HelperHangUp, wireVars, HostShape
  <2> QED
    BY <1>1, <2>1 DEF HelperCrash, ProcessGone, HostShape, InSession, Finished
<1>2. CASE SelfCheckFails
  BY <1>2 DEF SelfCheckFails, wireVars, HostShape, InSession
<1>3. ASSUME NEW h \in Nat \ {0}, NEW v, StartProcess(h, v), helperEnd' = helperEnd
      PROVE  HostShape'
  BY <1>3 DEF StartProcess, HostShape, InSession, Finished
<1>4. CASE HelperStartsItself
  <2>1. processes' \in Nat \ {0}
    BY <1>4, SessionAssumption DEF HelperStartsItself, Typed, TypeOK
  <2> QED
    BY <1>3, <1>4, <2>1 DEF HelperStartsItself, wireVars
<1> QED
  BY <1>1, <1>2, <1>3, <1>4 DEF HelperActs

--------------------------------------------------------------------------------
(* The mirror. *)

\* Where a worker holds a connection, and where it has not read from one yet.
Holding == {"storing", "greeting", "reading", "relaying"}
Unheard == {"creating", "attaching", "listening", "storing", "probing", "prompting", "arriving",
            "awaiting", "greeting"}

\* Who holds a connection has taken the newest, so nobody waits for one.
Taken == \A w \in Workers : at[w] \in Holding => listening = "connected" /\ talking[w] = conn
\* A mirror that was empty as the session was begun is empty until that session's first message.
EmptyUntilHeard == fresh => \A w \in Workers : at[w] \in Unheard => mirror = Cleared
\* The pipe holds what an empty mirror needs, from the moment it is opened until it is read from;
\* and then what the mirror still needs.
OpenedWhole == appEnd /\ helperEnd /\ (listening = "signalled" \/ \E w \in Workers : at[w] \in {"storing", "greeting"})
                  => Hearing(Cleared)
ReadsOn == appEnd /\ helperEnd /\ fresh /\ (\E w \in Workers : at[w] \in {"reading", "relaying"})
                  => Hearing(mirror)

MirrorInv == Typed /\ ClaimInv /\ HostShape /\ Taken /\ EmptyUntilHeard /\ OpenedWhole /\ ReadsOn

LEMMA ClearedTyped == Cleared \in IndexStates
  BY DEF Cleared, IndexStates

\* The helper's side of the pipe has done nothing.
LEMMA HearsSame ==
    ASSUME HostShape, Typed, UNCHANGED helperVars, helperEnd' = helperEnd
    PROVE  /\ HostShape'
           /\ \A told : Agrees(told)' <=> Agrees(told)
  BY DEF helperVars, HostShape, Agrees

\* A worker's own step, but for those that read a message: the pipe holds no other messages, and
\* the worker comes to hold a connection only by taking the one that was waiting.
LEMMA WorkerStepMirrors ==
    ASSUME MirrorInv, OneCaller, NEW w \in Workers, NEW from \in Places, NEW to \in Places,
           Active(w), at[w] = from, at' = [at EXCEPT ![w] = to],
           UNCHANGED <<helperVars, helperEnd, toApp, fresh>>,
           appEnd' => appEnd /\ (listening' = "signalled" => listening = "signalled"),
           to \in Holding => \/ from \in Holding /\ talking' = talking /\ UNCHANGED <<conn, listening>>
                             \/ listening = "signalled" /\ to = "storing"
                                /\ conn' = conn /\ listening' = "connected" /\ talking'[w] = conn,
           to \in {"storing", "greeting"} => from \in {"storing", "greeting"} \/ listening = "signalled",
           to \in {"reading", "relaying"} => from \in {"greeting", "reading", "relaying"},
           to \in Unheard => from \in Unheard,
           mirror' = mirror \/ (mirror' = Cleared /\ to \notin Holding)
    PROVE  HostShape' /\ Taken' /\ EmptyUntilHeard' /\ OpenedWhole' /\ ReadsOn'
<1>0. at \in [Workers -> Places]
  BY DEF MirrorInv, Typed, TypeOK, ClientTypeOK, WorkerTypeOK
<1>1. \A v \in Workers : v # w => at'[v] \in {"unborn", "done"}
  BY <1>0, OneAtWork DEF MirrorInv, ClaimInv, Active
<1>2. at'[w] = to
  BY <1>0
<1>3. HostShape' /\ \A told : Agrees(told)' <=> Agrees(told)
  BY HearsSame DEF MirrorInv
<1>4. Taken'
  BY <1>1, <1>2 DEF MirrorInv, Taken, Holding
<1>5. EmptyUntilHeard'
  BY <1>1, <1>2 DEF MirrorInv, EmptyUntilHeard, Unheard
<1>6. OpenedWhole'
  <2>1. appEnd' /\ helperEnd' /\ (listening' = "signalled" \/ \E v \in Workers : at'[v] \in {"storing", "greeting"})
           => Hearing(Cleared)
    BY <1>1, <1>2 DEF MirrorInv, OpenedWhole
  <2> QED
    BY <1>3, <2>1 DEF OpenedWhole, Hearing, Cleared
<1>7. ReadsOn'
  <2> SUFFICES ASSUME appEnd', helperEnd', fresh', to \in {"reading", "relaying"}
               PROVE  Hearing(mirror) /\ mirror' = mirror
    BY <1>1, <1>2, <1>3 DEF ReadsOn, Hearing
  <2>1. CASE from = "greeting"
    BY <2>1 DEF MirrorInv, OpenedWhole, EmptyUntilHeard, Unheard, Holding
  <2>2. CASE from \in {"reading", "relaying"}
    BY <2>2 DEF MirrorInv, ReadsOn, Holding
  <2> QED
    BY <2>1, <2>2
<1> QED
  BY <1>3, <1>4, <1>5, <1>6, <1>7

\* A worker takes one message from the pipe.
LEMMA ReadMirrors ==
    ASSUME MirrorInv, OneCaller, NEW w \in Workers, NEW to \in Places \ Unheard,
           HasMessage(w), Consume, at[w] = "reading", at' = [at EXCEPT ![w] = to],
           UNCHANGED <<helperVars, talking, fresh>>,
           to \in {"reading", "relaying"} => mirror' = Mirrored(mirror, Head(toApp))
    PROVE  HostShape' /\ Taken' /\ EmptyUntilHeard' /\ OpenedWhole' /\ ReadsOn'
<1>0. at \in [Workers -> Places] /\ Active(w)
  BY DEF MirrorInv, Typed, TypeOK, ClientTypeOK, WorkerTypeOK, Active
<1>1. \A v \in Workers : v # w => at'[v] \in {"unborn", "done"}
  BY <1>0, OneAtWork DEF MirrorInv, ClaimInv, Active
<1>2. at'[w] = to /\ to \notin {"storing", "greeting"} /\ listening = "connected"
  BY <1>0 DEF Unheard, MirrorInv, Taken, Holding
<1>3. UNCHANGED <<conn, listening, appEnd, helperEnd>>
  BY DEF Consume
<1>4. HostShape' /\ \A told : Agrees(told)' <=> Agrees(told)
  BY <1>3, HearsSame DEF MirrorInv
<1>5. Taken' /\ EmptyUntilHeard' /\ OpenedWhole'
  BY <1>1, <1>2, <1>3 DEF MirrorInv, Taken, Holding, EmptyUntilHeard, Unheard, OpenedWhole
<1>6. ReadsOn'
  <2> SUFFICES ASSUME appEnd', helperEnd', fresh', to \in {"reading", "relaying"}
               PROVE  \E told \in IndexStates : Leads(mirror', toApp', told) /\ Agrees(told)
    BY <1>1, <1>2, <1>4 DEF ReadsOn, Hearing
  <2>1. PICK told \in IndexStates : Leads(mirror, toApp, told) /\ Agrees(told)
    BY <1>3 DEF MirrorInv, ReadsOn, Hearing
  <2>2. toApp \in Seq(ToAppMsgs) /\ toApp # <<>> /\ toApp' = Tail(toApp)
    BY DEF MirrorInv, Typed, WireTypeOK, HasMessage, Consume
  <2>3. Leads(Mirrored(mirror, Head(toApp)), Tail(toApp), told)
    BY <2>1, <2>2, LeadsOn
  <2> QED
    BY <2>1, <2>2, <2>3
<1> QED
  BY <1>4, <1>5, <1>6

LEMMA WorkerMirrors ==
    ASSUME OneCaller, MirrorInv, NEW w \in Workers, WorkerActs(w)
    PROVE  HostShape' /\ Taken' /\ EmptyUntilHeard' /\ OpenedWhole' /\ ReadsOn'
<1>0. /\ {"unborn", "creating", "attaching", "listening", "storing", "probing", "prompting", "arriving",
          "awaiting", "greeting", "reading", "relaying", "ended", "exiting", "retiring", "done"} = Places
      /\ NextRead(w) \in {"reading", "ended"}
      /\ at \in [Workers -> Places] /\ 0..MaxConns \subseteq Nat
  BY WireAssumption DEF Places, NextRead, MirrorInv, Typed, TypeOK, ClientTypeOK, WorkerTypeOK
<1>1. CASE \/ ClientActs(TransportReady(w)) \/ ClientActs(TransportInUse(w))
           \/ ClientActs(NobodyAttached(w) /\ NobodyComing) \/ ClientActs(Probe(w, helper # 0))
           \/ ClientActs(LaunchRefused(w)) \/ ClientActs(NobodyArrived(w) /\ NobodyComing)
           \/ ClientActs(ReadEnd(w)) \/ ClientActs(ConverseEnds(w)) \/ ClientActs(ExitWaited(w))
  <2>1. /\ \E from \in Places \ {"unborn", "done", "storing"}, to \in Places \ Holding :
              /\ at[w] = from /\ at' = [at EXCEPT ![w] = to]
              /\ to \in Unheard => from \in Unheard
        /\ UNCHANGED <<helperVars, wireVars, talking, fresh>>
        /\ mirror' = mirror \/ mirror' = Cleared
    BY <1>0, <1>1 DEF ClientActs, TransportReady, TransportInUse, NobodyAttached, Probe, LaunchRefused,
                NobodyArrived, ReadEnd, ConverseEnds, ExitWaited, Go, Fail, Settle, NoNews, Unheard, Holding
  <2>2. UNCHANGED <<helperEnd, toApp, appEnd, conn, listening>>
    BY <2>1 DEF wireVars
  <2> QED
    BY <2>1, <2>2, WorkerStepMirrors DEF Active, Holding
<1>2. CASE ClientActs(AttachBegins(w)) \/ ClientActs(ArrivalBegins(w)) \/ ClientActs(WrongPeer(w))
  <2>1. /\ \E from \in {"attaching", "arriving", "awaiting"}, to \in {"listening", "awaiting", "retiring"} :
              at[w] = from /\ at' = [at EXCEPT ![w] = to]
        /\ UNCHANGED <<helperVars, helperEnd, toApp, fresh>>
        /\ appEnd' => appEnd /\ (listening' = "signalled" => listening = "signalled")
        /\ mirror' = mirror \/ mirror' = Cleared
    BY <1>2 DEF ClientActs, AttachBegins, ArrivalBegins, Accept, PostConnect, WrongPeer, RefuseConnection,
                HungUp, Go, Fail, NoNews, wireVars
  <2>2. PICK from \in {"attaching", "arriving", "awaiting"}, to \in {"listening", "awaiting", "retiring"} :
              at[w] = from /\ at' = [at EXCEPT ![w] = to]
    BY <2>1
  <2>3. from \in Places /\ to \in Places /\ Active(w) /\ to \notin Holding /\ from \in Unheard
    BY <1>0, <2>2 DEF Active, Holding, Unheard
  <2> QED
    BY <2>1, <2>2, <2>3, WorkerStepMirrors DEF Holding
<1>3. CASE ClientActs(Attached(w)) \/ ClientActs(Arrived(w))
  <2>1. /\ \E from \in {"listening", "awaiting"} : at[w] = from /\ at' = [at EXCEPT ![w] = "storing"]
        /\ UNCHANGED <<helperVars, helperEnd, appEnd, toApp, conn, mirror, fresh>>
        /\ listening = "signalled" /\ listening' = "connected"
        /\ talking' = [talking EXCEPT ![w] = conn]
    BY <1>3 DEF ClientActs, Attached, Arrived, Accepted, TakeConnection, Go, NoNews
  <2>2. talking'[w] = conn
    BY <2>1 DEF MirrorInv, Typed, TypeOK, ClientTypeOK, WorkerTypeOK
  <2>3. PICK from \in {"listening", "awaiting"} : at[w] = from
    BY <2>1
  <2>4. from \in Places /\ "storing" \in Places /\ Active(w) /\ from \in Unheard
    BY <1>0, <2>3 DEF Active, Unheard
  <2> QED
    BY <2>1, <2>2, <2>3, <2>4, WorkerStepMirrors
<1>4. CASE \/ ClientActs(StoreStream(w)) \/ ClientActs(Greet(w, Parked)) \/ ClientActs(RelayPolicy(w, Parked))
  <2>1. /\ \/ at[w] = "storing" /\ at' = [at EXCEPT ![w] = "greeting"]
           \/ at[w] \in {"greeting", "relaying"} /\ at' = [at EXCEPT ![w] = NextRead(w)]
        /\ UNCHANGED <<helperVars, helperEnd, appEnd, toApp, conn, listening, talking, mirror, fresh>>
    BY <1>4 DEF ClientActs, StoreStream, Greet, RelayPolicy, AppWrite, Go, NoNews, wireVars
  <2> QED
    BY <1>0, <2>1, WorkerStepMirrors DEF Active, Holding, Unheard
<1>5. CASE \/ ClientActs(ReadState(w)) \/ ClientActs(ReadHello(w, Parked))
           \/ ReadReady(w) /\ UNCHANGED <<helperVars, fresh>>
  <2>1. /\ HasMessage(w) /\ Consume /\ at[w] = "reading"
        /\ \E to \in Places \ Unheard :
              /\ at' = [at EXCEPT ![w] = to]
              /\ to \in {"reading", "relaying"}
                    => mirror' = Mirrored(mirror, Head(toApp)) \/ (mirror' = mirror /\ Head(toApp).verb \in {"Hello", "Ready"})
        /\ UNCHANGED <<helperVars, talking, fresh>>
    <3>1. {"reading", "ended", "relaying", "retiring"} \subseteq Places \ Unheard
      BY <1>0 DEF Unheard
    <3>2. CASE ClientActs(ReadState(w))
      BY <1>0, <3>1, <3>2 DEF ClientActs, ReadState, Go, Announce
    <3>3. CASE ClientActs(ReadHello(w, Parked))
      <4>1. /\ HasMessage(w) /\ Consume /\ at[w] = "reading" /\ UNCHANGED <<helperVars, talking, fresh>>
            /\ \/ at' = [at EXCEPT ![w] = NextRead(w)] /\ mirror' = mirror /\ Head(toApp) = Msg("Hello", AppVersion)
               \/ at' = [at EXCEPT ![w] = "retiring"]
        BY <3>3 DEF ClientActs, ReadHello, Go, NoNews
      <4>2. Msg("Hello", AppVersion).verb = "Hello"
        BY DEF Msg
      <4> QED
        BY <1>0, <3>1, <4>1, <4>2
    <3>4. CASE ReadReady(w) /\ UNCHANGED <<helperVars, fresh>>
      BY <1>0, <3>1, <3>4 DEF ReadReady, Go, NoNews
    <3> QED
      BY <1>5, <3>2, <3>3, <3>4
  <2>2. Head(toApp).verb \in {"Hello", "Ready"} => Mirrored(mirror, Head(toApp)) = mirror
    BY DEF Mirrored
  <2> QED
    BY <2>1, <2>2, ReadMirrors
<1>6. CASE PromptAccepted(w)
  <2>1. /\ at[w] = "prompting" /\ at' = [at EXCEPT ![w] = "arriving"]
        /\ UNCHANGED <<wireVars, mirror, fresh>>
    BY <1>6 DEF PromptAccepted, LaunchStarted, Go, NoNews
  <2>2. UNCHANGED <<helperEnd, toApp, appEnd, conn, listening>>
    BY <2>1 DEF wireVars
  <2>3. CASE UNCHANGED helperVars
    BY <1>0, <2>1, <2>2, <2>3, WorkerStepMirrors DEF Active, Holding, Unheard
  <2>4. CASE StartProcess(processes', AppVersion)
    <3>1. processes' \in Nat \ {0} /\ ~helperEnd'
      BY <1>6, <2>2, <2>4, SessionAssumption
         DEF PromptAccepted, MirrorInv, Typed, TypeOK, StartProcess, HostShape, InSession
    <3>2. HostShape'
      BY <2>2, <2>4, <3>1, ProcessKeepsShape DEF MirrorInv
    <3>3. \A v \in Workers : v # w => at'[v] \in {"unborn", "done"}
      BY <1>0, <2>1, OneAtWork DEF MirrorInv, ClaimInv, Active
    <3>4. at'[w] = "arriving"
      BY <1>0, <2>1
    <3>5. Taken' /\ EmptyUntilHeard'
      BY <2>1, <3>3, <3>4 DEF MirrorInv, Taken, Holding, EmptyUntilHeard, Unheard
    <3> QED
      BY <3>1, <3>2, <3>5 DEF OpenedWhole, ReadsOn
  <2> QED
    BY <1>6, <2>3, <2>4 DEF PromptAccepted
<1>7. CASE ClientActs(Retire(w))
  <2>1. /\ at[w] = "retiring" /\ at' = [at EXCEPT ![w] = "done"]
        /\ UNCHANGED <<helperVars, wireVars, mirror, fresh>>
    BY <1>7 DEF ClientActs, Retire, NoNews
  <2>2. UNCHANGED <<helperEnd, toApp, appEnd, conn, listening>>
    BY <2>1 DEF wireVars
  <2> QED
    BY <1>0, <2>1, <2>2, WorkerStepMirrors DEF Active, Holding, Unheard
<1> QED
  BY <1>1, <1>2, <1>3, <1>4, <1>5, <1>6, <1>7 DEF WorkerActs

LEMMA CallMirrors ==
    ASSUME OneCaller, MirrorInv, NEW c \in Callers, CallContinues(c) \/ CallBegan(c)
    PROVE  HostShape' /\ Taken' /\ EmptyUntilHeard' /\ OpenedWhole' /\ ReadsOn'
<1>0. at \in [Workers -> Places] /\ Callers = {c}
  BY DEF MirrorInv, Typed, TypeOK, ClientTypeOK, WorkerTypeOK, OneCaller
<1>1. /\ UNCHANGED <<helperVars, helperEnd, toApp, conn, listening, talking>>
      /\ appEnd' => appEnd
  BY DEF CallContinues, CallBegan, ClientActs, Begins, StartFinishes, StopSends, StopFinishes, RetryFinishes,
         DisposeFinishes, EndTakes, EndCloses, EndWaited, PolicySends, StartAtLaunch, Start, Stop, Retry, Dispose,
         SetPolicy, SameWorkers, AppWrite, CloseStream, HungUp, wireVars
<1>2. HostShape' /\ \A told : Agrees(told)' <=> Agrees(told)
  BY <1>1, HearsSame DEF MirrorInv
<1>3. ASSUME UNCHANGED <<at, mirror, fresh>>
      PROVE  HostShape' /\ Taken' /\ EmptyUntilHeard' /\ OpenedWhole' /\ ReadsOn'
  <2>1. Taken' /\ EmptyUntilHeard'
    BY <1>1, <1>3 DEF MirrorInv, Taken, EmptyUntilHeard
  <2>2. OpenedWhole'
    BY <1>1, <1>2, <1>3 DEF MirrorInv, OpenedWhole, Hearing, Cleared
  <2>3. ReadsOn'
    BY <1>1, <1>2, <1>3 DEF MirrorInv, ReadsOn, Hearing
  <2> QED
    BY <1>2, <2>1, <2>2, <2>3
<1>4. ASSUME \A w \in Workers : ~Active(w), \A w \in Workers : at'[w] \in {"unborn", "done", "creating"},
             (\E w \in Workers : at'[w] = "creating") /\ fresh' => mirror' = Cleared
      PROVE  HostShape' /\ Taken' /\ EmptyUntilHeard' /\ OpenedWhole' /\ ReadsOn'
  <2>1. Taken' /\ EmptyUntilHeard' /\ ReadsOn'
    BY <1>4 DEF Taken, Holding, EmptyUntilHeard, Unheard, ReadsOn
  <2>2. OpenedWhole'
    BY <1>1, <1>2, <1>4 DEF MirrorInv, OpenedWhole, Hearing, Cleared
  <2> QED
    BY <1>2, <2>1, <2>2
<1>5. CASE Begins(StartFinishes(c)) \/ Begins(RetryFinishes(c)) \/ Begins(StartAtLaunch(c) /\ WorkerLeft)
  <2>1. /\ \E m \in Modes : StartWith(m)
        /\ mirror' = mirror
        /\ (worker' = worker => fresh' = fresh) /\ (worker' # worker /\ fresh' => mirror = Cleared)
        /\ ~Ending(c)
    <3>1. (\E m \in Modes : StartWith(m)) /\ mirror' = mirror /\ ~Ending(c)
      BY <1>5 DEF Begins, StartFinishes, RetryFinishes, StartAtLaunch, NoNews, Calling, Ending, Idle, Modes
    <3>2. fresh' = IF worker' = worker THEN fresh ELSE mirror = Cleared
      BY <1>5 DEF Begins
    <3>3. (worker' = worker => fresh' = fresh) /\ (worker' # worker /\ fresh' => mirror = Cleared)
      BY <3>2, Zenon
    <3> QED
      BY <3>1, <3>3
  <2>2. CASE disposed \/ worker # 0
    BY <1>3, <2>1, <2>2 DEF StartWith
  <2>3. CASE ~(disposed \/ worker # 0)
    <3>1. PICK w \in Workers : worker' = w /\ at' = [at EXCEPT ![w] = "creating"]
      BY <2>1, <2>3 DEF StartWith
    <3>2. \A v \in Workers : ~Active(v)
      BY <1>0, <2>1, <2>3 DEF MirrorInv, ClaimInv, ReachInv, WaitedFor, Workers
    <3>3. fresh' => mirror' = Cleared
      BY <2>1, <2>3, <3>1 DEF Workers
    <3>4. \A v \in Workers : at'[v] \in {"unborn", "done", "creating"}
      BY <1>0, <3>1, <3>2 DEF Active
    <3> QED
      BY <1>4, <3>2, <3>3, <3>4
  <2> QED
    BY <2>2, <2>3
<1>6. CASE ClientActs(StopFinishes(c))
  <2>1. Calling(c, "stop", "finish") /\ mirror' = Cleared /\ at' = at
    BY <1>6 DEF ClientActs, StopFinishes, Settle
  <2>2. \A w \in Workers : ~Active(w)
    BY <2>1 DEF MirrorInv, ClaimInv, StopOver
  <2> QED
    BY <1>4, <2>1, <2>2 DEF Active
<1>7. CASE ~Begins(StartFinishes(c)) /\ ~Begins(RetryFinishes(c)) /\ ~Begins(StartAtLaunch(c) /\ WorkerLeft)
           /\ ~ClientActs(StopFinishes(c))
  <2>1. UNCHANGED <<at, mirror, fresh>>
    BY <1>7 DEF CallContinues, CallBegan, ClientActs, StopSends, DisposeFinishes, EndTakes, EndCloses, EndWaited,
         PolicySends, Start, Stop, Retry, Dispose, SetPolicy, SameWorkers, NoNews
  <2> QED
    BY <1>3, <2>1
<1> QED
  BY <1>2, <1>5, <1>6, <1>7

LEMMA HelperMirrors ==
    ASSUME MirrorInv,
           \/ HelperActs(ServeNext) \/ (\E d \in Drives : HelperActs(VolumeNext(d)))
           \/ HelperActs(HelperCrash) \/ HelperActs(SelfCheckFails) \/ HelperStartsItself
    PROVE  HostShape' /\ Taken' /\ EmptyUntilHeard' /\ OpenedWhole' /\ ReadsOn'
<1>0. UNCHANGED <<at, talking, mirror, fresh>>
  BY DEF HelperActs, HelperStartsItself, clientVars, workerVars
<1>1. EmptyUntilHeard'
  BY <1>0 DEF MirrorInv, EmptyUntilHeard
<1>2. Cleared \in IndexStates /\ mirror \in IndexStates
  BY ClearedTyped DEF MirrorInv, Typed, TypeOK, ClientTypeOK, GateTypeOK
<1>3. ASSUME HostShape', UNCHANGED <<conn, listening, appEnd>>, appEnd /\ helperEnd' => helperEnd,
             \A base \in IndexStates : appEnd /\ helperEnd /\ helperEnd' /\ Hearing(base)
                => \E told \in IndexStates : Leads(base, toApp', told) /\ Agrees(told)'
      PROVE  HostShape' /\ Taken' /\ EmptyUntilHeard' /\ OpenedWhole' /\ ReadsOn'
  <2>1. Taken'
    BY <1>0, <1>3 DEF MirrorInv, Taken
  <2>2. OpenedWhole'
    <3>1. ASSUME appEnd', helperEnd', listening' = "signalled" \/ \E w \in Workers : at'[w] \in {"storing", "greeting"}
          PROVE  \E told \in IndexStates : Leads(Cleared, toApp', told) /\ Agrees(told)'
      BY <1>0, <1>2, <1>3, <3>1 DEF MirrorInv, OpenedWhole
    <3> QED
      BY <3>1 DEF OpenedWhole, Hearing, Cleared
  <2>3. ReadsOn'
    <3>1. ASSUME appEnd', helperEnd', fresh', \E w \in Workers : at'[w] \in {"reading", "relaying"}
          PROVE  \E told \in IndexStates : Leads(mirror, toApp', told) /\ Agrees(told)'
      BY <1>0, <1>2, <1>3, <3>1 DEF MirrorInv, ReadsOn
    <3> QED
      BY <1>0, <3>1 DEF ReadsOn, Hearing
  <2> QED
    BY <1>1, <1>3, <2>1, <2>2, <2>3
<1>4. CASE HelperActs(ServeNext) /\ ~HostConnect
  <2>1. UNCHANGED <<conn, listening, appEnd>> /\ (helperEnd' => helperEnd)
    BY <1>4 DEF HelperActs, ServeNext, HostSubscribe, HostGreet, HostReplayBuilding, HostListRoots,
                HostReplayRoot, HostReady, HostLifetimeOver, HostFill, HelperFill, HostRead, HostPeerGone,
                HelperExit, EndSession, HelperHangUp, wireVars
  <2>2. HostShape'
    BY <1>4, HostKeepsShape DEF MirrorInv
  <2>3. \A base \in IndexStates : appEnd /\ helperEnd /\ helperEnd' /\ Hearing(base)
                => \E told \in IndexStates : Leads(base, toApp', told) /\ Agrees(told)'
    BY <1>4, HostKeepsHearing DEF MirrorInv
  <2> QED
    BY <1>3, <2>1, <2>2, <2>3
<1>5. CASE HelperActs(ServeNext) /\ HostConnect
  <2>1. HostShape'
    BY <1>5, HostKeepsShape DEF MirrorInv
  <2>2. /\ listening = "pending" /\ phase' = "begun" /\ toApp' = <<>> /\ reported' = NobodyTold
        /\ service' = service
    BY <1>5 DEF HostConnect, HelperConnect
  <2>3. \A w \in Workers : at'[w] \notin Holding
    BY <1>0, <2>2 DEF MirrorInv, Taken
  <2>4. Taken' /\ ReadsOn'
    BY <2>3 DEF Taken, Holding, ReadsOn
  <2>5. Leads(Cleared, toApp', Cleared) /\ Agrees(Cleared)'
    <3>1. Leads(Cleared, toApp', Cleared)
      BY <1>2, <2>2, LeadsNone
    <3>2. Cleared.building = NobodyTold /\ Cleared.completed = {}
      BY DEF Cleared, NobodyTold
    <3> QED
      BY <2>2, <3>1, <3>2 DEF Agrees, Cleared, NobodyTold
  <2>6. OpenedWhole'
    BY <1>2, <2>5 DEF OpenedWhole, Hearing, Cleared
  <2> QED
    BY <1>1, <2>1, <2>4, <2>6
<1>6. ASSUME NEW d \in Drives, HelperActs(VolumeNext(d))
      PROVE  HostShape' /\ Taken' /\ EmptyUntilHeard' /\ OpenedWhole' /\ ReadsOn'
  <2>1. UNCHANGED <<conn, listening, appEnd, helperEnd>>
    BY <1>6 DEF HelperActs, VolumeNext, VolumeOpen, VolumeOpenFails, VolumeTellOpen, VolumeProgress,
                VolumeTellProgress, VolumeBuildFails, VolumeComplete, VolumeClear, VolumeTellIdle,
                VolumeTellRefreshed, VolumeTailEnds, VolumeEndClear, VolumeTellEnd, SetService, TellStatus, wireVars
  <2>2. HostShape'
    BY <1>6, VolumeKeepsShape DEF MirrorInv
  <2>3. \A base \in IndexStates : appEnd /\ helperEnd /\ helperEnd' /\ Hearing(base)
                => \E told \in IndexStates : Leads(base, toApp', told) /\ Agrees(told)'
    BY <1>6, VolumeKeepsHearing DEF MirrorInv
  <2> QED
    BY <1>3, <2>1, <2>2, <2>3
<1>7. CASE HelperActs(HelperCrash) \/ HelperStartsItself
  <2>1. HostShape'
    BY <1>7, ProcessKeepsShape DEF MirrorInv
  <2>2. UNCHANGED <<conn, listening, appEnd>> /\ ~helperEnd'
    BY <1>7 DEF HelperActs, HelperCrash, HelperHangUp, HelperStartsItself, StartProcess, MirrorInv, HostShape,
                InSession, wireVars
  <2> QED
    BY <1>3, <2>1, <2>2
<1>8. CASE HelperActs(SelfCheckFails)
  <2>1. HostShape'
    BY <1>8, ProcessKeepsShape DEF MirrorInv
  <2>2. UNCHANGED <<conn, listening, appEnd, helperEnd, toApp, reported, service, replaying, volume>>
        /\ (helperEnd => phase' = phase)
    BY <1>8 DEF HelperActs, SelfCheckFails, MirrorInv, HostShape, InSession, wireVars
  <2>3. helperEnd => \A told : Agrees(told)' <=> Agrees(told)
    BY <2>2 DEF Agrees
  <2> QED
    BY <1>3, <2>1, <2>2, <2>3 DEF Hearing
<1> QED
  BY <1>4, <1>5, <1>6, <1>7, <1>8

LEMMA NextMirrors ==
    ASSUME OneCaller, ~WaitMayExpire, MirrorInv, [Next]_vars
    PROVE  MirrorInv'
<1>1. Typed' /\ ClaimInv'
  BY NextTyped, NextClaims DEF MirrorInv
<1>2. CASE \E w \in Workers : WorkerActs(w)
  BY <1>1, <1>2, WorkerMirrors DEF MirrorInv
<1>3. CASE \E c \in Callers : CallContinues(c) \/ CallBegan(c)
  BY <1>1, <1>3, CallMirrors DEF MirrorInv
<1>4. CASE \/ HelperActs(ServeNext) \/ (\E d \in Drives : HelperActs(VolumeNext(d)))
           \/ HelperActs(HelperCrash) \/ HelperActs(SelfCheckFails) \/ HelperStartsItself
  BY <1>1, <1>4, HelperMirrors DEF MirrorInv
<1>5. CASE UNCHANGED vars
  <2>1. UNCHANGED <<helperVars, helperEnd, appEnd, toApp, conn, listening, talking, at, mirror, fresh>>
    BY <1>5 DEF vars, wireVars, clientVars, workerVars
  <2>2. HostShape' /\ \A told : Agrees(told)' <=> Agrees(told)
    BY <2>1, HearsSame DEF MirrorInv
  <2>3. Taken' /\ EmptyUntilHeard'
    BY <2>1 DEF MirrorInv, Taken, EmptyUntilHeard
  <2>4. OpenedWhole'
    BY <2>1, <2>2 DEF MirrorInv, OpenedWhole, Hearing, Cleared
  <2>5. ReadsOn'
    BY <2>1, <2>2 DEF MirrorInv, ReadsOn, Hearing
  <2> QED
    BY <1>1, <2>2, <2>3, <2>4, <2>5 DEF MirrorInv
<1> QED
  BY <1>2, <1>3, <1>4, <1>5 DEF Next

LEMMA InitMirrors == Init => MirrorInv
<1> SUFFICES ASSUME Init PROVE MirrorInv
  OBVIOUS
<1>1. Typed /\ ClaimInv
  BY InitTyped, InitClaims
<1>2. HostShape
  BY DEF Init, WireInit, HelperInit, NoProcess, HostShape, InSession, Finished
<1>3. Taken /\ EmptyUntilHeard /\ OpenedWhole /\ ReadsOn
  BY DEF Init, WireInit, ClientInit, Taken, Holding, EmptyUntilHeard, Unheard, OpenedWhole, ReadsOn
<1> QED
  BY <1>1, <1>2, <1>3 DEF MirrorInv

\* When a session that was begun with an empty mirror has gone quiet, the mirror is the helper's
\* state itself, field for field, whatever was building, finishing or being told as the session
\* began (host.rs: run, status_changed; service.rs: run_volume; client.rs: converse).
THEOREM TheMirrorAgrees ==
    ASSUME OneCaller, ~WaitMayExpire
    PROVE  Spec => []MirrorAgrees
<1>1. MirrorInv /\ [Next]_vars => MirrorInv'
  BY NextMirrors
<1>2. MirrorInv => MirrorAgrees
  <2> SUFFICES ASSUME MirrorInv, NEW w \in Workers, Quiet(w), Told, fresh
               PROVE  mirror = service
    BY DEF MirrorAgrees
  <2>1. at[w] = "reading" /\ appEnd /\ helperEnd /\ toApp = <<>> /\ phase = "reading"
    BY DEF Quiet, Conversing, Open
  <2>2. mirror \in IndexStates /\ service \in IndexStates /\ reported \in Buildings
    BY DEF MirrorInv, Typed, TypeOK, ClientTypeOK, GateTypeOK, HelperTypeOK, Buildings
  <2>3. Agrees(mirror)
    BY <2>1, <2>2, LeadsNone DEF MirrorInv, ReadsOn, Hearing
  <2>4. replaying = {} /\ \A d \in Drives : reported[d] = service.building[d] /\ volume[d] \notin Finished \ {"tailing"}
    BY <2>1 DEF MirrorInv, HostShape, Told, Untold, Finished
  <2>5. mirror.building = service.building
    BY <2>2, <2>3, <2>4 DEF Agrees, IndexStates, Buildings
  <2>6. mirror.completed = service.completed
    BY <2>1, <2>2, <2>3, <2>4 DEF Agrees, IndexStates
  <2> QED
    BY <2>2, <2>5, <2>6 DEF IndexStates
<1> QED
  BY InitMirrors, <1>1, <1>2, PTL DEF Spec

--------------------------------------------------------------------------------
(* The policy a helper records under. *)

\* What the app sent, and the helper has not handled yet, leaves it recording under one of F.
LeavesIn(q, r, F) ==
    /\ \A i \in DOMAIN q :
          q[i].verb = "Record" /\ (\A j \in DOMAIN q : q[j].verb = "Record" => j <= i) => q[i].arg \in F
    /\ (\A i \in DOMAIN q : q[i].verb # "Record") => r \in F

LEMMA LeavesOn ==
    ASSUME NEW q \in Seq(ToHelperMsgs), q # <<>>, NEW r, NEW F, LeavesIn(q, r, F)
    PROVE  LeavesIn(Tail(q), IF Head(q).verb = "Record" THEN Head(q).arg ELSE r, F)
<1> DEFINE t == Tail(q)
           rec == IF Head(q).verb = "Record" THEN Head(q).arg ELSE r
<1>1. /\ Len(q) \in Nat \ {0} /\ Len(t) = Len(q) - 1 /\ Head(q) = q[1]
      /\ DOMAIN q = 1..Len(q) /\ DOMAIN t = 1..(Len(q) - 1)
      /\ \A i \in 1..(Len(q) - 1) : t[i] = q[i + 1]
  OBVIOUS
<1> HIDE DEF t
<1>2. ASSUME NEW i \in DOMAIN t, t[i].verb = "Record", \A j \in DOMAIN t : t[j].verb = "Record" => j <= i
      PROVE  t[i].arg \in F
  <2>1. i + 1 \in DOMAIN q /\ t[i] = q[i + 1]
    BY <1>1
  <2>2. \A j \in DOMAIN q : q[j].verb = "Record" => j <= i + 1
    <3> SUFFICES ASSUME NEW j \in DOMAIN q, q[j].verb = "Record", j > 1 PROVE j <= i + 1
      BY <1>1
    <3>1. j - 1 \in DOMAIN t /\ t[j - 1] = q[j]
      BY <1>1
    <3> QED
      BY <1>1, <1>2, <3>1
  <2> QED
    BY <1>2, <2>1, <2>2 DEF LeavesIn
<1>3. ASSUME \A i \in DOMAIN t : t[i].verb # "Record" PROVE rec \in F
  <2>1. \A i \in DOMAIN q : q[i].verb = "Record" => i = 1
    <3> SUFFICES ASSUME NEW i \in DOMAIN q, q[i].verb = "Record", i > 1 PROVE FALSE
      BY <1>1
    <3>1. i - 1 \in DOMAIN t /\ t[i - 1] = q[i]
      BY <1>1
    <3> QED
      BY <1>3, <3>1
  <2> QED
    BY <1>1, <2>1 DEF LeavesIn
<1> QED
  BY <1>2, <1>3 DEF LeavesIn, t

\* A last word that is no policy changes nothing; one that is decides.
LEMMA LeavesThen ==
    ASSUME NEW q \in Seq(ToHelperMsgs), NEW m \in ToHelperMsgs, NEW r, NEW F,
           IF m.verb = "Record" THEN m.arg \in F ELSE LeavesIn(q, r, F)
    PROVE  LeavesIn(q \o <<m>>, r, F)
<1> DEFINE n == Len(q)
           s == q \o <<m>>
<1>1. /\ n \in Nat /\ DOMAIN q = 1..n /\ DOMAIN s = 1..(n + 1)
      /\ s[n + 1] = m /\ \A i \in 1..n : s[i] = q[i]
  OBVIOUS
<1> HIDE DEF s, n
<1>2. CASE m.verb = "Record"
  <2>1. n + 1 \in DOMAIN s /\ s[n + 1].verb = "Record" /\ s[n + 1].arg \in F
    BY <1>1, <1>2
  <2>2. \A i \in DOMAIN s : n + 1 <= i => i = n + 1
    BY <1>1
  <2> QED
    BY <2>1, <2>2 DEF LeavesIn, s
<1>3. CASE m.verb # "Record"
  <2>1. ASSUME NEW i \in DOMAIN s, s[i].verb = "Record", \A j \in DOMAIN s : s[j].verb = "Record" => j <= i
        PROVE  s[i].arg \in F
    <3>1. i \in DOMAIN q /\ s[i] = q[i]
      BY <1>1, <1>3, <2>1
    <3>2. \A j \in DOMAIN q : j \in DOMAIN s /\ s[j] = q[j]
      BY <1>1
    <3> QED
      BY <1>3, <2>1, <3>1, <3>2 DEF LeavesIn
  <2>2. (\A i \in DOMAIN s : s[i].verb # "Record") => \A i \in DOMAIN q : q[i].verb # "Record"
    BY <1>1
  <2> QED
    BY <1>3, <2>1, <2>2 DEF LeavesIn, s
<1> QED
  BY <1>2, <1>3

\* A write by the app comes after everything it wrote before, wherever that waits.
LEMMA WriteAppends ==
    ASSUME WireTypeOK, NEW s, NEW msgs \in Seq(ToHelperMsgs), NEW parked, Delivered(s, msgs, parked)
    PROVE  /\ inbox' \o toHelper' = inbox \o toHelper \/ inbox' \o toHelper' = (inbox \o toHelper) \o msgs
           /\ Open(s) => inbox' \o toHelper' = (inbox \o toHelper) \o msgs
<1>1. toHelper \in Seq(ToHelperMsgs) /\ inbox \in Seq(ToHelperMsgs)
  BY DEF WireTypeOK
<1>2. CASE ~Open(s)
  BY <1>2 DEF Delivered
<1>3. CASE Open(s) /\ parked /\ inbox = <<>> /\ toHelper = <<>>
  <2>1. inbox' = msgs /\ toHelper' = <<>>
    BY <1>3 DEF Delivered
  <2>2. (<<>> \o <<>>) \o msgs = msgs /\ msgs \o <<>> = msgs
    OBVIOUS
  <2> QED
    BY <1>3, <2>1, <2>2
<1>4. CASE Open(s) /\ ~(parked /\ inbox = <<>> /\ toHelper = <<>>)
  <2>1. inbox' = inbox /\ toHelper' = toHelper \o msgs
    BY <1>4 DEF Delivered
  <2>2. inbox \o (toHelper \o msgs) = (inbox \o toHelper) \o msgs
    BY <1>1
  <2> QED
    BY <2>1, <2>2
<1> QED
  BY <1>2, <1>3, <1>4

\* Who has seen Ready is at work, and past greeting.
StartedAtWork == \A w \in started : at[w] \in {"reading", "relaying", "ended", "exiting", "retiring"}
\* While one is, the policy the app has now has been in force since; so has any it is sending.
InForceNow == started # {} => changeLog \in inForce
SendsNow   == \A c \in Callers : Calling(c, "policy", "relay") => call[c].p = changeLog
RelaysNow  == \A w \in started : at[w] = "relaying" => relaying[w] \in inForce
\* And what the helper has still to handle leaves it recording under one of those.
LeftInForce == (\E w \in started : at[w] = "reading") /\ Open(conn)
                  => LeavesIn(inbox \o toHelper, recorded, inForce)

PolicyInv == StartedAtWork /\ InForceNow /\ SendsNow /\ RelaysNow /\ LeftInForce

LEMMA TwoAppended ==
    ASSUME NEW S, NEW q \in Seq(S), NEW a \in S, NEW b \in S
    PROVE  q \o <<a, b>> = (q \o <<a>>) \o <<b>> /\ q \o <<a>> \in Seq(S)
<1> DEFINE l == q \o <<a, b>>
           m == q \o <<a>>
           r == m \o <<b>>
           n == Len(q)
<1>1. n \in Nat /\ m \in Seq(S) /\ Len(m) = n + 1 /\ m[n + 1] = a /\ \A i \in 1..n : m[i] = q[i]
  OBVIOUS
<1>2. l \in Seq(S) /\ Len(l) = n + 2 /\ l[n + 1] = a /\ l[n + 2] = b /\ \A i \in 1..n : l[i] = q[i]
  OBVIOUS
<1> HIDE DEF m
<1>3. r \in Seq(S) /\ Len(r) = n + 2 /\ r[n + 2] = b /\ \A i \in 1..(n + 1) : r[i] = m[i]
  BY <1>1
<1> HIDE DEF r, l
<1>4. \A i \in 1..(n + 2) : l[i] = r[i]
  BY <1>1, <1>2, <1>3
<1>5. l = r
  BY <1>2, <1>3, <1>4
<1> QED
  BY <1>1, <1>5 DEF l, r, m

LEMMA OneStarted ==
    ASSUME OneCaller, MirrorInv, PolicyInv, NEW w \in Workers, Active(w)
    PROVE  started \subseteq {w}
<1>1. \A v \in started : v \in Workers /\ Active(v)
  BY DEF PolicyInv, StartedAtWork, Active, MirrorInv, Typed, TypeOK, ClientTypeOK, WorkerTypeOK
<1> QED
  BY <1>1, OneAtWork DEF MirrorInv, ClaimInv

LEMMA WorkerPolicy ==
    ASSUME OneCaller, MirrorInv, PolicyInv, NEW w \in Workers, WorkerActs(w)
    PROVE  PolicyInv'
<1>0. /\ at \in [Workers -> Places] /\ relaying \in [Workers -> Policies]
      /\ NextRead(w) \in {"reading", "ended"}
      /\ WireTypeOK /\ UNCHANGED <<changeLog, call>>
  <2>1. UNCHANGED <<changeLog, call>>
    BY DEF WorkerActs, ClientActs, TransportReady, TransportInUse, AttachBegins, Attached, Accept,
           Accepted, NobodyAttached, Probe, LaunchRefused, PromptAccepted, LaunchStarted,
           ArrivalBegins, Arrived, WrongPeer, NobodyArrived, StoreStream, Greet, ReadState,
           ReadHello, ReadReady, RelayPolicy, ReadEnd, ConverseEnds, ExitWaited, Retire, Go
  <2> QED
    BY <2>1 DEF MirrorInv, Typed, TypeOK, ClientTypeOK, WorkerTypeOK, NextRead
<1>1. SendsNow'
  BY <1>0 DEF PolicyInv, SendsNow, Calling
<1>2. ASSUME started' = {} PROVE PolicyInv'
  BY <1>1, <1>2 DEF PolicyInv, StartedAtWork, InForceNow, RelaysNow, LeftInForce
<1>3. ASSUME UNCHANGED <<inForce, started>>, Active(w), NEW to \in Places, at' = [at EXCEPT ![w] = to],
             to \in {"reading", "ended", "exiting", "retiring"},
             to = "reading" => \/ at[w] = "reading" /\ recorded' = recorded
                                  /\ UNCHANGED <<conn, appEnd, helperEnd, toHelper, inbox>>
                               \/ w \in started /\ Open(conn)' => LeavesIn(inbox' \o toHelper', recorded', inForce')
      PROVE  PolicyInv'
  <2>1. started' \subseteq {w} /\ at'[w] = to
    BY <1>0, <1>3, OneStarted
  <2>2. StartedAtWork' /\ InForceNow' /\ RelaysNow'
    BY <1>0, <1>3, <2>1 DEF PolicyInv, StartedAtWork, InForceNow, RelaysNow
  <2>3. LeftInForce'
    BY <1>3, <2>1 DEF PolicyInv, LeftInForce, Open
  <2> QED
    BY <1>1, <2>2, <2>3 DEF PolicyInv
<1>4. CASE at[w] \in {"creating", "attaching", "listening", "storing", "probing", "prompting", "arriving",
                      "awaiting", "greeting"}
  <2>1. started = {}
    BY <1>4, OneStarted DEF PolicyInv, StartedAtWork, Active
  <2>2. started' = started
    BY <1>4 DEF WorkerActs, ClientActs, TransportReady, TransportInUse, AttachBegins, Attached, Accept,
           Accepted, NobodyAttached, Probe, LaunchRefused, PromptAccepted, LaunchStarted,
           ArrivalBegins, Arrived, WrongPeer, NobodyArrived, StoreStream, Greet, ReadState,
           ReadHello, ReadReady, RelayPolicy, ReadEnd, ConverseEnds, ExitWaited, Retire, Go
  <2> QED
    BY <1>2, <2>1, <2>2
<1>5. CASE ClientActs(ConverseEnds(w)) \/ ClientActs(ExitWaited(w)) \/ ClientActs(ReadEnd(w))
  <2>1. /\ UNCHANGED <<inForce, started>> /\ Active(w)
        /\ \E to \in {"ended", "exiting", "retiring"} : at' = [at EXCEPT ![w] = to]
    BY <1>5 DEF ClientActs, ConverseEnds, ExitWaited, ReadEnd, Go, Active
  <2> QED
    BY <1>3, <2>1 DEF Places
<1>6. CASE ClientActs(Retire(w))
  <2>1. Active(w) /\ started' = started \ {w}
    BY <1>6 DEF ClientActs, Retire, Active
  <2> QED
    BY <1>2, <2>1, OneStarted
<1>7. CASE ClientActs(ReadState(w)) \/ ClientActs(ReadHello(w, Parked))
  <2>1. /\ UNCHANGED <<inForce, started, recorded, conn, appEnd, helperEnd>> /\ at[w] = "reading"
        /\ \/ at' = [at EXCEPT ![w] = NextRead(w)] /\ UNCHANGED <<toHelper, inbox>>
           \/ at' = [at EXCEPT ![w] = "retiring"]
    BY <1>7 DEF ClientActs, ReadState, ReadHello, Consume, Go, helperVars
  <2> QED
    BY <1>0, <1>3, <2>1 DEF Active, Places
<1>8. CASE ReadReady(w) /\ w \in started /\ inForce' = inForce /\ UNCHANGED helperVars
  <2>1. /\ UNCHANGED <<inForce, started, recorded, conn, appEnd, helperEnd, toHelper, inbox>> /\ at[w] = "reading"
        /\ at' = [at EXCEPT ![w] = NextRead(w)]
    BY <1>8 DEF ReadReady, Consume, Go, helperVars
  <2> QED
    BY <1>0, <1>3, <2>1 DEF Active, Places
<1>9. CASE ReadReady(w) /\ w \notin started /\ inForce' = {changeLog}
  <2>1. started' = {w} /\ at' = [at EXCEPT ![w] = "relaying"] /\ relaying' = [relaying EXCEPT ![w] = changeLog]
    BY <1>9, OneStarted DEF ReadReady, Go, Active
  <2>2. at'[w] = "relaying" /\ relaying'[w] = changeLog
    BY <1>0, <2>1
  <2>3. StartedAtWork' /\ InForceNow' /\ RelaysNow' /\ LeftInForce'
    BY <1>0, <1>9, <2>1, <2>2 DEF StartedAtWork, InForceNow, RelaysNow, LeftInForce
  <2> QED
    BY <1>1, <2>3 DEF PolicyInv
<1>10. CASE ClientActs(RelayPolicy(w, Parked))
  <2> DEFINE msgs == <<Msg("Start", 0), Msg("Record", relaying[w])>>
  <2>1. /\ UNCHANGED <<inForce, started, recorded, conn, appEnd, helperEnd>> /\ at[w] = "relaying"
        /\ at' = [at EXCEPT ![w] = NextRead(w)]
        /\ Delivered(talking[w], msgs, Parked)
    BY <1>10 DEF ClientActs, RelayPolicy, AppWrite, Go, helperVars
  <2>2. relaying[w] \in Policies /\ talking[w] = conn
    BY <1>0, <2>1 DEF MirrorInv, Taken, Holding
  <2>3. /\ Msg("Start", 0) \in ToHelperMsgs /\ Msg("Record", relaying[w]) \in ToHelperMsgs
        /\ Msg("Record", relaying[w]).verb = "Record" /\ Msg("Record", relaying[w]).arg = relaying[w]
    BY <2>2 DEF ToHelperMsgs, Msg
  <2>4. ASSUME w \in started, Open(conn)' PROVE LeavesIn(inbox' \o toHelper', recorded', inForce')
    <3> DEFINE q == inbox \o toHelper
               a == Msg("Start", 0)
               b == Msg("Record", relaying[w])
    <3>1. relaying[w] \in inForce /\ Open(conn)
      BY <2>1, <2>4 DEF PolicyInv, RelaysNow, Open
    <3>2. a \in ToHelperMsgs /\ b \in ToHelperMsgs /\ b.verb = "Record" /\ b.arg \in inForce
      BY <2>3, <3>1
    <3>3. q \in Seq(ToHelperMsgs)
      BY <1>0, JoinTyped DEF WireTypeOK
    <3> HIDE DEF a, b, q
    <3>4. msgs = <<a, b>> /\ <<a, b>> \in Seq(ToHelperMsgs)
      BY <3>2 DEF a, b
    <3>5. inbox' \o toHelper' = q \o <<a, b>>
      BY <1>0, <2>1, <2>2, <3>1, <3>4, WriteAppends DEF q
    <3>6. q \o <<a, b>> = (q \o <<a>>) \o <<b>> /\ q \o <<a>> \in Seq(ToHelperMsgs)
      BY <3>2, <3>3, TwoAppended
    <3>7. LeavesIn((q \o <<a>>) \o <<b>>, recorded, inForce)
      BY <3>2, <3>6, LeavesThen
    <3>8. inForce' = inForce /\ recorded' = recorded
      BY <2>1
    <3> QED
      BY <3>5, <3>6, <3>7, <3>8
  <2> QED
    BY <1>0, <1>3, <2>1, <2>4 DEF Active, Places
<1> QED
  BY <1>4, <1>5, <1>6, <1>7, <1>8, <1>9, <1>10
  DEF WorkerActs, ClientActs, TransportReady, TransportInUse, AttachBegins, Attached, Accept,
      Accepted, NobodyAttached, Probe, LaunchRefused, PromptAccepted, LaunchStarted,
      ArrivalBegins, Arrived, WrongPeer, NobodyArrived, StoreStream, Greet, Go

LEMMA CallPolicy ==
    ASSUME OneCaller, MirrorInv, PolicyInv, NEW c \in Callers, CallContinues(c) \/ CallBegan(c)
    PROVE  PolicyInv'
<1>0. /\ at \in [Workers -> Places] /\ Callers = {c} /\ call \in [Callers -> Calls] /\ WireTypeOK
      /\ started \subseteq Workers /\ inbox \o toHelper \in Seq(ToHelperMsgs)
  BY JoinTyped DEF MirrorInv, Typed, TypeOK, ClientTypeOK, WorkerTypeOK, OneCaller, WireTypeOK
<1>1. UNCHANGED <<started, relaying, recorded, conn, helperEnd>> /\ (appEnd' => appEnd)
  BY DEF CallContinues, CallBegan, ClientActs, Begins, StartFinishes, StopSends, StopFinishes, RetryFinishes,
         DisposeFinishes, EndTakes, EndCloses, EndWaited, PolicySends, StartAtLaunch, Start, Stop, Retry, Dispose,
         SetPolicy, SameWorkers, AppWrite, CloseStream, HungUp, wireVars, helperVars
<1>2. ASSUME \A w \in started : at'[w] = at[w], changeLog' \in inForce' \/ UNCHANGED <<changeLog, inForce>>,
             inForce \subseteq inForce', Calling(c, "policy", "relay")' => call'[c].p = changeLog',
             (\E w \in started : at[w] = "reading") /\ Open(conn)'
                => LeavesIn(inbox' \o toHelper', recorded, inForce')
      PROVE  PolicyInv'
  BY <1>0, <1>1, <1>2 DEF PolicyInv, StartedAtWork, InForceNow, SendsNow, RelaysNow, LeftInForce
<1>3. (\E w \in started : at[w] = "reading") /\ Open(conn)' => LeavesIn(inbox \o toHelper, recorded, inForce)
  BY <1>1 DEF PolicyInv, LeftInForce, Open
<1>4. \A w \in started : at'[w] = at[w]
  <2>1. ASSUME NEW m, StartWith(m) PROVE \A w \in started : at'[w] = at[w]
    BY <1>0, <2>1 DEF StartWith, PolicyInv, StartedAtWork
  <2>2. at' = at \/ \E m : StartWith(m)
    BY DEF CallContinues, CallBegan, ClientActs, Begins, StartFinishes, StopSends, StopFinishes, RetryFinishes,
         DisposeFinishes, EndTakes, EndCloses, EndWaited, PolicySends, StartAtLaunch, Start, Stop, Retry, Dispose,
         SetPolicy
  <2> QED
    BY <2>1, <2>2
<1>5. CASE ClientActs(StopSends(c, Parked)) \/ ClientActs(PolicySends(c, Parked))
  <2>1. \E m \in ToHelperMsgs :
           /\ Delivered(call[c].s, <<m>>, Parked)
           /\ m.verb = "Record" => Calling(c, "policy", "relay") /\ m.arg = call[c].p
    <3>1. Msg("Shutdown", 0) \in ToHelperMsgs /\ Msg("Shutdown", 0).verb # "Record"
          /\ Msg("Record", call[c].p) \in ToHelperMsgs /\ Msg("Record", call[c].p).arg = call[c].p
      BY <1>0 DEF ToHelperMsgs, Msg, Calls
    <3> QED
      BY <1>5, <3>1 DEF ClientActs, StopSends, PolicySends, AppWrite
  <2>2. PICK m \in ToHelperMsgs : /\ Delivered(call[c].s, <<m>>, Parked)
                                  /\ m.verb = "Record" => Calling(c, "policy", "relay") /\ m.arg = call[c].p
    BY <2>1
  <2>3. m.verb = "Record" /\ started # {} => m.arg \in inForce
    BY <2>2 DEF PolicyInv, SendsNow, InForceNow
  <2>4. (\E w \in started : at[w] = "reading") /\ Open(conn)' => LeavesIn(inbox' \o toHelper', recorded, inForce)
    <3> SUFFICES ASSUME NEW w \in started, at[w] = "reading", Open(conn)'
                 PROVE  LeavesIn(inbox' \o toHelper', recorded, inForce)
      OBVIOUS
    <3>1. LeavesIn(inbox \o toHelper, recorded, inForce)
      BY <1>3
    <3>2. LeavesIn((inbox \o toHelper) \o <<m>>, recorded, inForce)
      BY <1>0, <2>3, <3>1, LeavesThen
    <3>3. <<m>> \in Seq(ToHelperMsgs)
      OBVIOUS
    <3> QED
      BY <1>0, <2>2, <3>1, <3>2, <3>3, WriteAppends
  <2>5. UNCHANGED <<changeLog, inForce>> /\ ~Calling(c, "policy", "relay")'
    BY <1>0, <1>5 DEF ClientActs, StopSends, PolicySends, CallGoes, CallReturns, Calling, Calls, Idle
  <2> QED
    BY <1>2, <1>4, <2>4, <2>5
<1>6. CASE SetPolicy(c) /\ inForce' = inForce \union {changeLog'}
  <2>1. call'[c].p = changeLog' /\ UNCHANGED <<toHelper, inbox>>
    BY <1>0, <1>6 DEF SetPolicy, CallBegins, wireVars
  <2>2. inForce \subseteq inForce' /\ changeLog' \in inForce'
    BY <1>6
  <2>3. (\E w \in started : at[w] = "reading") /\ Open(conn)' => LeavesIn(inbox' \o toHelper', recorded, inForce')
    <3>1. LeavesIn(inbox \o toHelper, recorded, inForce) => LeavesIn(inbox \o toHelper, recorded, inForce')
      BY <2>2 DEF LeavesIn
    <3> QED
      BY <1>3, <2>1, <3>1
  <2> QED
    BY <1>2, <1>4, <2>1, <2>2, <2>3
<1>7. CASE /\ ~ClientActs(StopSends(c, Parked)) /\ ~ClientActs(PolicySends(c, Parked))
           /\ ~(SetPolicy(c) /\ inForce' = inForce \union {changeLog'})
  <2>1. UNCHANGED <<changeLog, inForce>>
    BY <1>7 DEF CallContinues, CallBegan, ClientActs, Begins, StartFinishes, StopFinishes, RetryFinishes,
         DisposeFinishes, EndTakes, EndCloses, EndWaited, StartAtLaunch, Start, Stop, Retry, Dispose
  <2>2. call' = call \/ ~Calling(c, "policy", "relay")'
    BY <1>0, <1>7 DEF CallContinues, CallBegan, ClientActs, Begins, StartFinishes, StopFinishes, RetryFinishes,
         DisposeFinishes, EndTakes, EndCloses, EndWaited, StartAtLaunch, Start, Stop, Retry, Dispose,
         CallGoes, CallReturns, CallBegins, Calling, Calls, Idle
  <2>3. Calling(c, "policy", "relay")' => call'[c].p = changeLog'
    BY <2>1, <2>2 DEF Calling, PolicyInv, SendsNow
  <2>4. Open(conn)' => UNCHANGED <<toHelper, inbox>>
    BY <1>7 DEF CallContinues, CallBegan, ClientActs, Begins, StartFinishes, StopFinishes, RetryFinishes,
         DisposeFinishes, EndTakes, EndCloses, EndWaited, StartAtLaunch, Start, Stop, Retry, Dispose,
         CloseStream, HungUp, Open, wireVars
  <2> QED
    BY <1>2, <1>3, <1>4, <2>1, <2>3, <2>4
<1> QED
  BY <1>5, <1>6, <1>7 DEF CallContinues, CallBegan

LEMMA HelperPolicy ==
    ASSUME MirrorInv, PolicyInv,
           \/ HelperActs(ServeNext) \/ (\E d \in Drives : HelperActs(VolumeNext(d)))
           \/ HelperActs(HelperCrash) \/ HelperActs(SelfCheckFails) \/ HelperStartsItself
    PROVE  PolicyInv'
<1>0. UNCHANGED <<at, started, changeLog, inForce, call, relaying>>
  BY DEF HelperActs, HelperStartsItself, clientVars, workerVars, gateVars
<1>1. ASSUME (\E w \in started : at[w] = "reading") /\ Open(conn)'
                => Open(conn) /\ \A F : LeavesIn(inbox \o toHelper, recorded, F)
                                          => LeavesIn(inbox' \o toHelper', recorded', F)
      PROVE  PolicyInv'
  <2>1. StartedAtWork' /\ InForceNow' /\ SendsNow' /\ RelaysNow'
    BY <1>0 DEF PolicyInv, StartedAtWork, InForceNow, SendsNow, RelaysNow, Calling
  <2>2. LeftInForce'
    BY <1>0, <1>1 DEF PolicyInv, LeftInForce
  <2> QED
    BY <2>1, <2>2 DEF PolicyInv
<1>2. CASE HelperActs(ServeNext)
  <2>1. CASE HostConnect
    <3>1. listening = "pending"
      BY <2>1 DEF HostConnect, HelperConnect
    <3>2. \A w \in started : at[w] # "reading"
      BY <3>1 DEF MirrorInv, Taken, Holding, Typed, TypeOK, ClientTypeOK, WorkerTypeOK
    <3> QED
      BY <1>1, <3>2
  <2>2. CASE HostLifetimeOver \/ HostPeerGone \/ HelperExit
    <3>1. ~helperEnd'
      BY <2>2 DEF HostLifetimeOver, HostPeerGone, HelperExit, EndSession, HelperHangUp, MirrorInv, HostShape,
                  InSession, wireVars
    <3> QED
      BY <1>1, <3>1 DEF Open
  <2>3. CASE \/ HostSubscribe \/ HostGreet \/ HostReplayBuilding \/ HostListRoots \/ HostReplayRoot \/ HostReady
    <3>1. UNCHANGED <<conn, appEnd, helperEnd, inbox, toHelper, recorded>>
      BY <2>3 DEF HostSubscribe, HostGreet, HostReplayBuilding, HostListRoots, HostReplayRoot, HostReady, wireVars
    <3> QED
      BY <1>1, <3>1 DEF Open
  <2>4. CASE HostFill
    <3>1. UNCHANGED <<conn, appEnd, helperEnd, recorded>> /\ inbox' = toHelper /\ toHelper' = <<>> /\ inbox = <<>>
      BY <2>4 DEF HostFill, HelperFill, helperVars
    <3>2. toHelper \in Seq(ToHelperMsgs)
      BY DEF MirrorInv, Typed, WireTypeOK
    <3>3. inbox' \o toHelper' = inbox \o toHelper
      BY <3>1, <3>2
    <3> QED
      BY <1>1, <3>1, <3>3 DEF Open
  <2>5. CASE HostRead
    <3>1. inbox \in Seq(ToHelperMsgs) /\ toHelper \in Seq(ToHelperMsgs) /\ inbox # <<>>
      BY <2>5 DEF MirrorInv, Typed, WireTypeOK, HostRead
    <3>2. recorded' = IF Head(inbox).verb = "Record" THEN Head(inbox).arg ELSE recorded
      BY <2>5 DEF HostRead
    <3>3. \/ ~helperEnd'
          \/ inbox' = Tail(inbox) /\ UNCHANGED <<toHelper, conn, appEnd, helperEnd>>
      BY <2>5 DEF HostRead, EndSession, HelperHangUp
    <3>4. /\ inbox \o toHelper \in Seq(ToHelperMsgs) /\ inbox \o toHelper # <<>>
          /\ Tail(inbox \o toHelper) = Tail(inbox) \o toHelper /\ Head(inbox \o toHelper) = Head(inbox)
      BY <3>1
    <3>5. \A F : LeavesIn(inbox \o toHelper, recorded, F) => LeavesIn(Tail(inbox) \o toHelper, recorded', F)
      BY <3>2, <3>4, LeavesOn
    <3> QED
      BY <1>1, <3>3, <3>5 DEF Open
  <2> QED
    BY <1>2, <2>1, <2>2, <2>3, <2>4, <2>5 DEF HelperActs, ServeNext
<1>3. CASE \E d \in Drives : HelperActs(VolumeNext(d))
  <2>1. UNCHANGED <<conn, appEnd, helperEnd, inbox, toHelper, recorded>>
    BY <1>3 DEF HelperActs, VolumeNext, VolumeOpen, VolumeOpenFails, VolumeTellOpen, VolumeProgress,
                VolumeTellProgress, VolumeBuildFails, VolumeComplete, VolumeClear, VolumeTellIdle,
                VolumeTellRefreshed, VolumeTailEnds, VolumeEndClear, VolumeTellEnd, VolumeStep, SetService,
                TellStatus, wireVars
  <2> QED
    BY <1>1, <2>1 DEF Open
<1>4. CASE HelperActs(HelperCrash)
  <2>1. ~helperEnd'
    BY <1>4 DEF HelperActs, HelperCrash, HelperHangUp, MirrorInv, HostShape, wireVars
  <2> QED
    BY <1>1, <2>1 DEF Open
<1>5. CASE HelperActs(SelfCheckFails) \/ HelperStartsItself
  <2>1. UNCHANGED <<conn, appEnd, helperEnd, inbox, toHelper, recorded>>
    BY <1>5 DEF HelperActs, SelfCheckFails, HelperStartsItself, StartProcess, wireVars
  <2> QED
    BY <1>1, <2>1 DEF Open
<1> QED
  BY <1>2, <1>3, <1>4, <1>5

\* When a session has gone quiet, the helper records under a policy the app has had in force since
\* that session was ready: what the app relayed as it read Ready, and each change it made since,
\* reach the helper in the order they were made (client.rs: converse, set_change_log; host.rs: run).
THEOREM ThePolicyIsThisSessions ==
    ASSUME OneCaller, ~WaitMayExpire
    PROVE  Spec => []PolicyOfThisSession
<1>1. Init => MirrorInv /\ PolicyInv
  <2>1. Init => PolicyInv
    BY DEF Init, ClientInit, PolicyInv, StartedAtWork, InForceNow, SendsNow, Calling, Idle, RelaysNow, LeftInForce
  <2> QED
    BY <2>1, InitMirrors
<1>2. (MirrorInv /\ PolicyInv) /\ [Next]_vars => (MirrorInv /\ PolicyInv)'
  <2> SUFFICES ASSUME MirrorInv, PolicyInv, [Next]_vars PROVE PolicyInv'
    BY NextMirrors
  <2>1. CASE \E w \in Workers : WorkerActs(w)
    BY <2>1, WorkerPolicy
  <2>2. CASE \E c \in Callers : CallContinues(c) \/ CallBegan(c)
    BY <2>2, CallPolicy
  <2>3. CASE \/ HelperActs(ServeNext) \/ (\E d \in Drives : HelperActs(VolumeNext(d)))
             \/ HelperActs(HelperCrash) \/ HelperActs(SelfCheckFails) \/ HelperStartsItself
    BY <2>3, HelperPolicy
  <2>4. CASE UNCHANGED vars
    BY <2>4 DEF vars, helperVars, wireVars, clientVars, gateVars, workerVars, PolicyInv, StartedAtWork, InForceNow,
                SendsNow, Calling, RelaysNow, LeftInForce, Open, LeavesIn
  <2> QED
    BY <2>1, <2>2, <2>3, <2>4 DEF Next
<1>3. MirrorInv /\ PolicyInv => PolicyOfThisSession
  <2> SUFFICES ASSUME PolicyInv, NEW w \in Workers, Quiet(w) PROVE recorded \in inForce
    BY DEF PolicyOfThisSession
  <2>1. w \in started /\ at[w] = "reading" /\ Open(conn) /\ toHelper = <<>> /\ inbox = <<>>
    BY DEF Quiet, Conversing
  <2>2. LeavesIn(<<>>, recorded, inForce)
    BY <2>1 DEF PolicyInv, LeftInForce
  <2> QED
    BY <2>2 DEF LeavesIn
<1> QED
  BY <1>1, <1>2, <1>3, PTL DEF Spec
================================================================================
