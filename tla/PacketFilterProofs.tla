-------------------------- MODULE PacketFilterProofs --------------------------
(***************************************************************************)
(* Proofs about the rules the agent loads and what they do to packets      *)
(* (PacketFilter), for any ports, addresses, settings and translations.    *)
(***************************************************************************)
EXTENDS MCRuleset, ExposureProofs, SequenceTheorems, FiniteSetTheorems, WellFoundedInduction,
        TLAPS

-----------------------------------------------------------------------------
(***************************************************************************)
(* Induction over the steps of a loop, and least elements.                 *)
(***************************************************************************)

\* A set of naturals has a least element.
LEMMA LeastOfNats ==
  ASSUME NEW T \in SUBSET Nat, T # {}
  PROVE  \E x \in T : \A y \in T : x <= y
<1>1. IsWellFoundedOn(OpToRel(<,Nat), Nat) BY NatLessThanWellFounded
<1>2. PICK x \in T : \A y \in T : ~ (<<y, x>> \in OpToRel(<,Nat)) BY <1>1, WFMin
<1>3. ASSUME NEW y \in T PROVE x <= y
  <2>1. ~(y < x) BY <1>2 DEF OpToRel
  <2> QED BY <2>1
<1> QED BY <1>3

\* So Min is one of them, and none is less.
LEMMA MinIsLeast ==
  ASSUME NEW T \in SUBSET Nat, T # {}
  PROVE  Min(T) \in T /\ \A y \in T : Min(T) <= y
<1>1. \E x \in T : \A y \in T : x <= y BY LeastOfNats
<1> QED BY <1>1 DEF Min

\* What holds before a loop and is kept by each of its steps holds after every step.
LEMMA LoopInduces ==
  ASSUME NEW N \in Nat, NEW f, NEW T, f[0] \in T[0],
         \A n \in 1..N : f[n-1] \in T[n-1] => f[n] \in T[n]
  PROVE  \A n \in 0..N : f[n] \in T[n]
<1> DEFINE Bad == {n \in 0..N : f[n] \notin T[n]}
<1> SUFFICES ASSUME Bad # {} PROVE FALSE OBVIOUS
<1>1. PICK x \in Bad : \A y \in Bad : x <= y
  <2>1. Bad \in SUBSET Nat OBVIOUS
  <2> HIDE DEF Bad
  <2> QED BY <2>1, LeastOfNats
<1>2. x \in 1..N /\ x - 1 \in 0..N OBVIOUS
<1>3. x - 1 \notin Bad BY <1>1, <1>2
<1> QED BY <1>2, <1>3

\* What a loop that starts with b and takes the steps G has gathered, step for step.
IsRun(f, N, G, b) == f = [n \in 0..N |-> IF n = 0 THEN b ELSE G[n][f[n-1]]]

\* A loop whose steps are defined for what it has gathered so far has a run.
LEMMA LoopRuns ==
  ASSUME NEW N \in Nat, NEW T, NEW G, NEW b \in T[0],
         \A n \in 1..N : \A x \in T[n-1] : G[n][x] \in T[n]
  PROVE  \E f : IsRun(f, N, G, b) /\ \A n \in 0..N : f[n] \in T[n]
<1> DEFINE Run(f, m) == /\ f = [n \in 0..m |-> IF n = 0 THEN b ELSE G[n][f[n-1]]]
                        /\ \A n \in 0..m : f[n] \in T[n]
           Runs == {m \in 0..N : \E f : Run(f, m)}
<1>1. 0 \in Runs
  <2> DEFINE f == [n \in 0..0 |-> b]
  <2>1. Run(f, 0) OBVIOUS
  <2> HIDE DEF f
  <2> QED BY <2>1
<1>2. ASSUME NEW m \in 1..N, m-1 \in Runs PROVE m \in Runs
  <2>1. PICK g : Run(g, m-1) BY <1>2
  <2> DEFINE f == [n \in 0..m |-> IF n = m THEN G[m][g[m-1]] ELSE g[n]]
  <2>2. g[m-1] \in T[m-1] BY <2>1
  <2>3. f[m] = G[m][f[m-1]] /\ f[m] \in T[m] BY <2>2
  <2>4. ASSUME NEW n \in 0..(m-1)
        PROVE  f[n] = (IF n = 0 THEN b ELSE G[n][f[n-1]]) /\ f[n] \in T[n]
    <3>1. f[n] = g[n] /\ (n # 0 => f[n-1] = g[n-1]) OBVIOUS
    <3>2. g[n] = (IF n = 0 THEN b ELSE G[n][g[n-1]]) /\ g[n] \in T[n] BY <2>1
    <3> QED BY <3>1, <3>2
  <2>5. f = [n \in 0..m |-> f[n]] OBVIOUS
  <2> HIDE DEF f
  <2>6. \A n \in 0..m : f[n] = (IF n = 0 THEN b ELSE G[n][f[n-1]]) /\ f[n] \in T[n]
    BY <2>3, <2>4
  <2>7. Run(f, m) BY <2>5, <2>6
  <2> QED BY <2>7
<1>3. N \in Runs
  <2> DEFINE i == [m \in 0..N |-> m]
             R == [m \in 0..N |-> Runs]
  <2>1. i[0] \in R[0] BY <1>1
  <2>2. \A m \in 1..N : i[m-1] \in R[m-1] => i[m] \in R[m]
    <3> HIDE DEF Runs
    <3> QED BY <1>2
  <2> HIDE DEF i, R
  <2>3. \A m \in 0..N : i[m] \in R[m] BY <2>1, <2>2, LoopInduces
  <2>4. N \in 0..N OBVIOUS
  <2>5. i[N] = N /\ R[N] = Runs
    <3> HIDE DEF Runs
    <3> QED BY <2>4 DEF i, R
  <2>6. i[N] \in R[N] BY <2>3, <2>4
  <2> HIDE DEF Runs
  <2> QED BY <2>5, <2>6
<1> QED BY <1>3 DEF IsRun

-----------------------------------------------------------------------------
(***************************************************************************)
(* The elements of the port sets.                                          *)
(***************************************************************************)

Spans == {r \in [lo : PortNumbers, hi : PortNumbers] : r.lo <= r.hi}
Ordered(s) == \A i, j \in DOMAIN s : i < j => s[i].lo <= s[j].lo
Apart(s) == \A i, j \in DOMAIN s : i < j => s[i].hi + 1 < s[j].lo

\* The ranges of s hold the ports of the first n of rs and no more.
Holds(s, rs, n) ==
  \A port \in PortNumbers : InSet(s, port) <=> \E i \in 1..n : Covers(rs[i], port)

\* Port numbers are natural numbers.
LEMMA PortsAreNats == PortNumbers \subseteq Nat /\ MaxPort \in Nat
BY PacketFilterOK DEF PortNumbers

\* And so are the ends of ranges.
LEMMA SpansAreNats ==
  /\ \A r \in Spans : r.lo \in Nat /\ r.hi \in Nat /\ r.lo <= r.hi
  /\ \A s \in Seq(Spans) : \A i \in DOMAIN s : s[i] \in Spans /\ s[i].lo \in Nat /\ s[i].hi \in Nat
<1>1. \A r \in Spans : r.lo \in Nat /\ r.hi \in Nat /\ r.lo <= r.hi BY PortsAreNats DEF Spans
<1>2. \A s \in Seq(Spans) : \A i \in DOMAIN s : s[i] \in Spans OBVIOUS
<1> QED BY <1>1, <1>2

\* What InsertAt does to each place of a sequence.
LEMMA InsertAtIs ==
  ASSUME NEW S, NEW s \in Seq(S), NEW k \in 0..Len(s), NEW e \in S
  PROVE  /\ InsertAt(s, k + 1, e) \in Seq(S)
         /\ Len(InsertAt(s, k + 1, e)) = Len(s) + 1
         /\ \A i \in 1..k : InsertAt(s, k + 1, e)[i] = s[i]
         /\ InsertAt(s, k + 1, e)[k + 1] = e
         /\ \A i \in (k+1)..Len(s) : InsertAt(s, k + 1, e)[i + 1] = s[i]
<1> DEFINE A == SubSeq(s, 1, k)
           B == SubSeq(s, k + 1, Len(s))
           t == A \o <<e>> \o B
<1>0. (k + 1) - 1 = k OBVIOUS
<1>1. InsertAt(s, k + 1, e) = t BY <1>0 DEF InsertAt
<1>2. A \in Seq(S) /\ Len(A) = k /\ \A i \in 1..k : A[i] = s[i] OBVIOUS
<1>3. /\ B \in Seq(S) /\ Len(B) = Len(s) - k
      /\ \A i \in 1..(Len(s) - k) : B[i] = s[k + i]
  OBVIOUS
<1> HIDE DEF A, B
<1>4. A \o <<e>> \in Seq(S) /\ Len(A \o <<e>>) = k + 1 BY <1>2
<1>5. (\A i \in 1..k : (A \o <<e>>)[i] = s[i]) /\ (A \o <<e>>)[k + 1] = e BY <1>2
<1> DEFINE C == A \o <<e>>
<1>6. C \in Seq(S) /\ Len(C) = k + 1 /\ (\A i \in 1..k : C[i] = s[i]) /\ C[k + 1] = e
  BY <1>4, <1>5
<1>7. t = C \o B OBVIOUS
<1> HIDE DEF C, t
<1>11. t \in Seq(S) BY <1>3, <1>6, <1>7
<1>8. Len(t) = Len(s) + 1
  <2>1. Len(C \o B) = Len(C) + Len(B) BY <1>3, <1>6, ConcatProperties, Zenon
  <2>2. Len(t) = (k + 1) + (Len(s) - k) BY <2>1, <1>3, <1>6, <1>7
  <2> QED BY <2>2
<1>9. (\A i \in 1..k : t[i] = s[i]) /\ t[k + 1] = e BY <1>3, <1>6, <1>7
<1>10. ASSUME NEW i \in (k+1)..Len(s) PROVE t[i + 1] = s[i]
  <2>1. i - k \in 1..(Len(s) - k) /\ k + (i - k) = i /\ (k + 1) + (i - k) = i + 1 OBVIOUS
  <2>2. B[i - k] = s[i] BY <2>1, <1>3
  <2> QED BY <2>1, <2>2, <1>3, <1>6, <1>7
<1> HIDE DEF t
<1> QED BY <1>1, <1>8, <1>9, <1>10, <1>11

\* What RemoveAt leaves was there before.
LEMMA RemoveAtIs ==
  ASSUME NEW S, NEW s \in Seq(S), NEW k \in DOMAIN s
  PROVE  /\ RemoveAt(s, k) \in Seq(S) /\ Len(RemoveAt(s, k)) = Len(s) - 1
         /\ \A i \in DOMAIN RemoveAt(s, k) : \E j \in DOMAIN s : RemoveAt(s, k)[i] = s[j]
<1> DEFINE A == SubSeq(s, 1, k - 1)
           B == SubSeq(s, k + 1, Len(s))
<1>1. RemoveAt(s, k) = A \o B BY DEF RemoveAt
<1>2. A \in Seq(S) /\ \A i \in DOMAIN A : \E j \in DOMAIN s : A[i] = s[j] OBVIOUS
<1>3. B \in Seq(S) /\ \A i \in DOMAIN B : \E j \in DOMAIN s : B[i] = s[j]
  <2>1. CASE k = Len(s)
    <3>1. B = <<>> BY <2>1
    <3> QED BY <3>1
  <2>2. CASE k < Len(s)
    <3>1. /\ B \in Seq(S) /\ Len(B) = Len(s) - k
          /\ \A i \in 1..(Len(s) - k) : B[i] = s[k + i]
      BY <2>2
    <3> QED BY <3>1
  <2>3. k = Len(s) \/ k < Len(s) OBVIOUS
  <2> QED BY <2>1, <2>2, <2>3
<1>6. Len(A) = k - 1 /\ Len(B) = Len(s) - k
  <2>1. k \in 1..Len(s) /\ Len(s) \in Nat OBVIOUS
  <2>2. CASE k = Len(s) BY <2>1, <2>2
  <2>3. CASE k < Len(s) BY <2>1, <2>3
  <2> QED BY <2>1, <2>2, <2>3
<1> HIDE DEF A, B
<1>4. A \o B \in Seq(S) /\ Len(A \o B) = Len(s) - 1
  <2>1. Len(A \o B) = Len(A) + Len(B) BY <1>2, <1>3
  <2>2. k \in Nat /\ Len(s) \in Nat OBVIOUS
  <2> QED BY <1>2, <1>3, <1>6, <2>1, <2>2
<1>5. ASSUME NEW i \in DOMAIN (A \o B) PROVE \E j \in DOMAIN s : (A \o B)[i] = s[j]
  <2>1. CASE i <= Len(A)
    <3>1. i \in DOMAIN A /\ (A \o B)[i] = A[i] BY <2>1, <1>2, <1>3
    <3> QED BY <3>1, <1>2
  <2>2. CASE Len(A) < i
    <3>1. i - Len(A) \in DOMAIN B /\ (A \o B)[i] = B[i - Len(A)] BY <2>2, <1>2, <1>3
    <3> QED BY <3>1, <1>3
  <2> QED BY <2>1, <2>2, <1>2, <1>3
<1> QED BY <1>1, <1>4, <1>5

\* In an ordered sequence there is a place for every range.
LEMMA PlaceExists ==
  ASSUME NEW s \in Seq(Spans), Ordered(s), NEW p \in Spans
  PROVE  \E k \in 0..Len(s) : \A i \in DOMAIN s : i <= k <=> s[i].lo <= p.lo
<1> DEFINE A == {k \in 0..Len(s) : k = Len(s) \/ p.lo < s[k+1].lo}
<1>1. A \in SUBSET Nat /\ Len(s) \in A OBVIOUS
<1>2. PICK k \in A : \A j \in A : k <= j
  <2> HIDE DEF A
  <2> QED BY <1>1, LeastOfNats
<1>3. p.lo \in Nat /\ \A i \in DOMAIN s : s[i].lo \in Nat BY SpansAreNats
<1>4. ASSUME NEW i \in DOMAIN s, i <= k PROVE s[i].lo <= p.lo
  <2>1. i - 1 \in 0..Len(s) /\ i - 1 # Len(s) /\ i - 1 \notin A BY <1>2, <1>4
  <2> QED BY <2>1, <1>3
<1>5. ASSUME NEW i \in DOMAIN s, ~(i <= k) PROVE ~(s[i].lo <= p.lo)
  <2>1. k + 1 \in DOMAIN s /\ p.lo < s[k+1].lo /\ k + 1 <= i BY <1>5
  <2>2. s[k+1].lo <= s[i].lo BY <2>1, <1>3 DEF Ordered
  <2> QED BY <2>1, <2>2, <1>3
<1> QED BY <1>4, <1>5

\* Insert keeps the order and adds the ports of the range.
LEMMA InsertKeeps ==
  ASSUME NEW s \in Seq(Spans), Ordered(s), NEW p \in Spans
  PROVE  /\ Insert(s, p) \in Seq(Spans) /\ Len(Insert(s, p)) = Len(s) + 1
         /\ Ordered(Insert(s, p))
         /\ \A port : InSet(Insert(s, p), port) <=> InSet(s, port) \/ Covers(p, port)
<1> DEFINE P(j) == \A i \in DOMAIN s : i <= j <=> s[i].lo <= p.lo
<1>1. PICK k \in 0..Len(s) : P(k) /\ Insert(s, p) = InsertAt(s, k + 1, p)
  <2> DEFINE j == CHOOSE j \in 0..Len(s) : P(j)
  <2>1. Insert(s, p) = InsertAt(s, j + 1, p) BY DEF Insert
  <2>2. \E i \in 0..Len(s) : P(i) BY PlaceExists
  <2> HIDE DEF P
  <2>3. j \in 0..Len(s) /\ P(j) BY <2>2
  <2> HIDE DEF j
  <2> QED BY <2>1, <2>3
<1> DEFINE t == Insert(s, p)
<1>2. k \in 0..Len(s) /\ P(k) BY <1>1
<1>3. /\ t \in Seq(Spans) /\ Len(t) = Len(s) + 1
      /\ \A i \in 1..k : t[i] = s[i]
      /\ t[k + 1] = p
      /\ \A i \in (k+1)..Len(s) : t[i + 1] = s[i]
  <2> DEFINE u == InsertAt(s, k + 1, p)
  <2>1. /\ u \in Seq(Spans) /\ Len(u) = Len(s) + 1
        /\ \A i \in 1..k : u[i] = s[i]
        /\ u[k + 1] = p
        /\ \A i \in (k+1)..Len(s) : u[i + 1] = s[i]
    <3>1. u \in Seq(Spans) BY InsertAtIs
    <3>4. Len(u) = Len(s) + 1 BY InsertAtIs
    <3>5. u[k + 1] = p BY InsertAtIs
    <3>2. ASSUME NEW i \in 1..k PROVE u[i] = s[i] BY InsertAtIs
    <3>3. ASSUME NEW i \in (k+1)..Len(s) PROVE u[i + 1] = s[i] BY InsertAtIs
    <3> QED BY <3>1, <3>2, <3>3, <3>4, <3>5
  <2>2. t = u BY <1>1
  <2> HIDE DEF u, t
  <2> QED BY <2>1, <2>2
<1> HIDE DEF t
<1>4. p.lo \in Nat /\ \A i \in DOMAIN s : s[i].lo \in Nat BY SpansAreNats
<1>5. Ordered(t)
  <2> SUFFICES ASSUME NEW i \in DOMAIN t, NEW j \in DOMAIN t, i < j PROVE t[i].lo <= t[j].lo
    BY DEF Ordered
  <2>1. CASE j <= k
    <3>1. i \in 1..k /\ j \in 1..k /\ i \in DOMAIN s /\ j \in DOMAIN s BY <1>2, <1>3, <2>1
    <3> QED BY <3>1, <1>3 DEF Ordered
  <2>2. CASE j = k + 1
    <3>1. i \in 1..k /\ i \in DOMAIN s BY <1>2, <1>3, <2>2
    <3> QED BY <3>1, <2>2, <1>2, <1>3
  <2>3. CASE k + 1 < j
    <3>1. j - 1 \in (k+1)..Len(s) /\ j - 1 \in DOMAIN s /\ ~(j - 1 <= k) BY <1>2, <1>3, <2>3
    <3>2. t[j] = s[j-1] BY <3>1, <1>3
    <3>3. CASE i <= k
      <4>1. i \in 1..k /\ i \in DOMAIN s /\ i < j - 1 BY <1>2, <1>3, <3>3, <2>3
      <4> QED BY <4>1, <3>1, <3>2, <1>3 DEF Ordered
    <3>4. CASE i = k + 1
      <4>1. p.lo < s[j-1].lo BY <3>1, <1>2, <1>4
      <4> QED BY <4>1, <3>2, <3>4, <1>3, <1>4
    <3>5. CASE k + 1 < i
      <4>1. i - 1 \in (k+1)..Len(s) /\ i - 1 \in DOMAIN s /\ i - 1 < j - 1 BY <1>2, <1>3, <3>5
      <4>2. t[i] = s[i-1] BY <4>1, <1>3
      <4> QED BY <4>1, <4>2, <3>1, <3>2 DEF Ordered
    <3> QED BY <3>3, <3>4, <3>5, <1>2, <1>3
  <2> QED BY <2>1, <2>2, <2>3, <1>2, <1>3
<1>6. ASSUME NEW port PROVE InSet(t, port) <=> InSet(s, port) \/ Covers(p, port)
  <2>1. ASSUME NEW i \in DOMAIN t PROVE t[i] = p \/ \E j \in DOMAIN s : t[i] = s[j]
    <3>1. CASE i <= k BY <3>1, <1>2, <1>3
    <3>2. CASE i = k + 1 BY <3>2, <1>3
    <3>3. CASE k + 1 < i
      <4>1. i - 1 \in (k+1)..Len(s) /\ i - 1 \in DOMAIN s BY <1>2, <1>3, <3>3
      <4> QED BY <4>1, <1>3
    <3> QED BY <3>1, <3>2, <3>3, <1>2, <1>3
  <2>2. ASSUME NEW j \in DOMAIN s PROVE \E i \in DOMAIN t : t[i] = s[j]
    <3>1. CASE j <= k BY <3>1, <1>2, <1>3
    <3>2. CASE k < j
      <4>1. j \in (k+1)..Len(s) /\ j + 1 \in DOMAIN t BY <1>2, <1>3, <3>2
      <4> QED BY <4>1, <1>3
    <3> QED BY <3>1, <3>2, <1>2
  <2>3. k + 1 \in DOMAIN t BY <1>2, <1>3
  <2> QED BY <2>1, <2>2, <2>3, <1>3 DEF InSet
<1> QED BY <1>3, <1>5, <1>6 DEF t

\* Sorted has the ports of the ranges, in order.
LEMMA SortedIs ==
  ASSUME NEW rs \in Seq(Spans)
  PROVE  /\ Sorted(rs) \in Seq(Spans) /\ Len(Sorted(rs)) = Len(rs) /\ Ordered(Sorted(rs))
         /\ Holds(Sorted(rs), rs, Len(rs))
<1> DEFINE N == Len(rs)
           Rec(f) == [n \in 0..N |-> IF n = 0 THEN <<>> ELSE Insert(f[n-1], rs[n])]
           F == CHOOSE f : f = Rec(f)
           T == [n \in 0..N |->
                   {s \in Seq(Spans) : Len(s) = n /\ Ordered(s) /\ Holds(s, rs, n)}]
           G == [n \in 1..N |-> [s \in {x \in Seq(Spans) : Ordered(x)} |-> Insert(s, rs[n])]]
<1>1. Sorted(rs) = F[N] BY DEF Sorted
<1>2. N \in Nat OBVIOUS
<1>3. <<>> \in T[0]
  <2>1. <<>> \in Seq(Spans) /\ Len(<<>>) = 0 /\ Ordered(<<>>) BY DEF Ordered
  <2>2. Holds(<<>>, rs, 0) BY DEF Holds, InSet
  <2>3. 0 \in 0..N BY <1>2
  <2> QED BY <2>1, <2>2, <2>3
<1>4. ASSUME NEW n \in 1..N, NEW s \in T[n-1] PROVE Insert(s, rs[n]) \in T[n]
  <2>1. n \in 0..N /\ n - 1 \in 0..N /\ rs[n] \in Spans OBVIOUS
  <2>2. s \in Seq(Spans) /\ Len(s) = n - 1 /\ Ordered(s) /\ Holds(s, rs, n - 1) BY <2>1
  <2> DEFINE t == Insert(s, rs[n])
  <2>3. /\ t \in Seq(Spans) /\ Len(t) = Len(s) + 1 /\ Ordered(t)
        /\ \A port : InSet(t, port) <=> InSet(s, port) \/ Covers(rs[n], port)
    BY <2>1, <2>2, InsertKeeps
  <2> HIDE DEF t
  <2>4. Holds(t, rs, n) BY <2>2, <2>3 DEF Holds
  <2>5. Len(t) = n BY <2>2, <2>3
  <2>6. t \in T[n] BY <2>1, <2>3, <2>4, <2>5
  <2> QED BY <2>6 DEF t
<1>5. ASSUME NEW n \in 1..N, NEW s \in T[n-1] PROVE G[n][s] = Insert(s, rs[n])
  <2>1. n - 1 \in 0..N OBVIOUS
  <2>2. s \in Seq(Spans) /\ Ordered(s) BY <2>1
  <2> QED BY <2>2
<1>6. PICK g : IsRun(g, N, G, <<>>) /\ \A n \in 0..N : g[n] \in T[n]
  <2>1. \A n \in 1..N : \A s \in T[n-1] : G[n][s] \in T[n] BY <1>4, <1>5
  <2> HIDE DEF N, T, G
  <2> QED BY <1>2, <1>3, <2>1, LoopRuns
<1>7. \A n \in 1..N : G[n][g[n-1]] = Insert(g[n-1], rs[n])
  <2> HIDE DEF T, G
  <2>1. ASSUME NEW n \in 1..N PROVE g[n-1] \in T[n-1] BY <1>2, <1>6
  <2> QED BY <2>1, <1>5
<1>8. g = Rec(g)
  <2> DEFINE H == [n \in 0..N |-> IF n = 0 THEN <<>> ELSE G[n][g[n-1]]]
  <2> HIDE DEF T, G, N
  <2>1. g = H BY <1>6 DEF IsRun
  <2>2. \A n \in 0..N : n # 0 => n \in 1..N BY <1>2
  <2>3. \A n \in 0..N : n # 0 => G[n][g[n-1]] = Insert(g[n-1], rs[n]) BY <2>2, <1>7
  <2>4. H = Rec(g) BY <2>3
  <2> HIDE DEF H, Rec
  <2> QED BY <2>1, <2>4
<1>9. F = Rec(F)
  <2> HIDE DEF Rec
  <2> QED BY <1>8
<1> HIDE DEF F
<1>10. F[0] = <<>> /\ \A n \in 1..N : F[n] = Insert(F[n-1], rs[n])
  <2>1. \A n \in 0..N : F[n] = IF n = 0 THEN <<>> ELSE Insert(F[n-1], rs[n]) BY <1>9
  <2> QED BY <1>2, <2>1
<1> HIDE DEF T, N
<1>11. \A n \in 0..N : F[n] \in T[n] BY <1>2, <1>3, <1>4, <1>10, LoopInduces
<1>12. F[N] \in T[N] BY <1>2, <1>11
<1> QED BY <1>1, <1>2, <1>12 DEF T, N

\* What the loop over ordered ranges has gathered from the first n of them.
Gathered(acc, rs, n) ==
  /\ acc \in Seq(Spans) /\ Len(acc) <= n /\ Apart(acc) /\ Holds(acc, rs, n)
  /\ acc # <<>> => Last(acc).lo <= rs[n].lo

\* The larger of two numbers.
LEMMA MaxOfTwo ==
  ASSUME NEW a \in Nat, NEW b \in Nat
  PROVE  Max({a, b}) = IF a < b THEN b ELSE a
BY DEF Max

\* A step of the loop keeps that: a range that begins in or right after the last one
\* extends it, any other is apart from all before.
LEMMA MergeKeeps ==
  ASSUME NEW rs \in Seq(Spans), Ordered(rs), NEW n \in 1..Len(rs), NEW acc,
         Gathered(acc, rs, n - 1)
  PROVE  Gathered(Merge(acc, rs[n]), rs, n)
<1> DEFINE p == rs[n]
           t == Merge(acc, p)
           m == Len(acc)
<1>1. p \in Spans /\ p.lo \in Nat /\ p.hi \in Nat /\ p.lo <= p.hi
  BY SpansAreNats
<1>2. /\ acc \in Seq(Spans) /\ m \in Nat /\ m <= n - 1 /\ Apart(acc) /\ Holds(acc, rs, n - 1)
      /\ acc # <<>> => Last(acc).lo <= rs[n-1].lo
  BY DEF Gathered
<1>3. \A i \in DOMAIN acc : /\ acc[i] \in Spans /\ acc[i].lo \in Nat /\ acc[i].hi \in Nat
                            /\ acc[i].lo <= acc[i].hi
  BY <1>2, SpansAreNats
<1>4. acc # <<>> => m \in DOMAIN acc /\ Last(acc) = acc[m] /\ acc[m].lo <= p.lo
  <2> SUFFICES ASSUME acc # <<>> PROVE m \in DOMAIN acc /\ Last(acc) = acc[m] /\ acc[m].lo <= p.lo
    OBVIOUS
  <2>1. m \in DOMAIN acc /\ Last(acc) = acc[m] BY <1>2 DEF Last
  <2>2. n - 1 \in DOMAIN rs /\ n \in DOMAIN rs /\ n - 1 < n BY <2>1, <1>2
  <2>3. rs[n-1].lo <= p.lo BY <2>2 DEF Ordered
  <2>4. rs[n-1].lo \in Nat BY <2>2, SpansAreNats
  <2> QED BY <2>1, <2>3, <2>4, <1>1, <1>2, <1>3
<1>5. \A port \in PortNumbers :
        (\E i \in 1..n : Covers(rs[i], port))
          <=> (\E i \in 1..(n-1) : Covers(rs[i], port)) \/ Covers(p, port)
  OBVIOUS
<1>6. CASE acc # <<>> /\ p.lo <= Last(acc).hi + 1
  <2> DEFINE hi == Max({acc[m].hi, p.hi})
  <2>1. m \in DOMAIN acc /\ acc[m].lo <= p.lo /\ p.lo <= acc[m].hi + 1 BY <1>4, <1>6
  <2>2. hi = IF acc[m].hi < p.hi THEN p.hi ELSE acc[m].hi BY <1>1, <1>3, <2>1, MaxOfTwo
  <2> HIDE DEF hi
  <2>3. t = [acc EXCEPT ![m] = [acc[m] EXCEPT !.hi = hi]] BY <1>6 DEF Merge, hi
  <2> DEFINE e == [acc[m] EXCEPT !.hi = hi]
  <2>4. e \in Spans /\ e.lo = acc[m].lo /\ e.hi = hi
    <3>1. acc[m] \in Spans /\ acc[m].lo \in Nat /\ acc[m].hi \in Nat /\ acc[m].lo <= acc[m].hi
      BY <1>3, <2>1
    <3>2. hi \in PortNumbers /\ acc[m].lo <= hi BY <1>1, <2>2, <3>1 DEF Spans
    <3>3. e = [lo |-> acc[m].lo, hi |-> hi] BY <3>1 DEF Spans
    <3> QED BY <3>1, <3>2, <3>3 DEF Spans
  <2> HIDE DEF e
  <2>5. /\ t \in Seq(Spans) /\ Len(t) = m /\ DOMAIN t = DOMAIN acc /\ t[m] = e
        /\ \A i \in DOMAIN acc : i # m => t[i] = acc[i]
    <3>1. t = [acc EXCEPT ![m] = e] BY <2>3 DEF e
    <3> HIDE DEF t
    <3> QED BY <3>1, <2>4, <2>1, <1>2
  <2> HIDE DEF t
  <2>6. Apart(t)
    <3> SUFFICES ASSUME NEW i \in DOMAIN t, NEW j \in DOMAIN t, i < j
                 PROVE  t[i].hi + 1 < t[j].lo
      BY DEF Apart
    <3>1. i \in DOMAIN acc /\ j \in DOMAIN acc /\ i # m BY <2>5, <1>2
    <3>2. t[i] = acc[i] /\ t[j].lo = acc[j].lo BY <3>1, <2>4, <2>5
    <3> QED BY <3>1, <3>2, <1>2 DEF Apart
  <2>7. Holds(t, rs, n)
    <3> SUFFICES ASSUME NEW port \in PortNumbers
                 PROVE  InSet(t, port) <=> InSet(acc, port) \/ Covers(p, port)
      BY <1>2, <1>5 DEF Holds
    <3>1. port \in Nat BY PortsAreNats
    <3>2. Covers(e, port) <=> Covers(acc[m], port) \/ Covers(p, port)
      BY <3>1, <1>1, <1>3, <2>1, <2>2, <2>4 DEF Covers
    <3>3. InSet(t, port) <=> \E i \in DOMAIN acc : Covers(t[i], port) BY <2>5 DEF InSet
    <3>4. \A i \in DOMAIN acc : i # m => (Covers(t[i], port) <=> Covers(acc[i], port)) BY <2>5
    <3>5. Covers(t[m], port) <=> Covers(acc[m], port) \/ Covers(p, port) BY <3>2, <2>5
    <3> QED BY <3>3, <3>4, <3>5, <2>1 DEF InSet
  <2>8. Last(t).lo <= p.lo BY <2>1, <2>4, <2>5 DEF Last
  <2> QED BY <2>5, <2>6, <2>7, <2>8, <1>2 DEF Gathered, t
<1>7. CASE ~(acc # <<>> /\ p.lo <= Last(acc).hi + 1)
  <2>1. t = Append(acc, p) BY <1>7 DEF Merge
  <2>2. /\ t \in Seq(Spans) /\ Len(t) = m + 1 /\ t[m+1] = p /\ m + 1 \in DOMAIN t
        /\ \A i \in DOMAIN acc : t[i] = acc[i]
        /\ \A i \in DOMAIN t : i = m + 1 \/ i \in DOMAIN acc
    <3> HIDE DEF t, p
    <3> QED BY <2>1, <1>1, <1>2
  <2> HIDE DEF t
  <2>3. Apart(t)
    <3> SUFFICES ASSUME NEW i \in DOMAIN t, NEW j \in DOMAIN t, i < j
                 PROVE  t[i].hi + 1 < t[j].lo
      BY DEF Apart
    <3>1. i \in DOMAIN acc /\ i \in Nat /\ j \in Nat /\ j <= m + 1 BY <2>2, <1>2
    <3>2. CASE j \in DOMAIN acc BY <3>1, <3>2, <2>2, <1>2 DEF Apart
    <3>3. CASE j = m + 1
      <4>1. acc # <<>> /\ m \in DOMAIN acc /\ Last(acc) = acc[m] /\ i <= m BY <3>1, <1>2, <1>4
      <4>2. acc[m].hi + 1 < p.lo BY <4>1, <1>1, <1>3, <1>7
      <4>3. acc[i].hi + 1 < p.lo
        <5>1. CASE i = m BY <5>1, <4>2
        <5>2. CASE i < m
          <6>1. acc[i].hi + 1 < acc[m].lo BY <5>2, <3>1, <4>1, <1>2 DEF Apart
          <6>2. acc[i].hi \in Nat /\ acc[m].lo \in Nat /\ acc[m].hi \in Nat
                  /\ acc[m].lo <= acc[m].hi
            BY <3>1, <4>1, <1>3
          <6>3. \A a, b, c, d \in Nat : a + 1 < b /\ b <= c /\ c + 1 < d => a + 1 < d OBVIOUS
          <6>4. p.lo \in Nat BY <1>1
          <6> HIDE DEF m, p
          <6> QED BY <6>1, <6>2, <6>3, <6>4, <4>2
        <5> QED BY <5>1, <5>2, <4>1, <3>1, <1>2
      <4> QED BY <4>3, <3>1, <3>3, <2>2
    <3> QED BY <3>2, <3>3, <2>2
  <2>4. Holds(t, rs, n)
    <3> SUFFICES ASSUME NEW port \in PortNumbers
                 PROVE  InSet(t, port) <=> InSet(acc, port) \/ Covers(p, port)
      BY <1>2, <1>5 DEF Holds
    <3> QED BY <2>2, <1>2 DEF InSet
  <2>5. Last(t).lo <= p.lo BY <2>2, <1>1 DEF Last
  <2> QED BY <2>2, <2>3, <2>4, <2>5, <1>2 DEF Gathered, t
<1> QED BY <1>6, <1>7

\* The elements render_ports renders for ranges are apart and hold their ports.
LEMMA RenderPortsIs ==
  ASSUME NEW rs \in Seq(Spans)
  PROVE  LET s == render_ports(rs)
         IN s \in Seq(Spans) /\ Len(s) <= Len(rs) /\ Apart(s) /\ Holds(s, rs, Len(rs))
<1> DEFINE ss == Sorted(rs)
           N == Len(ss)
           Rec(f) == [n \in 0..N |-> IF n = 0 THEN <<>> ELSE Merge(f[n-1], ss[n])]
           F == CHOOSE f : f = Rec(f)
           T == [n \in 0..N |-> {acc \in Seq(Spans) : Gathered(acc, ss, n)}]
           G == [n \in 1..N |-> [acc \in Seq(Spans) |-> Merge(acc, ss[n])]]
<1>1. render_ports(rs) = F[N] BY DEF render_ports, Merged
<1>0. ss \in Seq(Spans) /\ N = Len(rs) /\ Ordered(ss) /\ Holds(ss, rs, Len(rs)) BY SortedIs
<1> HIDE DEF ss
<1>2. N \in Nat BY <1>0
<1>3. <<>> \in T[0]
  <2>1. <<>> \in Seq(Spans) /\ Len(<<>>) = 0 /\ Apart(<<>>) BY DEF Apart
  <2>2. Holds(<<>>, ss, 0) BY DEF Holds, InSet
  <2>3. 0 \in 0..N BY <1>2
  <2> QED BY <2>1, <2>2, <2>3 DEF Gathered
<1>4. ASSUME NEW n \in 1..N, NEW acc \in T[n-1] PROVE Merge(acc, ss[n]) \in T[n]
  <2>1. n \in 0..N /\ n - 1 \in 0..N BY <1>2
  <2>2. Gathered(acc, ss, n - 1) BY <2>1
  <2>3. Gathered(Merge(acc, ss[n]), ss, n) BY <1>0, <2>2, MergeKeeps
  <2>4. Merge(acc, ss[n]) \in Seq(Spans) BY <2>3 DEF Gathered
  <2> QED BY <2>1, <2>3, <2>4
<1>5. ASSUME NEW n \in 1..N, NEW acc \in T[n-1] PROVE G[n][acc] = Merge(acc, ss[n])
  <2>1. n - 1 \in 0..N BY <1>2
  <2>2. acc \in Seq(Spans) BY <2>1
  <2> QED BY <2>2
<1>6. PICK g : IsRun(g, N, G, <<>>) /\ \A n \in 0..N : g[n] \in T[n]
  <2>1. \A n \in 1..N : \A acc \in T[n-1] : G[n][acc] \in T[n] BY <1>4, <1>5
  <2> HIDE DEF N, T, G
  <2> QED BY <1>2, <1>3, <2>1, LoopRuns
<1>7. \A n \in 1..N : G[n][g[n-1]] = Merge(g[n-1], ss[n])
  <2> HIDE DEF T, G, N
  <2>1. ASSUME NEW n \in 1..N PROVE g[n-1] \in T[n-1] BY <1>2, <1>6
  <2> QED BY <2>1, <1>5
<1>8. g = Rec(g)
  <2> DEFINE H == [n \in 0..N |-> IF n = 0 THEN <<>> ELSE G[n][g[n-1]]]
  <2> HIDE DEF T, G, N
  <2>1. g = H BY <1>6 DEF IsRun
  <2>2. \A n \in 0..N : n # 0 => n \in 1..N BY <1>2
  <2>3. \A n \in 0..N : n # 0 => G[n][g[n-1]] = Merge(g[n-1], ss[n]) BY <2>2, <1>7
  <2>4. H = Rec(g) BY <2>3
  <2> HIDE DEF H, Rec
  <2> QED BY <2>1, <2>4
<1>9. F = Rec(F)
  <2> HIDE DEF Rec
  <2> QED BY <1>8
<1> HIDE DEF F
<1>10. F[0] = <<>> /\ \A n \in 1..N : F[n] = Merge(F[n-1], ss[n])
  <2>1. \A n \in 0..N : F[n] = IF n = 0 THEN <<>> ELSE Merge(F[n-1], ss[n]) BY <1>9
  <2> QED BY <1>2, <2>1
<1> HIDE DEF T, N
<1>11. \A n \in 0..N : F[n] \in T[n] BY <1>2, <1>3, <1>4, <1>10, LoopInduces
<1>12. F[N] \in T[N] BY <1>2, <1>11
<1>13. N \in 0..N BY <1>2
<1>14. Gathered(F[N], ss, N) BY <1>12, <1>13 DEF T
<1>15. Holds(F[N], rs, Len(rs))
  <2> SUFFICES ASSUME NEW port \in PortNumbers
               PROVE  InSet(F[N], port) <=> \E i \in 1..Len(rs) : Covers(rs[i], port)
    BY DEF Holds
  <2>1. InSet(F[N], port) <=> \E i \in 1..N : Covers(ss[i], port) BY <1>14 DEF Gathered, Holds
  <2>2. InSet(ss, port) <=> \E i \in 1..N : Covers(ss[i], port) BY <1>0 DEF InSet, N
  <2> QED BY <2>1, <2>2, <1>0 DEF Holds
<1> QED BY <1>0, <1>1, <1>14, <1>15 DEF Gathered

\* What the store and config.json hold: no range ends before it starts.
Ranges == {s \in Seq(PublicPorts) : \A i \in DOMAIN s : s[i].lo <= s[i].hi}

\* config.json and the store together.
LEMMA AllAsked ==
  ASSUME NEW client \in Ranges
  PROVE  /\ ConfigPublic \o client \in Ranges
         /\ ToSet(ConfigPublic \o client) = ToSet(ConfigPublic) \cup ToSet(client)
<1> DEFINE C == ConfigPublic
           a == C \o client
<1>1. C \in Seq(PublicPorts) /\ \A i \in DOMAIN C : C[i].lo <= C[i].hi
  BY PacketFilterOK DEF ToSet
<1>2. client \in Seq(PublicPorts) /\ \A i \in DOMAIN client : client[i].lo <= client[i].hi
  BY DEF Ranges
<1> HIDE DEF C
<1>3. /\ a \in Seq(PublicPorts) /\ Len(a) = Len(C) + Len(client)
      /\ \A i \in 1..(Len(C) + Len(client)) :
           a[i] = IF i <= Len(C) THEN C[i] ELSE client[i - Len(C)]
  BY <1>1, <1>2, ConcatProperties, Zenon
<1> HIDE DEF a
<1>4. ASSUME NEW i \in DOMAIN a
      PROVE (i \in DOMAIN C /\ a[i] = C[i]) \/ \E j \in DOMAIN client : a[i] = client[j]
  <2>1. i \in 1..(Len(C) + Len(client)) BY <1>3
  <2>2. CASE i <= Len(C) BY <2>1, <2>2, <1>1, <1>3
  <2>3. CASE Len(C) < i
    <3>1. i - Len(C) \in DOMAIN client BY <2>1, <2>3, <1>1, <1>2
    <3>2. a[i] = client[i - Len(C)] BY <2>1, <2>3, <1>1, <1>3
    <3> QED BY <3>1, <3>2
  <2> QED BY <2>1, <2>2, <2>3, <1>1, <1>2
<1>5. ASSUME NEW i \in DOMAIN C PROVE i \in DOMAIN a /\ a[i] = C[i]
  BY <1>1, <1>2, <1>3
<1>6. ASSUME NEW j \in DOMAIN client
      PROVE Len(C) + j \in DOMAIN a /\ a[Len(C) + j] = client[j]
  <2>1. Len(C) + j \in 1..(Len(C) + Len(client)) /\ ~(Len(C) + j <= Len(C))
        /\ (Len(C) + j) - Len(C) = j
    BY <1>1, <1>2
  <2> QED BY <2>1, <1>3
<1>7. a \in Ranges
  <2>1. \A i \in DOMAIN a : a[i].lo <= a[i].hi BY <1>1, <1>2, <1>4
  <2> QED BY <2>1, <1>3 DEF Ranges
<1>8. ToSet(a) = ToSet(C) \cup ToSet(client) BY <1>4, <1>5, <1>6 DEF ToSet
<1> QED BY <1>7, <1>8 DEF a, C

\* PortsFor has the ports of a protocol that config.json or the store has.
LEMMA PortsForIs ==
  ASSUME NEW client \in Ranges, NEW proto
  PROVE  /\ PortsFor(proto, client) \in Seq(Spans)
         /\ Len(PortsFor(proto, client)) <= Len(ConfigPublic \o client)
         /\ \A port \in PortNumbers :
              InSet(PortsFor(proto, client), port)
                <=> \E r \in ToSet(ConfigPublic \o client) : proto \in r.protos /\ Covers(r, port)
<1> DEFINE a == ConfigPublic \o client
           N == Len(a)
           Span(r) == [lo |-> r.lo, hi |-> r.hi]
           Step(s, r) == IF proto \in r.protos THEN Append(s, Span(r)) ELSE s
           Rec(f) == [n \in 0..N |-> IF n = 0 THEN <<>> ELSE
                        IF proto \in a[n].protos
                        THEN Append(f[n-1], [lo |-> a[n].lo, hi |-> a[n].hi])
                        ELSE f[n-1]]
           F == CHOOSE f : f = Rec(f)
           Has(s, n) == \A port \in PortNumbers :
             InSet(s, port) <=> \E i \in 1..n : proto \in a[i].protos /\ Covers(a[i], port)
           T == [n \in 0..N |-> {s \in Seq(Spans) : Len(s) <= n /\ Has(s, n)}]
           G == [n \in 1..N |-> [s \in Seq(Spans) |-> Step(s, a[n])]]
<1>1. PortsFor(proto, client) = F[N] BY DEF PortsFor
<1>0. a \in Ranges BY AllAsked
<1>15. /\ a \in Seq(PublicPorts) /\ N \in Nat
       /\ \A n \in 1..N : a[n] \in PublicPorts /\ a[n].lo <= a[n].hi
  <2>1. a \in Seq(PublicPorts) /\ \A i \in DOMAIN a : a[i].lo <= a[i].hi BY <1>0 DEF Ranges
  <2> HIDE DEF a
  <2> QED BY <2>1
<1> HIDE DEF a
<1>2. N \in Nat BY <1>15
<1>3. <<>> \in T[0]
  <2>1. <<>> \in Seq(Spans) /\ Len(<<>>) = 0 OBVIOUS
  <2>2. Has(<<>>, 0) BY DEF InSet
  <2>3. 0 \in 0..N BY <1>2
  <2> HIDE DEF Has
  <2> QED BY <2>1, <2>2, <2>3
<1>4. ASSUME NEW n \in 1..N, NEW s \in T[n-1] PROVE Step(s, a[n]) \in T[n]
  <2>1. n \in 0..N /\ n - 1 \in 0..N BY <1>2
  <2>2. s \in Seq(Spans) /\ Len(s) <= n - 1 /\ Has(s, n - 1) BY <2>1
  <2>3. a[n] \in PublicPorts /\ a[n].lo <= a[n].hi BY <1>15
  <2>4. Span(a[n]) \in Spans BY <2>3 DEF PublicPorts, Spans
  <2>5. \A port : Covers(Span(a[n]), port) <=> Covers(a[n], port) BY DEF Covers
  <2> HIDE DEF Span
  <2> DEFINE t == Step(s, a[n])
  <2>6. CASE proto \in a[n].protos
    <3>1. t = Append(s, Span(a[n])) BY <2>6
    <3> HIDE DEF t
    <3>5. PICK q \in Spans : q = Span(a[n]) BY <2>4
    <3>2. /\ t \in Seq(Spans) /\ Len(t) = Len(s) + 1 /\ t[Len(s) + 1] = q
          /\ \A i \in DOMAIN s : t[i] = s[i]
      BY <3>1, <3>5, <2>2
    <3>3. Has(t, n)
      <4> SUFFICES ASSUME NEW port \in PortNumbers
                   PROVE  InSet(t, port) <=>
                            \E i \in 1..n : proto \in a[i].protos /\ Covers(a[i], port)
        OBVIOUS
      <4>1. InSet(t, port) <=> InSet(s, port) \/ Covers(a[n], port)
        <5>1. InSet(t, port) <=> InSet(s, port) \/ Covers(q, port)
          <6>1. \A i \in DOMAIN t : i = Len(s) + 1 \/ i \in DOMAIN s BY <3>2, <2>2
          <6>2. DOMAIN s \subseteq DOMAIN t /\ Len(s) + 1 \in DOMAIN t BY <3>2, <2>2
          <6> QED BY <6>1, <6>2, <3>2 DEF InSet
        <5> QED BY <5>1, <3>5, <2>5
      <4>2. InSet(s, port) <=> \E i \in 1..(n-1) : proto \in a[i].protos /\ Covers(a[i], port)
        BY <2>2
      <4> QED BY <4>1, <4>2, <2>6
    <3> HIDE DEF Has
    <3>4. t \in T[n] BY <2>1, <2>2, <3>2, <3>3
    <3> QED BY <3>4 DEF t
  <2>7. CASE proto \notin a[n].protos
    <3>1. t = s BY <2>7
    <3>2. Has(s, n)
      <4> SUFFICES ASSUME NEW port \in PortNumbers
                   PROVE  InSet(s, port) <=>
                            \E i \in 1..n : proto \in a[i].protos /\ Covers(a[i], port)
        OBVIOUS
      <4>2. InSet(s, port) <=> \E i \in 1..(n-1) : proto \in a[i].protos /\ Covers(a[i], port)
        BY <2>2
      <4> QED BY <4>2, <2>7
    <3> HIDE DEF Has
    <3>3. s \in T[n] BY <2>1, <2>2, <3>2
    <3> QED BY <3>1, <3>3
  <2> QED BY <2>6, <2>7
<1>5. ASSUME NEW n \in 1..N, NEW s \in T[n-1] PROVE G[n][s] = Step(s, a[n])
  <2>1. n - 1 \in 0..N BY <1>2
  <2>2. s \in Seq(Spans) BY <2>1
  <2> HIDE DEF Step
  <2> QED BY <2>2
<1> HIDE DEF Has
<1>6. PICK g : IsRun(g, N, G, <<>>) /\ \A n \in 0..N : g[n] \in T[n]
  <2> HIDE DEF Step
  <2>1. \A n \in 1..N : \A s \in T[n-1] : G[n][s] \in T[n] BY <1>4, <1>5
  <2> HIDE DEF N, T, G
  <2> QED BY <1>2, <1>3, <2>1, LoopRuns
<1>7. \A n \in 1..N : G[n][g[n-1]] = Step(g[n-1], a[n])
  <2> HIDE DEF T, G, N, Step
  <2>1. ASSUME NEW n \in 1..N PROVE g[n-1] \in T[n-1] BY <1>2, <1>6
  <2> QED BY <2>1, <1>5
<1>8. g = Rec(g)
  <2> DEFINE H == [n \in 0..N |-> IF n = 0 THEN <<>> ELSE G[n][g[n-1]]]
  <2> HIDE DEF T, G, N
  <2>1. g = H BY <1>6 DEF IsRun
  <2>2. \A n \in 0..N : n # 0 => n \in 1..N BY <1>2
  <2>3. \A n \in 0..N : n # 0 => G[n][g[n-1]] = Step(g[n-1], a[n]) BY <2>2, <1>7
  <2>4. H = Rec(g) BY <2>3
  <2> HIDE DEF H, Rec
  <2> QED BY <2>1, <2>4
<1>9. F = Rec(F)
  <2> HIDE DEF Rec
  <2> QED BY <1>8
<1> HIDE DEF F
<1>10. F[0] = <<>> /\ \A n \in 1..N : F[n] = Step(F[n-1], a[n])
  <2>1. \A n \in 0..N : F[n] = IF n = 0 THEN <<>> ELSE Step(F[n-1], a[n]) BY <1>9
  <2> HIDE DEF Step
  <2> QED BY <1>2, <2>1
<1> HIDE DEF T, N, Step
<1>11. \A n \in 0..N : F[n] \in T[n] BY <1>2, <1>3, <1>4, <1>10, LoopInduces
<1>12. F[N] \in T[N] /\ N \in 0..N BY <1>2, <1>11
<1>13. F[N] \in Seq(Spans) /\ Len(F[N]) <= N /\ Has(F[N], N) BY <1>12 DEF T
<1>14. ASSUME NEW port \in PortNumbers
       PROVE InSet(F[N], port) <=> \E r \in ToSet(a) : proto \in r.protos /\ Covers(r, port)
  <2>1. InSet(F[N], port) <=> \E i \in 1..N : proto \in a[i].protos /\ Covers(a[i], port)
    BY <1>13 DEF Has
  <2>2. DOMAIN a = 1..N BY <1>15 DEF N
  <2> QED BY <2>1, <2>2 DEF ToSet
<1> QED BY <1>1, <1>13, <1>14 DEF a, N

-----------------------------------------------------------------------------
(***************************************************************************)
(* The first rule that matches.                                            *)
(***************************************************************************)

\* The rules of the input chain, for each pair of switches.
InputRules == {"established", "invalid", "lo", "icmp", "knock", "knocked_ssh", "ssh",
               "public_tcp", "public_udp", "listed"}
InputHas(c, t) ==
  /\ DOMAIN c \subseteq Nat \ {0} /\ {1, 2, 3, 4} \subseteq DOMAIN c
  /\ \A i \in DOMAIN c : c[i] \in InputRules
  /\ c[1] = "established" /\ c[2] = "invalid" /\ c[3] = "lo" /\ c[4] = "icmp"
  /\ \A i \in DOMAIN c : i > 4 => c[i] \notin {"established", "invalid", "lo", "icmp"}
  /\ \A i \in DOMAIN c : c[i] = "knock" <=> t.knock /\ i = 5
  /\ t.knock => 5 \in DOMAIN c
  /\ (\E i \in DOMAIN c : c[i] = "ssh") <=> ~t.ssh
  /\ (\E i \in DOMAIN c : c[i] = "knocked_ssh") <=> t.ssh /\ t.knock
  /\ \A r \in {"public_tcp", "public_udp", "listed"} : \E i \in DOMAIN c : c[i] = r

\* The input chain is made of these.
LEMMA InputIs ==
  ASSUME NEW t, t.knock \in BOOLEAN, t.ssh \in BOOLEAN
  PROVE  InputHas(Input(t), t)
<1> DEFINE c == Input(t)
           A == <<"established", "invalid", "lo", "icmp">>
           B == IF t.knock THEN <<"knock">> ELSE <<>>
           C == IF ~t.ssh THEN <<"ssh">> ELSE IF t.knock THEN <<"knocked_ssh">> ELSE <<>>
           D == <<"public_tcp", "public_udp", "listed">>
<1>0. c \in Seq(InputRules)
  <2>1. A \in Seq(InputRules) BY DEF InputRules
  <2>6. \A r \in InputRules : <<r>> \in Seq(InputRules) OBVIOUS
  <2>7. /\ {"knock", "ssh", "knocked_ssh"} \subseteq InputRules
        /\ <<>> \in Seq(InputRules)
    BY DEF InputRules
  <2>3. B \in Seq(InputRules) BY <2>6, <2>7
  <2>4. C \in Seq(InputRules) BY <2>6, <2>7
  <2>5. D \in Seq(InputRules) BY DEF InputRules
  <2>2. c = ((A \o B) \o C) \o D BY DEF Input
  <2> HIDE DEF A, B, C, D, c
  <2> QED BY <2>1, <2>2, <2>3, <2>4, <2>5
<1>1. CASE t.knock = TRUE /\ t.ssh = TRUE
  <2>1. /\ Len(c) = 9 /\ c[1] = "established" /\ c[2] = "invalid" /\ c[3] = "lo" /\ c[4] = "icmp"
        /\ c[5] = "knock" /\ c[6] = "knocked_ssh"
        /\ c[7] = "public_tcp" /\ c[8] = "public_udp" /\ c[9] = "listed"
    BY <1>1 DEF Input
  <2> HIDE DEF c
  <2>3. DOMAIN c = {1, 2, 3, 4, 5, 6, 7, 8, 9} BY <1>0, <2>1
  <2>4. /\ DOMAIN c \subseteq Nat \ {0} /\ {1, 2, 3, 4} \subseteq DOMAIN c
        /\ t.knock => 5 \in DOMAIN c
    BY <1>1, <2>3
  <2>5. \A i \in DOMAIN c : c[i] \in InputRules BY <2>1, <2>3 DEF InputRules
  <2>6. \A i \in DOMAIN c : i > 4 => c[i] \notin {"established", "invalid", "lo", "icmp"}
    BY <2>1, <2>3
  <2>7. \A i \in DOMAIN c : c[i] = "knock" <=> t.knock /\ i = 5 BY <1>1, <2>1, <2>3
  <2>8. (\E i \in DOMAIN c : c[i] = "ssh") <=> ~t.ssh BY <1>1, <2>1, <2>3
  <2>9. (\E i \in DOMAIN c : c[i] = "knocked_ssh") <=> t.ssh /\ t.knock BY <1>1, <2>1, <2>3
  <2>10. \A r \in {"public_tcp", "public_udp", "listed"} : \E i \in DOMAIN c : c[i] = r
    BY <2>1, <2>3
  <2> QED BY <2>1, <2>4, <2>5, <2>6, <2>7, <2>8, <2>9, <2>10 DEF InputHas, c
<1>2. CASE t.knock = FALSE /\ t.ssh = TRUE
  <2>1. /\ Len(c) = 7 /\ c[1] = "established" /\ c[2] = "invalid" /\ c[3] = "lo" /\ c[4] = "icmp"
        /\ c[5] = "public_tcp" /\ c[6] = "public_udp" /\ c[7] = "listed"
    BY <1>2 DEF Input
  <2> HIDE DEF c
  <2>3. DOMAIN c = {1, 2, 3, 4, 5, 6, 7} BY <1>0, <2>1
  <2>4. /\ DOMAIN c \subseteq Nat \ {0} /\ {1, 2, 3, 4} \subseteq DOMAIN c
        /\ t.knock => 5 \in DOMAIN c
    BY <1>2, <2>3
  <2>5. \A i \in DOMAIN c : c[i] \in InputRules BY <2>1, <2>3 DEF InputRules
  <2>6. \A i \in DOMAIN c : i > 4 => c[i] \notin {"established", "invalid", "lo", "icmp"}
    BY <2>1, <2>3
  <2>7. \A i \in DOMAIN c : c[i] = "knock" <=> t.knock /\ i = 5 BY <1>2, <2>1, <2>3
  <2>8. (\E i \in DOMAIN c : c[i] = "ssh") <=> ~t.ssh BY <1>2, <2>1, <2>3
  <2>9. (\E i \in DOMAIN c : c[i] = "knocked_ssh") <=> t.ssh /\ t.knock BY <1>2, <2>1, <2>3
  <2>10. \A r \in {"public_tcp", "public_udp", "listed"} : \E i \in DOMAIN c : c[i] = r
    BY <2>1, <2>3
  <2> QED BY <2>1, <2>4, <2>5, <2>6, <2>7, <2>8, <2>9, <2>10 DEF InputHas, c
<1>3. CASE t.knock = TRUE /\ t.ssh = FALSE
  <2>1. /\ Len(c) = 9 /\ c[1] = "established" /\ c[2] = "invalid" /\ c[3] = "lo" /\ c[4] = "icmp"
        /\ c[5] = "knock" /\ c[6] = "ssh"
        /\ c[7] = "public_tcp" /\ c[8] = "public_udp" /\ c[9] = "listed"
    BY <1>3 DEF Input
  <2> HIDE DEF c
  <2>3. DOMAIN c = {1, 2, 3, 4, 5, 6, 7, 8, 9} BY <1>0, <2>1
  <2>4. /\ DOMAIN c \subseteq Nat \ {0} /\ {1, 2, 3, 4} \subseteq DOMAIN c
        /\ t.knock => 5 \in DOMAIN c
    BY <1>3, <2>3
  <2>5. \A i \in DOMAIN c : c[i] \in InputRules BY <2>1, <2>3 DEF InputRules
  <2>6. \A i \in DOMAIN c : i > 4 => c[i] \notin {"established", "invalid", "lo", "icmp"}
    BY <2>1, <2>3
  <2>7. \A i \in DOMAIN c : c[i] = "knock" <=> t.knock /\ i = 5 BY <1>3, <2>1, <2>3
  <2>8. (\E i \in DOMAIN c : c[i] = "ssh") <=> ~t.ssh BY <1>3, <2>1, <2>3
  <2>9. (\E i \in DOMAIN c : c[i] = "knocked_ssh") <=> t.ssh /\ t.knock BY <1>3, <2>1, <2>3
  <2>10. \A r \in {"public_tcp", "public_udp", "listed"} : \E i \in DOMAIN c : c[i] = r
    BY <2>1, <2>3
  <2> QED BY <2>1, <2>4, <2>5, <2>6, <2>7, <2>8, <2>9, <2>10 DEF InputHas, c
<1>4. CASE t.knock = FALSE /\ t.ssh = FALSE
  <2>1. /\ Len(c) = 8 /\ c[1] = "established" /\ c[2] = "invalid" /\ c[3] = "lo" /\ c[4] = "icmp"
        /\ c[5] = "ssh" /\ c[6] = "public_tcp" /\ c[7] = "public_udp" /\ c[8] = "listed"
    BY <1>4 DEF Input
  <2> HIDE DEF c
  <2>3. DOMAIN c = {1, 2, 3, 4, 5, 6, 7, 8} BY <1>0, <2>1
  <2>4. /\ DOMAIN c \subseteq Nat \ {0} /\ {1, 2, 3, 4} \subseteq DOMAIN c
        /\ t.knock => 5 \in DOMAIN c
    BY <1>4, <2>3
  <2>5. \A i \in DOMAIN c : c[i] \in InputRules BY <2>1, <2>3 DEF InputRules
  <2>6. \A i \in DOMAIN c : i > 4 => c[i] \notin {"established", "invalid", "lo", "icmp"}
    BY <2>1, <2>3
  <2>7. \A i \in DOMAIN c : c[i] = "knock" <=> t.knock /\ i = 5 BY <1>4, <2>1, <2>3
  <2>8. (\E i \in DOMAIN c : c[i] = "ssh") <=> ~t.ssh BY <1>4, <2>1, <2>3
  <2>9. (\E i \in DOMAIN c : c[i] = "knocked_ssh") <=> t.ssh /\ t.knock BY <1>4, <2>1, <2>3
  <2>10. \A r \in {"public_tcp", "public_udp", "listed"} : \E i \in DOMAIN c : c[i] = r
    BY <2>1, <2>3
  <2> QED BY <2>1, <2>4, <2>5, <2>6, <2>7, <2>8, <2>9, <2>10 DEF InputHas, c
<1> QED BY <1>1, <1>2, <1>3, <1>4

\* The forward chain with the gate, and without.
LEMMA ForwardIs ==
  ASSUME NEW t, t.gate \in BOOLEAN
  PROVE  LET c == Forward(t)
         IN /\ DOMAIN c = IF t.gate THEN {1, 2, 3, 4, 5} ELSE {}
            /\ t.gate => /\ c[1] = "established" /\ c[2] = "gate_listed" /\ c[3] = "gate_tcp"
                         /\ c[4] = "gate_udp" /\ c[5] = "gate_rest"
<1> DEFINE c == Forward(t)
<1>1. CASE t.gate = TRUE
  <2>1. c = <<"established", "gate_listed", "gate_tcp", "gate_udp", "gate_rest">>
    BY <1>1 DEF Forward
  <2> HIDE DEF c
  <2>2. DOMAIN c = {1, 2, 3, 4, 5} BY <2>1
  <2>3. c[1] = "established" /\ c[2] = "gate_listed" /\ c[3] = "gate_tcp"
        /\ c[4] = "gate_udp" /\ c[5] = "gate_rest"
    BY <2>1
  <2> QED BY <1>1, <2>2, <2>3 DEF c
<1>2. CASE t.gate = FALSE
  <2>1. c = <<>> BY <1>2 DEF Forward
  <2> HIDE DEF c
  <2>2. DOMAIN c = {} BY <2>1
  <2> QED BY <1>2, <2>2 DEF c
<1> QED BY <1>1, <1>2

\* The first rule of the chain that matches decides, or the policy when none does.
LEMMA FirstDecides ==
  ASSUME NEW p, NEW c, c = (IF Routed(p) THEN Forward(tab) ELSE Input(tab)), DOMAIN c \subseteq Nat
  PROVE  \/ \E i \in DOMAIN c : /\ Decider(p) = c[i] /\ Matches(p)[c[i]]
                                /\ \A j \in DOMAIN c : j < i => ~Matches(p)[c[j]]
         \/ /\ \A i \in DOMAIN c : ~Matches(p)[c[i]]
            /\ Decider(p) = IF Routed(p) THEN "policy_accept" ELSE "policy_drop"
<1> DEFINE m == Matches(p)
           hits == {i \in DOMAIN c : m[c[i]]}
           policy == IF Routed(p) THEN "policy_accept" ELSE "policy_drop"
<1>1. Decider(p) = IF hits # {} THEN c[Min(hits)] ELSE policy BY DEF Decider
<1> HIDE DEF m, policy
<1>2. CASE hits # {}
  <2>1. hits \in SUBSET Nat OBVIOUS
  <2> DEFINE i == Min(hits)
  <2>2. i \in hits /\ \A j \in hits : i <= j
    <3> HIDE DEF hits
    <3> QED BY <1>2, <2>1, MinIsLeast
  <2>3. Decider(p) = c[i] BY <1>1, <1>2
  <2> HIDE DEF i
  <2>4. i \in DOMAIN c /\ m[c[i]] BY <2>2
  <2>5. \A j \in DOMAIN c : j < i => ~m[c[j]]
    <3> SUFFICES ASSUME NEW j \in DOMAIN c, j < i, m[c[j]] PROVE FALSE OBVIOUS
    <3>1. j \in hits OBVIOUS
    <3> HIDE DEF hits
    <3>2. i <= j /\ i \in Nat /\ j \in Nat BY <2>1, <2>2, <3>1
    <3> QED BY <3>2
  <2> QED BY <2>3, <2>4, <2>5 DEF m
<1>3. CASE hits = {} BY <1>1, <1>3 DEF m, policy
<1> QED BY <1>2, <1>3

\* What each rule looks at.
LEMMA MatchesAre ==
  ASSUME NEW p
  PROVE  /\ Matches(p)["established"] <=> p.ct = "established"
         /\ Matches(p)["invalid"] <=> p.ct = "invalid"
         /\ Matches(p)["lo"] <=> p.src = Local
         /\ Matches(p)["icmp"] <=> p.proto = "infra"
         /\ Matches(p)["knock"] <=> KnockRule(p)
         /\ Matches(p)["knocked_ssh"] <=>
              p.proto = "tcp" /\ p.dport = SshPort /\ p.src \in Sources /\ knocked[p.src] > 0
         /\ Matches(p)["ssh"] <=> p.proto = "tcp" /\ p.dport = SshPort
         /\ Matches(p)["public_tcp"] <=> p.proto = "tcp" /\ InSet(tab.tcp, p.dport)
         /\ Matches(p)["public_udp"] <=> p.proto = "udp" /\ InSet(tab.udp, p.dport)
         /\ Matches(p)["listed"] <=> p.src \in list
         /\ Matches(p)["gate_listed"] <=> p.ct = "new" /\ p.dnat /\ p.src \in list
         /\ Matches(p)["gate_tcp"] <=>
              p.ct = "new" /\ p.dnat /\ p.proto = "tcp" /\ InSet(tab.tcp, p.dport)
         /\ Matches(p)["gate_udp"] <=>
              p.ct = "new" /\ p.dnat /\ p.proto = "udp" /\ InSet(tab.udp, p.dport)
         /\ Matches(p)["gate_rest"] <=> p.ct = "new" /\ p.dnat
BY DEF Matches, GatePort

\* What may accept a new packet for the host that comes from outside.
SshRule(p) ==
  /\ p.proto = "tcp" /\ p.dport = SshPort
  /\ ~tab.ssh \/ (tab.knock /\ p.src \in Sources /\ knocked[p.src] > 0)
PublicRule(p) ==
  \/ p.proto = "tcp" /\ InSet(tab.tcp, p.dport)
  \/ p.proto = "udp" /\ InSet(tab.udp, p.dport)

\* The verdict on packets for the host.
LEMMA InputVerdict ==
  ASSUME NEW p, ~Routed(p), tab.knock \in BOOLEAN, tab.ssh \in BOOLEAN
  PROVE  /\ p.ct = "established" => Accepted(p)
         /\ p.ct = "new" /\ (p.src = Local \/ p.proto = "infra") => Accepted(p)
         /\ Decider(p) = "knock" <=>
              /\ p.ct \notin {"established", "invalid"} /\ p.src # Local /\ p.proto # "infra"
              /\ tab.knock /\ KnockRule(p)
         /\ p.ct = "new" /\ Accepted(p) =>
              p.src = Local \/ p.proto = "infra" \/ SshRule(p) \/ PublicRule(p) \/ p.src \in list
         /\ p.ct = "new" /\ (SshRule(p) \/ PublicRule(p) \/ p.src \in list) =>
              Accepted(p) \/ (tab.knock /\ KnockRule(p))
<1> DEFINE c == Input(tab)
           m == Matches(p)
           D == Decider(p)
<1>1. InputHas(c, tab) BY InputIs
<1>2. \/ \E i \in DOMAIN c : D = c[i] /\ m[c[i]] /\ \A j \in DOMAIN c : j < i => ~m[c[j]]
      \/ (\A i \in DOMAIN c : ~m[c[i]]) /\ D = "policy_drop"
  <2>1. DOMAIN c \subseteq Nat BY <1>1 DEF InputHas
  <2>2. c = IF Routed(p) THEN Forward(tab) ELSE Input(tab) OBVIOUS
  <2> HIDE DEF c
  <2> QED BY <2>1, <2>2, FirstDecides
<1>3. /\ m["established"] <=> p.ct = "established"
      /\ m["invalid"] <=> p.ct = "invalid"
      /\ m["lo"] <=> p.src = Local
      /\ m["icmp"] <=> p.proto = "infra"
      /\ m["knock"] <=> KnockRule(p)
      /\ m["knocked_ssh"] <=>
           p.proto = "tcp" /\ p.dport = SshPort /\ p.src \in Sources /\ knocked[p.src] > 0
      /\ m["ssh"] <=> p.proto = "tcp" /\ p.dport = SshPort
      /\ m["public_tcp"] <=> p.proto = "tcp" /\ InSet(tab.tcp, p.dport)
      /\ m["public_udp"] <=> p.proto = "udp" /\ InSet(tab.udp, p.dport)
      /\ m["listed"] <=> p.src \in list
  BY MatchesAre
<1>4. Accepted(p) <=> D \notin {"invalid", "knock", "gate_rest", "policy_drop"}
  BY DEF Accepted, Drops
<1>5. "gate_rest" \notin InputRules /\ "policy_drop" \notin InputRules BY DEF InputRules
<1> HIDE DEF c, m, D
<1>6. ASSUME NEW i \in DOMAIN c, m[c[i]]
      PROVE  \E k \in DOMAIN c : k <= i /\ D = c[k] /\ m[c[k]]
        /\ \A j \in DOMAIN c : j < k => ~m[c[j]]
  <2>1. PICK k \in DOMAIN c : D = c[k] /\ m[c[k]] /\ \A j \in DOMAIN c : j < k => ~m[c[j]]
    BY <1>2, <1>6
  <2>2. ~(i < k) BY <2>1, <1>6
  <2>3. i \in Nat /\ k \in Nat BY <1>1 DEF InputHas
  <2>4. k <= i BY <2>2, <2>3
  <2> QED BY <2>1, <2>4
\* what the rule that decided is worth
<1>7. ASSUME NEW k \in DOMAIN c, D = c[k], m[c[k]], \A j \in DOMAIN c : j < k => ~m[c[j]]
      PROVE  /\ k \in Nat \ {0}
             /\ k > 1 => p.ct # "established"
             /\ k > 2 => p.ct # "invalid"
             /\ k > 3 => p.src # Local
             /\ k > 4 => p.proto # "infra"
             /\ D = "invalid" => p.ct = "invalid" /\ k = 2
             /\ D = "knock" => tab.knock /\ KnockRule(p) /\ k = 5
             /\ D \in InputRules
  <2>1. k \in Nat \ {0} /\ {1, 2, 3, 4} \subseteq DOMAIN c BY <1>1 DEF InputHas
  <2>2. c[1] = "established" /\ c[2] = "invalid" /\ c[3] = "lo" /\ c[4] = "icmp"
    BY <1>1 DEF InputHas
  <2>3. k > 1 => p.ct # "established" BY <1>3, <1>7, <2>1, <2>2
  <2>4. k > 2 => p.ct # "invalid" BY <1>3, <1>7, <2>1, <2>2
  <2>5. k > 3 => p.src # Local BY <1>3, <1>7, <2>1, <2>2
  <2>6. k > 4 => p.proto # "infra" BY <1>3, <1>7, <2>1, <2>2
  <2>7. D = "invalid" => p.ct = "invalid" /\ k = 2
    <3>1. D = "invalid" => ~(k > 4) BY <1>1, <1>7 DEF InputHas
    <3>3. D = "invalid" => k \in {1, 2, 3, 4} BY <3>1, <2>1
    <3>2. D = "invalid" => k = 2 BY <3>3, <1>7, <2>2
    <3> QED BY <3>2, <1>3, <1>7
  <2>8. D = "knock" => tab.knock /\ KnockRule(p) /\ k = 5 BY <1>1, <1>3, <1>7 DEF InputHas
  <2>9. D \in InputRules BY <1>1, <1>7 DEF InputHas
  <2> QED BY <2>1, <2>3, <2>4, <2>5, <2>6, <2>7, <2>8, <2>9
<1>8. p.ct = "established" => Accepted(p)
  <2> SUFFICES ASSUME p.ct = "established" PROVE Accepted(p) OBVIOUS
  <2>1. 1 \in DOMAIN c /\ m[c[1]] BY <1>1, <1>3 DEF InputHas
  <2>2. PICK k \in DOMAIN c : k <= 1 /\ D = c[k] /\ m[c[k]] /\ \A j \in DOMAIN c : j < k => ~m[c[j]]
    BY <2>1, <1>6
  <2>3. k = 1 BY <2>2, <1>7
  <2>4. D = "established" BY <2>2, <2>3, <1>1 DEF InputHas
  <2> QED BY <2>4, <1>4
<1>9. p.ct = "new" /\ (p.src = Local \/ p.proto = "infra") => Accepted(p)
  <2> SUFFICES ASSUME p.ct = "new", p.src = Local \/ p.proto = "infra" PROVE Accepted(p) OBVIOUS
  <2>1. \E i \in DOMAIN c : i <= 4 /\ m[c[i]] BY <1>1, <1>3 DEF InputHas
  <2>2. PICK i \in DOMAIN c : i <= 4 /\ m[c[i]] BY <2>1
  <2>3. PICK k \in DOMAIN c : k <= i /\ D = c[k] /\ m[c[k]] /\ \A j \in DOMAIN c : j < k => ~m[c[j]]
    BY <2>2, <1>6
  <2>4. D # "invalid" /\ D \in InputRules BY <2>3, <1>7
  <2>5. i \in Nat /\ k \in Nat BY <1>1 DEF InputHas
  <2>6. k # 5 BY <2>2, <2>3, <2>5
  <2>7. D # "knock" BY <2>3, <2>6, <1>7
  <2> QED BY <2>4, <2>7, <1>4, <1>5
<1>10. D = "knock" <=>
         /\ p.ct \notin {"established", "invalid"} /\ p.src # Local /\ p.proto # "infra"
         /\ tab.knock /\ KnockRule(p)
  <2>1. ASSUME D = "knock"
        PROVE /\ p.ct \notin {"established", "invalid"} /\ p.src # Local /\ p.proto # "infra"
              /\ tab.knock /\ KnockRule(p)
    <3>1. PICK k \in DOMAIN c : D = c[k] /\ m[c[k]] /\ \A j \in DOMAIN c : j < k => ~m[c[j]]
      BY <1>2, <2>1
    <3>2. k = 5 /\ tab.knock /\ KnockRule(p) BY <3>1, <2>1, <1>7
    <3> QED BY <3>1, <3>2, <1>7
  <2>2. ASSUME p.ct \notin {"established", "invalid"}, p.src # Local, p.proto # "infra",
               tab.knock, KnockRule(p)
        PROVE D = "knock"
    <3>1. 5 \in DOMAIN c /\ c[5] = "knock" /\ m[c[5]] BY <1>1, <1>3, <2>2 DEF InputHas
    <3>2. PICK k \in DOMAIN c : k <= 5 /\ D = c[k] /\ m[c[k]]
            /\ \A j \in DOMAIN c : j < k => ~m[c[j]]
      BY <3>1, <1>6
    <3>3. k \notin {1, 2, 3, 4} BY <1>1, <1>3, <2>2, <3>2 DEF InputHas
    <3>4. k = 5 BY <3>2, <3>3, <1>7
    <3> QED BY <3>1, <3>2, <3>4
  <2> QED BY <2>1, <2>2
<1>11. ASSUME p.ct = "new", Accepted(p)
       PROVE  p.src = Local \/ p.proto = "infra" \/ SshRule(p) \/ PublicRule(p) \/ p.src \in list
  <2>1. PICK k \in DOMAIN c : D = c[k] /\ m[c[k]] /\ \A j \in DOMAIN c : j < k => ~m[c[j]]
    BY <1>2, <1>4, <1>11
  <2>2. D \in InputRules \ {"invalid", "knock"} BY <1>4, <1>7, <1>11, <2>1
  <2>3. D # "established" BY <1>3, <1>11, <2>1
  <2>4. CASE D \in {"lo", "icmp", "public_tcp", "public_udp", "listed"}
    BY <2>1, <2>4, <1>3 DEF PublicRule
  <2>5. CASE D = "ssh"
    <3>1. ~tab.ssh BY <1>1, <2>1, <2>5 DEF InputHas
    <3> QED BY <3>1, <2>1, <2>5, <1>3 DEF SshRule
  <2>6. CASE D = "knocked_ssh"
    <3>1. tab.knock BY <1>1, <2>1, <2>6 DEF InputHas
    <3> QED BY <3>1, <2>1, <2>6, <1>3 DEF SshRule
  <2> QED BY <2>2, <2>3, <2>4, <2>5, <2>6 DEF InputRules
<1>12. ASSUME p.ct = "new", SshRule(p) \/ PublicRule(p) \/ p.src \in list
       PROVE  Accepted(p) \/ (tab.knock /\ KnockRule(p))
  <2>1. \E i \in DOMAIN c : m[c[i]]
    <3>1. CASE SshRule(p)
      <4>1. CASE ~tab.ssh
        <5>1. PICK i \in DOMAIN c : c[i] = "ssh" BY <4>1, <1>1 DEF InputHas
        <5> QED BY <5>1, <3>1, <1>3 DEF SshRule
      <4>2. CASE tab.ssh
        <5>1. tab.knock BY <4>2, <3>1 DEF SshRule
        <5>2. PICK i \in DOMAIN c : c[i] = "knocked_ssh" BY <5>1, <4>2, <1>1 DEF InputHas
        <5> QED BY <5>2, <3>1, <4>2, <1>3 DEF SshRule
      <4> QED BY <4>1, <4>2
    <3>2. CASE PublicRule(p)
      <4>1. PICK r \in {"public_tcp", "public_udp"} : m[r] BY <3>2, <1>3 DEF PublicRule
      <4>2. PICK i \in DOMAIN c : c[i] = r BY <1>1 DEF InputHas
      <4> QED BY <4>1, <4>2
    <3>3. CASE p.src \in list
      <4>1. PICK i \in DOMAIN c : c[i] = "listed" BY <1>1 DEF InputHas
      <4> QED BY <4>1, <3>3, <1>3
    <3> QED BY <3>1, <3>2, <3>3, <1>12
  <2>2. PICK k \in DOMAIN c : D = c[k] /\ m[c[k]] /\ \A j \in DOMAIN c : j < k => ~m[c[j]]
    BY <2>1, <1>6
  <2>3. D \in InputRules /\ D # "invalid" BY <2>2, <1>7, <1>12
  <2>4. D = "knock" => tab.knock /\ KnockRule(p) BY <2>2, <1>7
  <2> QED BY <2>3, <2>4, <1>4, <1>5
<1> QED BY <1>8, <1>9, <1>10, <1>11, <1>12 DEF D

\* The verdict on packets for others.
LEMMA ForwardVerdict ==
  ASSUME NEW p, Routed(p), tab.gate \in BOOLEAN
  PROVE  /\ p.ct = "established" => Accepted(p)
         /\ p.ct = "new"
              => (Accepted(p) <=> ~(tab.gate /\ p.dnat) \/ PublicRule(p) \/ p.src \in list)
         /\ Decider(p) # "knock"
<1> DEFINE c == Forward(tab)
           m == Matches(p)
           D == Decider(p)
<1>1. /\ DOMAIN c = IF tab.gate THEN {1, 2, 3, 4, 5} ELSE {}
      /\ tab.gate => /\ c[1] = "established" /\ c[2] = "gate_listed" /\ c[3] = "gate_tcp"
                     /\ c[4] = "gate_udp" /\ c[5] = "gate_rest"
  BY ForwardIs
<1>2. \/ \E i \in DOMAIN c : D = c[i] /\ m[c[i]] /\ \A j \in DOMAIN c : j < i => ~m[c[j]]
      \/ (\A i \in DOMAIN c : ~m[c[i]]) /\ D = "policy_accept"
  <2>1. DOMAIN c \subseteq Nat
    <3> HIDE DEF c
    <3> QED BY <1>1
  <2>2. c = IF Routed(p) THEN Forward(tab) ELSE Input(tab) OBVIOUS
  <2> HIDE DEF c
  <2> QED BY <2>1, <2>2, FirstDecides
<1>3. /\ m["established"] <=> p.ct = "established"
      /\ m["gate_listed"] <=> p.ct = "new" /\ p.dnat /\ p.src \in list
      /\ m["gate_tcp"] <=> p.ct = "new" /\ p.dnat /\ p.proto = "tcp" /\ InSet(tab.tcp, p.dport)
      /\ m["gate_udp"] <=> p.ct = "new" /\ p.dnat /\ p.proto = "udp" /\ InSet(tab.udp, p.dport)
      /\ m["gate_rest"] <=> p.ct = "new" /\ p.dnat
  BY MatchesAre
<1>4. Accepted(p) <=> D \notin {"invalid", "knock", "gate_rest", "policy_drop"}
  BY DEF Accepted, Drops
<1> HIDE DEF c, m, D
<1>5. CASE ~tab.gate
  <2>1. D = "policy_accept" BY <1>1, <1>2, <1>5
  <2> QED BY <2>1, <1>4, <1>5 DEF D
<1>6. CASE tab.gate
  <2>1. DOMAIN c = {1, 2, 3, 4, 5} BY <1>1, <1>6
  <2>2. /\ c[1] = "established" /\ c[2] = "gate_listed" /\ c[3] = "gate_tcp"
        /\ c[4] = "gate_udp" /\ c[5] = "gate_rest"
    BY <1>1, <1>6
  <2>3. D \in {"established", "gate_listed", "gate_tcp", "gate_udp", "gate_rest", "policy_accept"}
    BY <1>2, <2>1, <2>2
  <2>4. D = "gate_rest" <=>
          /\ m["gate_rest"] /\ ~m["established"] /\ ~m["gate_listed"] /\ ~m["gate_tcp"]
               /\ ~m["gate_udp"]
    <3>1. ASSUME D = "gate_rest"
          PROVE  /\ m["gate_rest"] /\ ~m["established"] /\ ~m["gate_listed"]
                 /\ ~m["gate_tcp"] /\ ~m["gate_udp"]
      <4>1. PICK i \in DOMAIN c : D = c[i] /\ m[c[i]] /\ \A j \in DOMAIN c : j < i => ~m[c[j]]
        BY <1>2, <3>1
      <4>2. i = 5 BY <4>1, <3>1, <2>1, <2>2
      <4> QED BY <4>1, <4>2, <2>1, <2>2
    <3>2. ASSUME m["gate_rest"], ~m["established"], ~m["gate_listed"], ~m["gate_tcp"],
            ~m["gate_udp"]
          PROVE  D = "gate_rest"
      <4>1. PICK i \in DOMAIN c : D = c[i] /\ m[c[i]] BY <1>2, <3>2, <2>1, <2>2
      <4>2. i = 5 BY <4>1, <3>2, <2>1, <2>2
      <4> QED BY <4>1, <4>2, <2>2
    <3> QED BY <3>1, <3>2
  <2>5. Accepted(p) <=> D # "gate_rest" BY <2>3, <1>4
  <2>6. p.ct = "established" => Accepted(p) BY <1>3, <2>4, <2>5
  <2>7. p.ct = "new" => (Accepted(p) <=> ~(tab.gate /\ p.dnat) \/ PublicRule(p) \/ p.src \in list)
    BY <1>3, <1>6, <2>4, <2>5 DEF PublicRule
  <2>8. D # "knock" BY <2>3
  <2> QED BY <2>6, <2>7, <2>8 DEF D
<1> QED BY <1>5, <1>6

-----------------------------------------------------------------------------
(***************************************************************************)
(* The inductive invariant: the table is the one rendered for the store,   *)
(* no public port of the store makes "SSH for the allowlist only" moot,    *)
(* and the kernel's timeouts run as the clock does.                        *)
(***************************************************************************)

Stored == public \in Ranges /\ fwd \in BOOLEAN
Loaded ==
  /\ tab.ssh \in BOOLEAN /\ tab.knock \in BOOLEAN /\ tab.gate \in BOOLEAN
  /\ tab = Table(tab.ssh, tab.knock, tab.gate, public)
Closed == tab.ssh => \A r \in ToSet(public) : ~CoversSsh(r)
KnocksCount ==
  /\ since \in [Sources -> 0..KnockTtl]
  /\ knocked = [s \in Sources |-> KnockTtl - since[s]]
  /\ \A s \in Sources : knocked[s] > 0 => tab.knock

FilterInv == Stored /\ Loaded /\ Closed /\ KnocksCount

\* What the fields of a packet are.
LEMMA PacketIs ==
  ASSUME NEW p \in Packets
  PROVE  /\ p.ct \in {"new", "established", "invalid"} /\ p.src \in Sources \cup {Local}
         /\ p.dest \in {"host", "beyond"} /\ p.dport \in PortNumbers
         /\ p.token \in BOOLEAN /\ p.dnat \in BOOLEAN
         /\ p.proto \in Protos \cup {"infra", "echo"}
         /\ p.token => p.proto = "udp" /\ p.dport = KnockPort
         /\ p.src = Local \/ p.dest = "beyond" => ~p.dnat
         /\ p.proto \in {"infra", "echo"} => p.dest = "host" /\ ~p.dnat
<1>1. 0 \in PortNumbers BY PacketFilterOK DEF PortNumbers
<1>2. Local \notin Sources BY PacketFilterOK
<1> QED BY <1>1, <1>2 DEF Packets, Protos

\* A packet is taken for a knock exactly when it is one.
LEMMA KnocksAreKnocks ==
  ASSUME NEW p \in Packets, tab.knock \in BOOLEAN, tab.ssh \in BOOLEAN, tab.gate \in BOOLEAN
  PROVE  Decider(p) = "knock" <=> Knocks(p)
<1>1. Local \notin Sources BY PacketFilterOK
<1>2. CASE Routed(p)
  <2>1. Decider(p) # "knock" BY <1>2, ForwardVerdict
  <2>2. ~Knocks(p) BY <1>2 DEF Knocks, Routed
  <2> QED BY <2>1, <2>2
<1>3. CASE ~Routed(p)
  <2>1. Decider(p) = "knock" <=>
          /\ p.ct \notin {"established", "invalid"} /\ p.src # Local /\ p.proto # "infra"
          /\ tab.knock /\ KnockRule(p)
    BY <1>3, InputVerdict
  <2> QED BY <2>1, <1>1, <1>3, PacketIs DEF Knocks, KnockRule, Routed
<1> QED BY <1>2, <1>3

\* Loading the table for a store keeps the invariant.
LEMMA LoadKeeps ==
  ASSUME FilterInv, NEW ssh \in BOOLEAN, NEW knock \in BOOLEAN, NEW gate \in BOOLEAN,
         LoadTable(Table(ssh, knock, gate, public')), public' \in Ranges, fwd' \in BOOLEAN,
         ssh => \A r \in ToSet(public') : ~CoversSsh(r)
  PROVE  FilterInv'
<1> DEFINE t == Table(ssh, knock, gate, public')
<1>1. tab' = t BY DEF LoadTable
<1>2. t.ssh = ssh /\ t.knock = knock /\ t.gate = gate BY DEF Table
<1>3. Loaded'
  <2> HIDE DEF t
  <2>1. tab' = Table(ssh, knock, gate, public') BY <1>1 DEF t
  <2> QED BY <1>1, <1>2, <2>1 DEF Loaded
<1> HIDE DEF t
<1>4. Stored' BY DEF Stored
<1>5. Closed' BY <1>1, <1>2 DEF Closed
<1>6. KnocksCount'
  <2>1. KnockTtl \in Nat BY PacketFilterOK
  <2>2. knocked' = [s \in Sources |-> 0] /\ since' = [s \in Sources |-> KnockTtl] BY DEF LoadTable
  <2> QED BY <2>1, <2>2 DEF KnocksCount
<1> QED BY <1>3, <1>4, <1>5, <1>6 DEF FilterInv

\* The agent begins with an empty store and the table rendered for it.
LEMMA FilterInvInit == FilterInit => FilterInv
<1> SUFFICES ASSUME FilterInit PROVE FilterInv OBVIOUS
<1> USE DEF FilterInit
<1>1. Stored
  <2>1. <<>> \in Seq(PublicPorts) /\ \A i \in DOMAIN <<>> : FALSE OBVIOUS
  <2>2. <<>> \in Ranges BY <2>1 DEF Ranges
  <2> QED BY <2>2 DEF Stored
<1>2. Loaded
  <2> DEFINE t == Table(FALSE, FALSE, FALSE, <<>>)
  <2>1. t.ssh = FALSE /\ t.knock = FALSE /\ t.gate = FALSE BY DEF Table
  <2> HIDE DEF t
  <2>2. tab = t BY DEF t
  <2>3. tab = Table(tab.ssh, tab.knock, tab.gate, public) BY <2>1, <2>2 DEF t
  <2> QED BY <2>1, <2>2, <2>3 DEF Loaded
<1>3. Closed BY DEF Closed, Table
<1>4. KnocksCount
  <2>1. KnockTtl \in Nat BY PacketFilterOK
  <2> QED BY <2>1 DEF KnocksCount
<1> QED BY <1>1, <1>2, <1>3, <1>4 DEF FilterInv

\* A packet only starts the time of its source anew, and only when it is a knock.
LEMMA ReceiveKeeps ==
  ASSUME FilterInv, NEW p \in Packets, Receive(p)
  PROVE  FilterInv'
<1>1. UNCHANGED <<public, fwd, tab>> BY DEF Receive
<1>2. Stored' /\ Loaded' /\ Closed' BY <1>1 DEF FilterInv, Stored, Loaded, Closed
<1>3. KnocksCount'
  <2>1. Decider(p) = "knock" <=> Knocks(p) BY KnocksAreKnocks DEF FilterInv, Loaded
  <2>2. KnockTtl \in Nat BY PacketFilterOK
  <2>3. CASE Knocks(p)
    <3>1. knocked' = [knocked EXCEPT ![p.src] = KnockTtl] /\ since' = [since EXCEPT ![p.src] = 0]
      BY <2>1, <2>3 DEF Receive, Knocked
    <3>2. p.src \in Sources /\ tab.knock BY <2>3 DEF Knocks
    <3> QED BY <3>1, <3>2, <2>2, <1>1 DEF FilterInv, KnocksCount
  <2>4. CASE ~Knocks(p)
    <3>1. knocked' = knocked /\ since' = since BY <2>1, <2>4 DEF Receive
    <3> QED BY <3>1, <1>1 DEF FilterInv, KnocksCount
  <2> QED BY <2>3, <2>4
<1> QED BY <1>2, <1>3 DEF FilterInv

\* The clock of the kernel and the one of the history tick alike.
LEMMA TickKeeps ==
  ASSUME FilterInv, Tick
  PROVE  FilterInv'
<1>1. UNCHANGED <<public, fwd, tab>> BY DEF Tick
<1>2. Stored' /\ Loaded' /\ Closed' BY <1>1 DEF FilterInv, Stored, Loaded, Closed
<1>3. KnocksCount'
  <2>1. KnockTtl \in Nat BY PacketFilterOK
  <2>2. ASSUME NEW n \in 0..KnockTtl
        PROVE  /\ Min({n + 1, KnockTtl}) = IF n < KnockTtl THEN n + 1 ELSE KnockTtl
               /\ Less(KnockTtl - n) = KnockTtl - Min({n + 1, KnockTtl})
    <3>1. {n + 1, KnockTtl} \in SUBSET Nat /\ {n + 1, KnockTtl} # {} BY <2>1
    <3>2. /\ Min({n + 1, KnockTtl}) \in {n + 1, KnockTtl}
          /\ \A y \in {n + 1, KnockTtl} : Min({n + 1, KnockTtl}) <= y
      BY <3>1, MinIsLeast
    <3> DEFINE l == Min({n + 1, KnockTtl})
    <3> HIDE DEF l
    <3>3. (l = n + 1 \/ l = KnockTtl) /\ l <= n + 1 /\ l <= KnockTtl BY <3>2 DEF l
    <3>4. l = IF n < KnockTtl THEN n + 1 ELSE KnockTtl BY <3>3, <2>1
    <3>5. Less(KnockTtl - n) = KnockTtl - l BY <3>4, <2>1 DEF Less
    <3> QED BY <3>4, <3>5 DEF l
  <2>3. \A s \in Sources : since[s] \in 0..KnockTtl /\ knocked[s] = KnockTtl - since[s]
    BY DEF FilterInv, KnocksCount
  <2>4. /\ knocked' = [s \in Sources |-> Less(knocked[s])]
        /\ since' = [s \in Sources |-> Min({since[s] + 1, KnockTtl})]
    BY DEF Tick
  <2>5. ASSUME NEW s \in Sources
        PROVE  /\ since'[s] \in 0..KnockTtl /\ knocked'[s] = KnockTtl - since'[s]
               /\ knocked'[s] > 0 => knocked[s] > 0
    <3>1. since[s] \in 0..KnockTtl /\ knocked[s] = KnockTtl - since[s] BY <2>3
    <3>2. since'[s] = IF since[s] < KnockTtl THEN since[s] + 1 ELSE KnockTtl BY <3>1, <2>2, <2>4
    <3>3. knocked'[s] = KnockTtl - since'[s] BY <3>1, <2>2, <2>4
    <3> QED BY <3>1, <3>2, <3>3, <2>1
  <2>6. since' \in [Sources -> 0..KnockTtl] BY <2>4, <2>5
  <2>7. knocked' = [s \in Sources |-> KnockTtl - since'[s]] BY <2>4, <2>5
  <2>8. \A s \in Sources : knocked'[s] > 0 => tab'.knock
    BY <2>5, <1>1 DEF FilterInv, KnocksCount
  <2> QED BY <2>6, <2>7, <2>8 DEF KnocksCount
<1> QED BY <1>2, <1>3 DEF FilterInv

\* A port added to the store, and one taken from it.
LEMMA AddKeepsRanges ==
  ASSUME public \in Ranges, NEW r \in PublicPorts, r.lo <= r.hi
  PROVE  Append(public, r) \in Ranges /\ ToSet(Append(public, r)) = ToSet(public) \cup {r}
<1> DEFINE a == Append(public, r)
<1>1. public \in Seq(PublicPorts) /\ \A i \in DOMAIN public : public[i].lo <= public[i].hi
  BY DEF Ranges
<1>2. a \in Seq(PublicPorts) /\ Len(a) = Len(public) + 1 /\ a[Len(public) + 1] = r
  BY <1>1
<1>3. \A i \in DOMAIN public : a[i] = public[i] BY <1>1
<1> HIDE DEF a
<1>4. \A i \in DOMAIN a : i \in DOMAIN public \/ i = Len(public) + 1 BY <1>1, <1>2
<1>5. DOMAIN public \subseteq DOMAIN a /\ Len(public) + 1 \in DOMAIN a BY <1>1, <1>2
<1>6. a \in Ranges BY <1>1, <1>2, <1>3, <1>4 DEF Ranges
<1>7. ToSet(a) = ToSet(public) \cup {r} BY <1>2, <1>3, <1>4, <1>5 DEF ToSet
<1> QED BY <1>6, <1>7 DEF a

\* What is left of the store was in it before.
LEMMA RemoveKeepsRanges ==
  ASSUME public \in Ranges, NEW k \in DOMAIN public
  PROVE  RemoveAt(public, k) \in Ranges /\ ToSet(RemoveAt(public, k)) \subseteq ToSet(public)
<1>1. public \in Seq(PublicPorts) /\ \A i \in DOMAIN public : public[i].lo <= public[i].hi
  BY DEF Ranges
<1> DEFINE a == RemoveAt(public, k)
<1>2. a \in Seq(PublicPorts) BY <1>1, RemoveAtIs
<1>3. \A i \in DOMAIN a : \E j \in DOMAIN public : a[i] = public[j] BY <1>1, RemoveAtIs
<1> HIDE DEF a
<1>4. a \in Ranges BY <1>1, <1>2, <1>3 DEF Ranges
<1>5. ToSet(a) \subseteq ToSet(public) BY <1>3 DEF ToSet
<1> QED BY <1>4, <1>5 DEF a

\* Calls that change settings, and rebuilds.
LEMMA CallsKeep ==
  ASSUME FilterInv, SwitchCall
  PROVE  FilterInv'
<1>1. /\ public \in Ranges /\ fwd \in BOOLEAN /\ tab.ssh \in BOOLEAN
      /\ tab.ssh => \A r \in ToSet(public) : ~CoversSsh(r)
  BY DEF FilterInv, Stored, Loaded, Closed
<1>2. CASE Rerender
  <2>1. PICK knock \in {FALSE, tab.ssh}, gate \in {FALSE, fwd} :
          LoadTable(Table(tab.ssh, knock, gate, public))
    BY <1>2 DEF Rerender
  <2>2. public' = public /\ fwd' = fwd BY <1>2 DEF Rerender
  <2>3. knock \in BOOLEAN /\ gate \in BOOLEAN BY <1>1
  <2>4. LoadTable(Table(tab.ssh, knock, gate, public')) BY <2>1, <2>2
  <2> QED BY <1>1, <2>2, <2>3, <2>4, LoadKeeps
<1>3. ASSUME NEW on \in BOOLEAN, SwitchSsh(on) PROVE FilterInv'
  <2>1. PICK gate \in {FALSE, fwd} : LoadTable(Table(on, on, gate, public))
    BY <1>3 DEF SwitchSsh
  <2>2. public' = public /\ fwd' = fwd BY <1>3 DEF SwitchSsh
  <2>3. gate \in BOOLEAN BY <1>1
  <2>4. on => \A r \in ToSet(public) : ~CoversSsh(r)
    <3>1. ToSet(ConfigPublic \o public) = ToSet(ConfigPublic) \cup ToSet(public) BY <1>1, AllAsked
    <3> QED BY <1>3, <3>1 DEF SwitchSsh
  <2>5. LoadTable(Table(on, on, gate, public')) BY <2>1, <2>2
  <2> QED BY <1>1, <2>2, <2>3, <2>4, <2>5, LoadKeeps
<1>4. ASSUME NEW on \in BOOLEAN, SwitchForward(on) PROVE FilterInv'
  <2>1. PICK knock \in {FALSE, tab.ssh} : LoadTable(Table(tab.ssh, knock, on, public))
    BY <1>4 DEF SwitchForward
  <2>2. public' = public /\ fwd' = on BY <1>4 DEF SwitchForward
  <2>3. knock \in BOOLEAN BY <1>1
  <2>4. LoadTable(Table(tab.ssh, knock, on, public')) BY <2>1, <2>2
  <2> QED BY <1>1, <2>2, <2>3, <2>4, LoadKeeps
<1>5. ASSUME NEW r \in Requests, AddPublicPort(r) PROVE FilterInv'
  <2>1. PICK knock \in {FALSE, tab.ssh}, gate \in {FALSE, fwd} :
          LoadTable(Table(tab.ssh, knock, gate, public'))
    BY <1>5 DEF AddPublicPort
  <2>2. public' = Append(public, r) /\ fwd' = fwd /\ r.lo <= r.hi /\ (tab.ssh => ~CoversSsh(r))
    BY <1>5 DEF AddPublicPort
  <2>3. knock \in BOOLEAN /\ gate \in BOOLEAN BY <1>1
  <2>4. r \in PublicPorts BY PacketFilterOK
  <2>5. public' \in Ranges /\ ToSet(public') = ToSet(public) \cup {r}
    BY <1>1, <2>2, <2>4, AddKeepsRanges
  <2>6. tab.ssh => \A q \in ToSet(public') : ~CoversSsh(q) BY <1>1, <2>2, <2>5
  <2> QED BY <1>1, <2>1, <2>2, <2>3, <2>5, <2>6, LoadKeeps
<1>6. ASSUME NEW r \in Requests, RemovePublicPort(r) PROVE FilterInv'
  <2>1. PICK knock \in {FALSE, tab.ssh}, gate \in {FALSE, fwd} :
          LoadTable(Table(tab.ssh, knock, gate, public'))
    BY <1>6 DEF RemovePublicPort
  <2>2. PICK k \in DOMAIN public : public' = RemoveAt(public, k)
    BY <1>6 DEF RemovePublicPort
  <2>3. knock \in BOOLEAN /\ gate \in BOOLEAN /\ fwd' = fwd BY <1>1, <1>6 DEF RemovePublicPort
  <2>4. public' \in Ranges /\ ToSet(public') \subseteq ToSet(public)
    BY <1>1, <2>2, RemoveKeepsRanges
  <2>5. tab.ssh => \A q \in ToSet(public') : ~CoversSsh(q) BY <1>1, <2>4
  <2> QED BY <1>1, <2>1, <2>3, <2>4, <2>5, LoadKeeps
<1> QED BY <1>2, <1>3, <1>4, <1>5, <1>6 DEF SwitchCall

\* Every step keeps the invariant: lists, translations and flows do not touch it.
LEMMA FilterInvNext == FilterInv /\ [FilterNext]_filterVars => FilterInv'
<1> SUFFICES ASSUME FilterInv, [FilterNext]_filterVars PROVE FilterInv'
  OBVIOUS
<1>1. CASE SwitchCall BY <1>1, CallsKeep
<1>2. CASE UNCHANGED <<public, fwd, tab, knocked, since>>
  <2>1. Stored' /\ Loaded' /\ Closed' BY <1>2 DEF FilterInv, Stored, Loaded, Closed
  <2>2. KnocksCount' BY <1>2 DEF FilterInv, KnocksCount
  <2> QED BY <2>1, <2>2 DEF FilterInv
<1>3. ASSUME NEW s \in Sources, Relist(s) PROVE FilterInv' BY <1>2, <1>3 DEF Relist
<1>4. ASSUME NEW D \in SUBSET Dnats, ChangeDnats(D) PROVE FilterInv' BY <1>2, <1>4 DEF ChangeDnats
<1>5. ASSUME NEW p \in Packets, Receive(p) PROVE FilterInv' BY <1>5, ReceiveKeeps
<1>6. CASE Tick BY <1>6, TickKeeps
<1>7. ASSUME NEW f \in flows, FlowEnds(f) PROVE FilterInv' BY <1>2, <1>7 DEF FlowEnds
<1>8. CASE UNCHANGED filterVars BY <1>2, <1>8 DEF filterVars
<1> QED BY <1>1, <1>3, <1>4, <1>5, <1>6, <1>7, <1>8 DEF FilterNext

\* Whatever is called, loaded, received and in whatever order, the table in force is the
\* one of the store and the kernel's knocks are the ones of the history.
THEOREM FilterInvariant == FilterSpec => []FilterInv
BY FilterInvInit, FilterInvNext, PTL DEF FilterSpec

-----------------------------------------------------------------------------
(***************************************************************************)
(* What the rules promise.                                                 *)
(***************************************************************************)

\* A port set of the table holds what was asked for, and its elements are apart.
LEMMA SetsAreExact ==
  ASSUME FilterInv
  PROVE  /\ Apart(tab.tcp) /\ Apart(tab.udp)
         /\ \A port \in PortNumbers : /\ InSet(tab.tcp, port) <=> Asked("tcp", port)
                                      /\ InSet(tab.udp, port) <=> Asked("udp", port)
<1>1. public \in Ranges BY DEF FilterInv, Stored
<1>2. /\ tab.tcp = render_ports(PortsFor("tcp", public))
      /\ tab.udp = render_ports(PortsFor("udp", public))
  <2> DEFINE t == Table(tab.ssh, tab.knock, tab.gate, public)
  <2>1. /\ t.tcp = render_ports(PortsFor("tcp", public))
        /\ t.udp = render_ports(PortsFor("udp", public))
    BY DEF Table
  <2>2. tab = t BY DEF FilterInv, Loaded
  <2> HIDE DEF t
  <2> QED BY <2>1, <2>2
<1>3. ASSUME NEW proto
      PROVE  LET s == render_ports(PortsFor(proto, public))
             IN /\ Apart(s)
                /\ \A port \in PortNumbers : InSet(s, port) <=> Asked(proto, port)
  <2> DEFINE rs == PortsFor(proto, public)
             s == render_ports(rs)
  <2>1. /\ rs \in Seq(Spans)
        /\ \A port \in PortNumbers : InSet(rs, port) <=> Asked(proto, port)
    BY <1>1, PortsForIs DEF Asked
  <2> HIDE DEF rs
  <2>2. Apart(s) /\ Holds(s, rs, Len(rs)) BY <2>1, RenderPortsIs
  <2> HIDE DEF s
  <2>3. \A port \in PortNumbers : InSet(rs, port) <=> \E i \in 1..Len(rs) : Covers(rs[i], port)
    BY <2>1 DEF InSet
  <2>4. Apart(s) /\ \A port \in PortNumbers : InSet(s, port) <=> Asked(proto, port)
    BY <2>1, <2>2, <2>3 DEF Holds
  <2> QED BY <2>4 DEF s, rs
<1> QED BY <1>2, <1>3

\* For any ranges config.json and clients ask for, the elements rendered are apart and
\* hold the ports asked for and no more (render_ports).
THEOREM ElementsExact == FilterSpec => []RenderedExact
<1>1. FilterInv => RenderedExact
  <2> SUFFICES ASSUME FilterInv PROVE RenderedExact OBVIOUS
  <2>1. /\ Apart(tab.tcp) /\ Apart(tab.udp)
        /\ \A port \in PortNumbers : /\ InSet(tab.tcp, port) <=> Asked("tcp", port)
                                     /\ InSet(tab.udp, port) <=> Asked("udp", port)
    BY SetsAreExact
  <2> QED BY <2>1 DEF RenderedExact, Apart
<1> QED BY <1>1, FilterInvariant, PTL

\* What the public rules accept are the ports asked for.
LEMMA PublicIsAsked ==
  ASSUME FilterInv, NEW p, p.dport \in PortNumbers
  PROVE  PublicRule(p) <=> p.proto \in Protos /\ Asked(p.proto, p.dport)
BY SetsAreExact DEF PublicRule, Protos

\* Whoever asked for a port asked for it with a protocol that has ports.
LEMMA AskedHasPorts ==
  ASSUME FilterInv, NEW proto, NEW port, Asked(proto, port)
  PROVE  proto \in Protos
<1>1. PICK r \in ToSet(ConfigPublic \o public) : proto \in r.protos BY DEF Asked
<1>2. ConfigPublic \o public \in Ranges BY AllAsked DEF FilterInv, Stored
<1> DEFINE a == ConfigPublic \o public
<1> HIDE DEF a
<1>3. \A q \in ToSet(a) : q \in PublicPorts
  <2>1. a \in Seq(PublicPorts) BY <1>2 DEF Ranges, a
  <2> QED BY <2>1 DEF ToSet
<1>4. r \in PublicPorts BY <1>1, <1>3 DEF a
<1> QED BY <1>1, <1>4 DEF PublicPorts

\* In any order of tables, lists, knocks and translations, no packet is dropped of
\* someone who is entitled, has knocked in time or is connected.
THEOREM RulesShutNobodyOut == FilterSpec => []NobodyShutOut
<1>1. FilterInv => NobodyShutOut
  <2> SUFFICES ASSUME FilterInv PROVE NobodyShutOut OBVIOUS
  <2>1. tab.knock \in BOOLEAN /\ tab.ssh \in BOOLEAN /\ tab.gate \in BOOLEAN
    BY DEF FilterInv, Loaded
  <2>2. Local \notin Sources /\ KnockTtl \in Nat BY PacketFilterOK
  <2>3. KnockOpensSsh
    <3> SUFFICES ASSUME NEW p \in Packets, IsSsh(p), p.ct = "new", p.src \in Sources,
                        since[p.src] < KnockTtl
                 PROVE  Accepted(p)
      BY DEF KnockOpensSsh
    <3>1. ~Routed(p) BY DEF IsSsh, Routed
    <3>2. since[p.src] \in 0..KnockTtl /\ knocked[p.src] = KnockTtl - since[p.src]
      BY DEF FilterInv, KnocksCount
    <3>3. knocked[p.src] > 0 BY <3>2, <2>2
    <3>4. tab.knock BY <3>3 DEF FilterInv, KnocksCount
    <3>5. SshRule(p) BY <3>3, <3>4 DEF SshRule, IsSsh
    <3>6. ~KnockRule(p) BY DEF KnockRule, IsSsh
    <3> QED BY <3>1, <3>5, <3>6, <2>1, InputVerdict
  <2>4. EntitledGetThrough
    <3> SUFFICES ASSUME NEW p \in Packets, p.ct = "new", Entitled(p), ~Knocks(p)
                 PROVE  Accepted(p)
      BY DEF EntitledGetThrough
    <3>1. Asked(p.proto, p.dport) => PublicRule(p) BY PublicIsAsked, AskedHasPorts, PacketIs
    <3>2. CASE Routed(p)
      <4>1. p.dnat => p.src \in list \/ PublicRule(p)
        <5> SUFFICES ASSUME p.dnat PROVE p.src \in list \/ PublicRule(p) OBVIOUS
        <5>1. p.src # Local /\ p.dest # "beyond" /\ p.proto # "infra" BY PacketIs
        <5> QED BY <5>1, <3>1, <3>2 DEF Entitled
      <4> QED BY <4>1, <3>2, <2>1, ForwardVerdict
    <3>3. CASE ~Routed(p)
      <4>1. p.src = Local \/ p.proto = "infra" => Accepted(p) BY <3>3, <2>1, InputVerdict
      <4>2. ASSUME p.src # Local, p.proto # "infra" PROVE Accepted(p)
        <5>1. ~(tab.knock /\ KnockRule(p))
          BY <4>2, <3>3, PacketIs DEF Knocks, KnockRule, Routed
        <5>2. p.dest # "beyond" BY <3>3 DEF Routed
        <5>3. p.src \in list \/ PublicRule(p) \/ SshRule(p)
          BY <3>1, <4>2, <5>2 DEF Entitled, SshRule
        <5> QED BY <5>1, <5>3, <3>3, <2>1, InputVerdict
      <4> QED BY <4>1, <4>2
    <3> QED BY <3>2, <3>3
  <2>5. FlowsSurvive
    <3> SUFFICES ASSUME NEW p \in Packets, p.ct = "established" PROVE Accepted(p)
      BY DEF FlowsSurvive
    <3>1. CASE Routed(p) BY <3>1, <2>1, ForwardVerdict
    <3>2. CASE ~Routed(p) BY <3>2, <2>1, InputVerdict
    <3> QED BY <3>1, <3>2
  <2> QED BY <2>3, <2>4, <2>5 DEF NobodyShutOut
<1> QED BY <1>1, FilterInvariant, PTL

\* Only a packet that is accepted opens a flow, its own.
LEMMA OnlyPacketsOpen ==
  ASSUME [FilterNext]_filterVars, NEW f \in flows' \ flows
  PROVE  \E p \in Packets : /\ f = FlowOf(p) /\ Accepted(p) /\ p.ct = "new"
                             /\ p.proto \in Protos /\ p.src # Local
<1>1. CASE \E p \in Packets : Receive(p)
  <2>1. PICK p \in Packets : Receive(p) BY <1>1
  <2> QED BY <2>1 DEF Receive
<1>2. CASE flows' \subseteq flows BY <1>2
<1>3. CASE SwitchCall
  BY <1>2, <1>3 DEF SwitchCall, Rerender, SwitchSsh, SwitchForward, AddPublicPort, RemovePublicPort,
    LoadTable
<1>4. CASE (\E s \in Sources : Relist(s)) \/ (\E D \in SUBSET Dnats : ChangeDnats(D)) \/ Tick
  BY <1>2, <1>4 DEF Relist, ChangeDnats, Tick
<1>5. CASE \E g \in flows : FlowEnds(g) BY <1>2, <1>5 DEF FlowEnds
<1>6. CASE UNCHANGED filterVars BY <1>2, <1>6 DEF filterVars
<1> QED BY <1>1, <1>3, <1>4, <1>5, <1>6 DEF FilterNext

\* Who got a new packet accepted that is not from the host: someone entitled, someone
\* who knocked in time and goes to sshd, or a forward without gate.
LEMMA WhoGotIn ==
  ASSUME FilterInv, NEW p \in Packets, Accepted(p), p.ct = "new", p.proto \in Protos, p.src # Local
  PROVE  IF Routed(p)
         THEN ~(tab.gate /\ p.dnat) \/ Asked(p.proto, p.dport) \/ p.src \in list
         ELSE \/ Asked(p.proto, p.dport) \/ p.src \in list
              \/ /\ p.proto = "tcp" /\ p.dport = SshPort
                 /\ ~tab.ssh \/ (p.src \in Sources /\ since[p.src] < KnockTtl)
<1>1. tab.knock \in BOOLEAN /\ tab.ssh \in BOOLEAN /\ tab.gate \in BOOLEAN
  BY DEF FilterInv, Loaded
<1>2. PublicRule(p) => Asked(p.proto, p.dport) BY PublicIsAsked, PacketIs
<1>3. CASE Routed(p) BY <1>1, <1>2, <1>3, ForwardVerdict
<1>4. CASE ~Routed(p)
  <2>1. SshRule(p) \/ PublicRule(p) \/ p.src \in list
    <3>1. p.proto # "infra" BY DEF Protos
    <3> QED BY <3>1, <1>1, <1>4, InputVerdict
  <2>2. ASSUME p.src \in Sources, knocked[p.src] > 0 PROVE since[p.src] < KnockTtl
    <3>1. since[p.src] \in 0..KnockTtl /\ knocked[p.src] = KnockTtl - since[p.src]
      BY <2>2 DEF FilterInv, KnocksCount
    <3>2. KnockTtl \in Nat BY PacketFilterOK
    <3> QED BY <2>2, <3>1, <3>2
  <2> QED BY <2>1, <2>2, <1>2, <1>4 DEF SshRule
<1> QED BY <1>3, <1>4

\* The fields of the flow a packet belongs to.
LEMMA FlowIs ==
  ASSUME NEW p
  PROVE  /\ FlowOf(p).src = p.src /\ FlowOf(p).dest = p.dest /\ FlowOf(p).proto = p.proto
         /\ FlowOf(p).dport = p.dport /\ FlowOf(p).dnat = p.dnat
         /\ Routed(FlowOf(p)) <=> Routed(p)
BY DEF FlowOf, Routed

\* No order of settings, lists, knocks and tables lets anyone else connect: neither to
\* sshd while it is for the allowlist only, nor to anything else.
THEOREM RulesLetNobodyElseIn == FilterSpec => NobodyElseEnters
<1>1. FilterInv /\ [FilterNext]_filterVars =>
        (\A f \in flows' \ flows : IsSsh(f) /\ tab.ssh /\ f.src # Local =>
           f.src \in list \/ since[f.src] < KnockTtl \/ \E r \in ToSet(ConfigPublic) : CoversSsh(r))
  <2> SUFFICES ASSUME FilterInv, [FilterNext]_filterVars, NEW f \in flows' \ flows,
                      IsSsh(f), tab.ssh
               PROVE  \/ f.src \in list \/ since[f.src] < KnockTtl
                      \/ \E r \in ToSet(ConfigPublic) : CoversSsh(r)
    OBVIOUS
  <2>1. PICK p \in Packets : /\ f = FlowOf(p) /\ Accepted(p) /\ p.ct = "new"
                             /\ p.proto \in Protos /\ p.src # Local
    BY OnlyPacketsOpen
  <2>2. IsSsh(p) /\ ~Routed(p) /\ f.src = p.src BY <2>1, FlowIs DEF IsSsh, Routed
  <2>3. Asked("tcp", SshPort) \/ p.src \in list \/ since[p.src] < KnockTtl
    BY <2>1, <2>2, WhoGotIn DEF IsSsh
  <2>4. ASSUME Asked("tcp", SshPort) PROVE \E r \in ToSet(ConfigPublic) : CoversSsh(r)
    <3>1. PICK r \in ToSet(ConfigPublic \o public) : CoversSsh(r) BY <2>4 DEF Asked, CoversSsh
    <3>2. ToSet(ConfigPublic \o public) = ToSet(ConfigPublic) \cup ToSet(public)
      BY AllAsked DEF FilterInv, Stored
    <3>3. r \notin ToSet(public) BY <3>1 DEF FilterInv, Closed
    <3> QED BY <3>1, <3>2, <3>3
  <2> QED BY <2>2, <2>3, <2>4
<1>2. FilterInv /\ [FilterNext]_filterVars =>
        (\A f \in flows' \ flows :
           Entitled(f) \/ (f.dnat /\ ~tab.gate)
             \/ (IsSsh(f) /\ f.src \in Sources /\ since[f.src] < KnockTtl))
  <2> SUFFICES ASSUME FilterInv, [FilterNext]_filterVars, NEW f \in flows' \ flows
               PROVE  \/ Entitled(f) \/ (f.dnat /\ ~tab.gate)
                      \/ (IsSsh(f) /\ f.src \in Sources /\ since[f.src] < KnockTtl)
    OBVIOUS
  <2>1. PICK p \in Packets : /\ f = FlowOf(p) /\ Accepted(p) /\ p.ct = "new"
                             /\ p.proto \in Protos /\ p.src # Local
    BY OnlyPacketsOpen
  <2>2. /\ f.src = p.src /\ f.dest = p.dest /\ f.proto = p.proto /\ f.dport = p.dport
        /\ f.dnat = p.dnat /\ (Routed(f) <=> Routed(p))
    BY <2>1, FlowIs
  <2>3. CASE Routed(p)
    <3>1. ~(tab.gate /\ p.dnat) \/ Asked(p.proto, p.dport) \/ p.src \in list
      BY <2>1, <2>3, WhoGotIn
    <3>2. ~p.dnat => p.dest = "beyond" BY <2>3 DEF Routed
    <3> QED BY <2>2, <3>1, <3>2 DEF Entitled
  <2>4. CASE ~Routed(p)
    <3>1. \/ Asked(p.proto, p.dport) \/ p.src \in list
          \/ /\ p.proto = "tcp" /\ p.dport = SshPort
             /\ ~tab.ssh \/ (p.src \in Sources /\ since[p.src] < KnockTtl)
      BY <2>1, <2>4, WhoGotIn
    <3>2. p.dest = "host" /\ ~p.dnat BY <2>4, PacketIs DEF Routed
    <3> QED BY <2>2, <2>4, <3>1, <3>2 DEF Entitled, IsSsh
  <2> QED BY <2>3, <2>4
<1> QED BY <1>1, <1>2, FilterInvariant, PTL
     DEF FilterSpec, NobodyElseEnters, SshOnlyByListOrKnock, OnlyEntitledEnter

-----------------------------------------------------------------------------
(***************************************************************************)
(* What the variables range over.                                          *)
(***************************************************************************)

\* The store, the lists and conntrack stay within their bounds.
Bounded ==
  /\ ToSet(public) \subseteq Requests /\ Len(public) <= MaxPublic
  /\ list \subseteq Sources /\ dnats \subseteq Dnats
  /\ flows \subseteq {FlowOf(p) : p \in Packets}
  /\ IsFiniteSet(flows) /\ Cardinality(flows) <= MaxFlows

\* Every step keeps them.
LEMMA BoundedStep == ASSUME FilterInv, Bounded, [FilterNext]_filterVars PROVE Bounded'
<1>0. /\ public \in Ranges /\ public \in Seq(PublicPorts) /\ Len(public) \in Nat
      /\ MaxPublic \in Nat /\ MaxFlows \in Nat
  BY PacketFilterOK DEF FilterInv, Stored, Ranges
<1>1. ASSUME UNCHANGED <<list, dnats, flows>>,
             ToSet(public') \subseteq Requests, Len(public') <= MaxPublic
      PROVE  Bounded'
  BY <1>1 DEF Bounded
<1>2. CASE Rerender \/ \E on \in BOOLEAN : SwitchSsh(on) \/ SwitchForward(on)
  BY <1>1, <1>2 DEF Rerender, SwitchSsh, SwitchForward, LoadTable, Bounded
<1>3. ASSUME NEW r \in Requests, AddPublicPort(r) PROVE Bounded'
  <2>1. /\ public' = Append(public, r) /\ r.lo <= r.hi /\ Len(public) < MaxPublic
        /\ UNCHANGED <<list, dnats, flows>>
    BY <1>3 DEF AddPublicPort, LoadTable
  <2>2. r \in PublicPorts BY PacketFilterOK
  <2>3. ToSet(public') = ToSet(public) \cup {r} BY <1>0, <2>1, <2>2, AddKeepsRanges
  <2>4. Len(public') = Len(public) + 1 BY <1>0, <2>1, <2>2
  <2>5. Len(public') <= MaxPublic BY <1>0, <2>1, <2>4
  <2> QED BY <1>1, <2>1, <2>3, <2>5 DEF Bounded
<1>4. ASSUME NEW r \in Requests, RemovePublicPort(r) PROVE Bounded'
  <2>1. UNCHANGED <<list, dnats, flows>> BY <1>4 DEF RemovePublicPort, LoadTable
  <2>2. PICK k \in DOMAIN public : public' = RemoveAt(public, k) BY <1>4 DEF RemovePublicPort
  <2>3. ToSet(public') \subseteq ToSet(public) BY <1>0, <2>2, RemoveKeepsRanges
  <2>4. Len(public') = Len(public) - 1 BY <1>0, <2>2, RemoveAtIs
  <2>5. Len(public') <= MaxPublic BY <1>0, <2>4 DEF Bounded
  <2> QED BY <1>1, <2>1, <2>3, <2>5 DEF Bounded
<1>5. CASE SwitchCall BY <1>2, <1>3, <1>4, <1>5 DEF SwitchCall
<1>6. ASSUME NEW s \in Sources, Relist(s) PROVE Bounded' BY <1>6 DEF Relist, Bounded
<1>7. ASSUME NEW D \in SUBSET Dnats, ChangeDnats(D) PROVE Bounded' BY <1>7 DEF ChangeDnats, Bounded
<1>8. ASSUME NEW p \in Packets, Receive(p) PROVE Bounded'
  <2>1. /\ UNCHANGED <<public, list, dnats>> /\ Cardinality(flows') <= MaxFlows
        /\ flows' = flows \cup {FlowOf(p)} \/ flows' = flows
    BY <1>8 DEF Receive
  <2>2. IsFiniteSet(flows') BY <2>1, FS_AddElement DEF Bounded
  <2>3. flows' \subseteq {FlowOf(q) : q \in Packets} BY <2>1 DEF Bounded
  <2> QED BY <2>1, <2>2, <2>3 DEF Bounded
<1>9. CASE Tick BY <1>9 DEF Tick, Bounded
<1>10. ASSUME NEW f \in flows, FlowEnds(f) PROVE Bounded'
  <2>1. UNCHANGED <<public, list, dnats>> /\ flows' = flows \ {f} BY <1>10 DEF FlowEnds
  <2>2. IsFiniteSet(flows') /\ Cardinality(flows') = Cardinality(flows) - 1
    BY <2>1, FS_RemoveElement DEF Bounded
  <2>3. Cardinality(flows) \in Nat BY FS_CardinalityType DEF Bounded
  <2>4. Cardinality(flows') <= MaxFlows BY <1>0, <2>2, <2>3 DEF Bounded
  <2> QED BY <2>1, <2>2, <2>4 DEF Bounded
<1>11. CASE UNCHANGED filterVars BY <1>11 DEF filterVars, Bounded
<1> QED BY <1>5, <1>6, <1>7, <1>8, <1>9, <1>10, <1>11 DEF FilterNext

\* A set of ports has no more elements than there are ranges asked for.
LEMMA SetsAreShort ==
  ASSUME FilterInv, Bounded, NEW proto
  PROVE  RangeSeqs(render_ports(PortsFor(proto, public)))
<1> DEFINE rs == PortsFor(proto, public)
           s == render_ports(rs)
<1>1. public \in Ranges /\ public \in Seq(PublicPorts) /\ ConfigPublic \in Seq(PublicPorts)
  BY PacketFilterOK DEF FilterInv, Stored, Ranges
<1>2. rs \in Seq(Spans) /\ Len(rs) <= Len(ConfigPublic \o public) BY <1>1, PortsForIs
<1> HIDE DEF rs
<1>3. s \in Seq(Spans) /\ Len(s) <= Len(rs) BY <1>2, RenderPortsIs
<1> HIDE DEF s
<1>4. Len(ConfigPublic \o public) = Len(ConfigPublic) + Len(public) BY <1>1
<1>5. Len(public) <= MaxPublic /\ MaxPublic \in Nat BY PacketFilterOK DEF Bounded
<1>6. /\ Len(s) \in Nat /\ Len(rs) \in Nat /\ Len(public) \in Nat /\ Len(ConfigPublic) \in Nat
  BY <1>1, <1>2, <1>3
<1>7. Len(s) <= MaxPublic + Len(ConfigPublic) BY <1>2, <1>3, <1>4, <1>5, <1>6
<1>8. \A i \in DOMAIN s : s[i].lo \in PortNumbers /\ s[i].hi \in PortNumbers
  BY <1>3 DEF Spans
<1>9. RangeSeqs(s) BY <1>7, <1>8 DEF RangeSeqs, IsRange
<1> QED BY <1>9 DEF s, rs

LEMMA FilterTypes == FilterSpec => []FilterTypeOK
<1>1. FilterInit => Bounded
  <2> SUFFICES ASSUME FilterInit PROVE Bounded OBVIOUS
  <2>1. public = <<>> /\ list = {} /\ dnats = {} /\ flows = {} BY DEF FilterInit
  <2>2. ToSet(<<>>) = {} /\ Len(<<>>) = 0 BY DEF ToSet
  <2>3. MaxPublic \in Nat /\ MaxFlows \in Nat BY PacketFilterOK
  <2> QED BY <2>1, <2>2, <2>3, FS_EmptySet DEF Bounded
<1>2. FilterInv /\ Bounded /\ [FilterNext]_filterVars => Bounded'
  BY BoundedStep
<1>3. FilterInv /\ Bounded => FilterTypeOK
  <2> SUFFICES ASSUME FilterInv, Bounded PROVE FilterTypeOK OBVIOUS
  <2>1. /\ tab.tcp = render_ports(PortsFor("tcp", public))
        /\ tab.udp = render_ports(PortsFor("udp", public))
    <3> DEFINE t == Table(tab.ssh, tab.knock, tab.gate, public)
    <3>1. /\ t.tcp = render_ports(PortsFor("tcp", public))
          /\ t.udp = render_ports(PortsFor("udp", public))
      BY DEF Table
    <3>2. tab = t BY DEF FilterInv, Loaded
    <3> HIDE DEF t
    <3> QED BY <3>1, <3>2
  <2>2. RangeSeqs(tab.tcp) /\ RangeSeqs(tab.udp) BY <2>1, SetsAreShort
  <2>3. fwd \in BOOLEAN /\ {tab.ssh, tab.knock, tab.gate} \subseteq BOOLEAN
    BY DEF FilterInv, Stored, Loaded
  <2>4. knocked \in [Sources -> 0..KnockTtl] /\ since \in [Sources -> 0..KnockTtl]
    <3>1. KnockTtl \in Nat BY PacketFilterOK
    <3> QED BY <3>1 DEF FilterInv, KnocksCount
  <2> QED BY <2>2, <2>3, <2>4 DEF Bounded, FilterTypeOK
<1>4. QED BY <1>1, <1>2, <1>3, FilterInvariant, PTL DEF FilterSpec

-----------------------------------------------------------------------------
(***************************************************************************)
(* Side by side with the settings (ExposureProofs): a part that rests does *)
(* not change.                                                             *)
(***************************************************************************)

\* Every behaviour of the two is one of each of them.
THEOREM RulesetParts == AllSpec => Spec /\ FilterSpec
<1>1. AllInit => Init /\ FilterInit BY DEF AllInit
<1>2. [AllNext]_all => [Next]_vars /\ [FilterNext]_filterVars
  BY Zenon DEF AllNext, all
<1>3. QED BY <1>1, <1>2, PTL DEF AllSpec, Spec, FilterSpec

\* The values both parts range over; a port set never has more elements than ranges were
\* asked for (render_ports).
THEOREM RulesetTypes == AllSpec => []AllTypeOK
<1>1. IInv => TypeOK BY DEF IInv
<1>2. QED BY <1>1, RulesetParts, InvHolds, FilterTypes, PTL DEF AllTypeOK
===============================================================================
