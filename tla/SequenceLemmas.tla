--------------------------- MODULE SequenceLemmas ---------------------------
(***************************************************************************)
(* Lemmas about numbers, sequences and finite sets that the proofs about   *)
(* several components need: induction with a set for the predicate, what   *)
(* FlattenSeq computes, and that ranking the elements of a finite set      *)
(* sorts them.                                                             *)
(***************************************************************************)
EXTENDS SequencesExt, SequenceTheorems, FiniteSetTheorems, WellFoundedInduction, TLAPS

-----------------------------------------------------------------------------
\* Induction, for sets of numbers and of sequences.

\* Some number of a set of numbers is the least.
LEMMA LeastNat ==
  ASSUME NEW T \in SUBSET Nat, T # {}
  PROVE  \E n \in T : \A m \in T : n <= m
<1> DEFINE R == {ss \in Nat \X Nat : ss[1] < ss[2]}
<1>1. IsWellFoundedOn(R, Nat)
  BY NatLessThanWellFounded, Zenon DEF OpToRel
<1>2. PICK n \in T : \A m \in T : <<m, n>> \notin R
  BY <1>1, WFMin
<1>3. \A m \in T : ~(m < n)
  BY <1>2
<1> QED
  BY <1>3

\* A set of numbers that has 0 and the successor of each of its own has all.
LEMMA NatInduct ==
  ASSUME NEW G, 0 \in G, \A n \in Nat : n \in G => n + 1 \in G
  PROVE  Nat \subseteq G
<1> DEFINE bad == Nat \ G
<1> SUFFICES ASSUME bad # {} PROVE FALSE
  OBVIOUS
<1>1. PICK n \in bad : \A m \in bad : n <= m
  BY LeastNat
<1>2. n \in Nat /\ n # 0 /\ n \notin G
  OBVIOUS
<1>3. n - 1 \in Nat /\ ~(n <= n - 1) /\ (n - 1) + 1 = n
  BY <1>2
<1>4. n - 1 \in G
  BY <1>1, <1>3
<1> QED
  BY <1>2, <1>3, <1>4

\* The same for sequences, which grow by one element at a time.
LEMMA SeqInduct ==
  ASSUME NEW S, NEW G, <<>> \in G,
         \A s \in Seq(S) : \A x \in S : s \in G => Append(s, x) \in G
  PROVE  Seq(S) \subseteq G
<1> DEFINE H == {n \in Nat : \A s \in Seq(S) : Len(s) = n => s \in G}
<1>1. 0 \in H
  <2>1. ASSUME NEW s \in Seq(S), Len(s) = 0 PROVE s \in G
    <3>1. s = <<>>
      BY <2>1
    <3> QED
      BY <3>1
  <2> QED
    BY <2>1
<1>2. ASSUME NEW n \in Nat, n \in H PROVE n + 1 \in H
  <2>1. ASSUME NEW s \in Seq(S), Len(s) = n + 1 PROVE s \in G
    <3> DEFINE t == SubSeq(s, 1, n)
    <3>1. t \in Seq(S) /\ Len(t) = n /\ s[n + 1] \in S /\ s = Append(t, s[n + 1])
      BY <2>1
    <3>2. t \in G
      BY <1>2, <3>1
    <3> HIDE DEF t
    <3> QED
      BY <3>1, <3>2
  <2> QED
    BY <2>1
<1> HIDE DEF H
<1>3. Nat \subseteq H
  BY <1>1, <1>2, NatInduct
<1>4. ASSUME NEW s \in Seq(S) PROVE s \in G
  <2>1. Len(s) \in H
    BY <1>3
  <2> QED
    BY <2>1 DEF H
<1> QED
  BY <1>4

-----------------------------------------------------------------------------
\* What FlattenSeq computes.

\* f joins the first m of the sequences in s.
FlatTo(f, s, m) == f = [i \in 1..m |-> IF i = 1 THEN s[i] ELSE f[i - 1] \o s[i]]

LEMMA FlatPoint ==
  ASSUME NEW f, NEW s, NEW m \in Nat, FlatTo(f, s, m), NEW i \in 1..m
  PROVE  f[i] = IF i = 1 THEN s[i] ELSE f[i - 1] \o s[i]
<1> DEFINE F(j) == IF j = 1 THEN s[j] ELSE f[j - 1] \o s[j]
<1>1. f = [j \in 1..m |-> F(j)]
  BY DEF FlatTo
<1> HIDE DEF F
<1>2. f[i] = F(i)
  BY <1>1
<1> QED
  BY <1>2 DEF F

LEMMA FlatExists ==
  ASSUME NEW s, NEW m \in Nat
  PROVE  \E f : FlatTo(f, s, m)
<1> DEFINE G == {n \in Nat : \E f : FlatTo(f, s, n)}
<1>1. 0 \in G
  <2> DEFINE f == [i \in 1..0 |-> 0]
  <2>1. FlatTo(f, s, 0)
    BY DEF FlatTo
  <2> HIDE DEF f
  <2> QED
    BY <2>1
<1>2. ASSUME NEW n \in Nat, n \in G PROVE n + 1 \in G
  <2>1. PICK f : FlatTo(f, s, n)
    BY <1>2
  <2> DEFINE next(g, j) == IF j = 1 THEN s[j] ELSE g \o s[j]
             h == [j \in 1..n + 1 |-> IF j <= n THEN f[j] ELSE next(f[n], n + 1)]
  <2>2. \A j \in 1..n : f[j] = next(f[j - 1], j)
    BY <2>1, FlatPoint
  <2> HIDE DEF next
  <2>3. ASSUME NEW j \in 1..n + 1 PROVE h[j] = next(h[j - 1], j)
    <3>1. CASE j <= n /\ j # 1
      <4>1. j \in 1..n /\ j - 1 \in 1..n + 1 /\ j - 1 <= n
        BY <3>1
      <4>2. h[j] = f[j] /\ h[j - 1] = f[j - 1]
        BY <3>1, <4>1
      <4>3. f[j] = next(f[j - 1], j)
        BY <2>2, <4>1
      <4> QED
        BY <4>2, <4>3
    <3>2. CASE j = n + 1 /\ j # 1
      <4>1. j - 1 \in 1..n + 1 /\ j - 1 <= n /\ ~(j <= n) /\ j - 1 = n
        BY <3>2
      <4>2. h[j - 1] = f[n] /\ h[j] = next(f[n], n + 1)
        BY <4>1
      <4> QED
        BY <3>2, <4>2
    <3>3. CASE j = 1
      <4>1. next(h[j - 1], j) = s[j] /\ \A g : next(g, j) = s[j]
        BY <3>3 DEF next
      <4>2. CASE n = 0
        <5>1. h[j] = next(f[n], n + 1) /\ j = n + 1
          BY <3>3, <4>2
        <5> QED
          BY <4>1, <5>1
      <4>3. CASE n # 0
        <5>1. j \in 1..n
          BY <3>3, <4>3
        <5>2. h[j] = f[j] /\ f[j] = next(f[j - 1], j)
          BY <2>2, <5>1
        <5> QED
          BY <4>1, <5>2
      <4> QED
        BY <4>2, <4>3
    <3> QED
      BY <3>1, <3>2, <3>3
  <2>4. h = [j \in 1..n + 1 |-> h[j]]
    OBVIOUS
  <2> HIDE DEF h
  <2>5. FlatTo(h, s, n + 1)
    BY <2>3, <2>4 DEF FlatTo, next
  <2> QED
    BY <2>5
<1> HIDE DEF G
<1>3. m \in G
  BY <1>1, <1>2, NatInduct
<1> QED
  BY <1>3 DEF G

\* Two that join the same sequences agree.
LEMMA FlatAgree ==
  ASSUME NEW m \in Nat, NEW n \in Nat, m <= n,
         NEW f, NEW s, FlatTo(f, s, m), NEW g, NEW t, FlatTo(g, t, n),
         \A i \in 1..m : s[i] = t[i]
  PROVE  \A i \in 1..m : f[i] = g[i]
<1> DEFINE G == {k \in Nat : k \in 1..m => f[k] = g[k]}
<1>1. 0 \in G
  OBVIOUS
<1>2. ASSUME NEW k \in Nat, k \in G PROVE k + 1 \in G
  <2>1. ASSUME k + 1 \in 1..m PROVE f[k + 1] = g[k + 1]
    <3>1. k + 1 \in 1..n /\ s[k + 1] = t[k + 1] /\ (k + 1) - 1 = k
      BY <2>1
    <3>2. f[k + 1] = IF k + 1 = 1 THEN s[k + 1] ELSE f[(k + 1) - 1] \o s[k + 1]
      BY <2>1, FlatPoint
    <3>3. g[k + 1] = IF k + 1 = 1 THEN t[k + 1] ELSE g[(k + 1) - 1] \o t[k + 1]
      BY <3>1, FlatPoint
    <3>4. k + 1 # 1 => f[k] = g[k]
      BY <1>2, <2>1
    <3> QED
      BY <3>1, <3>2, <3>3, <3>4
  <2> QED
    BY <2>1
<1> HIDE DEF G
<1>3. Nat \subseteq G
  BY <1>1, <1>2, NatInduct
<1> QED
  BY <1>3 DEF G

\* A sequence with one more element.
LEMMA Appended ==
  ASSUME NEW T, NEW s \in Seq(T), NEW x \in T
  PROVE  /\ Append(s, x) \in Seq(T) /\ Append(s, x) # <<>>
         /\ Len(s) \in Nat /\ DOMAIN s = 1..Len(s)
         /\ Len(Append(s, x)) = Len(s) + 1 /\ DOMAIN Append(s, x) = 1..(Len(s) + 1)
         /\ Append(s, x)[Len(s) + 1] = x
         /\ \A i \in 1..Len(s) : Append(s, x)[i] = s[i]
  OBVIOUS

LEMMA FlattenIs ==
  ASSUME NEW T, NEW s \in Seq(T), s # <<>>
  PROVE  \E f : FlatTo(f, s, Len(s)) /\ FlattenSeq(s) = f[Len(s)]
<1> DEFINE f == CHOOSE f : FlatTo(f, s, Len(s))
<1>1. Len(s) \in Nat /\ Len(s) # 0
  OBVIOUS
<1>2. FlattenSeq(s) = f[Len(s)]
  BY <1>1 DEF FlattenSeq, FlatTo
<1>3. FlatTo(f, s, Len(s))
  <2>1. \E h : FlatTo(h, s, Len(s))
    BY <1>1, FlatExists
  <2> QED
    BY <2>1
<1> QED
  BY <1>2, <1>3

\* One more sequence is joined at the end.
LEMMA FlattenAppend ==
  ASSUME NEW T, NEW s \in Seq(Seq(T)), NEW x \in Seq(T)
  PROVE  /\ FlattenSeq(<<>>) = <<>>
         /\ FlattenSeq(<<x>>) = x
         /\ FlattenSeq(Append(s, x)) = FlattenSeq(s) \o x
<1>1. FlattenSeq(<<>>) = <<>>
  BY DEF FlattenSeq
<1>2. FlattenSeq(<<x>>) = x
  <2>1. <<x>> \in Seq(Seq(T)) /\ <<x>> # <<>> /\ Len(<<x>>) = 1 /\ <<x>>[1] = x
    OBVIOUS
  <2>2. PICK f : FlatTo(f, <<x>>, 1) /\ FlattenSeq(<<x>>) = f[1]
    BY <2>1, FlattenIs
  <2>3. f[1] = <<x>>[1]
    BY <2>2, FlatPoint
  <2> QED
    BY <2>1, <2>2, <2>3
<1>3. CASE s = <<>>
  <2>1. Append(s, x) = <<x>> /\ <<>> \o x = x
    BY <1>3
  <2> QED
    BY <1>1, <1>2, <1>3, <2>1
<1>4. CASE s # <<>>
  <2> DEFINE t == Append(s, x)
             n == Len(s)
  <2>1. /\ t \in Seq(Seq(T)) /\ t # <<>> /\ n \in Nat /\ n # 0 /\ Len(t) = n + 1
        /\ t[n + 1] = x /\ \A i \in 1..n : s[i] = t[i]
    <3>1. n # 0
      BY <1>4
    <3> QED
      BY <3>1, Appended
  <2> HIDE DEF t, n
  <2>2. PICK f : FlatTo(f, s, n) /\ FlattenSeq(s) = f[n]
    BY <1>4, FlattenIs DEF n
  <2>3. PICK g : FlatTo(g, t, n + 1) /\ FlattenSeq(t) = g[n + 1]
    <3>1. \E g : FlatTo(g, t, Len(t)) /\ FlattenSeq(t) = g[Len(t)]
      BY <2>1, FlattenIs
    <3> QED
      BY <2>1, <3>1
  <2>4. f[n] = g[n]
    <3>1. n <= n + 1 /\ n \in 1..n /\ n + 1 \in Nat
      BY <2>1
    <3> QED
      <4>1. FlatTo(f, s, n) /\ FlatTo(g, t, n + 1) /\ n \in Nat /\ \A i \in 1..n : s[i] = t[i]
        BY <2>1, <2>2, <2>3
      <4>2. \A i \in 1..n : f[i] = g[i]
        BY <3>1, <4>1, FlatAgree
      <4> QED
        BY <3>1, <4>2
  <2>5. g[n + 1] = g[n] \o x
    <3>1. n + 1 \in 1..(n + 1) /\ n + 1 # 1 /\ (n + 1) - 1 = n /\ n + 1 \in Nat
      BY <2>1
    <3>2. g[n + 1] = IF n + 1 = 1 THEN t[n + 1] ELSE g[(n + 1) - 1] \o t[n + 1]
      BY <2>3, <3>1, FlatPoint
    <3> QED
      BY <2>1, <3>1, <3>2
  <2> QED
    BY <1>1, <1>2, <2>2, <2>3, <2>4, <2>5 DEF t
<1> QED
  BY <1>1, <1>2, <1>3, <1>4

LEMMA FlattenType ==
  ASSUME NEW T, NEW s \in Seq(Seq(T))
  PROVE  FlattenSeq(s) \in Seq(T)
<1> DEFINE G == {u \in Seq(Seq(T)) : FlattenSeq(u) \in Seq(T)}
<1>1. <<>> \in G
  BY DEF FlattenSeq
<1>2. ASSUME NEW u \in Seq(Seq(T)), NEW x \in Seq(T), u \in G PROVE Append(u, x) \in G
  <2>1. FlattenSeq(Append(u, x)) = FlattenSeq(u) \o x /\ FlattenSeq(u) \in Seq(T)
    BY <1>2, FlattenAppend
  <2>2. FlattenSeq(u) \o x \in Seq(T)
    BY <2>1, ConcatProperties
  <2>3. Append(u, x) \in Seq(Seq(T))
    BY Appended
  <2> QED
    BY <2>1, <2>2, <2>3
<1> HIDE DEF G
<1>3. Seq(Seq(T)) \subseteq G
  BY <1>1, <1>2, SeqInduct
<1> QED
  BY <1>3 DEF G

LEMMA FlattenConcat ==
  ASSUME NEW T, NEW s \in Seq(Seq(T)), NEW t \in Seq(Seq(T))
  PROVE  FlattenSeq(s \o t) = FlattenSeq(s) \o FlattenSeq(t)
<1> DEFINE G == {u \in Seq(Seq(T)) : FlattenSeq(s \o u) = FlattenSeq(s) \o FlattenSeq(u)}
<1>1. <<>> \in G
  <2>1. s \o <<>> = s /\ FlattenSeq(s) \in Seq(T) /\ FlattenSeq(<<>>) = <<>>
    BY FlattenType, ConcatEmptySeq DEF FlattenSeq
  <2>2. FlattenSeq(s) \o <<>> = FlattenSeq(s)
    BY <2>1, ConcatEmptySeq
  <2> QED
    BY <2>1, <2>2
<1>2. ASSUME NEW u \in Seq(Seq(T)), NEW x \in Seq(T), u \in G PROVE Append(u, x) \in G
  <2>1. s \o Append(u, x) = Append(s \o u, x) /\ s \o u \in Seq(Seq(T))
    OBVIOUS
  <2>2. FlattenSeq(Append(s \o u, x)) = FlattenSeq(s \o u) \o x
    BY <2>1, FlattenAppend
  <2>3. FlattenSeq(Append(u, x)) = FlattenSeq(u) \o x
    BY FlattenAppend
  <2>4. FlattenSeq(s) \in Seq(T) /\ FlattenSeq(u) \in Seq(T)
    BY FlattenType
  <2>5. (FlattenSeq(s) \o FlattenSeq(u)) \o x = FlattenSeq(s) \o (FlattenSeq(u) \o x)
    BY <2>4, ConcatAssociative
  <2>6. FlattenSeq(s \o u) = FlattenSeq(s) \o FlattenSeq(u)
    BY <1>2
  <2>7. FlattenSeq(s \o Append(u, x)) = FlattenSeq(s) \o FlattenSeq(Append(u, x))
    BY <2>1, <2>2, <2>3, <2>5, <2>6
  <2>8. Append(u, x) \in Seq(Seq(T))
    OBVIOUS
  <2> QED
    BY <2>7, <2>8
<1> HIDE DEF G
<1>3. Seq(Seq(T)) \subseteq G
  BY <1>1, <1>2, SeqInduct
<1> QED
  BY <1>3 DEF G

LEMMA FlattenOne ==
  ASSUME NEW T, NEW x \in Seq(T)
  PROVE  FlattenSeq(<<x>>) = x
<1>1. <<>> \in Seq(Seq(T))
  OBVIOUS
<1> QED
  BY <1>1, FlattenAppend

LEMMA ConcatOne ==
  ASSUME NEW S, NEW s \in Seq(S), NEW x \in S
  PROVE  s \o <<x>> = Append(s, x)
OBVIOUS

\* The elements of a sequence.
Held(s) == {s[i] : i \in DOMAIN s}

\* A concatenation holds what its two parts hold.
LEMMA ConcatHolds ==
  ASSUME NEW T, NEW s \in Seq(T), NEW t \in Seq(T)
  PROVE  s \o t \in Seq(T) /\ Held(s \o t) = Held(s) \cup Held(t)
<1> DEFINE u == s \o t
<1>1. /\ u \in Seq(T) /\ Len(s) \in Nat /\ Len(t) \in Nat
      /\ DOMAIN s = 1..Len(s) /\ DOMAIN t = 1..Len(t) /\ DOMAIN u = 1..Len(s) + Len(t)
      /\ \A i \in 1..Len(s) : u[i] = s[i]
      /\ \A i \in Len(s) + 1..Len(s) + Len(t) : u[i] = t[i - Len(s)]
  OBVIOUS
<1> HIDE DEF u
<1>2. ASSUME NEW i \in DOMAIN u, i \notin DOMAIN s PROVE \E j \in DOMAIN t : u[i] = t[j]
  <2>1. i \in Len(s) + 1..Len(s) + Len(t) /\ i - Len(s) \in DOMAIN t
    BY <1>1, <1>2
  <2> QED
    BY <1>1, <2>1
<1>3. ASSUME NEW j \in DOMAIN t PROVE \E i \in DOMAIN u : u[i] = t[j]
  <2>1. /\ Len(s) + j \in DOMAIN u /\ Len(s) + j \in Len(s) + 1..Len(s) + Len(t)
        /\ (Len(s) + j) - Len(s) = j
    BY <1>1
  <2>2. u[Len(s) + j] = t[(Len(s) + j) - Len(s)]
    BY <1>1, <2>1
  <2> QED
    BY <2>1, <2>2
<1>4. \A j \in DOMAIN s : j \in DOMAIN u /\ u[j] = s[j]
  BY <1>1
<1>5. \A x \in Held(u) : x \in Held(s) \/ x \in Held(t)
  BY <1>2, <1>4 DEF Held
<1>6. \A x : x \in Held(s) \/ x \in Held(t) => x \in Held(u)
  BY <1>3, <1>4 DEF Held
<1> QED
  BY <1>1, <1>5, <1>6 DEF u

-----------------------------------------------------------------------------
\* Sorting a finite set by rank.

\* R orders S strictly: no element comes before itself, and of two elements
\* one comes before the other.
StrictOrder(R, S) ==
  /\ \A x \in S : <<x, x>> \notin R
  /\ \A x, y, z \in S : <<x, y>> \in R /\ <<y, z>> \in R => <<x, z>> \in R
  /\ \A x, y \in S : x # y => <<x, y>> \in R \/ <<y, x>> \in R

\* How many elements of S come before x.
Rank(R, S, x) == Cardinality({y \in S : <<y, x>> \in R})

\* In a strict order, who comes later has more before it.
LEMMA RankOrders ==
  ASSUME NEW S, IsFiniteSet(S), NEW R, StrictOrder(R, S), NEW x \in S
  PROVE  /\ Rank(R, S, x) \in 0..Cardinality(S) - 1
         /\ \A y \in S : <<x, y>> \in R => Rank(R, S, x) < Rank(R, S, y)
<1> DEFINE Below(y) == {z \in S : <<z, y>> \in R}
<1>1. \A y \in S : /\ IsFiniteSet(Below(y)) /\ Cardinality(Below(y)) \in Nat
                   /\ Cardinality(Below(y)) < Cardinality(S)
  <2> SUFFICES ASSUME NEW y \in S
               PROVE  /\ IsFiniteSet(Below(y)) /\ Cardinality(Below(y)) \in Nat
                      /\ Cardinality(Below(y)) < Cardinality(S)
    OBVIOUS
  <2>1. Below(y) \in SUBSET S /\ y \notin Below(y)
    BY DEF StrictOrder
  <2>2. /\ IsFiniteSet(Below(y)) /\ Cardinality(Below(y)) <= Cardinality(S)
        /\ Cardinality(Below(y)) # Cardinality(S)
    BY <2>1, FS_Subset
  <2> QED
    BY <2>2, FS_CardinalityType
<1>2. ASSUME NEW y \in S, <<x, y>> \in R
      PROVE  Cardinality(Below(x)) < Cardinality(Below(y))
  <2>1. Below(x) \in SUBSET Below(y) /\ x \in Below(y) /\ x \notin Below(x)
    BY <1>2 DEF StrictOrder
  <2>2. Cardinality(Below(x)) <= Cardinality(Below(y)) /\ Cardinality(Below(x)) # Cardinality(Below(y))
    BY <2>1, <1>1, FS_Subset
  <2> QED
    BY <2>2, <1>1
<1>3. Cardinality(S) \in Nat
  BY FS_CardinalityType
<1>4. Rank(R, S, x) = Cardinality(Below(x)) /\ \A y \in S : Rank(R, S, y) = Cardinality(Below(y))
  BY DEF Rank
<1> HIDE DEF Below
<1> QED
  BY <1>1, <1>2, <1>3, <1>4

\* Every place of a finite set in a strict order is taken: the ranks are as many
\* different numbers below its cardinality as it has elements.
LEMMA RankFound ==
  ASSUME NEW S, IsFiniteSet(S), NEW R, StrictOrder(R, S),
         NEW k \in 1..Cardinality(S)
  PROVE  \E x \in S : Rank(R, S, x) = k - 1
<1> DEFINE T == 0..Cardinality(S) - 1
           f == [x \in S |-> Rank(R, S, x)]
<1>1. Cardinality(S) \in Nat
  BY FS_CardinalityType
<1>2. IsFiniteSet(T) /\ Cardinality(T) = Cardinality(S)
  <2>1. ASSUME NEW m \in Int
        PROVE  IsFiniteSet(0..m) /\ Cardinality(0..m) = IF 0 > m THEN 0 ELSE m - 0 + 1
    BY FS_Interval, SMT
  <2>2. Cardinality(S) - 1 \in Int
    BY <1>1
  <2> QED
    BY <1>1, <2>1, <2>2
<1>3. f \in [S -> T]
  BY RankOrders
<1>4. \A x, y \in S : f[x] = f[y] => x = y
  <2> SUFFICES ASSUME NEW x \in S, NEW y \in S, x # y PROVE f[x] # f[y]
    OBVIOUS
  <2>1. CASE <<x, y>> \in R
    BY <2>1, <1>3, RankOrders
  <2>2. CASE <<y, x>> \in R
    BY <2>2, <1>3, RankOrders
  <2> QED
    BY <2>1, <2>2 DEF StrictOrder
<1>5. f \in Injection(S, T)
  BY <1>3, <1>4 DEF Injection, IsInjective
<1>6. f \in Surjection(S, T)
  BY <1>2, <1>5, FS_Injection
<1>7. k - 1 \in T
  BY <1>1
<1> QED
  BY <1>6, <1>7 DEF Surjection

\* Ranking is sorting: the sequence that has the element of rank k - 1 at k holds
\* every element, each before those it precedes.
LEMMA RankedInOrder ==
  ASSUME NEW S, IsFiniteSet(S), NEW R, StrictOrder(R, S),
         NEW r \in [1..Cardinality(S) -> S],
         \A k \in 1..Cardinality(S) : Rank(R, S, r[k]) = k - 1
  PROVE  /\ r \in Seq(S) /\ Len(r) = Cardinality(S)
         /\ \A x \in S : \E k \in DOMAIN r : r[k] = x
         /\ \A i, j \in DOMAIN r : i < j => <<r[i], r[j]>> \in R
<1>1. Cardinality(S) \in Nat
  BY FS_CardinalityType
<1>2. \A k \in 1..Cardinality(S) : r[k] \in S /\ Rank(R, S, r[k]) = k - 1
  OBVIOUS
<1>3. r \in Seq(S) /\ Len(r) = Cardinality(S) /\ DOMAIN r = 1..Cardinality(S)
  BY <1>1, <1>2
<1>4. \A x, y \in S : Rank(R, S, x) < Rank(R, S, y) => <<x, y>> \in R
  <2> SUFFICES ASSUME NEW x \in S, NEW y \in S, Rank(R, S, x) < Rank(R, S, y)
               PROVE  <<x, y>> \in R
    OBVIOUS
  <2>1. x # y
    BY <1>1, RankOrders
  <2>2. <<y, x>> \notin R
    BY <1>1, RankOrders
  <2> QED
    BY <2>1, <2>2 DEF StrictOrder
<1>5. ASSUME NEW x \in S PROVE \E k \in DOMAIN r : r[k] = x
  <2>1. PICK k \in 1..Cardinality(S) : Rank(R, S, x) = k - 1
    <3>1. Rank(R, S, x) + 1 \in 1..Cardinality(S) /\ Rank(R, S, x) = (Rank(R, S, x) + 1) - 1
      BY <1>1, RankOrders
    <3> QED
      BY <3>1
  <2>2. r[k] \in S /\ ~(Rank(R, S, r[k]) < Rank(R, S, x)) /\ ~(Rank(R, S, x) < Rank(R, S, r[k]))
    BY <1>1, <1>2, <2>1
  <2>3. <<r[k], x>> \notin R /\ <<x, r[k]>> \notin R
    BY <2>2, RankOrders
  <2> QED
    BY <1>3, <2>2, <2>3 DEF StrictOrder
<1>6. ASSUME NEW i \in DOMAIN r, NEW j \in DOMAIN r, i < j PROVE <<r[i], r[j]>> \in R
  BY <1>1, <1>2, <1>3, <1>4, <1>6
<1> QED
  BY <1>3, <1>5, <1>6
=============================================================================
