------------------------ MODULE DeepResearchProofs ------------------------
(* Theorems about DeepResearch, for any plan, caps, results of the search   *)
(* provider and drafts of the models.  First what the order of the notes    *)
(* and of the citations comes to, whatever there is to be ordered; then     *)
(* what a step leaves true; the invariant of the runs is at the end.        *)
EXTENDS DeepResearch, SequenceLemmas, FunctionTheorems

-----------------------------------------------------------------------------
\* The order of locators, whether their characters count up or down.
LEMMA TextOrder ==
  ASSUME NEW l \in Seq(Int)
  PROVE  /\ ~TextBefore(l, l)
         /\ \A k \in Seq(Int) : l # k => TextBefore(l, k) \/ TextBefore(k, l)
         /\ \A k, m \in Seq(Int) : TextBefore(l, k) /\ TextBefore(k, m) => TextBefore(l, m)
<1>1. ~TextBefore(l, l)
  BY DEF TextBefore
<1>2. ASSUME NEW k \in Seq(Int), l # k
      PROVE  TextBefore(l, k) \/ TextBefore(k, l)
  <2> DEFINE Ends_(i) == i = Len(l) + 1 \/ i = Len(k) + 1 \/ l[i] # k[i]
             T == {i \in Nat : 1 <= i /\ i <= Len(l) + 1 /\ i <= Len(k) + 1 /\ Ends_(i)}
  <2>1. T # {}
    <3>1. CASE Len(l) <= Len(k)
      <4>1. Len(l) + 1 \in T
        BY <3>1
      <4> QED
        BY <4>1
    <3>2. CASE Len(k) <= Len(l)
      <4>1. Len(k) + 1 \in T
        BY <3>2
      <4> QED
        BY <4>1
    <3> QED
      BY <3>1, <3>2
  <2>2. PICK n \in T : \A m \in T : n <= m
    BY <2>1, LeastNat
  <2>3. \A j \in 1..n - 1 : l[j] = k[j]
    <3> SUFFICES ASSUME NEW j \in 1..n - 1 PROVE l[j] = k[j]
      OBVIOUS
    <3>1. j \notin T
      BY <2>2
    <3> QED
      BY <3>1, <2>2
  <2>4. CASE n = Len(l) + 1 /\ n = Len(k) + 1
    <3>1. l = k
      BY <2>3, <2>4
    <3> QED
      BY <3>1, <1>2
  <2>5. CASE n = Len(l) + 1 /\ n <= Len(k)
    <3>1. n \in 1..Len(k) /\ n <= Len(l) + 1
      BY <2>2, <2>5
    <3> QED
      BY <3>1, <2>3, <2>5 DEF TextBefore
  <2>6. CASE n = Len(k) + 1 /\ n <= Len(l)
    <3>1. n \in 1..Len(l) /\ n <= Len(k) + 1
      BY <2>2, <2>6
    <3> QED
      BY <3>1, <2>3, <2>6 DEF TextBefore
  <2>7. CASE n <= Len(l) /\ n <= Len(k)
    <3>1. n \in 1..Len(l) /\ n \in 1..Len(k) /\ n <= Len(l) + 1 /\ n <= Len(k) + 1
      BY <2>2, <2>7
    <3>2. l[n] < k[n] \/ k[n] < l[n]
      <4>1. l[n] \in Int /\ k[n] \in Int /\ l[n] # k[n]
        BY <3>1, <2>2, <2>7
      <4> QED
        BY <4>1
    <3> QED
      BY <3>1, <3>2, <2>3 DEF TextBefore
  <2> QED
    BY <2>2, <2>4, <2>5, <2>6, <2>7
<1>3. ASSUME NEW k \in Seq(Int), NEW m \in Seq(Int), TextBefore(l, k), TextBefore(k, m)
      PROVE  TextBefore(l, m)
  <2>1. PICK i \in 1..Len(k) : /\ i <= Len(l) + 1
                               /\ \A j \in 1..i - 1 : l[j] = k[j]
                               /\ i = Len(l) + 1 \/ l[i] < k[i]
    BY <1>3 DEF TextBefore
  <2>2. PICK n \in 1..Len(m) : /\ n <= Len(k) + 1
                               /\ \A j \in 1..n - 1 : k[j] = m[j]
                               /\ n = Len(k) + 1 \/ k[n] < m[n]
    BY <1>3 DEF TextBefore
  <2>3. CASE n < i
    <3>1. n \in 1..Len(m) /\ n <= Len(l) + 1 /\ n <= Len(l) /\ n <= Len(k)
      BY <2>1, <2>2, <2>3
    <3>2. \A j \in 1..n - 1 : l[j] = m[j]
      BY <2>1, <2>2, <2>3
    <3>3. l[n] = k[n] /\ k[n] < m[n]
      BY <2>1, <2>2, <2>3
    <3> QED
      BY <3>1, <3>2, <3>3 DEF TextBefore
  <2>4. CASE i <= n
    <3>1. i \in 1..Len(m) /\ i <= Len(l) + 1
      BY <2>1, <2>2, <2>4
    <3>2. \A j \in 1..i - 1 : l[j] = m[j]
      BY <2>1, <2>2, <2>4
    <3>3. i = Len(l) + 1 \/ l[i] < m[i]
      <4>1. CASE i < n
        BY <4>1, <2>1, <2>2
      <4>2. CASE i = n /\ i # Len(l) + 1
        <5>1. l[i] \in Int /\ k[i] \in Int /\ m[i] \in Int
          BY <4>2, <2>1, <2>2
        <5> QED
          BY <4>2, <5>1, <2>1, <2>2
      <4> QED
        BY <4>1, <4>2, <2>4
    <3> QED
      BY <3>1, <3>2, <3>3 DEF TextBefore
  <2> QED
    BY <2>3, <2>4
<1> QED
  BY <1>1, <1>2, <1>3

\* What is true of every hit.
LEMMA HitType ==
  ASSUME NEW h \in Hits
  PROVE  /\ h.source \in Nat /\ h.score \in Nat
         /\ h.locator \in Seq(Nat) /\ h.locator \in Seq(Int)
         /\ NegatedLocator(h.locator) \in Seq(Int)
         /\ \A k \in Hits : h.source = k.source /\ h.locator = k.locator /\ h.score = k.score => h = k
<1>1. \A g \in Hits : g \in [source : Nat, locator : Seq(Nat), score : Nat]
  BY ResearchAssumption DEF ResearchAssumption
<1>2. h.source \in Nat /\ h.score \in Nat /\ h.locator \in Seq(Nat)
  BY <1>1
<1>3. h.locator \in Seq(Int)
  BY <1>2
<1>4. NegatedLocator(h.locator) \in Seq(Int)
  BY <1>2 DEF NegatedLocator
<1>5. \A k \in Hits : h.source = k.source /\ h.locator = k.locator /\ h.score = k.score => h = k
  BY <1>1
<1> QED
  BY <1>2, <1>3, <1>4, <1>5

RankPairs  == {p \in Hits \X Hits : RanksBefore(p[1], p[2])}
AheadPairs == {p \in Hits \X Hits : Ahead(p[1], p[2])}

\* Notes are ordered strictly: by score, source and locator, which is all of a hit.
LEMMA NotesOrder == StrictOrder(RankPairs, Hits)
<1>1. \A x \in Hits : <<x, x>> \notin RankPairs
  BY HitType, TextOrder DEF RankPairs, RanksBefore
<1>2. \A x, y, z \in Hits : RanksBefore(x, y) /\ RanksBefore(y, z) => RanksBefore(x, z)
  <2> SUFFICES ASSUME NEW x \in Hits, NEW y \in Hits, NEW z \in Hits,
                      RanksBefore(x, y), RanksBefore(y, z)
               PROVE  RanksBefore(x, z)
    OBVIOUS
  <2>1. TextBefore(x.locator, y.locator) /\ TextBefore(y.locator, z.locator)
           => TextBefore(x.locator, z.locator)
    BY HitType, TextOrder
  <2>2. /\ x.score \in Nat /\ y.score \in Nat /\ z.score \in Nat
        /\ x.source \in Nat /\ y.source \in Nat /\ z.source \in Nat
    BY HitType
  <2> QED
    BY <2>1, <2>2 DEF RanksBefore
<1>3. \A x, y \in Hits : x # y => RanksBefore(x, y) \/ RanksBefore(y, x)
  <2> SUFFICES ASSUME NEW x \in Hits, NEW y \in Hits, x # y
               PROVE  RanksBefore(x, y) \/ RanksBefore(y, x)
    OBVIOUS
  <2>1. x.locator # y.locator => TextBefore(x.locator, y.locator) \/ TextBefore(y.locator, x.locator)
    BY HitType, TextOrder
  <2>2. x.source # y.source \/ x.locator # y.locator \/ x.score # y.score
    BY HitType
  <2>3. x.score \in Nat /\ y.score \in Nat /\ x.source \in Nat /\ y.source \in Nat
    BY HitType
  <2> QED
    BY <2>1, <2>2, <2>3 DEF RanksBefore
<1> QED
  BY <1>1, <1>2, <1>3 DEF StrictOrder, RankPairs

\* A negated locator tells which locator it is of.
LEMMA NegationKeeps ==
  ASSUME NEW l \in Seq(Nat), NEW k \in Seq(Nat), NegatedLocator(l) = NegatedLocator(k)
  PROVE  l = k
<1>1. DOMAIN l = DOMAIN k
  <2>1. DOMAIN NegatedLocator(l) = DOMAIN l /\ DOMAIN NegatedLocator(k) = DOMAIN k
    BY DEF NegatedLocator
  <2> QED
    BY <2>1
<1>2. Len(l) = Len(k)
  BY <1>1
<1>3. \A i \in DOMAIN l : l[i] = k[i]
  <2> SUFFICES ASSUME NEW i \in DOMAIN l PROVE l[i] = k[i]
    OBVIOUS
  <2>1. -l[i] = -k[i]
    <3>1. NegatedLocator(l)[i] = -l[i] /\ NegatedLocator(k)[i] = -k[i]
      BY <1>1 DEF NegatedLocator
    <3> QED
      BY <3>1
  <2>2. l[i] \in Nat /\ k[i] \in Nat
    BY <1>1
  <2> QED
    BY <2>1, <2>2
<1> QED
  BY <1>1, <1>2, <1>3

\* Among the hits of one source the citing order is strict as well.
LEMMA CitingOrder ==
  ASSUME NEW src, NEW of \in SUBSET {h \in Hits : h.source = src}
  PROVE  StrictOrder(AheadPairs, of)
<1> USE DEF AheadPairs
<1>1. \A x \in of : <<x, x>> \notin AheadPairs
  <2> SUFFICES ASSUME NEW x \in of PROVE ~Ahead(x, x)
    OBVIOUS
  <2>1. ~TextBefore(NegatedLocator(x.locator), NegatedLocator(x.locator)) /\ x.score \in Nat
    BY HitType, TextOrder
  <2> QED
    BY <2>1 DEF Ahead
<1>2. \A x, y, z \in of : Ahead(x, y) /\ Ahead(y, z) => Ahead(x, z)
  <2> SUFFICES ASSUME NEW x \in of, NEW y \in of, NEW z \in of, Ahead(x, y), Ahead(y, z)
               PROVE  Ahead(x, z)
    OBVIOUS
  <2> DEFINE N(h) == NegatedLocator(h.locator)
  <2>1. TextBefore(N(z), N(y)) /\ TextBefore(N(y), N(x)) => TextBefore(N(z), N(x))
    BY HitType, TextOrder
  <2>2. x.score \in Nat /\ y.score \in Nat /\ z.score \in Nat
    BY HitType
  <2> QED
    BY <2>1, <2>2 DEF Ahead
<1>3. \A x, y \in of : x # y => Ahead(x, y) \/ Ahead(y, x)
  <2> SUFFICES ASSUME NEW x \in of, NEW y \in of, x # y PROVE Ahead(x, y) \/ Ahead(y, x)
    OBVIOUS
  <2> DEFINE N(h) == NegatedLocator(h.locator)
  <2>1. N(x) # N(y) => TextBefore(N(x), N(y)) \/ TextBefore(N(y), N(x))
    BY HitType, TextOrder
  <2>2. N(x) = N(y) => x.locator = y.locator
    BY HitType, NegationKeeps
  <2>3. x.locator # y.locator \/ x.score # y.score
    BY HitType
  <2>4. x.score \in Nat /\ y.score \in Nat
    BY HitType
  <2> QED
    BY <2>1, <2>2, <2>3, <2>4 DEF Ahead
<1> QED
  BY <1>1, <1>2, <1>3 DEF StrictOrder

\* Ranking by a strict order gives each place the element of that rank.
LEMMA RankedByRank ==
  ASSUME NEW S, IsFiniteSet(S), NEW order, StrictOrder(order, S)
  PROVE  /\ Ranked(S, order) \in [1..Cardinality(S) -> S]
         /\ \A k \in 1..Cardinality(S) : Rank(order, S, Ranked(S, order)[k]) = k - 1
<1>1. Ranked(S, order) =
        [k \in 1..Cardinality(S) |-> CHOOSE x \in S : Rank(order, S, x) = k - 1]
  BY DEF Ranked, Rank
<1>2. \A k \in 1..Cardinality(S) : \E x \in S : Rank(order, S, x) = k - 1
  BY RankFound
<1> QED
  BY <1>1, <1>2

-----------------------------------------------------------------------------
\* f keeps one element of s for every key, and no other: p tells which.
KeepsAt(f, s, keys, p) ==
  /\ p \in [DOMAIN f -> DOMAIN s]
  /\ \A k \in DOMAIN f : f[k] = s[p[k]]
  /\ \A i, j \in DOMAIN f : keys[p[i]] = keys[p[j]] => i = j
  /\ \A i \in DOMAIN s : \E k \in DOMAIN f : keys[p[k]] = keys[i]

\* FirstSeen keeps every key once.
LEMMA FirstSeenKeeps ==
  ASSUME NEW T, NEW s \in Seq(T), NEW keys, NEW f, f = FirstSeen(s, keys)
  PROVE  f \in Seq(T) /\ \E p : KeepsAt(f, s, keys, p)
<1> DEFINE firsts == {i \in DOMAIN s : \A j \in 1..i - 1 : keys[i] # keys[j]}
           R      == Ascending(firsts)
           p      == Ranked(firsts, R)
<1>1. f = [k \in DOMAIN p |-> s[p[k]]]
  BY DEF FirstSeen
<1>2. /\ firsts \in SUBSET (1..Len(s)) /\ firsts \in SUBSET Nat /\ Len(s) \in Nat
      /\ \A i \in firsts : \A j \in 1..i - 1 : keys[i] # keys[j]
      /\ \A i \in 1..Len(s) : (\A j \in 1..i - 1 : keys[i] # keys[j]) => i \in firsts
  OBVIOUS
<1> HIDE DEF firsts
<1>3. \A x, y \in firsts : <<x, y>> \in R <=> x < y
  BY DEF Ascending
<1> HIDE DEF R
<1>4. IsFiniteSet(firsts) /\ Cardinality(firsts) \in Nat
  <2>1. IsFiniteSet(1..Len(s))
    BY <1>2, FS_Interval
  <2> QED
    BY <1>2, <2>1, FS_Subset, FS_CardinalityType
<1>5. StrictOrder(R, firsts)
  <2>1. \A x \in firsts : x \in Nat
    BY <1>2
  <2> QED
    BY <2>1, <1>3 DEF StrictOrder
<1>7. /\ p \in [1..Cardinality(firsts) -> firsts]
      /\ \A k \in 1..Cardinality(firsts) : Rank(R, firsts, p[k]) = k - 1
  BY <1>4, <1>5, RankedByRank
<1> HIDE DEF p
<1>8. /\ p \in Seq(firsts) /\ DOMAIN p = 1..Len(p) /\ \A k \in DOMAIN p : p[k] \in firsts
      /\ \A x \in firsts : \E k \in DOMAIN p : p[k] = x
      /\ \A i, j \in DOMAIN p : i < j => <<p[i], p[j]>> \in R
  <2>1. /\ p \in Seq(firsts) /\ Len(p) = Cardinality(firsts)
        /\ \A x \in firsts : \E k \in DOMAIN p : p[k] = x
        /\ \A i, j \in DOMAIN p : i < j => <<p[i], p[j]>> \in R
    BY <1>4, <1>5, <1>7, RankedInOrder
  <2> QED
    BY <2>1
<1>9. /\ \A k \in DOMAIN p : p[k] \in 1..Len(s) /\ s[p[k]] \in T
      /\ DOMAIN f = DOMAIN p /\ \A k \in DOMAIN f : f[k] = s[p[k]]
  <2>1. \A k \in DOMAIN p : p[k] \in 1..Len(s)
    BY <1>2, <1>8
  <2>2. \A i \in 1..Len(s) : s[i] \in T
    OBVIOUS
  <2> QED
    BY <1>1, <2>1, <2>2
<1>10. f \in Seq(T) /\ p \in [DOMAIN f -> DOMAIN s]
  <2>1. f \in [1..Len(p) -> T] /\ Len(p) \in Nat
    BY <1>1, <1>8, <1>9
  <2>2. p \in [1..Len(p) -> firsts]
    BY <1>8
  <2> QED
    BY <2>1, <2>2, <1>1, <1>2, <1>8, <1>9
<1>11. \A i, j \in DOMAIN p : i < j => keys[p[i]] # keys[p[j]]
  <2> SUFFICES ASSUME NEW i \in DOMAIN p, NEW j \in DOMAIN p, i < j PROVE keys[p[i]] # keys[p[j]]
    OBVIOUS
  <2>1. p[i] \in firsts /\ p[j] \in firsts /\ p[i] \in Nat /\ p[j] \in Nat /\ p[i] < p[j]
    BY <1>2, <1>3, <1>8
  <2>2. p[i] \in 1..p[j] - 1
    BY <2>1, <1>2
  <2> QED
    BY <2>1, <2>2, <1>2
<1>12. ASSUME NEW i \in DOMAIN s PROVE \E k \in DOMAIN f : keys[p[k]] = keys[i]
  <2> DEFINE same == {j \in 1..Len(s) : keys[j] = keys[i]}
  <2>1. PICK n \in same : \A m \in same : n <= m
    <3>1. same \in SUBSET Nat /\ i \in same
      OBVIOUS
    <3> HIDE DEF same
    <3> QED
      BY <3>1, LeastNat
  <2>2. n \in firsts
    <3>1. \A j \in 1..n - 1 : j \notin same /\ j \in 1..Len(s)
      BY <2>1
    <3> QED
      BY <2>1, <3>1, <1>2
  <2> QED
    BY <2>1, <2>2, <1>8, <1>9
<1>13. \A i, j \in DOMAIN f : keys[p[i]] = keys[p[j]] => i = j
  BY <1>8, <1>9, <1>11
<1>14. KeepsAt(f, s, keys, p)
  BY <1>9, <1>10, <1>12, <1>13 DEF KeepsAt
<1> QED
  BY <1>10, <1>14

\* The best hit of a source is one of the researcher's, and none scores higher.
LEMMA BestIsBest ==
  ASSUME NEW b \in Researchers, TypeOK, IsFiniteSet(collected[b]), NEW src,
         \E h \in Known(b) : h.source = src
  PROVE  /\ Best(b, src) \in collected[b] /\ Best(b, src).source = src
         /\ \A h \in collected[b] : h.source = src => h.score <= Best(b, src).score
<1> DEFINE of == {h \in Known(b) : h.source = src}
<1>1. of \in SUBSET collected[b] /\ of # {} /\ collected[b] \in SUBSET Hits
  BY DEF Known, TypeOK
<1>2. IsFiniteSet(of) /\ Cardinality(of) \in Nat /\ Cardinality(of) # 0
  BY <1>1, FS_Subset, FS_CardinalityType, FS_EmptySet
<1>3. StrictOrder(AheadPairs, of)
  BY <1>1, CitingOrder
<1>4. PICK best \in of : Rank(AheadPairs, of, best) = 0
  <2>1. 1 \in 1..Cardinality(of)
    BY <1>2
  <2> HIDE DEF of
  <2> QED
    BY <2>1, <1>2, <1>3, RankFound
<1>5. \A k \in of \ {best} : Ahead(best, k)
  <2> SUFFICES ASSUME NEW k \in of, k # best PROVE <<best, k>> \in AheadPairs
    BY DEF AheadPairs
  <2>1. <<k, best>> \notin AheadPairs
    <3>1. Rank(AheadPairs, of, k) \in Nat
      BY <1>2, <1>3, RankOrders
    <3> QED
      BY <3>1, <1>2, <1>3, <1>4, RankOrders
  <2> QED
    BY <2>1, <1>3 DEF StrictOrder
<1>6. Best(b, src) \in of /\ \A k \in of \ {Best(b, src)} : Ahead(Best(b, src), k)
  BY <1>5 DEF Best
<1>7. \A h \in Hits : h.score \in Nat
  BY HitType
<1> QED
  BY <1>1, <1>6, <1>7 DEF Ahead, Known

\* A sound draft becomes citations that are the researcher's own and its best.
LEMMA CitationsAreBest ==
  ASSUME NEW b \in Researchers, TypeOK, IsFiniteSet(collected[b]),
         NEW draft \in Drafts, Sound(b, draft), NEW cited, cited = MapCitations(b, draft)
  PROVE  /\ cited \in Seq(Hits) /\ cited # <<>>
         /\ \A i, j \in DOMAIN cited : cited[i].source = cited[j].source => i = j
         /\ \A i \in DOMAIN cited :
              /\ cited[i] \in collected[b]
              /\ \A h \in collected[b] : h.source = cited[i].source => h.score <= cited[i].score
<1> DEFINE T == Sources \cup {Invented}
           sources == FirstSeen(draft, draft)
<1>1. draft \in Seq(T) /\ draft # <<>>
  BY DEF Drafts, Sound
<1>2. PICK p : KeepsAt(sources, draft, draft, p)
  <2> HIDE DEF T
  <2> QED
    BY <1>1, FirstSeenKeeps
<1>3. sources \in Seq(T)
  <2> HIDE DEF T
  <2> QED
    BY <1>1, FirstSeenKeeps
<1>4. cited = [i \in DOMAIN sources |-> Best(b, sources[i])]
  BY DEF MapCitations
<1> HIDE DEF sources, T
<1>5. \A i \in DOMAIN sources : \E h \in Known(b) : h.source = sources[i]
  BY <1>2 DEF Sound, KeepsAt
<1>6. \A i \in DOMAIN sources :
        /\ cited[i] \in collected[b] /\ cited[i].source = sources[i]
        /\ \A h \in collected[b] : h.source = sources[i] => h.score <= cited[i].score
  BY <1>4, <1>5, BestIsBest
<1>7. cited \in Seq(Hits)
  <2>1. collected[b] \in SUBSET Hits
    BY DEF TypeOK
  <2>2. DOMAIN sources = 1..Len(sources) /\ Len(sources) \in Nat
    BY <1>3
  <2> QED
    BY <2>1, <2>2, <1>4, <1>6
<1>8. DOMAIN cited = DOMAIN sources
  BY <1>4
<1>9. cited # <<>>
  <2>1. 1 \in DOMAIN draft
    BY <1>1
  <2>2. DOMAIN cited # {}
    BY <2>1, <1>2, <1>8 DEF KeepsAt
  <2> QED
    BY <2>2
<1>10. \A i, j \in DOMAIN cited : cited[i].source = cited[j].source => i = j
  BY <1>2, <1>6, <1>8 DEF KeepsAt
<1> QED
  BY <1>6, <1>7, <1>8, <1>9, <1>10

-----------------------------------------------------------------------------
\* An order of a set orders its subsets.
LEMMA OrdersSubset ==
  ASSUME NEW S, NEW R, StrictOrder(R, S), NEW T \in SUBSET S
  PROVE  StrictOrder(R, T)
BY DEF StrictOrder

\* Ranking orders the notes: nothing is left out, and better ones come first.
NotesRanked(S) == Ranked(S, RankOrder(S))

\* Ranked notes are all the notes, the better ones first.
LEMMA RankedNotes ==
  ASSUME NEW S \in SUBSET Hits, IsFiniteSet(S)
  PROVE  /\ NotesRanked(S) \in Seq(S) /\ Len(NotesRanked(S)) = Cardinality(S)
         /\ Len(NotesRanked(S)) \in Nat
         /\ \A x \in S : \E k \in DOMAIN NotesRanked(S) : NotesRanked(S)[k] = x
         /\ \A i, j \in DOMAIN NotesRanked(S) : i < j => RanksBefore(NotesRanked(S)[i], NotesRanked(S)[j])
<1> DEFINE r == NotesRanked(S)
<1>1. StrictOrder(RankOrder(S), S)
  <2>1. StrictOrder(RankPairs, S)
    BY NotesOrder, OrdersSubset
  <2>2. \A x, y \in S : <<x, y>> \in RankOrder(S) <=> <<x, y>> \in RankPairs
    BY DEF RankOrder, RankPairs
  <2> QED
    BY <2>1, <2>2 DEF StrictOrder
<1>2. Cardinality(S) \in Nat
  BY FS_CardinalityType
<1>6. /\ r \in [1..Cardinality(S) -> S]
      /\ \A k \in 1..Cardinality(S) : Rank(RankOrder(S), S, r[k]) = k - 1
  BY <1>1, RankedByRank DEF NotesRanked
<1> HIDE DEF r
<1>7. /\ r \in Seq(S) /\ Len(r) = Cardinality(S)
      /\ \A x \in S : \E k \in DOMAIN r : r[k] = x
      /\ \A i, j \in DOMAIN r : i < j => <<r[i], r[j]>> \in RankOrder(S)
  BY <1>1, <1>6, RankedInOrder
<1>8. \A x, y : <<x, y>> \in RankOrder(S) => RanksBefore(x, y)
  BY DEF RankOrder
<1> QED
  BY <1>2, <1>7, <1>8 DEF r

\* No result is lost to distilling: its anchor keeps a hit at least as good.
LEMMA DistilledCovers ==
  ASSUME NEW results \in SUBSET Hits, IsFiniteSet(results), NEW h \in results
  PROVE  \E d \in Distilled(results) : Anchor(d) = Anchor(h) /\ h.score <= d.score
<1> DEFINE same == {k \in results : Anchor(k) = Anchor(h)}
<1>1. same \in SUBSET Hits /\ same \in SUBSET results /\ h \in same
  OBVIOUS
<1>2. IsFiniteSet(same) /\ Cardinality(same) \in Nat /\ Cardinality(same) # 0
  BY <1>1, FS_Subset, FS_CardinalityType, FS_EmptySet
<1>3. StrictOrder(RankPairs, same)
  BY <1>1, NotesOrder, OrdersSubset
<1>4. PICK d \in same : Rank(RankPairs, same, d) = 0
  <2>1. 1 \in 1..Cardinality(same)
    BY <1>2
  <2> HIDE DEF same
  <2> QED
    BY <2>1, <1>2, <1>3, RankFound
<1>5. \A k \in same : k.score <= d.score
  <2> SUFFICES ASSUME NEW k \in same PROVE k.score <= d.score
    OBVIOUS
  <2>1. <<k, d>> \notin RankPairs
    <3>1. Rank(RankPairs, same, k) \in Nat
      BY <1>2, <1>3, RankOrders
    <3> HIDE DEF same
    <3> QED
      BY <3>1, <1>2, <1>3, <1>4, RankOrders
  <2>2. ~RanksBefore(k, d) /\ k.score \in Nat /\ d.score \in Nat
    BY <1>1, <2>1, HitType DEF RankPairs
  <2> QED
    BY <2>2 DEF RanksBefore
<1>6. d \in Distilled(results)
  BY <1>5 DEF Distilled
<1> QED
  BY <1>4, <1>5, <1>6

\* The notes are the researcher's own, no anchor twice, and what they leave out is
\* no better than what they keep.
LEMMA NotesAreBest ==
  ASSUME NEW results \in SUBSET Hits, IsFiniteSet(results), results # {},
         NEW notes, notes = DistillNotes(results)
  PROVE  /\ notes \in Seq(Hits) /\ notes # <<>> /\ Len(notes) <= MaxNotes
         /\ \A i \in DOMAIN notes : notes[i] \in results
         /\ \A i, j \in DOMAIN notes : Anchor(notes[i]) = Anchor(notes[j]) => i = j
         /\ \A h \in results :
              \/ \E i \in DOMAIN notes : Anchor(notes[i]) = Anchor(h) /\ h.score <= notes[i].score
              \/ Len(notes) = MaxNotes /\ \A i \in DOMAIN notes : h.score <= notes[i].score
<1> DEFINE D == Distilled(results)
           r == NotesRanked(D)
           n == IF Len(r) < MaxNotes THEN Len(r) ELSE MaxNotes
<1>1. D \in SUBSET results /\ D \in SUBSET Hits
  BY DEF Distilled
<1>2. IsFiniteSet(D)
  BY <1>1, FS_Subset
<1> HIDE DEF D
<1>3. /\ r \in Seq(D) /\ Len(r) = Cardinality(D) /\ Len(r) \in Nat
      /\ \A x \in D : \E k \in DOMAIN r : r[k] = x
      /\ \A i, j \in DOMAIN r : i < j => RanksBefore(r[i], r[j])
  BY <1>1, <1>2, RankedNotes
<1>4. notes = SubSeq(r, 1, n)
  BY DEF DistillNotes, D, NotesRanked
<1> HIDE DEF r, n
<1>5. DOMAIN r = 1..Len(r) /\ \A i \in DOMAIN r : r[i] \in D /\ r[i] \in Hits /\ r[i] \in results
  <2>1. \A i \in 1..Len(r) : r[i] \in D
    BY <1>3
  <2> QED
    BY <1>1, <1>3, <2>1
<1>6. MaxNotes \in Nat \ {0}
  BY ResearchAssumption DEF ResearchAssumption
<1>7. /\ n \in Nat /\ Len(r) \in Nat /\ n <= Len(r) /\ n <= MaxNotes
      /\ n = Len(r) \/ n = MaxNotes
  BY <1>3, <1>6 DEF n
<1>8. PICK d \in D : TRUE
  <2>1. PICK h \in results : TRUE
    OBVIOUS
  <2> QED
    BY <2>1, DistilledCovers DEF D
<1>9. n # 0
  BY <1>3, <1>5, <1>6, <1>7, <1>8
<1>10. /\ notes \in Seq(Hits) /\ Len(notes) = n /\ DOMAIN notes = 1..n
       /\ \A i \in 1..n : i \in DOMAIN r /\ notes[i] = r[i]
  <2>1. ASSUME NEW i \in 1..n PROVE i \in DOMAIN r /\ r[i] \in Hits
    <3>1. i \in 1..Len(r)
      BY <1>7
    <3> QED
      BY <3>1, <1>5
  <2>2. notes \in Seq(Hits) /\ Len(notes) = n /\ \A i \in 1..n : notes[i] = r[i]
    BY <1>3, <1>4, <1>7, <2>1
  <2> QED
    BY <2>1, <2>2
<1>11. \A x, y \in D : Anchor(x) = Anchor(y) => x.score = y.score
  <2> SUFFICES ASSUME NEW x \in D, NEW y \in D, Anchor(x) = Anchor(y) PROVE x.score = y.score
    OBVIOUS
  <2>1. x.score <= y.score /\ y.score <= x.score /\ x.score \in Nat /\ y.score \in Nat
    BY <1>1, HitType DEF D, Distilled
  <2> QED
    BY <2>1
<1>12. \A i, j \in DOMAIN r : i < j => Anchor(r[i]) # Anchor(r[j]) /\ r[j].score <= r[i].score
  <2> SUFFICES ASSUME NEW i \in DOMAIN r, NEW j \in DOMAIN r, i < j
               PROVE  Anchor(r[i]) # Anchor(r[j]) /\ r[j].score <= r[i].score
    OBVIOUS
  <2>1. RanksBefore(r[i], r[j]) /\ r[i] \in D /\ r[j] \in D /\ r[i] \in Hits /\ r[j] \in Hits
    BY <1>3, <1>5
  <2>2. /\ r[i].score \in Nat /\ r[j].score \in Nat /\ r[i].source \in Nat
        /\ ~TextBefore(r[i].locator, r[i].locator)
    BY <2>1, HitType, TextOrder
  <2>3. Anchor(r[i]) = Anchor(r[j]) =>
          r[i].score = r[j].score /\ r[i].source = r[j].source /\ r[i].locator = r[j].locator
    BY <2>1, <1>11 DEF Anchor
  <2> QED
    BY <2>1, <2>2, <2>3 DEF RanksBefore
<1>13. \A i, j \in DOMAIN notes : Anchor(notes[i]) = Anchor(notes[j]) => i = j
  BY <1>7, <1>10, <1>12
<1>14. ASSUME NEW h \in results
       PROVE  \/ \E i \in DOMAIN notes : Anchor(notes[i]) = Anchor(h) /\ h.score <= notes[i].score
              \/ Len(notes) = MaxNotes /\ \A i \in DOMAIN notes : h.score <= notes[i].score
  <2>1. PICK x \in D : Anchor(x) = Anchor(h) /\ h.score <= x.score
    BY DistilledCovers DEF D
  <2>2. PICK k \in 1..Len(r) : r[k] = x
    BY <1>3, <1>5
  <2>3. CASE k <= n
    <3>1. k \in 1..n
      BY <1>7, <2>3
    <3>2. k \in DOMAIN notes /\ notes[k] = x
      BY <3>1, <1>10, <2>2
    <3> QED
      BY <3>2, <2>1
  <2>4. CASE n < k
    <3>1. n = MaxNotes
      BY <1>7, <2>4
    <3>2. ASSUME NEW i \in DOMAIN notes PROVE h.score <= notes[i].score
      <4>1. i \in DOMAIN r /\ i < k /\ notes[i] = r[i]
        BY <1>7, <1>10, <2>4
      <4>2. x.score <= notes[i].score
        BY <4>1, <1>5, <1>12, <2>2
      <4>3. h.score \in Nat /\ x.score \in Nat /\ notes[i].score \in Nat
        BY <1>1, <1>5, <4>1, HitType
      <4> QED
        BY <4>2, <4>3, <2>1
    <3> QED
      BY <3>1, <3>2, <1>10
  <2> QED
    BY <1>7, <2>3, <2>4
<1> QED
  BY <1>5, <1>7, <1>9, <1>10, <1>13, <1>14

-----------------------------------------------------------------------------
\* A sequence of findings has its citations joined, up to each of them.
LEMMA JoinExists ==
  ASSUME NEW g, NEW N \in Nat
  PROVE  \E f : f = [n \in 0..N |-> IF n = 0 THEN <<>> ELSE f[n - 1] \o g[n].citations]
<1> DEFINE Joined(f, m) == f = [n \in 0..m |-> IF n = 0 THEN <<>> ELSE f[n - 1] \o g[n].citations]
           bad == {m \in Nat : ~\E f : Joined(f, m)}
<1> SUFFICES ASSUME bad # {} PROVE FALSE
  OBVIOUS
<1>1. PICK m \in bad : \A k \in bad : m <= k
  <2>1. bad \in SUBSET Nat
    OBVIOUS
  <2> HIDE DEF bad
  <2> QED
    BY <2>1, LeastNat
<1>2. m \in Nat /\ ~\E f : Joined(f, m)
  OBVIOUS
<1>3. CASE m = 0
  <2> DEFINE f == [n \in 0..0 |-> <<>>]
  <2>1. Joined(f, 0)
    OBVIOUS
  <2> HIDE DEF f, Joined
  <2> QED
    BY <1>2, <1>3, <2>1
<1>4. CASE m # 0
  <2>1. m - 1 \in Nat /\ m - 1 \notin bad
    <3>1. m - 1 \in Nat /\ ~(m <= m - 1)
      BY <1>2, <1>4
    <3> HIDE DEF bad
    <3> QED
      BY <3>1, <1>1
  <2>2. PICK f : Joined(f, m - 1)
    BY <2>1
  <2> DEFINE h == [n \in 0..m |-> IF n < m THEN f[n] ELSE f[m - 1] \o g[m].citations]
  <2>3. ASSUME NEW n \in 0..m
        PROVE  h[n] = IF n = 0 THEN <<>> ELSE h[n - 1] \o g[n].citations
    <3>1. CASE n = 0
      BY <3>1, <1>4, <2>1, <2>2
    <3>2. CASE n # 0 /\ n < m
      <4>1. n \in 0..m - 1 /\ n - 1 \in 0..m /\ n - 1 < m
        BY <3>2, <2>1
      <4>2. h[n] = f[n] /\ h[n - 1] = f[n - 1]
        BY <3>2, <4>1
      <4>3. f[n] = f[n - 1] \o g[n].citations
        BY <2>2, <3>2, <4>1
      <4> QED
        BY <3>2, <4>2, <4>3
    <3>3. CASE n = m
      <4>1. n - 1 \in 0..m /\ n - 1 < m /\ ~(n < m)
        BY <3>3, <1>4, <2>1
      <4>2. h[n - 1] = f[n - 1]
        BY <4>1
      <4> QED
        BY <3>3, <4>1, <4>2, <1>4
    <3> QED
      BY <3>1, <3>2, <3>3, <1>2
  <2>4. h = [n \in 0..m |-> h[n]]
    OBVIOUS
  <2> HIDE DEF h
  <2>5. Joined(h, m)
    BY <2>3, <2>4
  <2> QED
    BY <1>2, <2>5
<1> QED
  BY <1>3, <1>4

\* Joined up to n, they hold what the first n findings cite.
LEMMA JoinedCitations ==
  ASSUME NEW N \in Nat, NEW c \in [1..N -> Seq(Hits)],
         NEW f, f[0] = <<>>, \A n \in 1..N : f[n] = f[n - 1] \o c[n],
         NEW m \in 0..N
  PROVE  /\ f[m] \in Seq(Hits)
         /\ \A x : x \in Held(f[m]) <=> \E n \in 1..m : x \in Held(c[n])
<1> DEFINE Good(k) == /\ f[k] \in Seq(Hits)
                      /\ \A x : x \in Held(f[k]) <=> \E n \in 1..k : x \in Held(c[n])
           bad == {k \in 0..N : ~Good(k)}
<1>1. Good(0)
  <2>1. 1..0 = {} /\ Held(<<>>) = {}
    BY DEF Held
  <2> QED
    BY <2>1
<1>2. ASSUME NEW k \in 1..N, Good(k - 1) PROVE Good(k)
  <2>1. f[k - 1] \in Seq(Hits) /\ c[k] \in Seq(Hits) /\ f[k] = f[k - 1] \o c[k]
    BY <1>2
  <2>2. f[k] \in Seq(Hits) /\ Held(f[k]) = Held(f[k - 1]) \cup Held(c[k])
    BY <2>1, ConcatHolds
  <2>3. 1..k = (1..k - 1) \cup {k}
    OBVIOUS
  <2> QED
    BY <1>2, <2>2, <2>3
<1> HIDE DEF Good
<1> SUFFICES ASSUME bad # {} PROVE FALSE
  BY DEF Good
<1>3. PICK k \in bad : \A l \in bad : k <= l
  <2>1. bad \in SUBSET Nat
    OBVIOUS
  <2> HIDE DEF bad
  <2> QED
    BY <2>1, LeastNat
<1>4. k \in 0..N /\ ~Good(k) /\ k # 0
  BY <1>1
<1>5. k \in 1..N /\ k - 1 \in 0..N /\ ~(k <= k - 1)
  BY <1>4
<1>6. Good(k - 1)
  BY <1>3, <1>5
<1> QED
  BY <1>2, <1>4, <1>5, <1>6

\* The citations of all findings: theirs, all of them, and nothing else.
LEMMA AllCitationsJoined ==
  ASSUME TypeOK, MaxResearchers >= 0
  PROVE  /\ AllCitations \in Seq(Hits)
         /\ \A x : x \in Held(AllCitations) <=> \E b \in Selected : x \in Held(finding[b].citations)
<1> DEFINE N == Capped(planned)
           Joined(f) == f = [n \in 0..N |-> IF n = 0 THEN <<>> ELSE f[n - 1] \o finding[n].citations]
           f == CHOOSE f : Joined(f)
<1>1. N \in Nat /\ N <= MaxPlan /\ Selected = 1..N /\ MaxPlan \in Nat
  BY ResearchAssumption DEF TypeOK, Capped, Selected, ResearchAssumption
<1>2. AllCitations = f[N]
  BY DEF AllCitations
<1>3. Joined(f)
  <2>1. \E h : Joined(h)
    <3> HIDE DEF N
    <3> QED
      BY <1>1, JoinExists
  <2> HIDE DEF Joined
  <2> QED
    BY <2>1
<1>4. \A n \in 1..N : finding[n].citations \in Seq(Hits)
  BY <1>1 DEF TypeOK, Findings, Researchers
<1> HIDE DEF f, N
<1>5. f[0] = <<>> /\ \A n \in 1..N : f[n] = f[n - 1] \o finding[n].citations
  BY <1>1, <1>3
<1>6. N \in 0..N
  BY <1>1
<1> HIDE DEF Joined
<1>7. /\ f[N] \in Seq(Hits)
      /\ \A x : x \in Held(f[N]) <=> \E n \in 1..N : x \in Held(finding[n].citations)
  <2> DEFINE c == [n \in 1..N |-> finding[n].citations]
  <2>1. c \in [1..N -> Seq(Hits)] /\ \A n \in 1..N : c[n] = finding[n].citations
    BY <1>4
  <2> HIDE DEF c
  <2>3. N \in Nat /\ c \in [1..N -> Seq(Hits)] /\ f[0] = <<>> /\ \A n \in 1..N : f[n] = f[n - 1] \o c[n]
    BY <1>1, <1>5, <2>1
  <2>2. /\ f[N] \in Seq(Hits)
        /\ \A x : x \in Held(f[N]) <=> \E n \in 1..N : x \in Held(c[n])
    <3>1. \A M \in Nat : \A d \in [1..M -> Seq(Hits)] : \A h :
             h[0] = <<>> /\ (\A n \in 1..M : h[n] = h[n - 1] \o d[n]) =>
                \A m \in 0..M : /\ h[m] \in Seq(Hits)
                               /\ \A x : x \in Held(h[m]) <=> \E n \in 1..m : x \in Held(d[n])
      BY JoinedCitations
    <3>2. \A h : h[0] = <<>> /\ (\A n \in 1..N : h[n] = h[n - 1] \o c[n]) =>
                \A m \in 0..N : /\ h[m] \in Seq(Hits)
                               /\ \A x : x \in Held(h[m]) <=> \E n \in 1..m : x \in Held(c[n])
      BY <2>3, <3>1, Zenon
    <3>3. f[0] = <<>> /\ (\A n \in 1..N : f[n] = f[n - 1] \o c[n]) =>
                \A m \in 0..N : /\ f[m] \in Seq(Hits)
                               /\ \A x : x \in Held(f[m]) <=> \E n \in 1..m : x \in Held(c[n])
      BY <3>2, Zenon
    <3> QED
      BY <1>6, <2>3, <3>3, Zenon
  <2> QED
    BY <2>1, <2>2
<1> QED
  BY <1>1, <1>2, <1>7

\* Deduplication drops no anchor and leaves each once.
LEMMA DedupKeeps ==
  ASSUME NEW cs \in Seq(Hits)
  PROVE  /\ Dedup(cs) \in Seq(Hits)
         /\ \A i, j \in DOMAIN Dedup(cs) : Anchor(Dedup(cs)[i]) = Anchor(Dedup(cs)[j]) => i = j
         /\ Anchors(Dedup(cs)) = Anchors(cs)
<1> DEFINE keys == [i \in DOMAIN cs |-> DedupKey(cs[i])]
           f == Dedup(cs)
<1>1. f = FirstSeen(cs, keys)
  BY DEF Dedup
<1>2. \A i \in DOMAIN cs : keys[i] = Anchor(cs[i])
  BY DEF DedupKey, Anchor
<1> HIDE DEF f, keys
<1>3. f \in Seq(Hits)
  BY <1>1, FirstSeenKeeps
<1>4. PICK p : KeepsAt(f, cs, keys, p)
  BY <1>1, FirstSeenKeeps
<1>5. \A k \in DOMAIN f : p[k] \in DOMAIN cs /\ keys[p[k]] = Anchor(f[k]) /\ Anchor(f[k]) = Anchor(cs[p[k]])
  BY <1>2, <1>4 DEF KeepsAt
<1>6. Anchors(f) = Anchors(cs)
  <2>1. \A i \in DOMAIN cs : \E k \in DOMAIN f : Anchor(cs[i]) = Anchor(f[k])
    BY <1>2, <1>4, <1>5 DEF KeepsAt
  <2> QED
    BY <1>5, <2>1 DEF Anchors
<1>7. \A i, j \in DOMAIN f : Anchor(f[i]) = Anchor(f[j]) => i = j
  BY <1>4, <1>5 DEF KeepsAt
<1> QED
  BY <1>3, <1>6, <1>7 DEF f

-----------------------------------------------------------------------------
\* The steps of a run, by name.  What fails a researcher fails it one way.
LEMMA StepCases ==
  ASSUME Next
  PROVE  \/ Clarify \/ (\E n \in 0..MaxPlan : Plan(n)) \/ BriefHeard \/ FanOut
         \/ GatherReturns \/ WriteReport \/ ReportHeard \/ LeadRaises
         \/ \E b \in Researchers :
              \/ StartHeard(b) \/ FindingHeard(b) \/ (at[b] \in Working /\ Fail(b))
              \/ \E asks, satisfied \in BOOLEAN : Reflect(b, asks, satisfied)
              \/ \E found \in SUBSET Hits : SearchReturns(b, found)
              \/ \E draft \in Drafts : Compress(b, draft)
BY DEF Next, Lead, Research, ResearcherRaises, CitationError, Working

\* What is planned and within the cap are researchers.
LEMMA SelectedWithin ==
  ASSUME planned \in 0..MaxPlan
  PROVE  /\ Selected \in SUBSET Researchers
         /\ \A b \in Selected : b <= MaxResearchers
         /\ Capped(planned) \in Int
BY ResearchAssumption DEF Selected, Capped, Researchers, ResearchAssumption

\* A run begins with nobody at work and nothing found.
LEMMA TypeInit == Init => TypeOK /\ LeadInv /\ \A b \in Researchers : LoopInv(b)
<1> SUFFICES ASSUME Init PROVE TypeOK /\ LeadInv /\ \A b \in Researchers : LoopInv(b)
  OBVIOUS
<1>1. TypeOK
  <2>1. NoFinding \in Findings /\ NoReport \in [citations : Seq(Hits), truncated : BOOLEAN]
    BY DEF NoFinding, Findings, NoReport
  <2>2. 0 \in 0..MaxPlan
    BY ResearchAssumption DEF ResearchAssumption
  <2> QED
    BY <2>1, <2>2 DEF Init, TypeOK, Stages
<1>2. LeadInv
  BY DEF Init, LeadInv
<1>3. \A b \in Researchers : LoopInv(b)
  BY FS_EmptySet DEF Init, LoopInv
<1> QED
  BY <1>1, <1>2, <1>3

\* The caps: a turn is begun below the cap, and a researcher started within the other.
LEMMA TypeStep ==
  ASSUME TypeOK, LeadInv, \A b \in Researchers : LoopInv(b), Next
  PROVE  TypeOK'
<1> USE DEF Stages, Working
<1>1. CASE Clarify \/ BriefHeard \/ GatherReturns \/ ReportHeard \/ LeadRaises
  BY <1>1 DEF Clarify, BriefHeard, GatherReturns, ReportHeard, LeadRaises, TypeOK, research
<1>2. ASSUME NEW n \in 0..MaxPlan, Plan(n) PROVE TypeOK'
  BY <1>2 DEF Plan, TypeOK, research
<1>3. CASE FanOut
  <2>1. \A b \in Researchers : at[b] = "none" /\ turn[b] = 0
    BY <1>3 DEF FanOut, LeadInv, LoopInv
  <2>2. MaxIterations >= 1 /\ MaxIterations \in Int
    BY <1>3, ResearchAssumption DEF FanOut, LeadInv, Accepted, ResearchAssumption
  <2>3. \A b \in Researchers : at'[b] # "none" => b <= MaxResearchers /\ turn'[b] <= MaxIterations
    BY <1>3, <2>1, <2>2, SelectedWithin DEF FanOut, TypeOK
  <2> QED
    BY <1>3, <2>3 DEF FanOut, TypeOK
<1>4. CASE WriteReport
  <2>1. Dedup(AllCitations) \in Seq(Hits)
    <3>1. MaxResearchers >= 0
      BY <1>4, ResearchAssumption DEF WriteReport, LeadInv, Accepted, ResearchAssumption
    <3> QED
      BY <3>1, AllCitationsJoined, DedupKeeps
  <2>2. (planned > MaxResearchers) \in BOOLEAN
    OBVIOUS
  <2> QED
    BY <1>4, <2>1, <2>2 DEF WriteReport, TypeOK, research
<1>5. ASSUME NEW b \in Researchers, StartHeard(b) \/ FindingHeard(b) PROVE TypeOK'
  BY <1>5 DEF StartHeard, FindingHeard, TypeOK
<1>6. ASSUME NEW b \in Researchers, at[b] \in Working, Fail(b) PROVE TypeOK'
  <2>1. NoFinding \in Findings
    BY DEF NoFinding, Findings
  <2>2. MaxIterations >= 0 /\ MaxIterations \in Int
    BY <1>6, ResearchAssumption DEF LeadInv, Accepted, ResearchAssumption
  <2> QED
    BY <1>6, <2>1, <2>2 DEF Fail, TypeOK
<1>7. ASSUME NEW b \in Researchers, NEW asks \in BOOLEAN, NEW satisfied \in BOOLEAN,
             Reflect(b, asks, satisfied)
      PROVE  TypeOK'
  <2>1. turn[b] + 1 \in Nat /\ turn[b] + 1 <= MaxIterations
    BY <1>7, ResearchAssumption DEF Reflect, LoopInv, TypeOK, ResearchAssumption
  <2> QED
    BY <1>7, <2>1 DEF Reflect, TypeOK, TurnsAfter, Onward
<1>8. ASSUME NEW b \in Researchers, NEW found \in SUBSET Hits, SearchReturns(b, found) PROVE TypeOK'
  BY <1>8 DEF SearchReturns, TypeOK, Onward
<1>9. ASSUME NEW b \in Researchers, NEW draft \in Drafts, Compress(b, draft) PROVE TypeOK'
  <2> DEFINE new == [citations |-> MapCitations(b, draft), notes |-> DistillNotes(collected[b]),
                     iterations |-> turn[b], truncated |-> ~enough[b]]
  <2>1. MapCitations(b, draft) \in Seq(Hits)
    BY <1>9, CitationsAreBest DEF Compress, LoopInv
  <2>2. DistillNotes(collected[b]) \in Seq(Hits)
    <3>1. collected[b] \in SUBSET Hits /\ IsFiniteSet(collected[b])
      BY DEF TypeOK, LoopInv
    <3>2. collected[b] # {}
      BY <1>9 DEF Compress, Sound, Drafts, Known
    <3> QED
      BY <3>1, <3>2, NotesAreBest
  <2>3. new \in Findings
    BY <2>1, <2>2 DEF Findings, TypeOK
  <2> HIDE DEF new
  <2>4. finding' = [finding EXCEPT ![b] = new]
    BY <1>9 DEF Compress, new
  <2> QED
    BY <1>9, <2>3, <2>4 DEF Compress, TypeOK
<1> QED
  BY <1>1, <1>2, <1>3, <1>4, <1>5, <1>6, <1>7, <1>8, <1>9, StepCases

\* The lead and its researchers move together: nobody starts before the fan-out, and
\* the lead goes on when all of them are done.
LEMMA LeadStep ==
  ASSUME TypeOK, LeadInv, Next
  PROVE  LeadInv'
<1> USE DEF LeadInv, Working
<1>1. CASE Clarify \/ BriefHeard \/ GatherReturns \/ ReportHeard \/ LeadRaises \/ WriteReport
  <2>1. at' = at /\ planned' = planned
    BY <1>1 DEF Clarify, BriefHeard, GatherReturns, ReportHeard, LeadRaises, WriteReport, research
  <2>2. Selected' = Selected
    BY <2>1 DEF Selected, Capped
  <2> QED
    BY <1>1, <2>1, <2>2 DEF Clarify, BriefHeard, GatherReturns, ReportHeard, LeadRaises, WriteReport,
          AllDone, Accepted
<1>2. ASSUME NEW n \in 0..MaxPlan, Plan(n) PROVE LeadInv'
  BY <1>2 DEF Plan, research, Accepted
<1>3. CASE FanOut
  <2>1. Selected' = Selected
    BY <1>3 DEF FanOut, Selected, Capped
  <2> QED
    BY <1>3, <2>1, SelectedWithin DEF FanOut, TypeOK, Accepted
<1>4. ASSUME NEW b \in Researchers, NEW w, at[b] \in Working, at' = [at EXCEPT ![b] = w],
             planned' = planned, stage' = stage \/ stage' = "raised"
      PROVE  LeadInv'
  <2>1. Selected' = Selected
    BY <1>4 DEF Selected, Capped
  <2>2. b \in Selected /\ Accepted /\ ~AllDone
    BY <1>4 DEF AllDone
  <2>3. stage \in {"researching", "raised"}
    BY <1>4, <2>2 DEF TypeOK, Stages
  <2> QED
    BY <1>4, <2>1, <2>2, <2>3 DEF TypeOK, Accepted, AllDone
<1>5. ASSUME NEW b \in Researchers,
             \/ StartHeard(b) \/ FindingHeard(b) \/ (at[b] \in Working /\ Fail(b))
             \/ \E asks, satisfied \in BOOLEAN : Reflect(b, asks, satisfied)
             \/ \E found \in SUBSET Hits : SearchReturns(b, found)
             \/ \E draft \in Drafts : Compress(b, draft)
      PROVE  LeadInv'
  <2>1. /\ at[b] \in Working /\ \E w : at' = [at EXCEPT ![b] = w]
        /\ planned' = planned /\ (stage' = stage \/ stage' = "raised")
    BY <1>5 DEF StartHeard, FindingHeard, Fail, Reflect, SearchReturns, Compress
  <2>2. PICK w : at' = [at EXCEPT ![b] = w]
    BY <2>1
  <2> HIDE DEF LeadInv, Working
  <2> QED
    BY <1>4, <2>1, <2>2
<1> QED
  BY <1>1, <1>2, <1>3, <1>5, StepCases

\* A researcher leaves its loop with a verdict that suffices, or at the cap.
LEMMA LoopStep ==
  ASSUME TypeOK, LeadInv, \A b \in Researchers : LoopInv(b), Next
  PROVE  \A b \in Researchers : LoopInv(b)'
<1> SUFFICES ASSUME NEW c \in Researchers PROVE LoopInv(c)'
  OBVIOUS
<1> USE DEF LoopInv, Working
<1>1. CASE Clarify \/ BriefHeard \/ GatherReturns \/ ReportHeard \/ LeadRaises \/ WriteReport
  BY <1>1 DEF Clarify, BriefHeard, GatherReturns, ReportHeard, LeadRaises, WriteReport, research
<1>2. ASSUME NEW n \in 0..MaxPlan, Plan(n) PROVE LoopInv(c)'
  BY <1>2 DEF Plan, research
<1>3. CASE FanOut
  BY <1>3 DEF FanOut, LeadInv
<1>4. ASSUME NEW b \in Researchers, StartHeard(b) PROVE LoopInv(c)'
  <2>1. 0 < MaxIterations
    BY <1>4, ResearchAssumption DEF StartHeard, LeadInv, Accepted, ResearchAssumption
  <2> QED
    BY <1>4, <2>1 DEF StartHeard, TypeOK
<1>5. ASSUME NEW b \in Researchers, FindingHeard(b) PROVE LoopInv(c)'
  BY <1>5 DEF FindingHeard, TypeOK
<1>6. ASSUME NEW b \in Researchers, at[b] \in Working, Fail(b) PROVE LoopInv(c)'
  BY <1>6, FS_EmptySet DEF Fail, TypeOK
<1>7. ASSUME NEW b \in Researchers, NEW asks \in BOOLEAN, NEW satisfied \in BOOLEAN,
             Reflect(b, asks, satisfied)
      PROVE  LoopInv(c)'
  <2>1. turn[b] \in Nat /\ turn[b] < MaxIterations /\ MaxIterations \in Int
    BY <1>7, ResearchAssumption DEF Reflect, TypeOK, ResearchAssumption
  <2>2. CASE c = b
    BY <1>7, <2>1, <2>2 DEF Reflect, TypeOK, TurnsAfter, Onward
  <2>3. CASE c # b
    BY <1>7, <2>3 DEF Reflect, TypeOK
  <2> QED
    BY <2>2, <2>3
<1>8. ASSUME NEW b \in Researchers, NEW found \in SUBSET Hits, SearchReturns(b, found) PROVE LoopInv(c)'
  <2>1. turn[b] \in Nat /\ turn[b] <= MaxIterations /\ MaxIterations \in Int
    BY <1>8, ResearchAssumption DEF SearchReturns, TypeOK, ResearchAssumption
  <2>2. IsFiniteSet(collected[b] \cup found)
    BY <1>8, FS_Union DEF SearchReturns
  <2>3. CASE c = b
    BY <1>8, <2>1, <2>2, <2>3 DEF SearchReturns, TypeOK, Onward
  <2>4. CASE c # b
    BY <1>8, <2>4 DEF SearchReturns, TypeOK
  <2> QED
    BY <2>3, <2>4
<1>9. ASSUME NEW b \in Researchers, NEW draft \in Drafts, Compress(b, draft) PROVE LoopInv(c)'
  BY <1>9 DEF Compress, TypeOK
<1> QED
  BY <1>1, <1>2, <1>3, <1>4, <1>5, <1>6, <1>7, <1>8, <1>9, StepCases

-----------------------------------------------------------------------------
\* The documented order, as numbers.
LEMMA PlaceOf ==
  ASSUME NEW x
  PROVE  /\ Place(<<"brief", x>>) = 1 /\ Place(<<"plan", x>>) = 2
         /\ Place(<<"started", x>>) = 3 /\ Place(<<"finding", x>>) = 4
         /\ Place(<<"report", x>>) = 5
BY DEF Place

\* Whatever is told has a place, and only the report has the last one.
LEMMA ToldPlace ==
  ASSUME NEW e \in Told
  PROVE  /\ Place(e) \in 1..5
         /\ e[1] = "report" => e = <<"report", 0>>
         /\ e # <<"report", 0>> => Place(e) <= 4
<1>1. /\ <<"brief", 0>>[1] = "brief" /\ <<"plan", 0>>[1] = "plan"
      /\ \A b : <<"started", b>>[1] = "started" /\ <<"finding", b>>[1] = "finding"
  OBVIOUS
<1>2. CASE e = <<"brief", 0>>
  <2>1. Place(e) = 1 /\ e[1] = "brief"
    BY <1>1, <1>2, PlaceOf
  <2> QED
    BY <2>1
<1>3. CASE e = <<"plan", 0>>
  <2>1. Place(e) = 2 /\ e[1] = "plan"
    BY <1>1, <1>3, PlaceOf
  <2> QED
    BY <2>1
<1>4. CASE e = <<"report", 0>>
  <2>1. Place(e) = 5
    BY <1>4, PlaceOf
  <2> QED
    BY <1>4, <2>1
<1>5. ASSUME NEW b \in Researchers, e = <<"started", b>> \/ e = <<"finding", b>>
      PROVE  Place(e) \in 3..4 /\ e[1] # "report"
  <2>1. CASE e = <<"started", b>>
    <3>1. Place(e) = 3 /\ e[1] = "started"
      BY <1>1, <2>1, PlaceOf
    <3> QED
      BY <3>1
  <2>2. CASE e = <<"finding", b>>
    <3>1. Place(e) = 4 /\ e[1] = "finding"
      BY <1>1, <2>2, PlaceOf
    <3> QED
      BY <3>1
  <2> QED
    BY <1>5, <2>1, <2>2
<1>6. CASE \E b \in Researchers : e = <<"started", b>> \/ e = <<"finding", b>>
  <2>1. Place(e) \in 3..4 /\ e[1] # "report"
    BY <1>5, <1>6
  <2> QED
    BY <2>1
<1> QED
  BY <1>2, <1>3, <1>4, <1>6 DEF Told

\* One more event, in its place and with what it needs, keeps the order.
LEMMA TellKeepsOrder ==
  ASSUME events \in Seq(Told), EventsInOrder, planned' = planned,
         NEW e \in Told, events' = Append(events, e), ~IsTold(e),
         \A i \in DOMAIN events : Place(events[i]) <= Place(e),
         e[1] = "finding" => IsTold(<<"started", e[2]>>),
         e[1] = "report" => \A b \in Selected : IsTold(<<"finding", b>>)
  PROVE  /\ EventsInOrder' /\ events' \in Seq(Told)
         /\ \A x : IsTold(x)' <=> IsTold(x) \/ x = e
<1> DEFINE n == Len(events)
<1>1. /\ n \in Nat /\ DOMAIN events = 1..n /\ DOMAIN events' = 1..n + 1
      /\ events' \in Seq(Told) /\ events'[n + 1] = e
      /\ \A i \in 1..n : i \in 1..n + 1 /\ events'[i] = events[i]
      /\ \A i \in 1..n + 1 : i \in 1..n \/ i = n + 1
      /\ n + 1 \in 1..n + 1
  OBVIOUS
<1> HIDE DEF n
<1>2. \A x : IsTold(x)' <=> IsTold(x) \/ x = e
  BY <1>1 DEF IsTold
<1>3. Selected' = Selected
  BY DEF Selected, Capped
<1>4. ASSUME NEW i \in 1..n + 1, NEW j \in 1..n + 1, i < j
      PROVE  Place(events'[i]) <= Place(events'[j]) /\ events'[i] # events'[j]
  <2>1. i \in 1..n
    BY <1>1, <1>4
  <2>2. CASE j \in 1..n
    BY <1>1, <1>4, <2>1, <2>2 DEF EventsInOrder
  <2>3. CASE j = n + 1
    BY <1>1, <2>1, <2>3 DEF IsTold
  <2> QED
    BY <1>1, <2>2, <2>3
<1>5. ASSUME NEW i \in 1..n + 1, events'[i][1] = "finding"
      PROVE  \E j \in 1..i : events'[j] = <<"started", events'[i][2]>>
  <2>1. CASE i \in 1..n
    <3>1. PICK j \in 1..i : events[j] = <<"started", events[i][2]>>
      BY <1>1, <1>5, <2>1 DEF EventsInOrder
    <3>2. j \in 1..n
      BY <1>1, <2>1
    <3> QED
      BY <1>1, <2>1, <3>1, <3>2
  <2>2. CASE i = n + 1
    <3>1. PICK j \in 1..n : events[j] = <<"started", e[2]>>
      BY <1>1, <1>5, <2>2 DEF IsTold
    <3> QED
      BY <1>1, <2>2, <3>1
  <2> QED
    BY <1>1, <2>1, <2>2
<1>6. ASSUME NEW i \in 1..n + 1, events'[i][1] = "report", NEW b \in Selected
      PROVE  \E j \in 1..i : events'[j] = <<"finding", b>>
  <2>1. CASE i \in 1..n
    <3>1. PICK j \in 1..i : events[j] = <<"finding", b>>
      BY <1>1, <1>6, <2>1 DEF EventsInOrder
    <3>2. j \in 1..n
      BY <1>1, <2>1
    <3> QED
      BY <1>1, <2>1, <3>1, <3>2
  <2>2. CASE i = n + 1
    <3>1. PICK j \in 1..n : events[j] = <<"finding", b>>
      BY <1>1, <1>6, <2>2 DEF IsTold
    <3> QED
      BY <1>1, <2>2, <3>1
  <2> QED
    BY <1>1, <2>1, <2>2
<1>7. EventsInOrder'
  <2>1. \A i, j \in DOMAIN events' :
          i < j => Place(events'[i]) <= Place(events'[j]) /\ events'[i] # events'[j]
    BY <1>1, <1>4
  <2>2. \A i \in DOMAIN events' :
          events'[i][1] = "finding" => \E j \in 1..i : events'[j] = <<"started", events'[i][2]>>
    BY <1>1, <1>5
  <2>3. \A i \in DOMAIN events' :
          events'[i][1] = "report" => \A b \in Selected' : \E j \in 1..i : events'[j] = <<"finding", b>>
    BY <1>1, <1>3, <1>6
  <2> QED
    BY <2>1, <2>2, <2>3 DEF EventsInOrder, Place
<1> QED
  BY <1>1, <1>2, <1>7

\* A step that tells nothing keeps the order.
LEMMA SilenceKeepsOrder ==
  ASSUME events' = events, planned' = planned, EventsInOrder
  PROVE  EventsInOrder' /\ \A x : IsTold(x)' <=> IsTold(x)
<1>1. Selected' = Selected
  BY DEF Selected, Capped
<1> QED
  BY <1>1 DEF EventsInOrder, IsTold

\* All researchers are told to have started, one after the other.
LEMMA FanOutTells ==
  ASSUME TypeOK, LeadInv, EventInv, FanOut
  PROVE  EventInv' /\ EventsInOrder'
<1> DEFINE n == Capped(planned)
           k == IF n < 0 THEN 0 ELSE n
<1>1. /\ n \in Int /\ Selected = 1..n /\ Selected = 1..k /\ k \in Nat
      /\ Selected \in SUBSET Researchers /\ Selected' = Selected
  BY SelectedWithin DEF Selected, TypeOK, FanOut, Capped
<1>2. events = <<<<"brief", 0>>, <<"plan", 0>>>>
  BY DEF EventInv, FanOut
<1> HIDE DEF n, k
<1> DEFINE more == [b \in 1..k |-> <<"started", b>>]
<1>3. /\ events' = <<<<"brief", 0>>, <<"plan", 0>>>> \o more
      /\ at' = [b \in Researchers |-> IF b \in Selected THEN "starting" ELSE "none"]
      /\ stage' = "researching"
  BY <1>1, <1>2 DEF FanOut
<1>4. /\ events' \in Seq(Told) /\ DOMAIN events' = 1..k + 2
      /\ events'[1] = <<"brief", 0>> /\ events'[2] = <<"plan", 0>>
      /\ \A i \in 3..k + 2 : events'[i] = <<"started", i - 2>>
  <2>1. more \in Seq(Told) /\ Len(more) = k /\ \A i \in 1..k : more[i] = <<"started", i>>
    BY <1>1 DEF Told
  <2>2. <<<<"brief", 0>>, <<"plan", 0>>>> \in Seq(Told)
    BY DEF Told
  <2> HIDE DEF more
  <2> QED
    BY <1>1, <1>3, <2>1, <2>2
<1>5. \A i \in 1..k + 2 : i = 1 \/ i = 2 \/ (i \in 3..k + 2 /\ i - 2 \in 1..k)
  BY <1>1
<1>6. ASSUME NEW i \in 1..k + 2
      PROVE  /\ events'[i][1] \notin {"finding", "report"}
             /\ Place(events'[i]) = IF i <= 2 THEN i ELSE 3
             /\ i \in 3..k + 2 => events'[i][2] = i - 2
  <2>1. CASE i = 1
    <3>1. events'[i] = <<"brief", 0>> /\ ~(i \in 3..k + 2)
      BY <1>1, <1>4, <2>1
    <3>2. Place(events'[i]) = 1
      BY <3>1, PlaceOf, Zenon
    <3>3. events'[i][1] = "brief"
      BY <3>1
    <3> QED
      BY <2>1, <3>1, <3>2, <3>3
  <2>2. CASE i = 2
    <3>1. events'[i] = <<"plan", 0>> /\ ~(i \in 3..k + 2)
      BY <1>1, <1>4, <2>2
    <3>2. Place(events'[i]) = 2
      BY <3>1, PlaceOf, Zenon
    <3>3. events'[i][1] = "plan"
      BY <3>1
    <3> QED
      BY <2>2, <3>1, <3>2, <3>3
  <2>3. CASE i \in 3..k + 2
    <3>1. events'[i] = <<"started", i - 2>> /\ ~(i <= 2)
      BY <1>1, <1>4, <2>3
    <3>2. Place(events'[i]) = 3
      BY <3>1, PlaceOf, Zenon
    <3>3. events'[i][1] = "started" /\ events'[i][2] = i - 2
      BY <3>1
    <3> QED
      BY <2>3, <3>1, <3>2, <3>3
  <2> QED
    BY <1>5, <2>1, <2>2, <2>3
<1>7. EventsInOrder'
  <2>1. ASSUME NEW i \in 1..k + 2, NEW j \in 1..k + 2, i < j
        PROVE  Place(events'[i]) <= Place(events'[j]) /\ events'[i] # events'[j]
    <3>1. Place(events'[i]) <= Place(events'[j])
      BY <1>1, <1>6, <2>1
    <3>2. CASE i <= 2
      <4>1. Place(events'[i]) < Place(events'[j])
        BY <1>1, <1>6, <2>1, <3>2
      <4>2. Place(events'[i]) \in Int /\ Place(events'[j]) \in Int
        BY <1>1, <1>6
      <4> QED
        BY <3>1, <4>1, <4>2
    <3>3. CASE ~(i <= 2)
      <4>1. i \in 3..k + 2 /\ j \in 3..k + 2
        BY <1>1, <2>1, <3>3
      <4> QED
        BY <1>1, <1>6, <2>1, <3>1, <4>1
    <3> QED
      BY <3>2, <3>3
  <2> QED
    BY <1>4, <1>6, <2>1 DEF EventsInOrder
<1>8. \A b \in Selected : IsTold(<<"started", b>>)'
  <2> SUFFICES ASSUME NEW b \in 1..k PROVE \E i \in 1..k + 2 : events'[i] = <<"started", b>>
    BY <1>1, <1>4 DEF IsTold
  <2>1. b + 2 \in 3..k + 2 /\ b + 2 \in 1..k + 2 /\ (b + 2) - 2 = b
    BY <1>1
  <2> QED
    BY <1>4, <2>1
<1>9. \A b : ~IsTold(<<"finding", b>>)' /\ ~IsTold(<<"report", b>>)'
  BY <1>4, <1>6 DEF IsTold
<1>10. \A b \in Researchers : at'[b] \in {"none", "starting"} /\ (at'[b] # "none" => b \in Selected)
  BY <1>3
<1>11. EventInv'
  BY <1>3, <1>4, <1>8, <1>9, <1>10 DEF EventInv
<1> QED
  BY <1>7, <1>11

\* A second element makes a pair of one.
LEMMA AppendToOne ==
  ASSUME NEW x, NEW y
  PROVE  Append(<<x>>, y) = <<x, y>>
<1> DEFINE s == <<x>>
           t == <<x, y>>
<1>1. s \in Seq({x, y}) /\ Len(s) = 1 /\ s[1] = x
  OBVIOUS
<1>2. t \in Seq({x, y}) /\ Len(t) = 2 /\ t[1] = x /\ t[2] = y
  OBVIOUS
<1> HIDE DEF s, t
<1> DEFINE u == Append(s, y)
<1>3. u \in Seq({x, y}) /\ Len(u) = 2 /\ u[1] = x /\ u[2] = y
  <2> DEFINE S == {x, y}
  <2>1. y \in S /\ s \in Seq(S) /\ Len(s) = 1 /\ s[1] = x
    BY <1>1
  <2> HIDE DEF S
  <2>2. u \in Seq(S) /\ Len(u) = Len(s) + 1 /\ u[Len(s) + 1] = y /\ \A i \in 1..Len(s) : u[i] = s[i]
    BY <2>1
  <2>3. 1 \in 1..Len(s) /\ Len(s) + 1 = 2
    BY <2>1
  <2> QED
    BY <2>1, <2>2, <2>3 DEF S
<1> HIDE DEF u
<1>4. u = [i \in 1..2 |-> u[i]] /\ t = [i \in 1..2 |-> t[i]]
  BY <1>2, <1>3
<1>5. \A i \in 1..2 : u[i] = t[i]
  BY <1>2, <1>3
<1>6. u = t
  BY <1>4, <1>5
<1> QED
  BY <1>6 DEF u, s, t

\* Nothing has been told when a run begins.
LEMMA EventInit == Init => EventInv /\ EventsInOrder
<1> SUFFICES ASSUME Init PROVE EventInv /\ EventsInOrder
  OBVIOUS
<1>1. events = <<>> /\ DOMAIN events = {} /\ events \in Seq(Told)
  BY DEF Init
<1>2. \A x : ~IsTold(x)
  BY <1>1 DEF IsTold
<1> QED
  BY <1>1, <1>2 DEF Init, EventInv, EventsInOrder

\* A step of a researcher that tells nothing, and leaves where the finding is
\* told only to be done or to fail.
LEMMA QuietStep ==
  ASSUME TypeOK, LeadInv, EventInv, EventsInOrder,
         NEW b \in Researchers, at[b] \in Working, NEW w, at' = [at EXCEPT ![b] = w],
         w # "none", w \in {"announcing", "done"} => at[b] = "announcing",
         at[b] = "announcing" => w \in {"announcing", "done", "failed"},
         events' = events, planned' = planned, stage' = stage \/ stage' = "raised"
  PROVE  EventInv' /\ EventsInOrder'
<1>1. EventsInOrder' /\ \A x : IsTold(x)' <=> IsTold(x)
  BY SilenceKeepsOrder
<1>2. at[b] # "none" /\ b \in Selected /\ ~AllDone
  BY DEF LeadInv, Working, AllDone
<1>3. stage' \notin {"clarifying", "planning", "telling_brief", "telling_plan"}
  BY <1>2 DEF LeadInv
<1>4. ASSUME NEW c \in Researchers
      PROVE  /\ at'[c] # "none" => IsTold(<<"started", c>>)
             /\ at'[c] \in {"announcing", "done"} => IsTold(<<"finding", c>>)
             /\ IsTold(<<"finding", c>>) => at'[c] \in {"announcing", "done", "failed"}
  <2>1. /\ at[c] # "none" => IsTold(<<"started", c>>)
        /\ at[c] \in {"announcing", "done"} => IsTold(<<"finding", c>>)
        /\ IsTold(<<"finding", c>>) => at[c] \in {"announcing", "done", "failed"}
    BY DEF EventInv
  <2>2. CASE c = b
    <3>1. at'[c] = w
      BY <2>2 DEF TypeOK
    <3> QED
      BY <1>2, <2>1, <2>2, <3>1 DEF Working
  <2>3. CASE c # b
    BY <2>1, <2>3 DEF TypeOK
  <2> QED
    BY <2>2, <2>3
<1>5. ~IsTold(<<"report", 0>>) /\ events \in Seq(Told)
  BY <1>2 DEF EventInv
<1> QED
  BY <1>1, <1>3, <1>4, <1>5 DEF EventInv

\* What is told comes in its place: a finding after its start and once, the report
\* when no researcher has anything left to tell.
LEMMA EventStep ==
  ASSUME TypeOK, LeadInv, EventInv, EventsInOrder, Next
  PROVE  EventInv' /\ EventsInOrder'
<1>1. CASE Clarify \/ GatherReturns \/ ReportHeard \/ LeadRaises
  <2>1. events' = events /\ planned' = planned /\ at' = at
    BY <1>1 DEF Clarify, GatherReturns, ReportHeard, LeadRaises, research
  <2>2. EventsInOrder' /\ \A x : IsTold(x)' <=> IsTold(x)
    BY <2>1, SilenceKeepsOrder
  <2>3. AllDone => AllDone'
    BY <2>1 DEF AllDone, Selected, Capped
  <2>4. IsTold(<<"report", 0>>) => stage' \notin {"researching", "writing"}
    <3>1. CASE Clarify
      BY <3>1 DEF Clarify
    <3>2. CASE GatherReturns
      BY <3>2 DEF GatherReturns, EventInv
    <3>3. CASE ReportHeard \/ LeadRaises
      BY <3>3 DEF ReportHeard, LeadRaises
    <3> QED
      BY <1>1, <3>1, <3>2, <3>3
  <2>5. /\ stage' \in {"clarifying", "planning"} => events = <<>>
        /\ stage' \notin {"telling_brief", "telling_plan"}
    BY <1>1 DEF Clarify, GatherReturns, ReportHeard, LeadRaises, EventInv
  <2> QED
    BY <2>1, <2>2, <2>3, <2>4, <2>5 DEF EventInv
<1>2. ASSUME NEW n \in 0..MaxPlan, Plan(n) PROVE EventInv' /\ EventsInOrder'
  <2>1. events' = <<<<"brief", 0>>>> /\ stage' = "telling_brief" /\ at' = at
    BY <1>2 DEF Plan, EventInv, research
  <2>2. \A b \in Researchers : at[b] = "none"
    BY <1>2 DEF Plan, LeadInv
  <2>3. DOMAIN events' = 1..1 /\ events'[1] = <<"brief", 0>> /\ events' \in Seq(Told)
    BY <2>1 DEF Told
  <2>4. \A x : IsTold(x)' => x = <<"brief", 0>>
    <3>1. \A i \in DOMAIN events' : i = 1
      BY <2>3
    <3> QED
      BY <2>3, <3>1 DEF IsTold
  <2>5. \A b : ~IsTold(<<"finding", b>>)' /\ ~IsTold(<<"report", b>>)'
    BY <2>4
  <2>6. EventsInOrder'
    <3>1. \A i \in DOMAIN events' : i = 1 /\ events'[i][1] = "brief"
      BY <2>3
    <3>2. \A i, j \in DOMAIN events' : ~(i < j)
      BY <3>1
    <3> QED
      BY <3>1, <3>2 DEF EventsInOrder
  <2> QED
    BY <2>1, <2>2, <2>3, <2>5, <2>6 DEF EventInv
<1>3. CASE BriefHeard
  <2>1. events' = <<<<"brief", 0>>, <<"plan", 0>>>> /\ stage' = "telling_plan" /\ at' = at
    <3>1. /\ stage = "telling_brief" /\ events' = Append(events, <<"plan", 0>>)
          /\ stage' = "telling_plan" /\ at' = at
      BY <1>3 DEF BriefHeard, research
    <3>2. events = <<<<"brief", 0>>>>
      BY <3>1 DEF EventInv
    <3> QED
      BY <3>1, <3>2, AppendToOne
  <2>2. \A b \in Researchers : at[b] = "none"
    BY <1>3 DEF BriefHeard, LeadInv
  <2>3. /\ DOMAIN events' = 1..2 /\ events' \in Seq(Told)
        /\ events'[1] = <<"brief", 0>> /\ events'[2] = <<"plan", 0>>
    BY <2>1 DEF Told
  <2>4. \A x : IsTold(x)' => x = <<"brief", 0>> \/ x = <<"plan", 0>>
    BY <2>3 DEF IsTold
  <2>5. \A b : ~IsTold(<<"finding", b>>)' /\ ~IsTold(<<"report", b>>)'
    BY <2>4
  <2>6. EventsInOrder'
    <3>1. \A i \in DOMAIN events' : events'[i][1] \in {"brief", "plan"} /\ (i = 1 \/ i = 2)
      BY <2>3
    <3>2. Place(events'[1]) = 1 /\ Place(events'[2]) = 2
      BY <2>3, PlaceOf, Zenon
    <3>3. events'[1] # events'[2]
      BY <2>3
    <3>4. \A i, j \in DOMAIN events' : i < j => i = 1 /\ j = 2
      BY <3>1
    <3> QED
      BY <3>1, <3>2, <3>3, <3>4 DEF EventsInOrder
  <2> QED
    BY <2>1, <2>2, <2>3, <2>5, <2>6 DEF EventInv
<1>4. CASE FanOut
  BY <1>4, FanOutTells
<1>5. CASE WriteReport
  <2> DEFINE e == <<"report", 0>>
  <2>1. AllDone /\ stage = "writing" /\ stage' = "telling_report" /\ planned' = planned /\ at' = at
    BY <1>5 DEF WriteReport, LeadInv, research
  <2>2. ~IsTold(e) /\ events \in Seq(Told)
    BY <2>1 DEF EventInv
  <2>3. e \in Told /\ Place(e) = 5 /\ e[1] = "report"
    BY PlaceOf DEF Told
  <2>4. \A b \in Selected : IsTold(<<"finding", b>>)
    BY <2>1, SelectedWithin DEF AllDone, EventInv, TypeOK
  <2>5. \A i \in DOMAIN events : Place(events[i]) <= Place(e)
    <3> SUFFICES ASSUME NEW i \in DOMAIN events PROVE Place(events[i]) <= 5
      BY <2>3
    <3>1. events[i] \in Told
      BY <2>2
    <3>2. Place(events[i]) \in 1..5
      BY <3>1, ToldPlace
    <3> QED
      BY <3>2
  <2>6. events' = Append(events, e)
    BY <1>5 DEF WriteReport
  <2>7. /\ EventsInOrder' /\ events' \in Seq(Told)
        /\ \A x : IsTold(x)' <=> IsTold(x) \/ x = e
    <3> HIDE DEF e
    <3> QED
      BY <2>1, <2>2, <2>3, <2>4, <2>5, <2>6, TellKeepsOrder
  <2>8. AllDone'
    BY <2>1 DEF AllDone, Selected, Capped
  <2>9. \A b : e # <<"finding", b>> /\ e # <<"started", b>>
    OBVIOUS
  <2> QED
    BY <2>1, <2>7, <2>8, <2>9 DEF EventInv
<1>6. ASSUME NEW b \in Researchers,
             \/ StartHeard(b) \/ FindingHeard(b) \/ (at[b] \in Working /\ Fail(b))
             \/ \E asks, satisfied \in BOOLEAN : Reflect(b, asks, satisfied)
             \/ \E found \in SUBSET Hits : SearchReturns(b, found)
      PROVE  EventInv' /\ EventsInOrder'
  <2>1. /\ events' = events /\ planned' = planned /\ (stage' = stage \/ stage' = "raised")
        /\ at[b] \in Working
        /\ \E w : /\ at' = [at EXCEPT ![b] = w] /\ w # "none"
                  /\ w \in {"announcing", "done"} => at[b] = "announcing"
                  /\ at[b] = "announcing" => w \in {"announcing", "done", "failed"}
    <3>1. CASE StartHeard(b)
      BY <3>1 DEF StartHeard, Working
    <3>2. CASE FindingHeard(b)
      BY <3>2 DEF FindingHeard, Working
    <3>3. CASE at[b] \in Working /\ Fail(b)
      BY <3>3 DEF Fail
    <3>4. ASSUME NEW asks \in BOOLEAN, NEW satisfied \in BOOLEAN, Reflect(b, asks, satisfied)
          PROVE  <2>1!:
      BY <3>4 DEF Reflect, Working, Onward
    <3>5. ASSUME NEW found \in SUBSET Hits, SearchReturns(b, found)
          PROVE  <2>1!:
      BY <3>5 DEF SearchReturns, Working, Onward
    <3> QED
      BY <1>6, <3>1, <3>2, <3>3, <3>4, <3>5
  <2>2. PICK w : /\ at' = [at EXCEPT ![b] = w] /\ w # "none"
                 /\ w \in {"announcing", "done"} => at[b] = "announcing"
                 /\ at[b] = "announcing" => w \in {"announcing", "done", "failed"}
    BY <2>1
  <2> QED
    BY <2>1, <2>2, QuietStep
<1>7. ASSUME NEW b \in Researchers, NEW draft \in Drafts, Compress(b, draft)
      PROVE  EventInv' /\ EventsInOrder'
  <2> DEFINE e == <<"finding", b>>
  <2>1. /\ at[b] = "compressing" /\ at' = [at EXCEPT ![b] = "announcing"]
        /\ planned' = planned /\ stage' = stage /\ events' = Append(events, e)
    BY <1>7 DEF Compress
  <2>2. b \in Selected /\ ~AllDone
    BY <2>1 DEF LeadInv, AllDone
  <2>3. ~IsTold(<<"report", 0>>) /\ ~IsTold(e) /\ IsTold(<<"started", b>>) /\ events \in Seq(Told)
    BY <2>1, <2>2 DEF EventInv
  <2>4. e \in Told /\ Place(e) = 4 /\ e[1] = "finding" /\ e[2] = b
    BY PlaceOf DEF Told
  <2>5. \A i \in DOMAIN events : Place(events[i]) <= Place(e)
    <3> SUFFICES ASSUME NEW i \in DOMAIN events PROVE Place(events[i]) <= 4
      BY <2>4
    <3>1. events[i] \in Told /\ events[i] # <<"report", 0>>
      BY <2>3 DEF IsTold
    <3> QED
      BY <3>1, ToldPlace
  <2>6. /\ EventsInOrder' /\ events' \in Seq(Told)
        /\ \A x : IsTold(x)' <=> IsTold(x) \/ x = e
    <3> HIDE DEF e
    <3> QED
      BY <2>1, <2>3, <2>4, <2>5, TellKeepsOrder
  <2>7. stage' \notin {"clarifying", "planning", "telling_brief", "telling_plan"}
    BY <2>1 DEF LeadInv
  <2>8. ASSUME NEW c \in Researchers
        PROVE  /\ at'[c] # "none" => IsTold(<<"started", c>>)'
               /\ at'[c] \in {"announcing", "done"} => IsTold(<<"finding", c>>)'
               /\ IsTold(<<"finding", c>>)' => at'[c] \in {"announcing", "done", "failed"}
    <3>1. /\ at[c] # "none" => IsTold(<<"started", c>>)
          /\ at[c] \in {"announcing", "done"} => IsTold(<<"finding", c>>)
          /\ IsTold(<<"finding", c>>) => at[c] \in {"announcing", "done", "failed"}
      BY DEF EventInv
    <3>2. IsTold(<<"started", c>>)' <=> IsTold(<<"started", c>>)
      BY <2>6
    <3>3. IsTold(<<"finding", c>>)' <=> IsTold(<<"finding", c>>) \/ c = b
      BY <2>6
    <3>4. CASE c = b
      <4>1. at'[c] = "announcing"
        BY <2>1, <3>4 DEF TypeOK
      <4> QED
        BY <2>3, <3>2, <3>3, <3>4, <4>1
    <3>5. CASE c # b
      <4>1. at'[c] = at[c]
        BY <2>1, <3>5 DEF TypeOK
      <4> QED
        BY <3>1, <3>2, <3>3, <3>5, <4>1
    <3> QED
      BY <3>4, <3>5
  <2>9. ~IsTold(<<"report", 0>>)'
    BY <2>3, <2>6
  <2> QED
    BY <2>6, <2>7, <2>8, <2>9 DEF EventInv
<1> QED
  BY <1>1, <1>2, <1>3, <1>4, <1>5, <1>6, <1>7, StepCases

-----------------------------------------------------------------------------
\* What FindingsGrounded says of one finding, the results it is made of and the
\* verdict that its loop ended with.
GroundedIn(results, verdict, f) ==
  /\ f.citations # <<>>
  /\ \A i, j \in DOMAIN f.citations : f.citations[i].source = f.citations[j].source => i = j
  /\ \A i \in DOMAIN f.citations :
       /\ f.citations[i] \in results
       /\ \A h \in results : h.source = f.citations[i].source => h.score <= f.citations[i].score
  /\ f.truncated <=> ~verdict /\ f.iterations = MaxIterations
  /\ f.notes # <<>> /\ Len(f.notes) <= MaxNotes
  /\ \A i \in DOMAIN f.notes : f.notes[i] \in results
  /\ \A i, j \in DOMAIN f.notes : Anchor(f.notes[i]) = Anchor(f.notes[j]) => i = j
  /\ \A h \in results :
       \/ \E i \in DOMAIN f.notes : Anchor(f.notes[i]) = Anchor(h) /\ h.score <= f.notes[i].score
       \/ Len(f.notes) = MaxNotes /\ \A i \in DOMAIN f.notes : h.score <= f.notes[i].score

\* FindingsGrounded, finding by finding.
LEMMA GroundedOneByOne ==
  FindingsGrounded <=>
    \A b \in Researchers : at[b] \in {"announcing", "done"} =>
      GroundedIn(collected[b], enough[b], finding[b])
BY DEF FindingsGrounded, GroundedIn

\* A finding is grounded when it is made; nothing collects for it afterwards.
LEMMA FindingsStep ==
  ASSUME TypeOK, LeadInv, \A b \in Researchers : LoopInv(b), FindingsGrounded, Next
  PROVE  FindingsGrounded'
<1> SUFFICES ASSUME NEW c \in Researchers, at'[c] \in {"announcing", "done"}
             PROVE  GroundedIn(collected'[c], enough'[c], finding'[c])
  BY DEF FindingsGrounded, GroundedIn, Anchor
<1>1. at[c] \in {"announcing", "done"} => GroundedIn(collected[c], enough[c], finding[c])
  BY GroundedOneByOne
<1>2. ASSUME NEW b \in Researchers, NEW draft \in Drafts, Compress(b, draft), c = b
      PROVE  GroundedIn(collected'[c], enough'[c], finding'[c])
  <2>1. /\ Sound(b, draft) /\ at[b] = "compressing" /\ IsFiniteSet(collected[b])
        /\ collected[b] \in SUBSET Hits
    BY <1>2 DEF Compress, LoopInv, TypeOK
  <2>2. collected[b] # {}
    BY <2>1 DEF Sound, Drafts, Known
  <2> DEFINE cited == MapCitations(b, draft)
             notes == DistillNotes(collected[b])
             f == [citations |-> cited, notes |-> notes,
                   iterations |-> turn[b], truncated |-> ~enough[b]]
  <2>3. collected' = collected /\ enough' = enough /\ finding' = [finding EXCEPT ![b] = f]
    BY <1>2 DEF Compress
  <2>4. /\ cited # <<>>
        /\ \A i, j \in DOMAIN cited : cited[i].source = cited[j].source => i = j
        /\ \A i \in DOMAIN cited :
             /\ cited[i] \in collected[b]
             /\ \A h \in collected[b] : h.source = cited[i].source => h.score <= cited[i].score
    BY <2>1, CitationsAreBest
  <2>5. /\ notes # <<>> /\ Len(notes) <= MaxNotes
        /\ \A i \in DOMAIN notes : notes[i] \in collected[b]
        /\ \A i, j \in DOMAIN notes : Anchor(notes[i]) = Anchor(notes[j]) => i = j
        /\ \A h \in collected[b] :
             \/ \E i \in DOMAIN notes : Anchor(notes[i]) = Anchor(h) /\ h.score <= notes[i].score
             \/ Len(notes) = MaxNotes /\ \A i \in DOMAIN notes : h.score <= notes[i].score
    BY <2>1, <2>2, NotesAreBest
  <2>6. ~enough[b] => turn[b] = MaxIterations
    BY <2>1 DEF LoopInv
  <2> HIDE DEF cited, notes
  <2>7. GroundedIn(collected[b], enough[b], f)
    BY <2>4, <2>5, <2>6 DEF GroundedIn
  <2> HIDE DEF f
  <2>8. finding'[b] = f
    BY <2>3 DEF TypeOK
  <2> QED
    BY <1>2, <2>3, <2>7, <2>8
<1>3. \/ /\ at[c] \in {"announcing", "done"}
         /\ finding'[c] = finding[c] /\ collected'[c] = collected[c] /\ enough'[c] = enough[c]
      \/ \E b \in Researchers, draft \in Drafts : Compress(b, draft) /\ c = b
  <2>1. CASE Clarify \/ BriefHeard \/ GatherReturns \/ ReportHeard \/ LeadRaises \/ WriteReport
    BY <2>1 DEF Clarify, BriefHeard, GatherReturns, ReportHeard, LeadRaises, WriteReport, research
  <2>2. ASSUME NEW n \in 0..MaxPlan, Plan(n) PROVE <1>3!:
    BY <2>2 DEF Plan, research
  <2>3. CASE FanOut
    BY <2>3 DEF FanOut
  <2>4. ASSUME NEW b \in Researchers, StartHeard(b) \/ FindingHeard(b) PROVE <1>3!:
    BY <2>4 DEF StartHeard, FindingHeard, TypeOK
  <2>5. ASSUME NEW b \in Researchers, Fail(b) PROVE <1>3!:
    BY <2>5 DEF Fail, TypeOK
  <2>6. ASSUME NEW b \in Researchers, NEW asks \in BOOLEAN, NEW satisfied \in BOOLEAN,
               Reflect(b, asks, satisfied)
        PROVE  <1>3!:
    BY <2>6 DEF Reflect, TypeOK, Onward
  <2>7. ASSUME NEW b \in Researchers, NEW found \in SUBSET Hits, SearchReturns(b, found) PROVE <1>3!:
    BY <2>7 DEF SearchReturns, TypeOK, Onward
  <2>8. ASSUME NEW b \in Researchers, NEW draft \in Drafts, Compress(b, draft) PROVE <1>3!:
    <3>1. CASE c = b
      BY <2>8, <3>1
    <3>2. CASE c # b
      BY <2>8, <3>2 DEF Compress, TypeOK
    <3> QED
      BY <3>1, <3>2
  <2> QED
    BY <2>1, <2>2, <2>3, <2>4, <2>5, <2>6, <2>7, <2>8, StepCases
<1> QED
  BY <1>1, <1>2, <1>3

-----------------------------------------------------------------------------
\* The plan was cut exactly if fewer are selected than were planned.
LEMMA SelectedSize ==
  ASSUME planned \in 0..MaxPlan, MaxResearchers >= 0
  PROVE  planned > MaxResearchers <=> Cardinality(Selected) < planned
<1>1. Capped(planned) \in Nat /\ MaxResearchers \in Int /\ planned \in Nat
  BY ResearchAssumption DEF Capped, ResearchAssumption
<1>2. Cardinality(Selected) = Capped(planned)
  BY <1>1, FS_Interval DEF Selected
<1> QED
  BY <1>1, <1>2 DEF Capped

\* The report joins the findings of all, and no finding changes afterwards.
LEMMA ReportStep ==
  ASSUME TypeOK, LeadInv, ReportComplete, Next
  PROVE  ReportComplete'
<1>1. CASE WriteReport
  <2>1. /\ stage = "writing" /\ planned' = planned /\ at' = at /\ finding' = finding
        /\ report' = [citations |-> Dedup(AllCitations), truncated |-> planned > MaxResearchers]
    BY <1>1 DEF WriteReport, research
  <2>2. Selected' = Selected
    BY <2>1 DEF Selected, Capped
  <2>3. AllDone /\ Accepted
    BY <2>1 DEF LeadInv
  <2>4. MaxResearchers >= 0
    BY <2>3, ResearchAssumption DEF Accepted, ResearchAssumption
  <2> DEFINE cs == Dedup(AllCitations)
  <2>5. AllCitations \in Seq(Hits)
    BY <2>4, AllCitationsJoined
  <2>6. /\ \A i, j \in DOMAIN cs : Anchor(cs[i]) = Anchor(cs[j]) => i = j
        /\ Anchors(cs) = Anchors(AllCitations)
    BY <2>5, DedupKeeps
  <2>7. Anchors(AllCitations) = UNION {Anchors(finding[b].citations) : b \in Selected}
    <3>1. \A s : Anchors(s) = {Anchor(x) : x \in Held(s)}
      BY DEF Anchors, Held
    <3>2. \A x : x \in Held(AllCitations) <=> \E b \in Selected : x \in Held(finding[b].citations)
      BY <2>4, AllCitationsJoined
    <3> DEFINE U == UNION {Anchors(finding[b].citations) : b \in Selected}
    <3>3. \A a : a \in Anchors(AllCitations) <=> \E x \in Held(AllCitations) : a = Anchor(x)
      BY <3>1, Zenon
    <3>4. \A a : a \in U <=> \E b \in Selected : a \in Anchors(finding[b].citations)
      OBVIOUS
    <3>5. \A a : a \in U <=> \E b \in Selected : \E x \in Held(finding[b].citations) : a = Anchor(x)
      BY <3>1, <3>4, Zenon
    <3> HIDE DEF cs, U
    <3>6. \A a : a \in U <=> a \in Anchors(AllCitations)
      BY <3>2, <3>3, <3>5, Zenon
    <3>7. U = Anchors(AllCitations)
      BY <3>6
    <3> QED
      BY <3>7 DEF U
  <2>8. planned > MaxResearchers <=> Cardinality(Selected) < planned
    BY <2>4, SelectedSize DEF TypeOK
  <2> HIDE DEF cs
  <2>9. report'.citations = cs /\ (report'.truncated <=> planned > MaxResearchers)
    BY <2>1 DEF cs
  <2> QED
    BY <2>1, <2>2, <2>3, <2>6, <2>7, <2>8, <2>9 DEF ReportComplete, AllDone, Anchors, Anchor
<1>2. CASE ReportHeard
  <2>1. /\ stage = "telling_report" /\ planned' = planned /\ at' = at
        /\ finding' = finding /\ report' = report
    BY <1>2 DEF ReportHeard, research
  <2> QED
    BY <2>1 DEF ReportComplete, Selected, Capped, Anchors, Anchor
<1>3. ASSUME stage' \notin {"telling_report", "returned"} PROVE ReportComplete'
  BY <1>3 DEF ReportComplete
<1>4. CASE Clarify \/ BriefHeard \/ FanOut \/ GatherReturns \/ LeadRaises \/ \E n \in 0..MaxPlan : Plan(n)
  BY <1>3, <1>4 DEF Clarify, BriefHeard, FanOut, GatherReturns, LeadRaises, Plan
<1>5. ASSUME NEW b \in Researchers,
             \/ StartHeard(b) \/ FindingHeard(b) \/ (at[b] \in Working /\ Fail(b))
             \/ \E asks, satisfied \in BOOLEAN : Reflect(b, asks, satisfied)
             \/ \E found \in SUBSET Hits : SearchReturns(b, found)
             \/ \E draft \in Drafts : Compress(b, draft)
      PROVE  ReportComplete'
  <2>1. at[b] \in Working /\ (stage' = stage \/ stage' = "raised")
    BY <1>5 DEF StartHeard, FindingHeard, Fail, Reflect, SearchReturns, Compress, Working
  <2>2. ~AllDone
    BY <2>1 DEF LeadInv, AllDone, Working
  <2> QED
    BY <1>3, <2>1, <2>2 DEF LeadInv
<1> QED
  BY <1>1, <1>2, <1>4, <1>5, StepCases

-----------------------------------------------------------------------------
\* The invariant holds when a run begins ...
LEMMA ResearchInit == Init => ResearchInv
<1> SUFFICES ASSUME Init PROVE ResearchInv
  OBVIOUS
<1>1. FindingsGrounded
  BY GroundedOneByOne DEF Init
<1>2. ReportComplete
  BY DEF Init, ReportComplete
<1> QED
  BY <1>1, <1>2, TypeInit, EventInit DEF ResearchInv

\* ... and every step keeps it.
LEMMA ResearchStep == ResearchInv /\ [Next]_vars => ResearchInv'
<1> SUFFICES ASSUME ResearchInv, [Next]_vars PROVE ResearchInv'
  OBVIOUS
<1>1. CASE Next
  <2>1. /\ TypeOK /\ LeadInv /\ \A b \in Researchers : LoopInv(b)
        /\ EventInv /\ EventsInOrder /\ FindingsGrounded /\ ReportComplete
    BY DEF ResearchInv
  <2>2. TypeOK' /\ LeadInv' /\ \A b \in Researchers : LoopInv(b)'
    BY <1>1, <2>1, TypeStep, LeadStep, LoopStep
  <2>3. EventInv' /\ EventsInOrder'
    BY <1>1, <2>1, EventStep
  <2>4. FindingsGrounded' /\ ReportComplete'
    BY <1>1, <2>1, FindingsStep, ReportStep
  <2> QED
    BY <2>2, <2>3, <2>4 DEF ResearchInv
<1>2. CASE UNCHANGED vars
  <2> USE <1>2 DEF vars, research, ResearchInv
  <2>1. Selected' = Selected
    BY DEF Selected, Capped
  <2>2. TypeOK' /\ LeadInv' /\ \A b \in Researchers : LoopInv(b)'
    BY <2>1 DEF TypeOK, LeadInv, LoopInv, AllDone
  <2>3. EventInv' /\ EventsInOrder'
    <3>1. EventsInOrder' /\ \A x : IsTold(x)' <=> IsTold(x)
      BY SilenceKeepsOrder
    <3> QED
      BY <2>1, <3>1 DEF EventInv, AllDone
  <2>4. FindingsGrounded'
    BY DEF FindingsGrounded
  <2>5. ReportComplete'
    <3>1. /\ ReportComplete /\ stage' = stage /\ planned' = planned /\ at' = at
          /\ finding' = finding /\ report' = report
      OBVIOUS
    <3> QED
      BY <2>1, <3>1 DEF ReportComplete, Selected, Capped, Anchors, Anchor
  <2> QED
    BY <2>2, <2>3, <2>4, <2>5
<1> QED
  BY <1>1, <1>2

(* The inductive invariant holds in every run, with any number of           *)
(* researchers overtaking one another and failing.                          *)
THEOREM ResearchInvariant == Spec => []ResearchInv
BY ResearchInit, ResearchStep, PTL DEF Spec

(* The variables keep their types, and both caps are kept: no researcher    *)
(* beyond max_researchers, no turn beyond max_iterations, for any caps.     *)
THEOREM TypeCorrect == Spec => []TypeOK
<1>1. ResearchInv => TypeOK
  BY DEF ResearchInv
<1> QED
  BY <1>1, ResearchInvariant, PTL

(* on_event hears brief, plan, started*, finding*, report in this order;    *)
(* each finding once and after its start, the report after all of them.     *)
THEOREM EventsAsDocumented == Spec => []EventsInOrder
<1>1. ResearchInv => EventsInOrder
  BY DEF ResearchInv
<1> QED
  BY <1>1, ResearchInvariant, PTL

(* Every finding cites only what its own researcher retrieved, each source  *)
(* once and by its best hit; its notes keep the best hits, no anchor twice; *)
(* it says truncated exactly if the cap, not the agent, ended its loop.     *)
THEOREM Grounded == Spec => []FindingsGrounded
<1>1. ResearchInv => FindingsGrounded
  BY DEF ResearchInv
<1> QED
  BY <1>1, ResearchInvariant, PTL

(* The report cites every anchor of every finding once and nothing else,    *)
(* and says truncated exactly if subquestions were cut.                     *)
THEOREM Complete == Spec => []ReportComplete
<1>1. ResearchInv => ReportComplete
  BY DEF ResearchInv
<1> QED
  BY <1>1, ResearchInvariant, PTL
=============================================================================
