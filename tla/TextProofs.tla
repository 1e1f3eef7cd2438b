------------------------------- MODULE TextProofs -------------------------------
(***************************************************************************)
(* Functions of text, for inputs of any length: proofs that what shortens  *)
(* texts keeps what it must (Compaction, the deduplicator, the codec and   *)
(* the lossy passes) and that histories and streams of Gemini say what     *)
(* they should (PureFunctions).                                            *)
(***************************************************************************)
EXTENDS PureFunctions, FiniteSetTheorems, SequenceTheorems,
        NaturalsInduction, TLAPS

LEMMA LeastPlace ==
  ASSUME NEW T \in SUBSET Nat, T # {}
  PROVE  \E n \in T : \A m \in T : n <= m
<1> DEFINE R == OpToRel(<, Nat)
<1>1. R = {p \in Nat \X Nat : p[1] < p[2]}
  BY DEF OpToRel
<1>2. IsWellFoundedOn(R, Nat)
  BY NatLessThanWellFounded
<1> HIDE DEF R
<1>3. PICK n \in T : \A m \in T : ~(<<m, n>> \in R)
  BY <1>2, WFMin
<1>4. ASSUME NEW m \in T PROVE n <= m
  <2>1. ~(m < n)
    BY <1>1, <1>3
  <2> QED BY <2>1
<1> QED BY <1>4

------------------------------------------------------------------------------
(***************************************************************************)
(* sorted().                                                               *)
(***************************************************************************)
StrictOrder(S, before) ==
  /\ \A x \in S : <<x, x>> \notin before
  /\ \A x, y, z \in S : <<x, y>> \in before /\ <<y, z>> \in before => <<x, z>> \in before
  /\ \A x, y \in S : x = y \/ <<x, y>> \in before \/ <<y, x>> \in before

\* What stands in the order is the set, each element once.
InOrder(list, S, before) ==
  /\ list \in [1 .. Cardinality(S) -> S]
  /\ \A x \in S : \E i \in 1 .. Cardinality(S) : list[i] = x
  /\ \A i, j \in 1 .. Cardinality(S) : i < j => <<list[i], list[j]>> \in before

LEMMA SortedIsInOrder ==
  ASSUME NEW S, IsFiniteSet(S), NEW before, StrictOrder(S, before)
  PROVE  InOrder(Sorted(S, before), S, before)
<1> DEFINE n == Cardinality(S)
           Below(x) == {y \in S : <<y, x>> \in before}
           rank == [x \in S |-> Cardinality(Below(x))]
<1>1. n \in Nat
  BY FS_CardinalityType
<1>2. \A x : IsFiniteSet(Below(x)) /\ Cardinality(Below(x)) \in Nat
  <2> TAKE x
  <2>1. Below(x) \in SUBSET S
    OBVIOUS
  <2> HIDE DEF Below
  <2> QED BY <2>1, FS_Subset, FS_CardinalityType
<1>3. ASSUME NEW x \in S, NEW y \in S, <<x, y>> \in before PROVE rank[x] < rank[y]
  <2>1. Below(x) \in SUBSET (Below(y) \ {x}) /\ x \in Below(y)
    BY <1>3 DEF StrictOrder
  <2> HIDE DEF Below
  <2>2. IsFiniteSet(Below(y) \ {x}) /\ Cardinality(Below(y) \ {x}) = Cardinality(Below(y)) - 1
    BY <1>2, <2>1, FS_RemoveElement
  <2>3. Cardinality(Below(x)) <= Cardinality(Below(y) \ {x})
    BY <2>1, <2>2, FS_Subset
  <2> QED BY <1>2, <2>2, <2>3
<1>4. ASSUME NEW x \in S PROVE rank[x] \in 0 .. n - 1
  <2>1. Below(x) \in SUBSET (S \ {x})
    BY DEF StrictOrder
  <2> HIDE DEF Below
  <2>2. IsFiniteSet(S \ {x}) /\ Cardinality(S \ {x}) = n - 1
    BY FS_RemoveElement
  <2>3. Cardinality(Below(x)) <= n - 1
    BY <2>1, <2>2, FS_Subset
  <2> QED BY <1>1, <1>2, <2>3
<1>5. rank \in Injection(S, 0 .. n - 1)
  <2>1. rank \in [S -> 0 .. n - 1]
    BY <1>4
  <2>2. ASSUME NEW x \in S, NEW y \in S, rank[x] = rank[y] PROVE x = y
    <3>1. rank[x] \in Nat /\ rank[y] \in Nat
      BY <1>2
    <3>2. <<x, y>> \notin before /\ <<y, x>> \notin before
      <4>1. <<x, y>> \in before => rank[x] < rank[y]
        BY <1>3
      <4>2. <<y, x>> \in before => rank[y] < rank[x]
        BY <1>3
      <4> DEFINE r == rank[x]
                 q == rank[y]
      <4>3. r \in Nat /\ r = q /\ (<<x, y>> \in before => r < q) /\ (<<y, x>> \in before => q < r)
        BY <2>2, <3>1, <4>1, <4>2
      <4> HIDE DEF r, q
      <4> QED BY <4>3
    <3> QED BY <3>2 DEF StrictOrder
  <2> HIDE DEF rank
  <2> QED BY <2>1, <2>2 DEF Injection, IsInjective
<1>6. \A k \in 0 .. n - 1 : \E x \in S : rank[x] = k
  <2>1. IsFiniteSet(0 .. n - 1) /\ Cardinality(0 .. n - 1) = n
    BY <1>1, FS_Interval
  <2>2. rank \in Surjection(S, 0 .. n - 1)
    <3> HIDE DEF rank
    <3> QED BY <1>5, <2>1, FS_Injection
  <2> HIDE DEF rank
  <2> QED BY <2>2 DEF Surjection
<1> DEFINE list == Sorted(S, before)
<1>7. \A k \in 1 .. n : list[k] \in S /\ rank[list[k]] = k - 1
  <2> SUFFICES ASSUME NEW k \in 1 .. n PROVE list[k] \in S /\ rank[list[k]] = k - 1
    OBVIOUS
  <2>1. list[k] = CHOOSE x \in S : Cardinality(Below(x)) = k - 1
    BY DEF Sorted
  <2>2. \E x \in S : Cardinality(Below(x)) = k - 1
    <3>1. k - 1 \in 0 .. n - 1
      BY <1>1
    <3> QED BY <1>6, <3>1
  <2> HIDE DEF list
  <2> QED BY <2>1, <2>2
<1>8. list = [k \in 1 .. n |-> list[k]]
  <2> DEFINE At(k) == CHOOSE x \in S : Cardinality(Below(x)) = k - 1
  <2>1. list = [k \in 1 .. n |-> At(k)]
    BY DEF Sorted
  <2> HIDE DEF list, At, n
  <2> QED BY <2>1
<1> HIDE DEF list
<1>9. list \in [1 .. n -> S]
  BY <1>7, <1>8
<1>10. \A x \in S : \E k \in 1 .. n : list[k] = x
  <2> SUFFICES ASSUME NEW x \in S PROVE \E k \in 1 .. n : list[k] = x
    OBVIOUS
  <2>1. rank[x] + 1 \in 1 .. n
    BY <1>1, <1>4
  <2>2. list[rank[x] + 1] \in S /\ rank[list[rank[x] + 1]] = rank[x]
    <3>1. rank[x] \in 0 .. n - 1
      BY <1>4
    <3> HIDE DEF rank
    <3> QED BY <1>1, <1>7, <2>1, <3>1
  <2>3. list[rank[x] + 1] = x
    <3> HIDE DEF rank
    <3> QED BY <1>5, <2>2 DEF Injection, IsInjective
  <2> HIDE DEF rank
  <2> QED BY <2>1, <2>3
<1>11. ASSUME NEW i \in 1 .. n, NEW j \in 1 .. n, i < j
       PROVE  <<list[i], list[j]>> \in before
  <2>1. list[i] # list[j] /\ ~(rank[list[j]] < rank[list[i]])
    <3> HIDE DEF rank
    <3> QED BY <1>7, <1>11
  <2> HIDE DEF rank
  <2> QED BY <1>3, <1>7, <2>1 DEF StrictOrder
<1> QED BY <1>9, <1>10, <1>11 DEF InOrder, list

Rises(order, n) == \A i, j \in 1 .. n : i < j => order[i] < order[j]

LEMMA AscendingRises ==
  ASSUME NEW numbers \in SUBSET Nat, IsFiniteSet(numbers)
  PROVE  /\ Ascending(numbers) \in [1 .. Cardinality(numbers) -> numbers]
         /\ \A x \in numbers : \E i \in 1 .. Cardinality(numbers) : Ascending(numbers)[i] = x
         /\ Rises(Ascending(numbers), Cardinality(numbers))
<1> DEFINE before == {p \in numbers \X numbers : p[1] < p[2]}
<1>1. \A x, y \in numbers : <<x, y>> \in before <=> x < y
  OBVIOUS
<1>2. \A x \in numbers : x \in Nat
  OBVIOUS
<1>3. StrictOrder(numbers, before)
  <2> HIDE DEF before
  <2> QED BY <1>1, <1>2 DEF StrictOrder
<1>4. Ascending(numbers) = Sorted(numbers, before)
  BY DEF Ascending
<1> HIDE DEF before
<1>5. InOrder(Ascending(numbers), numbers, before)
  BY <1>3, <1>4, SortedIsInOrder
<1> QED BY <1>1, <1>5 DEF InOrder, Rises

LEMMA RisingIsInjective ==
  ASSUME NEW levels \in SUBSET Nat, NEW n \in Nat,
         NEW order \in [1 .. n -> levels], Rises(order, n)
  PROVE  order \in Injection(1 .. n, levels)
<1>1. ASSUME NEW i \in 1 .. n, NEW j \in 1 .. n, order[i] = order[j] PROVE i = j
  <2>1. order[i] \in Nat /\ i \in Nat /\ j \in Nat
    <3>1. order[i] \in levels /\ i \in Nat /\ j \in Nat
      OBVIOUS
    <3>2. order[i] \in Nat
      BY <3>1, Zenon
    <3> QED BY <3>1, <3>2
  <2>2. ~(i < j) /\ ~(j < i)
    BY <1>1, <2>1 DEF Rises
  <2> QED BY <2>1, <2>2
<1> QED BY <1>1 DEF Injection, IsInjective

\* A set of numbers in ascending order is one sequence only.
LEMMA AscendingIsUnique ==
  ASSUME NEW levels \in SUBSET Nat, NEW n \in Nat,
         NEW order \in [1 .. n -> levels], Rises(order, n),
         \A l \in levels : \E i \in 1 .. n : order[i] = l
  PROVE  Ascending(levels) = order
<1> DEFINE other == Ascending(levels)
<1>1. IsFiniteSet(levels) /\ Cardinality(levels) = n
  <2>1. IsFiniteSet(1 .. n) /\ Cardinality(1 .. n) = n
    BY FS_Interval
  <2>2. order \in Bijection(1 .. n, levels)
    BY RisingIsInjective DEF Bijection, Surjection
  <2>3. ExistsBijection(1 .. n, levels)
    BY <2>2 DEF ExistsBijection
  <2> QED BY <2>1, <2>3, FS_Bijection
<1>2. other \in [1 .. n -> levels] /\ Rises(other, n)
  BY <1>1, AscendingRises
<1> HIDE DEF other
<1>3. \A l \in levels : \E i \in 1 .. n : other[i] = l
  <2>1. other \in Injection(1 .. n, levels)
    BY <1>2, RisingIsInjective
  <2>2. other \in Surjection(1 .. n, levels)
    BY <1>1, <2>1, FS_Injection, FS_Interval
  <2> QED BY <2>2 DEF Surjection
<1> DEFINE T == {i \in 1 .. n : other[i] # order[i]}
<1>4. T = {}
  <2> SUFFICES ASSUME T # {} PROVE FALSE
    OBVIOUS
  <2>1. T \in SUBSET Nat
    OBVIOUS
  <2>2. PICK i \in T : \A m \in T : i <= m
    <3> HIDE DEF T
    <3> QED BY <2>1, LeastPlace
  <2>3. PICK j \in 1 .. n : order[j] = other[i]
    BY <1>2
  <2>4. PICK k \in 1 .. n : other[k] = order[i]
    BY <1>3
  <2>5. i \in 1 .. n /\ other[i] # order[i] /\ \A m \in 1 .. n : m < i => other[m] = order[m]
    BY <2>2
  <2>6. i \in Nat /\ j \in Nat /\ k \in Nat /\ order[i] \in Nat /\ other[i] \in Nat
    <3>1. order[i] \in levels /\ other[i] \in levels
      BY <1>2, <2>5
    <3>2. order[i] \in Nat /\ other[i] \in Nat
      BY <3>1, Zenon
    <3> QED BY <2>5, <3>2
  <2>7. ~(j < i) /\ j # i
    <3>1. j < i => other[j] = other[i] /\ other[j] < other[i]
      BY <1>2, <2>3, <2>5 DEF Rises
    <3> QED BY <2>3, <2>5, <2>6, <3>1
  <2>8. ~(k < i) /\ k # i
    <3>1. k < i => order[k] = order[i] /\ order[k] < order[i]
      BY <2>4, <2>5 DEF Rises
    <3> QED BY <2>4, <2>5, <2>6, <3>1
  <2>9. order[i] < order[j] /\ other[i] < other[k]
    BY <1>2, <2>5, <2>6, <2>7, <2>8 DEF Rises
  <2> QED BY <2>3, <2>4, <2>6, <2>9
<1>5. other = order
  BY <1>2, <1>4
<1> QED BY <1>5 DEF other

------------------------------------------------------------------------------
(***************************************************************************)
(* A history: summaries in front, higher and older from one to the next,   *)
(* and the turns since as they were said.                                  *)
(***************************************************************************)
Entry == [of : SUBSET Nat, level : Nat, size : Nat]

\* Of `said` turns the first s entries summarize all but as many as there are others.
History(entries, said, s) ==
  LET summarized == said - (Len(entries) - s)
  IN  /\ summarized \in Nat
      /\ \A k \in 1 .. s : /\ entries[k].level >= 1
                           /\ entries[k].of # {} /\ entries[k].of \subseteq 1 .. summarized
      /\ \A j, k \in 1 .. s : j < k =>
           /\ entries[j].level < entries[k].level
           /\ \A m \in entries[k].of, n \in entries[j].of : m < n
      /\ \A n \in 1 .. summarized : \E k \in 1 .. s : n \in entries[k].of
      /\ \A k \in s + 1 .. Len(entries) :
           entries[k].level = 0 /\ entries[k].of = {said - (Len(entries) - k)}

HistoryInv ==
  /\ setting \in [threshold : Thresholds, keep : KeptTurns]
  /\ turns \in Nat /\ compactions \in Nat /\ suffix \in Seq(Entry)
  /\ \E s \in 0 .. Len(suffix) :
       History(suffix, turns, s) /\ (s > 0 => Len(suffix) - s >= setting.keep)

\* Merging a history makes summaries of all of it.
LEMMA MergedHistory ==
  ASSUME NEW older \in Seq(Entry), NEW said \in Nat, NEW s \in 0 .. Len(older),
         History(older, said, s)
  PROVE  /\ Merged(older) \in Seq(Entry)
         /\ History(Merged(older), said, Len(Merged(older)))
<1> DEFINE m == Len(older)
           new == IF s < m THEN 1 ELSE 0
           n == s + new
           order == [k \in 1 .. n |-> IF k <= new THEN 0 ELSE older[k - new].level]
           summarized == said - (m - s)
<1>1. m \in Nat /\ new \in {0, 1} /\ n \in Nat /\ s \in Nat /\ DOMAIN older = 1 .. m
  OBVIOUS
<1>2. \A k \in 1 .. m : older[k] \in Entry
  OBVIOUS
<1>3. summarized \in Nat /\ m - s <= said
  BY DEF History
<1>4. \A k \in 1 .. s : /\ older[k].level >= 1 /\ older[k].level \in Nat
                        /\ older[k].of # {} /\ older[k].of \subseteq 1 .. summarized
  <2>1. \A k \in 1 .. m : older[k].level \in Nat
    BY <1>2 DEF Entry
  <2>2. \A k \in 1 .. s : k \in 1 .. m
    BY <1>1
  <2> QED BY <2>1, <2>2 DEF History
<1>5. \A j, k \in 1 .. s : j < k =>
        /\ older[j].level < older[k].level
        /\ \A p \in older[k].of, q \in older[j].of : p < q
  BY DEF History
<1>6. \A p \in 1 .. summarized : \E k \in 1 .. s : p \in older[k].of
  BY DEF History
<1>7. \A k \in s + 1 .. m : older[k].level = 0 /\ older[k].of = {said - (m - k)}
  BY DEF History
<1>8. Levels(older) \in SUBSET Nat
  BY <1>1, <1>2 DEF Levels, Entry
<1>9. order \in [1 .. n -> Levels(older)] /\ Rises(order, n)
  <2>1. ASSUME NEW k \in 1 .. n PROVE order[k] \in Levels(older)
    <3>1. CASE k <= new
      <4>1. s + 1 \in 1 .. m /\ older[s + 1].level = 0
        BY <1>1, <1>7, <3>1
      <4> QED BY <1>1, <3>1, <4>1 DEF Levels
    <3>2. CASE ~(k <= new)
      <4>1. k - new \in 1 .. m /\ order[k] = older[k - new].level
        BY <1>1, <3>2
      <4> QED BY <1>1, <4>1 DEF Levels
    <3> QED BY <3>1, <3>2
  <2>2. ASSUME NEW i \in 1 .. n, NEW j \in 1 .. n, i < j PROVE order[i] < order[j]
    <3>1. j - new \in 1 .. s /\ order[j] = older[j - new].level
      BY <1>1, <2>2
    <3>2. CASE i <= new
      BY <1>4, <3>1, <3>2
    <3>3. CASE ~(i <= new)
      <4>1. i - new \in 1 .. s /\ order[i] = older[i - new].level /\ i - new < j - new
        BY <1>1, <2>2, <3>3
      <4> QED BY <1>5, <3>1, <4>1
    <3> QED BY <3>2, <3>3
  <2> QED BY <2>1, <2>2 DEF Rises
<1>10. \A l \in Levels(older) : \E k \in 1 .. n : order[k] = l
  <2> SUFFICES ASSUME NEW i \in 1 .. m PROVE \E k \in 1 .. n : order[k] = older[i].level
    <3>1. DOMAIN older = 1 .. m
      OBVIOUS
    <3> HIDE DEF order, m, n
    <3> QED BY <3>1 DEF Levels
  <2>1. CASE i <= s
    <3>1. i + new \in 1 .. n /\ order[i + new] = older[i].level
      BY <1>1, <2>1
    <3> QED BY <3>1
  <2>2. CASE i > s
    <3>1. i \in s + 1 .. m /\ s < m
      BY <1>1, <2>2
    <3>2. older[i].level = 0
      BY <1>7, <3>1
    <3>3. 1 \in 1 .. n /\ order[1] = 0
      BY <1>1, <3>1
    <3> QED BY <3>2, <3>3
  <2>3. i <= s \/ i > s
    BY <1>1
  <2> HIDE DEF order, n
  <2> QED BY <2>1, <2>2, <2>3
<1> DEFINE merged == Merged(older)
<1>11. Ascending(Levels(older)) = order
  <2> HIDE DEF n, order
  <2> QED BY <1>1, <1>8, <1>9, <1>10, AscendingIsUnique
<1>12. merged = [k \in 1 .. n |-> Summary(older, Group(older, order[k]), order[k] + 1)]
  BY <1>11 DEF Merged
<1>13. /\ Len(merged) = n
       /\ \A k \in 1 .. n : /\ merged[k].level = order[k] + 1
                            /\ merged[k].of = UNION {older[i].of : i \in Group(older, order[k])}
  <2> HIDE DEF n, order, merged
  <2> QED BY <1>1, <1>12 DEF Summary
<1>14. \A k \in new + 1 .. n : merged[k].of = older[k - new].of
  <2> SUFFICES ASSUME NEW k \in new + 1 .. n PROVE merged[k].of = older[k - new].of
    OBVIOUS
  <2>1. k \in 1 .. n /\ k - new \in 1 .. s /\ order[k] = older[k - new].level
    BY <1>1
  <2>2. Group(older, order[k]) = {k - new}
    <3>1. ASSUME NEW i \in 1 .. m, older[i].level = older[k - new].level PROVE i = k - new
      <4>1. older[k - new].level >= 1
        BY <1>4, <2>1
      <4>2. i \in 1 .. s
        BY <1>1, <1>7, <3>1, <4>1
      <4> QED BY <1>1, <1>4, <1>5, <2>1, <3>1, <4>2
    <3>2. k - new \in 1 .. m
      BY <1>1, <2>1
    <3> QED BY <1>1, <2>1, <3>1, <3>2 DEF Group
  <2>3. merged[k].of = UNION {older[i].of : i \in {k - new}}
    BY <1>13, <2>1, <2>2
  <2>4. \A x : UNION {older[i].of : i \in {x}} = older[x].of
    OBVIOUS
  <2> HIDE DEF merged, new
  <2> QED BY <2>3, <2>4
<1>15. new = 1 => merged[1].of = summarized + 1 .. said
  <2> SUFFICES ASSUME new = 1 PROVE merged[1].of = summarized + 1 .. said
    OBVIOUS
  <2>1. s < m /\ 1 \in 1 .. n /\ order[1] = 0
    BY <1>1
  <2>2. Group(older, 0) = s + 1 .. m
    BY <1>1, <1>4, <1>7 DEF Group
  <2>3. merged[1].of = UNION {older[i].of : i \in s + 1 .. m}
    BY <1>13, <2>1, <2>2
  <2>4. ASSUME NEW p \in merged[1].of PROVE p \in summarized + 1 .. said
    <3>1. PICK i \in s + 1 .. m : p = said - (m - i)
      BY <1>7, <2>3, <2>4
    <3> QED BY <1>1, <3>1
  <2>5. ASSUME NEW p \in summarized + 1 .. said PROVE p \in merged[1].of
    <3>1. m - (said - p) \in s + 1 .. m /\ said - (m - (m - (said - p))) = p
      BY <1>1, <1>3, <2>5
    <3>2. p \in older[m - (said - p)].of
      BY <1>7, <3>1
    <3> QED BY <2>3, <3>1, <3>2
  <2> QED BY <2>4, <2>5
<1>16. merged \in Seq(Entry)
  <2> SUFFICES ASSUME NEW k \in 1 .. n PROVE merged[k] \in Entry
    <3> HIDE DEF n
    <3> QED BY <1>1, <1>12 DEF Merged
  <2>1. Group(older, order[k]) \subseteq 1 .. m
    BY <1>1 DEF Group
  <2>2. Cardinality(Group(older, order[k])) \in Nat
    <3>1. IsFiniteSet(1 .. m)
      BY <1>1, FS_Interval
    <3> HIDE DEF order, n, m
    <3> QED BY <2>1, <3>1, FS_Subset, FS_CardinalityType
  <2>3. UNION {older[i].of : i \in Group(older, order[k])} \in SUBSET Nat
    BY <1>2, <2>1 DEF Entry
  <2>4. order[k] \in Nat
    BY <1>8, <1>9
  <2> HIDE DEF order, n
  <2> QED BY <1>12, <2>2, <2>3, <2>4 DEF Summary, Entry
<1>17. \A k \in 1 .. n :
         \/ /\ k = 1 /\ new = 1 /\ s < m /\ merged[k].level = 1
            /\ merged[k].of = summarized + 1 .. said
         \/ /\ k - new \in 1 .. s /\ merged[k].level = older[k - new].level + 1
            /\ merged[k].of = older[k - new].of
  <2> SUFFICES ASSUME NEW k \in 1 .. n
               PROVE  \/ /\ k = 1 /\ new = 1 /\ s < m /\ merged[k].level = 1
                         /\ merged[k].of = summarized + 1 .. said
                      \/ /\ k - new \in 1 .. s
                         /\ merged[k].level = older[k - new].level + 1
                         /\ merged[k].of = older[k - new].of
    OBVIOUS
  <2>1. CASE k <= new
    <3>1. k = 1 /\ new = 1 /\ s < m /\ order[k] = 0
      BY <1>1, <2>1
    <3> HIDE DEF merged, n, new, order
    <3> QED BY <1>13, <1>15, <3>1
  <2>2. CASE ~(k <= new)
    <3>1. k \in new + 1 .. n /\ k - new \in 1 .. s /\ order[k] = older[k - new].level
      BY <1>1, <2>2
    <3> HIDE DEF merged, n, new, order
    <3> QED BY <1>13, <1>14, <3>1
  <2> QED BY <2>1, <2>2
<1> HIDE DEF merged, order
<1>18. History(merged, said, n)
  <2>1. \A k \in 1 .. n : /\ merged[k].level >= 1
                         /\ merged[k].of # {} /\ merged[k].of \subseteq 1 .. said
    <3> SUFFICES ASSUME NEW k \in 1 .. n
                 PROVE  /\ merged[k].level >= 1
                        /\ merged[k].of # {} /\ merged[k].of \subseteq 1 .. said
      OBVIOUS
    <3>1. CASE k = 1 /\ new = 1 /\ s < m /\ merged[k].level = 1
               /\ merged[k].of = summarized + 1 .. said
      <4>1. said \in merged[k].of
        BY <1>1, <1>3, <3>1
      <4>2. summarized + 1 .. said \subseteq 1 .. said
        BY <1>3
      <4>3. merged[k].level >= 1
        BY <3>1
      <4> HIDE DEF summarized
      <4> QED BY <3>1, <4>1, <4>2, <4>3
    <3>2. CASE /\ k - new \in 1 .. s /\ merged[k].level = older[k - new].level + 1
               /\ merged[k].of = older[k - new].of
      <4>1. 1 .. summarized \subseteq 1 .. said
        BY <1>1, <1>3
      <4> QED BY <1>4, <3>2, <4>1
    <3> QED BY <1>17, <3>1, <3>2
  <2>2. ASSUME NEW j \in 1 .. n, NEW k \in 1 .. n, j < k
        PROVE  /\ merged[j].level < merged[k].level
               /\ \A p \in merged[k].of, q \in merged[j].of : p < q
    <3>1. /\ k - new \in 1 .. s /\ merged[k].level = older[k - new].level + 1
          /\ merged[k].of = older[k - new].of
      BY <1>1, <1>17, <2>2
    <3>2. CASE merged[j].of = summarized + 1 .. said /\ merged[j].level = 1
      <4>1. merged[k].of \subseteq 1 .. summarized /\ merged[j].level < merged[k].level
        BY <1>4, <3>1, <3>2
      <4> QED BY <1>3, <3>2, <4>1
    <3>3. CASE /\ j - new \in 1 .. s /\ merged[j].level = older[j - new].level + 1
               /\ merged[j].of = older[j - new].of
      <4>1. j - new < k - new
        BY <1>1, <2>2
      <4>2. older[j - new].level \in Nat /\ older[k - new].level \in Nat
        BY <1>4, <3>1, <3>3
      <4>3. /\ older[j - new].level < older[k - new].level
            /\ \A p \in older[k - new].of, q \in older[j - new].of : p < q
        BY <1>5, <3>1, <3>3, <4>1
      <4> QED BY <3>1, <3>3, <4>2, <4>3
    <3> QED BY <1>17, <3>2, <3>3
  <2>3. ASSUME NEW p \in 1 .. said PROVE \E k \in 1 .. n : p \in merged[k].of
    <3>1. CASE p <= summarized
      <4>1. PICK k \in 1 .. s : p \in older[k].of
        BY <1>3, <1>6, <3>1
      <4>2. k + new \in new + 1 .. n /\ k + new \in 1 .. n /\ (k + new) - new = k
        BY <1>1
      <4>3. merged[k + new].of = older[k].of
        BY <1>14, <4>2
      <4> QED BY <4>1, <4>2, <4>3
    <3>2. CASE ~(p <= summarized)
      <4>1. new = 1 /\ 1 \in 1 .. n
        BY <1>1, <1>3, <3>2
      <4> QED BY <1>3, <1>15, <3>2, <4>1
    <3> QED BY <3>1, <3>2
  <2>4. said - (Len(merged) - n) = said /\ n + 1 .. Len(merged) = {}
    BY <1>1, <1>13
  <2> HIDE DEF n, new
  <2> QED BY <2>1, <2>2, <2>3, <2>4 DEF History
<1> HIDE DEF n
<1> QED BY <1>13, <1>16, <1>18 DEF merged

------------------------------------------------------------------------------
(***************************************************************************)
(* The conversation.                                                       *)
(***************************************************************************)
LEMMA InitHistory == CompactionInit => HistoryInv
<1> SUFFICES ASSUME CompactionInit PROVE HistoryInv
  OBVIOUS
<1>1. suffix = <<>> /\ turns = 0 /\ Len(suffix) = 0 /\ suffix \in Seq(Entry)
  BY DEF CompactionInit
<1>2. History(suffix, turns, 0)
  BY <1>1 DEF History
<1> QED BY <1>1, <1>2 DEF CompactionInit, HistoryInv

LEMMA HistoryTypes ==
  ASSUME HistoryInv
  PROVE  /\ setting.keep \in Nat /\ turns \in Nat /\ Len(suffix) \in Nat
         /\ suffix \in Seq(Entry) /\ DOMAIN suffix = 1 .. Len(suffix)
         /\ \A k \in 1 .. Len(suffix) : suffix[k] \in Entry /\ suffix[k].level \in Nat
<1>1. suffix \in Seq(Entry) /\ turns \in Nat /\ setting.keep \in KeptTurns
  BY DEF HistoryInv
<1>2. setting.keep \in Nat
  BY <1>1, CompactionAssumption
<1>3. \A e \in Entry : e.level \in Nat
  BY DEF Entry
<1> QED BY <1>1, <1>2, <1>3

LEMMA JoinedEntries ==
  ASSUME NEW a \in Seq(Entry), NEW b \in Seq(Entry)
  PROVE  /\ a \o b \in Seq(Entry) /\ Len(a \o b) = Len(a) + Len(b) /\ Len(a) \in Nat
         /\ \A k \in 1 .. Len(a) : (a \o b)[k] = a[k]
         /\ \A k \in 1 .. Len(b) : (a \o b)[Len(a) + k] = b[k]
OBVIOUS

LEMMA NothingToMerge == Merged(<<>>) = <<>>
<1>1. Ascending({}) = <<>>
  <2> DEFINE empty == <<>>
  <2>1. {} \in SUBSET Nat /\ empty \in [1 .. 0 -> {}] /\ 1 .. 0 = {}
    OBVIOUS
  <2>2. Rises(empty, 0) /\ \A l \in {} : \E i \in 1 .. 0 : empty[i] = l
    BY <2>1 DEF Rises
  <2> HIDE DEF empty
  <2>3. Ascending({}) = empty
    BY <2>1, <2>2, AscendingIsUnique
  <2> QED BY <2>3 DEF empty
<1>2. Levels(<<>>) = {}
  BY DEF Levels
<1>3. Merged(<<>>) = [n \in {} |-> Summary(<<>>, Group(<<>>, <<>>[n]), <<>>[n] + 1)]
  BY <1>1, <1>2 DEF Merged
<1> QED BY <1>3

LEMMA SayKeepsHistory == HistoryInv /\ Say => HistoryInv'
<1> SUFFICES ASSUME HistoryInv, Say PROVE HistoryInv'
  OBVIOUS
<1>1. PICK size \in Sizes : suffix' = Append(suffix, SaidTurn(turns + 1, size))
  BY DEF Say
<1>2. PICK s \in 0 .. Len(suffix) :
        History(suffix, turns, s) /\ (s > 0 => Len(suffix) - s >= setting.keep)
  BY DEF HistoryInv
<1> DEFINE n == Len(suffix)
           entry == SaidTurn(turns + 1, size)
<1>3. turns \in Nat /\ turns' = turns + 1 /\ setting' = setting /\ n \in Nat
      /\ suffix \in Seq(Entry)
  BY DEF HistoryInv, Say
<1>4. entry \in Entry /\ entry.level = 0 /\ entry.of = {turns + 1}
  <2>1. size \in Nat
    BY CompactionAssumption
  <2> QED BY <1>3, <2>1 DEF SaidTurn, Entry
<1>5. suffix' \in Seq(Entry) /\ Len(suffix') = n + 1 /\ suffix'[n + 1] = entry
      /\ \A k \in 1 .. n : suffix'[k] = suffix[k]
  <2> HIDE DEF entry
  <2> QED BY <1>1, <1>3, <1>4 DEF entry
<1>6. History(suffix', turns', s)
  <2>1. turns' - (Len(suffix') - s) = turns - (n - s)
    BY <1>3, <1>5
  <2>2. 1 .. s \subseteq 1 .. n
    BY <1>3
  <2>3. ASSUME NEW k \in s + 1 .. Len(suffix')
        PROVE  suffix'[k].level = 0 /\ suffix'[k].of = {turns' - (Len(suffix') - k)}
    <3>1. CASE k = n + 1
      BY <1>3, <1>4, <1>5, <3>1
    <3>2. CASE k \in s + 1 .. n
      <4>1. turns' - (Len(suffix') - k) = turns - (n - k) /\ k \in 1 .. n
        BY <1>3, <1>5, <3>2
      <4> QED BY <1>2, <1>5, <3>2, <4>1 DEF History
    <3> QED BY <1>3, <1>5, <3>1, <3>2
  <2> QED BY <1>2, <1>5, <2>1, <2>2, <2>3 DEF History
<1>7. s \in 0 .. Len(suffix') /\ (s > 0 => Len(suffix') - s >= setting'.keep)
  <2>1. setting.keep \in Nat
    BY CompactionAssumption DEF HistoryInv
  <2> QED BY <1>2, <1>3, <1>5, <2>1
<1> QED BY <1>3, <1>5, <1>6, <1>7 DEF HistoryInv, Say

LEMMA CompactKeepsHistory == HistoryInv /\ MaybeCompact => HistoryInv'
<1> SUFFICES ASSUME HistoryInv, MaybeCompact PROVE HistoryInv'
  OBVIOUS
<1>1. PICK s \in 0 .. Len(suffix) :
        History(suffix, turns, s) /\ (s > 0 => Len(suffix) - s >= setting.keep)
  BY DEF HistoryInv
<1> DEFINE n == Len(suffix)
           keep == setting.keep
           older == Older(suffix)
           recent == Recent(suffix)
           merged == Merged(older)
<1>2. /\ turns \in Nat /\ turns' = turns /\ setting' = setting /\ n \in Nat /\ keep \in Nat
      /\ suffix \in Seq(Entry) /\ n > keep /\ s \in Nat
  BY HistoryTypes DEF MaybeCompact, Triggered
<1>3. suffix' = merged \o recent /\ compactions' \in Nat
  BY DEF MaybeCompact, HistoryInv
<1>4. CASE keep = 0
  <2>1. older = <<>> /\ recent = suffix
    BY <1>4 DEF Older, Recent
  <2>2. merged = <<>>
    BY <2>1, NothingToMerge
  <2>3. suffix' = suffix
    BY <1>2, <1>3, <2>1, <2>2
  <2> QED BY <1>1, <1>2, <1>3, <2>3 DEF HistoryInv
<1>5. CASE keep # 0
  <2>1. /\ older \in Seq(Entry) /\ Len(older) = n - keep
        /\ \A k \in 1 .. n - keep : older[k] = suffix[k]
    <3>1. older = SubSeq(suffix, 1, n - keep)
      BY <1>5 DEF Older
    <3> QED BY <1>2, <3>1
  <2>2. /\ recent \in Seq(Entry) /\ Len(recent) = keep
        /\ \A k \in 1 .. keep : recent[k] = suffix[n - keep + k]
    <3>1. recent = SubSeq(suffix, n - keep + 1, n)
      BY <1>5 DEF Recent
    <3> QED BY <1>2, <1>5, <3>1
  <2>3. s <= n - keep
    BY <1>1, <1>2
  <2>4. History(older, turns - keep, s) /\ turns - keep \in Nat
    <3>1. (turns - keep) - (Len(older) - s) = turns - (n - s)
      BY <1>2, <2>1
    <3>2. 1 .. s \subseteq 1 .. n - keep /\ s + 1 .. n - keep \subseteq 1 .. n - keep
          /\ s + 1 .. n - keep \subseteq s + 1 .. n
      BY <1>2, <2>3
    <3>3. \A k \in s + 1 .. n - keep :
            older[k].level = 0 /\ older[k].of = {(turns - keep) - (Len(older) - k)}
      <4> SUFFICES ASSUME NEW k \in s + 1 .. n - keep
                   PROVE  older[k].level = 0
                          /\ older[k].of = {(turns - keep) - (Len(older) - k)}
        OBVIOUS
      <4>1. (turns - keep) - (Len(older) - k) = turns - (n - k)
        BY <1>2, <2>1
      <4>2. k \in s + 1 .. n /\ older[k] = suffix[k]
        BY <2>1, <3>2
      <4>3. suffix[k].level = 0 /\ suffix[k].of = {turns - (n - k)}
        BY <1>1, <4>2 DEF History
      <4> QED BY <4>1, <4>2, <4>3
    <3>4. turns - (n - s) \in Nat
      BY <1>1 DEF History
    <3>5. turns - keep \in Nat
      BY <1>2, <2>3, <3>4
    <3> HIDE DEF older
    <3> QED BY <1>1, <2>1, <3>1, <3>2, <3>3, <3>4, <3>5 DEF History
  <2>5. merged \in Seq(Entry) /\ History(merged, turns - keep, Len(merged))
    <3> HIDE DEF older
    <3> QED BY <1>2, <2>1, <2>3, <2>4, MergedHistory
  <2> DEFINE p == Len(merged)
  <2> HIDE DEF merged, recent, older
  <2>6. /\ suffix' \in Seq(Entry) /\ Len(suffix') = p + keep /\ p \in Nat
        /\ \A k \in 1 .. p : suffix'[k] = merged[k]
        /\ \A k \in 1 .. keep : suffix'[p + k] = recent[k]
    <3> DEFINE joined == merged \o recent
    <3>1. /\ joined \in Seq(Entry) /\ Len(joined) = p + Len(recent) /\ p \in Nat
          /\ \A k \in 1 .. p : joined[k] = merged[k]
          /\ \A k \in 1 .. Len(recent) : joined[p + k] = recent[k]
      BY <2>2, <2>5, JoinedEntries
    <3> HIDE DEF joined, p
    <3>2. suffix' = joined
      BY <1>3 DEF joined
    <3> QED BY <2>2, <3>1, <3>2
  <2>7. History(suffix', turns', p)
    <3>1. turns' - (Len(suffix') - p) = (turns - keep) - (Len(merged) - p)
      BY <1>2, <2>6
    <3>2. ASSUME NEW k \in p + 1 .. Len(suffix')
          PROVE  suffix'[k].level = 0 /\ suffix'[k].of = {turns' - (Len(suffix') - k)}
      <4>1. k - p \in 1 .. keep /\ p + (k - p) = k
        BY <1>2, <2>6
      <4>2. suffix'[k] = suffix[n - keep + (k - p)]
        BY <2>2, <2>6, <4>1
      <4>3. /\ n - keep + (k - p) \in s + 1 .. n
            /\ turns - (n - (n - keep + (k - p))) = turns' - (Len(suffix') - k)
        BY <1>2, <2>3, <2>6, <4>1
      <4> QED BY <1>1, <4>2, <4>3 DEF History
    <3> QED BY <2>5, <2>6, <3>1, <3>2 DEF History
  <2>8. p \in 0 .. Len(suffix') /\ (p > 0 => Len(suffix') - p >= setting'.keep)
    BY <1>2, <2>6
  <2> QED BY <1>2, <1>3, <2>6, <2>7, <2>8 DEF HistoryInv
<1> QED BY <1>4, <1>5

LEMMA HistoryInvariance == CompactionSpec => []HistoryInv
<1>1. HistoryInv /\ [CompactionNext]_vars => HistoryInv'
  <2>1. HistoryInv /\ UNCHANGED vars => HistoryInv'
    BY DEF HistoryInv, vars
  <2> QED BY <2>1, SayKeepsHistory, CompactKeepsHistory DEF CompactionNext
<1> QED BY <1>1, InitHistory, PTL DEF CompactionSpec

\* However long a conversation and however often maybe_compact shortens it, with
\* whatever threshold and number of turns to keep: no turn is lost or covered twice,
\* the latest stand at the end as they were said, and higher summaries are older.
THEOREM HistoriesStayWhole == CompactionSpec => []HistoryIsWhole
<1>1. HistoryInv => HistoryIsWhole
  <2> SUFFICES ASSUME HistoryInv PROVE HistoryIsWhole
    OBVIOUS
  <2>1. PICK s \in 0 .. Len(suffix) :
          History(suffix, turns, s) /\ (s > 0 => Len(suffix) - s >= setting.keep)
    BY DEF HistoryInv
  <2> DEFINE n == Len(suffix)
             summarized == turns - (n - s)
  <2>2. /\ turns \in Nat /\ n \in Nat /\ s \in Nat /\ s <= n /\ summarized \in Nat
        /\ setting.keep \in Nat /\ DOMAIN suffix = 1 .. n
    <3>1. summarized \in Nat
      BY <2>1 DEF History
    <3> QED BY <2>1, <3>1, HistoryTypes
  <2>3. \A k \in 1 .. s : /\ suffix[k].level >= 1
                          /\ suffix[k].of # {} /\ suffix[k].of \subseteq 1 .. summarized
    BY <2>1 DEF History
  <2>4. \A j, k \in 1 .. s : j < k =>
          /\ suffix[j].level < suffix[k].level
          /\ \A m \in suffix[k].of, i \in suffix[j].of : m < i
    BY <2>1 DEF History
  <2>5. \A i \in 1 .. summarized : \E k \in 1 .. s : i \in suffix[k].of
    BY <2>1 DEF History
  <2>6. \A k \in s + 1 .. n : suffix[k].level = 0 /\ suffix[k].of = {turns - (n - k)}
    BY <2>1 DEF History
  <2>7. \A k \in 1 .. n : suffix[k].level \in Nat
    BY HistoryTypes
  <2>8. EveryTurnOnce
    <3>1. ASSUME NEW i \in 1 .. turns
          PROVE  \E k \in DOMAIN suffix : \A j \in DOMAIN suffix : i \in suffix[j].of <=> j = k
      <4>1. CASE i <= summarized
        <5>1. PICK k \in 1 .. s : i \in suffix[k].of
          BY <2>2, <2>5, <4>1
        <5>2. ASSUME NEW j \in 1 .. n, i \in suffix[j].of PROVE j = k
          <6>1. j \in 1 .. s
            <7>1. j \in s + 1 .. n => i = turns - (n - j)
              BY <2>6, <5>2
            <7> QED BY <2>2, <4>1, <7>1
          <6> QED BY <2>2, <2>4, <5>1, <5>2, <6>1
        <5>3. k \in 1 .. n
          BY <2>2
        <5> QED BY <2>2, <5>1, <5>2, <5>3
      <4>2. CASE ~(i <= summarized)
        <5> DEFINE k == n - (turns - i)
        <5>1. k \in s + 1 .. n /\ k \in 1 .. n /\ turns - (n - k) = i
          BY <2>2, <4>2
        <5>2. i \in suffix[k].of
          BY <2>6, <5>1
        <5>3. ASSUME NEW j \in 1 .. n, i \in suffix[j].of PROVE j = k
          <6>1. j \in s + 1 .. n
            <7>1. j \in 1 .. s => i \in 1 .. summarized
              BY <2>3, <5>3
            <7> QED BY <2>2, <4>2, <7>1
          <6>2. i = turns - (n - j)
            BY <2>6, <5>3, <6>1
          <6> QED BY <2>2, <6>1, <6>2
        <5> HIDE DEF k
        <5> QED BY <2>2, <5>1, <5>2, <5>3
      <4> QED BY <4>1, <4>2
    <3>2. ASSUME NEW k \in 1 .. n PROVE suffix[k].of # {} /\ suffix[k].of \subseteq 1 .. turns
      <4>1. CASE k \in 1 .. s
        <5>1. 1 .. summarized \subseteq 1 .. turns
          BY <2>2
        <5> QED BY <2>3, <4>1, <5>1
      <4>2. CASE k \in s + 1 .. n
        <5>1. turns - (n - k) \in 1 .. turns
          BY <2>2, <4>2
        <5> QED BY <2>6, <4>2, <5>1
      <4> QED BY <2>2, <4>1, <4>2
    <3> QED BY <2>2, <3>1, <3>2 DEF EveryTurnOnce
  <2>9. LatestAsSaid
    <3> SUFFICES ASSUME NEW i \in 1 .. turns, i > turns - setting.keep
                 PROVE  LET entry == suffix[Len(suffix) - (turns - i)]
                        IN  ~IsSummary(entry) /\ entry.of = {i}
      BY DEF LatestAsSaid
    <3> DEFINE k == n - (turns - i)
    <3>1. k \in s + 1 .. n
      <4>1. CASE s = 0
        <5>1. summarized = 0
          <6>1. 1 \notin 1 .. summarized
            <7> SUFFICES ASSUME 1 \in 1 .. summarized PROVE FALSE
              OBVIOUS
            <7>1. PICK first \in 1 .. s : 1 \in suffix[first].of
              BY <2>5
            <7> QED BY <4>1, <7>1
          <6>2. summarized \in Nat
            BY <2>2
          <6> HIDE DEF summarized
          <6> QED BY <6>1, <6>2
        <5> QED BY <2>2, <4>1, <5>1
      <4>2. CASE s > 0
        BY <2>1, <2>2, <4>2
      <4> QED BY <2>2, <4>1, <4>2
    <3>2. turns - (n - k) = i
      BY <2>2
    <3>3. suffix[k].level = 0 /\ suffix[k].of = {i}
      BY <2>6, <3>1, <3>2
    <3> QED BY <3>3 DEF IsSummary
  <2>10. Hierarchical
    <3> SUFFICES ASSUME NEW j \in 1 .. n, NEW k \in 1 .. n, j # k,
                        suffix[j].level > 0, suffix[k].level > 0
                 PROVE  /\ suffix[j].level # suffix[k].level
                        /\ suffix[j].level > suffix[k].level =>
                             \A m \in suffix[j].of, i \in suffix[k].of : m < i
      BY <2>2 DEF Hierarchical, IsSummary
    <3>1. j \in 1 .. s /\ k \in 1 .. s
      BY <2>2, <2>6
    <3>2. suffix[j].level \in Nat /\ suffix[k].level \in Nat
      BY <2>7
    <3>3. CASE j < k
      BY <2>4, <3>1, <3>2, <3>3
    <3>4. CASE k < j
      BY <2>4, <3>1, <3>2, <3>4
    <3> QED BY <2>2, <3>3, <3>4
  <2> QED BY <2>8, <2>9, <2>10 DEF HistoryIsWhole
<1> QED BY <1>1, HistoryInvariance, PTL

------------------------------------------------------------------------------
(***************************************************************************)
(* Near-duplicates: similarities are fractions.                            *)
(***************************************************************************)
Fraction == [num : Nat, den : Nat \ {0}]

LEMMA ScaledOrder ==
  ASSUME NEW x \in Nat, NEW y \in Nat, NEW z \in Nat \ {0}
  PROVE  (x * z > y * z) <=> (x > y)
OBVIOUS

LEMMA Products ==
  ASSUME NEW x \in Nat, NEW y \in Nat, NEW z \in Nat
  PROVE  /\ x * y \in Nat
         /\ (x * y) * z = (x * z) * y /\ (x * y) * z = (y * z) * x
OBVIOUS

\* Closer than one that is at least as close as a third is closer than that.
LEMMA AboveIsTransitive ==
  ASSUME NEW r \in Fraction, NEW s \in Fraction, NEW t \in Fraction,
         Above(r, s), ~Above(t, s)
  PROVE  Above(r, t)
<1> DEFINE a == r.num b == s.num c == t.num
           p == r.den q == s.den d == t.den
<1>1. /\ a \in Nat /\ b \in Nat /\ c \in Nat
      /\ p \in Nat \ {0} /\ q \in Nat \ {0} /\ d \in Nat \ {0}
  BY DEF Fraction
<1>2. a * q > b * p /\ ~(c * q > b * d)
  BY DEF Above
<1> HIDE DEF a, b, c, p, q, d
<1>3. (a * q) * d > (b * p) * d
  BY <1>1, <1>2, ScaledOrder, Products
<1>4. ~((c * q) * p > (b * d) * p)
  BY <1>1, <1>2, ScaledOrder, Products
<1>5. (a * q) * d = (a * d) * q /\ (c * q) * p = (c * p) * q /\ (b * p) * d = (b * d) * p
  BY <1>1, Products
<1>6. /\ (a * q) * d \in Nat /\ (b * p) * d \in Nat /\ (c * q) * p \in Nat
      /\ a * d \in Nat /\ c * p \in Nat
  BY <1>1, Products
<1>7. (a * d) * q > (c * p) * q
  BY <1>3, <1>4, <1>5, <1>6
<1>8. a * d > c * p
  BY <1>1, <1>6, <1>7, ScaledOrder
<1> QED BY <1>8 DEF Above, a, c, p, d

\* What is no farther than something close enough is close enough.
LEMMA CloserIsCloseEnough ==
  ASSUME NEW s \in Fraction, NEW t \in Fraction,
         ~Above(s, t), AtThreshold(s), s.num > 0
  PROVE  AtThreshold(t) /\ t.num > 0
<1> DEFINE a == s.num b == t.num p == s.den q == t.den
<1>1. /\ a \in Nat /\ b \in Nat /\ p \in Nat \ {0} /\ q \in Nat \ {0}
      /\ Threshold \in Nat /\ a > 0
  BY TextAssumption DEF Fraction
<1>2. ~(a * q > b * p) /\ a * 100 >= Threshold * p
  BY DEF Above, AtThreshold
<1> HIDE DEF a, b, p, q
<1>3. (a * 100) * q >= (Threshold * p) * q
  <2>1. a * 100 \in Nat /\ Threshold * p \in Nat
    BY <1>1, Products
  <2>2. ~((Threshold * p) * q > (a * 100) * q)
    BY <1>1, <1>2, <2>1, ScaledOrder
  <2> QED BY <1>1, <2>1, <2>2, Products
<1>4. ~((a * q) * 100 > (b * p) * 100)
  <2>1. a * q \in Nat /\ b * p \in Nat
    BY <1>1, Products
  <2> QED BY <1>2, <2>1
<1>5. /\ (a * 100) * q = (a * q) * 100 /\ (b * p) * 100 = (b * 100) * p
      /\ (Threshold * p) * q = (Threshold * q) * p
  BY <1>1, Products
<1>6. /\ (a * q) * 100 \in Nat /\ (b * p) * 100 \in Nat /\ (Threshold * p) * q \in Nat
      /\ b * 100 \in Nat /\ Threshold * q \in Nat
  BY <1>1, Products
<1>7. ~((Threshold * q) * p > (b * 100) * p)
  BY <1>3, <1>4, <1>5, <1>6
<1>8. b * 100 >= Threshold * q
  BY <1>1, <1>6, <1>7, ScaledOrder
<1>9. b > 0
  <2>1. b = 0 => b * p = 0
    BY <1>1
  <2>2. a * q > 0
    <3>1. a * q > 0 * q
      BY <1>1, ScaledOrder
    <3> QED BY <1>1, <3>1
  <2>3. a * q \in Nat /\ b * p \in Nat
    BY <1>1, Products
  <2> QED BY <1>1, <1>2, <2>1, <2>2, <2>3
<1> QED BY <1>8, <1>9 DEF AtThreshold, b, q

LEMMA SimilarityIsFraction ==
  ASSUME NEW a, NEW b, IsFiniteSet(a), IsFiniteSet(b)
  PROVE  Similarity(a, b) \in Fraction
<1>1. CASE a = {} /\ b = {}
  BY <1>1 DEF Similarity, Fraction
<1>2. CASE ~(a = {} /\ b = {})
  <2>1. IsFiniteSet(a \cup b) /\ IsFiniteSet(a \cap b)
    BY FS_Union, FS_Intersection
  <2>2. Cardinality(a \cup b) \in Nat /\ Cardinality(a \cap b) \in Nat
    BY <2>1, FS_CardinalityType
  <2>3. a \cup b # {}
    BY <1>2
  <2>4. Cardinality(a \cup b) # 0
    BY <2>1, <2>3, FS_EmptySet
  <2> QED BY <1>2, <2>2, <2>4 DEF Similarity, Fraction
<1> QED BY <1>1, <1>2

\* The first of the closest.
FirstBest(f, j, n) ==
  \A k \in 1 .. n : ~Above(f[k], f[j]) /\ (k < j => Above(f[j], f[k]))

LEMMA FirstBestExists ==
  ASSUME NEW n \in Nat \ {0}, NEW f \in [1 .. n -> Fraction]
  PROVE  \E j \in 1 .. n : FirstBest(f, j, n)
<1> DEFINE T == {m \in 1 .. n : ~ \E j \in 1 .. m : FirstBest(f, j, m)}
<1> SUFFICES ASSUME T # {} PROVE FALSE
  <2>1. n \in 1 .. n
    OBVIOUS
  <2> QED BY <2>1
<1>1. T \in SUBSET Nat
  OBVIOUS
<1>2. PICK m \in T : \A o \in T : m <= o
  <2> HIDE DEF T
  <2> QED BY <1>1, LeastPlace
<1>3. m \in 1 .. n /\ ~ \E j \in 1 .. m : FirstBest(f, j, m)
  OBVIOUS
<1>4. \A k \in 1 .. n : ~Above(f[k], f[k])
  <2>1. \A s \in Fraction : ~Above(s, s)
    <3>1. \A s \in Fraction : s.num * s.den \in Nat
      BY Products DEF Fraction
    <3> QED BY <3>1 DEF Above
  <2> QED BY <2>1
<1>5. CASE m = 1
  <2>1. FirstBest(f, 1, 1)
    BY <1>4 DEF FirstBest
  <2> QED BY <1>3, <1>5, <2>1
<1>6. CASE m # 1
  <2>1. m - 1 \in 1 .. n /\ m - 1 \notin T
    BY <1>2, <1>3, <1>6
  <2>2. PICK j \in 1 .. m - 1 : FirstBest(f, j, m - 1)
    BY <2>1
  <2>3. 1 .. m = (1 .. m - 1) \cup {m} /\ 1 .. m \subseteq 1 .. n
    BY <1>3
  <2>4. \A k \in 1 .. m : f[k] \in Fraction
    BY <2>3
  <2>5. j \in 1 .. m /\ m \in 1 .. m /\ j < m
    BY <1>3, <2>2
  <2>6. CASE Above(f[m], f[j])
    <3>1. ASSUME NEW k \in 1 .. m - 1 PROVE Above(f[m], f[k])
      <4>1. ~Above(f[k], f[j]) /\ k \in 1 .. m
        BY <2>2, <2>3 DEF FirstBest
      <4> QED BY <2>4, <2>5, <2>6, <4>1, AboveIsTransitive
    <3>2. ASSUME NEW k \in 1 .. m - 1 PROVE ~Above(f[k], f[m])
      <4>1. f[k] \in Fraction /\ f[m] \in Fraction /\ Above(f[m], f[k])
        BY <2>3, <2>4, <2>5, <3>1
      <4>2. f[m].num * f[k].den \in Nat /\ f[k].num * f[m].den \in Nat
        BY <4>1, Products DEF Fraction
      <4> QED BY <4>1, <4>2 DEF Above
    <3>3. FirstBest(f, m, m)
      BY <1>3, <1>4, <2>3, <3>1, <3>2 DEF FirstBest
    <3> QED BY <1>3, <2>5, <3>3
  <2>7. CASE ~Above(f[m], f[j])
    <3>1. FirstBest(f, j, m)
      BY <2>2, <2>3, <2>5, <2>7 DEF FirstBest
    <3> QED BY <1>3, <2>5, <3>1
  <2> QED BY <2>6, <2>7
<1> QED BY <1>5, <1>6

InputType ==
  /\ subject \in DOMAIN Elements
  /\ input \in Seq(Elements[subject])

LEMMA InputTyping == Spec => []InputType
<1>1. Init => InputType
  BY DEF Init, InputType
<1>2. InputType /\ [Next]_<<subject, input, vars>> => InputType'
  BY DEF InputType, Next, Grow, Converse
<1> QED BY <1>1, <1>2, PTL DEF Spec

\* A conversation under trial is one of Compaction's.
LEMMA TrialsConverse == Spec => CompactionSpec
<1>1. Init => CompactionInit
  BY DEF Init
<1>2. [Next]_<<subject, input, vars>> => [CompactionNext]_vars
  BY DEF Next, Grow, Converse, vars
<1> QED BY <1>1, <1>2, PTL DEF Spec, CompactionSpec

LEMMA TriedConversations == Spec => []HistoryIsWhole
BY TrialsConverse, HistoriesStayWhole, PTL

\* However many texts are deduplicated: a pointer leads to an earlier text that is close
\* enough, and a text without a pointer has no earlier one that is (find_duplicates
\* keeps the closest match, and none that is too far).
THEOREM PointersLeadBack == Spec => []PointersReachKeptText
<1>1. InputType => PointersReachKeptText
  <2> SUFFICES ASSUME InputType, subject = "texts", NEW i \in DOMAIN input
               PROVE  LET pointer == Collapse(input)
                      IN  /\ pointer[i] < i
                          /\ pointer[i] # 0 =>
                               AtThreshold(Similarity(input[i], input[pointer[i]]))
                          /\ pointer[i] = 0 =>
                               \A j \in 1 .. i - 1 :
                                 ~(Similarity(input[i], input[j]).num > 0
                                   /\ AtThreshold(Similarity(input[i], input[j])))
    BY DEF PointersReachKeptText
  <2> DEFINE at == Collapse(input)[i]
             M == Matches(input, i)
             f == [k \in 1 .. i - 1 |-> Similarity(input[i], input[k])]
  <2>1. i \in Nat \ {0} /\ 1 .. i - 1 \subseteq DOMAIN input
    BY DEF InputType
  <2>2. \A k \in DOMAIN input : IsFiniteSet(input[k])
    BY InputAssumption DEF InputType
  <2>3. f \in [1 .. i - 1 -> Fraction]
    BY <2>1, <2>2, SimilarityIsFraction
  <2>4. at = IF M = {} THEN 0 ELSE CHOOSE j \in M : TRUE
    BY DEF Collapse
  <2>5. \A j \in M : j \in 1 .. i - 1 /\ AtThreshold(Similarity(input[i], input[j]))
    BY DEF Matches
  <2>6. ASSUME NEW j \in 1 .. i - 1, Similarity(input[i], input[j]).num > 0,
               AtThreshold(Similarity(input[i], input[j]))
        PROVE  M # {}
    <3>1. i - 1 \in Nat \ {0}
      BY <2>1
    <3>2. PICK best \in 1 .. i - 1 : FirstBest(f, best, i - 1)
      <4> HIDE DEF f
      <4> QED BY <2>3, <3>1, FirstBestExists
    <3>3. f[j] \in Fraction /\ f[best] \in Fraction /\ ~Above(f[j], f[best])
      BY <2>3, <3>2 DEF FirstBest
    <3>4. AtThreshold(f[best]) /\ f[best].num > 0
      <4>1. AtThreshold(f[j]) /\ f[j].num > 0
        BY <2>6
      <4> HIDE DEF f
      <4> QED BY <3>3, <4>1, CloserIsCloseEnough
    <3>5. best \in M
      BY <3>2, <3>4 DEF Matches, FirstBest
    <3> QED BY <3>5
  <2>7. CASE M = {}
    <3>1. at = 0
      BY <2>4, <2>7
    <3> HIDE DEF at, M
    <3> QED BY <2>1, <2>6, <2>7, <3>1 DEF at
  <2>8. CASE M # {}
    <3>1. at \in M
      BY <2>4, <2>8
    <3>2. at \in 1 .. i - 1 /\ AtThreshold(Similarity(input[i], input[at]))
      BY <2>5, <3>1
    <3> HIDE DEF at, M
    <3> QED BY <2>1, <3>2 DEF at
  <2> QED BY <2>7, <2>8
<1> QED BY <1>1, InputTyping, PTL

------------------------------------------------------------------------------
(***************************************************************************)
(* Recursive functions.                                                    *)
(***************************************************************************)
\* B gives what a function is at a place from what it is at places of lower rank.
LooksDown(B, S, V, rank) ==
  /\ B \in [[S -> V] \X S -> V]
  /\ \A f, g \in [S -> V], x \in S :
       (\A y \in S : rank[y] < rank[x] => f[y] = g[y]) => B[<<f, x>>] = B[<<g, x>>]

Follows(f, B, S, V) == f \in [S -> V] /\ \A x \in S : f[x] = B[<<f, x>>]

\* There is a function that is what B gives.
LEMMA Recursion ==
  ASSUME NEW S, NEW V, V # {}, NEW N \in Nat, NEW rank \in [S -> 0 .. N],
         NEW B, LooksDown(B, S, V, rank)
  PROVE  \E f : Follows(f, B, S, V)
<1> USE DEF LooksDown, Follows
<1> DEFINE Defined(f, m) == \A x \in S : rank[x] < m => f[x] = B[<<f, x>>]
           T == {m \in Nat : ~ \E f \in [S -> V] : Defined(f, m)}
<1>1. T = {}
  <2> SUFFICES ASSUME T # {} PROVE FALSE
    OBVIOUS
  <2>1. PICK m \in T : \A k \in T : m <= k
    <3>1. T \in SUBSET Nat
      OBVIOUS
    <3> HIDE DEF T
    <3> QED BY <3>1, LeastPlace
  <2>2. m \in Nat /\ ~ \E f \in [S -> V] : Defined(f, m)
    OBVIOUS
  <2>3. CASE m = 0
    <3>1. PICK v \in V : TRUE
      OBVIOUS
    <3>2. [x \in S |-> v] \in [S -> V]
      BY <3>1
    <3>3. Defined([x \in S |-> v], 0)
      OBVIOUS
    <3> HIDE DEF Defined
    <3> QED BY <2>2, <2>3, <3>2, <3>3
  <2>4. CASE m # 0
    <3>1. m - 1 \in Nat /\ m - 1 \notin T
      <4>1. m - 1 \in Nat /\ ~(m <= m - 1)
        BY <2>2, <2>4
      <4> HIDE DEF T
      <4> QED BY <2>1, <4>1
    <3>2. PICK f \in [S -> V] : Defined(f, m - 1)
      BY <3>1
    <3> DEFINE g == [x \in S |-> IF rank[x] < m - 1 THEN f[x] ELSE B[<<f, x>>]]
    <3>3. g \in [S -> V]
      OBVIOUS
    <3>4. ASSUME NEW x \in S, rank[x] < m PROVE g[x] = B[<<g, x>>]
      <4>1. \A y \in S : rank[y] < rank[x] => f[y] = g[y]
        BY <2>2, <3>4
      <4>2. B[<<f, x>>] = B[<<g, x>>]
        <5> HIDE DEF g
        <5> QED BY <3>3, <4>1
      <4>3. g[x] = B[<<f, x>>]
        BY <3>2
      <4> QED BY <4>2, <4>3
    <3>5. Defined(g, m)
      BY <3>4
    <3> HIDE DEF Defined, g
    <3> QED BY <2>2, <3>3, <3>5
  <2> QED BY <2>3, <2>4
<1>2. N + 1 \in Nat /\ N + 1 \notin T
  <2>1. N + 1 \in Nat
    OBVIOUS
  <2> HIDE DEF T
  <2> QED BY <1>1, <2>1
<1>3. PICK f \in [S -> V] : Defined(f, N + 1)
  BY <1>2
<1>4. \A x \in S : rank[x] < N + 1
  OBVIOUS
<1> QED BY <1>3, <1>4

Hereditary(P, S, rank) ==
  \A x \in S : (\A y \in S : rank[y] < rank[x] => y \in P) => x \in P

\* What holds at a place if it holds at those of lower rank holds everywhere.
LEMMA Induction ==
  ASSUME NEW S, NEW rank \in [S -> Nat], NEW P \in SUBSET S, Hereditary(P, S, rank)
  PROVE  P = S
<1> USE DEF Hereditary
<1> DEFINE T == {rank[x] : x \in S \ P}
<1> SUFFICES ASSUME T # {} PROVE FALSE
  OBVIOUS
<1>1. PICK m \in T : \A k \in T : m <= k
  <2>1. T \in SUBSET Nat
    OBVIOUS
  <2> HIDE DEF T
  <2> QED BY <2>1, LeastPlace
<1>2. PICK x \in S \ P : m = rank[x]
  OBVIOUS
<1>3. ASSUME NEW y \in S, rank[y] < rank[x] PROVE y \in P
  <2>1. rank[y] \in Nat /\ rank[x] \in Nat
    OBVIOUS
  <2>2. rank[y] \notin T
    <3>1. ~(m <= rank[y])
      BY <1>2, <1>3, <2>1
    <3> HIDE DEF T
    <3> QED BY <1>1, <3>1
  <2> QED BY <2>2
<1> QED BY <1>2, <1>3

LEMMA InductionUp ==
  ASSUME NEW n \in Nat, NEW P,
         0 \in P, \A i \in 1 .. n : i - 1 \in P => i \in P
  PROVE  \A i \in 0 .. n : i \in P
<1> DEFINE Q == P \cap 0 .. n
           rank == [i \in 0 .. n |-> i]
<1>1. rank \in [0 .. n -> Nat] /\ Q \in SUBSET (0 .. n)
  OBVIOUS
<1>2. Hereditary(Q, 0 .. n, rank)
  <2> SUFFICES ASSUME NEW i \in 0 .. n, \A j \in 0 .. n : rank[j] < rank[i] => j \in Q
               PROVE  i \in Q
    BY DEF Hereditary
  <2>1. CASE i = 0
    BY <2>1
  <2>2. CASE i # 0
    <3>1. i - 1 \in 0 .. n /\ i - 1 < i /\ i \in 1 .. n
      BY <2>2
    <3> QED BY <3>1
  <2> QED BY <2>1, <2>2
<1>3. Q = 0 .. n
  <2> HIDE DEF Q, rank
  <2> QED BY <1>1, <1>2, Induction
<1> QED BY <1>3

LEMMA InductionDown ==
  ASSUME NEW n \in Nat, NEW P,
         \A i \in 1 .. n : (\A j \in i + 1 .. n : j \in P) => i \in P
  PROVE  \A i \in 1 .. n : i \in P
<1> DEFINE Q == P \cap 1 .. n
           rank == [i \in 1 .. n |-> n - i]
<1>1. rank \in [1 .. n -> Nat] /\ Q \in SUBSET (1 .. n)
  OBVIOUS
<1>2. Hereditary(Q, 1 .. n, rank)
  <2> SUFFICES ASSUME NEW i \in 1 .. n, \A j \in 1 .. n : rank[j] < rank[i] => j \in Q
               PROVE  i \in Q
    BY DEF Hereditary
  <2>1. \A j \in i + 1 .. n : j \in 1 .. n /\ rank[j] < rank[i]
    OBVIOUS
  <2> HIDE DEF rank
  <2> QED BY <2>1
<1>3. Q = 1 .. n
  <2> HIDE DEF Q, rank
  <2> QED BY <1>1, <1>2, Induction
<1> QED BY <1>3

------------------------------------------------------------------------------
(***************************************************************************)
(* Sequences and their ends.                                               *)
(***************************************************************************)
From(s, i) == SubSeq(s, i, Len(s))

LEMMA FromTypes ==
  ASSUME NEW S, NEW s \in Seq(S), NEW i \in 1 .. Len(s) + 1
  PROVE  From(s, i) \in Seq(S) /\ Len(From(s, i)) = Len(s) - i + 1
<1>1. \A j \in i .. Len(s) : s[j] \in S
  OBVIOUS
<1> QED BY <1>1, SubSeqProperties DEF From

LEMMA FromFirst ==
  ASSUME NEW S, NEW s \in Seq(S), NEW i \in 1 .. Len(s)
  PROVE  From(s, i) = <<s[i]>> \o From(s, i + 1)
BY SubSeqRecursiveFirst DEF From

LEMMA FromSlice ==
  ASSUME NEW S, NEW s \in Seq(S), NEW i \in 1 .. Len(s), NEW gram \in Seq(S),
         gram # <<>>, Slice(s, i, Len(gram)) = gram
  PROVE  i + Len(gram) <= Len(s) + 1 /\ From(s, i) = gram \o From(s, i + Len(gram))
<1>1. Len(gram) \in Nat \ {0} /\ Len(s) \in Nat
  BY EmptySeq
<1>2. i + Len(gram) - 1 <= Len(s)
  <2>1. SUFFICES ASSUME ~(i + Len(gram) - 1 <= Len(s)) PROVE FALSE
    OBVIOUS
  <2>2. gram = From(s, i)
    BY <2>1 DEF Slice, From
  <2>3. Len(gram) = Len(s) - i + 1
    <3>1. i \in 1 .. Len(s) + 1
      BY <1>1
    <3> QED BY <2>2, <3>1, FromTypes
  <2> QED BY <1>1, <2>1, <2>3
<1>3. gram = SubSeq(s, i, i + Len(gram) - 1)
  BY <1>2 DEF Slice
<1>4. SubSeq(s, i, i + Len(gram) - 1) \o SubSeq(s, i + Len(gram) - 1 + 1, Len(s))
        = SubSeq(s, i, Len(s))
  <2>1. i \in 1 .. Len(s) + 1 /\ i + Len(gram) - 1 \in i - 1 .. Len(s)
        /\ Len(s) \in i + Len(gram) - 1 .. Len(s)
    BY <1>1, <1>2
  <2> QED BY <2>1, ConcatAdjacentSubSeq
<1>5. i + Len(gram) - 1 + 1 = i + Len(gram)
  BY <1>1
<1>6. SubSeq(s, i + Len(gram) - 1 + 1, Len(s)) = From(s, i + Len(gram))
  BY <1>5 DEF From
<1>7. From(s, i) = gram \o From(s, i + Len(gram))
  BY <1>3, <1>4, <1>6 DEF From
<1>8. i + Len(gram) <= Len(s) + 1
  BY <1>1, <1>2
<1> QED BY <1>7, <1>8

\* From place p on there is a and then b.
Parted(s, p, a, b) ==
  /\ p + Len(a) \in 1 .. Len(s) + 1 /\ From(s, p + Len(a)) = b
  /\ \A j \in 1 .. Len(a) : p + j - 1 \in 1 .. Len(s) /\ s[p + j - 1] = a[j]

LEMMA FromConcat ==
  ASSUME NEW S, NEW s \in Seq(S), NEW a \in Seq(S), NEW b \in Seq(S),
         NEW p \in 1 .. Len(s) + 1, From(s, p) = a \o b
  PROVE  Parted(s, p, a, b)
<1>1. Len(s) - p + 1 = Len(a) + Len(b) /\ Len(a) \in Nat /\ Len(b) \in Nat /\ Len(s) \in Nat
  BY FromTypes, ConcatProperties
<1>2. p + Len(a) \in 1 .. Len(s) + 1
  BY <1>1
<1>3. \A j \in 1 .. Len(a) + Len(b) : s[p + j - 1] = IF j <= Len(a) THEN a[j] ELSE b[j - Len(a)]
  <2> SUFFICES ASSUME NEW j \in 1 .. Len(a) + Len(b)
               PROVE  s[p + j - 1] = IF j <= Len(a) THEN a[j] ELSE b[j - Len(a)]
    OBVIOUS
  <2>1. (a \o b)[j] = IF j <= Len(a) THEN a[j] ELSE b[j - Len(a)]
    BY ConcatProperties
  <2>2. \A k \in p .. Len(s) : s[k] \in S
    OBVIOUS
  <2>3. p \in Int /\ Len(s) \in Int /\ j \in 1 .. Len(s) - p + 1
    BY <1>1
  <2>4. SubSeq(s, p, Len(s))[j] = s[p + j - 1]
    BY <2>2, <2>3, SubSeqProperties
  <2> QED BY <2>1, <2>4 DEF From
<1>4. From(s, p + Len(a)) = b
  <2>1. From(s, p + Len(a)) \in Seq(S) /\ Len(From(s, p + Len(a))) = Len(b)
    BY <1>1, <1>2, FromTypes
  <2>2. \A j \in 1 .. Len(b) : From(s, p + Len(a))[j] = b[j]
    <3> SUFFICES ASSUME NEW j \in 1 .. Len(b) PROVE From(s, p + Len(a))[j] = b[j]
      OBVIOUS
    <3>1. \A k \in p + Len(a) .. Len(s) : s[k] \in S
      BY <1>1
    <3>2. p + Len(a) \in Int /\ Len(s) \in Int /\ j \in 1 .. Len(s) - (p + Len(a)) + 1
      BY <1>1
    <3>3. SubSeq(s, p + Len(a), Len(s))[j] = s[p + Len(a) + j - 1]
      BY <3>1, <3>2, SubSeqProperties
    <3>4. j + Len(a) \in 1 .. Len(a) + Len(b) /\ ~(j + Len(a) <= Len(a))
          /\ j + Len(a) - Len(a) = j /\ p + (j + Len(a)) - 1 = p + Len(a) + j - 1
      BY <1>1
    <3>5. s[p + (j + Len(a)) - 1] = b[j]
      <4>1. \A k \in 1 .. Len(a) + Len(b) : ~(k <= Len(a)) => s[p + k - 1] = b[k - Len(a)]
        BY <1>3
      <4>2. s[p + (j + Len(a)) - 1] = b[j + Len(a) - Len(a)]
        BY <3>4, <4>1
      <4> QED BY <3>4, <4>2
    <3> QED BY <3>3, <3>4, <3>5 DEF From
  <2> QED BY <2>1, <2>2, SeqEqual
<1>5. \A j \in 1 .. Len(a) : p + j - 1 \in 1 .. Len(s) /\ s[p + j - 1] = a[j]
  BY <1>1, <1>3
<1> QED BY <1>2, <1>4, <1>5 DEF Parted

LEMMA BytesAssociate ==
  \A s, t, u \in Seq(Byte) : s \o t \in Seq(Byte) /\ (s \o t) \o u = s \o (t \o u)
BY ConcatProperties, ConcatAssociative

Associates(s, t, u) == (s \o t) \o u = s \o (t \o u)

LEMMA BytesConcat == \A s, t, u \in Seq(Byte) : Associates(s, t, u)
BY BytesAssociate DEF Associates

------------------------------------------------------------------------------
(***************************************************************************)
(* References and escapes.                                                 *)
(***************************************************************************)
\* What _substitute can be given: an index is a byte and not the escape.
Dictionaries ==
  {d \in Seq(Seq(Byte)) : Len(d) < Escape /\ \A k \in DOMAIN d : d[k] # <<>>}

Hits(data, dictionary, i) ==
  {k \in DOMAIN dictionary : Slice(data, i, Len(dictionary[k])) = dictionary[k]}

FirstHit(data, dictionary, i) ==
  CHOOSE k \in Hits(data, dictionary, i) : \A j \in Hits(data, dictionary, i) : k <= j

SubstituteAt(data, dictionary, rest, i) ==
  IF i > Len(data) THEN <<>>
  ELSE IF data[i] = Escape THEN <<Escape, 0>> \o rest[i + 1]
  ELSE IF Hits(data, dictionary, i) = {} THEN <<data[i]>> \o rest[i + 1]
  ELSE <<Escape, FirstHit(data, dictionary, i)>>
       \o rest[i + Len(dictionary[FirstHit(data, dictionary, i)])]

LEMMA ByteFacts ==
  /\ ByteSize \in Nat /\ ByteSize >= 4 /\ Escape \in Byte /\ 0 \in Byte /\ Escape # 0
  /\ Byte \subseteq Nat /\ -1 \notin Byte /\ \A k \in 0 .. Escape : k \in Byte
BY ZclawAssumption DEF Byte, Escape

LEMMA RaisedIsNoData == Raised \notin Seq(Byte)
<1> SUFFICES ASSUME NEW s \in Seq(Byte), s = <<-1>> PROVE FALSE
  BY DEF Raised
<1>1. Len(s) = 1 /\ s[1] = -1
  OBVIOUS
<1>2. 1 \in 1 .. Len(s)
  BY <1>1
<1>3. s[1] \in Byte
  BY <1>2, ElementOfSeq
<1> QED BY <1>1, <1>3, ByteFacts

LEMMA FirstHitHits ==
  ASSUME NEW data \in Seq(Byte), NEW d \in Dictionaries, NEW i, Hits(data, d, i) # {}
  PROVE  FirstHit(data, d, i) \in Hits(data, d, i)
<1>1. Hits(data, d, i) \in SUBSET Nat
  BY DEF Hits, Dictionaries
<1>2. \E k \in Hits(data, d, i) : \A j \in Hits(data, d, i) : k <= j
  BY <1>1, LeastPlace
<1> QED BY <1>2 DEF FirstHit

LEMMA SubstituteUnfolds ==
  ASSUME NEW data, NEW d
  PROVE  Substitute(data, d) =
           (CHOOSE f : f = [i \in 1 .. Len(data) + 1 |-> SubstituteAt(data, d, f, i)])[1]
BY DEF Substitute, SubstituteAt, Hits, FirstHit

\* Entry k stands at place i of the data.
Occurs(data, d, i, k) ==
  /\ k \in DOMAIN d /\ k \in Nat \ {0} /\ k <= Len(d) /\ k \in Byte
  /\ d[k] \in Seq(Byte) /\ Len(d[k]) \in Nat \ {0}
  /\ i + Len(d[k]) \in i + 1 .. Len(data) + 1
  /\ From(data, i) = d[k] \o From(data, i + Len(d[k]))

LEMMA HitAdvances ==
  ASSUME NEW data \in Seq(Byte), NEW d \in Dictionaries, NEW i \in 1 .. Len(data),
         Hits(data, d, i) # {}
  PROVE  Occurs(data, d, i, FirstHit(data, d, i))
<1> DEFINE k == FirstHit(data, d, i)
<1>1. k \in DOMAIN d /\ Slice(data, i, Len(d[k])) = d[k]
  BY FirstHitHits DEF Hits
<1>2. k \in Nat \ {0} /\ k <= Len(d) /\ Len(d) < Escape /\ d[k] \in Seq(Byte) /\ d[k] # <<>>
  BY <1>1 DEF Dictionaries
<1>3. k \in Byte
  BY <1>2, ZclawAssumption DEF Byte, Escape
<1>4. Len(d[k]) \in Nat \ {0}
  BY <1>2, EmptySeq
<1>5. i + Len(d[k]) <= Len(data) + 1 /\ From(data, i) = d[k] \o From(data, i + Len(d[k]))
  BY <1>1, <1>2, FromSlice
<1> HIDE DEF k
<1>6. Occurs(data, d, i, k)
  BY <1>1, <1>2, <1>3, <1>4, <1>5 DEF Occurs
<1> QED BY <1>6 DEF k

LEMMA SubstituteAtType ==
  ASSUME NEW data \in Seq(Byte), NEW d \in Dictionaries, NEW i \in 1 .. Len(data) + 1,
         NEW f, \A j \in i + 1 .. Len(data) + 1 : f[j] \in Seq(Byte)
  PROVE  SubstituteAt(data, d, f, i) \in Seq(Byte)
<1>1. CASE i > Len(data)
  BY <1>1 DEF SubstituteAt
<1>2. CASE ~(i > Len(data))
  <2>0. i \in 1 .. Len(data) /\ i + 1 \in i + 1 .. Len(data) + 1
    BY <1>2
  <2>1. CASE data[i] = Escape
    <3>1. <<Escape, 0>> \in Seq(Byte)
      BY ByteFacts
    <3>2. f[i + 1] \in Seq(Byte)
      BY <2>0
    <3>3. <<Escape, 0>> \o f[i + 1] \in Seq(Byte)
      BY <3>1, <3>2, ConcatProperties
    <3> QED BY <1>2, <2>1, <3>3 DEF SubstituteAt
  <2>2. CASE data[i] # Escape /\ Hits(data, d, i) = {}
    <3>1. <<data[i]>> \in Seq(Byte)
      BY <2>0
    <3>2. f[i + 1] \in Seq(Byte)
      BY <2>0
    <3>3. <<data[i]>> \o f[i + 1] \in Seq(Byte)
      BY <3>1, <3>2, ConcatProperties
    <3> QED BY <1>2, <2>2, <3>3 DEF SubstituteAt
  <2>3. CASE data[i] # Escape /\ Hits(data, d, i) # {}
    <3> DEFINE k == FirstHit(data, d, i)
    <3>1. k \in Byte /\ i + Len(d[k]) \in i + 1 .. Len(data) + 1
      BY <2>0, <2>3, HitAdvances DEF Occurs
    <3>2. <<Escape, k>> \in Seq(Byte)
      BY <3>1, ByteFacts
    <3>3. f[i + Len(d[k])] \in Seq(Byte)
      BY <3>1
    <3>4. <<Escape, k>> \o f[i + Len(d[k])] \in Seq(Byte)
      BY <3>2, <3>3, ConcatProperties
    <3> QED BY <1>2, <2>3, <3>4 DEF SubstituteAt
  <2> QED BY <2>1, <2>2, <2>3
<1> QED BY <1>1, <1>2

LEMMA SubstituteAtDepends ==
  ASSUME NEW data \in Seq(Byte), NEW d \in Dictionaries, NEW i \in 1 .. Len(data) + 1,
         NEW f, NEW g, \A j \in i + 1 .. Len(data) + 1 : f[j] = g[j]
  PROVE  SubstituteAt(data, d, f, i) = SubstituteAt(data, d, g, i)
<1>1. CASE i > Len(data)
  BY <1>1 DEF SubstituteAt
<1>2. CASE ~(i > Len(data))
  <2>1. i \in 1 .. Len(data) /\ f[i + 1] = g[i + 1]
    BY <1>2
  <2>2. CASE Hits(data, d, i) = {}
    BY <1>2, <2>1, <2>2 DEF SubstituteAt
  <2>3. CASE Hits(data, d, i) # {}
    <3> DEFINE k == FirstHit(data, d, i)
    <3>1. i + Len(d[k]) \in i + 1 .. Len(data) + 1
      BY <2>1, <2>3, HitAdvances DEF Occurs
    <3>2. f[i + Len(d[k])] = g[i + Len(d[k])]
      BY <3>1
    <3> QED BY <2>1, <3>2 DEF SubstituteAt
  <2> QED BY <2>2, <2>3
<1> QED BY <1>1, <1>2

\* The recursion of _substitute from every place on.
Substituted(data, d, rest) ==
  /\ rest \in [1 .. Len(data) + 1 -> Seq(Byte)]
  /\ \A i \in 1 .. Len(data) + 1 : rest[i] = SubstituteAt(data, d, rest, i)

LEMMA SubstituteRests ==
  ASSUME NEW data \in Seq(Byte), NEW d \in Dictionaries
  PROVE  \E rest : Substituted(data, d, rest) /\ Substitute(data, d) = rest[1]
<1> DEFINE n == Len(data) + 1
           Solves(f) == f = [i \in 1 .. n |-> SubstituteAt(data, d, f, i)]
           rest == CHOOSE f : Solves(f)
<1>1. n \in Nat \ {0}
  OBVIOUS
<1>2. \E f : Solves(f)
  <2> DEFINE F == [1 .. n -> Seq(Byte)]
             rank == [i \in 1 .. n |-> n - i]
             B == [p \in F \X (1 .. n) |-> SubstituteAt(data, d, p[1], p[2])]
  <2>1. rank \in [1 .. n -> 0 .. n]
    BY <1>1
  <2>2. ASSUME NEW f \in F, NEW i \in 1 .. n
        PROVE  B[<<f, i>>] = SubstituteAt(data, d, f, i) /\ B[<<f, i>>] \in Seq(Byte)
    <3>1. \A j \in i + 1 .. n : f[j] \in Seq(Byte)
      OBVIOUS
    <3>2. SubstituteAt(data, d, f, i) \in Seq(Byte)
      BY <3>1, SubstituteAtType
    <3> HIDE DEF F
    <3> QED BY <3>2
  <2>3. B \in [F \X (1 .. n) -> Seq(Byte)]
    <3> HIDE DEF F, n
    <3>1. \A p \in F \X (1 .. n) : SubstituteAt(data, d, p[1], p[2]) \in Seq(Byte)
      BY <2>2
    <3> QED BY <3>1
  <2>4. ASSUME NEW f \in F, NEW g \in F, NEW i \in 1 .. n,
               \A j \in 1 .. n : rank[j] < rank[i] => f[j] = g[j]
        PROVE  B[<<f, i>>] = B[<<g, i>>]
    <3>1. \A j \in i + 1 .. n : f[j] = g[j]
      BY <1>1, <2>4
    <3>2. SubstituteAt(data, d, f, i) = SubstituteAt(data, d, g, i)
      BY <3>1, SubstituteAtDepends
    <3> HIDE DEF F, B
    <3> QED BY <2>2, <3>2
  <2>5. PICK f \in F : \A i \in 1 .. n : f[i] = B[<<f, i>>]
    <3> HIDE DEF rank, B, n
    <3>1. Seq(Byte) # {}
      BY EmptySeq
    <3>2. LooksDown(B, 1 .. n, Seq(Byte), rank)
      BY <2>3, <2>4 DEF LooksDown
    <3>3. \E f : Follows(f, B, 1 .. n, Seq(Byte))
      BY <1>1, <2>1, <3>1, <3>2, Recursion
    <3> QED BY <3>3 DEF Follows
  <2>6. f = [i \in 1 .. n |-> f[i]] /\ \A i \in 1 .. n : f[i] = SubstituteAt(data, d, f, i)
    BY <2>2, <2>5
  <2> HIDE DEF n
  <2> QED BY <2>6
<1>3. Solves(rest)
  BY <1>2
<1>4. Substitute(data, d) = rest[1]
  BY SubstituteUnfolds
<1>5. \A i \in 1 .. n : rest[i] = SubstituteAt(data, d, rest, i)
  <2> HIDE DEF rest, n
  <2> QED BY <1>3
<1>6. \A i \in 1 .. n : rest[i] \in Seq(Byte)
  <2> DEFINE P == {i \in 1 .. n : rest[i] \in Seq(Byte)}
  <2>1. ASSUME NEW i \in 1 .. n, \A j \in i + 1 .. n : j \in P PROVE i \in P
    <3>1. \A j \in i + 1 .. n : rest[j] \in Seq(Byte)
      BY <2>1
    <3> HIDE DEF rest
    <3>2. SubstituteAt(data, d, rest, i) \in Seq(Byte)
      BY <3>1, SubstituteAtType
    <3> QED BY <1>5, <3>2
  <2> HIDE DEF P, n
  <2>2. \A i \in 1 .. n : i \in P
    BY <1>1, <2>1, InductionDown
  <2> QED BY <2>2 DEF P
<1>7. rest \in [1 .. n -> Seq(Byte)]
  <2> HIDE DEF rest, n
  <2>1. rest = [i \in 1 .. n |-> rest[i]]
    BY <1>3
  <2> QED BY <1>6, <2>1
<1> HIDE DEF rest
<1> QED BY <1>4, <1>5, <1>7 DEF Substituted

DesubstituteAt(body, dictionary, rest, i) ==
  IF i > Len(body) THEN <<>>
  ELSE IF body[i] # Escape
  THEN IF rest[i + 1] = Raised THEN Raised ELSE <<body[i]>> \o rest[i + 1]
  ELSE IF i = Len(body) \/ body[i + 1] > Len(dictionary) \/ rest[i + 2] = Raised
  THEN Raised
  ELSE IF body[i + 1] = 0 THEN <<Escape>> \o rest[i + 2]
  ELSE dictionary[body[i + 1]] \o rest[i + 2]

LEMMA DesubstituteUnfolds ==
  ASSUME NEW body, NEW d
  PROVE  Desubstitute(body, d) =
           (CHOOSE f : f = [i \in 1 .. Len(body) + 2 |-> DesubstituteAt(body, d, f, i)])[1]
BY DEF Desubstitute, DesubstituteAt

LEMMA DesubstituteAtType ==
  ASSUME NEW body \in Seq(Byte), NEW d \in Dictionaries, NEW i \in 1 .. Len(body) + 2,
         NEW f \in [1 .. Len(body) + 2 -> Seq(Int)]
  PROVE  DesubstituteAt(body, d, f, i) \in Seq(Int)
<1>1. CASE i > Len(body)
  BY <1>1 DEF DesubstituteAt
<1>2. CASE ~(i > Len(body))
  <2>1. /\ i \in 1 .. Len(body) /\ f[i + 1] \in Seq(Int) /\ f[i + 2] \in Seq(Int)
        /\ Raised \in Seq(Int) /\ <<body[i]>> \in Seq(Int) /\ <<Escape>> \in Seq(Int)
    <3>1. i \in 1 .. Len(body) /\ i + 1 \in 1 .. Len(body) + 2 /\ i + 2 \in 1 .. Len(body) + 2
      BY <1>2
    <3>2. body[i] \in Byte /\ Byte \subseteq Int /\ Escape \in Byte
      BY <3>1, ByteFacts
    <3>3. body[i] \in Int /\ Escape \in Int
      BY <3>2
    <3>4. Raised \in Seq(Int)
      BY DEF Raised
    <3>5. f[i + 1] \in Seq(Int) /\ f[i + 2] \in Seq(Int)
      BY <3>1
    <3>6. <<body[i]>> \in Seq(Int) /\ <<Escape>> \in Seq(Int)
      BY <3>3
    <3> QED BY <3>1, <3>4, <3>5, <3>6
  <2>2. /\ <<body[i]>> \o f[i + 1] \in Seq(Int)
        /\ <<Escape>> \o f[i + 2] \in Seq(Int)
    BY <2>1, ConcatProperties
  <2>3. ASSUME i # Len(body), ~(body[i + 1] > Len(d)), body[i + 1] # 0
        PROVE  d[body[i + 1]] \o f[i + 2] \in Seq(Int)
    <3>1. body[i + 1] \in Nat
      <4>1. body[i + 1] \in Byte /\ Byte \subseteq Nat
        BY <2>1, <2>3, ByteFacts
      <4> QED BY <4>1
    <3>2. Len(d) \in Nat /\ d \in Seq(Seq(Byte))
      BY DEF Dictionaries
    <3>3. d[body[i + 1]] \in Seq(Byte)
      BY <2>3, <3>1, <3>2
    <3>4. d[body[i + 1]] \in Seq(Int)
      <4>1. Byte \subseteq Int
        BY ByteFacts
      <4> QED BY <3>3, <4>1, SeqMonotonic
    <3> QED BY <2>1, <3>4, ConcatProperties
  <2> QED BY <1>2, <2>1, <2>2, <2>3 DEF DesubstituteAt
<1> QED BY <1>1, <1>2

\* The recursion of _desubstitute from every place on.
Desubstituted(body, d, rest) ==
  \A i \in 1 .. Len(body) + 2 : rest[i] = DesubstituteAt(body, d, rest, i)

LEMMA DesubstituteRests ==
  ASSUME NEW body \in Seq(Byte), NEW d \in Dictionaries
  PROVE  \E rest : Desubstituted(body, d, rest) /\ Desubstitute(body, d) = rest[1]
<1> DEFINE n == Len(body) + 2
           Solves(f) == f = [i \in 1 .. n |-> DesubstituteAt(body, d, f, i)]
           rest == CHOOSE f : Solves(f)
<1>1. n \in Nat \ {0}
  OBVIOUS
<1>2. \E f : Solves(f)
  <2> DEFINE F == [1 .. n -> Seq(Int)]
             rank == [i \in 1 .. n |-> n - i]
             B == [p \in F \X (1 .. n) |-> DesubstituteAt(body, d, p[1], p[2])]
  <2>1. rank \in [1 .. n -> 0 .. n]
    BY <1>1
  <2>2. \A f \in F, i \in 1 .. n :
          B[<<f, i>>] = DesubstituteAt(body, d, f, i) /\ B[<<f, i>>] \in Seq(Int)
    <3> SUFFICES ASSUME NEW f \in F, NEW i \in 1 .. n
                 PROVE  B[<<f, i>>] = DesubstituteAt(body, d, f, i)
                        /\ B[<<f, i>>] \in Seq(Int)
      OBVIOUS
    <3>1. DesubstituteAt(body, d, f, i) \in Seq(Int)
      BY DesubstituteAtType
    <3> HIDE DEF F
    <3> QED BY <3>1
  <2>3. B \in [F \X (1 .. n) -> Seq(Int)]
    <3> HIDE DEF F, n
    <3>1. \A p \in F \X (1 .. n) : DesubstituteAt(body, d, p[1], p[2]) \in Seq(Int)
      BY <2>2
    <3> QED BY <3>1
  <2>4. ASSUME NEW f \in F, NEW g \in F, NEW i \in 1 .. n,
               \A j \in 1 .. n : rank[j] < rank[i] => f[j] = g[j]
        PROVE  B[<<f, i>>] = B[<<g, i>>]
    <3>1. i <= Len(body) => f[i + 1] = g[i + 1] /\ f[i + 2] = g[i + 2]
      BY <1>1, <2>4
    <3>2. DesubstituteAt(body, d, f, i) = DesubstituteAt(body, d, g, i)
      BY <1>1, <3>1 DEF DesubstituteAt
    <3> HIDE DEF F, B
    <3> QED BY <2>2, <3>2
  <2>5. PICK f \in F : \A i \in 1 .. n : f[i] = B[<<f, i>>]
    <3> HIDE DEF rank, B, n
    <3>1. Seq(Int) # {}
      BY EmptySeq
    <3>2. LooksDown(B, 1 .. n, Seq(Int), rank)
      BY <2>3, <2>4 DEF LooksDown
    <3>3. \E f : Follows(f, B, 1 .. n, Seq(Int))
      BY <1>1, <2>1, <3>1, <3>2, Recursion
    <3> QED BY <3>3 DEF Follows
  <2>6. f = [i \in 1 .. n |-> f[i]] /\ \A i \in 1 .. n : f[i] = DesubstituteAt(body, d, f, i)
    BY <2>2, <2>5
  <2> HIDE DEF n
  <2> QED BY <2>6
<1>3. Solves(rest)
  BY <1>2
<1>4. Desubstitute(body, d) = rest[1]
  BY DesubstituteUnfolds
<1>5. \A i \in 1 .. n : rest[i] = DesubstituteAt(body, d, rest, i)
  <2> HIDE DEF rest, n
  <2> QED BY <1>3
<1> HIDE DEF rest
<1> QED BY <1>4, <1>5 DEF Desubstituted

\* What stands for the data from place i on is read as the data from there on.
LEMMA ReadsWhatStandsFor ==
  ASSUME NEW data \in Seq(Byte), NEW d \in Dictionaries, NEW body \in Seq(Byte),
         NEW sub, Substituted(data, d, sub), NEW dec, Desubstituted(body, d, dec),
         NEW i \in 1 .. Len(data) + 1,
         \A j \in i + 1 .. Len(data) + 1, q \in 1 .. Len(body) + 1 :
           From(body, q) = sub[j] => dec[q] = From(data, j),
         NEW p \in 1 .. Len(body) + 1, From(body, p) = sub[i]
  PROVE  dec[p] = From(data, i)
<1>1. /\ dec[p] = DesubstituteAt(body, d, dec, p) /\ sub[i] = SubstituteAt(data, d, sub, i)
      /\ Len(body) \in Nat /\ Len(data) \in Nat
  BY DEF Substituted, Desubstituted
<1>2. \A j \in i + 1 .. Len(data) + 1 : sub[j] \in Seq(Byte)
  BY DEF Substituted
<1>3. \A j \in 1 .. Len(data) + 1 : From(data, j) \in Seq(Byte) /\ From(data, j) # Raised
  <2> SUFFICES ASSUME NEW j \in 1 .. Len(data) + 1
               PROVE From(data, j) \in Seq(Byte) /\ From(data, j) # Raised
    OBVIOUS
  <2>1. From(data, j) \in Seq(Byte)
    BY FromTypes
  <2> QED BY <2>1, RaisedIsNoData
<1>4. CASE i > Len(data)
  <2>1. From(body, p) = <<>>
    BY <1>1, <1>4 DEF SubstituteAt
  <2>2. p > Len(body)
    <3>1. Len(From(body, p)) = Len(body) - p + 1
      BY FromTypes
    <3> QED BY <1>1, <2>1, <3>1
  <2>3. dec[p] = <<>>
    BY <1>1, <2>2 DEF DesubstituteAt
  <2>4. From(data, i) = <<>>
    <3>1. i \in Int /\ Len(data) \in Int /\ Len(data) < i
      BY <1>1, <1>4
    <3> QED BY <3>1, SubSeqEmpty DEF From
  <2> QED BY <2>3, <2>4
<1>5. CASE ~(i > Len(data)) /\ data[i] = Escape
  <2>1. i \in 1 .. Len(data) /\ i + 1 \in i + 1 .. Len(data) + 1
    BY <1>5
  <2> DEFINE a == <<Escape, 0>>
  <2>2. a \in Seq(Byte) /\ Len(a) = 2 /\ a[1] = Escape /\ a[2] = 0
    BY ByteFacts
  <2>3. From(body, p) = a \o sub[i + 1] /\ sub[i + 1] \in Seq(Byte)
    BY <1>1, <1>2, <1>5, <2>1 DEF SubstituteAt
  <2> HIDE DEF a
  <2>4. Parted(body, p, a, sub[i + 1])
    BY <2>2, <2>3, FromConcat
  <2>5. p + 2 \in 1 .. Len(body) + 1 /\ From(body, p + 2) = sub[i + 1]
    BY <2>2, <2>4 DEF Parted
  <2>6. p + 1 <= Len(body) /\ body[p] = Escape /\ body[p + 1] = 0
    <3>1. \A k \in {1, 2} : p + k - 1 \in 1 .. Len(body) /\ body[p + k - 1] = a[k]
      BY <2>2, <2>4 DEF Parted
    <3>2. p + 1 - 1 = p /\ p + 2 - 1 = p + 1
      OBVIOUS
    <3> QED BY <2>2, <3>1, <3>2
  <2>7. dec[p + 2] = From(data, i + 1) /\ dec[p + 2] # Raised
    BY <1>3, <2>1, <2>5
  <2>8. dec[p] = <<Escape>> \o dec[p + 2]
    <3>1. ~(0 > Len(d))
      BY DEF Dictionaries
    <3> QED BY <1>1, <2>6, <2>7, <3>1 DEF DesubstituteAt
  <2>9. From(data, i) = <<data[i]>> \o From(data, i + 1)
    BY <2>1, FromFirst
  <2> QED BY <1>5, <2>7, <2>8, <2>9
<1>6. CASE ~(i > Len(data)) /\ data[i] # Escape /\ Hits(data, d, i) = {}
  <2>1. i \in 1 .. Len(data) /\ i + 1 \in i + 1 .. Len(data) + 1 /\ data[i] \in Byte
    BY <1>6
  <2> DEFINE a == <<data[i]>>
  <2>2. a \in Seq(Byte) /\ Len(a) = 1 /\ a[1] = data[i]
    BY <2>1
  <2>3. From(body, p) = a \o sub[i + 1] /\ sub[i + 1] \in Seq(Byte)
    BY <1>1, <1>2, <1>6, <2>1 DEF SubstituteAt
  <2> HIDE DEF a
  <2>4. Parted(body, p, a, sub[i + 1])
    BY <2>2, <2>3, FromConcat
  <2>5. p + 1 \in 1 .. Len(body) + 1 /\ From(body, p + 1) = sub[i + 1]
    BY <2>2, <2>4 DEF Parted
  <2>6. p <= Len(body) /\ body[p] = data[i]
    <3>1. p + 1 - 1 \in 1 .. Len(body) /\ body[p + 1 - 1] = a[1]
      BY <2>2, <2>4 DEF Parted
    <3>2. p + 1 - 1 = p
      OBVIOUS
    <3> QED BY <2>2, <3>1, <3>2
  <2>7. dec[p + 1] = From(data, i + 1) /\ dec[p + 1] # Raised
    BY <1>3, <2>1, <2>5
  <2>8. dec[p] = <<data[i]>> \o dec[p + 1]
    BY <1>1, <1>6, <2>6, <2>7 DEF DesubstituteAt
  <2>9. From(data, i) = <<data[i]>> \o From(data, i + 1)
    BY <2>1, FromFirst
  <2> QED BY <2>7, <2>8, <2>9
<1>7. CASE ~(i > Len(data)) /\ data[i] # Escape /\ Hits(data, d, i) # {}
  <2> DEFINE k == FirstHit(data, d, i)
             a == <<Escape, k>>
  <2>0. i \in 1 .. Len(data) /\ Occurs(data, d, i, k)
    BY <1>7, HitAdvances
  <2>1. /\ k \in DOMAIN d /\ k \in Nat \ {0} /\ k <= Len(d)
        /\ k \in Byte /\ i + Len(d[k]) \in i + 1 .. Len(data) + 1
        /\ From(data, i) = d[k] \o From(data, i + Len(d[k]))
    BY <2>0 DEF Occurs
  <2>2. From(body, p) = a \o sub[i + Len(d[k])] /\ sub[i + Len(d[k])] \in Seq(Byte)
    BY <1>1, <1>2, <1>7, <2>1 DEF SubstituteAt
  <2> HIDE DEF k
  <2>3. a \in Seq(Byte) /\ Len(a) = 2 /\ a[1] = Escape /\ a[2] = k
    BY <2>1, ByteFacts
  <2> HIDE DEF a
  <2>4. Parted(body, p, a, sub[i + Len(d[k])])
    BY <2>2, <2>3, FromConcat
  <2>5. p + 2 \in 1 .. Len(body) + 1 /\ From(body, p + 2) = sub[i + Len(d[k])]
    BY <2>3, <2>4 DEF Parted
  <2>6. p + 1 <= Len(body) /\ body[p] = Escape /\ body[p + 1] = k
    <3>1. \A l \in {1, 2} : p + l - 1 \in 1 .. Len(body) /\ body[p + l - 1] = a[l]
      BY <2>3, <2>4 DEF Parted
    <3>2. p + 1 - 1 = p /\ p + 2 - 1 = p + 1
      OBVIOUS
    <3> QED BY <2>3, <3>1, <3>2
  <2>7. dec[p + 2] = From(data, i + Len(d[k])) /\ dec[p + 2] # Raised
    <3>1. i + Len(d[k]) \in 1 .. Len(data) + 1
      BY <2>1
    <3> QED BY <1>3, <2>1, <2>5, <3>1
  <2>8. dec[p] = d[k] \o dec[p + 2]
    <3>1. ~(k > Len(d)) /\ k # 0 /\ ~(p > Len(body)) /\ p # Len(body)
      <4>1. Len(d) \in Nat
        BY DEF Dictionaries
      <4> QED BY <1>1, <2>1, <2>6, <4>1
    <3> HIDE DEF k
    <3> QED BY <1>1, <2>6, <2>7, <3>1 DEF DesubstituteAt
  <2> QED BY <2>1, <2>7, <2>8
<1> QED BY <1>4, <1>5, <1>6, <1>7

\* Whatever the dictionary: what is substituted comes back.
LEMMA SubstitutionIsExact ==
  ASSUME NEW data \in Seq(Byte), NEW d \in Dictionaries
  PROVE  /\ Substitute(data, d) \in Seq(Byte)
         /\ Desubstitute(Substitute(data, d), d) = data
<1>1. PICK sub : Substituted(data, d, sub) /\ Substitute(data, d) = sub[1]
  BY SubstituteRests
<1> DEFINE body == sub[1]
           n == Len(data) + 1
<1>2. body \in Seq(Byte) /\ n \in Nat /\ 1 \in 1 .. n /\ Len(body) \in Nat
  BY <1>1 DEF Substituted
<1>3. PICK dec : Desubstituted(body, d, dec) /\ Desubstitute(body, d) = dec[1]
  BY <1>2, DesubstituteRests
<1> DEFINE P == {i \in 1 .. n : \A q \in 1 .. Len(body) + 1 :
                   From(body, q) = sub[i] => dec[q] = From(data, i)}
<1>4. ASSUME NEW i \in 1 .. n, \A j \in i + 1 .. n : j \in P PROVE i \in P
  <2>1. ASSUME NEW q \in 1 .. Len(body) + 1, From(body, q) = sub[i]
        PROVE  dec[q] = From(data, i)
    <3>1. \A j \in i + 1 .. n, r \in 1 .. Len(body) + 1 :
            From(body, r) = sub[j] => dec[r] = From(data, j)
      BY <1>4
    <3> HIDE DEF body
    <3> QED BY <1>1, <1>2, <1>3, <2>1, <3>1, ReadsWhatStandsFor
  <2> QED BY <2>1
<1>5. \A i \in 1 .. n : i \in P
  <2> HIDE DEF P, n
  <2> QED BY <1>2, <1>4, InductionDown
<1>6. From(body, 1) = sub[1] /\ From(data, 1) = data
  BY <1>2, SubSeqFull DEF From
<1>7. dec[1] = data
  <2>1. 1 \in 1 .. Len(body) + 1 /\ 1 \in P
    BY <1>2, <1>5
  <2> HIDE DEF body
  <2> QED BY <1>6, <2>1
<1> QED BY <1>1, <1>2, <1>3, <1>7

------------------------------------------------------------------------------
(***************************************************************************)
(* Numbers in the base Half, the dictionary in front of the body.          *)
(***************************************************************************)
Half == ByteSize \div 2

LEMMA HalfFacts == Half \in Nat /\ Half >= 2 /\ 2 * Half = ByteSize
BY ZclawAssumption DEF Half

LEMMA Division ==
  ASSUME NEW v \in Nat, NEW h \in Nat, h >= 2
  PROVE  /\ v % h \in Nat /\ v % h < h /\ v \div h \in Nat
         /\ v = h * (v \div h) + (v % h)
OBVIOUS

LEMMA Quotient ==
  ASSUME NEW v \in Nat, NEW h \in Nat, h >= 2, v >= h
  PROVE  v \div h < v
<1> DEFINE q == v \div h
<1>1. q \in Nat /\ v >= h * q
  <2>1. v % h \in Nat /\ v = h * q + (v % h) /\ q \in Nat
    BY Division
  <2>2. h * q \in Nat
    BY <2>1
  <2> QED BY <2>1, <2>2
<1> HIDE DEF q
<1>2. h * q >= 2 * q
  <2>1. h * q = (h - 2) * q + 2 * q
    BY <1>1
  <2>2. (h - 2) * q \in Nat
    <3>1. h - 2 \in Nat
      OBVIOUS
    <3> QED BY <1>1, <3>1
  <2> QED BY <1>1, <2>1, <2>2
<1>3. q < v
  <2>1. CASE q = 0
    BY <2>1
  <2>2. CASE q # 0
    BY <1>1, <1>2, <2>2
  <2> QED BY <2>1, <2>2
<1> QED BY <1>3 DEF q

WriteAt(f, v) == IF v < Half THEN <<v>> ELSE <<Half + (v % Half)>> \o f[v \div Half]

Written(value, f) ==
  f \in [0 .. value -> Seq(Byte)] /\ \A v \in 0 .. value : f[v] = WriteAt(f, v)

LEMMA VarintUnfolds ==
  ASSUME NEW value
  PROVE  Varint(value) = (CHOOSE f : f = [v \in 0 .. value |-> WriteAt(f, v)])[value]
BY DEF Varint, WriteAt, Half

LEMMA WriteAtType ==
  ASSUME NEW v \in Nat, NEW f, \A u \in 0 .. v - 1 : f[u] \in Seq(Byte)
  PROVE  WriteAt(f, v) \in Seq(Byte)
<1>1. CASE v < Half
  <2>1. v \in Byte
    BY <1>1, HalfFacts DEF Byte
  <2>2. <<v>> \in Seq(Byte)
    BY <2>1
  <2> QED BY <1>1, <2>2 DEF WriteAt
<1>2. CASE ~(v < Half)
  <2>1. v % Half \in Nat /\ v % Half < Half /\ v \div Half \in Nat /\ v \div Half < v
    BY <1>2, HalfFacts, Division, Quotient
  <2>2. Half + (v % Half) \in Byte
    BY <2>1, HalfFacts DEF Byte
  <2>3. <<Half + (v % Half)>> \in Seq(Byte)
    BY <2>2
  <2>4. f[v \div Half] \in Seq(Byte)
    BY <2>1
  <2>5. <<Half + (v % Half)>> \o f[v \div Half] \in Seq(Byte)
    BY <2>3, <2>4, ConcatProperties
  <2> QED BY <1>2, <2>5 DEF WriteAt
<1> QED BY <1>1, <1>2

LEMMA VarintWrites ==
  ASSUME NEW value \in Nat
  PROVE  \E f : Written(value, f) /\ Varint(value) = f[value]
<1> DEFINE S == 0 .. value
           Solves(f) == f = [v \in S |-> WriteAt(f, v)]
           w == CHOOSE f : Solves(f)
<1>1. \E f : Solves(f)
  <2> DEFINE F == [S -> Seq(Byte)]
             rank == [v \in S |-> v]
             B == [p \in F \X S |-> WriteAt(p[1], p[2])]
  <2>1. rank \in [S -> 0 .. value]
    OBVIOUS
  <2>2. \A f \in F, v \in S : B[<<f, v>>] = WriteAt(f, v) /\ B[<<f, v>>] \in Seq(Byte)
    <3> SUFFICES ASSUME NEW f \in F, NEW v \in S
                 PROVE  B[<<f, v>>] = WriteAt(f, v) /\ B[<<f, v>>] \in Seq(Byte)
      OBVIOUS
    <3>1. \A u \in 0 .. v - 1 : f[u] \in Seq(Byte)
      OBVIOUS
    <3>2. WriteAt(f, v) \in Seq(Byte)
      BY <3>1, WriteAtType
    <3> HIDE DEF F, S
    <3> QED BY <3>2
  <2>3. B \in [F \X S -> Seq(Byte)]
    <3> HIDE DEF F, S
    <3>1. \A p \in F \X S : WriteAt(p[1], p[2]) \in Seq(Byte)
      BY <2>2
    <3> QED BY <3>1
  <2>4. ASSUME NEW f \in F, NEW g \in F, NEW v \in S,
               \A u \in S : rank[u] < rank[v] => f[u] = g[u]
        PROVE  B[<<f, v>>] = B[<<g, v>>]
    <3>1. v >= Half => f[v \div Half] = g[v \div Half]
      <4>1. SUFFICES ASSUME v >= Half PROVE f[v \div Half] = g[v \div Half]
        OBVIOUS
      <4>2. v \in Nat /\ v \div Half \in Nat /\ v \div Half < v
        <5>1. v \in Nat
          OBVIOUS
        <5> QED BY <4>1, <5>1, HalfFacts, Division, Quotient
      <4>3. v \div Half \in S
        BY <4>2
      <4> QED BY <2>4, <4>2, <4>3
    <3>2. WriteAt(f, v) = WriteAt(g, v)
      BY <3>1, HalfFacts DEF WriteAt
    <3> HIDE DEF F, B, S
    <3> QED BY <2>2, <3>2
  <2>5. PICK f \in F : \A v \in S : f[v] = B[<<f, v>>]
    <3> HIDE DEF rank, B, S
    <3>1. Seq(Byte) # {}
      BY EmptySeq
    <3>2. LooksDown(B, S, Seq(Byte), rank)
      BY <2>3, <2>4 DEF LooksDown
    <3>3. \E f : Follows(f, B, S, Seq(Byte))
      BY <2>1, <3>1, <3>2, Recursion
    <3> QED BY <3>3 DEF Follows
  <2>6. f = [v \in S |-> f[v]] /\ \A v \in S : f[v] = WriteAt(f, v)
    BY <2>2, <2>5
  <2> HIDE DEF S
  <2> QED BY <2>6
<1>2. Solves(w)
  BY <1>1
<1>3. Varint(value) = w[value]
  BY VarintUnfolds
<1> HIDE DEF w
<1>4. \A v \in S : w[v] = WriteAt(w, v)
  <2> HIDE DEF S
  <2> QED BY <1>2
<1>5. \A v \in S : w[v] \in Seq(Byte)
  <2> DEFINE P == {v \in S : w[v] \in Seq(Byte)}
             rank == [v \in S |-> v]
  <2>1. ASSUME NEW v \in S, \A u \in S : rank[u] < rank[v] => u \in P PROVE v \in P
    <3>1. \A u \in 0 .. v - 1 : w[u] \in Seq(Byte)
      BY <2>1
    <3>2. WriteAt(w, v) \in Seq(Byte)
      BY <3>1, WriteAtType
    <3> QED BY <1>4, <3>2
  <2>2. rank \in [S -> Nat] /\ P \in SUBSET S
    OBVIOUS
  <2> HIDE DEF P, S, rank
  <2>3. P = S
    BY <2>1, <2>2, Induction DEF Hereditary
  <2> QED BY <2>3 DEF P
<1>6. w \in [S -> Seq(Byte)]
  <2> HIDE DEF S
  <2>1. w = [v \in S |-> w[v]]
    BY <1>2
  <2> QED BY <1>5, <2>1
<1> QED BY <1>3, <1>4, <1>6 DEF Written

Number == [value : Int, next : Int]

ReadAt(buffer, f, i) ==
  IF i > Len(buffer) THEN [value |-> 0, next |-> 0]
  ELSE IF buffer[i] < Half THEN [value |-> buffer[i], next |-> i + 1]
  ELSE [f[i + 1] EXCEPT !.value = buffer[i] - Half + Half * f[i + 1].value]

LEMMA ReadVarintUnfolds ==
  ASSUME NEW buffer, NEW start
  PROVE  ReadVarint(buffer, start) =
           (CHOOSE f : f = [i \in 1 .. Len(buffer) + 1 |-> ReadAt(buffer, f, i)])[start]
BY DEF ReadVarint, ReadAt, Half

LEMMA ReadAtType ==
  ASSUME NEW buffer \in Seq(Byte), NEW i \in 1 .. Len(buffer) + 1,
         NEW f, i <= Len(buffer) => f[i + 1] \in Number
  PROVE  ReadAt(buffer, f, i) \in Number
<1>1. CASE i > Len(buffer)
  BY <1>1 DEF ReadAt, Number
<1>2. CASE ~(i > Len(buffer))
  <2>1. buffer[i] \in Int /\ i \in Int
    <3>1. buffer[i] \in Byte
      BY <1>2
    <3>2. buffer[i] \in Nat
      BY <3>1, ByteFacts
    <3> QED BY <3>2
  <2>2. f[i + 1] \in Number
    BY <1>2
  <2>3. f[i + 1].value \in Int /\ f[i + 1].next \in Int
    BY <2>2 DEF Number
  <2>4. Half * f[i + 1].value \in Int
    BY <2>3, HalfFacts
  <2>5. [f[i + 1] EXCEPT !.value = buffer[i] - Half + Half * f[i + 1].value] \in Number
    <3> DEFINE x == buffer[i] - Half + Half * f[i + 1].value
    <3>1. x \in Int
      BY <2>1, <2>4, HalfFacts
    <3> HIDE DEF x
    <3>2. [f[i + 1] EXCEPT !.value = x] \in Number
      BY <2>2, <3>1 DEF Number
    <3> QED BY <3>2 DEF x
  <2>6. [value |-> buffer[i], next |-> i + 1] \in Number
    BY <2>1 DEF Number
  <2> QED BY <1>2, <2>5, <2>6 DEF ReadAt
<1> QED BY <1>1, <1>2

LEMMA ReadRests ==
  ASSUME NEW buffer \in Seq(Byte)
  PROVE  \E f : /\ \A i \in 1 .. Len(buffer) + 1 : f[i] = ReadAt(buffer, f, i)
                /\ \A i : ReadVarint(buffer, i) = f[i]
<1> DEFINE n == Len(buffer) + 1
           Solves(f) == f = [i \in 1 .. n |-> ReadAt(buffer, f, i)]
           rest == CHOOSE f : Solves(f)
<1>1. n \in Nat \ {0}
  OBVIOUS
<1>2. \E f : Solves(f)
  <2> DEFINE F == [1 .. n -> Number]
             rank == [i \in 1 .. n |-> n - i]
             B == [p \in F \X (1 .. n) |-> ReadAt(buffer, p[1], p[2])]
  <2>1. rank \in [1 .. n -> 0 .. n]
    BY <1>1
  <2>2. \A f \in F, i \in 1 .. n :
          B[<<f, i>>] = ReadAt(buffer, f, i) /\ B[<<f, i>>] \in Number
    <3> SUFFICES ASSUME NEW f \in F, NEW i \in 1 .. n
                 PROVE  B[<<f, i>>] = ReadAt(buffer, f, i) /\ B[<<f, i>>] \in Number
      OBVIOUS
    <3>1. i <= Len(buffer) => f[i + 1] \in Number
      BY <1>1
    <3>2. ReadAt(buffer, f, i) \in Number
      BY <3>1, ReadAtType
    <3> HIDE DEF F
    <3> QED BY <3>2
  <2>3. B \in [F \X (1 .. n) -> Number]
    <3> HIDE DEF F, n
    <3>1. \A p \in F \X (1 .. n) : ReadAt(buffer, p[1], p[2]) \in Number
      BY <2>2
    <3> QED BY <3>1
  <2>4. ASSUME NEW f \in F, NEW g \in F, NEW i \in 1 .. n,
               \A j \in 1 .. n : rank[j] < rank[i] => f[j] = g[j]
        PROVE  B[<<f, i>>] = B[<<g, i>>]
    <3>1. i <= Len(buffer) => f[i + 1] = g[i + 1]
      BY <1>1, <2>4
    <3>2. ReadAt(buffer, f, i) = ReadAt(buffer, g, i)
      BY <1>1, <3>1 DEF ReadAt
    <3> HIDE DEF F, B
    <3> QED BY <2>2, <3>2
  <2>5. PICK f \in F : \A i \in 1 .. n : f[i] = B[<<f, i>>]
    <3> HIDE DEF rank, B, n
    <3>1. Number # {}
      <4>1. [value |-> 0, next |-> 0] \in Number
        BY DEF Number
      <4> QED BY <4>1
    <3>2. LooksDown(B, 1 .. n, Number, rank)
      BY <2>3, <2>4 DEF LooksDown
    <3>3. \E f : Follows(f, B, 1 .. n, Number)
      BY <1>1, <2>1, <3>1, <3>2, Recursion
    <3> QED BY <3>3 DEF Follows
  <2>6. f = [i \in 1 .. n |-> f[i]] /\ \A i \in 1 .. n : f[i] = ReadAt(buffer, f, i)
    BY <2>2, <2>5
  <2> HIDE DEF n
  <2> QED BY <2>6
<1>3. Solves(rest)
  BY <1>2
<1>4. \A i : ReadVarint(buffer, i) = rest[i]
  BY ReadVarintUnfolds
<1> HIDE DEF rest
<1>5. \A i \in 1 .. n : rest[i] = ReadAt(buffer, rest, i)
  <2> HIDE DEF n
  <2> QED BY <1>3
<1> QED BY <1>4, <1>5

\* A number written anywhere before `after` is read back, up to where it ends.
ReadBack(buffer, rest, w, after, v) ==
  \A q \in 1 .. Len(buffer) + 1 :
    From(buffer, q) = w[v] \o after => rest[q] = [value |-> v, next |-> q + Len(w[v])]

LEMMA ReadsWhatIsWritten ==
  ASSUME NEW buffer \in Seq(Byte), NEW rest,
         \A i \in 1 .. Len(buffer) + 1 : rest[i] = ReadAt(buffer, rest, i),
         NEW value \in Nat, NEW w, Written(value, w), NEW after \in Seq(Byte),
         NEW v \in 0 .. value, \A u \in 0 .. v - 1 : ReadBack(buffer, rest, w, after, u)
  PROVE  ReadBack(buffer, rest, w, after, v)
<1> SUFFICES ASSUME NEW p \in 1 .. Len(buffer) + 1, From(buffer, p) = w[v] \o after
             PROVE  rest[p] = [value |-> v, next |-> p + Len(w[v])]
  BY DEF ReadBack
<1>1. w[v] = WriteAt(w, v) /\ rest[p] = ReadAt(buffer, rest, p) /\ v \in Nat /\ p \in Nat
  BY DEF Written
<1>2. CASE v < Half
  <2>1. w[v] = <<v>> /\ v \in Byte
    BY <1>1, <1>2, HalfFacts DEF WriteAt, Byte
  <2> DEFINE a == <<v>>
  <2>2. a \in Seq(Byte) /\ Len(a) = 1 /\ a[1] = v
    BY <2>1
  <2>3. From(buffer, p) = a \o after
    BY <2>1
  <2> HIDE DEF a
  <2>4. Parted(buffer, p, a, after)
    BY <2>2, <2>3, FromConcat
  <2>5. p + 1 - 1 \in 1 .. Len(buffer) /\ buffer[p + 1 - 1] = a[1]
    BY <2>2, <2>4 DEF Parted
  <2>6. ~(p > Len(buffer)) /\ buffer[p] = v
    <3>1. p + 1 - 1 = p
      OBVIOUS
    <3> QED BY <2>2, <2>5, <3>1
  <2>7. Len(w[v]) = 1
    BY <2>1
  <2> QED BY <1>1, <1>2, <2>6, <2>7 DEF ReadAt
<1>3. CASE ~(v < Half)
  <2> DEFINE q == v \div Half
             x == Half + (v % Half)
             a == <<x>>
  <2>1. /\ v % Half \in Nat /\ v % Half < Half /\ q \in Nat /\ q < v
        /\ v = Half * q + (v % Half)
    <3>1. v >= Half
      BY <1>1, <1>3, HalfFacts
    <3>2. v \div Half < v
      BY <1>1, <3>1, HalfFacts, Quotient
    <3> QED BY <1>1, <3>2, HalfFacts, Division
  <2>2. x \in Byte /\ x \in Nat /\ x >= Half
    BY <2>1, HalfFacts DEF Byte
  <2>3. w[v] = a \o w[q]
    BY <1>1, <1>3 DEF WriteAt
  <2>4. q \in 0 .. v - 1 /\ w[q] \in Seq(Byte)
    <3> HIDE DEF q
    <3>1. q \in 0 .. v - 1 /\ q \in 0 .. value
      BY <1>1, <2>1
    <3> QED BY <3>1 DEF Written
  <2>5. Half * q \in Nat /\ x - Half + Half * q = v
    <3> HIDE DEF q
    <3>0. \A m, n \in Nat : m * n \in Nat
      OBVIOUS
    <3>1. Half * q \in Nat
      BY <2>1, <3>0, HalfFacts
    <3> QED BY <1>1, <2>1, <3>1, HalfFacts
  <2> HIDE DEF x, q
  <2>6. a \in Seq(Byte) /\ Len(a) = 1 /\ a[1] = x
    BY <2>2
  <2> HIDE DEF a
  <2>7. From(buffer, p) = a \o (w[q] \o after) /\ w[q] \o after \in Seq(Byte)
    <3>1. (a \o w[q]) \o after = a \o (w[q] \o after)
      BY <2>4, <2>6, BytesAssociate, Zenon
    <3>2. w[q] \o after \in Seq(Byte)
      BY <2>4, ConcatProperties
    <3> QED BY <2>3, <3>1, <3>2
  <2>8. Parted(buffer, p, a, w[q] \o after)
    BY <2>6, <2>7, FromConcat
  <2>9. p + 1 - 1 \in 1 .. Len(buffer) /\ buffer[p + 1 - 1] = a[1]
    BY <2>6, <2>8 DEF Parted
  <2>10. ~(p > Len(buffer)) /\ buffer[p] = x
    <3>1. p + 1 - 1 = p
      OBVIOUS
    <3> QED BY <2>6, <2>9, <3>1
  <2>11. p + 1 \in 1 .. Len(buffer) + 1 /\ From(buffer, p + 1) = w[q] \o after
    BY <2>6, <2>8 DEF Parted
  <2>12. rest[p + 1] = [value |-> q, next |-> p + 1 + Len(w[q])]
    BY <2>4, <2>11 DEF ReadBack
  <2>13. Len(w[v]) = 1 + Len(w[q]) /\ Len(w[q]) \in Nat
    <3>1. Len(a \o w[q]) = Len(a) + Len(w[q])
      BY <2>4, <2>6, ConcatProperties
    <3>2. Len(w[q]) \in Nat
      BY <2>4
    <3> QED BY <2>3, <2>6, <3>1, <3>2
  <2>14. ReadAt(buffer, rest, p)
           = [rest[p + 1] EXCEPT !.value = x - Half + Half * rest[p + 1].value]
    BY <2>2, <2>10, HalfFacts DEF ReadAt
  <2>15. rest[p + 1].value = q
    BY <2>12
  <2>16. rest[p] = [value |-> v, next |-> p + 1 + Len(w[q])]
    BY <1>1, <2>5, <2>12, <2>14, <2>15
  <2>17. p + 1 + Len(w[q]) = p + Len(w[v])
    <3>1. \A k, m, n \in Nat : m = 1 + n => k + 1 + n = k + m
      OBVIOUS
    <3>2. p \in Nat /\ Len(w[v]) \in Nat
      BY <1>1, <2>13
    <3> QED BY <2>13, <3>1, <3>2
  <2> QED BY <2>16, <2>17
<1> QED BY <1>2, <1>3

\* _read_varint inverts _write_varint.
LEMMA VarintIsExact ==
  ASSUME NEW value \in Nat, NEW buffer \in Seq(Byte), NEW after \in Seq(Byte),
         NEW p \in 1 .. Len(buffer) + 1, From(buffer, p) = Varint(value) \o after
  PROVE  ReadVarint(buffer, p) = [value |-> value, next |-> p + Len(Varint(value))]
<1>1. PICK w : Written(value, w) /\ Varint(value) = w[value]
  BY VarintWrites
<1>2. PICK rest : /\ \A i \in 1 .. Len(buffer) + 1 : rest[i] = ReadAt(buffer, rest, i)
                  /\ \A i : ReadVarint(buffer, i) = rest[i]
  BY ReadRests
<1> DEFINE S == 0 .. value
           rank == [v \in S |-> v]
           P == {v \in S : ReadBack(buffer, rest, w, after, v)}
<1>3. ASSUME NEW v \in S, \A u \in S : rank[u] < rank[v] => u \in P PROVE v \in P
  <2>1. ASSUME NEW u \in 0 .. v - 1 PROVE ReadBack(buffer, rest, w, after, u)
    <3>1. u \in S /\ rank[u] < rank[v]
      OBVIOUS
    <3> HIDE DEF rank, S
    <3> QED BY <1>3, <3>1
  <2>2. ReadBack(buffer, rest, w, after, v)
    BY <1>1, <1>2, <2>1, ReadsWhatIsWritten
  <2> QED BY <2>2
<1>4. rank \in [S -> Nat] /\ P \in SUBSET S
  OBVIOUS
<1>5. P = S
  <2> HIDE DEF P, S, rank
  <2> QED BY <1>3, <1>4, Induction DEF Hereditary
<1>6. ReadBack(buffer, rest, w, after, value)
  <2>1. value \in S
    OBVIOUS
  <2> HIDE DEF S
  <2> QED BY <1>5, <2>1
<1>7. rest[p] = [value |-> value, next |-> p + Len(w[value])]
  BY <1>1, <1>6 DEF ReadBack
<1> QED BY <1>1, <1>2, <1>7

LEMMA VarintType ==
  ASSUME NEW value \in Nat
  PROVE  Varint(value) \in Seq(Byte) /\ Len(Varint(value)) \in Nat \ {0}
<1>1. PICK w : Written(value, w) /\ Varint(value) = w[value]
  BY VarintWrites
<1>2. w[value] \in Seq(Byte) /\ w[value] = WriteAt(w, value)
  BY <1>1 DEF Written
<1>3. w[value] # <<>>
  <2>1. CASE value < Half
    BY <1>2, <2>1 DEF WriteAt
  <2>2. CASE ~(value < Half)
    <3>1. value \div Half \in 0 .. value
      BY <2>2, HalfFacts, Division, Quotient
    <3>2. w[value \div Half] \in Seq(Byte)
      BY <1>1, <3>1 DEF Written
    <3> DEFINE a == <<Half + (value % Half)>>
    <3>3. w[value] = a \o w[value \div Half]
      BY <1>2, <2>2 DEF WriteAt
    <3>4. a \in Seq(Nat) /\ Len(a) = 1
      BY HalfFacts, Division
    <3>5. w[value \div Half] \in Seq(Nat)
      BY <3>2, ByteFacts, SeqMonotonic
    <3> HIDE DEF a
    <3>6. Len(a \o w[value \div Half]) = Len(a) + Len(w[value \div Half])
      BY <3>4, <3>5, ConcatProperties
    <3>7. Len(w[value \div Half]) \in Nat
      BY <3>5
    <3> QED BY <3>3, <3>4, <3>6, <3>7
  <2> QED BY <2>1, <2>2
<1> QED BY <1>1, <1>2, <1>3, EmptySeq

------------------------------------------------------------------------------
(***************************************************************************)
(* The dictionary.                                                         *)
(***************************************************************************)
Row(data, at, n) ==
  [gram |-> Slice(data, at, n), at |-> at, savings |-> Savings(data, Slice(data, at, n))]

\* What _candidate_ngrams can count in the data.
Rows(data) ==
  {r \in [gram : Seq(Byte), at : 1 .. Len(data), savings : Int] :
     r.gram # <<>> /\ r.gram = Slice(data, r.at, Len(r.gram))}

LEMMA SavingsAreWhole ==
  ASSUME NEW data \in Seq(Byte), NEW gram \in Seq(Byte)
  PROVE  Savings(data, gram) \in Int
<1> DEFINE places == 1 .. Len(data) - Len(gram) + 1
           found == {i \in places : Slice(data, i, Len(gram)) = gram}
           freq == Cardinality(found)
<1>1. Len(gram) \in Int /\ Len(data) - Len(gram) + 1 \in Int
  OBVIOUS
<1>2. found \in SUBSET places
  OBVIOUS
<1>3. freq \in Int
  <2>1. IsFiniteSet(places)
    BY <1>1, FS_Interval
  <2> HIDE DEF found, places
  <2>2. IsFiniteSet(found)
    BY <1>2, <2>1, FS_Subset
  <2>3. Cardinality(found) \in Nat
    BY <2>2, FS_CardinalityType
  <2> QED BY <2>3
<1>4. \A k, n \in Int : (k - 1) * n - k * 2 \in Int
  OBVIOUS
<1>5. Savings(data, gram) = (freq - 1) * Len(gram) - freq * 2
  BY DEF Savings
<1> HIDE DEF freq
<1> QED BY <1>1, <1>3, <1>4, <1>5

LEMMA RowIsCounted ==
  ASSUME NEW data \in Seq(Byte), NEW at \in 1 .. Len(data), NEW n \in Nat \ {0},
         at + n - 1 <= Len(data)
  PROVE  Row(data, at, n) \in Rows(data)
<1> DEFINE gram == Slice(data, at, n)
<1>1. gram = SubSeq(data, at, at + n - 1)
  BY DEF Slice
<1>2. gram \in Seq(Byte) /\ Len(gram) = n
  <2>1. \A i \in at .. at + n - 1 : data[i] \in Byte
    OBVIOUS
  <2>2. at \in Int /\ at + n - 1 \in Int /\ at <= at + n - 1 /\ at + n - 1 - at + 1 = n
    OBVIOUS
  <2> HIDE DEF gram
  <2> QED BY <1>1, <2>1, <2>2, SubSeqProperties
<1>3. Savings(data, gram) \in Int
  BY <1>2, SavingsAreWhole
<1>4. gram # <<>> /\ gram = Slice(data, at, Len(gram))
  BY <1>2
<1>5. Row(data, at, n) = [gram |-> gram, at |-> at, savings |-> Savings(data, gram)]
  BY DEF Row
<1> HIDE DEF gram
<1> QED BY <1>2, <1>3, <1>4, <1>5 DEF Rows

LEMMA CandidatesAreRows ==
  ASSUME NEW data \in Seq(Byte)
  PROVE  Candidates(data) \in SUBSET Rows(data) /\ IsFiniteSet(Candidates(data))
<1> DEFINE all == GramLengths \X (1 .. Len(data))
           new == {p \in all :
                     /\ p[2] + p[1] - 1 <= Len(data)
                     /\ \A j \in 1 .. p[2] - 1 : Slice(data, j, p[1]) # Slice(data, p[2], p[1])}
           row == [p \in new |-> Row(data, p[2], p[1])]
           image == {row[p] : p \in new}
<1>1. Candidates(data) \in SUBSET image
  BY DEF Candidates, Row
<1>2. image \in SUBSET Rows(data)
  <2> SUFFICES ASSUME NEW p \in new PROVE row[p] \in Rows(data)
    OBVIOUS
  <2>1. p[1] \in Nat \ {0} /\ p[2] \in 1 .. Len(data) /\ p[2] + p[1] - 1 <= Len(data)
    BY ZclawAssumption
  <2>2. Row(data, p[2], p[1]) \in Rows(data)
    BY <2>1, RowIsCounted
  <2> QED BY <2>2
<1>3. IsFiniteSet(new)
  <2>1. IsFiniteSet(all)
    <3>1. IsFiniteSet(1 .. Len(data))
      <4>1. Len(data) \in Int
        OBVIOUS
      <4> QED BY <4>1, FS_Interval
    <3> QED BY <3>1, ZclawAssumption, FS_Product
  <2>2. new \in SUBSET all
    OBVIOUS
  <2> HIDE DEF new, all
  <2> QED BY <2>1, <2>2, FS_Subset
<1>4. IsFiniteSet(image)
  <2>1. row \in Surjection(new, image)
    <3> HIDE DEF new
    <3>1. row \in [new -> image]
      OBVIOUS
    <3> HIDE DEF row
    <3> QED BY <3>1 DEF Surjection
  <2> HIDE DEF row, new, image
  <2> QED BY <1>3, <2>1, FS_Surjection
<1> HIDE DEF image
<1> QED BY <1>1, <1>2, <1>4, FS_Subset

\* The two orders of the rows.
Profit(S) == {p \in S \X S : Better(p[1], p[2])}
Length(S) == {p \in S \X S : Longer(p[1], p[2])}

LEMMA RowsAreOrdered ==
  ASSUME NEW data \in Seq(Byte), NEW S \in SUBSET Rows(data)
  PROVE  StrictOrder(S, Profit(S)) /\ StrictOrder(S, Length(S))
<1>1. \A r \in S : /\ Len(r.gram) \in Int /\ r.at \in Int /\ r.savings \in Int
                   /\ r = [gram |-> r.gram, at |-> r.at, savings |-> r.savings]
                   /\ r.gram = Slice(data, r.at, Len(r.gram))
  BY DEF Rows
<1>2. \A r \in S : ~Better(r, r) /\ ~Longer(r, r)
  BY <1>1 DEF Better, Longer
<1>3. \A q, r, s \in S : Better(q, r) /\ Better(r, s) => Better(q, s)
  <2> SUFFICES ASSUME NEW q \in S, NEW r \in S, NEW s \in S, Better(q, r), Better(r, s)
               PROVE  Better(q, s)
    OBVIOUS
  <2>1. /\ Len(q.gram) \in Int /\ Len(r.gram) \in Int /\ Len(s.gram) \in Int
        /\ q.at \in Int /\ r.at \in Int /\ s.at \in Int
        /\ q.savings \in Int /\ r.savings \in Int /\ s.savings \in Int
    BY <1>1
  <2> QED BY <2>1 DEF Better
<1>4. \A q, r, s \in S : Longer(q, r) /\ Longer(r, s) => Longer(q, s)
  <2> SUFFICES ASSUME NEW q \in S, NEW r \in S, NEW s \in S, Longer(q, r), Longer(r, s)
               PROVE  Longer(q, s)
    OBVIOUS
  <2>1. Len(q.gram) \in Int /\ Len(r.gram) \in Int /\ Len(s.gram) \in Int
    BY <1>1
  <2>2. Better(q, r) /\ Better(r, s) => Better(q, s)
    BY <1>3
  <2> QED BY <2>1, <2>2 DEF Longer
<1>5. \A r, s \in S : r = s \/ Better(r, s) \/ Better(s, r)
  <2> SUFFICES ASSUME NEW r \in S, NEW s \in S, ~Better(r, s), ~Better(s, r) PROVE r = s
    OBVIOUS
  <2>1. /\ Len(r.gram) \in Int /\ Len(s.gram) \in Int /\ r.at \in Int /\ s.at \in Int
        /\ r.savings \in Int /\ s.savings \in Int
    BY <1>1
  <2>2. r.savings = s.savings /\ Len(r.gram) = Len(s.gram) /\ r.at = s.at
    BY <2>1 DEF Better
  <2>3. r.gram = s.gram
    BY <1>1, <2>2
  <2> QED BY <1>1, <2>2, <2>3
<1>6. \A r, s \in S : r = s \/ Longer(r, s) \/ Longer(s, r)
  <2> SUFFICES ASSUME NEW r \in S, NEW s \in S PROVE r = s \/ Longer(r, s) \/ Longer(s, r)
    OBVIOUS
  <2>1. Len(r.gram) \in Int /\ Len(s.gram) \in Int
    BY <1>1
  <2> QED BY <1>5, <2>1 DEF Longer
<1>7. \A r, s \in S : (<<r, s>> \in Profit(S) <=> Better(r, s))
                      /\ (<<r, s>> \in Length(S) <=> Longer(r, s))
  BY DEF Profit, Length
<1>8. StrictOrder(S, Profit(S))
  BY <1>2, <1>3, <1>5, <1>7, Zenon DEF StrictOrder
<1>9. StrictOrder(S, Length(S))
  BY <1>2, <1>4, <1>6, <1>7, Zenon DEF StrictOrder
<1> QED BY <1>8, <1>9

LEMMA InOrderIsSeq ==
  ASSUME NEW S, IsFiniteSet(S), NEW list, NEW before, InOrder(list, S, before)
  PROVE  list \in Seq(S) /\ Len(list) = Cardinality(S)
<1>1. Cardinality(S) \in Nat
  BY FS_CardinalityType
<1>2. list \in [1 .. Cardinality(S) -> S]
  BY DEF InOrder
<1> QED BY <1>1, <1>2

ChosenAt(scored, f, n) ==
  IF n = 0 THEN {}
  ELSE IF \/ Cardinality(f[n - 1]) >= MaxDictEntries
          \/ \E r \in f[n - 1] : Within(scored[n].gram, r.gram) \/ Within(r.gram, scored[n].gram)
  THEN f[n - 1] ELSE f[n - 1] \cup {scored[n]}

LEMMA ChosenUnfolds ==
  ASSUME NEW scored
  PROVE  Chosen(scored) =
           (CHOOSE f : f = [n \in 0 .. Len(scored) |-> ChosenAt(scored, f, n)])[Len(scored)]
BY DEF Chosen, ChosenAt

LEMMA ChosenSolves ==
  ASSUME NEW S, NEW scored \in Seq(S)
  PROVE  \E f : /\ \A n \in 0 .. Len(scored) : f[n] = ChosenAt(scored, f, n)
                /\ Chosen(scored) = f[Len(scored)]
<1> DEFINE N == 0 .. Len(scored)
           Solves(f) == f = [n \in N |-> ChosenAt(scored, f, n)]
           chosen == CHOOSE f : Solves(f)
<1>1. \E f : Solves(f)
  <2> DEFINE F == [N -> SUBSET S]
             rank == [n \in N |-> n]
             B == [p \in F \X N |-> ChosenAt(scored, p[1], p[2])]
  <2>1. rank \in [N -> 0 .. Len(scored)]
    OBVIOUS
  <2>2. \A f \in F, n \in N : B[<<f, n>>] = ChosenAt(scored, f, n) /\ B[<<f, n>>] \in SUBSET S
    <3> SUFFICES ASSUME NEW f \in F, NEW n \in N
                 PROVE  B[<<f, n>>] = ChosenAt(scored, f, n) /\ B[<<f, n>>] \in SUBSET S
      OBVIOUS
    <3>1. n # 0 => f[n - 1] \in SUBSET S /\ scored[n] \in S
      OBVIOUS
    <3>2. ChosenAt(scored, f, n) \in SUBSET S
      BY <3>1 DEF ChosenAt
    <3> HIDE DEF F, N
    <3> QED BY <3>2
  <2>3. B \in [F \X N -> SUBSET S]
    <3> HIDE DEF F, N
    <3>1. \A p \in F \X N : ChosenAt(scored, p[1], p[2]) \in SUBSET S
      BY <2>2
    <3> QED BY <3>1
  <2>4. ASSUME NEW f \in F, NEW g \in F, NEW n \in N,
               \A m \in N : rank[m] < rank[n] => f[m] = g[m]
        PROVE  B[<<f, n>>] = B[<<g, n>>]
    <3>1. n # 0 => f[n - 1] = g[n - 1]
      BY <2>4
    <3>2. ChosenAt(scored, f, n) = ChosenAt(scored, g, n)
      BY <3>1 DEF ChosenAt
    <3> HIDE DEF F, B, N
    <3> QED BY <2>2, <3>2
  <2>5. PICK f \in F : \A n \in N : f[n] = B[<<f, n>>]
    <3>0. Len(scored) \in Nat
      OBVIOUS
    <3> HIDE DEF rank, B, N
    <3>1. LooksDown(B, N, SUBSET S, rank)
      BY <2>3, <2>4 DEF LooksDown
    <3>2. \E f : Follows(f, B, N, SUBSET S)
      BY <2>1, <3>0, <3>1, Recursion
    <3> QED BY <3>2 DEF Follows
  <2>6. f = [n \in N |-> f[n]] /\ \A n \in N : f[n] = ChosenAt(scored, f, n)
    BY <2>2, <2>5
  <2> HIDE DEF N
  <2> QED BY <2>6
<1>2. Solves(chosen)
  BY <1>1
<1>3. Chosen(scored) = chosen[Len(scored)]
  BY ChosenUnfolds
<1> HIDE DEF chosen
<1>4. \A n \in N : chosen[n] = ChosenAt(scored, chosen, n)
  <2> HIDE DEF N
  <2> QED BY <1>2
<1> QED BY <1>3, <1>4

\* Some of the scored rows, and no more than a reference can name.
Fits(T, S) == T \in SUBSET S /\ IsFiniteSet(T) /\ Cardinality(T) <= MaxDictEntries

LEMMA ChosenFits ==
  ASSUME NEW S, NEW scored \in Seq(S)
  PROVE  Fits(Chosen(scored), S)
<1>1. PICK f : /\ \A n \in 0 .. Len(scored) : f[n] = ChosenAt(scored, f, n)
               /\ Chosen(scored) = f[Len(scored)]
  BY ChosenSolves
<1> DEFINE P == {n \in 0 .. Len(scored) : Fits(f[n], S)}
<1>2. MaxDictEntries \in Nat
  BY ZclawAssumption DEF MaxDictEntries
<1>3. 0 \in P
  <2>0. Len(scored) \in Nat
    OBVIOUS
  <2>1. 0 \in 0 .. Len(scored)
    BY <2>0
  <2>2. f[0] = ChosenAt(scored, f, 0)
    BY <1>1, <2>1
  <2>3. f[0] = {}
    BY <2>2 DEF ChosenAt
  <2>4. Fits({}, S)
    BY <1>2, FS_EmptySet DEF Fits
  <2> QED BY <2>1, <2>3, <2>4
<1>4. ASSUME NEW n \in 1 .. Len(scored), n - 1 \in P PROVE n \in P
  <2>1. Fits(f[n - 1], S) /\ scored[n] \in S
    BY <1>4
  <2>2. f[n] = ChosenAt(scored, f, n)
    BY <1>1
  <2>3. CASE f[n] = f[n - 1]
    BY <2>1, <2>3
  <2>4. CASE f[n] # f[n - 1]
    <3>1. f[n] = f[n - 1] \cup {scored[n]} /\ ~(Cardinality(f[n - 1]) >= MaxDictEntries)
      BY <2>2, <2>4 DEF ChosenAt
    <3>2. IsFiniteSet(f[n]) /\ Cardinality(f[n - 1]) \in Nat
          /\ Cardinality(f[n]) <= Cardinality(f[n - 1]) + 1
      <4>1. IsFiniteSet(f[n - 1])
        BY <2>1 DEF Fits
      <4>2. Cardinality(f[n - 1]) \in Nat
        BY <4>1, FS_CardinalityType
      <4> DEFINE T == f[n - 1]
                 x == scored[n]
      <4>3. f[n] = T \cup {x} /\ IsFiniteSet(T) /\ Cardinality(T) \in Nat
        BY <3>1, <4>1, <4>2
      <4> HIDE DEF T, x
      <4>4. /\ IsFiniteSet(T \cup {x})
            /\ Cardinality(T \cup {x}) =
                 IF x \in T THEN Cardinality(T) ELSE Cardinality(T) + 1
        BY <4>3, FS_AddElement
      <4>5. IsFiniteSet(f[n]) /\ Cardinality(f[n]) <= Cardinality(T) + 1
        BY <4>3, <4>4
      <4> QED BY <4>2, <4>5 DEF T
    <3>3. Cardinality(f[n]) <= MaxDictEntries
      <4>1. Cardinality(f[n]) \in Nat
        BY <3>2, FS_CardinalityType
      <4> QED BY <1>2, <3>1, <3>2, <4>1
    <3>4. f[n] \in SUBSET S
      BY <2>1, <3>1 DEF Fits
    <3>5. Fits(f[n], S)
      BY <3>2, <3>3, <3>4 DEF Fits
    <3> QED BY <3>5
  <2> QED BY <2>3, <2>4
<1>5. Len(scored) \in Nat
  OBVIOUS
<1>6. Len(scored) \in P
  <2> HIDE DEF P
  <2>1. \A n \in 0 .. Len(scored) : n \in P
    BY <1>3, <1>4, <1>5, InductionUp
  <2> QED BY <1>5, <2>1
<1> QED BY <1>1, <1>6

\* _candidate_ngrams makes what _substitute can use.
LEMMA DictionaryIsUsable ==
  ASSUME NEW data \in Seq(Byte)
  PROVE  Dictionary(data) \in Dictionaries
<1> DEFINE rows == Candidates(data)
           scored == Sorted(rows, Profit(rows))
           chosen == Chosen(scored)
           entries == Sorted(chosen, Length(chosen))
<1>1. Dictionary(data) = IF Len(data) < MinNgram * 2 THEN <<>>
                         ELSE [k \in DOMAIN entries |-> entries[k].gram]
  BY DEF Dictionary, Profit, Length
<1>2. rows \in SUBSET Rows(data) /\ IsFiniteSet(rows)
  BY CandidatesAreRows
<1> HIDE DEF rows
<1>3. scored \in Seq(rows)
  <2>1. StrictOrder(rows, Profit(rows))
    BY <1>2, RowsAreOrdered
  <2>2. InOrder(scored, rows, Profit(rows))
    BY <1>2, <2>1, SortedIsInOrder
  <2> HIDE DEF scored
  <2> QED BY <1>2, <2>2, InOrderIsSeq
<1> HIDE DEF scored
<1>4. Fits(chosen, rows)
  BY <1>3, ChosenFits
<1> HIDE DEF chosen
<1>5. entries \in Seq(chosen) /\ Len(entries) = Cardinality(chosen)
  <2>1. chosen \in SUBSET Rows(data) /\ IsFiniteSet(chosen)
    BY <1>2, <1>4 DEF Fits
  <2>2. StrictOrder(chosen, Length(chosen))
    BY <2>1, RowsAreOrdered
  <2>3. InOrder(entries, chosen, Length(chosen))
    BY <2>1, <2>2, SortedIsInOrder
  <2> HIDE DEF entries
  <2> QED BY <2>1, <2>3, InOrderIsSeq
<1> HIDE DEF entries
<1>6. CASE Len(data) < MinNgram * 2
  <2>1. <<>> \in Seq(Seq(Byte)) /\ Len(<<>>) < Escape /\ DOMAIN <<>> = {}
    BY ZclawAssumption, EmptySeq DEF Escape
  <2> QED BY <1>1, <1>6, <2>1 DEF Dictionaries
<1>7. CASE ~(Len(data) < MinNgram * 2)
  <2> DEFINE d == [k \in DOMAIN entries |-> entries[k].gram]
  <2>1. DOMAIN entries = 1 .. Len(entries) /\ Len(entries) \in Nat
    BY <1>5
  <2>2. \A k \in 1 .. Len(entries) : entries[k].gram \in Seq(Byte) /\ entries[k].gram # <<>>
    <3> SUFFICES ASSUME NEW k \in 1 .. Len(entries)
                 PROVE  entries[k].gram \in Seq(Byte) /\ entries[k].gram # <<>>
      OBVIOUS
    <3>1. entries[k] \in chosen
      BY <1>5, ElementOfSeq
    <3>2. entries[k] \in Rows(data)
      BY <1>2, <1>4, <3>1 DEF Fits
    <3> QED BY <3>2 DEF Rows
  <2>3. d \in Seq(Seq(Byte)) /\ Len(d) = Len(entries) /\ DOMAIN d = 1 .. Len(entries)
    <3>1. d \in [1 .. Len(entries) -> Seq(Byte)]
      BY <2>1, <2>2
    <3> HIDE DEF d
    <3> QED BY <2>1, <3>1
  <2>4. Len(entries) < Escape
    <3>1. Cardinality(chosen) \in Nat /\ Cardinality(chosen) <= MaxDictEntries
      BY <1>4, FS_CardinalityType DEF Fits
    <3> QED BY <1>5, <3>1, ZclawAssumption DEF MaxDictEntries, Escape
  <2>5. \A k \in DOMAIN d : d[k] # <<>>
    BY <2>1, <2>2
  <2>6. Dictionary(data) = d
    BY <1>1, <1>7
  <2> HIDE DEF d
  <2> QED BY <2>3, <2>4, <2>5, <2>6 DEF Dictionaries
<1> QED BY <1>6, <1>7

------------------------------------------------------------------------------
(***************************************************************************)
(* Sequences joined.                                                       *)
(***************************************************************************)
FlattenAt(s, f, i) == IF i = 1 THEN s[i] ELSE f[i - 1] \o s[i]

LEMMA FlattenUnfolds ==
  ASSUME NEW s, Len(s) # 0
  PROVE  FlattenSeq(s) = (CHOOSE f : f = [i \in 1 .. Len(s) |-> FlattenAt(s, f, i)])[Len(s)]
BY DEF FlattenSeq, FlattenAt

\* f joins the first ones.
Flattens(s, f, T) ==
  f \in [1 .. Len(s) -> Seq(T)] /\ \A i \in 1 .. Len(s) : f[i] = FlattenAt(s, f, i)

LEMMA FlattenSolves ==
  ASSUME NEW T, NEW s \in Seq(Seq(T)), s # <<>>
  PROVE  \E f : Flattens(s, f, T) /\ FlattenSeq(s) = f[Len(s)]
<1> DEFINE n == Len(s)
           Solves(f) == f = [i \in 1 .. n |-> FlattenAt(s, f, i)]
           flat == CHOOSE f : Solves(f)
<1>0. n \in Nat /\ n # 0
  BY EmptySeq
<1>1. \E f : Solves(f)
  <2> DEFINE F == [1 .. n -> Seq(T)]
             rank == [i \in 1 .. n |-> i]
             B == [p \in F \X (1 .. n) |-> FlattenAt(s, p[1], p[2])]
  <2>1. rank \in [1 .. n -> 0 .. n]
    BY <1>0
  <2>2. \A f \in F, i \in 1 .. n : B[<<f, i>>] = FlattenAt(s, f, i) /\ B[<<f, i>>] \in Seq(T)
    <3> SUFFICES ASSUME NEW f \in F, NEW i \in 1 .. n
                 PROVE  B[<<f, i>>] = FlattenAt(s, f, i) /\ B[<<f, i>>] \in Seq(T)
      OBVIOUS
    <3>1. s[i] \in Seq(T)
      OBVIOUS
    <3>2. i # 1 => f[i - 1] \in Seq(T)
      <4>1. i # 1 => i - 1 \in 1 .. n
        BY <1>0
      <4> HIDE DEF n
      <4> QED BY <4>1
    <3>3. FlattenAt(s, f, i) \in Seq(T)
      BY <3>1, <3>2, ConcatProperties DEF FlattenAt
    <3> HIDE DEF F
    <3> QED BY <3>3
  <2>3. B \in [F \X (1 .. n) -> Seq(T)]
    <3> HIDE DEF F, n
    <3>1. \A p \in F \X (1 .. n) : FlattenAt(s, p[1], p[2]) \in Seq(T)
      BY <2>2
    <3> QED BY <3>1
  <2>4. ASSUME NEW f \in F, NEW g \in F, NEW i \in 1 .. n,
               \A j \in 1 .. n : rank[j] < rank[i] => f[j] = g[j]
        PROVE  B[<<f, i>>] = B[<<g, i>>]
    <3>1. i # 1 => f[i - 1] = g[i - 1]
      BY <1>0, <2>4
    <3>2. FlattenAt(s, f, i) = FlattenAt(s, g, i)
      BY <3>1 DEF FlattenAt
    <3> HIDE DEF F, B
    <3> QED BY <2>2, <3>2
  <2>5. PICK f \in F : \A i \in 1 .. n : f[i] = B[<<f, i>>]
    <3> HIDE DEF rank, B, n
    <3>1. Seq(T) # {}
      BY EmptySeq
    <3>2. LooksDown(B, 1 .. n, Seq(T), rank)
      BY <2>3, <2>4 DEF LooksDown
    <3>3. \E f : Follows(f, B, 1 .. n, Seq(T))
      BY <1>0, <2>1, <3>1, <3>2, Recursion
    <3> QED BY <3>3 DEF Follows
  <2>6. f = [i \in 1 .. n |-> f[i]] /\ \A i \in 1 .. n : f[i] = FlattenAt(s, f, i)
    BY <2>2, <2>5
  <2> HIDE DEF n
  <2> QED BY <2>6
<1>2. Solves(flat)
  BY <1>1
<1>3. FlattenSeq(s) = flat[n]
  BY <1>0, FlattenUnfolds
<1> HIDE DEF flat
<1>4. \A i \in 1 .. n : flat[i] = FlattenAt(s, flat, i)
  <2> HIDE DEF n
  <2> QED BY <1>2
<1>5. \A i \in 0 .. n : i # 0 => flat[i] \in Seq(T)
  <2> DEFINE P == {i \in 0 .. n : i # 0 => flat[i] \in Seq(T)}
  <2>1. 0 \in P
    BY <1>0
  <2>2. ASSUME NEW i \in 1 .. n, i - 1 \in P PROVE i \in P
    <3>1. s[i] \in Seq(T) /\ (i # 1 => flat[i - 1] \in Seq(T))
      BY <1>0, <2>2
    <3>2. FlattenAt(s, flat, i) \in Seq(T)
      BY <3>1, ConcatProperties DEF FlattenAt
    <3>3. flat[i] \in Seq(T)
      BY <1>4, <3>2
    <3> QED BY <1>0, <3>3
  <2> HIDE DEF P, n
  <2>3. \A i \in 0 .. n : i \in P
    BY <1>0, <2>1, <2>2, InductionUp
  <2> QED BY <2>3 DEF P
<1>6. flat \in [1 .. n -> Seq(T)]
  <2>1. \A i \in 1 .. n : flat[i] \in Seq(T)
    BY <1>0, <1>5
  <2> HIDE DEF n
  <2>2. flat = [i \in 1 .. n |-> flat[i]]
    BY <1>2
  <2> QED BY <2>1, <2>2
<1> QED BY <1>3, <1>4, <1>6 DEF Flattens

LEMMA FlattenType ==
  ASSUME NEW T, NEW s \in Seq(Seq(T))
  PROVE  FlattenSeq(s) \in Seq(T)
<1>1. CASE s = <<>>
  <2>1. FlattenSeq(s) = <<>>
    BY <1>1 DEF FlattenSeq
  <2> QED BY <2>1, EmptySeq
<1>2. CASE s # <<>>
  <2>1. PICK f : Flattens(s, f, T) /\ FlattenSeq(s) = f[Len(s)]
    BY <1>2, FlattenSolves
  <2>2. Len(s) \in 1 .. Len(s)
    BY <1>2, EmptySeq
  <2> QED BY <2>1, <2>2 DEF Flattens
<1> QED BY <1>1, <1>2

LEMMA PartsOfConcat ==
  ASSUME NEW S, NEW a \in Seq(S), NEW b \in Seq(S)
  PROVE  Parted(a \o b, 1, a, b)
<1> DEFINE s == a \o b
<1>1. s \in Seq(S) /\ 1 \in 1 .. Len(s) + 1
  BY ConcatProperties
<1>2. From(s, 1) = a \o b
  BY <1>1, SubSeqFull DEF From
<1> HIDE DEF s
<1>3. Parted(s, 1, a, b)
  BY <1>1, <1>2, FromConcat
<1> QED BY <1>3 DEF s

LEMMA SliceOfParted ==
  ASSUME NEW S, NEW s \in Seq(S), NEW a \in Seq(S), NEW b \in Seq(S),
         NEW p \in 1 .. Len(s) + 1, Parted(s, p, a, b)
  PROVE  Slice(s, p, Len(a)) = a
<1>1. Len(a) \in Nat /\ p + Len(a) - 1 <= Len(s) /\ p + Len(a) - 1 \in Int /\ p \in Int
  BY DEF Parted
<1>2. Slice(s, p, Len(a)) = SubSeq(s, p, p + Len(a) - 1)
  BY <1>1 DEF Slice
<1>3. \A k \in p .. p + Len(a) - 1 : s[k] \in S
  BY <1>1
<1>4. /\ SubSeq(s, p, p + Len(a) - 1) \in Seq(S)
      /\ Len(SubSeq(s, p, p + Len(a) - 1)) = Len(a)
      /\ \A i \in 1 .. Len(a) : SubSeq(s, p, p + Len(a) - 1)[i] = s[p + i - 1]
  <2> DEFINE m == p + Len(a) - 1
  <2>1. m \in Int /\ m - p + 1 = Len(a) /\ (IF p <= m THEN m - p + 1 ELSE 0) = Len(a)
    BY <1>1
  <2> HIDE DEF m
  <2>2. /\ SubSeq(s, p, m) \in Seq(S)
        /\ Len(SubSeq(s, p, m)) = IF p <= m THEN m - p + 1 ELSE 0
        /\ \A i \in 1 .. m - p + 1 : SubSeq(s, p, m)[i] = s[p + i - 1]
    <3>1. \A k \in p .. m : s[k] \in S
      BY <1>3 DEF m
    <3> QED BY <1>1, <2>1, <3>1, SubSeqProperties
  <2>3. SubSeq(s, p, m) \in Seq(S) /\ Len(SubSeq(s, p, m)) = Len(a)
        /\ \A i \in 1 .. Len(a) : SubSeq(s, p, m)[i] = s[p + i - 1]
    BY <2>1, <2>2
  <2> QED BY <2>3 DEF m
<1>5. SubSeq(s, p, p + Len(a) - 1) = a
  <2>1. \A i \in 1 .. Len(a) : s[p + i - 1] = a[i]
    BY DEF Parted
  <2> QED BY <1>4, <2>1, SeqEqual
<1> QED BY <1>2, <1>5

------------------------------------------------------------------------------
(***************************************************************************)
(* The packed form.                                                        *)
(***************************************************************************)
\* Where the count ends, each entry begins, and the body at last.
Layout(packed, d, body, at) ==
  /\ at \in [1 .. Len(d) + 1 -> 1 .. Len(packed) + 1]
  /\ From(packed, 1) = Varint(Len(d)) \o From(packed, at[1])
  /\ at[1] = 1 + Len(Varint(Len(d)))
  /\ \A k \in 1 .. Len(d) :
       /\ From(packed, at[k]) = Varint(Len(d[k])) \o (d[k] \o From(packed, at[k + 1]))
       /\ at[k + 1] = at[k] + Len(Varint(Len(d[k]))) + Len(d[k])
  /\ From(packed, at[Len(d) + 1]) = body

EntryPart(d, k) == Varint(Len(d[k])) \o d[k]
PackParts(d) == <<Varint(Len(d))>> \o [k \in DOMAIN d |-> EntryPart(d, k)]

LEMMA PartsFacts ==
  ASSUME NEW d \in Seq(Seq(Byte))
  PROVE  /\ PackParts(d) \in Seq(Seq(Byte)) /\ Len(PackParts(d)) = Len(d) + 1
         /\ PackParts(d)[1] = Varint(Len(d))
         /\ \A k \in 1 .. Len(d) : PackParts(d)[k + 1] = EntryPart(d, k)
<1> DEFINE a == <<Varint(Len(d))>>
           b == [k \in DOMAIN d |-> EntryPart(d, k)]
<1>1. Len(d) \in Nat /\ DOMAIN d = 1 .. Len(d)
  OBVIOUS
<1>2. a \in Seq(Seq(Byte)) /\ Len(a) = 1 /\ a[1] = Varint(Len(d))
  BY <1>1, VarintType
<1>3. \A k \in 1 .. Len(d) : EntryPart(d, k) \in Seq(Byte)
  <2> SUFFICES ASSUME NEW k \in 1 .. Len(d) PROVE EntryPart(d, k) \in Seq(Byte)
    OBVIOUS
  <2>1. d[k] \in Seq(Byte)
    OBVIOUS
  <2>2. Len(d[k]) \in Nat
    BY <2>1
  <2>3. Varint(Len(d[k])) \in Seq(Byte)
    BY <2>2, VarintType
  <2> QED BY <2>1, <2>3, ConcatProperties DEF EntryPart
<1>4. b \in Seq(Seq(Byte)) /\ Len(b) = Len(d) /\ \A k \in 1 .. Len(d) : b[k] = EntryPart(d, k)
  <2>1. b \in [1 .. Len(d) -> Seq(Byte)] /\ \A k \in 1 .. Len(d) : b[k] = EntryPart(d, k)
    BY <1>1, <1>3
  <2>2. b \in Seq(Seq(Byte)) /\ Len(b) = Len(d)
    <3> HIDE DEF b
    <3> DEFINE m == Len(d)
    <3>1. m \in Nat /\ b \in [1 .. m -> Seq(Byte)]
      BY <1>1, <2>1
    <3> HIDE DEF m
    <3>2. b \in Seq(Seq(Byte)) /\ Len(b) = m
      BY <3>1
    <3> QED BY <3>2 DEF m
  <2> HIDE DEF b
  <2> QED BY <2>1, <2>2
<1> HIDE DEF a, b
<1>5. /\ a \o b \in Seq(Seq(Byte)) /\ Len(a \o b) = 1 + Len(d)
      /\ \A i \in 1 .. 1 + Len(d) : (a \o b)[i] = IF i <= 1 THEN a[i] ELSE b[i - 1]
  <2>1. a \in Seq(Seq(Byte)) /\ b \in Seq(Seq(Byte))
    BY <1>2, <1>4
  <2>2. /\ a \o b \in Seq(Seq(Byte)) /\ Len(a \o b) = Len(a) + Len(b)
        /\ \A i \in 1 .. Len(a) + Len(b) : (a \o b)[i] = IF i <= Len(a) THEN a[i] ELSE b[i - Len(a)]
    BY <2>1, ConcatProperties
  <2>3. Len(a) = 1 /\ Len(b) = Len(d)
    BY <1>2, <1>4
  <2> QED BY <2>2, <2>3
<1>6. (a \o b)[1] = Varint(Len(d))
  BY <1>1, <1>2, <1>5
<1>7. \A k \in 1 .. Len(d) : (a \o b)[k + 1] = EntryPart(d, k)
  BY <1>1, <1>4, <1>5
<1>8. PackParts(d) = a \o b
  BY DEF PackParts, a, b
<1>9. Len(a \o b) = Len(d) + 1
  BY <1>1, <1>5
<1> QED BY <1>5, <1>6, <1>7, <1>8, <1>9

\* Joining the first k parts begins the packed form.
Begins(packed, f, k) == f[k] \in Seq(Byte) /\ \E t \in Seq(Byte) : packed = f[k] \o t

LEMMA PackBegins ==
  ASSUME NEW d \in Seq(Seq(Byte)), NEW body \in Seq(Byte)
  PROVE  \E f : /\ f \in [1 .. Len(d) + 1 -> Seq(Byte)]
                /\ f[1] = Varint(Len(d))
                /\ \A k \in 1 .. Len(d) : f[k + 1] = f[k] \o EntryPart(d, k)
                /\ Pack(d, body) = f[Len(d) + 1] \o body
                /\ \A k \in 1 .. Len(d) + 1 : Begins(Pack(d, body), f, k)
<1> DEFINE parts == PackParts(d)
           n == Len(d) + 1
           packed == Pack(d, body)
<1>1. Pack(d, body) = FlattenSeq(parts) \o body
  BY DEF Pack, PackParts, EntryPart
<1>2. /\ parts \in Seq(Seq(Byte)) /\ Len(parts) = n /\ parts[1] = Varint(Len(d))
      /\ \A k \in 1 .. Len(d) : parts[k + 1] = EntryPart(d, k) /\ EntryPart(d, k) \in Seq(Byte)
  <2>1. /\ parts \in Seq(Seq(Byte)) /\ Len(parts) = n /\ parts[1] = Varint(Len(d))
        /\ \A k \in 1 .. Len(d) : parts[k + 1] = EntryPart(d, k)
    BY PartsFacts
  <2> HIDE DEF parts
  <2>2. \A k \in 1 .. Len(d) : EntryPart(d, k) \in Seq(Byte)
    <3> SUFFICES ASSUME NEW k \in 1 .. Len(d) PROVE EntryPart(d, k) \in Seq(Byte)
      OBVIOUS
    <3>1. k + 1 \in 1 .. Len(parts)
      BY <2>1
    <3> QED BY <2>1, <3>1, ElementOfSeq
  <2> QED BY <2>1, <2>2
<1> HIDE DEF parts, packed
<1>3. n \in Nat \ {0} /\ Len(d) \in Nat
  OBVIOUS
<1>4. PICK f : Flattens(parts, f, Byte) /\ FlattenSeq(parts) = f[n]
  <2>1. parts # <<>>
    BY <1>2, <1>3
  <2> QED BY <1>2, <2>1, FlattenSolves
<1>5. f \in [1 .. n -> Seq(Byte)] /\ \A i \in 1 .. n : f[i] = FlattenAt(parts, f, i)
  BY <1>2, <1>4 DEF Flattens
<1>6. f[1] = Varint(Len(d))
  <2>1. 1 \in 1 .. n
    BY <1>3
  <2> QED BY <1>2, <1>5, <2>1 DEF FlattenAt
<1>7. \A k \in 1 .. Len(d) : f[k + 1] = f[k] \o EntryPart(d, k)
  <2> SUFFICES ASSUME NEW k \in 1 .. Len(d) PROVE f[k + 1] = f[k] \o EntryPart(d, k)
    OBVIOUS
  <2>1. k + 1 \in 1 .. n /\ k + 1 # 1 /\ k + 1 - 1 = k
    OBVIOUS
  <2> DEFINE i == k + 1
  <2>2. i \in 1 .. n /\ i # 1 /\ i - 1 = k
    BY <2>1
  <2> HIDE DEF i, n
  <2>3. f[i] = f[k] \o parts[i]
    BY <1>5, <2>2 DEF FlattenAt
  <2>4. parts[i] = EntryPart(d, k)
    BY <1>2 DEF i
  <2> QED BY <2>3, <2>4 DEF i
<1>8. packed = f[n] \o body
  BY <1>1, <1>4 DEF packed
<1>9. \A k \in 1 .. n : Begins(packed, f, k)
  <2> DEFINE P == {k \in 1 .. n : Begins(packed, f, k)}
  <2>1. ASSUME NEW k \in 1 .. n, \A j \in k + 1 .. n : j \in P PROVE k \in P
    <3>1. f[k] \in Seq(Byte)
      BY <1>5
    <3>2. CASE k = n
      BY <1>8, <3>1, <3>2 DEF Begins
    <3>3. CASE k # n
      <4>1. k \in 1 .. Len(d) /\ k + 1 \in k + 1 .. n
        BY <3>3
      <4>2. Begins(packed, f, k + 1)
        BY <2>1, <4>1
      <4>3. PICK t \in Seq(Byte) : packed = f[k + 1] \o t
        BY <4>2 DEF Begins
      <4>4. EntryPart(d, k) \in Seq(Byte) /\ f[k + 1] = f[k] \o EntryPart(d, k)
        BY <1>2, <1>7, <4>1
      <4> DEFINE a == f[k]
                 b == EntryPart(d, k)
      <4>5. a \in Seq(Byte) /\ b \in Seq(Byte) /\ packed = (a \o b) \o t
        BY <3>1, <4>3, <4>4
      <4> HIDE DEF a, b
      <4>6. packed = a \o (b \o t) /\ b \o t \in Seq(Byte)
        <5>1. a \in Seq(Byte) /\ b \in Seq(Byte) /\ t \in Seq(Byte)
          BY <4>5
        <5>2. (a \o b) \o t = a \o (b \o t) /\ b \o t \in Seq(Byte)
          BY <5>1, BytesAssociate
        <5> QED BY <4>5, <5>2
      <4>7. Begins(packed, f, k)
        BY <3>1, <4>6 DEF Begins, a
      <4> QED BY <4>7
    <3> QED BY <3>2, <3>3
  <2> HIDE DEF P, n
  <2>2. \A k \in 1 .. n : k \in P
    BY <1>3, <2>1, InductionDown
  <2> QED BY <2>2 DEF P
<1> QED BY <1>5, <1>6, <1>7, <1>8, <1>9 DEF packed

LEMMA PackLayout ==
  ASSUME NEW d \in Seq(Seq(Byte)), NEW body \in Seq(Byte)
  PROVE  Pack(d, body) \in Seq(Byte) /\ \E at : Layout(Pack(d, body), d, body, at)
<1> DEFINE packed == Pack(d, body)
           n == Len(d) + 1
<1>1. PICK f : /\ f \in [1 .. n -> Seq(Byte)] /\ f[1] = Varint(Len(d))
               /\ \A k \in 1 .. Len(d) : f[k + 1] = f[k] \o EntryPart(d, k)
               /\ packed = f[n] \o body
               /\ \A k \in 1 .. n : Begins(packed, f, k)
  BY PackBegins
<1> HIDE DEF packed
<1>2. n \in Nat \ {0} /\ Len(d) \in Nat /\ n \in 1 .. n /\ 1 \in 1 .. n
  OBVIOUS
<1>3. packed \in Seq(Byte)
  <2>1. f[n] \in Seq(Byte)
    BY <1>1, <1>2
  <2> QED BY <1>1, <2>1, ConcatProperties
<1> DEFINE at == [k \in 1 .. n |-> 1 + Len(f[k])]
\* What follows after the first k parts.
<1>4. ASSUME NEW k \in 1 .. n, NEW t \in Seq(Byte), packed = f[k] \o t
      PROVE  1 + Len(f[k]) \in 1 .. Len(packed) + 1 /\ From(packed, 1 + Len(f[k])) = t
  <2>1. f[k] \in Seq(Byte)
    BY <1>1
  <2>2. Parted(packed, 1, f[k], t)
    BY <1>4, <2>1, PartsOfConcat
  <2> QED BY <2>2 DEF Parted
<1>5. at \in [1 .. n -> 1 .. Len(packed) + 1]
  <2> SUFFICES ASSUME NEW k \in 1 .. n PROVE 1 + Len(f[k]) \in 1 .. Len(packed) + 1
    OBVIOUS
  <2>1. PICK t \in Seq(Byte) : packed = f[k] \o t
    BY <1>1 DEF Begins
  <2> QED BY <1>4, <2>1
<1>6. at[1] = 1 + Len(Varint(Len(d)))
  BY <1>1, <1>2
<1>7. From(packed, 1) = Varint(Len(d)) \o From(packed, at[1])
  <2>1. PICK t \in Seq(Byte) : packed = f[1] \o t
    BY <1>1, <1>2 DEF Begins
  <2>2. From(packed, at[1]) = t
    BY <1>2, <1>4, <2>1
  <2>3. From(packed, 1) = packed
    BY <1>3, SubSeqFull DEF From
  <2> QED BY <1>1, <2>1, <2>2, <2>3
<1>8. ASSUME NEW k \in 1 .. Len(d)
      PROVE  /\ From(packed, at[k]) = Varint(Len(d[k])) \o (d[k] \o From(packed, at[k + 1]))
             /\ at[k + 1] = at[k] + Len(Varint(Len(d[k]))) + Len(d[k])
  <2>1. k \in 1 .. n /\ k + 1 \in 1 .. n
    OBVIOUS
  <2> DEFINE a == f[k]
             v == Varint(Len(d[k]))
             e == d[k]
  <2>2. a \in Seq(Byte) /\ v \in Seq(Byte) /\ e \in Seq(Byte)
    <3>1. e \in Seq(Byte)
      OBVIOUS
    <3>2. Len(e) \in Nat
      BY <3>1
    <3> QED BY <1>1, <2>1, <3>1, <3>2, VarintType
  <2>3. PICK t \in Seq(Byte) : packed = f[k + 1] \o t
    BY <1>1, <2>1 DEF Begins
  <2>4. f[k + 1] = a \o (v \o e)
    BY <1>1 DEF EntryPart
  <2>5. at[k] = 1 + Len(a) /\ at[k + 1] = 1 + Len(f[k + 1])
    BY <2>1
  <2>6. From(packed, at[k + 1]) = t
    BY <1>4, <2>1, <2>3, <2>5
  <2> HIDE DEF a, v, e, at
  <2>7. packed = a \o (v \o (e \o t)) /\ v \o (e \o t) \in Seq(Byte)
    <3>1. v \o e \in Seq(Byte) /\ e \o t \in Seq(Byte)
      BY <2>2, BytesAssociate
    <3>2. (a \o (v \o e)) \o t = a \o ((v \o e) \o t)
      <4> DEFINE b == v \o e
      <4>1. a \in Seq(Byte) /\ b \in Seq(Byte) /\ t \in Seq(Byte)
        BY <2>2, <3>1
      <4> HIDE DEF b
      <4>2. Associates(a, b, t)
        BY <4>1, BytesConcat
      <4> QED BY <4>2 DEF b, Associates
    <3>3. (v \o e) \o t = v \o (e \o t)
      <4>1. Associates(v, e, t)
        BY <2>2, BytesConcat
      <4> QED BY <4>1 DEF Associates
    <3>4. v \o (e \o t) \in Seq(Byte)
      BY <2>2, <3>1, BytesAssociate
    <3> QED BY <2>3, <2>4, <3>2, <3>3, <3>4
  <2>8. From(packed, at[k]) = v \o (e \o t)
    BY <1>4, <2>1, <2>5, <2>7 DEF a
  <2>9. Len(f[k + 1]) = Len(a) + (Len(v) + Len(e))
    <3>1. v \o e \in Seq(Byte) /\ Len(v \o e) = Len(v) + Len(e)
      BY <2>2, ConcatProperties
    <3>2. Len(a \o (v \o e)) = Len(a) + Len(v \o e)
      BY <2>2, <3>1, ConcatProperties
    <3> QED BY <2>4, <3>1, <3>2
  <2>10. at[k + 1] = at[k] + Len(v) + Len(e)
    <3>1. Len(a) \in Nat /\ Len(v) \in Nat /\ Len(e) \in Nat
      BY <2>2
    <3> QED BY <2>5, <2>9, <3>1
  <2> QED BY <2>6, <2>8, <2>10 DEF v, e
<1>9. From(packed, at[n]) = body
  BY <1>1, <1>2, <1>4
<1> HIDE DEF at
<1>10. Layout(packed, d, body, at)
  BY <1>5, <1>6, <1>7, <1>8, <1>9 DEF Layout
<1> QED BY <1>3, <1>10 DEF packed

\* What _unpack_dictionary has after the first n entries.
EntriesAt(buffer, f, start, n) ==
  IF n = 0 THEN [next |-> start, entries |-> <<>>]
  ELSE IF f[n - 1].next \notin DOMAIN buffer \/ ReadVarint(buffer, f[n - 1].next).next = 0
  THEN [next |-> 0, entries |-> <<>>]
  ELSE [next |-> ReadVarint(buffer, f[n - 1].next).next
                   + ReadVarint(buffer, f[n - 1].next).value,
        entries |-> Append(f[n - 1].entries,
                           Slice(buffer, ReadVarint(buffer, f[n - 1].next).next,
                                 ReadVarint(buffer, f[n - 1].next).value))]

LEMMA EntriesUnfolds ==
  ASSUME NEW buffer, NEW start, NEW count
  PROVE  Entries(buffer, start, count) =
           (CHOOSE f : f = [n \in 0 .. count |-> EntriesAt(buffer, f, start, n)])[count]
BY DEF Entries, EntriesAt

\* What has been read before entry k.
Before(d, at, k) == [next |-> at[k], entries |-> SubSeq(d, 1, k - 1)]

LEMMA EntryIsRead ==
  ASSUME NEW d \in Seq(Seq(Byte)), NEW body \in Seq(Byte), NEW packed \in Seq(Byte),
         NEW at, Layout(packed, d, body, at), NEW k \in 1 .. Len(d),
         NEW f, NEW start, f[k - 1] = Before(d, at, k)
  PROVE  EntriesAt(packed, f, start, k) = Before(d, at, k + 1)
<1> DEFINE v == Varint(Len(d[k]))
           e == d[k]
           p == at[k]
           t == From(packed, at[k + 1])
<1>1. e \in Seq(Byte) /\ Len(e) \in Nat
  <2>1. e \in Seq(Byte)
    OBVIOUS
  <2> QED BY <2>1
<1>2. v \in Seq(Byte) /\ Len(v) \in Nat \ {0}
  BY <1>1, VarintType
<1>3. p \in 1 .. Len(packed) + 1 /\ at[k + 1] \in 1 .. Len(packed) + 1
  <2>1. k \in 1 .. Len(d) + 1 /\ k + 1 \in 1 .. Len(d) + 1
    OBVIOUS
  <2> QED BY <2>1 DEF Layout
<1>4. From(packed, p) = v \o (e \o t) /\ at[k + 1] = p + Len(v) + Len(e)
  BY DEF Layout
<1>5. t \in Seq(Byte)
  BY <1>3, FromTypes
<1>6. f[k - 1].next = p /\ f[k - 1].entries = SubSeq(d, 1, k - 1)
  BY DEF Before
<1> HIDE DEF p, t
<1>7. ReadVarint(packed, p) = [value |-> Len(e), next |-> p + Len(v)]
  <2> HIDE DEF e
  <2>1. e \o t \in Seq(Byte)
    BY <1>1, <1>5, ConcatProperties
  <2>2. From(packed, p) = Varint(Len(e)) \o (e \o t) /\ v = Varint(Len(e))
    BY <1>4 DEF e
  <2> HIDE DEF v
  <2>3. ReadVarint(packed, p) = [value |-> Len(e), next |-> p + Len(Varint(Len(e)))]
    BY <1>1, <1>3, <2>1, <2>2, VarintIsExact
  <2> QED BY <2>2, <2>3
<1> HIDE DEF v, e
<1>8. Parted(packed, p, v, e \o t)
  <2>1. e \o t \in Seq(Byte)
    BY <1>1, <1>5, ConcatProperties
  <2> QED BY <1>2, <1>3, <1>4, <2>1, FromConcat
<1>9. p \in DOMAIN packed
  <2>1. p + 1 - 1 \in 1 .. Len(packed)
    BY <1>2, <1>8 DEF Parted
  <2> QED BY <1>3, <2>1
<1>10. p + Len(v) \in 1 .. Len(packed) + 1 /\ From(packed, p + Len(v)) = e \o t
  BY <1>8 DEF Parted
<1>11. Parted(packed, p + Len(v), e, t)
  BY <1>1, <1>5, <1>10, FromConcat
<1>12. Slice(packed, p + Len(v), Len(e)) = e
  BY <1>1, <1>5, <1>10, <1>11, SliceOfParted
<1>13. Append(SubSeq(d, 1, k - 1), e) = SubSeq(d, 1, k)
  <2>1. 1 \in 1 .. Len(d) /\ k \in 1 .. Len(d) /\ k - 1 \in Int /\ 1 \in Int
    OBVIOUS
  <2>2. SubSeq(d, 1, k) = SubSeq(d, 1, k - 1) \o <<d[k]>>
    BY <2>1, SubSeqRecursiveSecond
  <2>3. SubSeq(d, 1, k - 1) \in Seq(Seq(Byte))
    <3>1. \A i \in 1 .. k - 1 : d[i] \in Seq(Byte)
      OBVIOUS
    <3> QED BY <2>1, <3>1, SubSeqProperties
  <2>4. Append(SubSeq(d, 1, k - 1), e) = SubSeq(d, 1, k - 1) \o <<e>>
    BY <1>1, <2>3, AppendIsConcat
  <2> QED BY <2>2, <2>4 DEF e
<1>14. k # 0 /\ p + Len(v) # 0 /\ p + Len(v) + Len(e) = at[k + 1]
  BY <1>4, <1>10
<1>15. EntriesAt(packed, f, start, k)
         = [next |-> p + Len(v) + Len(e), entries |-> Append(SubSeq(d, 1, k - 1), e)]
  <2> DEFINE length == ReadVarint(packed, p)
             before == f[k - 1]
  <2>1. before.next = p /\ before.entries = SubSeq(d, 1, k - 1)
    BY <1>6
  <2>2. length.value = Len(e) /\ length.next = p + Len(v)
    BY <1>7
  <2>3. EntriesAt(packed, f, start, k) =
          IF p \notin DOMAIN packed \/ length.next = 0 THEN [next |-> 0, entries |-> <<>>]
          ELSE [next |-> length.next + length.value,
                entries |-> Append(before.entries, Slice(packed, length.next, length.value))]
    BY <1>14, <2>1 DEF EntriesAt
  <2> HIDE DEF length, before
  <2> QED BY <1>9, <1>12, <1>14, <2>1, <2>2, <2>3
<1>16. Before(d, at, k + 1) = [next |-> at[k + 1], entries |-> SubSeq(d, 1, k)]
  <2>1. k + 1 - 1 = k
    OBVIOUS
  <2>2. SubSeq(d, 1, k + 1 - 1) = SubSeq(d, 1, k)
    BY <2>1
  <2> QED BY <2>2 DEF Before
<1> QED BY <1>13, <1>14, <1>15, <1>16, Zenon

LEMMA EntriesAreExact ==
  ASSUME NEW d \in Seq(Seq(Byte)), NEW body \in Seq(Byte), NEW packed \in Seq(Byte),
         NEW at, Layout(packed, d, body, at)
  PROVE  Entries(packed, at[1], Len(d)) = [next |-> at[Len(d) + 1], entries |-> d]
<1> DEFINE n == Len(d)
           N == 0 .. n
           Solves(f) == f = [m \in N |-> EntriesAt(packed, f, at[1], m)]
           read == CHOOSE f : Solves(f)
           g == [m \in N |-> Before(d, at, m + 1)]
<1>1. n \in Nat
  OBVIOUS
<1>2. Before(d, at, 1) = [next |-> at[1], entries |-> <<>>]
  BY SubSeqEmpty DEF Before
<1>3. ASSUME NEW f, NEW m \in 1 .. n, f[m - 1] = Before(d, at, m)
      PROVE  EntriesAt(packed, f, at[1], m) = Before(d, at, m + 1)
  BY <1>3, EntryIsRead
<1>4. \A f : EntriesAt(packed, f, at[1], 0) = Before(d, at, 1)
  BY <1>2 DEF EntriesAt
<1>5. Solves(g)
  <2>1. \A m \in N : g[m] = EntriesAt(packed, g, at[1], m)
    <3> SUFFICES ASSUME NEW m \in N PROVE g[m] = EntriesAt(packed, g, at[1], m)
      OBVIOUS
    <3>1. g[m] = Before(d, at, m + 1)
      OBVIOUS
    <3>2. CASE m = 0
      <4>1. 0 + 1 = 1
        OBVIOUS
      <4> HIDE DEF g
      <4> QED BY <1>4, <3>1, <3>2, <4>1
    <3>3. CASE m # 0
      <4>1. m \in 1 .. n /\ m - 1 \in N /\ m - 1 + 1 = m
        BY <1>1, <3>3
      <4>2. g[m - 1] = Before(d, at, m)
        BY <4>1
      <4> HIDE DEF g, n
      <4>3. EntriesAt(packed, g, at[1], m) = Before(d, at, m + 1)
        BY <1>3, <4>1, <4>2
      <4> QED BY <3>1, <4>3
    <3> QED BY <3>2, <3>3
  <2>2. g = [m \in N |-> g[m]]
    OBVIOUS
  <2> HIDE DEF g, N
  <2> QED BY <2>1, <2>2
<1>6. Solves(read)
  BY <1>5
<1>7. Entries(packed, at[1], n) = read[n]
  BY EntriesUnfolds
<1> HIDE DEF g, read
<1>8. \A m \in N : read[m] = EntriesAt(packed, read, at[1], m)
  <2> HIDE DEF N
  <2> QED BY <1>6
<1>9. read[n] = Before(d, at, n + 1)
  <2> DEFINE P == {m \in N : read[m] = Before(d, at, m + 1)}
  <2>1. 0 \in P
    <3>1. 0 \in N /\ 0 + 1 = 1
      BY <1>1
    <3> QED BY <1>4, <1>8, <3>1
  <2>2. ASSUME NEW m \in 1 .. n, m - 1 \in P PROVE m \in P
    <3>1. m \in N /\ m - 1 + 1 = m
      OBVIOUS
    <3>2. read[m - 1] = Before(d, at, m)
      BY <2>2, <3>1
    <3> HIDE DEF n
    <3>3. EntriesAt(packed, read, at[1], m) = Before(d, at, m + 1)
      BY <1>3, <3>2
    <3> QED BY <1>8, <3>1, <3>3
  <2> HIDE DEF P, n
  <2>3. \A m \in 0 .. n : m \in P
    BY <1>1, <2>1, <2>2, InductionUp
  <2>4. n \in 0 .. n
    BY <1>1
  <2>5. n \in P
    BY <2>3, <2>4
  <2> QED BY <2>5 DEF P
<1>10. SubSeq(d, 1, n + 1 - 1) = d
  <2>1. n + 1 - 1 = Len(d)
    OBVIOUS
  <2> QED BY <2>1, SubSeqFull
<1> QED BY <1>7, <1>9, <1>10 DEF Before

\* What encode stores decode gives back.
LEMMA DecodeInvertsEncode ==
  ASSUME NEW data \in Seq(Byte)
  PROVE  Decode(Encode(data)) = data /\ Encode(data).packed \in Seq(Byte)
<1> DEFINE d == Dictionary(data)
           body == Substitute(data, d)
           packed == Pack(d, body)
<1>1. d \in Dictionaries /\ d \in Seq(Seq(Byte)) /\ Len(d) \in Nat
  BY DictionaryIsUsable DEF Dictionaries
<1> HIDE DEF d
<1>2. body \in Seq(Byte) /\ Desubstitute(body, d) = data
  BY <1>1, SubstitutionIsExact
<1> HIDE DEF body
<1>3. packed \in Seq(Byte) /\ \E at : Layout(packed, d, body, at)
  BY <1>1, <1>2, PackLayout
<1>4. Encode(data) = [length |-> Len(data), digest |-> data, packed |-> packed]
  BY DEF Encode, d, body
<1> HIDE DEF packed
<1>5. PICK at : Layout(packed, d, body, at)
  BY <1>3
<1>6. ReadVarint(packed, 1) = [value |-> Len(d), next |-> at[1]]
  <2> DEFINE t == From(packed, at[1])
  <2>1. at[1] \in 1 .. Len(packed) + 1 /\ 1 \in 1 .. Len(packed) + 1
    <3>1. 1 \in 1 .. Len(d) + 1
      BY <1>1
    <3> QED BY <1>3, <1>5, <3>1 DEF Layout
  <2>2. t \in Seq(Byte)
    BY <1>3, <2>1, FromTypes
  <2>3. From(packed, 1) = Varint(Len(d)) \o t /\ at[1] = 1 + Len(Varint(Len(d)))
    BY <1>5 DEF Layout
  <2> HIDE DEF t
  <2> QED BY <1>1, <1>3, <2>1, <2>2, <2>3, VarintIsExact
<1>7. Entries(packed, at[1], Len(d)) = [next |-> at[Len(d) + 1], entries |-> d]
  BY <1>1, <1>2, <1>3, <1>5, EntriesAreExact
<1>8. /\ at[1] \in Nat \ {0} /\ at[Len(d) + 1] \in 1 .. Len(packed) + 1
      /\ From(packed, at[Len(d) + 1]) = body
  <2>1. 1 \in 1 .. Len(d) + 1 /\ Len(d) + 1 \in 1 .. Len(d) + 1
    BY <1>1
  <2>2. at[1] \in 1 .. Len(packed) + 1
    BY <1>5, <2>1 DEF Layout
  <2> QED BY <1>5, <2>1, <2>2 DEF Layout
<1>9. Slice(packed, at[Len(d) + 1], Len(packed)) = body
  <2> DEFINE i == at[Len(d) + 1]
  <2>1. i \in Nat \ {0} /\ Len(packed) \in Nat
    BY <1>3, <1>8
  <2> HIDE DEF i
  <2>2. Slice(packed, i, Len(packed)) = SubSeq(packed, i, Len(packed))
    <3>1. i + Len(packed) - 1 <= Len(packed) => i + Len(packed) - 1 = Len(packed)
      BY <2>1
    <3> QED BY <3>1 DEF Slice
  <2> QED BY <1>8, <2>2 DEF i, From
<1>10. Decode(Encode(data)) = data
  <2> DEFINE blob == Encode(data)
             count == ReadVarint(packed, 1)
             dictionary == Entries(packed, count.next, count.value)
             read == IF count.next = 0 \/ dictionary.next = 0 THEN Raised
                     ELSE Desubstitute(Slice(packed, dictionary.next, Len(packed)),
                                       dictionary.entries)
  <2>1. blob.packed = packed /\ blob.length = Len(data) /\ blob.digest = data
    BY <1>4
  <2>2. Decode(blob) = IF Len(read) # blob.length \/ read # blob.digest THEN Raised ELSE read
    <3> HIDE DEF blob
    <3> QED BY <2>1 DEF Decode
  <2>3. count.next = at[1] /\ count.value = Len(d)
    BY <1>6
  <2>4. dictionary.next = at[Len(d) + 1] /\ dictionary.entries = d
    BY <1>7, <2>3
  <2> HIDE DEF count, dictionary
  <2>5. read = data
    BY <1>2, <1>8, <1>9, <2>3, <2>4
  <2> HIDE DEF read
  <2> QED BY <2>1, <2>2, <2>5
<1> QED BY <1>3, <1>4, <1>10

\* What decode gives of any other stored form: the data of the header, or it raises.
LEMMA DecodeIsChecked ==
  ASSUME NEW blob
  PROVE  Decode(blob) \in {Raised, blob.digest}
BY DEF Decode

LEMMA InputIsBytes ==
  InputType /\ subject = "codec" => FlattenSeq(input) \in Seq(Byte)
<1> SUFFICES ASSUME InputType, subject = "codec" PROVE FlattenSeq(input) \in Seq(Byte)
  OBVIOUS
<1>1. Elements["codec"] \subseteq Seq(Byte) /\ input \in Seq(Elements["codec"])
  BY InputAssumption DEF InputType
<1>2. input \in Seq(Seq(Byte))
  BY <1>1, SeqMonotonic
<1> QED BY <1>2, FlattenType

\* Storing data of any length and reading it back is exact, every byte of the stored
\* form is a byte, and a stored form with a byte changed or cut short never reads as
\* other data.
THEOREM CodecRoundTrips == Spec => []CodecIsExact
<1>1. InputType => CodecIsExact
  <2> SUFFICES ASSUME InputType, subject = "codec" PROVE CodecIsExact
    BY DEF CodecIsExact
  <2> DEFINE data == FlattenSeq(input)
             blob == Encode(data)
             n == Len(blob.packed)
             changed == {[blob EXCEPT !.packed = ReplaceAt(@, k, b)] : k \in 1 .. n, b \in Byte}
             cut == {[blob EXCEPT !.packed = SubSeq(@, 1, k)] : k \in 0 .. n - 1}
  <2>1. data \in Seq(Byte)
    BY InputIsBytes
  <2>2. Decode(blob) = data /\ blob.packed \in Seq(Byte)
    <3> HIDE DEF data
    <3> QED BY <2>1, DecodeInvertsEncode
  <2>3. \A k \in 1 .. n : blob.packed[k] \in Byte
    <3> HIDE DEF blob
    <3> QED BY <2>2, ElementOfSeq
  <2>4. \A other \in changed \cup cut : Decode(other) \in {Raised, blob.digest}
    <3> SUFFICES ASSUME NEW other \in changed \cup cut
                 PROVE  Decode(other) \in {Raised, blob.digest}
      OBVIOUS
    <3>1. blob = [length |-> blob.length, digest |-> blob.digest, packed |-> blob.packed]
      BY DEF Encode
    <3>2. other.digest = blob.digest
      <4> HIDE DEF blob, n
      <4> QED BY <3>1
    <3> HIDE DEF blob, changed, cut
    <3> QED BY <3>2, DecodeIsChecked
  <2> QED BY <2>2, <2>3, <2>4 DEF CodecIsExact
<1> QED BY <1>1, InputTyping, PTL

------------------------------------------------------------------------------
(***************************************************************************)
(* The history that Gemini gets.                                           *)
(***************************************************************************)
MessageHasCalls(m) == Len(m.calls) \in Nat /\ DOMAIN m.calls = 1 .. Len(m.calls)

\* The c-th call of message k is the first one with the id.
FirstCall(messages, id, k, c) ==
  /\ messages[k].calls[c].id = id
  /\ \A j \in 1 .. k - 1 : \A d \in DOMAIN messages[j].calls : messages[j].calls[d].id # id
  /\ \A d \in 1 .. c - 1 : messages[k].calls[d].id # id

LEMMA CallIsFound ==
  ASSUME NEW messages, NEW n \in Nat, DOMAIN messages = 1 .. n,
         \A j \in 1 .. n : MessageHasCalls(messages[j]),
         NEW id, NEW k \in 1 .. n, NEW c \in DOMAIN messages[k].calls,
         FirstCall(messages, id, k, c)
  PROVE  CallName(messages, id) = messages[k].calls[c].name
<1> DEFINE hits == CallsWithId(messages, id)
           first == CHOOSE p \in hits : \A q \in hits : NotAfter(p, q)
<1>1. \A p \in hits :
        /\ p = <<p[1], p[2]>> /\ p[1] \in 1 .. n /\ p[2] \in DOMAIN messages[p[1]].calls
        /\ messages[p[1]].calls[p[2]].id = id
  BY DEF CallsWithId
<1>2. <<k, c>> \in hits
  BY DEF CallsWithId, FirstCall
<1> HIDE DEF hits
<1>3. k \in Nat /\ c \in Nat
  BY DEF MessageHasCalls
<1>4. ASSUME NEW q \in hits PROVE NotAfter(<<k, c>>, q)
  <2>1. q[1] \in Nat /\ q[2] \in Nat
    BY <1>1 DEF MessageHasCalls
  <2>2. ~(q[1] < k)
    <3> SUFFICES ASSUME q[1] < k PROVE FALSE
      OBVIOUS
    <3>1. q[1] \in 1 .. k - 1
      BY <1>1, <1>3
    <3> QED BY <1>1, <3>1 DEF FirstCall
  <2>3. ~(q[1] = k /\ q[2] < c)
    <3> SUFFICES ASSUME q[1] = k, q[2] < c PROVE FALSE
      OBVIOUS
    <3>1. q[2] \in 1 .. c - 1
      BY <1>1, <1>3, <2>1 DEF MessageHasCalls
    <3> QED BY <1>1, <3>1 DEF FirstCall
  <2> QED BY <1>3, <2>1, <2>2, <2>3 DEF NotAfter
<1>5. first \in hits /\ \A q \in hits : NotAfter(first, q)
  BY <1>2, <1>4
<1> HIDE DEF first
<1>6. first = <<k, c>>
  <2>1. NotAfter(first, <<k, c>>) /\ NotAfter(<<k, c>>, first)
    BY <1>2, <1>4, <1>5
  <2>2. first[1] \in Nat /\ first[2] \in Nat /\ first = <<first[1], first[2]>>
    BY <1>1, <1>5 DEF MessageHasCalls
  <2>3. first[1] = k /\ first[2] = c
    BY <1>3, <2>1, <2>2 DEF NotAfter
  <2> QED BY <2>2, <2>3
<1>7. hits # {} /\ first[1] = k /\ first[2] = c
  BY <1>2, <1>6
<1>8. CallName(messages, id) =
        IF hits = {} THEN "unknown" ELSE messages[first[1]].calls[first[2]].name
  BY DEF CallName, hits, first
<1> QED BY <1>7, <1>8

LEMMA TurnRoles ==
  ASSUME NEW messages, NEW m
  PROVE  /\ (Turn(messages, m).role = "model") <=> (m.role = "assistant")
         /\ m.role = "tool" => Turn(messages, m).answers = CallName(messages, m.id)
<1>1. CASE m.role = "tool"
  BY <1>1 DEF Turn
<1>2. CASE m.role = "assistant" /\ m.calls # <<>>
  BY <1>2 DEF Turn
<1>3. CASE m.role = "assistant" /\ m.calls = <<>>
  BY <1>3 DEF Turn
<1>4. CASE m.role # "tool" /\ m.role # "assistant"
  BY <1>4 DEF Turn
<1> QED BY <1>1, <1>2, <1>3, <1>4

\* However long a history: Gemini sees every turn that is no system message once and in
\* order, and each tool result under the name of the call that it answers.
THEOREM HistoryIsTranslated == Spec => []HistoryIsKept
<1>1. InputType => HistoryIsKept
  <2> SUFFICES ASSUME InputType, subject = "history" PROVE HistoryIsKept
    BY DEF HistoryIsKept
  <2> DEFINE S == {k \in DOMAIN input : ~IsSystem(input[k])}
             place == Ascending(S)
             count == Cardinality(S)
             kept == Selected(input, S)
             contents == TranslateRequest(input).contents
  <2>1. Len(input) \in Nat /\ DOMAIN input = 1 .. Len(input)
        /\ \A k \in DOMAIN input : MessageHasCalls(input[k])
    BY InputAssumption DEF InputType, MessageHasCalls
  <2>2. S \in SUBSET DOMAIN input /\ S \in SUBSET Nat /\ IsFiniteSet(S) /\ count \in Nat
    <3>1. S \in SUBSET (1 .. Len(input)) /\ IsFiniteSet(1 .. Len(input))
      BY <2>1, FS_Interval
    <3> HIDE DEF S
    <3>2. IsFiniteSet(S)
      BY <3>1, FS_Subset
    <3>3. count \in Nat
      BY <3>2, FS_CardinalityType
    <3> QED BY <2>1, <3>1, <3>2, <3>3
  <2> HIDE DEF S
  <2>3. place \in [1 .. count -> S]
    BY <2>2, AscendingRises
  <2>4. contents = [n \in DOMAIN kept |-> Turn(input, kept[n])]
    BY DEF TranslateRequest, S
  <2>5. kept = [n \in DOMAIN place |-> input[place[n]]]
    BY DEF Selected
  <2> HIDE DEF place, kept, contents, count
  <2>6. Len(place) = count /\ DOMAIN place = 1 .. count
    BY <2>2, <2>3
  <2>7. contents = [n \in 1 .. count |-> Turn(input, input[place[n]])]
    BY <2>4, <2>5, <2>6
  <2>8. Len(contents) = Len(place)
    BY <2>2, <2>6, <2>7
  <2>9. ASSUME NEW n \in DOMAIN place
        PROVE  /\ (contents[n].role = "model") <=> (input[place[n]].role = "assistant")
               /\ input[place[n]].role = "tool" =>
                    contents[n].answers = CallName(input, input[place[n]].id)
    <3>1. contents[n] = Turn(input, input[place[n]])
      BY <2>6, <2>7
    <3> QED BY <3>1, TurnRoles
  <2>10. ASSUME NEW n \in DOMAIN place, input[place[n]].role = "tool",
                NEW k \in DOMAIN input, NEW c \in DOMAIN input[k].calls,
                FirstCall(input, input[place[n]].id, k, c)
         PROVE  contents[n].answers = input[k].calls[c].name
    <3>1. CallName(input, input[place[n]].id) = input[k].calls[c].name
      BY <2>1, <2>10, CallIsFound
    <3> QED BY <2>9, <2>10, <3>1
  <2> QED BY <2>8, <2>9, <2>10 DEF HistoryIsKept, FirstCall, place, contents, S
<1> QED BY <1>1, InputTyping, PTL

------------------------------------------------------------------------------
(***************************************************************************)
(* What a sequence has of a set, in its order.                             *)
(***************************************************************************)
Kept(s, G) == Selected(s, {k \in DOMAIN s : s[k] \in G})

\* A list of places that is all of them is the order of the selection.
SelectsBy(order, n, places) ==
  /\ order \in [1 .. n -> places] /\ Rises(order, n)
  /\ \A p \in places : \E i \in 1 .. n : order[i] = p

LEMMA SelectedBy ==
  ASSUME NEW s, NEW places \in SUBSET Nat, NEW n \in Nat, NEW order,
         SelectsBy(order, n, places)
  PROVE  Selected(s, places) = [i \in 1 .. n |-> s[order[i]]]
<1>1. order \in [1 .. n -> places] /\ Ascending(places) = order
  BY AscendingIsUnique DEF SelectsBy
<1> QED BY <1>1 DEF Selected

LEMMA SelectsByAscending ==
  ASSUME NEW S, NEW s \in Seq(S), NEW places \in SUBSET DOMAIN s
  PROVE  /\ Cardinality(places) \in Nat
         /\ SelectsBy(Ascending(places), Cardinality(places), places)
         /\ Selected(s, places) =
              [i \in 1 .. Cardinality(places) |-> s[Ascending(places)[i]]]
<1>1. DOMAIN s = 1 .. Len(s) /\ Len(s) \in Nat
  OBVIOUS
<1>2. places \in SUBSET (1 .. Len(s)) /\ IsFiniteSet(1 .. Len(s))
  BY <1>1, FS_Interval
<1>3. places \in SUBSET Nat /\ IsFiniteSet(places)
  BY <1>2, FS_Subset
<1>4. Cardinality(places) \in Nat
  BY <1>3, FS_CardinalityType
<1>5. SelectsBy(Ascending(places), Cardinality(places), places)
  BY <1>3, AscendingRises DEF SelectsBy
<1> QED BY <1>3, <1>4, <1>5, SelectedBy

LEMMA KeptType ==
  ASSUME NEW S, NEW s \in Seq(S), NEW G
  PROVE  Kept(s, G) \in Seq(S) /\ Kept(s, G) \in Seq(S \cap G)
<1> DEFINE places == {k \in DOMAIN s : s[k] \in G}
           n == Cardinality(places)
           order == Ascending(places)
<1>0. places \in SUBSET DOMAIN s /\ Kept(s, G) = Selected(s, places)
  BY DEF Kept
<1>2. \A p \in places : s[p] \in S /\ s[p] \in G
  OBVIOUS
<1> HIDE DEF places
<1>1. n \in Nat /\ order \in [1 .. n -> places] /\ Kept(s, G) = [i \in 1 .. n |-> s[order[i]]]
  BY <1>0, SelectsByAscending DEF SelectsBy
<1> HIDE DEF n, order
<1>3. \A i \in 1 .. n : s[order[i]] \in S /\ s[order[i]] \in S \cap G
  BY <1>1, <1>2
<1> QED BY <1>1, <1>3

\* The places in a joined sequence.
JoinedOrder(n, a, m, b, d) ==
  [i \in 1 .. n + m |-> IF i <= n THEN a[i] ELSE d + b[i - n]]

LEMMA OrdersJoin ==
  ASSUME NEW d \in Nat, NEW A \in SUBSET (1 .. d), NEW B \in SUBSET (Nat \ {0}),
         NEW n \in Nat, NEW m \in Nat, NEW a, NEW b,
         SelectsBy(a, n, A), SelectsBy(b, m, B)
  PROVE  SelectsBy(JoinedOrder(n, a, m, b, d), n + m, A \cup {d + k : k \in B})
<1> DEFINE o == JoinedOrder(n, a, m, b, d)
           C == A \cup {d + k : k \in B}
<1>1. \A i \in 1 .. n : a[i] \in A /\ a[i] \in Nat /\ a[i] <= d
  <2>1. \A i \in 1 .. n : a[i] \in A
    BY DEF SelectsBy
  <2>2. \A x \in A : x \in Nat /\ x <= d
    OBVIOUS
  <2> QED BY <2>1, <2>2
<1>2. \A i \in 1 .. m : b[i] \in B /\ b[i] \in Nat /\ b[i] > 0
  <2>1. \A i \in 1 .. m : b[i] \in B
    BY DEF SelectsBy
  <2>2. \A x \in B : x \in Nat /\ x > 0
    OBVIOUS
  <2> QED BY <2>1, <2>2
<1>3. \A i \in 1 .. n : o[i] = a[i]
  BY DEF JoinedOrder
<1>4. \A i \in n + 1 .. n + m : i - n \in 1 .. m /\ o[i] = d + b[i - n]
  BY DEF JoinedOrder
<1>5. \A i \in 1 .. m : i + n \in n + 1 .. n + m /\ i + n \in 1 .. n + m /\ (i + n) - n = i
  OBVIOUS
<1>6. o = [i \in 1 .. n + m |-> o[i]]
  BY DEF JoinedOrder
<1> HIDE DEF o
<1>7. \A i \in 1 .. n + m : o[i] \in C
  <2> SUFFICES ASSUME NEW i \in 1 .. n + m PROVE o[i] \in C
    OBVIOUS
  <2>1. i \in 1 .. n \/ i \in n + 1 .. n + m
    OBVIOUS
  <2> QED BY <2>1, <1>1, <1>2, <1>3, <1>4
<1>8. \A p \in C : \E i \in 1 .. n + m : o[i] = p
  <2>1. ASSUME NEW p \in A PROVE \E i \in 1 .. n + m : o[i] = p
    <3>1. PICK i \in 1 .. n : a[i] = p
      BY DEF SelectsBy
    <3>2. i \in 1 .. n + m
      OBVIOUS
    <3> QED BY <3>1, <3>2, <1>3
  <2>2. ASSUME NEW k \in B PROVE \E i \in 1 .. n + m : o[i] = d + k
    <3>1. PICK i \in 1 .. m : b[i] = k
      BY DEF SelectsBy
    <3>2. o[i + n] = d + b[i]
      BY <1>4, <1>5
    <3> QED BY <3>1, <3>2, <1>5
  <2> QED BY <2>1, <2>2
<1>9. Rises(o, n + m)
  <2> SUFFICES ASSUME NEW i \in 1 .. n + m, NEW j \in 1 .. n + m, i < j PROVE o[i] < o[j]
    BY DEF Rises
  <2>1. CASE j \in 1 .. n
    <3>1. i \in 1 .. n
      BY <2>1
    <3> QED BY <2>1, <3>1, <1>3 DEF SelectsBy, Rises
  <2>2. CASE j \notin 1 .. n /\ i \in 1 .. n
    <3>1. j \in n + 1 .. n + m
      BY <2>2
    <3>2. a[i] <= d /\ b[j - n] > 0 /\ a[i] \in Nat /\ b[j - n] \in Nat
      BY <2>2, <3>1, <1>1, <1>2, <1>4
    <3>3. o[i] = a[i] /\ o[j] = d + b[j - n]
      BY <2>2, <3>1, <1>3, <1>4
    <3> QED BY <3>2, <3>3
  <2>3. CASE i \notin 1 .. n
    <3>1. i \in n + 1 .. n + m /\ j \in n + 1 .. n + m /\ i - n < j - n
      BY <2>3
    <3>2. b[i - n] < b[j - n]
      BY <3>1, <1>4 DEF SelectsBy, Rises
    <3> QED BY <3>1, <3>2, <1>2, <1>4
  <2> QED BY <2>1, <2>2, <2>3
<1> HIDE DEF C
<1>10. o \in [1 .. n + m -> C]
  BY <1>6, <1>7
<1> QED BY <1>8, <1>9, <1>10 DEF SelectsBy, o, C

LEMMA KeptConcat ==
  ASSUME NEW S, NEW s \in Seq(S), NEW t \in Seq(S), NEW G
  PROVE  Kept(s \o t, G) = Kept(s, G) \o Kept(t, G)
<1> DEFINE d == Len(s)
           A == {k \in DOMAIN s : s[k] \in G}
           B == {k \in DOMAIN t : t[k] \in G}
           C == {k \in DOMAIN (s \o t) : (s \o t)[k] \in G}
           n == Cardinality(A)
           m == Cardinality(B)
           a == Ascending(A)
           b == Ascending(B)
           o == JoinedOrder(n, a, m, b, d)
<1>1. /\ d \in Nat /\ DOMAIN s = 1 .. d /\ Len(t) \in Nat /\ DOMAIN t = 1 .. Len(t)
      /\ s \o t \in Seq(S) /\ DOMAIN (s \o t) = 1 .. d + Len(t)
      /\ \A k \in 1 .. d : (s \o t)[k] = s[k]
      /\ \A k \in 1 .. Len(t) : (s \o t)[d + k] = t[k]
  <2>1. s \o t \in Seq(S) /\ Len(s \o t) = d + Len(t)
    OBVIOUS
  <2>2. DOMAIN (s \o t) = 1 .. d + Len(t)
    BY <2>1
  <2> QED BY <2>1, <2>2
<1>2. /\ n \in Nat /\ SelectsBy(a, n, A) /\ Kept(s, G) = [i \in 1 .. n |-> s[a[i]]]
      /\ m \in Nat /\ SelectsBy(b, m, B) /\ Kept(t, G) = [i \in 1 .. m |-> t[b[i]]]
  <2>1. /\ A \in SUBSET DOMAIN s /\ Kept(s, G) = Selected(s, A)
        /\ B \in SUBSET DOMAIN t /\ Kept(t, G) = Selected(t, B)
    BY DEF Kept
  <2> HIDE DEF A, B
  <2> QED BY <2>1, SelectsByAscending
<1>3. C = A \cup {d + k : k \in B}
  <2> HIDE DEF d
  <2>1. ASSUME NEW k \in C PROVE k \in A \/ \E j \in B : k = d + j
    <3>1. k \in 1 .. d + Len(t) /\ (s \o t)[k] \in G
      BY <1>1
    <3>2. CASE k \in 1 .. d
      BY <1>1, <3>1, <3>2
    <3>3. CASE k \notin 1 .. d
      <4>1. k - d \in 1 .. Len(t) /\ k = d + (k - d)
        BY <1>1, <3>1, <3>3
      <4>2. t[k - d] \in G
        BY <1>1, <3>1, <4>1
      <4> QED BY <1>1, <4>1, <4>2
    <3> QED BY <3>2, <3>3
  <2>2. ASSUME NEW k \in A PROVE k \in C
    BY <1>1
  <2>3. ASSUME NEW j \in B PROVE d + j \in C
    BY <1>1
  <2> HIDE DEF A, B, C
  <2> QED BY <2>1, <2>2, <2>3
<1>4. A \in SUBSET (1 .. d) /\ B \in SUBSET (Nat \ {0}) /\ C \in SUBSET Nat /\ B \in SUBSET (1 .. Len(t))
  <2> HIDE DEF d
  <2> QED BY <1>1
<1> HIDE DEF A, B, n, m, a, b, d
<1>6. Kept(s \o t, G) = [i \in 1 .. n + m |-> (s \o t)[o[i]]]
  <2>1. Kept(s \o t, G) = Selected(s \o t, C)
    BY DEF Kept
  <2> HIDE DEF C, o
  <2>2. SelectsBy(o, n + m, A \cup {d + k : k \in B})
    <3>1. d \in Nat
      BY <1>1
    <3> QED BY <1>2, <1>4, <3>1, OrdersJoin DEF o
  <2>3. SelectsBy(o, n + m, C) /\ n + m \in Nat
    BY <1>2, <1>3, <2>2
  <2> DEFINE w == s \o t
             k == n + m
  <2>4. k \in Nat /\ SelectsBy(o, k, C)
    BY <2>3
  <2> HIDE DEF w, k
  <2>5. Selected(w, C) = [i \in 1 .. k |-> w[o[i]]]
    BY <1>4, <2>4, SelectedBy
  <2> QED BY <2>1, <2>5 DEF w, k
<1> HIDE DEF C
<1>7. /\ \A i \in 1 .. n : i \in 1 .. n + m /\ o[i] = a[i] /\ a[i] \in 1 .. d
      /\ \A i \in n + 1 .. n + m : /\ i \in 1 .. n + m /\ o[i] = d + b[i - n]
                                   /\ i - n \in 1 .. m /\ b[i - n] \in 1 .. Len(t)
  <2>1. \A i \in 1 .. n : a[i] \in A
    BY <1>2 DEF SelectsBy
  <2>2. \A i \in 1 .. m : b[i] \in B
    BY <1>2 DEF SelectsBy
  <2>3. \A i \in n + 1 .. n + m : i - n \in 1 .. m
    BY <1>2
  <2>4. \A i \in 1 .. n : i \in 1 .. n + m /\ o[i] = a[i]
    BY <1>2 DEF JoinedOrder
  <2>5. \A i \in n + 1 .. n + m : i \in 1 .. n + m /\ o[i] = d + b[i - n]
    BY <1>2 DEF JoinedOrder
  <2> HIDE DEF o
  <2> QED BY <1>4, <2>1, <2>2, <2>3, <2>4, <2>5
<1> HIDE DEF o
<1> DEFINE x == Kept(s, G)
           y == Kept(t, G)
<1>8. x \in Seq(S) /\ y \in Seq(S) /\ Len(x) = n /\ Len(y) = m
  <2>1. x \in Seq(S) /\ y \in Seq(S)
    BY KeptType
  <2> HIDE DEF x, y
  <2>2. x = [i \in 1 .. n |-> s[a[i]]] /\ y = [i \in 1 .. m |-> t[b[i]]]
    BY <1>2 DEF x, y
  <2> QED BY <1>2, <2>1, <2>2
<1>9. /\ \A i \in 1 .. n : x[i] = s[a[i]]
      /\ \A i \in 1 .. m : y[i] = t[b[i]]
  BY <1>2
<1> HIDE DEF x, y
<1>10. x \o y = [i \in 1 .. n + m |-> IF i <= n THEN x[i] ELSE y[i - n]]
  <2> DEFINE z == x \o y
             k == n + m
  <2>1. z \in Seq(S) /\ Len(z) = k
    BY <1>2, <1>8, ConcatProperties
  <2>2. \A i \in 1 .. k : z[i] = IF i <= n THEN x[i] ELSE y[i - n]
    BY <1>2, <1>8, ConcatProperties
  <2> HIDE DEF z, k
  <2>3. z = [i \in 1 .. k |-> z[i]]
    BY <2>1
  <2>4. z = [i \in 1 .. k |-> IF i <= n THEN x[i] ELSE y[i - n]]
    BY <2>2, <2>3
  <2> QED BY <2>4 DEF z, k
<1>11. \A i \in 1 .. n + m : (s \o t)[o[i]] = IF i <= n THEN x[i] ELSE y[i - n]
  <2> SUFFICES ASSUME NEW i \in 1 .. n + m
               PROVE  (s \o t)[o[i]] = IF i <= n THEN x[i] ELSE y[i - n]
    OBVIOUS
  <2>1. CASE i \in 1 .. n
    <3>1. o[i] = a[i] /\ a[i] \in 1 .. d /\ i <= n
      BY <1>7, <2>1
    <3>2. (s \o t)[o[i]] = s[a[i]]
      BY <1>1, <3>1
    <3> QED BY <1>9, <2>1, <3>1, <3>2
  <2>2. CASE i \notin 1 .. n
    <3>1. i \in n + 1 .. n + m /\ ~(i <= n)
      BY <1>2, <2>2
    <3>2. i - n \in 1 .. m /\ b[i - n] \in 1 .. Len(t) /\ o[i] = d + b[i - n]
      BY <1>7, <3>1
    <3>3. (s \o t)[o[i]] = t[b[i - n]]
      BY <1>1, <3>2
    <3> QED BY <1>9, <3>1, <3>2, <3>3
  <2> QED BY <2>1, <2>2
<1> QED BY <1>6, <1>10, <1>11 DEF x, y

LEMMA KeptNone ==
  ASSUME NEW S, NEW s \in Seq(S), NEW G, \A k \in 1 .. Len(s) : s[k] \notin G
  PROVE  Kept(s, G) = <<>>
<1> DEFINE P == {k \in DOMAIN s : s[k] \in G}
           o == <<>>
<1>1. P = {} /\ Kept(s, G) = Selected(s, P)
  BY DEF Kept
<1> HIDE DEF P
<1>2. SelectsBy(o, 0, {})
  BY DEF SelectsBy, Rises
<1>3. Selected(s, {}) = [i \in 1 .. 0 |-> s[o[i]]]
  BY <1>2, SelectedBy
<1> QED BY <1>1, <1>3

LEMMA KeptAll ==
  ASSUME NEW S, NEW s \in Seq(S), NEW G, \A k \in 1 .. Len(s) : s[k] \in G
  PROVE  Kept(s, G) = s
<1> DEFINE n == Len(s)
           o == [i \in 1 .. n |-> i]
           P == {k \in DOMAIN s : s[k] \in G}
<1>1. n \in Nat /\ DOMAIN s = 1 .. n /\ P = 1 .. n /\ s = [i \in 1 .. n |-> s[i]]
  OBVIOUS
<1> HIDE DEF n
<1>2. SelectsBy(o, n, 1 .. n)
  BY <1>1 DEF SelectsBy, Rises
<1>3. Selected(s, 1 .. n) = [i \in 1 .. n |-> s[o[i]]]
  BY <1>1, <1>2, SelectedBy
<1> QED BY <1>1, <1>3 DEF Kept

Joins(s, f, T, i) ==
  /\ f[i] \in Seq(T) /\ s[i] \in Seq(T) /\ Len(s) \in Nat
  /\ i = 1 => f[i] = s[i]
  /\ i # 1 => i - 1 \in 1 .. Len(s) /\ f[i - 1] \in Seq(T) /\ f[i] = f[i - 1] \o s[i]

LEMMA FlattenNext ==
  ASSUME NEW T, NEW s \in Seq(Seq(T)), NEW f, Flattens(s, f, T), NEW i \in 1 .. Len(s)
  PROVE  Joins(s, f, T, i)
<1>1. Len(s) \in Nat /\ s[i] \in Seq(T) /\ (i # 1 => i - 1 \in 1 .. Len(s))
  OBVIOUS
<1>2. f[i] \in Seq(T) /\ f[i] = FlattenAt(s, f, i) /\ (i # 1 => f[i - 1] \in Seq(T))
  BY <1>1 DEF Flattens
<1> QED BY <1>1, <1>2 DEF FlattenAt, Joins

LEMMA FlattenUnique ==
  ASSUME NEW T, NEW s \in Seq(Seq(T)), s # <<>>, NEW f, Flattens(s, f, T)
  PROVE  FlattenSeq(s) = f[Len(s)]
<1>1. PICK g : Flattens(s, g, T) /\ FlattenSeq(s) = g[Len(s)]
  BY FlattenSolves
<1> DEFINE n == Len(s)
           P == {i \in 0 .. n : i # 0 => f[i] = g[i]}
<1>2. n \in Nat /\ n # 0
  BY EmptySeq
<1> HIDE DEF n
<1>3. \A i \in 1 .. n : Joins(s, f, T, i) /\ Joins(s, g, T, i)
  BY <1>1, FlattenNext DEF n
<1>4. ASSUME NEW i \in 1 .. n, i - 1 \in P PROVE i \in P
  <2>1. i = 1 => f[i] = g[i]
    BY <1>3 DEF Joins
  <2>2. i # 1 => f[i] = g[i]
    <3>1. i # 1 => f[i - 1] = g[i - 1]
      BY <1>2, <1>4
    <3>2. i # 1 => f[i] = f[i - 1] \o s[i] /\ g[i] = g[i - 1] \o s[i]
      BY <1>3 DEF Joins
    <3> QED BY <3>1, <3>2
  <2> QED BY <2>1, <2>2
<1>5. 0 \in P
  BY <1>2
<1> HIDE DEF P
<1>6. \A i \in 0 .. n : i \in P
  BY <1>2, <1>4, <1>5, InductionUp
<1>7. n \in P /\ n # 0
  BY <1>2, <1>6
<1> QED BY <1>1, <1>7 DEF P, n

LEMMA FlattenOne ==
  ASSUME NEW T, NEW x \in Seq(T)
  PROVE  FlattenSeq(<<x>>) = x
<1> DEFINE f == [i \in 1 .. 1 |-> x]
<1>1. Flattens(<<x>>, f, T)
  BY DEF Flattens, FlattenAt
<1>2. <<x>> \in Seq(Seq(T)) /\ <<x>> # <<>> /\ Len(<<x>>) = 1 /\ f[1] = x
  OBVIOUS
<1> HIDE DEF f
<1> QED BY <1>1, <1>2, FlattenUnique

LEMMA FlattenEmpty == FlattenSeq(<<>>) = <<>>
BY DEF FlattenSeq

LEMMA FlattenConcat ==
  ASSUME NEW T, NEW s \in Seq(Seq(T)), NEW t \in Seq(Seq(T))
  PROVE  FlattenSeq(s \o t) = FlattenSeq(s) \o FlattenSeq(t)
<1>1. FlattenSeq(s) \in Seq(T) /\ FlattenSeq(t) \in Seq(T)
  BY FlattenType
<1>2. CASE s = <<>> \/ t = <<>>
  BY <1>1, <1>2, FlattenEmpty, ConcatEmptySeq
<1>3. CASE s # <<>> /\ t # <<>>
  <2> DEFINE n == Len(s)
             m == Len(t)
             w == s \o t
  <2>1. /\ n \in Nat \ {0} /\ m \in Nat \ {0} /\ n \in 1 .. n /\ m \in 1 .. m
        /\ w \in Seq(Seq(T)) /\ Len(w) = n + m
        /\ \A i \in 1 .. n + m : w[i] = IF i <= n THEN s[i] ELSE t[i - n]
    <3>1. n \in Nat \ {0} /\ m \in Nat \ {0}
      BY <1>3, EmptySeq
    <3> QED BY <3>1, ConcatProperties
  <2>2. PICK f : Flattens(s, f, T) /\ FlattenSeq(s) = f[n]
    BY <1>3, FlattenSolves
  <2>3. PICK g : Flattens(t, g, T) /\ FlattenSeq(t) = g[m]
    BY <1>3, FlattenSolves
  <2>4. \A i \in 1 .. n : Joins(s, f, T, i)
    BY <2>2, FlattenNext
  <2>5. \A i \in 1 .. m : Joins(t, g, T, i)
    BY <2>3, FlattenNext
  <2> HIDE DEF n, m, w
  <2> DEFINE k == n + m
             h == [i \in 1 .. k |-> IF i <= n THEN f[i] ELSE f[n] \o g[i - n]]
  <2>6. f[n] \in Seq(T)
    BY <2>1, <2>4 DEF Joins
  <2>61. k \in Nat /\ k # 0
         /\ \A i \in 1 .. n : i \in 1 .. k /\ h[i] = f[i] /\ w[i] = s[i]
    <3>1. k \in Nat /\ k # 0 /\ \A i \in 1 .. n : i \in 1 .. k /\ i <= n
      BY <2>1
    <3>2. \A i \in 1 .. n : w[i] = s[i]
      BY <2>1, <3>1
    <3> HIDE DEF k
    <3>3. \A i \in 1 .. n : h[i] = f[i]
      BY <3>1
    <3> QED BY <3>1, <3>2, <3>3
  <2>62. \A i \in 1 .. m : n + i \in 1 .. k /\ h[n + i] = f[n] \o g[i] /\ w[n + i] = t[i]
    <3>1. \A i \in 1 .. m : n + i \in 1 .. k /\ ~(n + i <= n) /\ (n + i) - n = i
      BY <2>1
    <3>2. \A i \in 1 .. m : w[n + i] = t[i]
      BY <2>1, <3>1
    <3> QED BY <3>1, <3>2
  <2>63. h = [i \in 1 .. k |-> h[i]]
    OBVIOUS
  <2> HIDE DEF h
  <2>7. ASSUME NEW i \in 1 .. k PROVE h[i] \in Seq(T) /\ h[i] = FlattenAt(w, h, i)
    <3>1. CASE i \in 1 .. n
      <4>1. h[i] = f[i] /\ w[i] = s[i]
        BY <2>61, <3>1
      <4>2. i # 1 => h[i - 1] = f[i - 1]
        <5>1. i # 1 => i - 1 \in 1 .. n
          BY <2>1, <3>1
        <5> QED BY <2>61, <5>1
      <4>3. /\ f[i] \in Seq(T) /\ (i = 1 => f[i] = s[i])
            /\ i # 1 => f[i] = f[i - 1] \o s[i]
        BY <2>4, <3>1 DEF Joins
      <4> QED BY <4>1, <4>2, <4>3 DEF FlattenAt
    <3>2. CASE i = n + 1
      <4>1. h[i] = f[n] \o g[1] /\ w[i] = t[1]
        <5>1. 1 \in 1 .. m
          BY <2>1
        <5> QED BY <2>62, <3>2, <5>1
      <4>3. h[i - 1] = f[n] /\ i # 1
        BY <2>1, <2>61, <3>2
      <4>2. g[1] = t[1] /\ g[1] \in Seq(T)
        <5>1. 1 \in 1 .. m
          BY <2>1
        <5>2. Joins(t, g, T, 1)
          BY <2>5, <5>1
        <5> QED BY <5>2 DEF Joins
      <4> QED BY <2>6, <4>1, <4>2, <4>3, ConcatProperties DEF FlattenAt
    <3>3. CASE i \in n + 2 .. k
      <4> DEFINE j == i - n
      <4>1. j \in 1 .. m /\ j # 1 /\ j - 1 \in 1 .. m /\ i # 1 /\ n + j = i
            /\ n + (j - 1) = i - 1
        BY <2>1, <3>3
      <4> HIDE DEF j
      <4>2. h[i] = f[n] \o g[j] /\ h[i - 1] = f[n] \o g[j - 1] /\ w[i] = t[j]
        BY <2>62, <4>1
      <4>3. g[j] \in Seq(T) /\ t[j] \in Seq(T) /\ g[j - 1] \in Seq(T) /\ g[j] = g[j - 1] \o t[j]
        BY <2>5, <4>1 DEF Joins
      <4>4. f[n] \o (g[j - 1] \o t[j]) = (f[n] \o g[j - 1]) \o t[j]
        <5> DEFINE x == f[n]
                   y == g[j - 1]
                   z == t[j]
        <5>1. x \in Seq(T) /\ y \in Seq(T) /\ z \in Seq(T)
          BY <2>6, <4>3
        <5> HIDE DEF x, y, z
        <5>2. (x \o y) \o z = x \o (y \o z)
          BY <5>1, ConcatAssociative
        <5> QED BY <5>2 DEF x, y, z
      <4>5. h[i] \in Seq(T)
        BY <2>6, <4>2, <4>3, ConcatProperties
      <4> QED BY <4>1, <4>2, <4>3, <4>4, <4>5 DEF FlattenAt
    <3>4. i \in 1 .. n \/ i = n + 1 \/ i \in n + 2 .. k
      BY <2>1
    <3> QED BY <3>1, <3>2, <3>3, <3>4
  <2>8. h[k] = f[n] \o g[m]
    BY <2>1, <2>62
  <2>9. Len(w) = k
    BY <2>1
  <2> HIDE DEF k
  <2>10. Flattens(w, h, T)
    BY <2>7, <2>63, <2>9 DEF Flattens
  <2>11. w # <<>>
    BY <2>61, <2>9, EmptySeq
  <2>12. FlattenSeq(w) = h[k]
    BY <2>1, <2>9, <2>10, <2>11, FlattenUnique
  <2> QED BY <2>2, <2>3, <2>8, <2>12 DEF w
<1> QED BY <1>2, <1>3

------------------------------------------------------------------------------
(***************************************************************************)
(* The lossy passes: what is left out of a text.                           *)
(***************************************************************************)
\* What a text holds at some of its places.
Remains(part, whole, places, S) ==
  whole \in Seq(S) /\ places \in SUBSET DOMAIN whole /\ part = Selected(whole, places)

\* The places of the whole that a part's elements come from, in order.
LEMMA PartFacts ==
  ASSUME NEW S, NEW whole, NEW places, NEW part, Remains(part, whole, places, S)
  PROVE  /\ part \in Seq(S) /\ Cardinality(places) \in Nat /\ Len(part) = Cardinality(places)
         /\ DOMAIN part = 1 .. Len(part)
         /\ SelectsBy(Ascending(places), Len(part), places)
         /\ \A n \in DOMAIN part : /\ Ascending(places)[n] \in places
                                   /\ part[n] = whole[Ascending(places)[n]]
         /\ \A k \in places : \E n \in DOMAIN part : Ascending(places)[n] = k /\ part[n] = whole[k]
<1> DEFINE order == Ascending(places)
           m == Cardinality(places)
<1>1. whole \in Seq(S) /\ places \in SUBSET DOMAIN whole /\ part = Selected(whole, places)
  BY DEF Remains
<1>2. m \in Nat /\ SelectsBy(order, m, places) /\ part = [i \in 1 .. m |-> whole[order[i]]]
  BY <1>1, SelectsByAscending
<1> HIDE DEF order, m
<1>3. \A i \in 1 .. m : order[i] \in places /\ order[i] \in DOMAIN whole
  BY <1>1, <1>2 DEF SelectsBy
<1>4. \A i \in 1 .. m : whole[order[i]] \in S
  BY <1>1, <1>3
<1>5. part \in [1 .. m -> S] /\ \A i \in 1 .. m : part[i] = whole[order[i]]
  BY <1>2, <1>4
<1>6. part \in Seq(S) /\ Len(part) = m /\ DOMAIN part = 1 .. m
  BY <1>2, <1>5
<1>7. \A k \in places : \E n \in 1 .. m : order[n] = k
  BY <1>2 DEF SelectsBy
<1> QED BY <1>2, <1>3, <1>5, <1>6, <1>7 DEF order, m

\* What is selected from a part is selected from the whole.
LEMMA SelectedAgain ==
  ASSUME NEW S, NEW whole, NEW places, NEW part, Remains(part, whole, places, S),
         NEW R \in SUBSET DOMAIN part
  PROVE  LET of == {Ascending(places)[n] : n \in R}
         IN  of \in SUBSET places /\ Selected(part, R) = Selected(whole, of)
<1> DEFINE order == Ascending(places)
           o == Ascending(R)
           m == Cardinality(R)
           of == {order[n] : n \in R}
           q == [i \in 1 .. m |-> order[o[i]]]
<1>1. /\ part \in Seq(S) /\ DOMAIN part = 1 .. Len(part) /\ Len(part) \in Nat
      /\ order \in [1 .. Len(part) -> places] /\ Rises(order, Len(part))
      /\ \A n \in DOMAIN part : order[n] \in places /\ part[n] = whole[order[n]]
  BY PartFacts DEF SelectsBy
<1>2. places \in SUBSET DOMAIN whole /\ DOMAIN whole \in SUBSET Nat
  BY DEF Remains
<1> HIDE DEF order
<1>3. m \in Nat /\ SelectsBy(o, m, R) /\ Selected(part, R) = [i \in 1 .. m |-> part[o[i]]]
  BY <1>1, SelectsByAscending
<1> HIDE DEF o, m
<1>4. \A i \in 1 .. m : o[i] \in R /\ o[i] \in DOMAIN part
  BY <1>3 DEF SelectsBy
<1>5. \A i \in 1 .. m : q[i] = order[o[i]] /\ q[i] \in of
  BY <1>4
<1>6. of \in SUBSET places /\ of \in SUBSET Nat
  BY <1>1, <1>2
<1>7. SelectsBy(q, m, of)
  <2>1. q \in [1 .. m -> of]
    BY <1>5
  <2>2. Rises(q, m)
    <3> SUFFICES ASSUME NEW i \in 1 .. m, NEW j \in 1 .. m, i < j PROVE q[i] < q[j]
      BY DEF Rises
    <3>1. o[i] < o[j] /\ o[i] \in 1 .. Len(part) /\ o[j] \in 1 .. Len(part)
      BY <1>1, <1>3, <1>4 DEF SelectsBy, Rises
    <3>2. order[o[i]] < order[o[j]]
      BY <1>1, <3>1 DEF Rises
    <3> QED BY <1>5, <3>2
  <2>3. ASSUME NEW k \in of PROVE \E i \in 1 .. m : q[i] = k
    <3>1. PICK n \in R : k = order[n]
      OBVIOUS
    <3>2. PICK i \in 1 .. m : o[i] = n
      BY <1>3 DEF SelectsBy
    <3> QED BY <1>5, <3>1, <3>2
  <2> HIDE DEF q, of
  <2> QED BY <2>1, <2>2, <2>3 DEF SelectsBy
<1> HIDE DEF of
<1>8. Selected(whole, of) = [i \in 1 .. m |-> whole[q[i]]]
  <2> HIDE DEF q
  <2> QED BY <1>3, <1>6, <1>7, SelectedBy
<1>9. \A i \in 1 .. m : part[o[i]] = whole[q[i]]
  BY <1>1, <1>4, <1>5
<1> HIDE DEF q
<1>10. Selected(part, R) = Selected(whole, of)
  BY <1>3, <1>8, <1>9
<1> QED BY <1>6, <1>10 DEF of, order

LEMMA RemainsOfRemains ==
  ASSUME NEW S, NEW c, NEW P, NEW b, Remains(b, c, P, S), NEW R, NEW a, Remains(a, b, R, S)
  PROVE  \E Q : Remains(a, c, Q, S)
<1> DEFINE of == {Ascending(P)[n] : n \in R}
<1>1. R \in SUBSET DOMAIN b /\ a = Selected(b, R)
  BY DEF Remains
<1>2. of \in SUBSET P /\ Selected(b, R) = Selected(c, of)
  BY <1>1, SelectedAgain
<1> HIDE DEF of
<1>3. Remains(a, c, of, S)
  BY <1>1, <1>2 DEF Remains
<1> QED BY <1>3

LEMMA WholeIsPart ==
  ASSUME NEW S, NEW s \in Seq(S)
  PROVE  Remains(s, s, DOMAIN s, S)
<1>1. \A k \in 1 .. Len(s) : s[k] \in S
  OBVIOUS
<1>2. Kept(s, S) = s
  BY <1>1, KeptAll
<1>3. {k \in DOMAIN s : s[k] \in S} = DOMAIN s
  <2>1. DOMAIN s = 1 .. Len(s)
    OBVIOUS
  <2> QED BY <1>1, <2>1, Zenon
<1>4. Selected(s, DOMAIN s) = s
  BY <1>2, <1>3 DEF Kept
<1> QED BY <1>4 DEF Remains

LEMMA PartIsSubsequence ==
  ASSUME NEW S, NEW whole, NEW places, NEW part, Remains(part, whole, places, S)
  PROVE  Subsequence(part, whole)
BY PartFacts DEF Remains, Subsequence

LEMMA SelectedSome ==
  ASSUME NEW S, NEW s \in Seq(S), NEW places \in SUBSET DOMAIN s
  PROVE  Selected(s, places) # <<>> <=> places # {}
<1> DEFINE part == Selected(s, places)
<1>1. Remains(part, s, places, S)
  BY DEF Remains
<1> HIDE DEF part
<1>2. /\ part \in Seq(S) /\ DOMAIN part = 1 .. Len(part)
      /\ \A n \in DOMAIN part : Ascending(places)[n] \in places
      /\ \A k \in places : \E n \in DOMAIN part : TRUE
  BY <1>1, PartFacts
<1>3. CASE places = {}
  <2>1. DOMAIN part = {}
    BY <1>2, <1>3
  <2>2. Len(part) = 0
    BY <1>2, <2>1, LenProperties
  <2> QED BY <1>2, <1>3, <2>2, EmptySeq DEF part
<1>4. CASE places # {}
  <2>1. DOMAIN part # {} /\ DOMAIN <<>> = {}
    BY <1>2, <1>4
  <2> QED BY <1>4, <2>1 DEF part
<1> QED BY <1>3, <1>4

\* A part that has all that is no filler says the same.
LEMMA SaysTheSame ==
  ASSUME NEW S, NEW whole, NEW places, NEW part, Remains(part, whole, places, S), NEW fillers,
         \A k \in DOMAIN whole : whole[k] \notin fillers \cup {Gap} => k \in places
  PROVE  Says(part, fillers) = Says(whole, fillers)
<1> DEFINE G == fillers \cup {Gap}
           order == Ascending(places)
           R == {n \in DOMAIN part : part[n] \notin G}
           K == {k \in DOMAIN whole : whole[k] \notin G}
           of == {order[n] : n \in R}
<1>1. /\ \A n \in DOMAIN part : order[n] \in places /\ part[n] = whole[order[n]]
      /\ \A k \in places : \E n \in DOMAIN part : order[n] = k /\ part[n] = whole[k]
      /\ places \in SUBSET DOMAIN whole
  BY PartFacts DEF Remains
<1>2. \A k \in K : k \in places
  OBVIOUS
<1>3. Selected(part, R) = Selected(whole, of)
  BY SelectedAgain
<1> HIDE DEF G, order
<1>4. of = K
  BY <1>1, <1>2
<1>5. Selected(part, R) = Selected(whole, K)
  BY <1>3, <1>4
<1> QED BY <1>5 DEF Says, G

\* The gaps of a text and the places where a paragraph opens.
Heads(text) == {k \in DOMAIN text : text[k] = Gap \/ k = 1 \/ text[k - 1] = Gap}

\* A part that has them is divided alike.
LEMMA OutlineIsKept ==
  ASSUME NEW S, NEW whole, NEW places, NEW part, Remains(part, whole, places, S),
         Heads(whole) \subseteq places
  PROVE  Outline(part) = Outline(whole)
<1> DEFINE order == Ascending(places)
           R == Heads(part)
           K == Heads(whole)
           of == {order[n] : n \in R}
<1>1. /\ \A n \in DOMAIN part : order[n] \in places /\ part[n] = whole[order[n]]
      /\ \A k \in places : \E n \in DOMAIN part : order[n] = k /\ part[n] = whole[k]
      /\ DOMAIN part = 1 .. Len(part) /\ Len(part) \in Nat
      /\ \A i, j \in DOMAIN part : i < j => order[i] < order[j]
  BY PartFacts, LenProperties DEF SelectsBy, Rises
<1>2. places \in SUBSET DOMAIN whole /\ DOMAIN whole = 1 .. Len(whole) /\ Len(whole) \in Nat
  BY DEF Remains
<1>3. R \in SUBSET DOMAIN part
  BY DEF Heads
<1>4. Selected(part, R) = Selected(whole, of)
  BY <1>3, SelectedAgain
<1> HIDE DEF order
<1>5. ASSUME NEW k \in K PROVE k \in of
  <2>1. k \in DOMAIN whole /\ k \in places /\ (whole[k] = Gap \/ k = 1 \/ whole[k - 1] = Gap)
    BY DEF Heads
  <2>2. PICK n \in DOMAIN part : order[n] = k /\ part[n] = whole[k]
    BY <1>1, <2>1
  <2>3. n \in R
    <3>1. CASE whole[k] = Gap
      BY <2>2, <3>1 DEF Heads
    <3>2. CASE n = 1
      BY <2>2, <3>2 DEF Heads
    <3>3. CASE whole[k] # Gap /\ n # 1
      <4>1. n - 1 \in DOMAIN part /\ n - 1 < n
        BY <1>1, <3>3
      <4>2. order[n - 1] < k /\ order[n - 1] \in 1 .. Len(whole) /\ order[n - 1] \in places
        BY <1>1, <1>2, <2>2, <4>1
      <4>3. k # 1 /\ whole[k - 1] = Gap
        BY <1>2, <2>1, <3>3, <4>2
      <4>4. k - 1 \in DOMAIN whole
        BY <1>2, <2>1, <4>3
      <4>5. k - 1 \in places
        BY <4>3, <4>4 DEF Heads
      <4>6. PICK m \in DOMAIN part : order[m] = k - 1 /\ part[m] = whole[k - 1]
        BY <1>1, <4>5
      <4>7. m = n - 1
        <5>1. ~(m < n - 1)
          BY <1>1, <1>2, <2>1, <4>1, <4>2, <4>6
        <5>2. ~(n < m) /\ m # n
          BY <1>1, <1>2, <2>1, <2>2, <4>6
        <5> QED BY <1>1, <5>1, <5>2
      <4> QED BY <4>3, <4>6, <4>7 DEF Heads
    <3> QED BY <3>1, <3>2, <3>3
  <2> QED BY <2>2, <2>3
<1>6. ASSUME NEW n \in R PROVE order[n] \in K
  <2> DEFINE k == order[n]
  <2>1. n \in DOMAIN part /\ (part[n] = Gap \/ n = 1 \/ part[n - 1] = Gap)
    BY DEF Heads
  <2>2. k \in places /\ k \in DOMAIN whole /\ part[n] = whole[k]
    BY <1>1, <1>2, <2>1
  <2> SUFFICES ASSUME whole[k] # Gap, k # 1, whole[k - 1] # Gap PROVE FALSE
    BY <2>2 DEF Heads
  <2>3. k - 1 \in DOMAIN whole /\ k \in Nat
    BY <1>2, <2>2
  \* The place in front of k is left out, so what is before it in the part is further away.
  <2>4. CASE n = 1
    <3>1. 1 \in Heads(whole) /\ 1 \in places
      BY <1>2, <2>2 DEF Heads
    <3>2. PICK m \in DOMAIN part : order[m] = 1
      BY <1>1, <3>1
    <3>3. ~(1 < m)
      BY <1>1, <1>2, <2>1, <2>2, <2>4, <3>2
    <3> QED BY <1>1, <2>4, <3>2, <3>3
  <2>5. CASE n # 1
    <3> DEFINE g == order[n - 1]
    <3>1. n - 1 \in DOMAIN part /\ n - 1 < n
      BY <1>1, <2>1, <2>5
    <3>2. part[n - 1] = Gap
      BY <2>1, <2>2, <2>5
    <3>3. g \in places /\ g \in DOMAIN whole /\ whole[g] = Gap /\ g < k
      BY <1>1, <1>2, <2>1, <3>1, <3>2
    <3>4. g # k - 1
      BY <3>3
    <3>5. g + 1 \in DOMAIN whole /\ g + 1 < k /\ (g + 1) - 1 = g
      BY <1>2, <2>2, <2>3, <3>3, <3>4
    <3>6. g + 1 \in places
      BY <3>3, <3>5 DEF Heads
    <3>7. PICK m \in DOMAIN part : order[m] = g + 1
      BY <1>1, <3>6
    <3>8. ~(m < n - 1) /\ m # n - 1
      BY <1>1, <1>2, <3>1, <3>3, <3>7
    <3>9. ~(n < m) /\ m # n
      BY <1>1, <1>2, <2>1, <2>3, <3>5, <3>7
    <3> QED BY <1>1, <2>1, <3>8, <3>9
  <2> QED BY <2>4, <2>5
<1>7. of = K
  BY <1>5, <1>6
<1>8. Selected(part, R) = Selected(whole, K)
  BY <1>4, <1>7
<1> QED BY <1>8 DEF Outline, Heads

\* Something besides gaps.
Speaks(text) == \E k \in DOMAIN text : text[k] # Gap

LEMMA PartSpeaks ==
  ASSUME NEW S, NEW whole, NEW places, NEW part, Remains(part, whole, places, S),
         NEW k \in places, whole[k] # Gap
  PROVE  Speaks(part)
BY PartFacts DEF Speaks

LEMMA SpeakingIsSaid ==
  ASSUME NEW S, NEW text \in Seq(S), NEW fillers
  PROVE  /\ Says(text, fillers) # <<>> <=> \E k \in DOMAIN text : text[k] \notin fillers \cup {Gap}
         /\ Says(text, {}) # <<>> <=> Speaks(text)
<1>1. ASSUME NEW F
      PROVE  Says(text, F) # <<>> <=> \E k \in DOMAIN text : text[k] \notin F \cup {Gap}
  <2> DEFINE K == {k \in DOMAIN text : text[k] \notin F \cup {Gap}}
  <2>1. Selected(text, K) # <<>> <=> K # {}
    BY SelectedSome
  <2> QED BY <2>1 DEF Says
<1>2. Says(text, {}) # <<>> <=> \E k \in DOMAIN text : text[k] \notin {} \cup {Gap}
  BY <1>1
<1> QED BY <1>1, <1>2 DEF Speaks

LEMMA TrimmingLeavesOut ==
  ASSUME NEW S, NEW text \in Seq(S), NEW a
  PROVE  \E P : /\ Remains(EcoTrimming(text, a), text, P, S)
                /\ \A k \in DOMAIN text :
                     text[k] \notin (IF a # None THEN Fillers[a] ELSE {}) \cup {Gap} => k \in P
<1>1. CASE a = None
  <2>1. EcoTrimming(text, a) = text
    BY <1>1 DEF EcoTrimming
  <2>2. Remains(text, text, DOMAIN text, S)
    BY WholeIsPart
  <2> QED BY <2>1, <2>2
<1>2. CASE a # None
  <2> DEFINE dropped == {k \in DOMAIN text : \E j \in 1 .. k :
                           /\ text[j] \in Fillers[a]
                           /\ \A i \in j + 1 .. k : text[i] \in Fillers[a] \cup {Gap}}
             P == DOMAIN text \ dropped
  <2>1. EcoTrimming(text, a) = Selected(text, P)
    BY <1>2 DEF EcoTrimming
  <2>2. ASSUME NEW k \in DOMAIN text, k \in dropped PROVE text[k] \in Fillers[a] \cup {Gap}
    <3>1. PICK j \in 1 .. k : /\ text[j] \in Fillers[a]
                              /\ \A i \in j + 1 .. k : text[i] \in Fillers[a] \cup {Gap}
      BY <2>2
    <3>2. k \in Nat
      OBVIOUS
    <3>3. j = k \/ k \in j + 1 .. k
      BY <3>2
    <3> QED BY <3>1, <3>3
  <2> HIDE DEF dropped
  <2>3. Remains(EcoTrimming(text, a), text, P, S)
    BY <2>1 DEF Remains
  <2>4. \A k \in DOMAIN text : text[k] \notin Fillers[a] \cup {Gap} => k \in P
    BY <2>2
  <2> QED BY <1>2, <2>3, <2>4
<1> QED BY <1>1, <1>2

\* A paragraph opens with its first sentence.
LEMMA HeadsAreFirst ==
  ASSUME NEW S, NEW text \in Seq(S), NEW k \in Heads(text), text[k] # Gap
  PROVE  SentenceOf(text, k) = 1 /\ SentenceCount(text, k) \in Nat
<1>1. DOMAIN text = 1 .. Len(text) /\ Len(text) \in Nat /\ k \in 1 .. Len(text)
  BY DEF Heads
<1>2. {j \in Paragraph(text, k) : j < k /\ text[j] = Stop} = {}
  <2> SUFFICES ASSUME NEW j \in Paragraph(text, k), j < k PROVE FALSE
    OBVIOUS
  <2>1. j \in 1 .. Len(text) /\ \A i \in (j .. k) \cup (k .. j) : text[i] # Gap
    BY <1>1 DEF Paragraph
  <2>2. k # 1 /\ k - 1 \in j .. k
    BY <1>1, <2>1
  <2> QED BY <2>1, <2>2 DEF Heads
<1>3. SentenceOf(text, k) = 1
  <2> DEFINE ended == {j \in Paragraph(text, k) : j < k /\ text[j] = Stop}
  <2>1. Cardinality(ended) = 0
    BY <1>2, FS_EmptySet
  <2>2. SentenceOf(text, k) = 1 + Cardinality(ended)
    BY DEF SentenceOf
  <2> HIDE DEF ended
  <2> QED BY <2>1, <2>2
<1>4. SentenceCount(text, k) \in Nat
  <2> DEFINE T == Paragraph(text, k)
             N == {SentenceOf(text, j) : j \in T}
             number == [j \in T |-> SentenceOf(text, j)]
  <2>1. IsFiniteSet(T)
    <3>1. T \in SUBSET (1 .. Len(text)) /\ IsFiniteSet(1 .. Len(text))
      BY <1>1, FS_Interval DEF Paragraph
    <3> HIDE DEF T
    <3> QED BY <3>1, FS_Subset
  <2>2. number \in Surjection(T, N)
    BY DEF Surjection
  <2>3. SentenceCount(text, k) = Cardinality(N)
    BY DEF SentenceCount
  <2> HIDE DEF T, N, number
  <2>4. IsFiniteSet(N)
    BY <2>1, <2>2, FS_Surjection
  <2> QED BY <2>3, <2>4, FS_CardinalityType
<1> QED BY <1>3, <1>4

LEMMA PruningLeavesOut ==
  ASSUME NEW S, NEW text \in Seq(S), NEW a \in None .. 3
  PROVE  \E P : /\ Remains(Pruning(text, a), text, P, S)
                /\ Heads(text) \subseteq P
                /\ a = None => Pruning(text, a) = text
<1>1. CASE a = None
  <2>1. Pruning(text, a) = text
    BY <1>1 DEF Pruning
  <2>2. Remains(text, text, DOMAIN text, S) /\ Heads(text) \subseteq DOMAIN text
    BY WholeIsPart DEF Heads
  <2> QED BY <2>1, <2>2
<1>2. CASE a # None
  <2> DEFINE share(count) == (count * (10 - 2 * a)) \div 10
             kept(count) == IF share(count) = 0 THEN 1 ELSE share(count)
             P == {k \in DOMAIN text : text[k] = Gap \/ SentenceOf(text, k) <= kept(SentenceCount(text, k))}
  <2>1. Pruning(text, a) = Selected(text, P)
    BY <1>2 DEF Pruning
  <2>2. a \in 1 .. 3 /\ 10 - 2 * a \in Nat
    BY <1>2 DEF None
  <2>3. ASSUME NEW count \in Nat PROVE 1 <= kept(count)
    <3> DEFINE v == count * (10 - 2 * a)
    <3>1. v \in Nat
      BY <2>2
    <3>2. share(count) = v \div 10
      OBVIOUS
    <3> HIDE DEF v, share
    <3>3. share(count) \in Nat
      BY <3>1, <3>2
    <3> QED BY <3>3
  <2> HIDE DEF kept
  <2>4. ASSUME NEW k \in Heads(text) PROVE k \in P
    <3>1. k \in DOMAIN text
      BY DEF Heads
    <3>2. CASE text[k] = Gap
      BY <3>1, <3>2
    <3>3. CASE text[k] # Gap
      <4>1. SentenceOf(text, k) = 1 /\ SentenceCount(text, k) \in Nat
        BY <3>3, HeadsAreFirst
      <4>2. 1 <= kept(SentenceCount(text, k))
        BY <2>3, <4>1
      <4> QED BY <3>1, <4>1, <4>2
    <3> QED BY <3>2, <3>3
  <2>5. P \in SUBSET DOMAIN text
    OBVIOUS
  <2> HIDE DEF P
  <2>6. Remains(Pruning(text, a), text, P, S)
    BY <2>1, <2>5 DEF Remains
  <2> QED BY <1>2, <2>4, <2>6
<1> QED BY <1>1, <1>2

LEMMA FilteringLeavesOut ==
  ASSUME NEW S, NEW text \in Seq(S), NEW query, NEW a
  PROVE  \E P : /\ Remains(QueryFiltering(text, query, a), text, P, S)
                /\ Speaks(text) => \E k \in P : text[k] # Gap
                /\ a = None => QueryFiltering(text, query, a) = text
<1> DEFINE relevant == Relevant(text, query, a)
           gaps == {g \in DOMAIN text :
                      /\ text[g] = Gap
                      /\ \E k \in relevant : k < g
                      /\ \E k \in relevant : k > g /\ \A i \in g + 1 .. k : text[i] # Gap}
           all == a = None \/ query \subseteq Stopwords \/ relevant = {}
           result == QueryFiltering(text, query, a)
<1>1. result = IF all THEN text ELSE Selected(text, relevant \cup gaps)
  BY DEF QueryFiltering
<1>2. relevant \in SUBSET DOMAIN text /\ \A k \in relevant : text[k] # Gap
  BY DEF Relevant
<1>3. gaps \in SUBSET DOMAIN text
  OBVIOUS
<1>4. CASE all
  <2>1. result = text
    BY <1>1, <1>4
  <2>2. Remains(text, text, DOMAIN text, S)
    BY WholeIsPart
  <2>3. Speaks(text) => \E k \in DOMAIN text : text[k] # Gap
    BY DEF Speaks
  <2> QED BY <2>1, <2>2, <2>3
<1>5. CASE ~all
  <2> HIDE DEF relevant, gaps
  <2>1. result = Selected(text, relevant \cup gaps) /\ relevant # {} /\ a # None
    BY <1>1, <1>5
  <2>2. Remains(result, text, relevant \cup gaps, S)
    BY <1>2, <1>3, <2>1 DEF Remains
  <2>3. \E k \in relevant \cup gaps : text[k] # Gap
    BY <1>2, <2>1
  <2> QED BY <2>1, <2>2, <2>3
<1> QED BY <1>4, <1>5

\* What comes first in a text besides gaps opens a paragraph.
LEMMA SpeakingOpens ==
  ASSUME NEW S, NEW text \in Seq(S), Speaks(text)
  PROVE  \E k \in Heads(text) : text[k] # Gap
<1> DEFINE K == {k \in DOMAIN text : text[k] # Gap}
<1>1. DOMAIN text = 1 .. Len(text) /\ Len(text) \in Nat /\ K \in SUBSET Nat /\ K # {}
  BY DEF Speaks
<1>2. PICK k \in K : \A j \in K : k <= j
  <2> HIDE DEF K
  <2> QED BY <1>1, LeastPlace
<1>3. k = 1 \/ text[k - 1] = Gap
  <2>1. k # 1 => k - 1 \in DOMAIN text /\ ~(k <= k - 1)
    BY <1>1
  <2>2. k # 1 => k - 1 \notin K
    BY <1>2, <2>1
  <2> QED BY <2>1, <2>2
<1> QED BY <1>2, <1>3 DEF Heads

\* However long a text: the lossy passes do nothing unless they are asked for and only
\* leave out; trimming alone no more than fillers and the gaps behind them, pruning alone no
\* gap and no word that opens a paragraph; and of a text that says anything but the
\* fillers that are trimmed something is left.
THEOREM PassesLeaveOut == Spec => []PassesOnlyDrop
<1>1. InputType => PassesOnlyDrop
  <2> SUFFICES ASSUME InputType, subject = "passes", NEW config \in Configs, NEW query \in Queries
               PROVE  LET text == FlattenSeq(input)
                          result == ApplyLossyPasses(text, config, query)
                          trims == config.eco /\ config.aggression # None
                          fillers == IF trims THEN Fillers[config.aggression] ELSE {}
                      IN  /\ config.aggression = None
                             \/ ~(config.eco \/ config.pruning \/ config.query)
                             => result = text
                          /\ Subsequence(result, text)
                          /\ ~config.pruning /\ ~config.query =>
                               Says(result, fillers) = Says(text, fillers)
                          /\ ~config.eco /\ ~config.query => Outline(result) = Outline(text)
                          /\ Says(text, fillers) # <<>> => Says(result, {}) # <<>>
    BY DEF PassesOnlyDrop
  <2> DEFINE S == UNION {ToSet(t) : t \in Elements["passes"]}
             text == FlattenSeq(input)
             a == config.aggression
             trimmed == IF config.eco THEN EcoTrimming(text, a) ELSE text
             pruned == IF config.pruning THEN Pruning(trimmed, a) ELSE trimmed
             result == ApplyLossyPasses(text, config, query)
             trims == config.eco /\ a # None
             fillers == IF trims THEN Fillers[a] ELSE {}
  <2>1. a \in None .. 3 /\ config.eco \in BOOLEAN /\ config.pruning \in BOOLEAN
        /\ config.query \in BOOLEAN
    BY InputAssumption
  <2>2. text \in Seq(S)
    <3>1. input \in Seq(Elements["passes"]) /\ "passes" \in DOMAIN Elements
      BY DEF InputType
    <3>2. \A t \in Elements["passes"] : t \in Seq(ToSet(t)) /\ ToSet(t) \subseteq S
      BY <3>1, InputAssumption
    <3> HIDE DEF S
    <3>3. \A t \in Elements["passes"] : t \in Seq(S)
      BY <3>2
    <3>4. input \in Seq(Seq(S))
      BY <3>1, <3>3
    <3>5. FlattenSeq(<<>>) \in Seq(S)
      BY FlattenEmpty, EmptySeq
    <3> QED BY <3>4, <3>5, FlattenType
  <2>3. result = IF config.query THEN QueryFiltering(pruned, query, a) ELSE pruned
    BY DEF ApplyLossyPasses
  <2> HIDE DEF text, S, a
  <2>4. PICK P : /\ Remains(trimmed, text, P, S)
                 /\ \A k \in DOMAIN text : text[k] \notin fillers \cup {Gap} => k \in P
                 /\ ~trims => trimmed = text
    <3>1. CASE config.eco
      <4>1. trimmed = EcoTrimming(text, a) /\ fillers = IF a # None THEN Fillers[a] ELSE {}
        BY <3>1
      <4>2. ~trims => trimmed = text
        BY <3>1, <4>1 DEF EcoTrimming
      <4> HIDE DEF trimmed, fillers
      <4>3. PICK P : /\ Remains(EcoTrimming(text, a), text, P, S)
                     /\ \A k \in DOMAIN text :
                          text[k] \notin (IF a # None THEN Fillers[a] ELSE {}) \cup {Gap} => k \in P
        BY <2>2, TrimmingLeavesOut
      <4> QED BY <4>1, <4>2, <4>3
    <3>2. CASE ~config.eco
      <4>1. trimmed = text
        BY <3>2
      <4>2. Remains(text, text, DOMAIN text, S)
        BY <2>2, WholeIsPart
      <4> QED BY <4>1, <4>2
    <3> QED BY <3>1, <3>2
  <2> HIDE DEF trimmed
  <2>5. trimmed \in Seq(S)
    BY <2>4, PartFacts
  <2>6. PICK R : /\ Remains(pruned, trimmed, R, S) /\ Heads(trimmed) \subseteq R
                 /\ ~config.pruning \/ a = None => pruned = trimmed
    <3>1. CASE config.pruning
      BY <2>1, <2>5, <3>1, PruningLeavesOut
    <3>2. CASE ~config.pruning
      <4>1. pruned = trimmed
        BY <3>2
      <4>2. Remains(trimmed, trimmed, DOMAIN trimmed, S) /\ Heads(trimmed) \subseteq DOMAIN trimmed
        BY <2>5, WholeIsPart DEF Heads
      <4> QED BY <4>1, <4>2
    <3> QED BY <3>1, <3>2
  <2> HIDE DEF pruned
  <2>7. pruned \in Seq(S)
    BY <2>6, PartFacts
  <2>8. PICK T : /\ Remains(result, pruned, T, S)
                 /\ Speaks(pruned) => \E k \in T : pruned[k] # Gap
                 /\ ~config.query \/ a = None => result = pruned
    <3>1. CASE config.query
      BY <2>3, <2>7, <3>1, FilteringLeavesOut
    <3>2. CASE ~config.query
      <4>1. result = pruned
        BY <2>3, <3>2
      <4>2. Remains(pruned, pruned, DOMAIN pruned, S)
        BY <2>7, WholeIsPart
      <4> HIDE DEF result
      <4> QED BY <4>1, <4>2 DEF Speaks
    <3> QED BY <3>1, <3>2
  <2> HIDE DEF result
  <2>9. a = None \/ ~(config.eco \/ config.pruning \/ config.query) => result = text
    BY <2>4, <2>6, <2>8
  <2>10. Subsequence(result, text)
    <3>1. \E Q : Remains(pruned, text, Q, S)
      BY <2>4, <2>6, RemainsOfRemains
    <3>2. \E Q : Remains(result, text, Q, S)
      BY <2>8, <3>1, RemainsOfRemains
    <3> QED BY <3>2, PartIsSubsequence
  <2>11. ~config.pruning /\ ~config.query => Says(result, fillers) = Says(text, fillers)
    <3>1. Says(trimmed, fillers) = Says(text, fillers)
      <4> HIDE DEF fillers
      <4> QED BY <2>4, SaysTheSame
    <3> QED BY <2>6, <2>8, <3>1
  <2>12. ~config.eco /\ ~config.query => Outline(result) = Outline(text)
    <3>1. Outline(pruned) = Outline(trimmed)
      BY <2>6, OutlineIsKept
    <3> QED BY <2>4, <2>8, <3>1
  <2>13. Says(text, fillers) # <<>> => Says(result, {}) # <<>>
    <3> SUFFICES ASSUME Says(text, fillers) # <<>> PROVE Says(result, {}) # <<>>
      OBVIOUS
    <3> HIDE DEF fillers
    <3>1. PICK k \in DOMAIN text : text[k] \notin fillers \cup {Gap}
      BY <2>2, SpeakingIsSaid
    <3>2. k \in P /\ text[k] # Gap
      BY <2>4, <3>1
    <3>3. Speaks(trimmed)
      BY <2>4, <3>2, PartSpeaks
    <3>4. PICK h \in Heads(trimmed) : trimmed[h] # Gap
      BY <2>5, <3>3, SpeakingOpens
    <3>5. Speaks(pruned)
      BY <2>6, <3>4, PartSpeaks
    <3>6. Speaks(result)
      BY <2>8, <3>5, PartSpeaks
    <3>7. result \in Seq(S)
      BY <2>8, PartFacts
    <3> QED BY <3>6, <3>7, SpeakingIsSaid
  <2> QED BY <2>9, <2>10, <2>11, <2>12, <2>13 DEF text, a, result
<1> QED BY <1>1, InputTyping, PTL

------------------------------------------------------------------------------
(***************************************************************************)
(* The chunks of a stream.                                                 *)
(***************************************************************************)
EndKinds == {"length", "tool_calls", "content_filter", "stop"}
Chunk(Q) == [kind : {"content", "call"} \cup EndKinds, of : Seq(Q), index : Nat]
ChunkOf(Q, kind) == {c \in Chunk(Q) : c.kind = kind}
EndOf(Q) == {c \in Chunk(Q) : c.kind \notin {"content", "call"}}
TextOf(Q) == {p \in Q : IsText(p)}
CallOf(Q) == {p \in Q : IsCall(p)}

LEMMA PartsAreKept ==
  ASSUME NEW Q, NEW parts \in Seq(Q)
  PROVE  /\ Texts(parts) = Kept(parts, TextOf(Q)) /\ Texts(parts) \in Seq(Q)
         /\ Calls(parts) = Kept(parts, CallOf(Q)) /\ Calls(parts) \in Seq(Q)
<1>1. \A k \in DOMAIN parts : parts[k] \in Q
  OBVIOUS
<1>2. {k \in DOMAIN parts : IsText(parts[k])} = {k \in DOMAIN parts : parts[k] \in TextOf(Q)}
  BY <1>1 DEF TextOf
<1>3. {k \in DOMAIN parts : IsCall(parts[k])} = {k \in DOMAIN parts : parts[k] \in CallOf(Q)}
  BY <1>1 DEF CallOf
<1> QED BY <1>2, <1>3, KeptType DEF Texts, Calls, Kept

LEMMA ChunksAreKept ==
  ASSUME NEW Q, NEW chunks \in Seq(Chunk(Q))
  PROVE  /\ \A kind : /\ OfKind(chunks, kind) = Kept(chunks, ChunkOf(Q, kind))
                      /\ OfKind(chunks, kind) \in Seq(Chunk(Q))
         /\ Ends(chunks) = Kept(chunks, EndOf(Q)) /\ Ends(chunks) \in Seq(Chunk(Q))
<1>1. \A k \in DOMAIN chunks : chunks[k] \in Chunk(Q)
  OBVIOUS
<1>2. \A kind : {k \in DOMAIN chunks : chunks[k].kind = kind}
                  = {k \in DOMAIN chunks : chunks[k] \in ChunkOf(Q, kind)}
  BY <1>1 DEF ChunkOf
<1>3. {k \in DOMAIN chunks : chunks[k].kind \notin {"content", "call"}}
        = {k \in DOMAIN chunks : chunks[k] \in EndOf(Q)}
  BY <1>1 DEF EndOf
<1> QED BY <1>2, <1>3, KeptType DEF OfKind, Ends, Kept

Pieces(of) == [k \in DOMAIN of |-> of[k].of]

LEMMA PiecesConcat ==
  ASSUME NEW Q, NEW a \in Seq(Chunk(Q)), NEW b \in Seq(Chunk(Q))
  PROVE  /\ Pieces(a) \in Seq(Seq(Q)) /\ Pieces(b) \in Seq(Seq(Q))
         /\ Pieces(a \o b) = Pieces(a) \o Pieces(b)
<1> DEFINE n == Len(a)
           m == Len(b)
           w == a \o b
           x == Pieces(a)
           y == Pieces(b)
<1>1. /\ n \in Nat /\ m \in Nat /\ DOMAIN a = 1 .. n /\ DOMAIN b = 1 .. m
      /\ \A k \in 1 .. n : a[k].of \in Seq(Q)
      /\ \A k \in 1 .. m : b[k].of \in Seq(Q)
  <2>1. /\ n \in Nat /\ m \in Nat /\ DOMAIN a = 1 .. n /\ DOMAIN b = 1 .. m
        /\ \A k \in 1 .. n : a[k] \in Chunk(Q)
        /\ \A k \in 1 .. m : b[k] \in Chunk(Q)
    OBVIOUS
  <2>2. \A c \in Chunk(Q) : c.of \in Seq(Q)
    BY DEF Chunk
  <2> QED BY <2>1, <2>2
<1>2. /\ Len(w) = n + m /\ DOMAIN w = 1 .. n + m
      /\ \A k \in 1 .. n + m : w[k] = IF k <= n THEN a[k] ELSE b[k - n]
  <2>1. w \in Seq(Chunk(Q)) /\ Len(w) = n + m
    BY ConcatProperties
  <2> HIDE DEF w
  <2>2. DOMAIN w = 1 .. n + m
    BY <2>1
  <2> QED BY <2>1, <2>2, ConcatProperties DEF w
<1> HIDE DEF n, m, w
<1>3. x = [k \in 1 .. n |-> a[k].of] /\ y = [k \in 1 .. m |-> b[k].of]
  BY <1>1 DEF Pieces
<1>4. x \in Seq(Seq(Q)) /\ y \in Seq(Seq(Q)) /\ Len(x) = n /\ Len(y) = m
  <2> HIDE DEF x, y
  <2>1. x \in [1 .. n -> Seq(Q)] /\ y \in [1 .. m -> Seq(Q)]
    BY <1>1, <1>3
  <2> QED BY <1>1, <2>1
<1>5. \A k \in 1 .. n : x[k] = a[k].of
  BY <1>3
<1>6. \A k \in 1 .. m : y[k] = b[k].of
  BY <1>3
<1> HIDE DEF x, y
<1> DEFINE z == x \o y
           k == n + m
<1>7. z \in Seq(Seq(Q)) /\ Len(z) = k /\ k \in Nat
      /\ \A i \in 1 .. k : z[i] = IF i <= n THEN x[i] ELSE y[i - n]
  <2> DEFINE T == Seq(Q)
  <2>1. x \in Seq(T) /\ y \in Seq(T) /\ n = Len(x) /\ m = Len(y)
    BY <1>4
  <2> HIDE DEF T
  <2>2. /\ z \in Seq(T) /\ Len(z) = Len(x) + Len(y)
        /\ \A i \in 1 .. Len(x) + Len(y) : z[i] = IF i <= Len(x) THEN x[i] ELSE y[i - Len(x)]
    BY <2>1, ConcatProperties
  <2> HIDE DEF z
  <2>3. k = Len(x) + Len(y) /\ k \in Nat
    BY <1>1, <2>1
  <2> HIDE DEF k
  <2> QED BY <2>1, <2>2, <2>3 DEF T
<1>8. \A i \in 1 .. k : w[i].of = z[i]
  <2> SUFFICES ASSUME NEW i \in 1 .. k PROVE w[i].of = z[i]
    OBVIOUS
  <2>1. CASE i \in 1 .. n
    <3>1. i <= n /\ w[i] = a[i] /\ z[i] = x[i]
      BY <1>1, <1>2, <1>7, <2>1
    <3> QED BY <1>5, <2>1, <3>1
  <2>2. CASE i \notin 1 .. n
    <3>1. i - n \in 1 .. m /\ ~(i <= n)
      BY <1>1, <2>2
    <3>2. w[i] = b[i - n] /\ z[i] = y[i - n]
      BY <1>2, <1>7, <3>1
    <3> QED BY <1>6, <3>1, <3>2
  <2> QED BY <2>1, <2>2
<1>9. Pieces(w) = [i \in 1 .. k |-> w[i].of]
  BY <1>2 DEF Pieces
<1> HIDE DEF z, k
<1>10. z = [i \in 1 .. k |-> z[i]]
  BY <1>7
<1>11. Pieces(w) = z
  BY <1>8, <1>9, <1>10
<1> QED BY <1>4, <1>11 DEF w, x, y, z

LEMMA ContentConcat ==
  ASSUME NEW Q, NEW a \in Seq(Chunk(Q)), NEW b \in Seq(Chunk(Q))
  PROVE  Content(a) \in Seq(Q) /\ Content(a \o b) = Content(a) \o Content(b)
<1> DEFINE G == ChunkOf(Q, "content")
           x == Kept(a, G)
           y == Kept(b, G)
<1>1. a \o b \in Seq(Chunk(Q)) /\ x \in Seq(Chunk(Q)) /\ y \in Seq(Chunk(Q))
  BY ConcatProperties, KeptType
<1>2. Content(a) = FlattenSeq(Pieces(x)) /\ Content(b) = FlattenSeq(Pieces(y))
      /\ Content(a \o b) = FlattenSeq(Pieces(Kept(a \o b, G)))
  BY <1>1, ChunksAreKept DEF Content, Pieces
<1>3. Kept(a \o b, G) = x \o y
  BY KeptConcat
<1> HIDE DEF x, y, G
<1>4. Pieces(x) \in Seq(Seq(Q)) /\ Pieces(y) \in Seq(Seq(Q)) /\ Pieces(x \o y) = Pieces(x) \o Pieces(y)
  BY <1>1, PiecesConcat
<1> DEFINE u == Pieces(x)
           v == Pieces(y)
<1>5. u \in Seq(Seq(Q)) /\ v \in Seq(Seq(Q)) /\ Content(a \o b) = FlattenSeq(u \o v)
      /\ Content(a) = FlattenSeq(u) /\ Content(b) = FlattenSeq(v)
  BY <1>2, <1>3, <1>4
<1> HIDE DEF u, v
<1>6. FlattenSeq(u \o v) = FlattenSeq(u) \o FlattenSeq(v) /\ FlattenSeq(u) \in Seq(Q)
  BY <1>5, FlattenConcat, FlattenType
<1> QED BY <1>5, <1>6

\* The chunks of one event: its text, its calls, its end.
TextChunk(event) ==
  IF Texts(event.parts) = <<>> THEN <<>>
  ELSE <<[kind |-> "content", of |-> Texts(event.parts), index |-> 0]>>
CallChunks(event) ==
  [k \in DOMAIN Calls(event.parts) |->
     [kind |-> "call", of |-> <<Calls(event.parts)[k]>>, index |-> k - 1]]
EndChunk(event) ==
  IF event.finish \in {"none", "blocked"} THEN <<>>
  ELSE <<[kind |-> FinishReason(event.finish, Calls(event.parts) # <<>>),
          of |-> <<>>, index |-> 0]>>

LEMMA ChunksOfEvent ==
  ASSUME NEW event
  PROVE  TranslateStreamChunk(event) = TextChunk(event) \o CallChunks(event) \o EndChunk(event)
BY DEF TranslateStreamChunk, TextChunk, CallChunks, EndChunk

\* Sequences of one kind, by the set their elements are in.
LEMMA ChunkTypes ==
  ASSUME NEW Q, NEW event, event.parts \in Seq(Q)
  PROVE  /\ TextChunk(event) \in Seq(ChunkOf(Q, "content"))
         /\ CallChunks(event) \in Seq(ChunkOf(Q, "call"))
         /\ EndChunk(event) \in Seq(EndOf(Q))
<1> DEFINE texts == Texts(event.parts)
           calls == Calls(event.parts)
<1>1. texts \in Seq(Q) /\ calls \in Seq(Q) /\ <<>> \in Seq(Q)
  BY PartsAreKept, EmptySeq
<1>2. DOMAIN calls = 1 .. Len(calls) /\ Len(calls) \in Nat
      /\ \A k \in 1 .. Len(calls) : <<calls[k]>> \in Seq(Q)
  <2> HIDE DEF calls
  <2>1. DOMAIN calls = 1 .. Len(calls) /\ Len(calls) \in Nat
        /\ \A k \in 1 .. Len(calls) : calls[k] \in Q
    BY <1>1
  <2> QED BY <2>1
<1>3. TextChunk(event) \in Seq(ChunkOf(Q, "content"))
  <2> DEFINE c == [kind |-> "content", of |-> texts, index |-> 0]
  <2>1. c \in ChunkOf(Q, "content")
    BY <1>1 DEF ChunkOf, Chunk
  <2>2. TextChunk(event) = IF texts = <<>> THEN <<>> ELSE <<c>>
    BY DEF TextChunk
  <2> HIDE DEF c
  <2> QED BY <2>1, <2>2, EmptySeq
<1>4. CallChunks(event) \in Seq(ChunkOf(Q, "call"))
  <2> DEFINE c(k) == [kind |-> "call", of |-> <<calls[k]>>, index |-> k - 1]
             n == Len(calls)
  <2>1. \A k \in 1 .. n : c(k) \in ChunkOf(Q, "call")
    BY <1>2 DEF ChunkOf, Chunk
  <2>2. CallChunks(event) = [k \in 1 .. n |-> c(k)]
    BY <1>2 DEF CallChunks
  <2>3. n \in Nat
    BY <1>2
  <2> HIDE DEF c, n
  <2> QED BY <2>1, <2>2, <2>3
<1>5. EndChunk(event) \in Seq(EndOf(Q))
  <2> DEFINE r == FinishReason(event.finish, calls # <<>>)
             c == [kind |-> r, of |-> <<>>, index |-> 0]
  <2>1. r \in EndKinds
    <3> HIDE DEF calls
    <3> QED BY DEF FinishReason, EndKinds
  <2>2. r \notin {"content", "call"}
    BY <2>1 DEF EndKinds
  <2>3. EndChunk(event) = IF event.finish \in {"none", "blocked"} THEN <<>> ELSE <<c>>
    BY DEF EndChunk
  <2> HIDE DEF r
  <2>4. c \in EndOf(Q)
    BY <1>1, <2>1, <2>2 DEF EndOf, Chunk
  <2> HIDE DEF c
  <2> QED BY <2>3, <2>4, EmptySeq
<1> QED BY <1>3, <1>4, <1>5

\* Filtering what lies in one set.
LEMMA KeptOfKind ==
  ASSUME NEW S, NEW K \in SUBSET S, NEW s \in Seq(K), NEW G
  PROVE  /\ s \in Seq(S)
         /\ K \subseteq G => Kept(s, G) = s
         /\ K \cap G = {} => Kept(s, G) = <<>>
<1>1. s \in Seq(S) /\ \A k \in 1 .. Len(s) : s[k] \in K
  OBVIOUS
<1>2. K \subseteq G => Kept(s, G) = s
  <2> SUFFICES ASSUME K \subseteq G PROVE Kept(s, G) = s
    OBVIOUS
  <2>1. \A k \in 1 .. Len(s) : s[k] \in G
    BY <1>1
  <2> QED BY <1>1, <2>1, KeptAll
<1>3. K \cap G = {} => Kept(s, G) = <<>>
  <2> SUFFICES ASSUME K \cap G = {} PROVE Kept(s, G) = <<>>
    OBVIOUS
  <2>1. \A k \in 1 .. Len(s) : s[k] \notin G
    BY <1>1
  <2> QED BY <1>1, <2>1, KeptNone
<1> QED BY <1>1, <1>2, <1>3

\* What an event's chunks say.
EventFacts(event, Q) ==
  LET chunks == TranslateStreamChunk(event)
  IN  /\ chunks \in Seq(Chunk(Q))
      /\ Content(chunks) = Texts(event.parts)
      /\ OfKind(chunks, "call") = CallChunks(event)
      /\ Ends(chunks) = EndChunk(event)

LEMMA EventIsTranslated ==
  ASSUME NEW Q, NEW event, event.parts \in Seq(Q)
  PROVE  EventFacts(event, Q)
<1> DEFINE S == Chunk(Q)
           KT == ChunkOf(Q, "content")
           KC == ChunkOf(Q, "call")
           KE == EndOf(Q)
           t == TextChunk(event)
           c == CallChunks(event)
           e == EndChunk(event)
           chunks == t \o c \o e
<1>1. t \in Seq(KT) /\ c \in Seq(KC) /\ e \in Seq(KE)
  BY ChunkTypes
<1>2. /\ KT \in SUBSET S /\ KC \in SUBSET S /\ KE \in SUBSET S
      /\ KT \cap KC = {} /\ KT \cap KE = {} /\ KC \cap KE = {}
  BY DEF ChunkOf, EndOf
<1> HIDE DEF S, KT, KC, KE, t, c, e
<1>3. t \in Seq(S) /\ c \in Seq(S) /\ e \in Seq(S) /\ t \o c \in Seq(S) /\ chunks \in Seq(S)
  <2>1. t \in Seq(S) /\ c \in Seq(S) /\ e \in Seq(S)
    BY <1>1, <1>2, KeptOfKind
  <2>2. t \o c \in Seq(S)
    BY <2>1, ConcatProperties
  <2> QED BY <2>1, <2>2, ConcatProperties
<1>4. \A G : Kept(chunks, G) = Kept(t, G) \o Kept(c, G) \o Kept(e, G)
  <2> SUFFICES ASSUME NEW G PROVE Kept(chunks, G) = Kept(t, G) \o Kept(c, G) \o Kept(e, G)
    OBVIOUS
  <2>1. Kept(t \o c, G) = Kept(t, G) \o Kept(c, G)
    BY <1>3, KeptConcat
  <2>2. Kept(chunks, G) = Kept(t \o c, G) \o Kept(e, G)
    <3> DEFINE tc == t \o c
    <3>1. tc \in Seq(S) /\ e \in Seq(S) /\ chunks = tc \o e
      BY <1>3
    <3> HIDE DEF tc
    <3>2. Kept(tc \o e, G) = Kept(tc, G) \o Kept(e, G)
      BY <3>1, KeptConcat
    <3> QED BY <3>1, <3>2 DEF tc
  <2> QED BY <2>1, <2>2
<1>5. /\ Kept(t, KT) = t /\ Kept(t, KC) = <<>> /\ Kept(t, KE) = <<>>
      /\ Kept(c, KT) = <<>> /\ Kept(c, KC) = c /\ Kept(c, KE) = <<>>
      /\ Kept(e, KT) = <<>> /\ Kept(e, KC) = <<>> /\ Kept(e, KE) = e
  <2>1. Kept(t, KT) = t /\ Kept(t, KC) = <<>> /\ Kept(t, KE) = <<>>
    BY <1>1, <1>2, KeptOfKind
  <2>2. Kept(c, KT) = <<>> /\ Kept(c, KC) = c /\ Kept(c, KE) = <<>>
    BY <1>1, <1>2, KeptOfKind
  <2>3. Kept(e, KT) = <<>> /\ Kept(e, KC) = <<>> /\ Kept(e, KE) = e
    BY <1>1, <1>2, KeptOfKind
  <2> QED BY <2>1, <2>2, <2>3
<1>6. Kept(chunks, KT) = t /\ Kept(chunks, KC) = c /\ Kept(chunks, KE) = e
  <2>1. \A s \in Seq(S) : s \o <<>> = s /\ <<>> \o s = s
    BY ConcatEmptySeq
  <2>2. <<>> \o <<>> = <<>>
    BY <2>1, EmptySeq
  <2>3. t \o <<>> = t /\ <<>> \o c = c /\ c \o <<>> = c /\ <<>> \o e = e
    BY <1>3, <2>1
  <2> HIDE DEF chunks
  <2>4. Kept(chunks, KT) = t
    <3>1. Kept(chunks, KT) = t \o <<>> \o <<>>
      BY <1>4, <1>5
    <3> QED BY <2>3, <3>1
  <2>5. Kept(chunks, KC) = c
    <3>1. Kept(chunks, KC) = <<>> \o c \o <<>>
      BY <1>4, <1>5
    <3> QED BY <2>3, <3>1
  <2>6. Kept(chunks, KE) = e
    <3>1. Kept(chunks, KE) = <<>> \o <<>> \o e
      BY <1>4, <1>5
    <3> QED BY <2>2, <2>3, <3>1
  <2> QED BY <2>4, <2>5, <2>6
<1>7. chunks = TranslateStreamChunk(event)
  BY ChunksOfEvent DEF t, c, e
<1> HIDE DEF chunks
<1>8. /\ OfKind(chunks, "content") = t /\ OfKind(chunks, "call") = c /\ Ends(chunks) = e
  BY <1>3, <1>6, ChunksAreKept DEF S, KT, KC, KE
<1>9. Content(chunks) = Texts(event.parts)
  <2> DEFINE x == Texts(event.parts)
             p == <<[kind |-> "content", of |-> x, index |-> 0]>>
  <2>1. Content(chunks) = FlattenSeq(Pieces(t)) /\ t = IF x = <<>> THEN <<>> ELSE p
    BY <1>8 DEF Content, Pieces, t, TextChunk
  <2>2. Pieces(<<>>) = <<>> /\ Pieces(p) = <<x>>
    BY DEF Pieces
  <2>3. FlattenSeq(<<x>>) = x
    <3>1. x \in Seq(Q)
      BY PartsAreKept
    <3> HIDE DEF x
    <3> QED BY <3>1, FlattenOne
  <2> HIDE DEF x, p
  <2> QED BY <2>1, <2>2, <2>3, FlattenEmpty DEF x
<1> QED BY <1>3, <1>7, <1>8, <1>9 DEF EventFacts, S, c, e

\* The chunks of events and what the events hold, up to one of them.
StreamedUpTo(f, g, i, Q) ==
  /\ f[i] \in Seq(Chunk(Q)) /\ g[i] \in Seq(Q)
  /\ Content(f[i]) = Texts(g[i])

\* What is appended to a stream is appended to what a client makes of it.
Grows(a, b, p, q, Q) ==
  /\ a \o b \in Seq(Chunk(Q)) /\ p \o q \in Seq(Q)
  /\ Content(a \o b) = Content(a) \o Content(b)
  /\ OfKind(a \o b, "call") = OfKind(a, "call") \o OfKind(b, "call")
  /\ Ends(a \o b) = Ends(a) \o Ends(b)
  /\ Texts(p \o q) = Texts(p) \o Texts(q)
  /\ Calls(p \o q) = Calls(p) \o Calls(q)

LEMMA StreamGrows ==
  ASSUME NEW Q, NEW a \in Seq(Chunk(Q)), NEW b \in Seq(Chunk(Q)), NEW p \in Seq(Q), NEW q \in Seq(Q)
  PROVE  Grows(a, b, p, q, Q)
<1>1. a \o b \in Seq(Chunk(Q)) /\ p \o q \in Seq(Q)
  BY ConcatProperties
<1>2. Content(a \o b) = Content(a) \o Content(b)
  BY ContentConcat
<1> DEFINE w == a \o b
           v == p \o q
<1>3. \A G : Kept(w, G) = Kept(a, G) \o Kept(b, G)
  BY KeptConcat
<1>4. \A G : Kept(v, G) = Kept(p, G) \o Kept(q, G)
  BY KeptConcat
<1>5. w \in Seq(Chunk(Q)) /\ v \in Seq(Q)
  BY <1>1
<1> HIDE DEF w, v
<1>6. OfKind(w, "call") = OfKind(a, "call") \o OfKind(b, "call") /\ Ends(w) = Ends(a) \o Ends(b)
  <2>1. \A chunks \in Seq(Chunk(Q)) :
          /\ OfKind(chunks, "call") = Kept(chunks, ChunkOf(Q, "call"))
          /\ Ends(chunks) = Kept(chunks, EndOf(Q))
    BY ChunksAreKept
  <2> QED BY <1>3, <1>5, <2>1
<1>7. Texts(v) = Texts(p) \o Texts(q) /\ Calls(v) = Calls(p) \o Calls(q)
  BY <1>4, <1>5, PartsAreKept
<1> QED BY <1>1, <1>2, <1>6, <1>7 DEF w, v, Grows

\* A whole answer, event by event.
Streams(events, n, f, g, Q) ==
  /\ n \in Nat \ {0}
  /\ \A i \in 1 .. n : /\ events[i].parts \in Seq(Q)
                       /\ f[i] = IF i = 1 THEN TranslateStreamChunk(events[i])
                                 ELSE f[i - 1] \o TranslateStreamChunk(events[i])
                       /\ g[i] = IF i = 1 THEN events[i].parts
                                 ELSE g[i - 1] \o events[i].parts

LEMMA TextsAreStreamed ==
  ASSUME NEW Q, NEW events, NEW n, NEW f, NEW g, Streams(events, n, f, g, Q)
  PROVE  \A i \in 1 .. n : StreamedUpTo(f, g, i, Q)
<1> DEFINE P == {i \in 0 .. n : i # 0 => StreamedUpTo(f, g, i, Q)}
<1>1. n \in Nat
  BY DEF Streams
<1>2. ASSUME NEW i \in 1 .. n, i - 1 \in P PROVE i \in P
  <2> DEFINE b == TranslateStreamChunk(events[i])
             q == events[i].parts
  <2>1. q \in Seq(Q)
    BY DEF Streams
  <2>2. b \in Seq(Chunk(Q)) /\ Content(b) = Texts(q)
    BY <2>1, EventIsTranslated DEF EventFacts
  <2>3. CASE i = 1
    <3>1. f[i] = b /\ g[i] = q
      BY <2>3 DEF Streams
    <3> HIDE DEF b, q
    <3>2. StreamedUpTo(f, g, i, Q)
      BY <2>1, <2>2, <3>1 DEF StreamedUpTo
    <3> QED BY <1>1, <3>2
  <2>4. CASE i # 1
    <3> DEFINE a == f[i - 1]
               p == g[i - 1]
    <3>1. f[i] = a \o b /\ g[i] = p \o q
      BY <2>4 DEF Streams
    <3>2. a \in Seq(Chunk(Q)) /\ p \in Seq(Q) /\ Content(a) = Texts(p)
      BY <1>1, <1>2, <2>4 DEF StreamedUpTo
    <3> HIDE DEF a, b, p, q
    <3>3. Grows(a, b, p, q, Q)
      BY <2>1, <2>2, <3>2, StreamGrows DEF b, q
    <3>4. StreamedUpTo(f, g, i, Q)
      BY <2>2, <3>1, <3>2, <3>3 DEF StreamedUpTo, Grows, b, q
    <3> QED BY <1>1, <3>4
  <2> QED BY <2>3, <2>4
<1>3. 0 \in P
  BY <1>1
<1> HIDE DEF P
<1>4. \A i \in 0 .. n : i \in P
  BY <1>1, <1>2, <1>3, InductionUp
<1> QED BY <1>1, <1>4 DEF P

\* What the client has so far and what an event adds to it.
Accumulates(a, x, n, S) ==
  /\ n \in Nat \ {0}
  /\ \A i \in 1 .. n : /\ a[i] \in Seq(S) /\ x[i] \in Seq(S)
                       /\ a[i] = IF i = 1 THEN x[i] ELSE a[i - 1] \o x[i]

\* The call chunks, the ends and the calls so far, and those of an event.
CallsSoFar(f, n) == [i \in 1 .. n |-> OfKind(f[i], "call")]
CallsAdded(events, n) == [i \in 1 .. n |-> CallChunks(events[i])]
EndsSoFar(f, n) == [i \in 1 .. n |-> Ends(f[i])]
EndsAdded(events, n) == [i \in 1 .. n |-> EndChunk(events[i])]
HeldSoFar(g, n) == [i \in 1 .. n |-> Calls(g[i])]
HeldAdded(events, n) == [i \in 1 .. n |-> Calls(events[i].parts)]

LEMMA StreamAccumulates ==
  ASSUME NEW Q, NEW events, NEW n, NEW f, NEW g, Streams(events, n, f, g, Q)
  PROVE  /\ Accumulates(CallsSoFar(f, n), CallsAdded(events, n), n, Chunk(Q))
         /\ Accumulates(EndsSoFar(f, n), EndsAdded(events, n), n, Chunk(Q))
         /\ Accumulates(HeldSoFar(g, n), HeldAdded(events, n), n, Q)
<1> DEFINE b(i) == TranslateStreamChunk(events[i])
           q(i) == events[i].parts
           oc(i) == OfKind(f[i], "call")
           cc(i) == CallChunks(events[i])
           oe(i) == Ends(f[i])
           ce(i) == EndChunk(events[i])
           og(i) == Calls(g[i])
           cg(i) == Calls(events[i].parts)
<1>1. n \in Nat \ {0}
  BY DEF Streams
<1>2. ASSUME NEW i \in 1 .. n
      PROVE  /\ oc(i) \in Seq(Chunk(Q)) /\ cc(i) \in Seq(Chunk(Q))
             /\ oe(i) \in Seq(Chunk(Q)) /\ ce(i) \in Seq(Chunk(Q))
             /\ og(i) \in Seq(Q) /\ cg(i) \in Seq(Q)
             /\ oc(i) = IF i = 1 THEN cc(i) ELSE oc(i - 1) \o cc(i)
             /\ oe(i) = IF i = 1 THEN ce(i) ELSE oe(i - 1) \o ce(i)
             /\ og(i) = IF i = 1 THEN cg(i) ELSE og(i - 1) \o cg(i)
  <2>1. q(i) \in Seq(Q)
    BY DEF Streams
  <2>2. b(i) \in Seq(Chunk(Q)) /\ OfKind(b(i), "call") = cc(i) /\ Ends(b(i)) = ce(i)
    BY <2>1, EventIsTranslated DEF EventFacts
  <2>3. f[i] \in Seq(Chunk(Q)) /\ g[i] \in Seq(Q)
    BY TextsAreStreamed DEF StreamedUpTo
  <2>4. /\ oc(i) \in Seq(Chunk(Q)) /\ oe(i) \in Seq(Chunk(Q)) /\ og(i) \in Seq(Q)
    BY <2>3, ChunksAreKept, PartsAreKept
  <2>5. /\ cc(i) \in Seq(Chunk(Q)) /\ ce(i) \in Seq(Chunk(Q)) /\ cg(i) \in Seq(Q)
    BY <2>1, <2>2, ChunksAreKept, PartsAreKept
  <2>6. CASE i = 1
    <3>1. f[i] = b(i) /\ g[i] = q(i)
      BY <2>6 DEF Streams
    <3>2. oc(i) = cc(i) /\ oe(i) = ce(i) /\ og(i) = cg(i)
      <4> HIDE DEF b
      <4> QED BY <2>2, <3>1
    <3> QED BY <2>4, <2>5, <2>6, <3>2
  <2>7. CASE i # 1
    <3> DEFINE u == f[i - 1]
               v == b(i)
               p == g[i - 1]
               r == q(i)
    <3>1. f[i] = u \o v /\ g[i] = p \o r
      BY <2>7 DEF Streams
    <3>2. i - 1 \in 1 .. n
      BY <1>1, <2>7
    <3>3. u \in Seq(Chunk(Q)) /\ p \in Seq(Q)
      BY <3>2, TextsAreStreamed DEF StreamedUpTo
    <3>4. v \in Seq(Chunk(Q)) /\ r \in Seq(Q)
      BY <2>1, <2>2
    <3> HIDE DEF u, v, p, r
    <3>5. Grows(u, v, p, r, Q)
      BY <3>3, <3>4, StreamGrows
    <3>6. /\ OfKind(f[i], "call") = OfKind(u, "call") \o OfKind(v, "call")
          /\ Ends(f[i]) = Ends(u) \o Ends(v) /\ Calls(g[i]) = Calls(p) \o Calls(r)
      BY <3>1, <3>5 DEF Grows
    <3>7. oc(i) = oc(i - 1) \o cc(i) /\ oe(i) = oe(i - 1) \o ce(i) /\ og(i) = og(i - 1) \o cg(i)
      BY <2>2, <3>6 DEF u, v, p, r
    <3> QED BY <2>4, <2>5, <2>7, <3>7
  <2> QED BY <2>6, <2>7
<1> HIDE DEF oc, cc, oe, ce, og, cg
<1>3. \A i \in 1 .. n : i # 1 => i - 1 \in 1 .. n
  BY <1>1
<1>4. Accumulates([i \in 1 .. n |-> oc(i)], [i \in 1 .. n |-> cc(i)], n, Chunk(Q))
  BY <1>1, <1>2, <1>3 DEF Accumulates
<1>5. Accumulates([i \in 1 .. n |-> oe(i)], [i \in 1 .. n |-> ce(i)], n, Chunk(Q))
  BY <1>1, <1>2, <1>3 DEF Accumulates
<1>6. Accumulates([i \in 1 .. n |-> og(i)], [i \in 1 .. n |-> cg(i)], n, Q)
  BY <1>1, <1>2, <1>3 DEF Accumulates
<1> QED BY <1>4, <1>5, <1>6 DEF oc, cc, oe, ce, og, cg, CallsSoFar, CallsAdded,
              EndsSoFar, EndsAdded, HeldSoFar, HeldAdded

\* If one event adds something, it is all there is.
LEMMA OnlyOneAdds ==
  ASSUME NEW S, NEW n, NEW a, NEW x, Accumulates(a, x, n, S), NEW j \in 1 .. n,
         \A i \in 1 .. n : i # j => x[i] = <<>>
  PROVE  a[n] = x[j]
<1> DEFINE P == {i \in 0 .. n : i # 0 => a[i] = IF i < j THEN <<>> ELSE x[j]}
<1>1. n \in Nat /\ n \in 0 .. n /\ n # 0 /\ j <= n
  BY DEF Accumulates
<1>2. ASSUME NEW i \in 1 .. n, i - 1 \in P PROVE i \in P
  <2>1. x[i] \in Seq(S) /\ x[j] \in Seq(S) /\ a[i] = IF i = 1 THEN x[i] ELSE a[i - 1] \o x[i]
    BY DEF Accumulates
  <2>2. x[j] \o <<>> = x[j] /\ <<>> \o x[j] = x[j] /\ <<>> \o <<>> = <<>>
    BY <2>1, ConcatEmptySeq, EmptySeq
  <2>3. CASE i = 1
    <3>1. a[i] = IF i < j THEN <<>> ELSE x[j]
      BY <2>1, <2>3
    <3> QED BY <1>1, <3>1
  <2>4. CASE i # 1
    <3>0. i - 1 # 0
      BY <2>4
    <3>1. a[i - 1] = (IF i - 1 < j THEN <<>> ELSE x[j]) /\ a[i] = a[i - 1] \o x[i]
      BY <1>2, <2>1, <2>4, <3>0
    <3>2. CASE i < j
      <4>1. a[i] = <<>> \o <<>>
        BY <1>1, <3>1, <3>2
      <4> QED BY <1>1, <2>2, <3>2, <4>1
    <3>3. CASE i = j
      <4>0. i - 1 < j
        BY <3>3
      <4>1. a[i - 1] = <<>>
        BY <3>1, <4>0
      <4>2. a[i] = x[j]
        BY <2>2, <3>1, <3>3, <4>1
      <4> QED BY <1>1, <3>3, <4>2
    <3>4. CASE i > j
      <4>0. ~(i - 1 < j) /\ x[i] = <<>>
        BY <3>4
      <4>1. a[i - 1] = x[j]
        BY <3>1, <4>0
      <4>2. a[i] = x[j]
        BY <2>2, <3>1, <4>0, <4>1
      <4> QED BY <1>1, <3>4, <4>2
    <3> QED BY <1>1, <3>2, <3>3, <3>4
  <2> QED BY <2>3, <2>4
<1>3. 0 \in P
  BY <1>1
<1> HIDE DEF P
<1>4. \A i \in 0 .. n : i \in P
  BY <1>1, <1>2, <1>3, InductionUp
<1>5. n \in P
  BY <1>1, <1>4
<1> QED BY <1>1, <1>5 DEF P

\* A running sum holds the numbers of any two places.
LEMMA SumHolds ==
  ASSUME NEW n \in Nat, NEW s, NEW x, NEW b \in 1 .. n, NEW c \in 1 .. n, b <= c,
         \A i \in 1 .. n : /\ s[i] \in Nat /\ x[i] \in Nat
                           /\ s[i] = IF i = 1 THEN x[i] ELSE s[i - 1] + x[i]
  PROVE  s[n] >= x[b] /\ (b # c => s[n] >= x[b] + x[c])
<1> DEFINE P == {i \in 0 .. n : /\ i >= b => s[i] >= x[b]
                                /\ i >= c /\ b # c => s[i] >= x[b] + x[c]}
<1>1. ASSUME NEW i \in 1 .. n, i - 1 \in P PROVE i \in P
  <2>1. /\ s[i] \in Nat /\ x[i] \in Nat /\ x[b] \in Nat /\ x[c] \in Nat
        /\ s[i] = IF i = 1 THEN x[i] ELSE s[i - 1] + x[i]
    OBVIOUS
  <2>2. CASE i = 1
    <3>1. s[i] = x[i]
      BY <2>1, <2>2
    <3>2. (i >= b => i = b) /\ ~(i >= c /\ b # c)
      BY <2>2
    <3> QED BY <2>1, <3>1, <3>2
  <2>3. CASE i # 1
    <3>1. s[i - 1] \in Nat /\ s[i] = s[i - 1] + x[i]
      BY <2>1, <2>3
    <3>2. (i - 1 >= b => s[i - 1] >= x[b]) /\ (i - 1 >= c /\ b # c => s[i - 1] >= x[b] + x[c])
      BY <1>1
    <3>3. i >= b => s[i] >= x[b]
      <4>1. CASE i = b
        BY <2>1, <3>1, <4>1
      <4>2. CASE i # b
        <5>1. i >= b => i - 1 >= b
          BY <4>2
        <5> QED BY <2>1, <3>1, <3>2, <5>1
      <4> QED BY <4>1, <4>2
    <3>4. i >= c /\ b # c => s[i] >= x[b] + x[c]
      <4>1. CASE i = c
        <5>1. b # c => i - 1 >= b
          BY <4>1
        <5>2. s[i] = s[i - 1] + x[c]
          BY <3>1, <4>1
        <5> QED BY <2>1, <3>1, <3>2, <5>1, <5>2
      <4>2. CASE i # c
        <5>1. i >= c => i - 1 >= c
          BY <4>2
        <5> QED BY <2>1, <3>1, <3>2, <5>1
      <4> QED BY <4>1, <4>2
    <3>5. i \in 0 .. n
      OBVIOUS
    <3> QED BY <3>3, <3>4, <3>5
  <2> QED BY <2>2, <2>3
<1>2. 0 \in P
  OBVIOUS
<1> HIDE DEF P
<1>3. \A i \in 0 .. n : i \in P
  BY <1>1, <1>2, InductionUp
<1>4. n \in P
  BY <1>3
<1> QED BY <1>4 DEF P

\* What events add of some kind is not lost.
LEMMA NothingIsLost ==
  ASSUME NEW S, NEW n, NEW a, NEW x, Accumulates(a, x, n, S), NEW G,
         NEW b \in 1 .. n, NEW c \in 1 .. n, b <= c
  PROVE  /\ Len(Kept(a[n], G)) >= Len(Kept(x[b], G))
         /\ b # c => Len(Kept(a[n], G)) >= Len(Kept(x[b], G)) + Len(Kept(x[c], G))
         /\ \A i \in 1 .. n : Len(Kept(a[i], G)) \in Nat /\ Len(Kept(x[i], G)) \in Nat
<1> DEFINE s == [i \in 1 .. n |-> Len(Kept(a[i], G))]
           y == [i \in 1 .. n |-> Len(Kept(x[i], G))]
<1>1. n \in Nat /\ n \in 1 .. n
  BY DEF Accumulates
<1>2. ASSUME NEW i \in 1 .. n
      PROVE  /\ Len(Kept(a[i], G)) \in Nat /\ Len(Kept(x[i], G)) \in Nat
             /\ Len(Kept(a[i], G)) = IF i = 1 THEN Len(Kept(x[i], G))
                                     ELSE Len(Kept(a[i - 1], G)) + Len(Kept(x[i], G))
  <2>1. a[i] \in Seq(S) /\ x[i] \in Seq(S) /\ a[i] = IF i = 1 THEN x[i] ELSE a[i - 1] \o x[i]
    BY DEF Accumulates
  <2>2. Kept(a[i], G) \in Seq(S) /\ Kept(x[i], G) \in Seq(S)
    BY <2>1, KeptType
  <2>3. CASE i = 1
    BY <2>1, <2>2, <2>3, LenProperties
  <2>4. CASE i # 1
    <3>1. i - 1 \in 1 .. n
      BY <1>1, <2>4
    <3>2. a[i - 1] \in Seq(S)
      BY <3>1 DEF Accumulates
    <3> DEFINE u == a[i - 1]
               v == x[i]
    <3>3. u \in Seq(S) /\ v \in Seq(S) /\ a[i] = u \o v
      BY <2>1, <2>4, <3>2
    <3> HIDE DEF u, v
    <3>4. Kept(u \o v, G) = Kept(u, G) \o Kept(v, G)
      BY <3>3, KeptConcat
    <3>5. Kept(u, G) \in Seq(S) /\ Kept(v, G) \in Seq(S)
      BY <3>3, KeptType
    <3>6. Len(Kept(a[i], G)) = Len(Kept(u, G)) + Len(Kept(v, G))
      BY <3>3, <3>4, <3>5, ConcatProperties
    <3> QED BY <2>2, <2>4, <3>6, LenProperties DEF u, v
  <2> QED BY <2>3, <2>4
<1>3. \A i \in 1 .. n : s[i] = Len(Kept(a[i], G)) /\ y[i] = Len(Kept(x[i], G))
  OBVIOUS
<1> HIDE DEF s, y
<1>4. \A i \in 1 .. n : i # 1 => i - 1 \in 1 .. n
  BY <1>1
<1>5. \A i \in 1 .. n : /\ s[i] \in Nat /\ y[i] \in Nat
                        /\ s[i] = IF i = 1 THEN y[i] ELSE s[i - 1] + y[i]
  <2> SUFFICES ASSUME NEW i \in 1 .. n
               PROVE  /\ s[i] \in Nat /\ y[i] \in Nat
                      /\ s[i] = IF i = 1 THEN y[i] ELSE s[i - 1] + y[i]
    OBVIOUS
  <2>1. s[i] \in Nat /\ y[i] \in Nat
    BY <1>2, <1>3
  <2>2. CASE i = 1
    BY <1>2, <1>3, <2>1, <2>2
  <2>3. CASE i # 1
    <3>1. s[i - 1] = Len(Kept(a[i - 1], G))
      BY <1>3, <1>4, <2>3
    <3>2. s[i] = Len(Kept(a[i], G)) /\ y[i] = Len(Kept(x[i], G))
      BY <1>3
    <3>3. Len(Kept(a[i], G)) = Len(Kept(a[i - 1], G)) + Len(Kept(x[i], G))
      BY <1>2, <2>3
    <3> QED BY <2>1, <2>3, <3>1, <3>2, <3>3
  <2> QED BY <2>2, <2>3
<1>6. s[n] >= y[b] /\ (b # c => s[n] >= y[b] + y[c])
  BY <1>1, <1>5, SumHolds
<1> QED BY <1>1, <1>2, <1>3, <1>6

LEMMA KeptSome ==
  ASSUME NEW S, NEW s \in Seq(S), NEW G, NEW k \in 1 .. Len(s), s[k] \in G
  PROVE  Len(Kept(s, G)) \in Nat /\ Len(Kept(s, G)) >= 1
<1> DEFINE places == {j \in DOMAIN s : s[j] \in G}
           n == Cardinality(places)
           order == Ascending(places)
<1>1. places \in SUBSET DOMAIN s /\ Kept(s, G) = Selected(s, places) /\ k \in places
  BY DEF Kept
<1> HIDE DEF places
<1>2. n \in Nat /\ SelectsBy(order, n, places) /\ Kept(s, G) = [i \in 1 .. n |-> s[order[i]]]
  BY <1>1, SelectsByAscending
<1> HIDE DEF n, order
<1>3. PICK i \in 1 .. n : order[i] = k
  BY <1>1, <1>2 DEF SelectsBy
<1>4. Len(Kept(s, G)) = n
  BY <1>2
<1> QED BY <1>2, <1>3, <1>4

\* The events of a stream that hold calls.
Callers(events, n) == {i \in 1 .. n : Calls(events[i].parts) # <<>>}

\* The calls of a stream are those of the only event that has some, whichever it is.
LEMMA OneEventCalls ==
  ASSUME NEW Q, NEW events, NEW n, NEW f, NEW g, Streams(events, n, f, g, Q),
         NEW j \in 1 .. n, Callers(events, n) \subseteq {j}
  PROVE  OfKind(f[n], "call") = CallChunks(events[j]) /\ Calls(g[n]) = Calls(events[j].parts)
<1> DEFINE a == CallsSoFar(f, n)
           x == CallsAdded(events, n)
           h == HeldSoFar(g, n)
           y == HeldAdded(events, n)
<1>1. Accumulates(a, x, n, Chunk(Q)) /\ Accumulates(h, y, n, Q)
  BY StreamAccumulates
<1>2. n \in 1 .. n
  BY DEF Streams
<1>3. \A i \in 1 .. n : i # j => x[i] = <<>> /\ y[i] = <<>>
  BY DEF Callers, CallsAdded, HeldAdded, CallChunks
<1>4. a[n] = OfKind(f[n], "call") /\ x[j] = CallChunks(events[j])
      /\ h[n] = Calls(g[n]) /\ y[j] = Calls(events[j].parts)
  BY <1>2 DEF CallsSoFar, CallsAdded, HeldSoFar, HeldAdded
<1> HIDE DEF a, x, h, y
<1>5. a[n] = x[j] /\ h[n] = y[j]
  BY <1>1, <1>3, OnlyOneAdds
<1> QED BY <1>4, <1>5

\* The whole has a call exactly if some event has one.
LEMMA CallsAreHeld ==
  ASSUME NEW Q, NEW events, NEW n, NEW f, NEW g, Streams(events, n, f, g, Q)
  PROVE  Calls(g[n]) # <<>> <=> Callers(events, n) # {}
<1> DEFINE h == HeldSoFar(g, n)
           y == HeldAdded(events, n)
<1>0. n \in 1 .. n /\ 1 \in 1 .. n
  BY DEF Streams
<1>1. CASE Callers(events, n) = {}
  <2>1. Calls(g[n]) = Calls(events[1].parts)
    BY <1>0, <1>1, OneEventCalls
  <2> QED BY <1>0, <1>1, <2>1 DEF Callers
<1>2. CASE Callers(events, n) # {}
  <2>1. PICK b \in 1 .. n : Calls(events[b].parts) # <<>>
    BY <1>2 DEF Callers
  <2>2. Accumulates(h, y, n, Q)
    BY StreamAccumulates
  <2>3. h[n] = Calls(g[n]) /\ y[b] = Calls(events[b].parts)
    BY <1>0 DEF HeldSoFar, HeldAdded
  <2> HIDE DEF h, y
  <2>4. y[b] \in Seq(Q) /\ h[n] \in Seq(Q)
    BY <1>0, <2>2 DEF Accumulates
  <2> DEFINE z == y[b]
             w == h[n]
  <2>5. z \in Seq(Q) /\ z # <<>> /\ w \in Seq(Q)
    BY <2>1, <2>3, <2>4
  <2>6. Len(Kept(w, Q)) >= Len(Kept(z, Q))
    <3>1. b <= b
      OBVIOUS
    <3> QED BY <2>2, <3>1, NothingIsLost
  <2> HIDE DEF z, w
  <2>7. Kept(w, Q) = w /\ Kept(z, Q) = z
    <3>1. \A s \in Seq(Q) : \A k \in 1 .. Len(s) : s[k] \in Q
      OBVIOUS
    <3> QED BY <2>5, <3>1, KeptAll
  <2>8. Len(z) \in Nat /\ Len(z) # 0 /\ Len(<<>>) = 0
    BY <2>5, EmptySeq
  <2>9. w # <<>>
    BY <2>6, <2>7, <2>8
  <2> QED BY <1>2, <2>3, <2>9 DEF w
<1> QED BY <1>1, <1>2

\* The end of a stream is that of its last event.
LEMMA LastEventEnds ==
  ASSUME NEW Q, NEW events, NEW n, NEW f, NEW g, Streams(events, n, f, g, Q),
         \A i \in 1 .. n - 1 : events[i].finish = "none"
  PROVE  Ends(f[n]) = EndChunk(events[n])
<1> DEFINE a == EndsSoFar(f, n)
           x == EndsAdded(events, n)
<1>1. Accumulates(a, x, n, Chunk(Q))
  BY StreamAccumulates
<1>2. n \in Nat /\ n \in 1 .. n
  BY DEF Streams
<1>3. \A i \in 1 .. n : i # n => x[i] = <<>>
  <2> SUFFICES ASSUME NEW i \in 1 .. n, i # n PROVE x[i] = <<>>
    OBVIOUS
  <2>1. i \in 1 .. n - 1
    BY <1>2
  <2> QED BY <2>1 DEF EndsAdded, EndChunk
<1>4. a[n] = Ends(f[n]) /\ x[n] = EndChunk(events[n])
  BY <1>2 DEF EndsSoFar, EndsAdded
<1> HIDE DEF a, x
<1>5. a[n] = x[n]
  BY <1>1, <1>2, <1>3, OnlyOneAdds
<1> QED BY <1>4, <1>5

\* The deltas a client merges are one for each call.
LEMMA CallsAreMerged ==
  ASSUME NEW Q, NEW event, event.parts \in Seq(Q), NEW chunks,
         OfKind(chunks, "call") = CallChunks(event)
  PROVE  Assembled(chunks).calls =
           [k \in DOMAIN Calls(event.parts) |-> [deltas |-> 1, of |-> Calls(event.parts)[k]]]
<1> DEFINE calls == Calls(event.parts)
           n == Len(calls)
           cc == CallChunks(event)
           indexes == {cc[k].index : k \in DOMAIN cc}
           delta(i) == Selected(cc, {k \in DOMAIN cc : cc[k].index = i})
<1>1. calls \in Seq(Q)
  BY PartsAreKept
<1>2. cc = [k \in DOMAIN calls |-> [kind |-> "call", of |-> <<calls[k]>>, index |-> k - 1]]
  BY DEF CallChunks
<1>3. Assembled(chunks).calls =
        [k \in 1 .. Cardinality(indexes) |->
           [deltas |-> Len(delta(k - 1)), of |-> delta(k - 1)[1].of[1]]]
  BY DEF Assembled
<1> HIDE DEF calls, cc
<1>4. n \in Nat /\ DOMAIN calls = 1 .. n /\ DOMAIN cc = 1 .. n
  BY <1>1, <1>2
<1>5. \A k \in 1 .. n : cc[k].index = k - 1 /\ cc[k].of[1] = calls[k]
  BY <1>2, <1>4
<1> HIDE DEF n
<1>6. Cardinality(indexes) = n
  <2>1. indexes = 0 .. n - 1
    <3>1. indexes = {k - 1 : k \in 1 .. n}
      BY <1>4, <1>5
    <3>2. \A i \in 0 .. n - 1 : i + 1 \in 1 .. n /\ (i + 1) - 1 = i
      BY <1>4
    <3>3. \A k \in 1 .. n : k - 1 \in 0 .. n - 1
      BY <1>4
    <3> HIDE DEF indexes
    <3> QED BY <3>1, <3>2, <3>3
  <2>2. Cardinality(0 .. n - 1) = n
    BY <1>4, FS_Interval
  <2> QED BY <2>1, <2>2
<1>7. ASSUME NEW k \in 1 .. n PROVE Len(delta(k - 1)) = 1 /\ delta(k - 1)[1].of[1] = calls[k]
  <2> DEFINE o == [i \in 1 .. 1 |-> k]
  <2>1. {j \in DOMAIN cc : cc[j].index = k - 1} = {k}
    BY <1>4, <1>5
  <2>2. SelectsBy(o, 1, {k}) /\ {k} \in SUBSET Nat
    BY <1>4 DEF SelectsBy, Rises
  <2>3. Selected(cc, {k}) = [i \in 1 .. 1 |-> cc[o[i]]]
    BY <2>2, SelectedBy
  <2>4. delta(k - 1) = [i \in 1 .. 1 |-> cc[k]]
    BY <2>1, <2>3
  <2> DEFINE d == delta(k - 1)
  <2>5. d = [i \in 1 .. 1 |-> cc[k]]
    BY <2>4
  <2> HIDE DEF d
  <2>6. Len(d) = 1 /\ d[1] = cc[k]
    BY <2>5
  <2> QED BY <1>5, <2>6 DEF d
<1> HIDE DEF indexes, delta
<1>8. Assembled(chunks).calls = [k \in 1 .. n |-> [deltas |-> 1, of |-> calls[k]]]
  BY <1>3, <1>6, <1>7
<1> QED BY <1>4, <1>8 DEF calls

\* The chunks of an answer, event by event.
AnswerParts == UNION {ToSet(e.parts) : e \in Elements["answer"]}

LEMMA AnswerIsStreamed ==
  ASSUME InputType, subject = "answer", input # <<>>
  PROVE  /\ Len(input) \in Nat \ {0} /\ Len(input) \in 1 .. Len(input)
         /\ \A i \in 1 .. Len(input) : input[i].parts \in Seq(AnswerParts)
         /\ \E f, g : /\ Streams(input, Len(input), f, g, AnswerParts)
                      /\ StreamChunks(input) = f[Len(input)]
                      /\ WholeAnswer = [parts |-> g[Len(input)], finish |-> input[Len(input)].finish]
<1> DEFINE Q == AnswerParts
           C == Chunk(Q)
           n == Len(input)
           tr(i) == TranslateStreamChunk(input[i])
           cs == [k \in 1 .. n |-> tr(k)]
           ps == [k \in 1 .. n |-> input[k].parts]
           last == input[n]
<1>1. /\ n \in Nat \ {0} /\ n \in 1 .. n /\ DOMAIN input = 1 .. n
      /\ \A i \in 1 .. n : input[i] \in Elements["answer"]
  <2>1. input \in Seq(Elements["answer"]) /\ "answer" \in DOMAIN Elements
    BY DEF InputType
  <2>2. n \in Nat \ {0}
    BY <2>1, EmptySeq
  <2> QED BY <2>1, <2>2
<1>2. \A i \in 1 .. n : input[i].parts \in Seq(Q)
  <2>1. \A e \in Elements["answer"] : e.parts \in Seq(ToSet(e.parts)) /\ ToSet(e.parts) \subseteq Q
    BY InputAssumption DEF InputType, AnswerParts
  <2> HIDE DEF Q, n
  <2>2. \A e \in Elements["answer"] : e.parts \in Seq(Q)
    BY <2>1
  <2> QED BY <1>1, <2>2
<1> HIDE DEF Q, n
<1>3. \A i \in 1 .. n : tr(i) \in Seq(C)
  BY <1>2, EventIsTranslated DEF EventFacts
<1> HIDE DEF C, tr
<1>4. cs \in Seq(Seq(C)) /\ Len(cs) = n /\ ps \in Seq(Seq(Q)) /\ Len(ps) = n
      /\ cs # <<>> /\ ps # <<>>
  <2>1. cs \in [1 .. n -> Seq(C)] /\ ps \in [1 .. n -> Seq(Q)]
    BY <1>2, <1>3
  <2> HIDE DEF cs, ps
  <2>2. cs \in Seq(Seq(C)) /\ Len(cs) = n /\ ps \in Seq(Seq(Q)) /\ Len(ps) = n
    BY <1>1, <2>1
  <2> QED BY <1>1, <2>2, EmptySeq
<1>5. \A i \in 1 .. n : cs[i] = tr(i) /\ ps[i] = input[i].parts
  OBVIOUS
<1>6. StreamChunks(input) = FlattenSeq(cs)
      /\ WholeAnswer = [parts |-> FlattenSeq(ps), finish |-> last.finish]
  BY <1>1 DEF StreamChunks, WholeAnswer, tr, n
<1> HIDE DEF cs, ps
<1>7. PICK f : Flattens(cs, f, C) /\ FlattenSeq(cs) = f[n]
  BY <1>4, FlattenSolves
<1>8. PICK g : Flattens(ps, g, Q) /\ FlattenSeq(ps) = g[n]
  BY <1>4, FlattenSolves
<1>9. Streams(input, n, f, g, Q)
  <2>1. \A i \in 1 .. n : f[i] = FlattenAt(cs, f, i)
    BY <1>4, <1>7 DEF Flattens
  <2>2. \A i \in 1 .. n : g[i] = FlattenAt(ps, g, i)
    BY <1>4, <1>8 DEF Flattens
  <2> QED BY <1>1, <1>2, <1>5, <2>1, <2>2 DEF Streams, FlattenAt, tr
<1>10. StreamChunks(input) = f[n] /\ WholeAnswer = [parts |-> g[n], finish |-> last.finish]
  BY <1>6, <1>7, <1>8
<1>11. \A i \in 1 .. n : input[i].parts \in Seq(AnswerParts)
  BY <1>2 DEF Q
<1>12. Streams(input, n, f, g, AnswerParts)
  BY <1>9 DEF Q
<1> QED BY <1>1, <1>10, <1>11, <1>12 DEF n

\* The breaks between texts are no texts, and with two texts there is one.
LEMMA BreaksAreNoTexts ==
  ASSUME NEW Q, NEW t \in Seq(TextOf(Q))
  PROVE  /\ Texts(OneBelowTheOther(t)) = t
         /\ Len(t) \in Nat
         /\ t = OneBelowTheOther(t) <=> Len(t) <= 1
<1> DEFINE n == Len(t)
           w == OneBelowTheOther(t)
           order == [i \in 1 .. n |-> 2 * i - 1]
           places == {k \in DOMAIN w : IsText(w[k])}
<1>1. n \in Nat /\ DOMAIN t = 1 .. n /\ t = [i \in 1 .. n |-> t[i]]
      /\ \A i \in 1 .. n : IsText(t[i])
  <2>1. \A p \in TextOf(Q) : IsText(p)
    BY DEF TextOf
  <2>2. n \in Nat /\ DOMAIN t = 1 .. n /\ \A i \in 1 .. n : t[i] \in TextOf(Q)
    OBVIOUS
  <2>3. t = [i \in 1 .. n |-> t[i]]
    BY <2>2
  <2> QED BY <2>1, <2>2, <2>3
<1>2. w = [k \in 1 .. 2 * n - 1 |-> IF k % 2 = 1 THEN t[(k + 1) \div 2] ELSE LineBreak]
  BY DEF OneBelowTheOther
<1>3. ~IsText(LineBreak)
  BY DEF IsText, LineBreak
<1> HIDE DEF n, w
<1>4. \A k \in 1 .. 2 * n - 1 :
        /\ k % 2 = 1 => (k + 1) \div 2 \in 1 .. n /\ 2 * ((k + 1) \div 2) - 1 = k
        /\ k % 2 # 1 => w[k] = LineBreak
        /\ k % 2 = 1 => w[k] = t[(k + 1) \div 2]
  <2> SUFFICES ASSUME NEW k \in 1 .. 2 * n - 1
               PROVE  /\ k % 2 = 1 => (k + 1) \div 2 \in 1 .. n /\ 2 * ((k + 1) \div 2) - 1 = k
                      /\ k % 2 # 1 => w[k] = LineBreak
                      /\ k % 2 = 1 => w[k] = t[(k + 1) \div 2]
    OBVIOUS
  <2>1. k % 2 = 1 => (k + 1) \div 2 \in 1 .. n /\ 2 * ((k + 1) \div 2) - 1 = k
    <3> SUFFICES ASSUME k % 2 = 1
                 PROVE  (k + 1) \div 2 \in 1 .. n /\ 2 * ((k + 1) \div 2) - 1 = k
      OBVIOUS
    <3>1. k \in Nat /\ k + 1 \in Nat /\ k <= 2 * n - 1 /\ k >= 1
      BY <1>1
    <3> DEFINE h == k \div 2
               u == (k + 1) \div 2
    <3>2. h \in Nat /\ k = 2 * h + 1
      BY <3>1, Division
    <3>3. u \in Nat /\ (k + 1) % 2 \in 0 .. 1 /\ k + 1 = 2 * u + ((k + 1) % 2)
      BY <3>1
    <3> DEFINE r == (k + 1) % 2
    <3> HIDE DEF h, u, r
    <3>4. r \in 0 .. 1 /\ k + 1 = 2 * u + r
      BY <3>3 DEF r
    <3>5. u = h + 1
      BY <3>2, <3>3, <3>4
    <3>6. u \in 1 .. n /\ 2 * u - 1 = k
      <4>1. n \in Nat
        BY <1>1
      <4>2. h <= n - 1
        BY <3>1, <3>2, <4>1
      <4> QED BY <3>2, <3>5, <4>1, <4>2
    <3> QED BY <3>6 DEF u
  <2>2. w[k] = IF k % 2 = 1 THEN t[(k + 1) \div 2] ELSE LineBreak
    BY <1>2
  <2> QED BY <2>1, <2>2
<1>5. \A i \in 1 .. n : 2 * i - 1 \in 1 .. 2 * n - 1 /\ (2 * i - 1) % 2 = 1
                        /\ ((2 * i - 1) + 1) \div 2 = i
  BY <1>1
<1>6. \A i \in 1 .. n : w[2 * i - 1] = t[i]
  BY <1>4, <1>5
<1>7. places = {k \in 1 .. 2 * n - 1 : k % 2 = 1}
  BY <1>1, <1>2, <1>3, <1>4
<1>8. SelectsBy(order, n, places) /\ places \in SUBSET Nat
  <2>1. order \in [1 .. n -> places]
    BY <1>5, <1>7
  <2>2. Rises(order, n)
    BY <1>1 DEF Rises
  <2>3. ASSUME NEW p \in places PROVE \E i \in 1 .. n : order[i] = p
    <3>1. (p + 1) \div 2 \in 1 .. n /\ 2 * ((p + 1) \div 2) - 1 = p
      BY <1>4, <1>7
    <3> QED BY <3>1
  <2>4. places \in SUBSET Nat
    BY <1>1, <1>7
  <2> HIDE DEF order, places
  <2> QED BY <2>1, <2>2, <2>3, <2>4 DEF SelectsBy
<1>9. Texts(w) = [i \in 1 .. n |-> w[order[i]]]
  <2>1. Texts(w) = Selected(w, places)
    BY DEF Texts
  <2> HIDE DEF order, places
  <2> QED BY <1>1, <1>8, <2>1, SelectedBy
<1>10. Texts(w) = t
  BY <1>1, <1>6, <1>9
<1>11. t = w <=> n <= 1
  <2>1. CASE n = 0
    <3>1. DOMAIN t = {} /\ DOMAIN w = {}
      BY <1>1, <1>2, <2>1
    <3>2. w = [k \in 1 .. 0 |-> t[k]] /\ t = [k \in 1 .. 0 |-> t[k]]
      BY <1>1, <1>2, <2>1
    <3> QED BY <2>1, <3>2
  <2>2. CASE n = 1
    <3>1. w = [k \in 1 .. 1 |-> t[k]] /\ t = [k \in 1 .. 1 |-> t[k]]
      <4>1. 2 * n - 1 = 1 /\ w[1] = t[1]
        BY <1>6, <2>2
      <4>2. DOMAIN w = 1 .. 1 /\ \A k \in 1 .. 1 : w[k] = t[k]
        BY <1>2, <4>1
      <4>3. w = [k \in DOMAIN w |-> w[k]]
        BY <1>2
      <4> QED BY <1>1, <2>2, <4>2, <4>3
    <3> QED BY <2>2, <3>1
  <2>3. CASE n > 1
    <3>1. DOMAIN t = 1 .. n /\ DOMAIN w = 1 .. 2 * n - 1
      BY <1>1, <1>2
    <3>2. 2 * n - 1 \in 1 .. 2 * n - 1 /\ 2 * n - 1 \notin 1 .. n
      BY <1>1, <2>3
    <3> QED BY <1>1, <2>3, <3>1, <3>2
  <2> QED BY <1>1, <2>1, <2>2, <2>3
<1> QED BY <1>1, <1>10, <1>11 DEF n, w

\* Calls of two events are merged: the client's first call has a delta of each.
LEMMA SpreadCallsAreMerged ==
  ASSUME NEW Q, NEW events, NEW n, NEW f, NEW g, Streams(events, n, f, g, Q),
         NEW b \in Callers(events, n), NEW c \in Callers(events, n), b # c
  PROVE  /\ 1 \in DOMAIN Assembled(f[n]).calls
         /\ Assembled(f[n]).calls[1].deltas # 1
<1> DEFINE a == CallsSoFar(f, n)
           x == CallsAdded(events, n)
           G == {k \in Chunk(Q) : k.index = 0}
<1>1. Accumulates(a, x, n, Chunk(Q))
  BY StreamAccumulates
<1>2. n \in 1 .. n /\ b \in 1 .. n /\ c \in 1 .. n
  BY DEF Streams, Callers
<1>3. ASSUME NEW i \in Callers(events, n)
      PROVE  Len(Kept(x[i], G)) \in Nat /\ Len(Kept(x[i], G)) >= 1
  <2> DEFINE s == CallChunks(events[i])
             calls == Calls(events[i].parts)
  <2>1. i \in 1 .. n /\ calls # <<>>
    BY DEF Callers
  <2>2. x[i] = s /\ s \in Seq(Chunk(Q))
    <3>1. x[i] = s
      BY <2>1 DEF CallsAdded
    <3>2. x[i] \in Seq(Chunk(Q))
      BY <1>1, <2>1 DEF Accumulates
    <3> QED BY <3>1, <3>2
  <2>3. calls \in Seq(Q)
    BY <2>1, PartsAreKept DEF Streams
  <2>4. 1 \in DOMAIN calls
    <3> HIDE DEF calls
    <3>1. Len(calls) \in Nat /\ Len(calls) # 0 /\ DOMAIN calls = 1 .. Len(calls)
      BY <2>1, <2>3, EmptySeq
    <3> QED BY <3>1
  <2>5. s[1].index = 0 /\ 1 \in DOMAIN s
    BY <2>4 DEF CallChunks
  <2> HIDE DEF s
  <2>6. 1 \in 1 .. Len(s) /\ s[1] \in Chunk(Q)
    BY <2>2, <2>5
  <2>7. s[1] \in G
    BY <2>5, <2>6
  <2> HIDE DEF G, x
  <2> QED BY <2>2, <2>6, <2>7, KeptSome
<1>4. a[n] = OfKind(f[n], "call")
  BY <1>2 DEF CallsSoFar
<1> DEFINE m == a[n]
           delta == Kept(m, G)
<1>5. Len(delta) \in Nat /\ Len(delta) >= 2
  <2>1. Len(Kept(x[b], G)) >= 1 /\ Len(Kept(x[c], G)) >= 1
        /\ Len(Kept(x[b], G)) \in Nat /\ Len(Kept(x[c], G)) \in Nat
    BY <1>3
  <2> HIDE DEF a, x, G
  <2>2. CASE b <= c
    <3>1. Len(delta) >= Len(Kept(x[b], G)) + Len(Kept(x[c], G)) /\ Len(delta) \in Nat
      BY <1>1, <1>2, <2>2, NothingIsLost
    <3> HIDE DEF delta
    <3> QED BY <2>1, <3>1
  <2>3. CASE c <= b
    <3>1. Len(delta) >= Len(Kept(x[c], G)) + Len(Kept(x[b], G)) /\ Len(delta) \in Nat
      BY <1>1, <1>2, <2>3, NothingIsLost
    <3> HIDE DEF delta
    <3> QED BY <2>1, <3>1
  <2> QED BY <1>2, <2>2, <2>3
<1>6. m \in Seq(Chunk(Q))
  BY <1>1, <1>2 DEF Accumulates
<1> HIDE DEF a
<1> DEFINE indexes == {m[k].index : k \in DOMAIN m}
           of(i) == Selected(m, {k \in DOMAIN m : m[k].index = i})
<1>7. Assembled(f[n]).calls =
        [k \in 1 .. Cardinality(indexes) |-> [deltas |-> Len(of(k - 1)), of |-> of(k - 1)[1].of[1]]]
  BY <1>4 DEF Assembled
<1> HIDE DEF m
<1>8. DOMAIN m = 1 .. Len(m) /\ Len(m) \in Nat /\ \A k \in DOMAIN m : m[k] \in Chunk(Q)
  BY <1>6
<1>9. of(0) = delta
  <2>1. {k \in DOMAIN m : m[k].index = 0} = {k \in DOMAIN m : m[k] \in G}
    BY <1>8
  <2> QED BY <2>1 DEF Kept
<1>10. 1 \in 1 .. Cardinality(indexes)
  <2>1. DOMAIN m # {}
    <3> SUFFICES ASSUME DOMAIN m = {} PROVE FALSE
      OBVIOUS
    <3>1. \A k \in 1 .. Len(m) : m[k] \notin G
      BY <1>8
    <3>2. delta = <<>>
      <4> HIDE DEF G
      <4> QED BY <1>6, <3>1, KeptNone
    <3> HIDE DEF delta
    <3> QED BY <1>5, <3>2, EmptySeq
  <2>2. IsFiniteSet(DOMAIN m)
    BY <1>8, FS_Interval
  <2>3. IsFiniteSet(indexes)
    <3> DEFINE at == [k \in DOMAIN m |-> m[k].index]
    <3>1. at \in Surjection(DOMAIN m, indexes)
      BY DEF Surjection
    <3> HIDE DEF indexes, at
    <3> QED BY <2>2, <3>1, FS_Surjection
  <2>4. indexes # {}
    BY <2>1
  <2> HIDE DEF indexes
  <2>5. Cardinality(indexes) \in Nat /\ Cardinality(indexes) # 0
    BY <2>3, <2>4, FS_CardinalityType, FS_EmptySet
  <2> QED BY <2>5
<1> HIDE DEF indexes, of, delta
<1>11. Assembled(f[n]).calls[1].deltas = Len(of(1 - 1)) /\ 1 \in DOMAIN Assembled(f[n]).calls
  BY <1>7, <1>10
<1>12. Assembled(f[n]).calls[1].deltas = Len(delta)
  BY <1>9, <1>11
<1> QED BY <1>5, <1>11, <1>12

\* For an answer of any number of events and parts: a client that assembles its chunks has
\* the texts of the answer translated whole, without the line breaks that stand between
\* them there; the same calls, each in one delta under an index of its own, exactly if
\* one event holds them all, for calls of two events share an index; and the same
\* finish reason exactly if the answer was cut off, calls nothing, or calls in its
\* last event.
THEOREM StreamsSayTheSame == Spec => []StreamAgreesWithResponse
<1>1. InputType => StreamAgreesWithResponse
  <2> SUFFICES ASSUME InputType, subject = "answer", input # <<>>, OneAnswer
               PROVE  LET streamed == Assembled(StreamChunks(input))
                          whole == TranslateResponse(WholeAnswer)
                      IN  /\ streamed.text = Texts(whole.text)
                          /\ streamed.text = whole.text <=> Len(streamed.text) <= 1
                          /\ streamed.calls = [k \in DOMAIN whole.calls |->
                                                 [deltas |-> 1, of |-> whole.calls[k]]]
                               <=> \A j, k \in CallEvents : j = k
                          /\ WholeAnswer.finish \notin {"none", "blocked"} =>
                               (streamed.finish = whole.finish
                                  <=> \/ WholeAnswer.finish = "MAX_TOKENS" \/ CallEvents = {}
                                      \/ Len(input) \in CallEvents)
    BY DEF StreamAgreesWithResponse
  <2> DEFINE n == Len(input)
             Q == AnswerParts
             last == input[n]
  <2>1. n \in Nat \ {0} /\ n \in 1 .. n
    BY AnswerIsStreamed
  <2>2. \A i \in 1 .. n : input[i].parts \in Seq(Q)
    BY AnswerIsStreamed
  <2>3. CallEvents = Callers(input, n)
    <3>1. DOMAIN input = 1 .. n
      BY DEF InputType
    <3> QED BY <3>1 DEF CallEvents, Callers
  <2>4. \A i \in 1 .. n - 1 : input[i].finish = "none"
    BY DEF OneAnswer
  <2> HIDE DEF Q, n
  <2>5. PICK f, g : /\ Streams(input, n, f, g, Q)
                    /\ StreamChunks(input) = f[n] /\ WholeAnswer = [parts |-> g[n], finish |-> last.finish]
    BY AnswerIsStreamed DEF Q, n
  <2>6. StreamChunks(input) = f[n] /\ WholeAnswer = [parts |-> g[n], finish |-> last.finish]
    BY <2>5
  <2> DEFINE streamed == Assembled(f[n])
             whole == TranslateResponse(WholeAnswer)
             texts == Texts(g[n])
             alike == [k \in DOMAIN whole.calls |-> [deltas |-> 1, of |-> whole.calls[k]]]
  <2>7. /\ streamed.text = Content(f[n])
         /\ streamed.finish = IF Ends(f[n]) = <<>> THEN "none"
                              ELSE Ends(f[n])[Len(Ends(f[n]))].kind
    BY DEF Assembled
  <2>8. whole.text = OneBelowTheOther(texts) /\ whole.calls = Calls(g[n])
    BY <2>6 DEF TranslateResponse
  <2>9. Content(f[n]) = texts /\ texts \in Seq(TextOf(Q))
    <3>1. Content(f[n]) = texts /\ g[n] \in Seq(Q)
      BY <2>1, <2>5, TextsAreStreamed DEF StreamedUpTo
    <3>2. texts = Kept(g[n], TextOf(Q))
      BY <3>1, PartsAreKept
    <3>3. texts \in Seq(Q \cap TextOf(Q))
      BY <3>1, <3>2, KeptType
    <3>4. Q \cap TextOf(Q) = TextOf(Q)
      BY DEF TextOf
    <3> QED BY <3>1, <3>3, <3>4
  <2> HIDE DEF texts, streamed, whole, alike, last
  <2>10. streamed.text = Texts(whole.text) /\ (streamed.text = whole.text <=> Len(streamed.text) <= 1)
    BY <2>7, <2>8, <2>9, BreaksAreNoTexts
  <2>11. ASSUME \A j, k \in CallEvents : j = k PROVE streamed.calls = alike
    <3>1. PICK j \in 1 .. n : Callers(input, n) \subseteq {j}
      <4>1. CASE Callers(input, n) = {}
        BY <2>1, <4>1
      <4>2. CASE Callers(input, n) # {}
        <5>1. PICK j \in Callers(input, n) : TRUE
          BY <4>2
        <5>2. j \in 1 .. n /\ Callers(input, n) \subseteq {j}
          BY <2>3, <2>11, <5>1 DEF Callers
        <5> QED BY <5>2
      <4> QED BY <4>1, <4>2
    <3>2. OfKind(f[n], "call") = CallChunks(input[j]) /\ Calls(g[n]) = Calls(input[j].parts)
      BY <2>5, <3>1, OneEventCalls
    <3>3. input[j].parts \in Seq(Q)
      BY <2>2
    <3>4. streamed.calls = [k \in DOMAIN Calls(input[j].parts) |->
                              [deltas |-> 1, of |-> Calls(input[j].parts)[k]]]
      BY <3>2, <3>3, CallsAreMerged DEF streamed
    <3> QED BY <2>8, <3>2, <3>4 DEF alike
  <2>12. ASSUME streamed.calls = alike, NEW b \in CallEvents, NEW c \in CallEvents, b # c
         PROVE  FALSE
    <3>1. 1 \in DOMAIN streamed.calls /\ streamed.calls[1].deltas # 1
      BY <2>3, <2>5, <2>12, SpreadCallsAreMerged DEF streamed
    <3>2. \A k \in DOMAIN alike : alike[k].deltas = 1
      BY DEF alike
    <3> QED BY <2>12, <3>1, <3>2
  <2>13. ASSUME WholeAnswer.finish \notin {"none", "blocked"}
         PROVE  streamed.finish = whole.finish
                  <=> \/ WholeAnswer.finish = "MAX_TOKENS" \/ CallEvents = {}
                      \/ n \in CallEvents
    <3> DEFINE r == FinishReason(last.finish, Calls(last.parts) # <<>>)
    <3>1. last.finish \notin {"none", "blocked"}
      BY <2>6, <2>13
    <3>2. Ends(f[n]) = EndChunk(last)
      BY <2>4, <2>5, LastEventEnds DEF last
    <3>3. Ends(f[n]) = <<[kind |-> r, of |-> <<>>, index |-> 0]>>
      BY <3>1, <3>2 DEF EndChunk
    <3> HIDE DEF r
    <3>4. streamed.finish = r
      BY <2>7, <3>3
    <3>5. WholeAnswer # Blocked
      BY <2>13 DEF Blocked
    <3>6. whole.finish = FinishReason(WholeAnswer.finish, Calls(WholeAnswer.parts) # <<>>)
      BY <3>5 DEF whole, TranslateResponse
    <3>7. WholeAnswer.finish = last.finish /\ WholeAnswer.parts = g[n]
      BY <2>6
    <3>8. whole.finish = FinishReason(last.finish, Calls(g[n]) # <<>>)
      BY <3>6, <3>7
    <3>9. Calls(g[n]) # <<>> <=> CallEvents # {}
      BY <2>3, <2>5, CallsAreHeld
    <3>10. Calls(last.parts) # <<>> <=> n \in CallEvents
      BY <2>1, <2>3 DEF Callers, last
    <3> DEFINE raw == last.finish
    <3>11. \A x, y \in BOOLEAN : FinishReason(raw, x) = FinishReason(raw, y)
                                   <=> raw = "MAX_TOKENS" \/ x = y
      <4> HIDE DEF raw
      <4>1. raw = "MAX_TOKENS" => \A x : FinishReason(raw, x) = "length"
        BY DEF FinishReason
      <4>2. raw # "MAX_TOKENS" => FinishReason(raw, TRUE) = "tool_calls"
        BY DEF FinishReason
      <4>3. raw # "MAX_TOKENS" => FinishReason(raw, FALSE) \in {"content_filter", "stop"}
        <5>1. CASE raw = "MAX_TOKENS"
          BY <5>1
        <5>2. CASE raw # "MAX_TOKENS" /\ raw = "SAFETY"
          BY <5>2 DEF FinishReason
        <5>3. CASE raw # "MAX_TOKENS" /\ raw # "SAFETY"
          BY <5>3 DEF FinishReason
        <5> QED BY <5>1, <5>2, <5>3
      <4>4. raw # "MAX_TOKENS" => FinishReason(raw, TRUE) # FinishReason(raw, FALSE)
        BY <4>2, <4>3
      <4> QED BY <4>1, <4>4
    <3>12. r = FinishReason(raw, n \in CallEvents)
      BY <3>10 DEF r
    <3>13. whole.finish = FinishReason(raw, CallEvents # {})
      BY <3>8, <3>9
    <3>14. r = whole.finish <=> raw = "MAX_TOKENS" \/ ((n \in CallEvents) <=> CallEvents # {})
      <4> DEFINE x == n \in CallEvents
                 y == CallEvents # {}
      <4>1. x \in BOOLEAN /\ y \in BOOLEAN /\ r = FinishReason(raw, x) /\ whole.finish = FinishReason(raw, y)
        BY <3>12, <3>13
      <4> HIDE DEF x, y, raw
      <4>2. r = whole.finish <=> raw = "MAX_TOKENS" \/ x = y
        BY <3>11, <4>1
      <4>3. x = y <=> (x <=> y)
        BY <4>1
      <4> QED BY <4>2, <4>3 DEF x, y
    <3> HIDE DEF raw
    <3>15. WholeAnswer.finish = raw
      BY <3>7 DEF raw
    <3> QED BY <3>4, <3>14, <3>15
  <2>14. alike = [k \in DOMAIN whole.calls |-> [deltas |-> 1, of |-> whole.calls[k]]]
    BY DEF alike
  <2>15. streamed = Assembled(StreamChunks(input)) /\ whole = TranslateResponse(WholeAnswer)
         /\ n = Len(input)
    BY <2>6 DEF streamed, whole, n
  <2> HIDE DEF n
  <2>16. streamed.calls = alike <=> \A j, k \in CallEvents : j = k
    BY <2>11, <2>12
  <2> QED BY <2>10, <2>13, <2>14, <2>15, <2>16
<1> QED BY <1>1, InputTyping, PTL

------------------------------------------------------------------------------
(***************************************************************************)
(* Reading a stream.                                                       *)
(***************************************************************************)
\* Two functions that go on alike end alike.
LEMMA EndAlike ==
  ASSUME NEW n \in Nat, NEW f, NEW g, f[0] = g[0],
         \A k \in 1 .. n : f[k - 1] = g[k - 1] => f[k] = g[k]
  PROVE  f[n] = g[n]
<1> DEFINE P == {k \in 0 .. n : f[k] = g[k]}
<1>1. 0 \in P /\ n \in 0 .. n
  OBVIOUS
<1>2. ASSUME NEW k \in 1 .. n, k - 1 \in P PROVE k \in P
  BY <1>2
<1> HIDE DEF P
<1>3. \A k \in 0 .. n : k \in P
  BY <1>1, <1>2, InductionUp
<1> QED BY <1>1, <1>3 DEF P

\* A part of a stream.
LEMMA PartOf ==
  ASSUME NEW S, NEW s \in Seq(S), NEW a \in Nat, NEW b \in Nat, a <= b, b <= Len(s)
  PROVE  /\ SubSeq(s, a + 1, b) \in Seq(S) /\ Len(SubSeq(s, a + 1, b)) = b - a
         /\ \A i \in 1 .. b - a : SubSeq(s, a + 1, b)[i] = s[a + i]
<1> DEFINE m == a + 1
<1>1. m \in Int /\ b \in Int /\ \A i \in m .. b : s[i] \in S
  OBVIOUS
<1>2. b - m + 1 = b - a /\ (IF m <= b THEN b - m + 1 ELSE 0) = b - a
      /\ \A i \in 1 .. b - a : m + i - 1 = a + i
  OBVIOUS
<1> HIDE DEF m
<1> DEFINE t == SubSeq(s, m, b)
<1>3. t \in Seq(S) /\ Len(t) = (IF m <= b THEN b - m + 1 ELSE 0)
      /\ \A i \in 1 .. b - m + 1 : t[i] = s[m + i - 1]
  BY <1>1, SubSeqProperties
<1> HIDE DEF t
<1>4. t \in Seq(S) /\ Len(t) = b - a /\ \A i \in 1 .. b - a : t[i] = s[a + i]
  BY <1>2, <1>3
<1> QED BY <1>4 DEF t, m

\* A later part of a part.
LEMMA PartOfPart ==
  ASSUME NEW S, NEW s \in Seq(S), NEW a \in Nat, NEW b \in Nat, NEW c \in Nat,
         a <= b, b <= c, c <= Len(s)
  PROVE  /\ SubSeq(s, a + 1, b) \o SubSeq(s, b + 1, c) = SubSeq(s, a + 1, c)
         /\ SubSeq(SubSeq(s, a + 1, c), b - a + 1, c - a) = SubSeq(s, b + 1, c)
<1> DEFINE x == SubSeq(s, a + 1, b)
           y == SubSeq(s, b + 1, c)
           z == SubSeq(s, a + 1, c)
           u == SubSeq(z, b - a + 1, c - a)
<1>1. /\ x \in Seq(S) /\ Len(x) = b - a /\ \A i \in 1 .. b - a : x[i] = s[a + i]
      /\ y \in Seq(S) /\ Len(y) = c - b /\ \A i \in 1 .. c - b : y[i] = s[b + i]
      /\ z \in Seq(S) /\ Len(z) = c - a /\ \A i \in 1 .. c - a : z[i] = s[a + i]
  <2>1. x \in Seq(S) /\ Len(x) = b - a /\ \A i \in 1 .. b - a : x[i] = s[a + i]
    BY PartOf
  <2>2. y \in Seq(S) /\ Len(y) = c - b /\ \A i \in 1 .. c - b : y[i] = s[b + i]
    BY PartOf
  <2>3. z \in Seq(S) /\ Len(z) = c - a /\ \A i \in 1 .. c - a : z[i] = s[a + i]
    BY PartOf
  <2> QED BY <2>1, <2>2, <2>3
<1> HIDE DEF x, y, z
<1>2. x \o y = z
  <2> DEFINE w == x \o y
  <2>1. /\ w \in Seq(S) /\ Len(w) = Len(x) + Len(y)
        /\ \A i \in 1 .. Len(x) + Len(y) : w[i] = IF i <= Len(x) THEN x[i] ELSE y[i - Len(x)]
    BY <1>1, ConcatProperties
  <2>2. Len(x) + Len(y) = c - a
    BY <1>1
  <2> HIDE DEF w
  <2>3. \A i \in 1 .. c - a : w[i] = z[i]
    <3> SUFFICES ASSUME NEW i \in 1 .. c - a PROVE w[i] = z[i]
      OBVIOUS
    <3>1. CASE i <= b - a
      BY <1>1, <2>1, <2>2, <3>1
    <3>2. CASE ~(i <= b - a)
      <4>1. i - (b - a) \in 1 .. c - b /\ b + (i - (b - a)) = a + i
        BY <3>2
      <4>2. y[i - (b - a)] = s[b + (i - (b - a))]
        BY <1>1, <4>1
      <4>3. w[i] = y[i - (b - a)]
        BY <1>1, <2>1, <2>2, <3>2
      <4> QED BY <1>1, <4>1, <4>2, <4>3
    <3> QED BY <3>1, <3>2
  <2>4. w = z
    BY <1>1, <2>1, <2>2, <2>3, SeqEqual
  <2> QED BY <2>4 DEF w
<1>3. u = y
  <2>1. b - a \in Nat /\ c - a \in Nat /\ b - a <= c - a /\ c - a <= Len(z)
        /\ (c - a) - (b - a) = c - b /\ \A i \in 1 .. c - b : (b - a) + i \in 1 .. c - a
                                                        /\ a + ((b - a) + i) = b + i
    BY <1>1
  <2> DEFINE p == b - a
             q == c - a
  <2>2. p \in Nat /\ q \in Nat /\ p <= q /\ q <= Len(z) /\ q - p = c - b /\ u = SubSeq(z, p + 1, q)
        /\ \A i \in 1 .. c - b : p + i \in 1 .. c - a /\ a + (p + i) = b + i
    BY <2>1
  <2> HIDE DEF u, p, q
  <2>3. SubSeq(z, p + 1, q) \in Seq(S) /\ Len(SubSeq(z, p + 1, q)) = q - p
        /\ \A i \in 1 .. q - p : SubSeq(z, p + 1, q)[i] = z[p + i]
    BY <1>1, <2>2, PartOf
  <2>4. u \in Seq(S) /\ Len(u) = c - b /\ \A i \in 1 .. c - b : u[i] = z[p + i]
    BY <2>2, <2>3
  <2>5. \A i \in 1 .. c - b : u[i] = y[i]
    BY <1>1, <2>2, <2>4
  <2> QED BY <1>1, <2>4, <2>5, SeqEqual
<1> QED BY <1>2, <1>3 DEF x, y, z, u

\* A frame without a newline is one line.
LEMMA OneLine ==
  ASSUME NEW S, NEW frame \in Seq(S), \A i \in 1 .. Len(frame) : frame[i] # NL
  PROVE  Lines(frame) = <<frame>>
<1> DEFINE n == Len(frame)
           places == {k \in 1 .. n + 1 : k = n + 1 \/ frame[k] = NL}
           o == [i \in 1 .. 1 |-> n + 1]
<1>1. n \in Nat /\ places = {n + 1}
  OBVIOUS
<1> HIDE DEF n
<1>2. SelectsBy(o, 1, {n + 1}) /\ {n + 1} \in SUBSET Nat
  BY <1>1 DEF SelectsBy, Rises
<1> DEFINE breaks == Ascending(places)
<1>3. breaks = [i \in 1 .. 1 |-> n + 1]
  BY <1>1, <1>2, AscendingIsUnique DEF SelectsBy
<1>4. Lines(frame) =
        [i \in DOMAIN breaks |->
           SubSeq(frame, IF i = 1 THEN 1 ELSE breaks[i - 1] + 1, breaks[i] - 1)]
  BY DEF Lines, n
<1> HIDE DEF breaks
<1>5. Lines(frame) = [i \in 1 .. 1 |-> SubSeq(frame, 1, n)]
  BY <1>1, <1>3, <1>4
<1>6. SubSeq(frame, 1, n) = frame
  BY SubSeqFull DEF n
<1>7. Lines(frame) = [i \in 1 .. 1 |-> frame]
  BY <1>5, <1>6
<1> QED BY <1>7

FrameAt(reader, lines, read, k) == IF k = 0 THEN reader ELSE ReadLine(read[k - 1], lines[k])

LEMMA ReadFrameUnfolds ==
  ASSUME NEW reader, NEW frame
  PROVE  ReadFrame(reader, frame) =
           (CHOOSE f : f = [k \in 0 .. Len(Lines(frame)) |-> FrameAt(reader, Lines(frame), f, k)])
             [Len(Lines(frame))]
BY DEF ReadFrame, FrameAt

LEMMA OneLineIsRead ==
  ASSUME NEW S, NEW frame \in Seq(S), \A i \in 1 .. Len(frame) : frame[i] # NL, NEW reader
  PROVE  ReadFrame(reader, frame) = ReadLine(reader, frame)
<1> DEFINE lines == <<frame>>
           Solves(f) == f = [k \in 0 .. 1 |-> FrameAt(reader, lines, f, k)]
           read == CHOOSE f : Solves(f)
           w == [k \in 0 .. 1 |-> IF k = 0 THEN reader ELSE ReadLine(reader, frame)]
<1>1. Lines(frame) = lines /\ Len(lines) = 1
  BY OneLine
<1>2. Solves(w)
  BY DEF FrameAt
<1>3. Solves(read)
  BY <1>2
<1>4. ReadFrame(reader, frame) = read[1]
  BY <1>1, ReadFrameUnfolds
<1> HIDE DEF read
<1>5. read[0] = reader /\ read[1] = ReadLine(read[0], frame)
  BY <1>3 DEF FrameAt
<1> QED BY <1>4, <1>5

\* The bytes of a stream of m chunks: a frame of six symbols for each, four for the end.
Framed(bytes, chunks, m) ==
  /\ m \in Nat /\ Len(chunks) = m /\ Len(bytes) = 6 * m + 4
  /\ \A i \in 0 .. m - 1 :
       /\ bytes[6 * i + 1] = Data /\ bytes[6 * i + 2] = Open
       /\ bytes[6 * i + 3] = Body(chunks[i + 1]) /\ bytes[6 * i + 4] = Close
       /\ bytes[6 * i + 5] = NL /\ bytes[6 * i + 6] = NL
  /\ bytes[6 * m + 1] = Data /\ bytes[6 * m + 2] = Done
  /\ bytes[6 * m + 3] = NL /\ bytes[6 * m + 4] = NL

\* Where frame i + 1 starts, and how many whole frames k bytes hold.
Start(m, i) == IF i = m + 1 THEN 6 * m + 4 ELSE 6 * i
Whole(m, k) == IF k = 6 * m + 4 THEN m + 1 ELSE k \div 6

\* What a reader is after i frames of k bytes.
TextUpTo(chunks, m, i) == Content(SubSeq(chunks, 1, IF i <= m THEN i ELSE m))
ReaderAt(bytes, chunks, m, i, k) ==
  [buffer |-> SubSeq(bytes, Start(m, i) + 1, k), text |-> TextUpTo(chunks, m, i),
   state |-> IF i = m + 1 THEN "done" ELSE "reading"]

LEMMA SymbolsDiffer ==
  /\ Data # NL /\ Open # NL /\ Close # NL /\ Done # NL /\ \A c : Body(c) # NL
  /\ <<Data, Done>> # <<>>
  /\ \A c : <<Data, Open, Body(c), Close>> # <<Data, Done>>
<1>1. /\ NL.sym = "newline" /\ Data.sym = "data: " /\ Open.sym = "{" /\ Close.sym = "}"
      /\ Done.sym = "[DONE]" /\ \A c : Body(c).sym = "body"
  BY DEF NL, Data, Open, Close, Done, Body
<1>2. Data # NL /\ Open # NL /\ Close # NL /\ Done # NL /\ \A c : Body(c) # NL
  BY <1>1
<1>3. \A c : <<Data, Open, Body(c), Close>> # <<Data, Done>>
  OBVIOUS
<1> QED BY <1>2, <1>3

LEMMA WholeFrames ==
  ASSUME NEW m \in Nat, NEW k \in 0 .. 6 * m + 4
  PROVE  /\ Whole(m, k) \in 0 .. m + 1 /\ Start(m, Whole(m, k)) <= k
         /\ Start(m, Whole(m, k)) \in Nat
         /\ Whole(m, k) <= m => k < Start(m, Whole(m, k) + 1)
         /\ Whole(m, k) = m + 1 <=> k = 6 * m + 4
BY DEF Whole, Start

LEMMA FramesAreOrdered ==
  ASSUME NEW m \in Nat, NEW i \in 0 .. m
  PROVE  Start(m, i) \in Nat /\ Start(m, i + 1) \in Nat /\ Start(m, i + 1) <= 6 * m + 4
         /\ Start(m, i + 1) = Start(m, i) + (IF i = m THEN 4 ELSE 6)
BY DEF Start

\* A chunk's frame adds its text.
LEMMA TextGrows ==
  ASSUME NEW Q, NEW m \in Nat, NEW chunks \in Seq(Chunk(Q)), Len(chunks) = m, NEW i \in 0 .. m - 1
  PROVE  TextUpTo(chunks, m, i + 1) =
           IF chunks[i + 1].kind = "content" THEN TextUpTo(chunks, m, i) \o chunks[i + 1].of
           ELSE TextUpTo(chunks, m, i)
<1> DEFINE c == chunks[i + 1]
           a == SubSeq(chunks, 1, i)
           one == SubSeq(chunks, i + 1, i + 1)
           j == i + 1
<1>1. i \in Nat /\ j \in Nat /\ 0 <= i /\ i <= j /\ j <= Len(chunks) /\ 0 + 1 = 1
  OBVIOUS
<1>2. a \in Seq(Chunk(Q)) /\ one \in Seq(Chunk(Q)) /\ a \o one = SubSeq(chunks, 1, j)
      /\ Len(one) = 1 /\ one[1] = c
  <2>1. SubSeq(chunks, 0 + 1, i) \in Seq(Chunk(Q))
    BY <1>1, PartOf
  <2>2. one \in Seq(Chunk(Q)) /\ Len(one) = j - i /\ \A l \in 1 .. j - i : one[l] = chunks[i + l]
    BY <1>1, PartOf
  <2>3. SubSeq(chunks, 0 + 1, i) \o SubSeq(chunks, i + 1, j) = SubSeq(chunks, 0 + 1, j)
    BY <1>1, PartOfPart
  <2>4. j - i = 1 /\ 1 \in 1 .. 1
    OBVIOUS
  <2> HIDE DEF one, a
  <2>5. one[1] = c /\ Len(one) = 1
    BY <2>2, <2>4
  <2> QED BY <1>1, <2>1, <2>2, <2>3, <2>5 DEF one, a
<1>3. TextUpTo(chunks, m, i) = Content(a) /\ TextUpTo(chunks, m, j) = Content(SubSeq(chunks, 1, j))
  BY DEF TextUpTo
<1> HIDE DEF a, one, j
<1>4. Content(a \o one) = Content(a) \o Content(one) /\ Content(a) \in Seq(Q)
  BY <1>2, ContentConcat
<1>5. c \in Chunk(Q) /\ c.of \in Seq(Q)
  <2>1. c \in Chunk(Q)
    BY <1>1 DEF j
  <2> HIDE DEF c
  <2> QED BY <2>1 DEF Chunk
<1>6. one = <<c>>
  BY <1>2
<1>7. Content(one) = IF c.kind = "content" THEN c.of ELSE <<>>
  <2> DEFINE G == ChunkOf(Q, "content")
             K == {c}
  <2>1. K \in SUBSET Chunk(Q) /\ one \in Seq(K)
    BY <1>5, <1>6
  <2>2. OfKind(one, "content") = Kept(one, G)
    BY <1>2, ChunksAreKept
  <2>3. CASE c.kind = "content"
    <3>1. Kept(one, G) = one
      BY <1>5, <2>1, <2>3, KeptOfKind DEF ChunkOf
    <3>2. Content(one) = FlattenSeq(Pieces(one))
      BY <2>2, <3>1 DEF Content, Pieces
    <3>3. Pieces(one) = <<c.of>>
      BY <1>6 DEF Pieces
    <3>4. FlattenSeq(<<c.of>>) = c.of
      BY <1>5, FlattenOne
    <3> QED BY <2>3, <3>2, <3>3, <3>4
  <2>4. CASE c.kind # "content"
    <3>1. K \cap G = {}
      BY <2>4 DEF ChunkOf
    <3>2. Kept(one, G) = <<>>
      BY <2>1, <3>1, KeptOfKind
    <3>3. Content(one) = FlattenSeq(Pieces(<<>>)) /\ Pieces(<<>>) = <<>>
      BY <2>2, <3>2 DEF Content, Pieces
    <3> QED BY <2>4, <3>3, FlattenEmpty
  <2> QED BY <2>3, <2>4
<1> QED BY <1>2, <1>3, <1>4, <1>7, ConcatEmptySeq DEF j, c

\* Reading a frame of a chunk, and the last one.
LEMMA ChunkIsRead ==
  ASSUME NEW reader, reader.state = "reading", NEW c
  PROVE  ReadLine(reader, <<Data, Open, Body(c), Close>>) =
           [reader EXCEPT !.text = IF c.kind = "content" THEN @ \o c.of ELSE @]
<1> DEFINE line == <<Data, Open, Body(c), Close>>
<1>1. line # <<>> /\ line[1] = Data /\ line # <<Data, Done>> /\ Len(line) = 4
      /\ line[2] = Open /\ line[4] = Close /\ line[3] = Body(c)
  BY SymbolsDiffer
<1>2. line[3].chunk = c
  BY DEF Body
<1> HIDE DEF line
<1> QED BY <1>1, <1>2 DEF ReadLine, line

LEMMA DoneIsRead ==
  ASSUME NEW reader, reader.state = "reading"
  PROVE  ReadLine(reader, <<Data, Done>>) = [reader EXCEPT !.state = "done"]
BY DEF ReadLine

LEMMA FirstSeparator ==
  ASSUME NEW buffer, NEW p \in Nat, Len(buffer) \in Nat, p + 1 <= Len(buffer), p >= 1,
         buffer[p] = NL, buffer[p + 1] = NL, \A i \in 1 .. p - 1 : buffer[i] # NL
  PROVE  Separators(buffer) # {} /\ First(Separators(buffer)) = p
<1> DEFINE places == Separators(buffer)
<1>1. p \in places /\ \A k \in places : k \in Nat /\ p <= k
  BY DEF Separators
<1> HIDE DEF places
<1>2. First(places) \in places /\ \A k \in places : First(places) <= k
  BY <1>1 DEF First
<1> DEFINE q == First(places)
<1>3. q \in Nat /\ p <= q /\ q <= p
  BY <1>1, <1>2
<1> HIDE DEF q
<1>4. q = p
  BY <1>3
<1> QED BY <1>1, <1>4 DEF places, q

LEMMA ReaderIsAt ==
  ASSUME NEW bytes, NEW chunks, NEW m, NEW i, NEW k
  PROVE  /\ ReaderAt(bytes, chunks, m, i, k).buffer = SubSeq(bytes, Start(m, i) + 1, k)
         /\ ReaderAt(bytes, chunks, m, i, k).text = TextUpTo(chunks, m, i)
         /\ ReaderAt(bytes, chunks, m, i, k).state = IF i = m + 1 THEN "done" ELSE "reading"
BY DEF ReaderAt

\* A whole frame in the buffer is read.
LEMMA NextFrame ==
  ASSUME NEW S, NEW bytes \in Seq(S), NEW Q, NEW chunks \in Seq(Chunk(Q)), NEW m,
         Framed(bytes, chunks, m), NEW i \in 0 .. m, NEW k \in 0 .. 6 * m + 4,
         Start(m, i + 1) <= k
  PROVE  ReadFirst(ReaderAt(bytes, chunks, m, i, k)) = ReaderAt(bytes, chunks, m, i + 1, k)
<1> DEFINE a == Start(m, i)
           b == Start(m, i + 1)
           r == ReaderAt(bytes, chunks, m, i, k)
           z == SubSeq(bytes, a + 1, k)
           p == (b - a) - 1
           frame == SubSeq(z, 1, p - 1)
           rest == SubSeq(z, p + 2, Len(z))
<1>1. /\ m \in Nat /\ Len(bytes) = 6 * m + 4 /\ Len(chunks) = m /\ a \in Nat /\ b \in Nat
      /\ k \in Nat /\ a <= b /\ b <= k /\ k <= Len(bytes) /\ a <= k
      /\ b = a + (IF i = m THEN 4 ELSE 6) /\ a = 6 * i /\ i # m + 1 /\ i \in Nat
  <2>1. m \in Nat /\ Len(bytes) = 6 * m + 4 /\ Len(chunks) = m
    BY DEF Framed
  <2>2. a \in Nat /\ b \in Nat /\ b = a + (IF i = m THEN 4 ELSE 6)
    BY <2>1, FramesAreOrdered
  <2>3. a = 6 * i /\ i # m + 1 /\ i \in Nat /\ k \in Nat /\ k <= 6 * m + 4
    BY <2>1 DEF Start
  <2> HIDE DEF a, b
  <2>4. a <= b
    BY <2>2
  <2>5. b <= k
    BY DEF b
  <2> QED BY <2>1, <2>2, <2>3, <2>4, <2>5
<1> HIDE DEF a, b
<1>2. z \in Seq(S) /\ Len(z) = k - a /\ \A l \in 1 .. k - a : z[l] = bytes[a + l]
  BY <1>1, PartOf
<1>3. r.buffer = z /\ r.text = TextUpTo(chunks, m, i) /\ r.state = "reading"
  <2>1. r.state = IF i = m + 1 THEN "done" ELSE "reading"
    BY ReaderIsAt
  <2>2. r.buffer = z /\ r.text = TextUpTo(chunks, m, i)
    BY ReaderIsAt DEF a
  <2> HIDE DEF r
  <2>3. r.state = "reading"
    BY <1>1, <2>1
  <2> QED BY <2>2, <2>3
<1>4. rest = SubSeq(bytes, b + 1, k)
  <2>1. SubSeq(SubSeq(bytes, a + 1, k), b - a + 1, k - a) = SubSeq(bytes, b + 1, k)
    BY <1>1, PartOfPart
  <2>2. p + 2 = b - a + 1 /\ Len(z) = k - a
    BY <1>1, <1>2
  <2> QED BY <2>1, <2>2
<1>5. p = (IF i = m THEN 3 ELSE 5) /\ k - a \in Nat /\ p + 1 <= k - a
  BY <1>1
<1> HIDE DEF z, r, rest, p
<1>6. ASSUME Separators(z) # {}, First(Separators(z)) = p
      PROVE  ReadFirst(r) = [ReadFrame(r, frame) EXCEPT !.buffer = rest]
  BY <1>3, <1>6 DEF ReadFirst, rest
<1>7. r = [buffer |-> z, text |-> TextUpTo(chunks, m, i), state |-> "reading"]
  BY <1>1 DEF r, z, ReaderAt, a
<1>8. CASE i # m
  <2>1. i \in 0 .. m - 1 /\ p = 5 /\ 6 <= k - a
    BY <1>1, <1>5, <1>8
  <2> DEFINE c == chunks[i + 1]
             line == <<Data, Open, Body(c), Close>>
  <2>2. /\ bytes[6 * i + 1] = Data /\ bytes[6 * i + 2] = Open
        /\ bytes[6 * i + 3] = Body(c) /\ bytes[6 * i + 4] = Close
        /\ bytes[6 * i + 5] = NL /\ bytes[6 * i + 6] = NL
    BY <2>1 DEF Framed
  <2>3. /\ z[1] = Data /\ z[2] = Open /\ z[3] = Body(c) /\ z[4] = Close
        /\ z[5] = NL /\ z[6] = NL
    <3>1. \A l \in 1 .. 6 : l \in 1 .. k - a
      BY <1>1, <2>1
    <3>2. \A l \in 1 .. 6 : z[l] = bytes[6 * i + l]
      BY <1>1, <1>2, <3>1
    <3>3. /\ z[1] = bytes[6 * i + 1] /\ z[2] = bytes[6 * i + 2] /\ z[3] = bytes[6 * i + 3]
          /\ z[4] = bytes[6 * i + 4] /\ z[5] = bytes[6 * i + 5] /\ z[6] = bytes[6 * i + 6]
      BY <3>2
    <3> HIDE DEF c
    <3> QED BY <2>2, <3>3
  <2> HIDE DEF c
  <2>4. \A l \in 1 .. 4 : z[l] # NL
    BY <2>3, SymbolsDiffer
  <2>5. Separators(z) # {} /\ First(Separators(z)) = p
    <3>1. Len(z) \in Nat /\ p \in Nat /\ p + 1 <= Len(z) /\ p >= 1 /\ p - 1 = 4 /\ p + 1 = 6
      BY <1>2, <1>5, <2>1
    <3>2. z[p] = NL /\ z[p + 1] = NL /\ \A l \in 1 .. p - 1 : z[l] # NL
      BY <2>1, <2>3, <2>4, <3>1
    <3> QED BY <3>1, <3>2, FirstSeparator
  <2>6. frame = line /\ frame \in Seq(S) /\ \A l \in 1 .. Len(frame) : frame[l] # NL
    <3>1. SubSeq(z, 0 + 1, 4) \in Seq(S) /\ Len(SubSeq(z, 0 + 1, 4)) = 4 - 0
          /\ \A l \in 1 .. 4 - 0 : SubSeq(z, 0 + 1, 4)[l] = z[0 + l]
      <4>1. 0 \in Nat /\ 4 \in Nat /\ 0 <= 4 /\ 4 <= Len(z)
        BY <1>2, <2>1
      <4> QED BY <1>2, <4>1, PartOf
    <3>2. frame = SubSeq(z, 0 + 1, 4) /\ 4 - 0 = 4 /\ \A l \in 1 .. 4 : 0 + l = l
      BY <2>1
    <3> HIDE DEF frame
    <3>3. frame \in Seq(S) /\ Len(frame) = 4 /\ \A l \in 1 .. 4 : frame[l] = z[l]
      BY <3>1, <3>2
    <3>4. frame = line
      BY <2>3, <3>3
    <3> QED BY <2>4, <3>3, <3>4
  <2> HIDE DEF frame, line
  <2>7. ReadFrame(r, frame) = ReadLine(r, line)
    BY <2>6, OneLineIsRead
  <2>8. ReadLine(r, line) = [r EXCEPT !.text = IF c.kind = "content" THEN @ \o c.of ELSE @]
    BY <1>3, ChunkIsRead DEF line
  <2>9. TextUpTo(chunks, m, i + 1) =
          IF c.kind = "content" THEN TextUpTo(chunks, m, i) \o c.of ELSE TextUpTo(chunks, m, i)
    BY <1>1, <2>1, TextGrows DEF c
  <2>10. ReadLine(r, line) = [r EXCEPT !.text = TextUpTo(chunks, m, i + 1)]
    BY <1>3, <2>8, <2>9
  <2>11. ReadFirst(r) = [r EXCEPT !.text = TextUpTo(chunks, m, i + 1), !.buffer = rest]
    BY <1>6, <2>5, <2>7, <2>10
  <2>12. i + 1 # m + 1
    BY <1>1, <1>8
  <2> QED BY <1>4, <1>7, <2>11, <2>12 DEF ReaderAt, r, b
<1>9. CASE i = m
  <2>1. p = 3 /\ 4 <= k - a
    BY <1>1, <1>5, <1>9
  <2> DEFINE line == <<Data, Done>>
  <2>2. /\ bytes[6 * m + 1] = Data /\ bytes[6 * m + 2] = Done
        /\ bytes[6 * m + 3] = NL /\ bytes[6 * m + 4] = NL
    BY DEF Framed
  <2>3. z[1] = Data /\ z[2] = Done /\ z[3] = NL /\ z[4] = NL
    <3>1. \A l \in 1 .. 4 : l \in 1 .. k - a
      BY <1>1, <2>1
    <3>2. \A l \in 1 .. 4 : z[l] = bytes[6 * m + l]
      BY <1>1, <1>2, <1>9, <3>1
    <3> QED BY <2>2, <3>2
  <2>4. \A l \in 1 .. 2 : z[l] # NL
    BY <2>3, SymbolsDiffer
  <2>5. Separators(z) # {} /\ First(Separators(z)) = p
    <3>1. Len(z) \in Nat /\ p \in Nat /\ p + 1 <= Len(z) /\ p >= 1 /\ p - 1 = 2 /\ p + 1 = 4
      BY <1>2, <1>5, <2>1
    <3>2. z[p] = NL /\ z[p + 1] = NL /\ \A l \in 1 .. p - 1 : z[l] # NL
      BY <2>1, <2>3, <2>4, <3>1
    <3> QED BY <3>1, <3>2, FirstSeparator
  <2>6. frame = line /\ frame \in Seq(S) /\ \A l \in 1 .. Len(frame) : frame[l] # NL
    <3>1. SubSeq(z, 0 + 1, 2) \in Seq(S) /\ Len(SubSeq(z, 0 + 1, 2)) = 2 - 0
          /\ \A l \in 1 .. 2 - 0 : SubSeq(z, 0 + 1, 2)[l] = z[0 + l]
      <4>1. 0 \in Nat /\ 2 \in Nat /\ 0 <= 2 /\ 2 <= Len(z)
        BY <1>2, <2>1
      <4> QED BY <1>2, <4>1, PartOf
    <3>2. frame = SubSeq(z, 0 + 1, 2) /\ 2 - 0 = 2 /\ \A l \in 1 .. 2 : 0 + l = l
      BY <2>1
    <3> HIDE DEF frame
    <3>3. frame \in Seq(S) /\ Len(frame) = 2 /\ \A l \in 1 .. 2 : frame[l] = z[l]
      BY <3>1, <3>2
    <3>4. frame = line
      BY <2>3, <3>3
    <3> QED BY <2>4, <3>3, <3>4
  <2> HIDE DEF frame, line
  <2>7. ReadFrame(r, frame) = ReadLine(r, line)
    BY <2>6, OneLineIsRead
  <2>8. ReadLine(r, line) = [r EXCEPT !.state = "done"]
    BY <1>3, DoneIsRead DEF line
  <2>9. TextUpTo(chunks, m, i + 1) = TextUpTo(chunks, m, i)
    BY <1>1, <1>9 DEF TextUpTo
  <2>10. ReadFirst(r) = [r EXCEPT !.state = "done", !.buffer = rest]
    BY <1>6, <2>5, <2>7, <2>8
  <2> QED BY <1>4, <1>7, <1>9, <2>9, <2>10 DEF ReaderAt, r, b
<1> QED BY <1>8, <1>9

\* A frame that has not arrived whole is left in the buffer, and so is all after the end.
LEMMA NoFrame ==
  ASSUME NEW S, NEW bytes \in Seq(S), NEW chunks, NEW m, Framed(bytes, chunks, m),
         NEW i \in 0 .. m + 1, NEW k \in 0 .. 6 * m + 4,
         Start(m, i) <= k, i <= m => k < Start(m, i + 1)
  PROVE  ReadFirst(ReaderAt(bytes, chunks, m, i, k)) = ReaderAt(bytes, chunks, m, i, k)
<1> DEFINE a == Start(m, i)
           r == ReaderAt(bytes, chunks, m, i, k)
           z == SubSeq(bytes, a + 1, k)
<1>0. m \in Nat /\ Len(bytes) = 6 * m + 4
  BY DEF Framed
<1>1. CASE i = m + 1
  <2>1. r.state # "reading"
    BY <1>1, ReaderIsAt
  <2> HIDE DEF r
  <2> QED BY <2>1 DEF ReadFirst, r
<1>2. CASE i # m + 1
  <2>1. /\ i \in 0 .. m /\ a \in Nat /\ a = 6 * i /\ a <= k /\ k <= Len(bytes) /\ k \in Nat
        /\ k < a + (IF i = m THEN 4 ELSE 6)
    <3>1. i \in 0 .. m
      BY <1>0, <1>2
    <3>2. a \in Nat /\ Start(m, i + 1) = a + (IF i = m THEN 4 ELSE 6)
      BY <1>0, <3>1, FramesAreOrdered
    <3>3. a = 6 * i
      BY <1>2 DEF Start
    <3> HIDE DEF a
    <3>4. a <= k /\ k < Start(m, i + 1)
      BY <1>0, <3>1 DEF a
    <3> QED BY <1>0, <3>1, <3>2, <3>3, <3>4
  <2> HIDE DEF a
  <2>2. z \in Seq(S) /\ Len(z) = k - a /\ \A l \in 1 .. k - a : z[l] = bytes[a + l]
    BY <2>1, PartOf
  <2>3. r.buffer = z
    BY ReaderIsAt DEF a
  <2> HIDE DEF z, r
  <2>4. Separators(z) = {}
    <3> SUFFICES ASSUME NEW l \in 1 .. (k - a) - 1, z[l] = NL, z[l + 1] = NL PROVE FALSE
      BY <2>2 DEF Separators
    <3>1. l \in 1 .. k - a /\ l + 1 \in 1 .. k - a
      BY <2>1
    <3>2. bytes[a + l] = NL
      BY <2>2, <3>1
    <3>3. CASE i = m
      <4>1. l \in 1 .. 2 /\ a + l = 6 * m + l
        BY <2>1, <3>1, <3>3
      <4>2. bytes[6 * m + 1] = Data /\ bytes[6 * m + 2] = Done
        BY DEF Framed
      <4> QED BY <3>2, <4>1, <4>2, SymbolsDiffer
    <3>4. CASE i # m
      <4>1. l \in 1 .. 4 /\ a + l = 6 * i + l /\ i \in 0 .. m - 1
        BY <1>0, <2>1, <3>1, <3>4
      <4>2. /\ bytes[6 * i + 1] = Data /\ bytes[6 * i + 2] = Open
            /\ bytes[6 * i + 3] = Body(chunks[i + 1]) /\ bytes[6 * i + 4] = Close
        BY <4>1 DEF Framed
      <4> QED BY <3>2, <4>1, <4>2, SymbolsDiffer
    <3> QED BY <3>3, <3>4
  <2> QED BY <2>3, <2>4 DEF ReadFirst, r
<1> QED BY <1>1, <1>2

\* Between two numbers of bytes.
LEMMA FramesBetween ==
  ASSUME NEW m \in Nat, NEW k \in 0 .. 6 * m + 4, NEW l \in k .. 6 * m + 4
  PROVE  /\ l \in 0 .. 6 * m + 4 /\ Whole(m, k) \in 0 .. m + 1 /\ Whole(m, l) \in 0 .. m + 1
         /\ Whole(m, k) <= Whole(m, l)
         /\ Start(m, Whole(m, k)) \in Nat /\ Start(m, Whole(m, k)) <= k
         /\ Whole(m, l) - Whole(m, k) <= l - Start(m, Whole(m, k))
         /\ \A h \in 0 .. Whole(m, l) : Start(m, h) <= l
         /\ Whole(m, l) <= m => l < Start(m, Whole(m, l) + 1)
<1> DEFINE i == Whole(m, k)
           j == Whole(m, l)
<1>1. l \in 0 .. 6 * m + 4 /\ k \in Nat /\ k <= l
  OBVIOUS
<1>2. /\ i \in 0 .. m + 1 /\ Start(m, i) <= k /\ Start(m, i) \in Nat
      /\ (i <= m => k < Start(m, i + 1)) /\ (i = m + 1 <=> k = 6 * m + 4)
  BY WholeFrames
<1>3. /\ j \in 0 .. m + 1 /\ Start(m, j) <= l /\ Start(m, j) \in Nat
      /\ (j <= m => l < Start(m, j + 1)) /\ (j = m + 1 <=> l = 6 * m + 4)
  BY <1>1, WholeFrames
<1> HIDE DEF i, j
<1>4. i <= j
  BY <1>1, <1>2, <1>3 DEF Start
<1>5. j - i <= l - Start(m, i)
  BY <1>1, <1>2, <1>3, <1>4 DEF Start
<1>6. \A h \in 0 .. j : Start(m, h) <= l
  BY <1>1, <1>3 DEF Start
<1> QED BY <1>1, <1>2, <1>3, <1>4, <1>5, <1>6 DEF i, j

DrainAt(reader, whole, f, x) ==
  IF x = 0 THEN [reader EXCEPT !.buffer = whole] ELSE ReadFirst(f[x - 1])

LEMMA FeedUnfolds ==
  ASSUME NEW reader, NEW chunk
  PROVE  Feed(reader, chunk) =
           (CHOOSE f : f = [x \in 0 .. Len(reader.buffer \o chunk) |->
                              DrainAt(reader, reader.buffer \o chunk, f, x)])
             [Len(reader.buffer \o chunk)]
BY DEF Feed, DrainAt

\* What a reader has depends on the bytes that came, not on how they came.
LEMMA FedUpTo ==
  ASSUME NEW S, NEW bytes \in Seq(S), NEW Q, NEW chunks \in Seq(Chunk(Q)), NEW m,
         Framed(bytes, chunks, m), NEW k \in 0 .. 6 * m + 4, NEW l \in k .. 6 * m + 4
  PROVE  Feed(ReaderAt(bytes, chunks, m, Whole(m, k), k), SubSeq(bytes, k + 1, l)) =
           ReaderAt(bytes, chunks, m, Whole(m, l), l)
<1> DEFINE i == Whole(m, k)
           j == Whole(m, l)
           a == Start(m, i)
           n == l - a
           reader == ReaderAt(bytes, chunks, m, i, k)
           chunk == SubSeq(bytes, k + 1, l)
           whole == reader.buffer \o chunk
           at(x) == IF i + x <= j THEN i + x ELSE j
           w == [x \in 0 .. n |-> ReaderAt(bytes, chunks, m, at(x), l)]
           Solves(f) == f = [x \in 0 .. n |-> DrainAt(reader, whole, f, x)]
           drain == CHOOSE f : Solves(f)
<1>1. m \in Nat /\ Len(bytes) = 6 * m + 4
  BY DEF Framed
<1>2. /\ l \in 0 .. 6 * m + 4 /\ k \in Nat /\ l \in Nat /\ k <= l
      /\ i \in 0 .. m + 1 /\ j \in 0 .. m + 1 /\ i <= j
      /\ a \in Nat /\ a <= k /\ n \in Nat /\ j - i <= n
      /\ (\A h \in 0 .. j : Start(m, h) <= l) /\ (j <= m => l < Start(m, j + 1))
  <2>1. /\ l \in 0 .. 6 * m + 4 /\ i \in 0 .. m + 1 /\ j \in 0 .. m + 1 /\ i <= j
        /\ a \in Nat /\ a <= k /\ j - i <= l - a
        /\ (\A h \in 0 .. j : Start(m, h) <= l) /\ (j <= m => l < Start(m, j + 1))
    BY <1>1, FramesBetween
  <2> HIDE DEF i, j, a
  <2> QED BY <1>1, <2>1
<1>3. whole = SubSeq(bytes, a + 1, l) /\ Len(whole) = n
  <2>1. reader.buffer = SubSeq(bytes, a + 1, k)
    BY ReaderIsAt
  <2> HIDE DEF reader, a, i, j
  <2>2. SubSeq(bytes, a + 1, k) \o SubSeq(bytes, k + 1, l) = SubSeq(bytes, a + 1, l)
    BY <1>1, <1>2, PartOfPart
  <2>3. Len(SubSeq(bytes, a + 1, l)) = l - a
    BY <1>1, <1>2, PartOf
  <2> QED BY <2>1, <2>2, <2>3
<1>4. [reader EXCEPT !.buffer = whole] = ReaderAt(bytes, chunks, m, i, l)
  <2> HIDE DEF whole, i
  <2>1. reader = [buffer |-> SubSeq(bytes, a + 1, k), text |-> TextUpTo(chunks, m, i),
                  state |-> IF i = m + 1 THEN "done" ELSE "reading"]
    BY DEF ReaderAt
  <2>2. ReaderAt(bytes, chunks, m, i, l) =
          [buffer |-> whole, text |-> TextUpTo(chunks, m, i),
           state |-> IF i = m + 1 THEN "done" ELSE "reading"]
    BY <1>3 DEF ReaderAt
  <2> HIDE DEF reader
  <2> QED BY <2>1, <2>2
<1> HIDE DEF whole, reader, chunk, a, i, j, n
<1>5. \A x \in 0 .. n : at(x) \in 0 .. m + 1
  BY <1>1, <1>2
<1>6. \A x \in 1 .. n : ReadFirst(w[x - 1]) = w[x]
  <2> SUFFICES ASSUME NEW x \in 1 .. n PROVE ReadFirst(w[x - 1]) = w[x]
    OBVIOUS
  <2>1. x - 1 \in 0 .. n /\ x \in 0 .. n
    BY <1>2
  <2>2. w[x - 1] = ReaderAt(bytes, chunks, m, at(x - 1), l)
        /\ w[x] = ReaderAt(bytes, chunks, m, at(x), l)
    BY <2>1
  <2> HIDE DEF w
  <2>3. CASE i + x <= j
    <3> DEFINE h == i + (x - 1)
    <3>1. h \in 0 .. m /\ h + 1 \in 0 .. j /\ at(x - 1) = h /\ at(x) = h + 1
      BY <1>1, <1>2, <2>1, <2>3
    <3> HIDE DEF h, at
    <3>2. Start(m, h + 1) <= l
      BY <1>2, <3>1
    <3>3. ReadFirst(ReaderAt(bytes, chunks, m, h, l)) = ReaderAt(bytes, chunks, m, h + 1, l)
      BY <1>2, <3>1, <3>2, NextFrame
    <3> QED BY <2>2, <3>1, <3>3
  <2>4. CASE ~(i + x <= j)
    <3>1. at(x - 1) = j /\ at(x) = j
      BY <1>1, <1>2, <2>1, <2>4
    <3> HIDE DEF at
    <3>2. Start(m, j) <= l
      BY <1>2
    <3>3. ReadFirst(ReaderAt(bytes, chunks, m, j, l)) = ReaderAt(bytes, chunks, m, j, l)
      BY <1>2, <3>2, NoFrame
    <3> QED BY <2>2, <3>1, <3>3
  <2> QED BY <2>3, <2>4
<1>7. w[0] = ReaderAt(bytes, chunks, m, i, l) /\ w[n] = ReaderAt(bytes, chunks, m, j, l)
  <2>1. 0 \in 0 .. n /\ n \in 0 .. n /\ at(0) = i /\ at(n) = j
    BY <1>1, <1>2
  <2> HIDE DEF at
  <2> QED BY <2>1
<1>8. Solves(w)
  <2>1. \A x \in 0 .. n : w[x] = DrainAt(reader, whole, w, x)
    <3> HIDE DEF w
    <3> SUFFICES ASSUME NEW x \in 0 .. n PROVE w[x] = DrainAt(reader, whole, w, x)
      OBVIOUS
    <3>1. CASE x = 0
      BY <1>4, <1>7, <3>1 DEF DrainAt
    <3>2. CASE x # 0
      <4>1. x \in 1 .. n
        BY <1>2, <3>2
      <4> QED BY <1>6, <3>2, <4>1 DEF DrainAt
    <3> QED BY <3>1, <3>2
  <2>2. w = [x \in 0 .. n |-> w[x]]
    OBVIOUS
  <2> HIDE DEF w
  <2> QED BY <2>1, <2>2
<1>9. Solves(drain)
  BY <1>8
<1>10. Feed(reader, chunk) = drain[n]
  BY <1>3, FeedUnfolds DEF whole
<1> HIDE DEF drain, w
<1>11. drain[0] = w[0]
  BY <1>2, <1>8, <1>9 DEF DrainAt
<1>12. \A x \in 1 .. n : drain[x - 1] = w[x - 1] => drain[x] = w[x]
  <2> SUFFICES ASSUME NEW x \in 1 .. n, drain[x - 1] = w[x - 1] PROVE drain[x] = w[x]
    OBVIOUS
  <2>1. x \in 0 .. n /\ x # 0
    BY <1>2
  <2>2. drain[x] = DrainAt(reader, whole, drain, x)
    BY <1>9, <2>1
  <2> QED BY <1>6, <2>1, <2>2 DEF DrainAt
<1>13. drain[n] = w[n]
  BY <1>2, <1>11, <1>12, EndAlike
<1> QED BY <1>7, <1>10, <1>13 DEF reader, chunk, i, j

FedAt(pieces, f, x) == IF x = 0 THEN Reader ELSE Feed(f[x - 1], pieces[x])

LEMMA ConsumeUnfolds ==
  ASSUME NEW pieces
  PROVE  Consume(pieces) =
           (CHOOSE f : f = [x \in 0 .. Len(pieces) |-> FedAt(pieces, f, x)])[Len(pieces)]
BY DEF Consume, FedAt

LEMMA ReaderStarts ==
  ASSUME NEW S, NEW bytes \in Seq(S), NEW Q, NEW chunks \in Seq(Chunk(Q)), NEW m \in Nat
  PROVE  ReaderAt(bytes, chunks, m, Whole(m, 0), 0) = Reader
<1>1. Whole(m, 0) = 0 /\ Start(m, 0) = 0 /\ ~(0 = m + 1) /\ 0 <= m
  BY DEF Whole, Start
<1>2. SubSeq(bytes, 0 + 1, 0) = <<>> /\ SubSeq(chunks, 1, 0) = <<>>
  OBVIOUS
<1>3. TextUpTo(chunks, m, 0) = <<>>
  <2>1. TextUpTo(chunks, m, 0) = Content(<<>>)
    BY <1>1, <1>2 DEF TextUpTo
  <2>2. OfKind(<<>>, "content") = <<>>
    <3>1. <<>> \in Seq(Chunk(Q))
      OBVIOUS
    <3>2. OfKind(<<>>, "content") = Kept(<<>>, ChunkOf(Q, "content"))
      BY <3>1, ChunksAreKept
    <3>3. Kept(<<>>, ChunkOf(Q, "content")) = <<>>
      <4> DEFINE none == <<>>
      <4>1. none \in Seq(Chunk(Q)) /\ Len(none) = 0
        OBVIOUS
      <4> HIDE DEF none
      <4>2. \A k \in 1 .. Len(none) : none[k] \notin ChunkOf(Q, "content")
        BY <4>1
      <4>3. Kept(none, ChunkOf(Q, "content")) = <<>>
        BY <4>1, <4>2, KeptNone
      <4> QED BY <4>3 DEF none
    <3> QED BY <3>2, <3>3
  <2>3. Content(<<>>) = FlattenSeq(<<>>)
    BY <2>2 DEF Content
  <2> QED BY <2>1, <2>3, FlattenEmpty
<1> QED BY <1>1, <1>2, <1>3 DEF ReaderAt, Reader

\* Pieces of the first l bytes of a stream.
PiecesOf(pieces, bytes, at, l) ==
  /\ Len(pieces) \in Nat /\ at[0] = 0 /\ at[Len(pieces)] = l
  /\ \A x \in 1 .. Len(pieces) :
       /\ at[x - 1] \in 0 .. l /\ at[x] \in at[x - 1] .. l
       /\ pieces[x] = SubSeq(bytes, at[x - 1] + 1, at[x])

LEMMA CutsDoNotMatter ==
  ASSUME NEW S, NEW bytes \in Seq(S), NEW Q, NEW chunks \in Seq(Chunk(Q)), NEW m,
         Framed(bytes, chunks, m), NEW l \in 0 .. 6 * m + 4, NEW pieces, NEW at,
         PiecesOf(pieces, bytes, at, l)
  PROVE  Consume(pieces) = ReaderAt(bytes, chunks, m, Whole(m, l), l)
<1> DEFINE q == Len(pieces)
           has(x) == ReaderAt(bytes, chunks, m, Whole(m, at[x]), at[x])
           w == [x \in 0 .. q |-> has(x)]
           Solves(f) == f = [x \in 0 .. q |-> FedAt(pieces, f, x)]
           fed == CHOOSE f : Solves(f)
<1>1. m \in Nat /\ q \in Nat /\ at[0] = 0 /\ at[q] = l
  BY DEF Framed, PiecesOf
<1>2. \A x \in 1 .. q : Feed(has(x - 1), pieces[x]) = has(x)
  <2> SUFFICES ASSUME NEW x \in 1 .. q PROVE Feed(has(x - 1), pieces[x]) = has(x)
    OBVIOUS
  <2> DEFINE b == at[x - 1]
             c == at[x]
  <2>1. b \in 0 .. l /\ c \in b .. l /\ pieces[x] = SubSeq(bytes, b + 1, c)
    BY DEF PiecesOf
  <2> HIDE DEF b, c, q
  <2>2. b \in 0 .. 6 * m + 4 /\ c \in b .. 6 * m + 4
    BY <1>1, <2>1
  <2>3. Feed(ReaderAt(bytes, chunks, m, Whole(m, b), b), SubSeq(bytes, b + 1, c)) =
          ReaderAt(bytes, chunks, m, Whole(m, c), c)
    BY <2>2, FedUpTo
  <2> QED BY <2>1, <2>3 DEF b, c
<1>3. has(0) = Reader
  BY <1>1, ReaderStarts
<1> HIDE DEF q, has
<1>4. \A x \in 0 .. q : w[x] = FedAt(pieces, w, x)
  <2> SUFFICES ASSUME NEW x \in 0 .. q PROVE w[x] = FedAt(pieces, w, x)
    OBVIOUS
  <2>1. CASE x = 0
    BY <1>1, <1>3, <2>1 DEF FedAt
  <2>2. CASE x # 0
    <3>1. x \in 1 .. q /\ x - 1 \in 0 .. q /\ w[x - 1] = has(x - 1) /\ w[x] = has(x)
      BY <1>1, <2>2
    <3> HIDE DEF w
    <3> QED BY <1>2, <2>2, <3>1 DEF FedAt
  <2> QED BY <2>1, <2>2
<1>5. w = [x \in 0 .. q |-> w[x]] /\ w[0] = Reader /\ \A x \in 0 .. q : w[x] = has(x)
  BY <1>1, <1>3
<1> HIDE DEF w
<1>6. Solves(w)
  BY <1>4, <1>5
<1>7. Solves(fed)
  BY <1>6
<1>8. Consume(pieces) = fed[q]
  BY ConsumeUnfolds DEF q
<1> HIDE DEF fed
<1>9. fed[0] = w[0]
  BY <1>1, <1>5, <1>7 DEF FedAt
<1>10. \A x \in 1 .. q : fed[x - 1] = w[x - 1] => fed[x] = w[x]
  <2> SUFFICES ASSUME NEW x \in 1 .. q, fed[x - 1] = w[x - 1] PROVE fed[x] = w[x]
    OBVIOUS
  <2>1. x \in 0 .. q /\ x # 0
    BY <1>1
  <2>2. fed[x] = FedAt(pieces, fed, x)
    BY <1>7, <2>1
  <2> QED BY <1>4, <2>1, <2>2 DEF FedAt
<1>11. fed[q] = w[q]
  BY <1>1, <1>9, <1>10, EndAlike
<1>12. w[q] = has(q)
  BY <1>1, <1>5
<1> QED BY <1>1, <1>8, <1>11, <1>12 DEF has

\* A cut into pieces of one size, the first apart.
LEMMA CountOfPieces ==
  ASSUME NEW d \in Nat, NEW size \in 1 .. 9
  PROVE  /\ d \div size \in Nat /\ d < (d \div size) * size + size
         /\ \A x \in Nat : x * size \in Nat /\ (x + 1) * size = x * size + size
<1>1. CASE size = 1
  BY <1>1
<1>2. CASE size = 2
  BY <1>2
<1>3. CASE size = 3
  BY <1>3
<1>4. CASE size = 4
  BY <1>4
<1>5. CASE size = 5
  BY <1>5
<1>6. CASE size = 6
  BY <1>6
<1>7. CASE size = 7
  BY <1>7
<1>8. CASE size = 8
  BY <1>8
<1>9. CASE size = 9
  BY <1>9
<1> QED BY <1>1, <1>2, <1>3, <1>4, <1>5, <1>6, <1>7, <1>8, <1>9

\* A slice, which may start or end past the end of the sequence.
AtMost(a, l) == IF a <= l THEN a ELSE l

LEMMA SliceIs ==
  ASSUME NEW S, NEW s \in Seq(S), NEW a \in Nat, NEW n \in Nat
  PROVE  Slice(s, a + 1, n) = SubSeq(s, AtMost(a, Len(s)) + 1, AtMost(a + n, Len(s)))
<1> DEFINE l == Len(s)
<1>1. l \in Nat
  OBVIOUS
<1>2. (a + 1) + n - 1 = a + n
  OBVIOUS
<1>3. Slice(s, a + 1, n) = SubSeq(s, a + 1, IF a + n <= l THEN a + n ELSE l)
  BY <1>2 DEF Slice
<1>4. CASE a <= l
  BY <1>3, <1>4 DEF AtMost
<1>5. CASE ~(a <= l)
  <2>1. ~(a + n <= l) /\ l < a + 1 /\ l < l + 1
    BY <1>1, <1>5
  <2> DEFINE u == SubSeq(s, a + 1, l)
             v == SubSeq(s, l + 1, l)
             o == a + 1
             e == l + 1
  <2>2. \A m \in Int : l < m => SubSeq(s, m, l) \in Seq(S) /\ Len(SubSeq(s, m, l)) = 0
    <3> SUFFICES ASSUME NEW m \in Int, l < m PROVE SubSeq(s, m, l) \in Seq(S) /\ Len(SubSeq(s, m, l)) = 0
      OBVIOUS
    <3>1. \A i \in m .. l : s[i] \in S
      BY <1>1
    <3>2. SubSeq(s, m, l) \in Seq(S) /\ Len(SubSeq(s, m, l)) = IF m <= l THEN l - m + 1 ELSE 0
      BY <1>1, <3>1, SubSeqProperties
    <3> QED BY <1>1, <3>2
  <2>3. u \in Seq(S) /\ Len(u) = 0 /\ v \in Seq(S) /\ Len(v) = 0
    BY <1>1, <2>1, <2>2
  <2> HIDE DEF u, v
  <2>4. u = <<>> /\ v = <<>>
    BY <2>3, EmptySeq
  <2> QED BY <1>3, <1>5, <2>1, <2>4 DEF u, v, AtMost
<1> QED BY <1>4, <1>5

CutAt(l, first, size, x) == IF x = 0 THEN 0 ELSE AtMost(first + (x - 1) * size, l)

LEMMA CutsInPieces ==
  ASSUME NEW S, NEW bytes \in Seq(S), NEW size \in 1 .. 9, NEW first \in 0 .. size,
         Len(bytes) - first + size - 1 \in Nat
  PROVE  \E at : PiecesOf(Cut(bytes, first, size), bytes, at, Len(bytes))
<1> DEFINE l == Len(bytes)
           d == l - first + size - 1
           n == d \div size
           at == [x \in 0 .. n + 1 |-> CutAt(l, first, size, x)]
           tail == [k \in 1 .. n |-> Slice(bytes, first + 1 + (k - 1) * size, size)]
           head == <<Slice(bytes, 1, first)>>
           cut == head \o tail
<1>1. /\ l \in Nat /\ d \in Nat /\ n \in Nat /\ d < n * size + size
      /\ \A x \in Nat : x * size \in Nat /\ (x + 1) * size = x * size + size
  BY CountOfPieces
<1>2. Cut(bytes, first, size) = cut
  BY DEF Cut
<1>3. tail \in Seq(Seq(S)) /\ Len(tail) = n /\ head \in Seq(Seq(S)) /\ Len(head) = 1
  <2>1. \A a \in Nat, h \in Nat : Slice(bytes, a + 1, h) \in Seq(S)
    <3> SUFFICES ASSUME NEW a \in Nat, NEW h \in Nat PROVE Slice(bytes, a + 1, h) \in Seq(S)
      OBVIOUS
    <3> DEFINE b == AtMost(a, l)
               c == AtMost(a + h, l)
    <3>1. b \in Nat /\ c \in Nat /\ b <= c /\ c <= Len(bytes)
      BY <1>1 DEF AtMost
    <3>2. Slice(bytes, a + 1, h) = SubSeq(bytes, b + 1, c)
      BY SliceIs
    <3> HIDE DEF b, c
    <3> QED BY <3>1, <3>2, PartOf
  <2>2. \A k \in 1 .. n : Slice(bytes, first + 1 + (k - 1) * size, size) \in Seq(S)
    <3> SUFFICES ASSUME NEW k \in 1 .. n
                 PROVE  Slice(bytes, first + 1 + (k - 1) * size, size) \in Seq(S)
      OBVIOUS
    <3> DEFINE y == (k - 1) * size
    <3>1. y \in Nat
      BY <1>1
    <3> HIDE DEF y
    <3>2. first + y \in Nat /\ first + 1 + y = (first + y) + 1 /\ size \in Nat
      BY <3>1
    <3> QED BY <2>1, <3>2 DEF y
  <2>3. Slice(bytes, 1, first) \in Seq(S)
    <3>1. 0 + 1 = 1 /\ first \in Nat
      OBVIOUS
    <3> QED BY <2>1, <3>1
  <2> HIDE DEF n
  <2>4. tail \in [1 .. n -> Seq(S)]
    BY <2>2
  <2> HIDE DEF tail
  <2>5. tail \in Seq(Seq(S)) /\ Len(tail) = n
    BY <1>1, <2>4
  <2> QED BY <2>3, <2>5
<1> HIDE DEF n, d, l
<1>4. Len(cut) = n + 1 /\ cut[1] = Slice(bytes, 1, first)
      /\ \A x \in 2 .. n + 1 : cut[x] = Slice(bytes, first + 1 + (x - 2) * size, size)
  <2>1. \A k \in 1 .. n : tail[k] = Slice(bytes, first + 1 + (k - 1) * size, size)
    OBVIOUS
  <2>2. head[1] = Slice(bytes, 1, first)
    OBVIOUS
  <2> HIDE DEF head, tail
  <2>5. /\ Len(cut) = Len(head) + Len(tail)
        /\ \A x \in 1 .. Len(head) + Len(tail) :
             cut[x] = IF x <= Len(head) THEN head[x] ELSE tail[x - Len(head)]
    BY <1>3, ConcatProperties
  <2> HIDE DEF cut
  <2>3. /\ Len(cut) = 1 + n
        /\ \A x \in 1 .. 1 + n : cut[x] = IF x <= 1 THEN head[x] ELSE tail[x - 1]
    BY <1>3, <2>5
  <2>4. \A x \in 2 .. n + 1 : cut[x] = tail[x - 1] /\ x - 1 \in 1 .. n /\ (x - 1) - 1 = x - 2
    BY <1>1, <2>3
  <2> QED BY <1>1, <2>1, <2>2, <2>3, <2>4
<1> HIDE DEF cut, head, tail
<1>5. CutAt(l, first, size, 0) = 0 /\ CutAt(l, first, size, n + 1) = l
  <2> DEFINE y == n * size
  <2>1. y \in Nat /\ n + 1 # 0 /\ (n + 1) - 1 = n /\ d < y + size
    BY <1>1
  <2> HIDE DEF y
  <2>2. l <= first + y
    BY <1>1, <2>1 DEF d
  <2>3. AtMost(first + y, l) = l
    BY <1>1, <2>1, <2>2 DEF AtMost
  <2> QED BY <2>1, <2>3 DEF CutAt, y
<1>6. \A x \in 1 .. n + 1 :
        /\ CutAt(l, first, size, x - 1) \in 0 .. l
        /\ CutAt(l, first, size, x) \in CutAt(l, first, size, x - 1) .. l
        /\ cut[x] = SubSeq(bytes, CutAt(l, first, size, x - 1) + 1, CutAt(l, first, size, x))
  <2> SUFFICES ASSUME NEW x \in 1 .. n + 1
               PROVE  /\ CutAt(l, first, size, x - 1) \in 0 .. l
                      /\ CutAt(l, first, size, x) \in CutAt(l, first, size, x - 1) .. l
                      /\ cut[x] = SubSeq(bytes, CutAt(l, first, size, x - 1) + 1,
                                         CutAt(l, first, size, x))
    OBVIOUS
  <2>1. CASE x = 1
    <3>1. CutAt(l, first, size, x - 1) = 0 /\ CutAt(l, first, size, x) = AtMost(first, l)
      <4>1. (1 - 1) * size = 0 /\ first + 0 = first /\ x - 1 = 0 /\ x # 0
        BY <2>1
      <4> QED BY <2>1, <4>1 DEF CutAt
    <3>2. cut[x] = SubSeq(bytes, 0 + 1, AtMost(first, l))
      <4>1. first \in Nat /\ 0 \in Nat /\ 0 + first = first /\ AtMost(0, l) = 0
        BY <1>1 DEF AtMost
      <4>2. Slice(bytes, 0 + 1, first) = SubSeq(bytes, AtMost(0, l) + 1, AtMost(0 + first, l))
        BY <4>1, SliceIs DEF l
      <4> QED BY <1>4, <2>1, <4>1, <4>2
    <3>3. AtMost(first, l) \in 0 .. l
      BY <1>1 DEF AtMost
    <3> QED BY <1>1, <3>1, <3>2, <3>3
  <2>2. CASE x # 1
    <3> DEFINE y == (x - 2) * size
               z == (x - 1) * size
               a == first + y
    <3>1. x \in 2 .. n + 1 /\ x - 1 # 0 /\ x # 0 /\ (x - 1) - 1 = x - 2 /\ x - 2 \in Nat
          /\ (x - 2) + 1 = x - 1
      BY <1>1, <2>2
    <3>2. y \in Nat /\ z = y + size
      BY <1>1, <3>1
    <3>3. CutAt(l, first, size, x - 1) = AtMost(first + y, l)
          /\ CutAt(l, first, size, x) = AtMost(first + z, l)
      BY <3>1 DEF CutAt
    <3>4. cut[x] = Slice(bytes, first + 1 + y, size)
      BY <1>4, <3>1
    <3> HIDE DEF y, z
    <3>5. a \in Nat /\ first + 1 + y = a + 1 /\ size \in Nat /\ first + z = a + size
      BY <3>2
    <3>6. CutAt(l, first, size, x - 1) = AtMost(a, l)
          /\ CutAt(l, first, size, x) = AtMost(a + size, l)
      BY <3>3, <3>5
    <3> HIDE DEF a
    <3>7. Slice(bytes, a + 1, size) = SubSeq(bytes, AtMost(a, l) + 1, AtMost(a + size, l))
      BY <3>5, SliceIs DEF l
    <3>8. AtMost(a, l) \in 0 .. l /\ AtMost(a + size, l) \in AtMost(a, l) .. l
      BY <1>1, <3>5 DEF AtMost
    <3>9. cut[x] = SubSeq(bytes, AtMost(a, l) + 1, AtMost(a + size, l))
      BY <3>4, <3>5, <3>7
    <3> QED BY <3>6, <3>8, <3>9
  <2> QED BY <2>1, <2>2
<1>7. \A x \in 0 .. n + 1 : at[x] = CutAt(l, first, size, x)
  OBVIOUS
<1> HIDE DEF at
<1>8. \A x \in 1 .. n + 1 : x - 1 \in 0 .. n + 1 /\ x \in 0 .. n + 1
  BY <1>1
<1>9. PiecesOf(cut, bytes, at, l)
  <2>1. 0 \in 0 .. n + 1 /\ n + 1 \in 0 .. n + 1 /\ n + 1 \in Nat
    BY <1>1
  <2>2. at[0] = 0 /\ at[n + 1] = l
    BY <1>5, <1>7, <2>1
  <2>3. \A x \in 1 .. n + 1 : /\ at[x - 1] \in 0 .. l /\ at[x] \in at[x - 1] .. l
                              /\ cut[x] = SubSeq(bytes, at[x - 1] + 1, at[x])
    BY <1>6, <1>7, <1>8
  <2> QED BY <1>4, <2>1, <2>2, <2>3 DEF PiecesOf
<1> QED BY <1>2, <1>9 DEF l

\* Joining parts of one length, the last of which may be shorter.
LaidOut(x, s, w, i) ==
  /\ Len(x) = w * (i - 1) + Len(s[i])
  /\ \A h \in 1 .. i : \A j \in 1 .. Len(s[h]) : x[w * (h - 1) + j] = s[h][j]

LEMMA FlattenLays ==
  ASSUME NEW T, NEW s \in Seq(Seq(T)), s # <<>>, NEW w \in {2, 6},
         \A i \in 1 .. Len(s) : Len(s[i]) <= w,
         \A i \in 1 .. Len(s) - 1 : Len(s[i]) = w
  PROVE  LaidOut(FlattenSeq(s), s, w, Len(s))
<1> DEFINE n == Len(s)
<1>1. n \in Nat /\ n # 0
  BY EmptySeq
<1>2. PICK f : Flattens(s, f, T) /\ FlattenSeq(s) = f[n]
  BY FlattenSolves
<1>3. \A i \in 1 .. n : Joins(s, f, T, i)
  BY <1>2, FlattenNext
<1> DEFINE P == {i \in 0 .. n : i # 0 => LaidOut(f[i], s, w, i)}
<1>4. ASSUME NEW i \in 1 .. n, i - 1 \in P PROVE LaidOut(f[i], s, w, i)
  <2> DEFINE x == f[i]
             y == f[i - 1]
             z == s[i]
  <2>1. x \in Seq(T) /\ z \in Seq(T) /\ Joins(s, f, T, i)
    BY <1>3 DEF Joins
  <2>2. CASE i = 1
    <3>1. x = z
      BY <2>1, <2>2 DEF Joins
    <3>2. w * (i - 1) = 0 /\ \A h \in 1 .. i : h = i /\ w * (h - 1) = 0
      BY <2>2
    <3> HIDE DEF x
    <3>3. Len(x) = w * (i - 1) + Len(s[i])
      <4>1. Len(z) \in Nat
        BY <2>1
      <4> DEFINE c == w * (i - 1)
                 l == Len(z)
      <4>2. c = 0 /\ l \in Nat /\ Len(x) = l
        BY <3>1, <3>2, <4>1
      <4> HIDE DEF c, l
      <4>3. Len(x) = c + l
        BY <4>2
      <4> QED BY <4>3 DEF c, l
    <3>4. \A h \in 1 .. i : \A j \in 1 .. Len(s[h]) : x[w * (h - 1) + j] = s[h][j]
      BY <2>1, <3>1, <3>2
    <3> QED BY <3>3, <3>4 DEF LaidOut, x
  <2>3. CASE i # 1
    <3>1. i - 1 \in 1 .. n /\ y \in Seq(T) /\ x = y \o z /\ i - 1 # 0
      <4>1. i # 1 => i - 1 \in 1 .. Len(s) /\ f[i - 1] \in Seq(T) /\ f[i] = f[i - 1] \o s[i]
        BY <2>1 DEF Joins
      <4>2. i - 1 # 0
        BY <2>3
      <4> HIDE DEF P
      <4> QED BY <2>3, <4>1, <4>2
    <3>2. LaidOut(y, s, w, i - 1)
      BY <1>4, <3>1
    <3>3. i - 1 \in 1 .. Len(s) - 1
      BY <1>1, <2>3
    <3>4. Len(s[i - 1]) = w
      BY <3>3
    <3> HIDE DEF x, y, z, n
    <3>5. Len(x) = Len(y) + Len(z) /\ \A j \in 1 .. Len(y) + Len(z) :
                                         x[j] = IF j <= Len(y) THEN y[j] ELSE z[j - Len(y)]
      BY <2>1, <3>1, ConcatProperties
    <3> DEFINE b == w * (i - 1)
    <3>6. b \in Nat /\ Len(y) = b
      BY <3>2, <3>4 DEF LaidOut
    <3>7. Len(z) \in Nat /\ \A j \in 1 .. Len(z) : x[b + j] = z[j]
      <4> HIDE DEF b
      <4>1. Len(z) \in Nat
        BY <2>1
      <4> SUFFICES ASSUME NEW j \in 1 .. Len(z) PROVE x[b + j] = z[j]
        BY <4>1
      <4>2. b + j \in 1 .. b + Len(z) /\ ~(b + j <= b) /\ (b + j) - b = j
        BY <3>6, <4>1
      <4> QED BY <3>5, <3>6, <4>2
    <3>8. \A h \in 1 .. i - 1 : \A j \in 1 .. Len(s[h]) : x[w * (h - 1) + j] = s[h][j]
      <4> SUFFICES ASSUME NEW h \in 1 .. i - 1, NEW j \in 1 .. Len(s[h])
                   PROVE  x[w * (h - 1) + j] = s[h][j]
        OBVIOUS
      <4>1. y[w * (h - 1) + j] = s[h][j]
        BY <3>2 DEF LaidOut
      <4>2. Len(s[h]) \in Nat /\ Len(s[h]) <= w /\ j <= w
        <5>1. h \in 1 .. Len(s)
          BY <1>1 DEF n
        <5>2. s[h] \in Seq(T) /\ Len(s[h]) <= w
          BY <5>1
        <5>3. Len(s[h]) \in Nat
          BY <5>2
        <5> QED BY <5>2, <5>3
      <4> DEFINE e == w * (h - 1) + j
      <4>3. e \in Nat /\ 1 <= e /\ e <= b
        BY <4>2
      <4> HIDE DEF e, b
      <4>4. x[e] = y[e]
        BY <3>5, <3>6, <3>7, <4>3
      <4> QED BY <4>1, <4>4 DEF e
    <3>9. \A h \in 1 .. i : h \in 1 .. i - 1 \/ h = i
      OBVIOUS
    <3> HIDE DEF b
    <3>10. \A h \in 1 .. i : \A j \in 1 .. Len(s[h]) : x[w * (h - 1) + j] = s[h][j]
      BY <3>7, <3>8, <3>9 DEF b, z
    <3>11. Len(x) = w * (i - 1) + Len(s[i])
      BY <3>5, <3>6 DEF b, z
    <3> QED BY <3>10, <3>11 DEF LaidOut, x
  <2> QED BY <2>2, <2>3
<1>5. 0 \in P /\ \A i \in 1 .. n : i - 1 \in P => i \in P
  BY <1>1, <1>4
<1> HIDE DEF P, n
<1>6. \A i \in 0 .. n : i \in P
  BY <1>1, <1>5, InductionUp
<1>7. n \in P
  BY <1>1, <1>6
<1> QED BY <1>1, <1>2, <1>7 DEF P, n

\* The lines of n events.
LinesOf(lines, events, n) ==
  /\ n \in Nat \ {0} /\ Len(lines) \in {2 * n - 1, 2 * n}
  /\ \A j \in 1 .. n : /\ lines[2 * (j - 1) + 1] = <<events[j]>>
                       /\ 2 * j <= Len(lines) => lines[2 * (j - 1) + 2] = <<>>

LEMMA LinesAreLaid ==
  ASSUME NEW E, NEW events \in Seq(E), events # <<>>, NEW blankEnd \in BOOLEAN
  PROVE  LinesOf(FlattenSeq([k \in DOMAIN events |->
                   IF k = Len(events) /\ ~blankEnd THEN <<<<events[k]>>>>
                   ELSE <<<<events[k]>>, <<>>>>]), events, Len(events))
<1> DEFINE n == Len(events)
           part(k) == IF k = n /\ ~blankEnd THEN <<<<events[k]>>>> ELSE <<<<events[k]>>, <<>>>>
           s == [k \in DOMAIN events |-> part(k)]
           T == Seq(E)
           lines == FlattenSeq(s)
<1>1. n \in Nat \ {0} /\ DOMAIN events = 1 .. n /\ \A k \in 1 .. n : events[k] \in E
  BY EmptySeq
<1> HIDE DEF n
<1>2. \A k \in 1 .. n : part(k) \in Seq(T) /\ part(k)[1] = <<events[k]>>
                        /\ Len(part(k)) = (IF k = n /\ ~blankEnd THEN 1 ELSE 2)
                        /\ (Len(part(k)) = 2 => part(k)[2] = <<>>)
  <2> SUFFICES ASSUME NEW k \in 1 .. n
               PROVE  part(k) \in Seq(T) /\ part(k)[1] = <<events[k]>>
                      /\ Len(part(k)) = (IF k = n /\ ~blankEnd THEN 1 ELSE 2)
                      /\ (Len(part(k)) = 2 => part(k)[2] = <<>>)
    OBVIOUS
  <2>1. <<events[k]>> \in T /\ <<>> \in T
    BY <1>1
  <2> DEFINE a == <<events[k]>>
             b == <<>>
  <2> HIDE DEF T, a, b
  <2>2. <<a>> \in Seq(T) /\ Len(<<a>>) = 1 /\ <<a>>[1] = a
        /\ <<a, b>> \in Seq(T) /\ Len(<<a, b>>) = 2 /\ <<a, b>>[1] = a /\ <<a, b>>[2] = b
    BY <2>1 DEF a, b
  <2>3. part(k) = IF k = n /\ ~blankEnd THEN <<a>> ELSE <<a, b>>
    BY DEF a, b
  <2> HIDE DEF part
  <2> QED BY <2>2, <2>3 DEF a, b
<1> HIDE DEF part, T
<1>3. s \in Seq(Seq(T)) /\ Len(s) = n /\ \A k \in 1 .. n : s[k] = part(k)
  <2>1. s \in [1 .. n -> Seq(T)] /\ \A k \in 1 .. n : s[k] = part(k)
    BY <1>1, <1>2
  <2> HIDE DEF s
  <2> QED BY <1>1, <2>1
<1> HIDE DEF s
<1>4. \A k \in 1 .. n : Len(s[k]) = (IF k = n /\ ~blankEnd THEN 1 ELSE 2)
  BY <1>2, <1>3
<1>5. LaidOut(lines, s, 2, n)
  <2>1. s # <<>>
    BY <1>1, <1>3, EmptySeq
  <2>2. \A i \in 1 .. Len(s) : Len(s[i]) <= 2
    <3> SUFFICES ASSUME NEW i \in 1 .. n PROVE Len(s[i]) <= 2
      BY <1>3
    <3> DEFINE l == Len(s[i])
    <3>1. l = 1 \/ l = 2
      BY <1>4
    <3> HIDE DEF l
    <3>2. l <= 2
      BY <3>1
    <3> QED BY <3>2 DEF l
  <2>3. \A i \in 1 .. Len(s) - 1 : Len(s[i]) = 2
    <3> SUFFICES ASSUME NEW i \in 1 .. n - 1 PROVE Len(s[i]) = 2
      BY <1>3
    <3>1. i \in 1 .. n /\ i # n
      BY <1>1
    <3> QED BY <1>4, <3>1
  <2> HIDE DEF lines
  <2>4. LaidOut(FlattenSeq(s), s, 2, Len(s))
    <3>1. 2 \in {2, 6}
      OBVIOUS
    <3> QED BY <1>3, <2>1, <2>2, <2>3, <3>1, FlattenLays
  <2> QED BY <1>3, <2>4 DEF lines
<1> HIDE DEF lines
<1>6. Len(lines) = 2 * (n - 1) + Len(s[n]) /\ Len(s[n]) \in {1, 2}
  <2>1. n \in 1 .. n
    BY <1>1
  <2>2. Len(s[n]) \in {1, 2}
    BY <1>4, <2>1
  <2> QED BY <1>5, <2>2 DEF LaidOut
<1>7. \A j \in 1 .. n : lines[2 * (j - 1) + 1] = <<events[j]>>
  <2> SUFFICES ASSUME NEW j \in 1 .. n PROVE lines[2 * (j - 1) + 1] = <<events[j]>>
    OBVIOUS
  <2>1. 1 \in 1 .. Len(s[j])
    BY <1>4
  <2>2. lines[2 * (j - 1) + 1] = s[j][1]
    BY <1>5, <2>1 DEF LaidOut
  <2> QED BY <1>2, <1>3, <2>2
<1>8. \A j \in 1 .. n : 2 * j <= Len(lines) => lines[2 * (j - 1) + 2] = <<>>
  <2> SUFFICES ASSUME NEW j \in 1 .. n, 2 * j <= Len(lines) PROVE lines[2 * (j - 1) + 2] = <<>>
    OBVIOUS
  <2> DEFINE l == Len(s[n])
  <2>1. l \in {1, 2} /\ Len(lines) = 2 * (n - 1) + l
    BY <1>6
  <2> HIDE DEF l
  <2>5. j = n => l = 2
    BY <1>1, <2>1
  <2>2. Len(s[j]) = 2
    BY <1>4, <2>5 DEF l
  <2>3. 2 \in 1 .. Len(s[j])
    BY <2>2
  <2>4. lines[2 * (j - 1) + 2] = s[j][2]
    BY <1>5, <2>3 DEF LaidOut
  <2> QED BY <1>2, <1>3, <2>2, <2>4
<1>9. Len(lines) \in {2 * n - 1, 2 * n}
  <2> DEFINE l == Len(s[n])
  <2>1. l \in {1, 2} /\ Len(lines) = 2 * (n - 1) + l
    BY <1>6
  <2> HIDE DEF l
  <2> QED BY <1>1, <2>1
<1> QED BY <1>1, <1>7, <1>8, <1>9 DEF LinesOf, lines, s, part, n

\* Reading them: after k lines, the events of the pairs that are complete.
EventReaderAt(events, k) ==
  [buffer |-> IF k % 2 = 0 THEN <<>> ELSE <<events[k \div 2 + 1]>>,
   events |-> SubSeq(events, 1, k \div 2)]

EventAt(lines, f, k) ==
  IF k = 0 THEN [buffer |-> <<>>, events |-> <<>>] ELSE ReadEventLine(f[k - 1], lines[k])

LEMMA GeminiEventsUnfold ==
  ASSUME NEW lines
  PROVE  \E read : /\ read = CHOOSE f : f = [k \in 0 .. Len(lines) |-> EventAt(lines, f, k)]
                   /\ GeminiEvents(lines) = read[Len(lines)].events \o read[Len(lines)].buffer
<1> DEFINE r == CHOOSE f : f = [k \in 0 .. Len(lines) |-> EventAt(lines, f, k)]
<1>1. GeminiEvents(lines) = r[Len(lines)].events \o r[Len(lines)].buffer
  BY DEF GeminiEvents, EventAt
<1> QED BY <1>1

LEMMA FirstEvents ==
  ASSUME NEW E, NEW events \in Seq(E), NEW j \in 1 .. Len(events)
  PROVE  /\ SubSeq(events, 1, 0) = <<>>
         /\ SubSeq(events, 1, j - 1) \o <<events[j]>> = SubSeq(events, 1, j)
<1> DEFINE i == j - 1
           one == SubSeq(events, i + 1, j)
<1>1. i \in Nat /\ j \in Nat /\ 0 <= i /\ i <= j /\ j <= Len(events) /\ 0 + 1 = 1 /\ j - i = 1
      /\ i + 1 = j
  OBVIOUS
<1> HIDE DEF i
<1>2. SubSeq(events, 0 + 1, i) \o one = SubSeq(events, 0 + 1, j)
  BY <1>1, PartOfPart
<1>3. one \in Seq(E) /\ Len(one) = j - i /\ \A l \in 1 .. j - i : one[l] = events[i + l]
  BY <1>1, PartOf
<1> HIDE DEF one
<1>4. one = <<events[j]>>
  <2>1. 1 \in 1 .. 1
    OBVIOUS
  <2>2. Len(one) = 1 /\ one[1] = events[j]
    BY <1>1, <1>3, <2>1
  <2> DEFINE e == events[j]
  <2>3. one \in Seq(E) /\ Len(one) = 1 /\ one[1] = e
    BY <1>3, <2>2
  <2> HIDE DEF e
  <2>4. one = <<e>>
    BY <2>3
  <2> QED BY <2>4 DEF e
<1>5. SubSeq(events, 1, 0) = <<>>
  OBVIOUS
<1> QED BY <1>1, <1>2, <1>4, <1>5 DEF i

\* All events are read, in order, whether or not a blank line follows the last one.
LEMMA EventsAreRead ==
  ASSUME NEW E, NEW events \in Seq(E), NEW lines, LinesOf(lines, events, Len(events))
  PROVE  GeminiEvents(lines) = events
<1> DEFINE n == Len(events)
           q == Len(lines)
           w == [k \in 0 .. q |-> EventReaderAt(events, k)]
           Solves(f) == f = [k \in 0 .. q |-> EventAt(lines, f, k)]
           read == CHOOSE f : Solves(f)
<1>1. n \in Nat \ {0} /\ q \in Nat /\ q \in {2 * n - 1, 2 * n}
  BY DEF LinesOf
<1>2. SubSeq(events, 1, 0) = <<>>
  OBVIOUS
<1>3. EventReaderAt(events, 0) = [buffer |-> <<>>, events |-> <<>>]
  <2>1. 0 % 2 = 0 /\ 0 \div 2 = 0
    OBVIOUS
  <2> QED BY <1>2, <2>1 DEF EventReaderAt
<1>4. \A k \in 1 .. q : EventReaderAt(events, k) = ReadEventLine(EventReaderAt(events, k - 1), lines[k])
  <2> SUFFICES ASSUME NEW k \in 1 .. q
               PROVE  EventReaderAt(events, k) =
                        ReadEventLine(EventReaderAt(events, k - 1), lines[k])
    OBVIOUS
  <2> DEFINE j == (k - 1) \div 2 + 1
             before == EventReaderAt(events, k - 1)
  <2>1. j \in 1 .. n /\ k \in {2 * (j - 1) + 1, 2 * (j - 1) + 2}
    BY <1>1
  <2>2. CASE k = 2 * (j - 1) + 1
    <3>1. k % 2 # 0 /\ (k - 1) % 2 = 0 /\ k \div 2 = j - 1 /\ (k - 1) \div 2 = j - 1
          /\ (j - 1) + 1 = j
      BY <2>1, <2>2
    <3>2. lines[k] = <<events[j]>>
      BY <2>1, <2>2 DEF LinesOf
    <3> HIDE DEF j
    <3>3. before = [buffer |-> <<>>, events |-> SubSeq(events, 1, j - 1)]
      BY <3>1 DEF EventReaderAt
    <3>4. EventReaderAt(events, k) = [buffer |-> <<events[j]>>, events |-> SubSeq(events, 1, j - 1)]
      BY <3>1 DEF EventReaderAt
    <3> HIDE DEF before
    <3>5. ReadEventLine(before, lines[k]) = [before EXCEPT !.buffer = Append(@, events[j])]
      <4>1. <<events[j]>> # <<>> /\ <<events[j]>>[1] = events[j]
        OBVIOUS
      <4> QED BY <3>2, <4>1 DEF ReadEventLine
    <3>6. Append(<<>>, events[j]) = <<events[j]>>
      OBVIOUS
    <3> DEFINE u == SubSeq(events, 1, j - 1)
    <3> HIDE DEF u
    <3>7. ReadEventLine(before, lines[k]) = [buffer |-> <<events[j]>>, events |-> u]
      BY <3>3, <3>5, <3>6 DEF u
    <3> QED BY <3>4, <3>7 DEF before, u
  <2>3. CASE k = 2 * (j - 1) + 2
    <3>1. k % 2 = 0 /\ (k - 1) % 2 # 0 /\ k \div 2 = j /\ (k - 1) \div 2 = j - 1
          /\ (j - 1) + 1 = j /\ 2 * j <= q
      BY <2>1, <2>3
    <3>2. lines[k] = <<>>
      BY <2>1, <2>3, <3>1 DEF LinesOf
    <3> HIDE DEF j
    <3>3. before = [buffer |-> <<events[j]>>, events |-> SubSeq(events, 1, j - 1)]
      BY <3>1 DEF EventReaderAt
    <3>4. EventReaderAt(events, k) = [buffer |-> <<>>, events |-> SubSeq(events, 1, j)]
      BY <3>1 DEF EventReaderAt
    <3> HIDE DEF before
    <3>5. ReadEventLine(before, lines[k]) = [buffer |-> <<>>, events |-> before.events \o before.buffer]
      BY <3>2 DEF ReadEventLine
    <3>6. SubSeq(events, 1, j - 1) \o <<events[j]>> = SubSeq(events, 1, j)
      BY <2>1, FirstEvents
    <3>7. ReadEventLine(before, lines[k]) = [buffer |-> <<>>, events |-> SubSeq(events, 1, j)]
      BY <3>3, <3>5, <3>6
    <3> QED BY <3>4, <3>7 DEF before
  <2> QED BY <2>1, <2>2, <2>3
<1> HIDE DEF q, n
<1>5. \A k \in 0 .. q : w[k] = EventAt(lines, w, k)
  <2> SUFFICES ASSUME NEW k \in 0 .. q PROVE w[k] = EventAt(lines, w, k)
    OBVIOUS
  <2>1. CASE k = 0
    BY <1>1, <1>3, <2>1 DEF EventAt
  <2>2. CASE k # 0
    <3>1. k \in 1 .. q /\ k - 1 \in 0 .. q /\ w[k - 1] = EventReaderAt(events, k - 1)
          /\ w[k] = EventReaderAt(events, k)
      BY <1>1, <2>2
    <3> HIDE DEF w
    <3> QED BY <1>4, <2>2, <3>1 DEF EventAt
  <2> QED BY <2>1, <2>2
<1>6. w = [k \in 0 .. q |-> w[k]] /\ \A k \in 0 .. q : w[k] = EventReaderAt(events, k)
  OBVIOUS
<1> HIDE DEF w
<1>7. Solves(w)
  BY <1>5, <1>6
<1>8. Solves(read)
  BY <1>7
<1>9. GeminiEvents(lines) = read[q].events \o read[q].buffer
  BY GeminiEventsUnfold DEF q
<1> HIDE DEF read
<1>10. read[0] = w[0]
  BY <1>1, <1>7, <1>8 DEF EventAt
<1>11. \A k \in 1 .. q : read[k - 1] = w[k - 1] => read[k] = w[k]
  <2> SUFFICES ASSUME NEW k \in 1 .. q, read[k - 1] = w[k - 1] PROVE read[k] = w[k]
    OBVIOUS
  <2>1. k \in 0 .. q /\ k # 0
    BY <1>1
  <2>2. read[k] = EventAt(lines, read, k) /\ w[k] = EventAt(lines, w, k)
    BY <1>5, <1>8, <2>1
  <2> QED BY <2>1, <2>2 DEF EventAt
<1>12. read[q] = EventReaderAt(events, q)
  <2>1. read[q] = w[q]
    BY <1>1, <1>10, <1>11, EndAlike
  <2>2. q \in 0 .. q
    BY <1>1
  <2> QED BY <1>6, <2>1, <2>2
<1>13. EventReaderAt(events, q).events \o EventReaderAt(events, q).buffer = events
  <2>1. n \in 1 .. n /\ n = Len(events) /\ SubSeq(events, 1, n) = events
    BY <1>1, SubSeqFull DEF n
  <2>2. CASE q = 2 * n
    <3>1. q % 2 = 0 /\ q \div 2 = n
      BY <1>1, <2>2
    <3>2. EventReaderAt(events, q) = [buffer |-> <<>>, events |-> events]
      BY <2>1, <3>1 DEF EventReaderAt
    <3> QED BY <3>2, ConcatEmptySeq
  <2>3. CASE q = 2 * n - 1
    <3>1. q % 2 # 0 /\ q \div 2 = n - 1 /\ (n - 1) + 1 = n
      BY <1>1, <2>3
    <3>2. EventReaderAt(events, q) = [buffer |-> <<events[n]>>, events |-> SubSeq(events, 1, n - 1)]
      BY <3>1 DEF EventReaderAt
    <3>3. SubSeq(events, 1, n - 1) \o <<events[n]>> = SubSeq(events, 1, n)
      BY <2>1, FirstEvents
    <3> QED BY <2>1, <3>2, <3>3
  <2> QED BY <1>1, <2>2, <2>3
<1> QED BY <1>9, <1>12, <1>13

Stands(x, b, y, n) == \A j \in 1 .. n : x[b + j] = y[j]
FourStand(x, b, y) ==
  x[b + 1] = y[1] /\ x[b + 2] = y[2] /\ x[b + 3] = y[3] /\ x[b + 4] = y[4]
SixStand(x, b, y) == FourStand(x, b, y) /\ x[b + 5] = y[5] /\ x[b + 6] = y[6]

LEMMA SymbolsInPlace ==
  ASSUME NEW x, NEW y, NEW b
  PROVE  /\ Stands(x, b, y, 6) => SixStand(x, b, y)
         /\ Stands(x, b, y, 4) => FourStand(x, b, y)
BY DEF Stands, SixStand, FourStand

\* The frames of a stream are laid out as Framed says.
LEMMA FramesAreLaid ==
  ASSUME NEW Q, NEW chunks \in Seq(Chunk(Q)), NEW bytes,
         bytes = FlattenSeq([k \in DOMAIN chunks |-> Frame(chunks[k])]) \o DoneFrame
  PROVE  \E S : bytes \in Seq(S) /\ Framed(bytes, chunks, Len(chunks))
<1> DEFINE S == {Data, Open, Close, NL, Done} \cup {Body(c) : c \in Chunk(Q)}
           m == Len(chunks)
           s == [k \in DOMAIN chunks |-> Frame(chunks[k])]
           x == FlattenSeq(s)
<1>1. m \in Nat /\ DOMAIN chunks = 1 .. m /\ \A k \in 1 .. m : chunks[k] \in Chunk(Q)
  OBVIOUS
<1>2. /\ Data \in S /\ Open \in S /\ Close \in S /\ NL \in S /\ Done \in S
      /\ \A c \in Chunk(Q) : Body(c) \in S
  OBVIOUS
<1> HIDE DEF S, m
<1>3. \A c : c \in Chunk(Q) => Frame(c) \in Seq(S)
  <2> SUFFICES ASSUME NEW c \in Chunk(Q) PROVE Frame(c) \in Seq(S)
    OBVIOUS
  <2>1. Body(c) \in S
    BY <1>2
  <2> QED BY <1>2, <2>1 DEF Frame
<1>4. \A c : /\ Len(Frame(c)) = 6 /\ Frame(c)[1] = Data /\ Frame(c)[2] = Open
             /\ Frame(c)[3] = Body(c) /\ Frame(c)[4] = Close /\ Frame(c)[5] = NL
             /\ Frame(c)[6] = NL
  BY DEF Frame
<1>5. /\ DoneFrame \in Seq(S) /\ Len(DoneFrame) = 4 /\ DoneFrame[1] = Data
      /\ DoneFrame[2] = Done /\ DoneFrame[3] = NL /\ DoneFrame[4] = NL
  BY <1>2 DEF DoneFrame
<1>6. s \in Seq(Seq(S)) /\ Len(s) = m /\ \A k \in 1 .. m : s[k] = Frame(chunks[k])
  <2>1. s \in [1 .. m -> Seq(S)] /\ \A k \in 1 .. m : s[k] = Frame(chunks[k])
    BY <1>1, <1>3
  <2> HIDE DEF s
  <2> QED BY <1>1, <2>1
<1> HIDE DEF s
<1>7. x \in Seq(S)
  BY <1>6, FlattenType
<1>8. /\ Len(x) = 6 * m
      /\ \A i \in 0 .. m - 1 : \A j \in 1 .. 6 : x[6 * i + j] = Frame(chunks[i + 1])[j]
  <2>1. CASE m = 0
    <3>1. s = <<>>
      BY <1>6, <2>1, EmptySeq
    <3>2. x = <<>>
      BY <3>1, FlattenEmpty
    <3> HIDE DEF x
    <3> QED BY <2>1, <3>2
  <2>2. CASE m # 0
    <3>1. s # <<>>
      BY <1>6, <2>2, EmptySeq
    <3>2. \A k \in 1 .. m : Len(s[k]) = 6
      BY <1>4, <1>6
    <3>3. LaidOut(x, s, 6, m)
      <4>1. 6 \in {2, 6}
        OBVIOUS
      <4>2. \A k \in 1 .. Len(s) : Len(s[k]) <= 6
        <5> SUFFICES ASSUME NEW k \in 1 .. m PROVE Len(s[k]) <= 6
          BY <1>6
        <5> DEFINE l == Len(s[k])
        <5>1. l = 6
          BY <3>2
        <5> HIDE DEF l
        <5>2. l <= 6
          BY <5>1
        <5> QED BY <5>2 DEF l
      <4>3. \A k \in 1 .. Len(s) - 1 : Len(s[k]) = 6
        <5> SUFFICES ASSUME NEW k \in 1 .. m - 1 PROVE Len(s[k]) = 6
          BY <1>6
        <5>1. k \in 1 .. m
          BY <1>1
        <5> QED BY <3>2, <5>1
      <4> HIDE DEF x
      <4>4. LaidOut(FlattenSeq(s), s, 6, Len(s))
        BY <1>6, <3>1, <4>1, <4>2, <4>3, FlattenLays
      <4> QED BY <1>6, <4>4 DEF x
    <3> HIDE DEF x
    <3>4. Len(x) = 6 * m
      <4>1. m \in 1 .. m
        BY <1>1, <2>2
      <4>2. Len(s[m]) = 6
        BY <3>2, <4>1
      <4>3. Len(x) = 6 * (m - 1) + 6
        BY <3>3, <4>2 DEF LaidOut
      <4> QED BY <1>1, <4>3
    <3>5. \A i \in 0 .. m - 1 : \A j \in 1 .. 6 : x[6 * i + j] = Frame(chunks[i + 1])[j]
      <4> SUFFICES ASSUME NEW i \in 0 .. m - 1, NEW j \in 1 .. 6
                   PROVE  x[6 * i + j] = Frame(chunks[i + 1])[j]
        OBVIOUS
      <4> DEFINE h == i + 1
      <4>1. h \in 1 .. m /\ h - 1 = i
        BY <1>1
      <4> HIDE DEF h
      <4>2. j \in 1 .. Len(s[h])
        BY <3>2, <4>1
      <4>3. x[6 * (h - 1) + j] = s[h][j]
        BY <3>3, <4>1, <4>2 DEF LaidOut
      <4>4. s[h] = Frame(chunks[h])
        BY <1>6, <4>1
      <4> QED BY <4>1, <4>3, <4>4 DEF h
    <3> QED BY <3>4, <3>5
  <2> QED BY <2>1, <2>2
<1>9. bytes = x \o DoneFrame
  BY DEF s
<1> HIDE DEF x
<1>10. /\ bytes \in Seq(S) /\ Len(bytes) = 6 * m + 4
       /\ \A e \in 1 .. 6 * m : bytes[e] = x[e]
       /\ \A e \in 1 .. 4 : bytes[6 * m + e] = DoneFrame[e]
  <2> DEFINE y == x \o DoneFrame
  <2>1. /\ y \in Seq(S) /\ Len(y) = Len(x) + Len(DoneFrame)
        /\ \A e \in 1 .. Len(x) + Len(DoneFrame) :
             y[e] = IF e <= Len(x) THEN x[e] ELSE DoneFrame[e - Len(x)]
    BY <1>5, <1>7, ConcatProperties
  <2> HIDE DEF y
  <2> DEFINE l == 6 * m
  <2>2. l \in Nat /\ Len(x) = l /\ Len(DoneFrame) = 4
    BY <1>1, <1>5, <1>8
  <2> HIDE DEF l
  <2>3. \A e \in 1 .. l : e \in 1 .. l + 4 /\ e <= l
    BY <2>2
  <2>4. \A e \in 1 .. 4 : l + e \in 1 .. l + 4 /\ ~(l + e <= l) /\ (l + e) - l = e
    BY <2>2
  <2>5. /\ y \in Seq(S) /\ Len(y) = l + 4
        /\ \A e \in 1 .. l + 4 : y[e] = IF e <= l THEN x[e] ELSE DoneFrame[e - l]
    BY <2>1, <2>2
  <2>6. \A e \in 1 .. l : y[e] = x[e]
    BY <2>3, <2>5
  <2>7. \A e \in 1 .. 4 : y[l + e] = DoneFrame[e]
    BY <2>4, <2>5
  <2> QED BY <1>9, <2>5, <2>6, <2>7 DEF y, l
<1>11. \A i \in 0 .. m - 1 : \A j \in 1 .. 6 : bytes[6 * i + j] = Frame(chunks[i + 1])[j]
  <2> SUFFICES ASSUME NEW i \in 0 .. m - 1, NEW j \in 1 .. 6
               PROVE  bytes[6 * i + j] = Frame(chunks[i + 1])[j]
    OBVIOUS
  <2>1. 6 * i + j \in 1 .. 6 * m
    BY <1>1
  <2> QED BY <1>8, <1>10, <2>1
<1>12. Framed(bytes, chunks, m)
  <2>1. \A i \in 0 .. m - 1 :
          /\ bytes[6 * i + 1] = Data /\ bytes[6 * i + 2] = Open
          /\ bytes[6 * i + 3] = Body(chunks[i + 1]) /\ bytes[6 * i + 4] = Close
          /\ bytes[6 * i + 5] = NL /\ bytes[6 * i + 6] = NL
    <3> SUFFICES ASSUME NEW i \in 0 .. m - 1
                 PROVE  /\ bytes[6 * i + 1] = Data /\ bytes[6 * i + 2] = Open
                        /\ bytes[6 * i + 3] = Body(chunks[i + 1]) /\ bytes[6 * i + 4] = Close
                        /\ bytes[6 * i + 5] = NL /\ bytes[6 * i + 6] = NL
      OBVIOUS
    <3> DEFINE c == chunks[i + 1]
    <3>1. Stands(bytes, 6 * i, Frame(c), 6)
      BY <1>11 DEF Stands
    <3> HIDE DEF c
    <3>2. SixStand(bytes, 6 * i, Frame(c))
      BY <3>1, SymbolsInPlace
    <3>3. /\ bytes[6 * i + 1] = Data /\ bytes[6 * i + 2] = Open
          /\ bytes[6 * i + 3] = Body(c) /\ bytes[6 * i + 4] = Close
          /\ bytes[6 * i + 5] = NL /\ bytes[6 * i + 6] = NL
      BY <1>4, <3>2 DEF SixStand, FourStand
    <3> QED BY <3>3 DEF c
  <2>2. bytes[6 * m + 1] = Data /\ bytes[6 * m + 2] = Done
        /\ bytes[6 * m + 3] = NL /\ bytes[6 * m + 4] = NL
    <3>1. Stands(bytes, 6 * m, DoneFrame, 4)
      BY <1>10 DEF Stands
    <3>2. FourStand(bytes, 6 * m, DoneFrame)
      BY <3>1, SymbolsInPlace
    <3> QED BY <1>5, <3>2 DEF FourStand
  <2> QED BY <1>1, <1>10, <2>1, <2>2 DEF Framed, m
<1> QED BY <1>10, <1>12 DEF m

\* Part of a beginning.
LEMMA PartOfPrefix ==
  ASSUME NEW S, NEW s \in Seq(S), NEW k \in Nat, k <= Len(s), NEW a \in Nat, NEW b \in Nat,
         a <= b, b <= k
  PROVE  /\ SubSeq(s, 1, k) \in Seq(S) /\ Len(SubSeq(s, 1, k)) = k
         /\ SubSeq(SubSeq(s, 1, k), a + 1, b) = SubSeq(s, a + 1, b)
<1> DEFINE t == SubSeq(s, 1, k)
           u == SubSeq(t, a + 1, b)
           v == SubSeq(s, a + 1, b)
<1>1. t \in Seq(S) /\ Len(t) = k /\ \A i \in 1 .. k : t[i] = s[i]
  <2>1. 0 \in Nat /\ 0 <= k /\ k - 0 = k /\ \A i \in 1 .. k : 0 + i = i
    OBVIOUS
  <2>2. SubSeq(s, 0 + 1, k) \in Seq(S) /\ Len(SubSeq(s, 0 + 1, k)) = k - 0
        /\ \A i \in 1 .. k - 0 : SubSeq(s, 0 + 1, k)[i] = s[0 + i]
    BY <2>1, PartOf
  <2>3. 0 + 1 = 1
    OBVIOUS
  <2> QED BY <2>1, <2>2, <2>3
<1> HIDE DEF t
<1>2. u \in Seq(S) /\ Len(u) = b - a /\ \A i \in 1 .. b - a : u[i] = t[a + i]
  BY <1>1, PartOf
<1>3. v \in Seq(S) /\ Len(v) = b - a /\ \A i \in 1 .. b - a : v[i] = s[a + i]
  <2>1. b <= Len(s)
    OBVIOUS
  <2> QED BY <2>1, PartOf
<1> HIDE DEF u, v
<1>4. \A i \in 1 .. b - a : a + i \in 1 .. k
  OBVIOUS
<1>5. \A i \in 1 .. b - a : u[i] = v[i]
  BY <1>1, <1>2, <1>3, <1>4
<1>6. u = v
  BY <1>2, <1>3, <1>5, SeqEqual
<1> QED BY <1>1, <1>6 DEF t, u, v

LEMMA Halves ==
  ASSUME NEW S, NEW s \in Seq(S), NEW j \in 0 .. Len(s)
  PROVE  /\ SubSeq(s, 1, j) \in Seq(S) /\ SubSeq(s, j + 1, Len(s)) \in Seq(S)
         /\ SubSeq(s, 1, j) \o SubSeq(s, j + 1, Len(s)) = s
<1> DEFINE n == Len(s)
           o == 0
<1>1. n \in Nat /\ o \in Nat /\ j \in Nat /\ o <= j /\ j <= n /\ n <= Len(s) /\ o + 1 = 1
  OBVIOUS
<1>2. SubSeq(s, 1, n) = s
  BY SubSeqFull
<1> HIDE DEF n, o
<1>3. SubSeq(s, o + 1, j) \in Seq(S)
  <2>1. j <= Len(s)
    BY <1>1
  <2> QED BY <1>1, <2>1, PartOf
<1>4. SubSeq(s, j + 1, n) \in Seq(S)
  BY <1>1, PartOf
<1>5. SubSeq(s, o + 1, j) \o SubSeq(s, j + 1, n) = SubSeq(s, o + 1, n)
  BY <1>1, PartOfPart
<1> QED BY <1>1, <1>2, <1>3, <1>4, <1>5 DEF n

LEMMA Beginning ==
  ASSUME NEW T, NEW x \in Seq(T), NEW y \in Seq(T)
  PROVE  IsPrefix(x, x \o y)
<1> DEFINE z == x \o y
           n == Len(x)
           u == SubSeq(z, 1, n)
<1>1. z \in Seq(T) /\ Len(z) = Len(x) + Len(y)
      /\ \A i \in 1 .. Len(x) + Len(y) : z[i] = IF i <= Len(x) THEN x[i] ELSE y[i - Len(x)]
  BY ConcatProperties
<1>2. n \in Nat /\ Len(y) \in Nat
  OBVIOUS
<1> HIDE DEF z, n
<1>3. n <= Len(z) /\ \A i \in 1 .. n : z[i] = x[i]
  BY <1>1, <1>2 DEF n
<1>4. u \in Seq(T) /\ Len(u) = n /\ \A i \in 1 .. n : u[i] = z[i]
  <2>1. 0 \in Nat /\ 0 <= n /\ n - 0 = n /\ 0 + 1 = 1 /\ \A i \in 1 .. n : 0 + i = i
    BY <1>2
  <2>2. SubSeq(z, 0 + 1, n) \in Seq(T) /\ Len(SubSeq(z, 0 + 1, n)) = n - 0
        /\ \A i \in 1 .. n - 0 : SubSeq(z, 0 + 1, n)[i] = z[0 + i]
    BY <1>1, <1>2, <1>3, <2>1, PartOf
  <2> QED BY <2>1, <2>2
<1> HIDE DEF u
<1>5. u = x
  BY <1>3, <1>4, SeqEqual DEF n
<1>6. SubSeq(x, 1, n) = x
  BY SubSeqFull DEF n
<1> QED BY <1>3, <1>5, <1>6 DEF IsPrefix, u, n, z

\* For an answer of any number of events and parts, cut anywhere: the engine ends with the
\* whole text; of a stream that stops early it has a beginning of the text and is still
\* reading.
THEOREM EngineReadsTheAnswer == Spec => []EngineReadsWhatArrived
<1>1. InputType => EngineReadsWhatArrived
  <2> DEFINE text == Texts(WholeAnswer.parts)
             bytes(blankEnd) == GeminiFrames(EventLines(blankEnd))
  <2> SUFFICES ASSUME InputType, subject = "answer", input # <<>>, OneAnswer
               PROVE  /\ \A blankEnd \in BOOLEAN, size \in 1 .. 9 : \A first \in 1 .. size :
                           LET reader == Consume(Cut(bytes(blankEnd), first, size))
                           IN  reader.state = "done" /\ reader.text = text
                      /\ \A k \in 0 .. Len(bytes(TRUE)) - 1 :
                           LET reader == Consume(Cut(SubSeq(bytes(TRUE), 1, k), 0, 4))
                           IN  reader.state \in {"reading", "done"} /\ IsPrefix(reader.text, text)
    BY DEF EngineReadsWhatArrived
  <2> DEFINE Q == AnswerParts
             C == Chunk(Q)
             chunks == StreamChunks(input)
             m == Len(chunks)
  <2>1. chunks \in Seq(C) /\ Content(chunks) = text
    <3> DEFINE n == Len(input)
    <3>1. n \in 1 .. n
      BY AnswerIsStreamed
    <3>2. PICK f, g : /\ Streams(input, n, f, g, AnswerParts)
                      /\ chunks = f[n] /\ WholeAnswer = [parts |-> g[n], finish |-> input[n].finish]
      BY AnswerIsStreamed
    <3> HIDE DEF n, chunks
    <3>3. StreamedUpTo(f, g, n, Q)
      BY <3>1, <3>2, TextsAreStreamed
    <3> QED BY <3>2, <3>3 DEF StreamedUpTo
  <2>2. \A blankEnd \in BOOLEAN : \E S : bytes(blankEnd) \in Seq(S) /\ Framed(bytes(blankEnd), chunks, m)
    <3> SUFFICES ASSUME NEW blankEnd \in BOOLEAN
                 PROVE  \E S : bytes(blankEnd) \in Seq(S) /\ Framed(bytes(blankEnd), chunks, m)
      OBVIOUS
    <3>1. input \in Seq(Elements["answer"])
      BY DEF InputType
    <3>2. LinesOf(EventLines(blankEnd), input, Len(input))
      BY <3>1, LinesAreLaid DEF EventLines
    <3>3. GeminiEvents(EventLines(blankEnd)) = input
      BY <3>1, <3>2, EventsAreRead
    <3>4. bytes(blankEnd) = FlattenSeq([k \in DOMAIN chunks |-> Frame(chunks[k])]) \o DoneFrame
      BY <3>3 DEF GeminiFrames
    <3> HIDE DEF bytes, chunks, Q
    <3> QED BY <2>1, <3>4, FramesAreLaid
  <2> HIDE DEF text, bytes, chunks, Q
  <2>3. m \in Nat
    BY <2>1
  <2>4. ASSUME NEW blankEnd \in BOOLEAN, NEW size \in 1 .. 9, NEW first \in 1 .. size
        PROVE  Consume(Cut(bytes(blankEnd), first, size)).state = "done"
               /\ Consume(Cut(bytes(blankEnd), first, size)).text = text
    <3> DEFINE b == bytes(blankEnd)
               l == 6 * m + 4
               cut == Cut(b, first, size)
    <3>1. PICK S : b \in Seq(S) /\ Framed(b, chunks, m)
      BY <2>2
    <3>2. Len(b) = l /\ l \in Nat /\ l >= 4
      BY <2>3, <3>1 DEF Framed
    <3> HIDE DEF b, l
    <3>3. first \in 0 .. size /\ l - first + size - 1 \in Nat
      BY <3>2
    <3>4. PICK at : PiecesOf(cut, b, at, l)
      BY <3>1, <3>2, <3>3, CutsInPieces
    <3> HIDE DEF cut, m
    <3>5. Consume(cut) = ReaderAt(b, chunks, m, Whole(m, l), l)
      <4>1. l \in 0 .. 6 * m + 4
        BY <3>2 DEF l
      <4> QED BY <2>1, <3>1, <3>4, <4>1, CutsDoNotMatter
    <3>6. Whole(m, l) = m + 1
      BY DEF Whole, l
    <3>7. Consume(cut).state = "done" /\ Consume(cut).text = TextUpTo(chunks, m, m + 1)
      BY <3>5, <3>6, ReaderIsAt
    <3>8. TextUpTo(chunks, m, m + 1) = Content(chunks)
      <4>1. ~(m + 1 <= m)
        BY <2>3
      <4>2. SubSeq(chunks, 1, m) = chunks
        BY <2>1, SubSeqFull DEF m
      <4> QED BY <4>1, <4>2 DEF TextUpTo
    <3> QED BY <2>1, <3>7, <3>8 DEF cut, b
  <2>5. ASSUME NEW k \in 0 .. Len(bytes(TRUE)) - 1
        PROVE  Consume(Cut(SubSeq(bytes(TRUE), 1, k), 0, 4)).state \in {"reading", "done"}
               /\ IsPrefix(Consume(Cut(SubSeq(bytes(TRUE), 1, k), 0, 4)).text, text)
    <3> DEFINE b == bytes(TRUE)
               l == 6 * m + 4
               p == SubSeq(b, 1, k)
               cut == Cut(p, 0, 4)
    <3>1. PICK S : b \in Seq(S) /\ Framed(b, chunks, m)
      BY <2>2
    <3>2. Len(b) = l /\ l \in Nat
      <4> HIDE DEF m, b
      <4> QED BY <2>3, <3>1 DEF Framed
    <3> HIDE DEF l
    <3>3. k \in Nat /\ k <= l /\ k <= Len(b) /\ k \in 0 .. l
      <4>1. k \in 0 .. Len(b) - 1
        OBVIOUS
      <4> HIDE DEF b
      <4> QED BY <3>2, <4>1
    <3> HIDE DEF b
    <3>4. p \in Seq(S) /\ Len(p) = k
          /\ \A d \in Nat, e \in Nat : d <= e /\ e <= k => SubSeq(p, d + 1, e) = SubSeq(b, d + 1, e)
      <4>1. \A d \in Nat, e \in Nat : d <= e /\ e <= k =>
              /\ p \in Seq(S) /\ Len(p) = k /\ SubSeq(p, d + 1, e) = SubSeq(b, d + 1, e)
        BY <3>1, <3>3, PartOfPrefix
      <4>2. 0 <= k /\ 0 \in Nat /\ 0 <= 0
        BY <3>3
      <4> HIDE DEF p
      <4> QED BY <4>1, <4>2
    <3> HIDE DEF p
    <3>5. PICK at : PiecesOf(cut, p, at, k)
      <4>1. 0 \in 0 .. 4 /\ 4 \in 1 .. 9 /\ Len(p) - 0 + 4 - 1 \in Nat
        BY <3>3, <3>4
      <4> QED BY <3>4, <4>1, CutsInPieces
    <3> HIDE DEF cut, m
    <3>6. PiecesOf(cut, b, at, k)
      <4>1. \A x \in 1 .. Len(cut) : SubSeq(p, at[x - 1] + 1, at[x]) = SubSeq(b, at[x - 1] + 1, at[x])
        <5> SUFFICES ASSUME NEW x \in 1 .. Len(cut)
                     PROVE  SubSeq(p, at[x - 1] + 1, at[x]) = SubSeq(b, at[x - 1] + 1, at[x])
          OBVIOUS
        <5> DEFINE d == at[x - 1]
                   e == at[x]
        <5>1. d \in 0 .. k /\ e \in d .. k
          BY <3>5 DEF PiecesOf
        <5> HIDE DEF d, e
        <5>2. d \in Nat /\ e \in Nat /\ d <= e /\ e <= k
          BY <3>3, <5>1
        <5>3. SubSeq(p, d + 1, e) = SubSeq(b, d + 1, e)
          BY <3>4, <5>2
        <5> QED BY <5>3 DEF d, e
      <4> QED BY <3>5, <4>1 DEF PiecesOf
    <3> DEFINE i == Whole(m, k)
               j == IF i <= m THEN i ELSE m
    <3>7. Consume(cut) = ReaderAt(b, chunks, m, i, k)
      <4>1. k \in 0 .. 6 * m + 4
        BY <3>3 DEF l
      <4> QED BY <2>1, <3>1, <3>6, <4>1, CutsDoNotMatter
    <3>8. i \in 0 .. m + 1
      <4>1. k \in 0 .. 6 * m + 4
        BY <3>3 DEF l
      <4> QED BY <2>3, <4>1, WholeFrames
    <3> HIDE DEF i
    <3>9. j \in Nat /\ j <= m
      BY <2>3, <3>8
    <3>10. Consume(cut).state \in {"reading", "done"}
           /\ Consume(cut).text = Content(SubSeq(chunks, 1, j))
      <4>1. Consume(cut).state = (IF i = m + 1 THEN "done" ELSE "reading")
            /\ Consume(cut).text = TextUpTo(chunks, m, i)
        BY <3>7, ReaderIsAt
      <4> QED BY <4>1 DEF TextUpTo
    <3> HIDE DEF j
    <3>11. IsPrefix(Content(SubSeq(chunks, 1, j)), Content(chunks))
      <4> DEFINE x == SubSeq(chunks, 1, j)
                 y == SubSeq(chunks, j + 1, m)
      <4>1. m = Len(chunks) /\ j \in 0 .. Len(chunks)
        BY <2>3, <3>9 DEF m
      <4> HIDE DEF C
      <4>2. x \in Seq(C) /\ y \in Seq(C) /\ x \o y = chunks
        BY <2>1, <4>1, Halves
      <4> HIDE DEF x, y
      <4> USE DEF C
      <4>3. Content(x \o y) = Content(x) \o Content(y)
            /\ Content(x) \in Seq(Q) /\ Content(y) \in Seq(Q)
        BY <4>2, ContentConcat
      <4>4. IsPrefix(Content(x), Content(x) \o Content(y))
        BY <4>3, Beginning
      <4> QED BY <4>2, <4>3, <4>4 DEF x
    <3> QED BY <2>1, <3>10, <3>11 DEF cut, p, b
  <2> QED BY <2>4, <2>5
<1> QED BY <1>1, InputTyping, PTL
==============================================================================
