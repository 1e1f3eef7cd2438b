------------------------- MODULE PlaybookEditorProofs -------------------------
(***************************************************************************)
(* For any number of nodes, requests in flight and playbooks an API client *)
(* may have stored: drawing keeps the canvas linear, the compiler takes    *)
(* exactly the canvases that are one line, validateChain says the same,    *)
(* and for a user who waits, what is shown as saved or run is that.        *)
(***************************************************************************)
EXTENDS PlaybookEditor, FiniteSetTheorems, TLAPS

\* A canvas whose edges leave its own nodes, for one of them or for nowhere.
Within(c) == /\ DOMAIN c = {"nodes", "edges"}
             /\ \A i \in DOMAIN c.nodes : "kind" \in DOMAIN c.nodes[i]
             /\ \A e \in c.edges : /\ e = <<e[1], e[2]>>
                                   /\ e[1] \in DOMAIN c.nodes
                                   /\ e[2] \in DOMAIN c.nodes \cup {Ghost}

\* No node but an end has two outgoing edges.
Linear(c) ==
  \A e, f \in c.edges : e[1] = f[1] /\ KindOf(c, e[1]) # "end" => e = f

PutsWithin ==
  /\ DOMAIN puts = Slots
  /\ \A k \in Slots : /\ DOMAIN puts[k] = {"phase", "from", "canvas", "steps"}
                      /\ Within(puts[k].canvas)

\* The stored canvas is linear because it compiled, and the page starts from it;
\* what is drafted or in flight need only be a canvas until it compiles.
EditorInv ==
  /\ Within(draft) /\ Within(timer) /\ PutsWithin
  /\ DOMAIN stored = {"canvas", "steps"}
  /\ Within(stored.canvas) /\ Linear(stored.canvas)
  /\ Within(graph) /\ Linear(graph)

------------------------------------------------------------------------------
(***************************************************************************)
(* What the compiler's walk computes.  Induction is by the least           *)
(* counterexample: a non-empty set of naturals has a least element.        *)
(***************************************************************************)
LEMMA LeastNumber ==
  ASSUME NEW T \in SUBSET Nat, T # {}
  PROVE  \E n \in T : \A m \in T : n <= m
<1> DEFINE R == OpToRel(<, Nat)
<1>1. R = {p \in Nat \X Nat : p[1] < p[2]}
  BY DEF OpToRel
<1>2. IsWellFoundedOn(R, Nat)
  BY NatLessThanWellFounded
<1> HIDE DEF R
<1>3. PICK n \in T : \A m \in T : ~(<<m, n>> \in R)
  BY <1>2, WFMin
<1>4. ASSUME NEW m \in T PROVE n <= m
  <2>1. ~(m < n)
    BY <1>1, <1>3
  <2> QED BY <2>1
<1> QED BY <1>4

\* A function can be applied over and over.
Orbit(f, step, first, N) ==
  f[0] = first /\ \A n \in 1 .. N : f[n] = step[f[n - 1]]

LEMMA Iterates ==
  ASSUME NEW S, NEW step \in [S -> S], NEW first \in S, NEW N \in Nat
  PROVE  \E f \in [0 .. N -> S] : Orbit(f, step, first, N)
<1> DEFINE Reached(f, m) == Orbit(f, step, first, m)
           T == {m \in Nat : ~ \E f \in [0 .. m -> S] : Reached(f, m)}
<1> USE DEF Orbit
<1>1. SUFFICES T = {}
  OBVIOUS
<1>2. SUFFICES ASSUME T # {} PROVE FALSE
  OBVIOUS
<1>3. PICK m \in T : \A n \in T : m <= n
  BY <1>2, LeastNumber
<1>4. CASE m = 0
  <2>1. [n \in 0 .. 0 |-> first] \in [0 .. 0 -> S]
    OBVIOUS
  <2>2. Reached([n \in 0 .. 0 |-> first], 0)
    OBVIOUS
  <2> QED BY <1>4, <2>1, <2>2
<1>5. CASE m # 0
  <2>0. m \in Nat /\ m - 1 \in Nat /\ ~(m <= m - 1)
    BY <1>5
  <2>1. m \in Nat /\ m - 1 \in Nat /\ m - 1 \notin T
    <3> HIDE DEF T
    <3> QED BY <1>3, <2>0
  <2>2. PICK f \in [0 .. m - 1 -> S] : Reached(f, m - 1)
    BY <2>1
  <2> DEFINE g == [n \in 0 .. m |-> IF n = m THEN step[f[m - 1]] ELSE f[n]]
  <2>3. g \in [0 .. m -> S]
    BY <2>1, <2>2
  <2>4. g[0] = first
    BY <1>5, <2>1, <2>2
  <2>5. ASSUME NEW n \in 1 .. m PROVE g[n] = step[g[n - 1]]
    <3>1. CASE n = m
      BY <2>1, <3>1
    <3>2. CASE n # m
      <4>1. n \in 1 .. m - 1 /\ n \in 0 .. m /\ n - 1 \in 0 .. m /\ n - 1 # m
        BY <2>1, <3>2
      <4> QED BY <2>2, <3>2, <4>1
    <3> QED BY <3>1, <3>2
  <2>6. Reached(g, m)
    BY <2>4, <2>5
  <2> HIDE DEF g
  <2> QED BY <2>3, <2>6
<1> QED BY <1>4, <1>5

\* One round of the loop that builds visited_order.
Fresh(c, order) == (Targets(c, Last(order)) \cap DOMAIN c.nodes) \ ToSet(order)

WalkOn(c, order) ==
  IF KindOf(c, Last(order)) = "end" \/ Fresh(c, order) = {} THEN order
  ELSE Append(order, CHOOSE i \in Fresh(c, order) : TRUE)

\* Chain is what its rounds lead to.
LEMMA ChainIsWalked ==
  ASSUME NEW c, IsFiniteSet(DOMAIN c.nodes), NEW s \in DOMAIN c.nodes
  PROVE  \E walk \in [0 .. Cardinality(DOMAIN c.nodes) -> Seq(DOMAIN c.nodes)] :
           /\ walk[0] = <<s>>
           /\ \A n \in 1 .. Cardinality(DOMAIN c.nodes) :
                walk[n] = WalkOn(c, walk[n - 1])
           /\ Chain(c, s) = walk[Cardinality(DOMAIN c.nodes)]
<1> DEFINE D == DOMAIN c.nodes
           N == Cardinality(D)
           IsWalk(w) == w = [n \in 0 .. N |->
              IF n = 0 THEN <<s>>
              ELSE LET order == w[n - 1]
                       fresh == (Targets(c, Last(order)) \cap DOMAIN c.nodes)
                                  \ ToSet(order)
                   IN  IF KindOf(c, Last(order)) = "end" \/ fresh = {} THEN order
                       ELSE Append(order, CHOOSE i \in fresh : TRUE)]
           step == [order \in Seq(D) |-> WalkOn(c, order)]
<1>1. N \in Nat
  BY FS_CardinalityType
<1>2. step \in [Seq(D) -> Seq(D)]
  <2> SUFFICES ASSUME NEW order \in Seq(D) PROVE WalkOn(c, order) \in Seq(D)
    OBVIOUS
  <2>1. CASE KindOf(c, Last(order)) = "end" \/ Fresh(c, order) = {}
    BY <2>1 DEF WalkOn
  <2>2. CASE ~(KindOf(c, Last(order)) = "end" \/ Fresh(c, order) = {})
    <3>1. (CHOOSE i \in Fresh(c, order) : TRUE) \in D
      BY <2>2 DEF Fresh
    <3> HIDE DEF D
    <3> QED BY <2>2, <3>1 DEF WalkOn
  <2> QED BY <2>1, <2>2
<1> HIDE DEF N, step
<1>0. s \in D
  OBVIOUS
<1> HIDE DEF D
<1> DEFINE first == <<s>>
           All == Seq(D)
<1>3. first \in All
  BY <1>0
<1>3a. step \in [All -> All]
  BY <1>2
<1> HIDE DEF first, All
<1>3b. \E f \in [0 .. N -> All] : Orbit(f, step, first, N)
  BY <1>1, <1>3, <1>3a, Iterates
<1>4. PICK f \in [0 .. N -> All] :
        f[0] = first /\ \A n \in 1 .. N : f[n] = step[f[n - 1]]
  BY <1>3b DEF Orbit
<1>5. \A n \in 1 .. N : f[n] = WalkOn(c, f[n - 1])
  <2> TAKE n \in 1 .. N
  <2>1. f[n - 1] \in All
    BY <1>1, <1>4
  <2> QED BY <1>4, <2>1 DEF step, All
<1>6. IsWalk(f)
  <2>1. f = [n \in 0 .. N |-> f[n]]
    BY <1>4
  <2>2. ASSUME NEW n \in 0 .. N
        PROVE  f[n] = IF n = 0 THEN first ELSE WalkOn(c, f[n - 1])
    <3>1. CASE n = 0
      BY <1>4, <3>1
    <3>2. CASE n # 0
      <4>1. n \in 1 .. N
        BY <1>1, <3>2
      <4> QED BY <1>5, <3>2, <4>1
    <3> QED BY <3>1, <3>2
  <2>3. f = [n \in 0 .. N |-> IF n = 0 THEN first ELSE WalkOn(c, f[n - 1])]
    BY <2>1, <2>2
  <2> QED BY <2>3 DEF WalkOn, Fresh, first
<1> DEFINE walk == CHOOSE w : IsWalk(w)
<1>7. IsWalk(walk)
  BY <1>6
<1>8. Chain(c, s) = walk[N]
  BY DEF Chain, N, D
<1>9. ASSUME NEW w, IsWalk(w) PROVE w = f
  <2>1. /\ w = [n \in 0 .. N |-> w[n]] /\ w[0] = first
        /\ \A n \in 1 .. N : w[n] = WalkOn(c, w[n - 1])
    <3>1. w = [n \in 0 .. N |-> IF n = 0 THEN first ELSE WalkOn(c, w[n - 1])]
      BY <1>9 DEF WalkOn, Fresh, first
    <3> QED BY <1>1, <3>1
  <2> DEFINE T == {n \in 0 .. N : w[n] # f[n]}
  <2>2. ASSUME T # {} PROVE FALSE
    <3>1. T \in SUBSET Nat
      BY <1>1
    <3>2. PICK n \in T : \A m \in T : n <= m
      BY <2>2, <3>1, LeastNumber
    <3>3. n # 0
      BY <1>4, <2>1
    <3>4. n \in 1 .. N /\ n - 1 \in 0 .. N /\ ~(n <= n - 1)
      BY <1>1, <3>3
    <3>5. w[n - 1] = f[n - 1]
      BY <3>2, <3>4
    <3> QED BY <1>5, <2>1, <3>4, <3>5
  <2>3. \A n \in 0 .. N : w[n] = f[n]
    BY <2>2
  <2>4. f = [n \in 0 .. N |-> f[n]]
    BY <1>4
  <2> QED BY <2>1, <2>3, <2>4
<1>10. Chain(c, s) = f[N]
  <2> HIDE DEF IsWalk
  <2> QED BY <1>7, <1>8, <1>9
<1> QED BY <1>4, <1>5, <1>10 DEF N, D, All, first
\* A path without repetition that has not gone past an end, and one that cannot
\* go on.
Walked(c, s, order) ==
  /\ order \in Seq(DOMAIN c.nodes) /\ Len(order) >= 1 /\ order[1] = s
  /\ \A j, k \in 1 .. Len(order) : order[j] = order[k] => j = k
  /\ \A k \in 1 .. Len(order) - 1 : /\ KindOf(c, order[k]) # "end"
                                    /\ order[k + 1] \in Targets(c, order[k])

Stuck(c, order) == KindOf(c, Last(order)) = "end" \/ Fresh(c, order) = {}

LEMMA RoundKeeps ==
  ASSUME NEW c, NEW s, NEW order, Walked(c, s, order)
  PROVE  /\ Walked(c, s, WalkOn(c, order))
         /\ Stuck(c, order) => WalkOn(c, order) = order
         /\ ~Stuck(c, order) => Len(WalkOn(c, order)) = Len(order) + 1
<1>1. CASE Stuck(c, order)
  BY <1>1 DEF Stuck, WalkOn
<1>2. CASE ~Stuck(c, order)
  <2> DEFINE i == CHOOSE j \in Fresh(c, order) : TRUE
             D == DOMAIN c.nodes
             next == WalkOn(c, order)
             L == Len(order)
  <2>1. i \in Fresh(c, order) /\ KindOf(c, Last(order)) # "end"
    BY <1>2 DEF Stuck
  <2>2. next = Append(order, i)
    BY <1>2 DEF Stuck, WalkOn
  <2>3. i \in D /\ i \in Targets(c, Last(order)) /\ i \notin ToSet(order)
    BY <2>1 DEF Fresh
  <2> HIDE DEF i, next, D
  <2>4. order \in Seq(D) /\ L \in Nat /\ L >= 1
    BY DEF Walked, D
  <2>5. /\ next \in Seq(D) /\ Len(next) = L + 1 /\ next[L + 1] = i
        /\ \A k \in 1 .. L : next[k] = order[k]
    BY <2>2, <2>3, <2>4
  <2>6. Last(order) = order[L] /\ \A k \in 1 .. L : order[k] # i
    BY <2>3, <2>4 DEF Last, ToSet
  <2>7. next[1] = s
    BY <2>4, <2>5 DEF Walked
  <2>8. ASSUME NEW j \in 1 .. Len(next), NEW k \in 1 .. Len(next), next[j] = next[k]
        PROVE  j = k
    <3>1. j \in 1 .. L \/ j = L + 1
      BY <2>4, <2>5
    <3>2. k \in 1 .. L \/ k = L + 1
      BY <2>4, <2>5
    <3> QED BY <2>5, <2>6, <2>8, <3>1, <3>2 DEF Walked
  <2>9. ASSUME NEW k \in 1 .. Len(next) - 1
        PROVE  KindOf(c, next[k]) # "end" /\ next[k + 1] \in Targets(c, next[k])
    <3>1. CASE k = L
      BY <2>1, <2>3, <2>4, <2>5, <2>6, <3>1
    <3>2. CASE k # L
      <4>1. k \in 1 .. L - 1 /\ k \in 1 .. L /\ k + 1 \in 1 .. L
        BY <2>4, <2>5, <3>2
      <4> QED BY <2>5, <4>1 DEF Walked
    <3> QED BY <3>1, <3>2
  <2>10. Walked(c, s, next)
    BY <2>4, <2>5, <2>7, <2>8, <2>9 DEF Walked, D
  <2> QED BY <1>2, <2>5, <2>10 DEF next
<1> QED BY <1>1, <1>2

\* A sequence without repetition is no longer than the set it is drawn from, and
\* as long only if it lists the whole set.
LEMMA NoRepetition ==
  ASSUME NEW D, IsFiniteSet(D), NEW order \in Seq(D),
         \A j, k \in 1 .. Len(order) : order[j] = order[k] => j = k
  PROVE  /\ Len(order) <= Cardinality(D)
         /\ Len(order) = Cardinality(D) <=> ToSet(order) = D
<1> DEFINE L == Len(order)
           I == 1 .. L
<1>1. L \in Nat /\ order \in [I -> D]
  OBVIOUS
<1>2. order \in Injection(I, D)
  BY <1>1 DEF Injection, IsInjective
<1> HIDE DEF I
<1>3. /\ Cardinality(I) <= Cardinality(D)
      /\ Cardinality(I) = Cardinality(D) <=> order \in Surjection(I, D)
  BY <1>2, FS_Injection
<1>4. Cardinality(I) = L
  BY <1>1, FS_Interval DEF I
<1>5. order \in Surjection(I, D) <=> ToSet(order) = D
  BY <1>1 DEF Surjection, ToSet, I
<1> QED BY <1>3, <1>4, <1>5

\* Every round adds a node or changes nothing, and there are as many rounds as
\* nodes.
LEMMA ChainIsStuck ==
  ASSUME NEW c, IsFiniteSet(DOMAIN c.nodes), NEW s \in DOMAIN c.nodes
  PROVE  Walked(c, s, Chain(c, s)) /\ Stuck(c, Chain(c, s))
<1> DEFINE D == DOMAIN c.nodes
           N == Cardinality(D)
<1>1. N \in Nat
  BY FS_CardinalityType
<1>2. PICK walk \in [0 .. N -> Seq(D)] :
        /\ walk[0] = <<s>> /\ Chain(c, s) = walk[N]
        /\ \A n \in 1 .. N : walk[n] = WalkOn(c, walk[n - 1])
  BY ChainIsWalked
<1> DEFINE Good(n) == /\ Walked(c, s, walk[n])
                      /\ Stuck(c, walk[n]) \/ Len(walk[n]) = n + 1
           T == {n \in 0 .. N : ~Good(n)}
<1> HIDE DEF N
<1>3. Walked(c, s, <<s>>) /\ Len(<<s>>) = 1
  <2> DEFINE one == <<s>>
  <2>0. s \in D
    OBVIOUS
  <2>1. Len(one) = 1 /\ one[1] = s /\ one \in Seq(D)
    <3> HIDE DEF D
    <3> QED BY <2>0
  <2> HIDE DEF one
  <2>2. Walked(c, s, one)
    BY <2>1 DEF Walked
  <2> QED BY <2>1, <2>2 DEF one
<1>4. ASSUME T # {} PROVE FALSE
  <2>1. T \in SUBSET Nat
    BY <1>1
  <2>2. PICK n \in T : \A m \in T : n <= m
    BY <1>4, <2>1, LeastNumber
  <2>3. CASE n = 0
    <3>1. Len(walk[n]) = n + 1
      BY <1>2, <1>3, <2>3
    <3> QED BY <1>2, <1>3, <2>2, <2>3, <3>1
  <2>4. CASE n # 0
    <3>1. n \in 1 .. N /\ n - 1 \in 0 .. N /\ ~(n <= n - 1) /\ n \in Nat
      BY <1>1, <2>4
    <3>2. Good(n - 1)
      BY <2>2, <3>1
    <3>3. walk[n] = WalkOn(c, walk[n - 1])
      BY <1>2, <3>1
    <3>4. CASE Stuck(c, walk[n - 1])
      BY <2>2, <3>2, <3>3, <3>4, RoundKeeps
    <3>5. CASE ~Stuck(c, walk[n - 1])
      <4>1. Walked(c, s, walk[n]) /\ Len(walk[n]) = Len(walk[n - 1]) + 1
        BY <3>2, <3>3, <3>5, RoundKeeps
      <4>2. Len(walk[n]) = n + 1
        BY <3>1, <3>2, <3>5, <4>1
      <4> QED BY <2>2, <4>1, <4>2
    <3> QED BY <3>4, <3>5
  <2> QED BY <2>3, <2>4
<1>5. Good(N)
  <2>1. N \notin T
    <3> HIDE DEF T
    <3> QED BY <1>4
  <2>2. N \in 0 .. N
    BY <1>1
  <2> QED BY <2>1, <2>2
<1>6. Len(walk[N]) # N + 1
  <2> DEFINE order == walk[N]
  <2>1. order \in Seq(D) /\ \A j, k \in 1 .. Len(order) : order[j] = order[k] => j = k
    BY <1>5 DEF Walked
  <2> HIDE DEF order, D
  <2>2. Len(order) <= N
    BY <2>1, NoRepetition DEF N, D
  <2>3. Len(order) \in Nat
    BY <2>1
  <2> QED BY <1>1, <2>2, <2>3 DEF order
<1> QED BY <1>2, <1>5, <1>6

(***************************************************************************)
(* The compiler accepts the canvases that are one line.                    *)
(***************************************************************************)
\* A line of nodes: what ChainOrders asks of an order, as facts about positions.
Line(c, order) ==
  /\ \A j, k \in 1 .. Len(order) : order[j] = order[k] => j = k
  /\ Len(order) >= 1 /\ OfKind(c, "start") = {order[1]}
  /\ \A k \in 1 .. Len(order) - 1 : /\ KindOf(c, order[k]) # "end"
                                    /\ Targets(c, order[k]) = {order[k + 1]}
  /\ Targets(c, order[Len(order)]) \cap DOMAIN c.nodes = {}
  /\ \/ KindOf(c, order[Len(order)]) = "end"
     \/ Cardinality(Targets(c, order[Len(order)])) = 1

LEMMA OrdersAreLines ==
  ASSUME NEW c, IsFiniteSet(DOMAIN c.nodes), NEW order
  PROVE  order \in ChainOrders(c) <=>
           /\ order \in Seq(DOMAIN c.nodes) /\ ToSet(order) = DOMAIN c.nodes
           /\ Line(c, order)
<1> DEFINE D == DOMAIN c.nodes
           L == Len(order)
           Ends == /\ \A k \in 1 .. L - 1 : /\ KindOf(c, order[k]) # "end"
                                            /\ Targets(c, order[k]) = {order[k + 1]}
                   /\ Targets(c, Last(order)) \cap D = {}
                   /\ \/ KindOf(c, Last(order)) = "end"
                      \/ Cardinality(Targets(c, Last(order))) = 1
           Starts == /\ order # <<>> /\ KindOf(c, Head(order)) = "start"
                     /\ \A k \in 2 .. L : KindOf(c, order[k]) # "start"
           Once == \A j, k \in 1 .. L : order[j] = order[k] => j = k
<1>1. order \in ChainOrders(c) <=> order \in SetToSeqs(D) /\ Starts /\ Ends
  BY DEF ChainOrders
<1>2. Cardinality(D) \in Nat
  BY FS_CardinalityType
<1>3. order \in SetToSeqs(D) <=> order \in Seq(D) /\ L = Cardinality(D) /\ Once
  <2> DEFINE N == Cardinality(D)
  <2> HIDE DEF D, N
  <2>1. N \in Nat
    BY <1>2 DEF N
  <2>2. order \in [1 .. N -> D] <=> order \in Seq(D) /\ L = N
    BY <2>1
  <2>3. ASSUME order \in Seq(D), L = N
        PROVE  (\A i, j \in 1 .. N : i # j => order[i] # order[j]) <=> Once
    BY <2>3
  <2>4. order \in SetToSeqs(D) <=>
          order \in [1 .. N -> D] /\ \A i, j \in 1 .. N : i # j => order[i] # order[j]
    BY DEF SetToSeqs, N
  <2> QED BY <2>2, <2>3, <2>4 DEF N
<1>4. order \in Seq(D) /\ Once => (L = Cardinality(D) <=> ToSet(order) = D)
  BY NoRepetition
<1>5. ASSUME order \in Seq(D), ToSet(order) = D, Once
      PROVE  Starts <=> L >= 1 /\ OfKind(c, "start") = {order[1]}
  <2>1. OfKind(c, "start") = {i \in D : KindOf(c, i) = "start"}
    BY DEF OfKind
  <2> HIDE DEF D
  <2>2. L \in Nat /\ D = {order[k] : k \in 1 .. L} /\ (order # <<>> <=> L >= 1)
    BY <1>5 DEF ToSet
  <2>3. L >= 1 => Head(order) = order[1] /\ order[1] \in D
    BY <1>5
  <2>4. ASSUME Starts PROVE L >= 1 /\ OfKind(c, "start") = {order[1]}
    <3>1. ASSUME NEW k \in 1 .. L, KindOf(c, order[k]) = "start" PROVE k = 1
      <4>1. k \notin 2 .. L
        BY <2>4, <3>1
      <4> QED BY <2>2, <4>1
    <3> QED BY <2>1, <2>2, <2>3, <2>4, <3>1
  <2>5. ASSUME L >= 1, OfKind(c, "start") = {order[1]} PROVE Starts
    <3>1. ASSUME NEW k \in 2 .. L PROVE KindOf(c, order[k]) # "start"
      <4>1. k \in 1 .. L /\ k # 1 /\ 1 \in 1 .. L
        BY <2>2
      <4>2. order[k] # order[1] /\ order[k] \in D
        BY <1>5, <2>2, <4>1
      <4> QED BY <2>1, <2>5, <4>2
    <3> QED BY <2>1, <2>2, <2>3, <2>5, <3>1
  <2> QED BY <2>4, <2>5
<1>6. Last(order) = order[L]
  BY DEF Last
<1> QED BY <1>1, <1>3, <1>4, <1>5, <1>6 DEF Line

\* The walk cannot leave a line, and stops only at its end.
LEMMA LineIsTheChain ==
  ASSUME NEW c, IsFiniteSet(DOMAIN c.nodes), NEW order \in Seq(DOMAIN c.nodes),
         ToSet(order) = DOMAIN c.nodes, Line(c, order)
  PROVE  Chain(c, order[1]) = order
<1> DEFINE D == DOMAIN c.nodes
           s == order[1]
           walk == Chain(c, s)
           L == Len(order)
           M == Len(walk)
<1>1. s \in D
  BY DEF Line
<1>2. Walked(c, s, walk) /\ Stuck(c, walk)
  BY <1>1, ChainIsStuck
<1> HIDE DEF s, walk, D
<1>3. walk \in Seq(D) /\ order \in Seq(D) /\ M \in Nat /\ L \in Nat /\ M >= 1 /\ L >= 1
  BY <1>2 DEF Walked, Line, D
<1> DEFINE Agree(k) == k <= L /\ walk[k] = order[k]
           T == {k \in 1 .. M : ~Agree(k)}
<1>4. ASSUME T # {} PROVE FALSE
  <2>1. T \in SUBSET Nat
    OBVIOUS
  <2>2. PICK k \in T : \A m \in T : k <= m
    BY <1>4, <2>1, LeastNumber
  <2>3. CASE k = 1
    <3>1. walk[1] = order[1]
      BY <1>2 DEF Walked, s
    <3> QED BY <1>3, <2>2, <2>3, <3>1
  <2>4. CASE k # 1
    <3>1. k \in 1 .. M /\ k - 1 \in 1 .. M /\ k - 1 \in 1 .. M - 1 /\ ~(k <= k - 1)
      BY <1>3, <2>4
    <3>2. k - 1 <= L /\ walk[k - 1] = order[k - 1]
      BY <2>2, <3>1
    <3>3. (k - 1) + 1 = k
      BY <3>1
    <3>4. walk[k] \in Targets(c, order[k - 1])
      BY <1>2, <3>1, <3>2, <3>3 DEF Walked
    <3>5. walk[k] \in D
      BY <1>3, <3>1
    <3>6. CASE k - 1 = L
      BY <3>4, <3>5, <3>6 DEF Line, D
    <3>7. CASE k - 1 # L
      <4>1. k - 1 \in 1 .. L - 1 /\ k <= L
        BY <1>3, <3>1, <3>2, <3>7
      <4>2. Targets(c, order[k - 1]) = {order[k]}
        BY <3>3, <4>1 DEF Line
      <4> QED BY <2>2, <3>4, <4>1, <4>2
    <3> QED BY <3>6, <3>7
  <2> QED BY <2>3, <2>4
<1>5. \A k \in 1 .. M : Agree(k)
  BY <1>4
<1>6. M = L
  <2> SUFFICES ASSUME M # L PROVE FALSE
    OBVIOUS
  <2>1. M \in 1 .. M /\ M \in 1 .. L - 1 /\ M + 1 \in 1 .. L /\ walk[M] = order[M]
    BY <1>3, <1>5
  <2>2. KindOf(c, walk[M]) # "end" /\ Targets(c, walk[M]) = {order[M + 1]}
    BY <2>1 DEF Line
  <2>3. order[M + 1] \in D
    BY <1>3, <2>1
  <2>4. Last(walk) = walk[M]
    BY DEF Last
  <2>5. order[M + 1] \in ToSet(walk)
    BY <1>2, <2>2, <2>3, <2>4 DEF Stuck, Fresh, D
  <2>6. PICK k \in 1 .. M : walk[k] = order[M + 1]
    BY <1>3, <2>5 DEF ToSet
  <2>7. k \in 1 .. L /\ order[k] = order[M + 1]
    BY <1>3, <1>5, <2>6
  <2> QED BY <1>3, <2>1, <2>6, <2>7 DEF Line
<1>7. walk = order
  BY <1>3, <1>5, <1>6
<1> QED BY <1>7 DEF walk, s

\* The targets of a node are what its edges lead to.
LEMMA EdgesAndTargets ==
  ASSUME NEW c, Within(c), NEW i, NEW j
  PROVE  j \in Targets(c, i) <=> <<i, j>> \in c.edges
BY DEF Targets, Within

\* A line that is filled in compiles.
LEMMA LineCompiles ==
  ASSUME NEW c, Within(c), IsFiniteSet(DOMAIN c.nodes), Filled(c),
         NEW order \in Seq(DOMAIN c.nodes), ToSet(order) = DOMAIN c.nodes,
         Line(c, order)
  PROVE  Accepts(c)
<1> DEFINE D == DOMAIN c.nodes
           L == Len(order)
<1>1. L \in Nat /\ L >= 1 /\ D = {order[k] : k \in 1 .. L}
  BY DEF Line, ToSet
<1>2. AllOnChain(c)
  BY LineIsTheChain DEF Line, AllOnChain
<1>0. \A k \in 1 .. L - 1 : Targets(c, order[k]) = {order[k + 1]}
  BY DEF Line
<1>3. ~Loops(c)
  <2> SUFFICES ASSUME NEW S \in SUBSET D, S # {},
                      \A i \in S : \E j \in S : <<i, j>> \in c.edges
               PROVE  FALSE
    BY DEF Loops, HasCycle
  <2> HIDE DEF D
  <2> DEFINE T == {n \in 0 .. L : L - n >= 1 /\ order[L - n] \in S}
  <2>1. T \in SUBSET Nat /\ T # {}
    <3>1. PICK i \in S : TRUE
      OBVIOUS
    <3>2. PICK k \in 1 .. L : order[k] = i
      BY <1>1, <3>1
    <3>3. L - k \in 0 .. L /\ L - (L - k) = k /\ k >= 1
      BY <1>1
    <3>4. L - k \in T
      BY <3>2, <3>3
    <3>5. 0 .. L \subseteq Nat
      BY <1>1
    <3> QED BY <3>4, <3>5
  <2>2. PICK n \in T : \A m \in T : n <= m
    BY <2>1, LeastNumber
  <2> DEFINE k == L - n
  <2>3. k \in 1 .. L /\ order[k] \in S /\ n \in Nat /\ n = L - k
    BY <1>1, <2>2
  <2> HIDE DEF k
  <2>4. PICK j \in S : <<order[k], j>> \in c.edges
    BY <2>3
  <2>5. j \in Targets(c, order[k]) /\ j \in D
    BY <2>4, EdgesAndTargets
  <2>6. k # L
    BY <2>5 DEF Line, D
  <2>7. k \in 1 .. L - 1 /\ k + 1 \in 1 .. L
    BY <1>1, <2>3, <2>6
  <2>8. j = order[k + 1]
    <3>1. Targets(c, order[k]) = {order[k + 1]}
      BY <1>0, <2>7
    <3> QED BY <2>5, <3>1
  <2>9. L - (n - 1) = k + 1 /\ n - 1 \in 0 .. L /\ ~(n <= n - 1)
    BY <1>1, <2>3, <2>7
  <2>10. n - 1 \in T
    BY <2>4, <2>7, <2>8, <2>9
  <2> HIDE DEF T
  <2> QED BY <2>2, <2>9, <2>10
<1>4. OneNext(c)
  <2> SUFFICES ASSUME NEW i \in D, KindOf(c, i) # "end"
               PROVE  \E j \in Targets(c, i) : Targets(c, i) = {j}
    BY DEF OneNext, OfKind
  <2>1. PICK k \in 1 .. L : order[k] = i
    BY <1>1
  <2>2. CASE k = L
    <3>1. IsFiniteSet(Targets(c, i))
      <4>1. Targets(c, i) \in SUBSET (D \cup {Ghost})
        BY DEF Targets, Within
      <4>2. IsFiniteSet(D \cup {Ghost})
        BY FS_AddElement
      <4> QED BY <4>1, <4>2, FS_Subset
    <3>2. Cardinality(Targets(c, i)) = 1
      BY <2>1, <2>2 DEF Line
    <3>3. \E x : Targets(c, i) = {x}
      BY <3>1, <3>2, FS_Singleton
    <3> QED BY <3>3
  <2>3. CASE k # L
    <3>1. k \in 1 .. L - 1
      BY <1>1, <2>3
    <3>2. Targets(c, i) = {order[k + 1]}
      BY <2>1, <3>1 DEF Line
    <3> QED BY <3>2
  <2> QED BY <2>2, <2>3
<1> QED BY <1>2, <1>3, <1>4 DEF Accepts

\* A walk over the whole canvas is a line if no node has a second next step and
\* nothing leads on from its last node.
LEMMA WholeWalkIsALine ==
  ASSUME NEW c, Within(c), IsFiniteSet(DOMAIN c.nodes), NEW s, NEW order,
         OfKind(c, "start") = {s}, Walked(c, s, order),
         ToSet(order) = DOMAIN c.nodes, OneNext(c),
         Targets(c, order[Len(order)]) \cap DOMAIN c.nodes = {}
  PROVE  Line(c, order)
<1> DEFINE L == Len(order)
<1>1. order \in Seq(DOMAIN c.nodes) /\ L \in Nat /\ L >= 1 /\ order[1] = s
  BY DEF Walked
<1>2. ASSUME NEW i \in DOMAIN c.nodes, KindOf(c, i) # "end"
      PROVE  \E j \in Targets(c, i) : Targets(c, i) = {j}
  BY <1>2 DEF OneNext, OfKind
<1>3. ASSUME NEW k \in 1 .. L - 1
      PROVE  KindOf(c, order[k]) # "end" /\ Targets(c, order[k]) = {order[k + 1]}
  <2>1. KindOf(c, order[k]) # "end" /\ order[k + 1] \in Targets(c, order[k])
    BY <1>3 DEF Walked
  <2>2. order[k] \in DOMAIN c.nodes
    BY <1>1, <1>3
  <2>3. PICK j : Targets(c, order[k]) = {j}
    BY <1>2, <2>1, <2>2
  <2> QED BY <2>1, <2>3
<1>4. \/ KindOf(c, order[L]) = "end"
      \/ Cardinality(Targets(c, order[L])) = 1
  <2> SUFFICES ASSUME KindOf(c, order[L]) # "end"
               PROVE  Cardinality(Targets(c, order[L])) = 1
    OBVIOUS
  <2>1. order[L] \in DOMAIN c.nodes
    BY <1>1
  <2>2. PICK j : Targets(c, order[L]) = {j}
    BY <1>2, <2>1
  <2> QED BY <2>2, FS_Singleton
<1>5. \A j, k \in 1 .. L : order[j] = order[k] => j = k
  BY DEF Walked
<1> QED BY <1>1, <1>3, <1>4, <1>5 DEF Line

\* Nothing leads on from the last node of the walk over a canvas without a loop.
LEMMA NoLoopLeadsOn ==
  ASSUME NEW c, Within(c), NEW s, NEW order, Walked(c, s, order),
         ToSet(order) = DOMAIN c.nodes, ~Loops(c)
  PROVE  Targets(c, order[Len(order)]) \cap DOMAIN c.nodes = {}
<1> DEFINE L == Len(order)
           D == DOMAIN c.nodes
<1>1. order \in Seq(D) /\ L \in Nat /\ L >= 1
  BY DEF Walked
<1> SUFFICES ASSUME NEW j \in D, j \in Targets(c, order[L]) PROVE FALSE
  OBVIOUS
<1> HIDE DEF D
<1>2. PICK m \in 1 .. L : order[m] = j
  BY <1>1 DEF ToSet, D
<1> DEFINE S == {order[k] : k \in m .. L}
<1>3. S \in SUBSET D /\ S # {}
  <2>1. \A k \in m .. L : order[k] \in D
    BY <1>1, <1>2
  <2>2. order[L] \in S
    BY <1>1, <1>2
  <2> QED BY <2>1, <2>2
<1>4. ASSUME NEW i \in S PROVE \E t \in S : <<i, t>> \in c.edges
  <2>1. PICK k \in m .. L : order[k] = i
    OBVIOUS
  <2>2. CASE k = L
    <3>1. order[m] \in S
      BY <1>1, <1>2
    <3> QED BY <1>2, <2>1, <2>2, <3>1, EdgesAndTargets
  <2>3. CASE k # L
    <3>1. k \in 1 .. L - 1 /\ k + 1 \in m .. L
      BY <1>1, <1>2, <2>3
    <3>2. order[k + 1] \in Targets(c, i)
      BY <2>1, <3>1 DEF Walked
    <3>3. order[k + 1] \in S
      BY <3>1
    <3>4. <<i, order[k + 1]>> \in c.edges
      BY <3>2, EdgesAndTargets
    <3> QED BY <3>3, <3>4
  <2> QED BY <2>2, <2>3
<1> HIDE DEF S
<1>5. Loops(c)
  BY <1>3, <1>4 DEF Loops, HasCycle, D
<1> QED BY <1>5

\* compile_canvas, characterised: what it accepts, and that the steps it stores
\* are those of any order of the nodes that is a line.
LEMMA CompilerAcceptsLines ==
  ASSUME NEW c, Within(c), IsFiniteSet(DOMAIN c.nodes)
  PROVE  /\ Accepts(c) <=> ChainOrders(c) # {} /\ Filled(c)
         /\ Accepts(c) =>
              \A order \in ChainOrders(c) : Steps(c) = StepsAlong(c, order)
<1>1. ASSUME Accepts(c) PROVE ChainOrders(c) # {} /\ Filled(c)
  <2>1. PICK s \in OfKind(c, "start") : /\ OfKind(c, "start") = {s}
                                        /\ ToSet(Chain(c, s)) = DOMAIN c.nodes
    BY <1>1 DEF Accepts, AllOnChain
  <2> DEFINE order == Chain(c, s)
  <2>2. s \in DOMAIN c.nodes
    BY DEF OfKind
  <2>3. Walked(c, s, order)
    BY <2>2, ChainIsStuck
  <2>4. ~Loops(c) /\ OneNext(c) /\ Filled(c)
    BY <1>1 DEF Accepts
  <2> HIDE DEF order
  <2>5. ToSet(order) = DOMAIN c.nodes
    BY <2>1 DEF order
  <2>6. Targets(c, order[Len(order)]) \cap DOMAIN c.nodes = {}
    BY <2>3, <2>4, <2>5, NoLoopLeadsOn
  <2>7. Line(c, order)
    BY <2>1, <2>3, <2>4, <2>5, <2>6, WholeWalkIsALine
  <2>8. order \in Seq(DOMAIN c.nodes)
    BY <2>3 DEF Walked
  <2> QED BY <2>4, <2>5, <2>7, <2>8, OrdersAreLines
<1>2. ASSUME ChainOrders(c) # {}, Filled(c) PROVE Accepts(c)
  <2>1. PICK order \in ChainOrders(c) : TRUE
    BY <1>2
  <2>2. /\ order \in Seq(DOMAIN c.nodes) /\ ToSet(order) = DOMAIN c.nodes
        /\ Line(c, order)
    BY <2>1, OrdersAreLines
  <2> QED BY <1>2, <2>2, LineCompiles
<1>3. ASSUME NEW order \in ChainOrders(c) PROVE Steps(c) = StepsAlong(c, order)
  <2>1. /\ order \in Seq(DOMAIN c.nodes) /\ ToSet(order) = DOMAIN c.nodes
        /\ Line(c, order)
    BY OrdersAreLines
  <2>2. Chain(c, order[1]) = order
    BY <2>1, LineIsTheChain
  <2>3. (CHOOSE s \in OfKind(c, "start") : TRUE) = order[1]
    BY <2>1 DEF Line
  <2> QED BY <2>2, <2>3 DEF Steps
<1> QED BY <1>1, <1>2, <1>3

------------------------------------------------------------------------------
\* The empty canvas is a linear one.
LEMMA NoCanvasLinear == Within(NoCanvas) /\ Linear(NoCanvas)
BY DEF Within, Linear, NoCanvas

\* What compiles is linear: OneNext of the compiler is about the targets of a
\* node, Linear about its edges.
LEMMA AcceptedIsLinear ==
  ASSUME NEW c, Within(c), Accepts(c)
  PROVE  Linear(c)
<1> SUFFICES ASSUME NEW e \in c.edges, NEW f \in c.edges,
                    e[1] = f[1], KindOf(c, e[1]) # "end"
             PROVE  e = f
  BY DEF Linear
<1>1. e[1] \in DOMAIN c.nodes \ OfKind(c, "end")
  BY DEF OfKind, Within
<1>2. PICK j : Targets(c, e[1]) = {j}
  BY <1>1 DEF Accepts, OneNext
<1>3. e[2] \in Targets(c, e[1]) /\ f[2] \in Targets(c, e[1])
  BY DEF Targets
<1>4. e = <<e[1], e[2]>> /\ f = <<f[1], f[2]>>
  BY DEF Within
<1> QED BY <1>2, <1>3, <1>4

\* toBuilderGraph and fromBuilderGraph keep the edges and the kinds.
LEMMA ConversionsKeepEdges ==
  ASSUME NEW c, Within(c)
  PROVE  /\ Within(ToBuilder(c)) /\ Within(FromBuilder(c))
         /\ Linear(c) => Linear(ToBuilder(c))
<1>1. /\ ToBuilder(c).edges = c.edges /\ DOMAIN ToBuilder(c) = DOMAIN c
      /\ DOMAIN ToBuilder(c).nodes = DOMAIN c.nodes
  BY DEF ToBuilder, Within
<1>2. /\ FromBuilder(c).edges = c.edges /\ DOMAIN FromBuilder(c) = DOMAIN c
      /\ DOMAIN FromBuilder(c).nodes = DOMAIN c.nodes
  BY DEF FromBuilder, Within
<1>3. ASSUME NEW i \in DOMAIN c.nodes
      PROVE  /\ "kind" \in DOMAIN ToBuilder(c).nodes[i]
             /\ "kind" \in DOMAIN FromBuilder(c).nodes[i]
  BY DEF ToBuilder, FromBuilder, Within
<1>4. ASSUME NEW i \in DOMAIN c.nodes
      PROVE  KindOf(ToBuilder(c), i) = KindOf(c, i)
  BY DEF ToBuilder, KindOf, Within
<1>5. \A e \in c.edges : e[1] \in DOMAIN c.nodes
  BY DEF Within
<1>6. Within(ToBuilder(c)) /\ Within(FromBuilder(c))
  BY <1>1, <1>2, <1>3 DEF Within
<1> QED BY <1>1, <1>4, <1>5, <1>6 DEF Linear

\* A new node is added to the others.
LEMMA AddedNode ==
  ASSUME NEW c, NEW i, NEW node, Within(c), "kind" \in DOMAIN node,
         i \notin DOMAIN c.nodes
  PROVE  /\ Within(WithNode(c, i, node))
         /\ Linear(c) => Linear(WithNode(c, i, node))
<1> DEFINE d == WithNode(c, i, node)
<1>1. /\ DOMAIN d = {"nodes", "edges"} /\ d.edges = c.edges
      /\ DOMAIN d.nodes = DOMAIN c.nodes \cup {i} /\ d.nodes[i] = node
      /\ \A j \in DOMAIN c.nodes : d.nodes[j] = c.nodes[j]
  BY DEF WithNode, Within
<1>2. Within(d)
  BY <1>1 DEF Within
<1>3. Linear(c) => Linear(d)
  BY <1>1 DEF Within, Linear, KindOf
<1> QED BY <1>2, <1>3

\* A change of one node that is not its kind.
LEMMA DataKeepsKinds ==
  ASSUME NEW c, NEW d, Within(c), Linear(c), NEW i, DOMAIN d = {"nodes", "edges"},
         d.edges = c.edges, NEW node, d.nodes = [c.nodes EXCEPT ![i] = node],
         "kind" \in DOMAIN node, i \in DOMAIN c.nodes, node.kind = KindOf(c, i)
  PROVE  Within(d) /\ Linear(d)
<1>1. \A j \in DOMAIN c.nodes : /\ "kind" \in DOMAIN d.nodes[j]
                                /\ KindOf(d, j) = KindOf(c, j)
  BY DEF KindOf, Within
<1>2. DOMAIN d.nodes = DOMAIN c.nodes
  OBVIOUS
<1> QED BY <1>1, <1>2 DEF Within, Linear

\* An edit that leaves a linear canvas on the screen.
LEMMA EditKeeps ==
  ASSUME EditorInv, NEW g, Within(g), Linear(g), Edited(g)
  PROVE  EditorInv'
<1>1. graph' = g /\ UNCHANGED <<draft, stored, puts>>
  BY DEF Edited
<1>2. Within(timer')
  BY ConversionsKeepEdges, NoCanvasLinear DEF Edited
<1> QED BY <1>1, <1>2 DEF EditorInv, PutsWithin

\* A request stores nothing or a canvas that compiled.
LEMMA PutKeeps ==
  ASSUME EditorInv, NEW c, Within(c), Put(c)
  PROVE  /\ DOMAIN stored' = {"canvas", "steps"}
         /\ Within(stored'.canvas) /\ Linear(stored'.canvas)
<1>1. CASE Accepts(c)
  <2>1. Linear(c)
    BY <1>1, AcceptedIsLinear
  <2> QED BY <1>1, <2>1 DEF Put
<1>2. CASE ~Accepts(c)
  BY <1>2 DEF Put, EditorInv
<1> QED BY <1>1, <1>2

\* A request slot is replaced by one with a canvas.
LEMMA SlotKeeps ==
  ASSUME PutsWithin, NEW k \in Slots, NEW row,
         DOMAIN row = {"phase", "from", "canvas", "steps"}, Within(row.canvas),
         puts' = [puts EXCEPT ![k] = row]
  PROVE  PutsWithin'
BY DEF PutsWithin

------------------------------------------------------------------------------
LEMMA DraftingKeeps == EditorInv /\ Drafting => EditorInv'
<1> SUFFICES ASSUME EditorInv, Drafting PROVE EditorInv'
  OBVIOUS
<1>1. ASSUME NEW i \in Ids, NEW node \in DraftNodes, DraftNode(i, node)
      PROVE  EditorInv'
  <2>1. "kind" \in DOMAIN node
    BY EditorAssumption DEF Nodes
  <2>2. Within(draft) /\ i \notin DOMAIN draft.nodes
    BY <1>1 DEF DraftNode, EditorInv
  <2>3. Within(draft')
    BY <1>1, <2>1, <2>2, AddedNode DEF DraftNode
  <2> QED BY <1>1, <2>3 DEF DraftNode, page, EditorInv, PutsWithin
<1>2. ASSUME NEW i \in Ids, NEW j \in Ids \cup {Ghost}, DraftEdge(i, j)
      PROVE  EditorInv'
  <2>1. Within(draft')
    <3>1. /\ DOMAIN draft' = {"nodes", "edges"} /\ draft'.nodes = draft.nodes
          /\ draft'.edges = draft.edges \cup {<<i, j>>}
      BY <1>2 DEF DraftEdge, EditorInv, Within
    <3>2. i \in DOMAIN draft.nodes /\ j \in DOMAIN draft.nodes \cup {Ghost}
      BY <1>2 DEF DraftEdge
    <3> QED BY <3>1, <3>2 DEF EditorInv, Within
  <2> QED BY <1>2, <2>1 DEF DraftEdge, page, EditorInv, PutsWithin
<1>3. CASE SubmitDraft
  <2>1. Within(draft)
    BY DEF EditorInv
  <2>2. Put(draft) /\ draft' = NoCanvas /\ UNCHANGED page
    BY <1>3 DEF SubmitDraft
  <2> QED BY <2>1, <2>2, PutKeeps, NoCanvasLinear DEF page, EditorInv, PutsWithin
<1> QED BY <1>1, <1>2, <1>3 DEF Drafting

LEMMA OpeningKeeps == EditorInv /\ OpenPage => EditorInv'
<1> SUFFICES ASSUME EditorInv, OpenPage PROVE EditorInv'
  OBVIOUS
<1>1. Within(ToBuilder(stored.canvas)) /\ Linear(ToBuilder(stored.canvas))
  BY ConversionsKeepEdges DEF EditorInv
<1> QED BY <1>1, NoCanvasLinear DEF OpenPage, EditorInv, PutsWithin

LEMMA EditingKeeps == EditorInv /\ Editing => EditorInv'
<1> SUFFICES ASSUME EditorInv, Editing PROVE EditorInv'
  OBVIOUS
<1> USE DEF EditorInv
<1>1. ASSUME NEW i \in Ids, NEW kind \in Blocks, AddNode(i, kind)
      PROVE  EditorInv'
  <2>1. "kind" \in DOMAIN NewNode(kind)
    BY DEF NewNode
  <2>2. i \notin DOMAIN graph.nodes /\ Edited(WithNode(graph, i, NewNode(kind)))
    BY <1>1 DEF AddNode
  <2> QED BY <2>1, <2>2, AddedNode, EditKeeps
<1>2. ASSUME NEW i \in Ids, NEW j \in Ids, Connect(i, j)
      PROVE  EditorInv'
  <2>1. PICK g : /\ g = [graph EXCEPT !.edges = {e \in @ : e[1] # i} \cup {<<i, j>>}]
                 /\ Edited(g) /\ {i, j} \subseteq DOMAIN graph.nodes
    BY <1>2 DEF Connect, Drawable
  <2>2. /\ DOMAIN g = {"nodes", "edges"} /\ g.nodes = graph.nodes
        /\ g.edges = {e \in graph.edges : e[1] # i} \cup {<<i, j>>}
    BY <2>1 DEF Within
  <2>3. Within(g)
    BY <2>1, <2>2 DEF Within
  <2>4. Linear(g)
    BY <2>2 DEF Linear, KindOf
  <2> QED BY <2>1, <2>3, <2>4, EditKeeps
<1>3. ASSUME NEW e \in graph.edges, RemoveEdge(e)
      PROVE  EditorInv'
  <2>1. PICK g : g = [graph EXCEPT !.edges = @ \ {e}] /\ Edited(g)
    BY <1>3 DEF RemoveEdge
  <2>2. /\ DOMAIN g = {"nodes", "edges"} /\ g.nodes = graph.nodes
        /\ g.edges = graph.edges \ {e}
    BY <2>1 DEF Within
  <2>3. Within(g) /\ Linear(g)
    BY <2>2 DEF Within, Linear, KindOf
  <2> QED BY <2>1, <2>3, EditKeeps
<1>4. ASSUME NEW i \in Ids, RemoveNode(i)
      PROVE  EditorInv'
  <2>1. PICK g : /\ g = [nodes |-> [j \in DOMAIN graph.nodes \ {i} |-> graph.nodes[j]],
                         edges |-> {e \in graph.edges : i \notin {e[1], e[2]}}]
                 /\ Edited(g)
    BY <1>4 DEF RemoveNode
  <2>2. \A j \in DOMAIN g.nodes : KindOf(g, j) = KindOf(graph, j)
    BY <2>1 DEF KindOf
  <2>3. Within(g)
    BY <2>1 DEF Within
  <2>4. Linear(g)
    <3>1. \A e \in g.edges : e \in graph.edges /\ e[1] \in DOMAIN g.nodes
      BY <2>1, <2>3 DEF Within
    <3> QED BY <2>2, <3>1 DEF Linear
  <2> QED BY <2>1, <2>3, <2>4, EditKeeps
<1>5. ASSUME NEW i \in Ids, NEW filled \in BOOLEAN, FillIn(i, filled)
      PROVE  EditorInv'
  <2>1. PICK g : g = [graph EXCEPT !.nodes[i].filled = filled] /\ Edited(g)
    BY <1>5 DEF FillIn
  <2>2. i \in DOMAIN graph.nodes
    BY <1>5 DEF FillIn
  <2> DEFINE node == [graph.nodes[i] EXCEPT !.filled = filled]
  <2>3. /\ DOMAIN g = {"nodes", "edges"} /\ g.edges = graph.edges
        /\ g.nodes = [graph.nodes EXCEPT ![i] = node]
    BY <2>1 DEF Within
  <2>4. "kind" \in DOMAIN node /\ node.kind = KindOf(graph, i)
    BY <2>2 DEF Within, KindOf
  <2> HIDE DEF node
  <2>5. Within(g) /\ Linear(g)
    BY <2>2, <2>3, <2>4, DataKeepsKinds
  <2> QED BY <2>1, <2>5, EditKeeps
<1>6. ASSUME NEW i \in Ids, NEW m \in Models, PickModel(i, m)
      PROVE  EditorInv'
  <2>1. PICK g : g = [graph EXCEPT !.nodes[i].model = m, !.nodes[i].tier = TierOf[m]] /\ Edited(g)
    BY <1>6 DEF PickModel
  <2>2. i \in DOMAIN graph.nodes
    BY <1>6 DEF PickModel
  <2> DEFINE node == [graph.nodes[i] EXCEPT !.model = m, !.tier = TierOf[m]]
  <2>3. /\ DOMAIN g = {"nodes", "edges"} /\ g.edges = graph.edges
        /\ g.nodes = [graph.nodes EXCEPT ![i] = node]
    BY <2>1 DEF Within
  <2>4. "kind" \in DOMAIN node /\ node.kind = KindOf(graph, i)
    BY <2>2 DEF Within, KindOf
  <2> HIDE DEF node
  <2>5. Within(g) /\ Linear(g)
    BY <2>2, <2>3, <2>4, DataKeepsKinds
  <2> QED BY <2>1, <2>5, EditKeeps
<1> QED BY <1>1, <1>2, <1>3, <1>4, <1>5, <1>6 DEF Editing

LEMMA SavingKeeps == EditorInv /\ Saving => EditorInv'
<1> SUFFICES ASSUME EditorInv, NEW k \in Slots,
                    \/ TimerFires(k) \/ ClickRun(k) \/ HandlePut(k)
                    \/ LosePut(k) \/ AnswerOk(k) \/ AnswerError(k)
             PROVE  EditorInv'
  BY DEF Saving
<1>1. CASE TimerFires(k)
  <2>1. Within([FreePut EXCEPT !.phase = "sent", !.from = "timer",
                               !.canvas = timer].canvas)
    BY DEF FreePut, EditorInv
  <2>2. PutsWithin'
    BY <1>1, <2>1, SlotKeeps DEF TimerFires, Send, FreePut, EditorInv
  <2> QED BY <1>1, <2>2, NoCanvasLinear DEF TimerFires, EditorInv
<1>2. CASE ClickRun(k)
  <2>1. Within(FromBuilder(graph))
    BY ConversionsKeepEdges DEF EditorInv
  <2>2. Within([FreePut EXCEPT !.phase = "sent", !.from = "run",
                               !.canvas = FromBuilder(graph)].canvas)
    BY <2>1 DEF FreePut
  <2>3. PutsWithin'
    BY <1>2, <2>2, SlotKeeps DEF ClickRun, Send, FreePut, EditorInv
  <2> QED BY <1>2, <2>3 DEF ClickRun, EditorInv
<1>3. CASE HandlePut(k)
  <2>1. Within(puts[k].canvas) /\ Put(puts[k].canvas)
    BY <1>3 DEF HandlePut, EditorInv, PutsWithin
  <2>2. PutsWithin'
    <3>1. PICK phase, steps :
            puts' = [puts EXCEPT ![k].phase = phase, ![k].steps = steps]
      BY <1>3 DEF HandlePut
    <3> QED BY <3>1 DEF EditorInv, PutsWithin
  <2>3. UNCHANGED <<draft, open, graph, saved, timer, run>>
    BY <1>3 DEF HandlePut
  <2> QED BY <2>1, <2>2, <2>3, PutKeeps DEF EditorInv
<1>4. CASE LosePut(k)
  <2>1. PutsWithin'
    BY <1>4 DEF LosePut, EditorInv, PutsWithin
  <2> QED BY <1>4, <2>1 DEF LosePut, EditorInv
<1>5. CASE AnswerOk(k) \/ AnswerError(k)
  <2>1. /\ puts' = [puts EXCEPT ![k] = FreePut]
        /\ UNCHANGED <<draft, stored, graph, timer>>
    BY <1>5 DEF AnswerOk, AnswerError
  <2>2. PutsWithin'
    <3>1. /\ DOMAIN FreePut = {"phase", "from", "canvas", "steps"}
          /\ Within(FreePut.canvas)
      BY NoCanvasLinear DEF FreePut
    <3> QED BY <2>1, <3>1, SlotKeeps DEF EditorInv
  <2> QED BY <2>1, <2>2 DEF EditorInv
<1> QED BY <1>1, <1>2, <1>3, <1>4, <1>5

------------------------------------------------------------------------------
LEMMA InitEditor == Init => EditorInv
BY NoCanvasLinear DEF Init, FreePut, EditorInv, PutsWithin

LEMMA NextKeeps == EditorInv /\ [Next]_vars => EditorInv'
<1> SUFFICES ASSUME EditorInv, [Next]_vars PROVE EditorInv'
  OBVIOUS
<1>1. CASE StartRun \/ StartRunFails \/ UNCHANGED vars
  <2>1. UNCHANGED <<draft, stored, graph, timer, puts>>
    BY <1>1 DEF StartRun, StartRunFails, vars
  <2> QED BY <2>1 DEF EditorInv, PutsWithin
<1> QED BY <1>1, DraftingKeeps, OpeningKeeps, EditingKeeps, SavingKeeps DEF Next

\* No sequence of edits, saves, answers and lost requests gives a step of the graph on
\* the screen two next steps or an edge to a deleted one (onConnect, removeNode
\* and compile_canvas together).
THEOREM DrawingStaysLinear == Spec => []EdgesStayLinear
<1>1. Init => EditorInv
  BY InitEditor
<1>2. EditorInv /\ [Next]_vars => EditorInv'
  BY NextKeeps
<1>3. EditorInv => EdgesStayLinear
  BY DEF EditorInv, Within, Linear, EdgesStayLinear
<1> QED BY <1>1, <1>2, <1>3, PTL DEF Spec
------------------------------------------------------------------------------
(***************************************************************************)
(* The shape of every canvas: finitely many typed nodes, and no edge from  *)
(* an end into the canvas.  The page never draws such an edge, and a       *)
(* playbook that has one does not compile; so the graph on the screen has  *)
(* no loop that starts at an end, the only kind validateChain would miss.  *)
(***************************************************************************)
Drawn(c) == /\ IsFiniteSet(DOMAIN c.nodes) /\ DOMAIN c.nodes \subseteq Ids
            /\ \A i \in DOMAIN c.nodes : c.nodes[i] \in Nodes

\* A teammate has one of the models the inspector offers.
Modelled(c) ==
  \A i \in DOMAIN c.nodes : KindOf(c, i) = "teammate" => c.nodes[i].model \in Models

EndsLast(c) ==
  \A e \in c.edges : KindOf(c, e[1]) = "end" => e[2] \notin DOMAIN c.nodes

ShapeInv ==
  /\ Drawn(draft) /\ Drawn(timer) /\ \A k \in Slots : Drawn(puts[k].canvas)
  /\ Drawn(stored.canvas) /\ EndsLast(stored.canvas)
  /\ Drawn(graph) /\ EndsLast(graph) /\ Modelled(graph)

LEMMA NoCanvasDrawn ==
  Drawn(NoCanvas) /\ EndsLast(NoCanvas) /\ Modelled(NoCanvas)
<1>1. DOMAIN NoCanvas.nodes = {} /\ NoCanvas.edges = {}
  BY DEF NoCanvas
<1> QED BY <1>1, FS_EmptySet DEF Drawn, EndsLast, Modelled

\* In what compiles an end is the last node of the line.
LEMMA AcceptedEndsLast ==
  ASSUME NEW c, Within(c), IsFiniteSet(DOMAIN c.nodes), Accepts(c)
  PROVE  EndsLast(c)
<1>1. PICK order \in ChainOrders(c) : TRUE
  BY CompilerAcceptsLines
<1>2. /\ order \in Seq(DOMAIN c.nodes) /\ ToSet(order) = DOMAIN c.nodes
      /\ Line(c, order)
  BY OrdersAreLines
<1>3. SUFFICES ASSUME NEW e \in c.edges, KindOf(c, e[1]) = "end"
               PROVE  e[2] \notin DOMAIN c.nodes
  BY DEF EndsLast
<1>4. e[1] \in DOMAIN c.nodes /\ e[2] \in Targets(c, e[1])
  BY DEF Within, Targets
<1>5. PICK k \in 1 .. Len(order) : order[k] = e[1]
  BY <1>2, <1>4 DEF ToSet
<1>6. k = Len(order)
  BY <1>2, <1>3, <1>5 DEF Line
<1> QED BY <1>2, <1>4, <1>5, <1>6 DEF Line

\* The two conversions change models and tiers only.
SameShape(c, d) ==
  /\ DOMAIN d.nodes = DOMAIN c.nodes /\ d.edges = c.edges
  /\ \A i \in DOMAIN c.nodes : /\ KindOf(d, i) = KindOf(c, i)
                               /\ d.nodes[i].filled = c.nodes[i].filled

LEMMA ConversionsKeepShape ==
  ASSUME NEW c, Within(c), Drawn(c)
  PROVE  /\ SameShape(c, ToBuilder(c)) /\ Drawn(ToBuilder(c)) /\ Modelled(ToBuilder(c))
         /\ EndsLast(c) => EndsLast(ToBuilder(c))
         /\ Modelled(c) => SameShape(c, FromBuilder(c)) /\ Drawn(FromBuilder(c))
<1> DEFINE D == DOMAIN c.nodes
           d == ToBuilder(c)
           f == FromBuilder(c)
<1>1. /\ DOMAIN d.nodes = D /\ d.edges = c.edges
      /\ \A i \in D : d.nodes[i] =
           IF KindOf(c, i) = "teammate" /\ c.nodes[i].model = NoModel
           THEN [c.nodes[i] EXCEPT !.model = DefaultModel] ELSE c.nodes[i]
  BY DEF ToBuilder, Within
<1>2. /\ DOMAIN f.nodes = D /\ f.edges = c.edges
      /\ \A i \in D : f.nodes[i] =
           IF KindOf(c, i) = "teammate"
           THEN [c.nodes[i] EXCEPT !.tier = TierOf[c.nodes[i].model]] ELSE c.nodes[i]
  BY DEF FromBuilder, Within
<1> HIDE DEF d, f
<1>3. ASSUME NEW i \in D
      PROVE  /\ d.nodes[i] \in Nodes /\ d.nodes[i].kind = c.nodes[i].kind
             /\ d.nodes[i].filled = c.nodes[i].filled
             /\ d.nodes[i].kind = "teammate" => d.nodes[i].model \in Models
  <2>1. c.nodes[i] \in Nodes /\ DefaultModel \in Models
    BY EditorAssumption DEF Drawn
  <2>2. CASE KindOf(c, i) = "teammate" /\ c.nodes[i].model = NoModel
    <3>1. d.nodes[i] = [c.nodes[i] EXCEPT !.model = DefaultModel]
      BY <1>1, <2>2
    <3> QED BY <2>1, <3>1 DEF Nodes
  <2>3. CASE ~(KindOf(c, i) = "teammate" /\ c.nodes[i].model = NoModel)
    <3>1. d.nodes[i] = c.nodes[i]
      BY <1>1, <2>3
    <3> QED BY <2>1, <2>3, <3>1 DEF Nodes, KindOf
  <2> QED BY <2>2, <2>3
<1>4. ASSUME Modelled(c), NEW i \in D
      PROVE  /\ f.nodes[i] \in Nodes /\ f.nodes[i].kind = c.nodes[i].kind
             /\ f.nodes[i].filled = c.nodes[i].filled
  <2>1. c.nodes[i] \in Nodes
    BY DEF Drawn
  <2>2. CASE KindOf(c, i) = "teammate"
    <3>1. f.nodes[i] = [c.nodes[i] EXCEPT !.tier = TierOf[c.nodes[i].model]]
      BY <1>2, <2>2
    <3>2. TierOf[c.nodes[i].model] \in Tiers
      BY <1>4, <2>2 DEF Modelled, Tiers
    <3> QED BY <2>1, <3>1, <3>2 DEF Nodes
  <2>3. CASE KindOf(c, i) # "teammate"
    <3>1. f.nodes[i] = c.nodes[i]
      BY <1>2, <2>3
    <3> QED BY <2>1, <3>1
  <2> QED BY <2>2, <2>3
<1>5. SameShape(c, d) /\ Drawn(d) /\ Modelled(d)
  BY <1>1, <1>3 DEF SameShape, Drawn, Modelled, KindOf
<1>6. EndsLast(c) => EndsLast(d)
  BY <1>5 DEF SameShape, EndsLast, Within
<1>7. Modelled(c) => SameShape(c, f) /\ Drawn(f)
  BY <1>2, <1>4 DEF SameShape, Drawn, KindOf
<1> QED BY <1>5, <1>6, <1>7 DEF d, f

\* A line is one whatever the models.
LEMMA LineHasItsShape ==
  ASSUME NEW c, NEW d, SameShape(c, d), NEW order \in Seq(DOMAIN c.nodes),
         Line(c, order)
  PROVE  Line(d, order)
<1> DEFINE L == Len(order)
<1>1. \A i : Targets(d, i) = Targets(c, i)
  BY DEF Targets, SameShape
<1>2. OfKind(d, "start") = OfKind(c, "start")
  BY DEF OfKind, SameShape
<1>3. L \in Nat /\ L >= 1
  BY DEF Line
<1>4. \A k \in 1 .. L : order[k] \in DOMAIN c.nodes
  OBVIOUS
<1>5. \A k \in 1 .. L : KindOf(d, order[k]) = KindOf(c, order[k])
  BY <1>4 DEF SameShape
<1>6. ASSUME NEW k \in 1 .. L - 1
      PROVE  KindOf(d, order[k]) # "end" /\ Targets(d, order[k]) = {order[k + 1]}
  <2>1. KindOf(c, order[k]) # "end" /\ Targets(c, order[k]) = {order[k + 1]}
    BY DEF Line
  <2>2. k \in 1 .. L
    BY <1>3
  <2> QED BY <1>1, <1>5, <2>1, <2>2
<1>7. Targets(d, order[L]) \cap DOMAIN d.nodes = {}
  BY <1>1 DEF Line, SameShape
<1>8. KindOf(d, order[L]) = "end" \/ Cardinality(Targets(d, order[L])) = 1
  <2>1. KindOf(c, order[L]) = "end" \/ Cardinality(Targets(c, order[L])) = 1
    BY DEF Line
  <2>2. L \in 1 .. L
    BY <1>3
  <2> QED BY <1>1, <1>5, <2>1, <2>2
<1>9. \A j, k \in 1 .. L : order[j] = order[k] => j = k
  BY DEF Line
<1>10. OfKind(d, "start") = {order[1]}
  BY <1>2 DEF Line
<1> QED BY <1>3, <1>6, <1>7, <1>8, <1>9, <1>10 DEF Line

\* The compiler sees the shape and no more.
LEMMA ShapeDecides ==
  ASSUME NEW c, NEW d, Within(c), Within(d), IsFiniteSet(DOMAIN c.nodes),
         SameShape(c, d)
  PROVE  Accepts(c) <=> Accepts(d)
<1>1. SameShape(d, c)
  BY DEF SameShape
<1>2. DOMAIN d.nodes = DOMAIN c.nodes
  BY DEF SameShape
<1>3. ASSUME NEW order \in Seq(DOMAIN c.nodes)
      PROVE  Line(c, order) <=> Line(d, order)
  BY <1>1, <1>2, LineHasItsShape
<1>4. IsFiniteSet(DOMAIN d.nodes) /\ DOMAIN d.nodes = DOMAIN c.nodes
  BY DEF SameShape
<1>5. \A order : order \in ChainOrders(c) <=> order \in ChainOrders(d)
  BY <1>3, <1>4, OrdersAreLines
<1>6. Filled(c) <=> Filled(d)
  BY DEF Filled, SameShape
<1> QED BY <1>4, <1>5, <1>6, CompilerAcceptsLines

\* validateChain against compile_canvas, on a canvas no end of which leads on.
LEMMA ValidatorMirrorsCompiler ==
  ASSUME NEW c, Within(c), IsFiniteSet(DOMAIN c.nodes), EndsLast(c)
  PROVE  Validates(c) <=> Accepts(c) /\ OfKind(c, "end") # {}
<1>1. Accepts(c) /\ OfKind(c, "end") # {} => Validates(c)
  BY DEF Accepts, Validates
<1>2. ASSUME Validates(c) PROVE Accepts(c) /\ OfKind(c, "end") # {}
  <2>1. PICK s \in OfKind(c, "start") : /\ OfKind(c, "start") = {s}
                                        /\ ToSet(Chain(c, s)) = DOMAIN c.nodes
    BY <1>2 DEF Validates, AllOnChain
  <2> DEFINE order == Chain(c, s)
             L == Len(order)
  <2>2. s \in DOMAIN c.nodes
    BY DEF OfKind
  <2>3. Walked(c, s, order)
    BY <2>2, ChainIsStuck
  <2>4. OneNext(c) /\ Filled(c) /\ OfKind(c, "end") # {}
    BY <1>2 DEF Validates
  <2> HIDE DEF order
  <2>5. ToSet(order) = DOMAIN c.nodes
    BY <2>1 DEF order
  <2>6. PICK i \in DOMAIN c.nodes : KindOf(c, i) = "end"
    BY <2>4 DEF OfKind
  <2>7. PICK k \in 1 .. L : order[k] = i
    BY <2>3, <2>5 DEF ToSet, Walked
  <2>8. k = L
    <3>1. L \in Nat /\ \A n \in 1 .. L - 1 : KindOf(c, order[n]) # "end"
      BY <2>3 DEF Walked
    <3>2. k \notin 1 .. L - 1
      BY <2>6, <2>7, <3>1
    <3> QED BY <3>1, <3>2
  <2>9. Targets(c, order[L]) \cap DOMAIN c.nodes = {}
    BY <2>6, <2>7, <2>8 DEF Targets, EndsLast
  <2>10. Line(c, order)
    BY <2>1, <2>3, <2>4, <2>5, <2>9, WholeWalkIsALine
  <2>11. order \in Seq(DOMAIN c.nodes)
    BY <2>3 DEF Walked
  <2> QED BY <2>4, <2>5, <2>10, <2>11, LineCompiles
<1> QED BY <1>1, <1>2
------------------------------------------------------------------------------
LEMMA AddedNodeDraws ==
  ASSUME NEW c, NEW i \in Ids, NEW node \in Nodes, Within(c), Drawn(c),
         i \notin DOMAIN c.nodes
  PROVE  /\ Drawn(WithNode(c, i, node))
         /\ EndsLast(c) => EndsLast(WithNode(c, i, node))
         /\ /\ Modelled(c)
            /\ node.kind = "teammate" => node.model \in Models
            => Modelled(WithNode(c, i, node))
<1> DEFINE d == WithNode(c, i, node)
<1>1. /\ d.edges = c.edges
      /\ DOMAIN d.nodes = DOMAIN c.nodes \cup {i} /\ d.nodes[i] = node
      /\ \A j \in DOMAIN c.nodes : d.nodes[j] = c.nodes[j]
  BY DEF WithNode, Within
<1> HIDE DEF d
<1>2. IsFiniteSet(DOMAIN d.nodes)
  BY <1>1, FS_AddElement DEF Drawn
<1>3. Drawn(d)
  BY <1>1, <1>2 DEF Drawn
<1>4. ASSUME EndsLast(c) PROVE EndsLast(d)
  <2> SUFFICES ASSUME NEW e \in d.edges, KindOf(d, e[1]) = "end"
               PROVE  e[2] \notin DOMAIN d.nodes
    BY DEF EndsLast
  <2>1. e \in c.edges /\ e[1] \in DOMAIN c.nodes /\ e[2] \in DOMAIN c.nodes \cup {Ghost}
    BY <1>1 DEF Within
  <2>2. e[2] \notin DOMAIN c.nodes
    BY <1>1, <1>4, <2>1 DEF EndsLast, KindOf
  <2> QED BY <1>1, <2>1, <2>2, EditorAssumption
<1>5. ASSUME Modelled(c), node.kind = "teammate" => node.model \in Models
      PROVE  Modelled(d)
  BY <1>1, <1>5 DEF Modelled, KindOf
<1> QED BY <1>3, <1>4, <1>5 DEF d

\* A change of one node that is not its kind.
LEMMA DataKeepsShape ==
  ASSUME NEW c, NEW d, NEW i \in DOMAIN c.nodes, NEW node \in Nodes,
         Within(c), Drawn(c), EndsLast(c), Modelled(c),
         d.edges = c.edges, d.nodes = [c.nodes EXCEPT ![i] = node],
         node.kind = KindOf(c, i), node.kind = "teammate" => node.model \in Models
  PROVE  Drawn(d) /\ EndsLast(d) /\ Modelled(d)
<1>1. /\ DOMAIN d.nodes = DOMAIN c.nodes /\ d.nodes[i] = node
      /\ \A j \in DOMAIN c.nodes : /\ j # i => d.nodes[j] = c.nodes[j]
                                   /\ KindOf(d, j) = KindOf(c, j)
  BY DEF KindOf
<1>2. Drawn(d)
  BY <1>1 DEF Drawn
<1>3. EndsLast(d)
  BY <1>1 DEF EndsLast, Within
<1>4. Modelled(d)
  BY <1>1 DEF Modelled, KindOf
<1> QED BY <1>2, <1>3, <1>4

LEMMA EditDraws ==
  ASSUME EditorInv, ShapeInv, NEW g, Within(g), Drawn(g), EndsLast(g), Modelled(g),
         Edited(g)
  PROVE  ShapeInv'
<1>1. graph' = g /\ UNCHANGED <<draft, stored, puts>>
  BY DEF Edited
<1>2. Drawn(timer')
  BY ConversionsKeepShape, NoCanvasDrawn DEF Edited
<1> QED BY <1>1, <1>2 DEF ShapeInv

LEMMA PutDraws ==
  ASSUME ShapeInv, NEW c, Within(c), Drawn(c), Put(c)
  PROVE  Drawn(stored'.canvas) /\ EndsLast(stored'.canvas)
<1>1. CASE Accepts(c)
  <2>1. EndsLast(c)
    BY <1>1, AcceptedEndsLast DEF Drawn
  <2> QED BY <1>1, <2>1 DEF Put
<1>2. CASE ~Accepts(c)
  BY <1>2 DEF Put, ShapeInv
<1> QED BY <1>1, <1>2

LEMMA DraftingDraws == EditorInv /\ ShapeInv /\ Drafting => ShapeInv'
<1> SUFFICES ASSUME EditorInv, ShapeInv, Drafting PROVE ShapeInv'
  OBVIOUS
<1>1. ASSUME NEW i \in Ids, NEW node \in DraftNodes, DraftNode(i, node)
      PROVE  ShapeInv'
  <2>1. node \in Nodes
    BY EditorAssumption
  <2>2. Within(draft) /\ Drawn(draft) /\ i \notin DOMAIN draft.nodes
    BY <1>1 DEF DraftNode, EditorInv, ShapeInv
  <2>3. Drawn(draft')
    BY <1>1, <2>1, <2>2, AddedNodeDraws DEF DraftNode
  <2> QED BY <1>1, <2>3 DEF DraftNode, page, ShapeInv
<1>2. ASSUME NEW i \in Ids, NEW j \in Ids \cup {Ghost}, DraftEdge(i, j)
      PROVE  ShapeInv'
  <2>1. draft'.nodes = draft.nodes
    BY <1>2 DEF DraftEdge, EditorInv, Within
  <2> QED BY <1>2, <2>1 DEF DraftEdge, page, ShapeInv, Drawn
<1>3. CASE SubmitDraft
  <2>1. Within(draft) /\ Drawn(draft)
    BY DEF EditorInv, ShapeInv
  <2>2. Put(draft) /\ draft' = NoCanvas /\ UNCHANGED page
    BY <1>3 DEF SubmitDraft
  <2>3. Drawn(stored'.canvas) /\ EndsLast(stored'.canvas)
    BY <2>1, <2>2, PutDraws
  <2> QED BY <2>2, <2>3, NoCanvasDrawn DEF page, ShapeInv
<1> QED BY <1>1, <1>2, <1>3 DEF Drafting

LEMMA OpeningDraws == EditorInv /\ ShapeInv /\ OpenPage => ShapeInv'
<1> SUFFICES ASSUME EditorInv, ShapeInv, OpenPage PROVE ShapeInv'
  OBVIOUS
<1>1. /\ Drawn(ToBuilder(stored.canvas)) /\ EndsLast(ToBuilder(stored.canvas))
      /\ Modelled(ToBuilder(stored.canvas))
  BY ConversionsKeepShape DEF EditorInv, ShapeInv
<1>2. /\ graph' = ToBuilder(stored.canvas) /\ draft' = NoCanvas
      /\ UNCHANGED <<stored, timer, puts>>
  BY DEF OpenPage
<1> QED BY <1>1, <1>2, NoCanvasDrawn DEF ShapeInv

LEMMA EditingDraws == EditorInv /\ ShapeInv /\ Editing => ShapeInv'
<1> SUFFICES ASSUME EditorInv, ShapeInv, Editing PROVE ShapeInv'
  OBVIOUS
<1>0. Within(graph) /\ Drawn(graph) /\ EndsLast(graph) /\ Modelled(graph)
  BY DEF EditorInv, ShapeInv
<1>1. ASSUME NEW i \in Ids, NEW kind \in Blocks, AddNode(i, kind)
      PROVE  ShapeInv'
  <2> DEFINE node == NewNode(kind)
  <2>1. node \in Nodes /\ node.kind = kind /\ (kind = "teammate" => node.model \in Models)
    <3>1. kind \in NodeKinds /\ DefaultModel \in Models
      BY EditorAssumption DEF NodeKinds
    <3>2. TierOf[DefaultModel] \in Tiers
      BY <3>1 DEF Tiers
    <3> QED BY <3>1, <3>2 DEF NewNode, Nodes
  <2>2. i \notin DOMAIN graph.nodes /\ Edited(WithNode(graph, i, node))
    BY <1>1 DEF AddNode
  <2>3. "kind" \in DOMAIN node
    BY DEF NewNode
  <2> HIDE DEF node
  <2>4. Within(WithNode(graph, i, node))
    BY <1>0, <2>2, <2>3, AddedNode
  <2>5. /\ Drawn(WithNode(graph, i, node)) /\ EndsLast(WithNode(graph, i, node))
        /\ Modelled(WithNode(graph, i, node))
    BY <1>0, <2>1, <2>2, AddedNodeDraws
  <2> QED BY <2>2, <2>4, <2>5, EditDraws
<1>2. ASSUME NEW i \in Ids, NEW j \in Ids, Connect(i, j)
      PROVE  ShapeInv'
  <2>1. PICK g : /\ g = [graph EXCEPT !.edges = {e \in @ : e[1] # i} \cup {<<i, j>>}]
                 /\ Edited(g) /\ {i, j} \subseteq DOMAIN graph.nodes
                 /\ KindOf(graph, i) # "end"
    BY <1>2 DEF Connect, Drawable
  <2>2. /\ DOMAIN g = {"nodes", "edges"} /\ g.nodes = graph.nodes
        /\ g.edges = {e \in graph.edges : e[1] # i} \cup {<<i, j>>}
    BY <1>0, <2>1 DEF Within
  <2>3. Within(g)
    BY <1>0, <2>1, <2>2 DEF Within
  <2>4. Drawn(g) /\ EndsLast(g) /\ Modelled(g)
    BY <1>0, <2>1, <2>2 DEF Drawn, EndsLast, Modelled, KindOf
  <2> QED BY <2>1, <2>3, <2>4, EditDraws
<1>3. ASSUME NEW e \in graph.edges, RemoveEdge(e)
      PROVE  ShapeInv'
  <2>1. PICK g : g = [graph EXCEPT !.edges = @ \ {e}] /\ Edited(g)
    BY <1>3 DEF RemoveEdge
  <2>2. /\ DOMAIN g = {"nodes", "edges"} /\ g.nodes = graph.nodes
        /\ g.edges = graph.edges \ {e}
    BY <1>0, <2>1 DEF Within
  <2>3. Within(g)
    BY <1>0, <2>2 DEF Within
  <2>4. Drawn(g) /\ EndsLast(g) /\ Modelled(g)
    BY <1>0, <2>2 DEF Drawn, EndsLast, Modelled, KindOf
  <2> QED BY <2>1, <2>3, <2>4, EditDraws
<1>4. ASSUME NEW i \in Ids, RemoveNode(i)
      PROVE  ShapeInv'
  <2>1. PICK g : /\ g = [nodes |-> [j \in DOMAIN graph.nodes \ {i} |-> graph.nodes[j]],
                         edges |-> {e \in graph.edges : i \notin {e[1], e[2]}}]
                 /\ Edited(g)
    BY <1>4 DEF RemoveNode
  <2>2. /\ DOMAIN g.nodes = DOMAIN graph.nodes \ {i}
        /\ \A j \in DOMAIN g.nodes : g.nodes[j] = graph.nodes[j]
        /\ g.edges \subseteq graph.edges
        /\ \A e \in g.edges : e[1] \in DOMAIN g.nodes
    BY <1>0, <2>1 DEF Within
  <2>3. Within(g)
    BY <1>0, <2>1 DEF Within
  <2>4. IsFiniteSet(DOMAIN g.nodes)
    BY <1>0, <2>2, FS_RemoveElement DEF Drawn
  <2>5. Drawn(g) /\ EndsLast(g) /\ Modelled(g)
    BY <1>0, <2>2, <2>4 DEF Drawn, EndsLast, Modelled, KindOf
  <2> QED BY <2>1, <2>3, <2>5, EditDraws
<1>5. ASSUME NEW i \in Ids, NEW filled \in BOOLEAN, FillIn(i, filled)
      PROVE  ShapeInv'
  <2>1. PICK g : g = [graph EXCEPT !.nodes[i].filled = filled] /\ Edited(g)
    BY <1>5 DEF FillIn
  <2>2. i \in DOMAIN graph.nodes
    BY <1>5 DEF FillIn
  <2> DEFINE node == [graph.nodes[i] EXCEPT !.filled = filled]
  <2>3. /\ DOMAIN g = {"nodes", "edges"} /\ g.edges = graph.edges
        /\ g.nodes = [graph.nodes EXCEPT ![i] = node]
    BY <1>0, <2>1 DEF Within
  <2>4. /\ node \in Nodes /\ node.kind = KindOf(graph, i)
        /\ node.kind = "teammate" => node.model \in Models
    BY <1>0, <2>2 DEF Drawn, Modelled, Nodes, KindOf
  <2>5. "kind" \in DOMAIN node
    BY <1>0, <2>2 DEF Within
  <2> HIDE DEF node
  <2>6. Within(g)
    BY <1>0, <2>2, <2>3, <2>4, <2>5, DataKeepsKinds DEF EditorInv
  <2>7. Drawn(g) /\ EndsLast(g) /\ Modelled(g)
    BY <1>0, <2>2, <2>3, <2>4, DataKeepsShape
  <2> QED BY <2>1, <2>6, <2>7, EditDraws
<1>6. ASSUME NEW i \in Ids, NEW m \in Models, PickModel(i, m)
      PROVE  ShapeInv'
  <2>1. PICK g : g = [graph EXCEPT !.nodes[i].model = m, !.nodes[i].tier = TierOf[m]] /\ Edited(g)
    BY <1>6 DEF PickModel
  <2>2. i \in DOMAIN graph.nodes
    BY <1>6 DEF PickModel
  <2> DEFINE node == [graph.nodes[i] EXCEPT !.model = m, !.tier = TierOf[m]]
  <2>3. /\ DOMAIN g = {"nodes", "edges"} /\ g.edges = graph.edges
        /\ g.nodes = [graph.nodes EXCEPT ![i] = node]
    BY <1>0, <2>1 DEF Within
  <2>4. /\ node \in Nodes /\ node.kind = KindOf(graph, i)
        /\ node.kind = "teammate" => node.model \in Models
    <3>1. TierOf[m] \in Tiers
      BY DEF Tiers
    <3> QED BY <1>0, <2>2, <3>1 DEF Drawn, Nodes, KindOf
  <2>5. "kind" \in DOMAIN node
    BY <1>0, <2>2 DEF Within
  <2> HIDE DEF node
  <2>6. Within(g)
    BY <1>0, <2>2, <2>3, <2>4, <2>5, DataKeepsKinds DEF EditorInv
  <2>7. Drawn(g) /\ EndsLast(g) /\ Modelled(g)
    BY <1>0, <2>2, <2>3, <2>4, DataKeepsShape
  <2> QED BY <2>1, <2>6, <2>7, EditDraws
<1> QED BY <1>1, <1>2, <1>3, <1>4, <1>5, <1>6 DEF Editing

LEMMA SavingDraws == EditorInv /\ ShapeInv /\ Saving => ShapeInv'
<1> SUFFICES ASSUME EditorInv, ShapeInv, NEW k \in Slots,
                    \/ TimerFires(k) \/ ClickRun(k) \/ HandlePut(k)
                    \/ LosePut(k) \/ AnswerOk(k) \/ AnswerError(k)
             PROVE  ShapeInv'
  BY DEF Saving
<1>0. /\ \A j \in Slots : "canvas" \in DOMAIN puts[j] /\ Drawn(puts[j].canvas)
      /\ DOMAIN puts = Slots
  BY DEF EditorInv, PutsWithin, ShapeInv
<1>1. ASSUME NEW from, NEW c, Drawn(c), Send(k, from, c)
      PROVE  \A j \in Slots : Drawn(puts'[j].canvas)
  BY <1>0, <1>1 DEF Send, FreePut
<1>2. CASE TimerFires(k)
  <2>1. Drawn(timer)
    BY DEF ShapeInv
  <2>2. \A j \in Slots : Drawn(puts'[j].canvas)
    BY <1>1, <1>2, <2>1 DEF TimerFires
  <2> QED BY <1>2, <2>2, NoCanvasDrawn DEF TimerFires, ShapeInv
<1>3. CASE ClickRun(k)
  <2>1. Drawn(FromBuilder(graph))
    BY ConversionsKeepShape DEF EditorInv, ShapeInv
  <2>2. \A j \in Slots : Drawn(puts'[j].canvas)
    BY <1>1, <1>3, <2>1 DEF ClickRun
  <2> QED BY <1>3, <2>2 DEF ClickRun, ShapeInv
<1>4. CASE HandlePut(k)
  <2>1. Within(puts[k].canvas) /\ Drawn(puts[k].canvas) /\ Put(puts[k].canvas)
    BY <1>4 DEF HandlePut, EditorInv, PutsWithin, ShapeInv
  <2>2. \A j \in Slots : Drawn(puts'[j].canvas)
    <3>1. PICK phase, steps :
            puts' = [puts EXCEPT ![k].phase = phase, ![k].steps = steps]
      BY <1>4 DEF HandlePut
    <3>2. \A j \in Slots : puts'[j].canvas = puts[j].canvas
      BY <1>0, <3>1
    <3> QED BY <1>0, <3>2
  <2>3. Drawn(stored'.canvas) /\ EndsLast(stored'.canvas)
    BY <2>1, PutDraws
  <2> QED BY <1>4, <2>2, <2>3 DEF HandlePut, ShapeInv
<1>5. CASE LosePut(k)
  <2>1. \A j \in Slots : puts'[j].canvas = puts[j].canvas
    BY <1>0, <1>5 DEF LosePut
  <2> QED BY <1>5, <2>1 DEF LosePut, ShapeInv
<1>6. CASE AnswerOk(k) \/ AnswerError(k)
  <2>1. /\ puts' = [puts EXCEPT ![k] = FreePut]
        /\ UNCHANGED <<draft, stored, graph, timer>>
    BY <1>6 DEF AnswerOk, AnswerError
  <2>2. \A j \in Slots : Drawn(puts'[j].canvas)
    BY <1>0, <2>1, NoCanvasDrawn DEF FreePut
  <2> QED BY <2>1, <2>2 DEF ShapeInv
<1> QED BY <1>2, <1>3, <1>4, <1>5, <1>6

LEMMA InitDraws == Init => ShapeInv
BY NoCanvasDrawn DEF Init, FreePut, ShapeInv

LEMMA NextDraws == EditorInv /\ ShapeInv /\ [Next]_vars => ShapeInv'
<1> SUFFICES ASSUME EditorInv, ShapeInv, [Next]_vars PROVE ShapeInv'
  OBVIOUS
<1>1. CASE StartRun \/ StartRunFails \/ UNCHANGED vars
  <2>1. UNCHANGED <<draft, stored, graph, timer, puts>>
    BY <1>1 DEF StartRun, StartRunFails, vars
  <2> QED BY <2>1 DEF ShapeInv
<1> QED BY <1>1, DraftingDraws, OpeningDraws, EditingDraws, SavingDraws DEF Next

------------------------------------------------------------------------------
\* Whatever canvas a client drafts, compile_canvas accepts it exactly if its nodes
\* are one line from the start and filled in, and the steps are the line's.
THEOREM CompilerIsExact == Spec => []AcceptsExactlyChains
<1>1. Init => EditorInv /\ ShapeInv
  BY InitEditor, InitDraws
<1>2. EditorInv /\ ShapeInv /\ [Next]_vars => (EditorInv /\ ShapeInv)'
  BY NextKeeps, NextDraws
<1>3. EditorInv /\ ShapeInv => AcceptsExactlyChains
  BY CompilerAcceptsLines DEF EditorInv, ShapeInv, Drawn, AcceptsExactlyChains
<1> QED BY <1>1, <1>2, <1>3, PTL DEF Spec

\* On every graph the page can show, whatever playbook it opened, validateChain lets
\* through what compile_canvas accepts, but for the graphs without an End.
THEOREM ValidatorMirrors == Spec => []MirrorAgrees
<1>1. Init => EditorInv /\ ShapeInv
  BY InitEditor, InitDraws
<1>2. EditorInv /\ ShapeInv /\ [Next]_vars => (EditorInv /\ ShapeInv)'
  BY NextKeeps, NextDraws
<1>3. ASSUME EditorInv, ShapeInv PROVE MirrorAgrees
  <2>1. /\ Within(graph) /\ Drawn(graph) /\ EndsLast(graph) /\ Modelled(graph)
        /\ IsFiniteSet(DOMAIN graph.nodes)
    BY <1>3 DEF EditorInv, ShapeInv, Drawn
  <2>2. Accepts(graph) <=> Accepts(FromBuilder(graph))
    BY <2>1, ConversionsKeepEdges, ConversionsKeepShape, ShapeDecides
  <2> QED BY <2>1, <2>2, ValidatorMirrorsCompiler DEF MirrorAgrees
<1> QED BY <1>1, <1>2, <1>3, PTL DEF Spec
------------------------------------------------------------------------------
(***************************************************************************)
(* A user who waits for answers: while anything is in flight the graph on  *)
(* the screen does not change, so all that is sent, accepted or about to   *)
(* be executed is that one graph.                                          *)
(***************************************************************************)
OnScreen == FromBuilder(graph)

CalmInv ==
  /\ DOMAIN run = {"phase", "dock", "executed"}
  /\ ~open => /\ \A k \in Slots : puts[k].phase = "free"
              /\ timer = NoCanvas /\ run.phase = "none"
  /\ timer \in {NoCanvas, OnScreen}
  /\ \A k \in Slots : puts[k].phase # "free" => puts[k].canvas = OnScreen
  /\ \A k \in Slots : puts[k].phase = "accepted" =>
       stored.canvas = OnScreen /\ puts[k].steps = Steps(OnScreen)
  /\ \A k \in Slots : puts[k].phase = "accepted" => stored.steps = Steps(OnScreen)
  /\ run.phase = "starting" =>
       run.dock = Steps(OnScreen) /\ stored.steps = Steps(OnScreen)
  /\ DockMatchesRun

\* What an answer that arrives makes of saved is what the row holds; in between, only
\* a playbook whose answer is still on its way is newer than saved.
SavedInv ==
  open /\ (\A k \in Slots : puts[k].phase # "accepted") =>
    FromBuilder(ToBuilder(stored.canvas)) = saved

\* Saving what is on the screen and opening it again changes nothing.
LEMMA ReopeningIsExact ==
  ASSUME NEW g, Within(g), Drawn(g), Modelled(g)
  PROVE  FromBuilder(ToBuilder(FromBuilder(g))) = FromBuilder(g)
<1> DEFINE D == DOMAIN g.nodes
           f == FromBuilder(g)
           Back(c) == [i \in DOMAIN c.nodes |->
                         IF KindOf(c, i) = "teammate"
                         THEN [c.nodes[i] EXCEPT !.tier = TierOf[c.nodes[i].model]]
                         ELSE c.nodes[i]]
<1>1. /\ DOMAIN f = {"nodes", "edges"} /\ f = [x \in {"nodes", "edges"} |-> f[x]]
      /\ f.nodes = Back(g) /\ FromBuilder(f) = [f EXCEPT !.nodes = Back(f)]
  BY DEF FromBuilder, Within
<1>2. DOMAIN f.nodes = D
  BY <1>1
<1>3. ASSUME NEW i \in D
      PROVE  /\ KindOf(f, i) = KindOf(g, i) /\ f.nodes[i].model = g.nodes[i].model
             /\ KindOf(g, i) = "teammate" => f.nodes[i].tier = TierOf[g.nodes[i].model]
             /\ f.nodes[i] \in Nodes
  <2>1. g.nodes[i] \in Nodes
    BY DEF Drawn
  <2>2. f.nodes[i] = IF KindOf(g, i) = "teammate"
                     THEN [g.nodes[i] EXCEPT !.tier = TierOf[g.nodes[i].model]]
                     ELSE g.nodes[i]
    BY <1>1
  <2>3. KindOf(g, i) = "teammate" => TierOf[g.nodes[i].model] \in Tiers
    BY DEF Modelled, Tiers
  <2> QED BY <2>1, <2>2, <2>3 DEF Nodes, KindOf
<1> HIDE DEF f
<1>4. ToBuilder(f) = f
  <2>1. ASSUME NEW i \in DOMAIN f.nodes
        PROVE  ~(KindOf(f, i) = "teammate" /\ f.nodes[i].model = NoModel)
    BY <1>2, <1>3, EditorAssumption DEF Modelled
  <2>2. f.nodes = [i \in DOMAIN f.nodes |-> f.nodes[i]]
    BY <1>1
  <2> DEFINE e == [i \in DOMAIN f.nodes |->
                    IF KindOf(f, i) = "teammate" /\ f.nodes[i].model = NoModel
                    THEN [f.nodes[i] EXCEPT !.model = DefaultModel] ELSE f.nodes[i]]
  <2>3. ToBuilder(f) = [f EXCEPT !.nodes = e]
    BY DEF ToBuilder
  <2>4. e = f.nodes
    BY <2>1, <2>2
  <2> HIDE DEF e
  <2> QED BY <1>1, <2>3, <2>4
<1>5. Back(f) = f.nodes
  <2>1. ASSUME NEW i \in D, KindOf(f, i) = "teammate"
        PROVE  [f.nodes[i] EXCEPT !.tier = TierOf[f.nodes[i].model]] = f.nodes[i]
    <3>1. f.nodes[i].tier = TierOf[f.nodes[i].model]
      BY <1>3, <2>1
    <3>2. f.nodes[i] \in Nodes
      BY <1>3
    <3> QED BY <3>1, <3>2 DEF Nodes
  <2>2. f.nodes = [i \in D |-> f.nodes[i]]
    BY <1>1, <1>2
  <2> QED BY <1>2, <2>1, <2>2
<1>6. FromBuilder(f) = f
  <2> HIDE DEF Back
  <2> QED BY <1>1, <1>5
<1> QED BY <1>4, <1>6 DEF f

\* The graph is edited only while nothing is in flight.
LEMMA CalmEdits ==
  ASSUME Calm, EditorInv, CalmInv, NEW g, Edited(g)
  PROVE  CalmInv'
<1>1. /\ open /\ Quiet /\ graph' = g
      /\ timer' \in {NoCanvas, FromBuilder(g)}
      /\ UNCHANGED <<draft, stored, open, saved, puts, run>>
  BY DEF Edited
<1>2. \A k \in Slots : puts'[k].phase = "free"
  BY <1>1 DEF Quiet
<1>3. run'.phase # "starting"
  BY <1>1 DEF Quiet
<1> QED BY <1>1, <1>2, <1>3 DEF CalmInv, OnScreen, DockMatchesRun

LEMMA EditingEdits == Editing => \E g : Edited(g)
BY DEF Editing, AddNode, Connect, RemoveEdge, RemoveNode, FillIn, PickModel

\* A request of the page sends what is on the screen.
LEMMA CalmSends ==
  ASSUME EditorInv, CalmInv, NEW k \in Slots, NEW from, Send(k, from, OnScreen),
         UNCHANGED <<graph, stored>>
  PROVE  /\ \A j \in Slots : /\ puts'[j].phase # "free" => puts'[j].canvas = OnScreen'
                             /\ puts'[j].phase = "accepted" =>
                                  puts[j].phase = "accepted" /\ puts'[j] = puts[j]
<1>1. DOMAIN puts = Slots
  BY DEF EditorInv, PutsWithin
<1>2. puts' = [puts EXCEPT ![k] =
                 [FreePut EXCEPT !.phase = "sent", !.from = from, !.canvas = OnScreen]]
  BY DEF Send
<1>3. OnScreen' = OnScreen
  BY DEF OnScreen
<1> QED BY <1>1, <1>2, <1>3 DEF FreePut, CalmInv

LEMMA CalmSaves == Calm /\ EditorInv /\ CalmInv /\ Saving => CalmInv'
<1> SUFFICES ASSUME Calm, EditorInv, CalmInv, NEW k \in Slots,
                    \/ TimerFires(k) \/ ClickRun(k) \/ HandlePut(k)
                    \/ LosePut(k) \/ AnswerOk(k) \/ AnswerError(k)
             PROVE  CalmInv'
  BY DEF Saving
<1>0. /\ DOMAIN puts = Slots
      /\ \A j \in Slots : DOMAIN puts[j] = {"phase", "from", "canvas", "steps"}
      /\ DOMAIN run = {"phase", "dock", "executed"}
      /\ FreePut.phase = "free"
  BY DEF EditorInv, PutsWithin, CalmInv, FreePut
<1>1. CASE TimerFires(k)
  <2>1. /\ Send(k, "timer", OnScreen) /\ timer' = NoCanvas /\ timer # NoCanvas
        /\ UNCHANGED <<draft, stored, open, graph, saved, run>>
    BY <1>1 DEF TimerFires, CalmInv
  <2>2. open
    BY <2>1 DEF CalmInv
  <2>3. OnScreen' = OnScreen
    BY <2>1 DEF OnScreen
  <2>4. \A j \in Slots : /\ puts'[j].phase # "free" => puts'[j].canvas = OnScreen'
                         /\ puts'[j].phase = "accepted" =>
                              puts[j].phase = "accepted" /\ puts'[j] = puts[j]
    BY <2>1, CalmSends
  <2> QED BY <2>1, <2>2, <2>3, <2>4 DEF CalmInv, DockMatchesRun
<1>2. CASE ClickRun(k)
  <2>1. /\ Send(k, "run", OnScreen) /\ open
        /\ UNCHANGED <<draft, stored, open, graph, saved, timer, run>>
    BY <1>2 DEF ClickRun, OnScreen
  <2>3. OnScreen' = OnScreen
    BY <2>1 DEF OnScreen
  <2>4. \A j \in Slots : /\ puts'[j].phase # "free" => puts'[j].canvas = OnScreen'
                         /\ puts'[j].phase = "accepted" =>
                              puts[j].phase = "accepted" /\ puts'[j] = puts[j]
    BY <2>1, CalmSends
  <2> QED BY <2>1, <2>3, <2>4 DEF CalmInv, DockMatchesRun
<1>3. CASE HandlePut(k)
  <2> DEFINE c == puts[k].canvas
  <2>1. /\ puts[k].phase = "sent" /\ Put(c)
        /\ puts' = [puts EXCEPT ![k].phase = IF Accepts(c) THEN "accepted" ELSE "failed",
                                ![k].steps = IF Accepts(c) THEN Steps(c) ELSE <<>>]
        /\ UNCHANGED <<draft, open, graph, saved, timer, run>>
    BY <1>3 DEF HandlePut
  <2>2. c = OnScreen /\ open /\ OnScreen' = OnScreen
    BY <2>1 DEF CalmInv, OnScreen
  <2> HIDE DEF c
  <2>3. /\ \A j \in Slots \ {k} : puts'[j] = puts[j]
        /\ puts'[k].canvas = puts[k].canvas
        /\ puts'[k].phase = IF Accepts(c) THEN "accepted" ELSE "failed"
        /\ puts'[k].steps = IF Accepts(c) THEN Steps(c) ELSE <<>>
    BY <1>0, <2>1
  <2>4. CASE Accepts(c)
    <3>1. stored'.canvas = OnScreen /\ stored'.steps = Steps(OnScreen)
      BY <2>1, <2>2, <2>4 DEF Put
    <3>2. puts'[k].phase = "accepted" /\ puts'[k].steps = Steps(OnScreen)
      BY <2>2, <2>3, <2>4
    <3>3. /\ UNCHANGED <<draft, open, graph, saved, timer, run>>
          /\ puts'[k].canvas = OnScreen /\ \A j \in Slots \ {k} : puts'[j] = puts[j]
      BY <2>1, <2>2, <2>3 DEF c
    <3>4. ASSUME NEW j \in Slots
          PROVE  /\ puts'[j].phase # "free" => puts'[j].canvas = OnScreen'
                 /\ puts'[j].phase = "accepted" => puts'[j].steps = Steps(OnScreen')
      BY <2>2, <3>2, <3>3 DEF CalmInv
    <3> QED BY <2>2, <3>1, <3>3, <3>4 DEF CalmInv, DockMatchesRun
  <2>5. CASE ~Accepts(c)
    <3>1. stored' = stored
      BY <2>1, <2>5 DEF Put
    <3>2. puts'[k].phase = "failed"
      BY <2>3, <2>5
    <3> QED BY <2>1, <2>2, <2>3, <3>1, <3>2 DEF CalmInv, DockMatchesRun, c
  <2> QED BY <2>4, <2>5
<1>4. CASE LosePut(k)
  <2>1. /\ puts' = [puts EXCEPT ![k].phase = "failed", ![k].steps = <<>>]
        /\ puts[k].phase \in Lossy
        /\ UNCHANGED <<draft, stored, open, graph, saved, timer, run>>
    BY <1>4 DEF LosePut
  <2>2. puts[k].phase # "free"
    BY <2>1, EditorAssumption
  <2>3. OnScreen' = OnScreen /\ open
    BY <2>1, <2>2 DEF OnScreen, CalmInv
  <2>4. /\ \A j \in Slots \ {k} : puts'[j] = puts[j]
        /\ puts'[k].canvas = puts[k].canvas /\ puts'[k].phase = "failed"
    BY <1>0, <2>1
  <2> QED BY <2>1, <2>2, <2>3, <2>4 DEF CalmInv, DockMatchesRun
<1>5. CASE AnswerOk(k)
  <2>1. /\ puts[k].phase = "accepted" /\ puts' = [puts EXCEPT ![k] = FreePut]
        /\ run' = IF puts[k].from = "run"
                  THEN [run EXCEPT !.phase = "starting", !.dock = puts[k].steps] ELSE run
        /\ UNCHANGED <<draft, stored, open, graph, timer>>
    BY <1>5 DEF AnswerOk
  <2>2. OnScreen' = OnScreen /\ open
    BY <2>1 DEF OnScreen, CalmInv
  <2>3. puts'[k].phase = "free" /\ \A j \in Slots \ {k} : puts'[j] = puts[j]
    BY <1>0, <2>1
  <2>4. stored.steps = Steps(OnScreen) /\ puts[k].steps = Steps(OnScreen)
    BY <2>1 DEF CalmInv
  <2>5. CASE puts[k].from = "run"
    <3>1. /\ run'.phase = "starting" /\ run'.dock = Steps(OnScreen)
          /\ DOMAIN run' = {"phase", "dock", "executed"}
      BY <1>0, <2>1, <2>4, <2>5
    <3> QED BY <2>1, <2>2, <2>3, <2>4, <3>1 DEF CalmInv, DockMatchesRun
  <2>6. CASE puts[k].from # "run"
    <3>1. run' = run
      BY <2>1, <2>6
    <3> QED BY <2>1, <2>2, <2>3, <3>1 DEF CalmInv, DockMatchesRun
  <2> QED BY <2>5, <2>6
<1>6. CASE AnswerError(k)
  <2>1. /\ puts[k].phase = "failed" /\ puts' = [puts EXCEPT ![k] = FreePut]
        /\ UNCHANGED <<draft, stored, open, graph, timer, run>>
    BY <1>6 DEF AnswerError
  <2>2. OnScreen' = OnScreen /\ open
    BY <2>1 DEF OnScreen, CalmInv
  <2>3. puts'[k].phase = "free" /\ \A j \in Slots \ {k} : puts'[j] = puts[j]
    BY <1>0, <2>1
  <2> QED BY <1>0, <2>1, <2>2, <2>3 DEF CalmInv, DockMatchesRun
<1> QED BY <1>1, <1>2, <1>3, <1>4, <1>5, <1>6

LEMMA InitCalm == Init => CalmInv
<1> SUFFICES ASSUME Init PROVE CalmInv
  OBVIOUS
<1>1. /\ run.phase = "none" /\ DOMAIN run = {"phase", "dock", "executed"}
      /\ timer = NoCanvas /\ \A k \in Slots : puts[k].phase = "free"
  BY DEF Init, NoRun, FreePut
<1> QED BY <1>1 DEF CalmInv, DockMatchesRun

LEMMA NextCalm == Calm /\ EditorInv /\ CalmInv /\ [Next]_vars => CalmInv'
<1> SUFFICES ASSUME Calm, EditorInv, CalmInv, [Next]_vars PROVE CalmInv'
  OBVIOUS
<1>1. CASE Drafting \/ OpenPage
  <2>1. ~open /\ UNCHANGED <<timer, puts, run>>
    BY <1>1 DEF Drafting, DraftNode, DraftEdge, SubmitDraft, OpenPage, page
  <2>2. /\ run.phase = "none" /\ timer = NoCanvas
        /\ \A k \in Slots : puts[k].phase = "free"
    BY <2>1 DEF CalmInv
  <2> QED BY <2>1, <2>2 DEF CalmInv, DockMatchesRun
<1>2. CASE Editing
  BY <1>2, EditingEdits, CalmEdits
<1>3. CASE Saving
  BY <1>3, CalmSaves
<1>4. CASE StartRun
  <2>1. /\ run.phase = "starting" /\ UNCHANGED <<stored, open, graph, timer, puts>>
        /\ run' = [run EXCEPT !.phase = "started", !.executed = stored.steps]
    BY <1>4 DEF StartRun
  <2>2. /\ run'.phase = "started" /\ run'.dock = run.dock /\ run'.executed = stored.steps
        /\ DOMAIN run' = {"phase", "dock", "executed"}
    BY <2>1 DEF CalmInv
  <2>3. run.dock = stored.steps /\ open /\ OnScreen' = OnScreen
    BY <2>1 DEF CalmInv, OnScreen
  <2> QED BY <2>1, <2>2, <2>3 DEF CalmInv, DockMatchesRun
<1>5. CASE StartRunFails \/ UNCHANGED vars
  <2>1. /\ run' \in {[run EXCEPT !.phase = "failed"], run}
        /\ UNCHANGED <<stored, open, graph, timer, puts>>
        /\ ~open => run' = run
    BY <1>5 DEF StartRunFails, CalmInv, vars
  <2>2. OnScreen' = OnScreen
    BY <2>1 DEF OnScreen
  <2>3. /\ run' = run \/ run'.phase = "failed"
        /\ DOMAIN run' = {"phase", "dock", "executed"}
    BY <2>1 DEF CalmInv
  <2> QED BY <2>1, <2>2, <2>3 DEF CalmInv, DockMatchesRun
<1> QED BY <1>1, <1>2, <1>3, <1>4, <1>5 DEF Next

LEMMA NextSaved ==
  "accepted" \notin Lossy /\ EditorInv /\ ShapeInv /\ CalmInv /\ SavedInv /\ [Next]_vars
    => SavedInv'
<1> SUFFICES ASSUME "accepted" \notin Lossy, EditorInv, ShapeInv, CalmInv, SavedInv,
                    [Next]_vars, open', \A k \in Slots : puts'[k].phase # "accepted"
             PROVE  FromBuilder(ToBuilder(stored'.canvas)) = saved'
  BY DEF SavedInv
<1>0. /\ DOMAIN puts = Slots
      /\ \A j \in Slots : DOMAIN puts[j] = {"phase", "from", "canvas", "steps"}
  BY DEF EditorInv, PutsWithin
<1>1. CASE Drafting
  BY <1>1 DEF Drafting, DraftNode, DraftEdge, SubmitDraft, page
<1>2. CASE OpenPage
  BY <1>2 DEF OpenPage
<1>3. ASSUME open, UNCHANGED <<stored, saved>>,
             \A k \in Slots : puts[k].phase = "accepted" => puts'[k].phase = "accepted"
      PROVE  FromBuilder(ToBuilder(stored'.canvas)) = saved'
  <2>1. \A k \in Slots : puts[k].phase # "accepted"
    BY <1>3
  <2> QED BY <1>3, <2>1 DEF SavedInv
<1>4. CASE Editing
  <2>1. PICK g : Edited(g)
    BY <1>4, EditingEdits
  <2>2. open /\ UNCHANGED <<stored, saved, puts>>
    BY <2>1 DEF Edited
  <2> QED BY <1>3, <2>2
<1>5. CASE StartRun \/ StartRunFails \/ UNCHANGED vars
  <2>1. UNCHANGED <<stored, saved, puts, open>>
    BY <1>5 DEF StartRun, StartRunFails, vars
  <2> QED BY <1>3, <2>1
<1>6. ASSUME NEW k \in Slots, TimerFires(k) \/ ClickRun(k)
      PROVE  FromBuilder(ToBuilder(stored'.canvas)) = saved'
  <2>1. PICK from, c : Send(k, from, c) /\ UNCHANGED <<stored, saved, open>>
    BY <1>6 DEF TimerFires, ClickRun
  <2>2. /\ puts[k].phase = "free"
        /\ \A j \in Slots \ {k} : puts'[j] = puts[j]
    BY <1>0, <2>1 DEF Send
  <2> QED BY <1>3, <2>1, <2>2
<1>7. ASSUME NEW k \in Slots, HandlePut(k)
      PROVE  FromBuilder(ToBuilder(stored'.canvas)) = saved'
  <2>1. /\ puts[k].phase = "sent" /\ Put(puts[k].canvas) /\ UNCHANGED <<open, saved>>
    BY <1>7 DEF HandlePut
  <2>2. /\ \A j \in Slots \ {k} : puts'[j] = puts[j]
        /\ puts'[k].phase = IF Accepts(puts[k].canvas) THEN "accepted" ELSE "failed"
    BY <1>0, <1>7 DEF HandlePut
  <2>3. stored' = stored
    BY <2>1, <2>2 DEF Put
  <2> QED BY <1>3, <2>1, <2>2, <2>3
<1>8. ASSUME NEW k \in Slots, LosePut(k) \/ AnswerError(k)
      PROVE  FromBuilder(ToBuilder(stored'.canvas)) = saved'
  <2>1. puts[k].phase # "accepted" /\ UNCHANGED <<stored, saved, open>>
    BY <1>8 DEF LosePut, AnswerError
  <2>2. \A j \in Slots \ {k} : puts'[j] = puts[j]
    BY <1>0, <1>8 DEF LosePut, AnswerError
  <2> QED BY <1>3, <2>1, <2>2
<1>9. ASSUME NEW k \in Slots, AnswerOk(k)
      PROVE  FromBuilder(ToBuilder(stored'.canvas)) = saved'
  <2>1. puts[k].phase = "accepted" /\ saved' = puts[k].canvas /\ stored' = stored
    BY <1>9 DEF AnswerOk
  <2>2. stored.canvas = OnScreen /\ puts[k].canvas = OnScreen
    BY <2>1 DEF CalmInv
  <2>3. FromBuilder(ToBuilder(OnScreen)) = OnScreen
    BY ReopeningIsExact DEF OnScreen, EditorInv, ShapeInv
  <2> QED BY <2>1, <2>2, <2>3
<1> QED BY <1>1, <1>2, <1>4, <1>5, <1>6, <1>7, <1>8, <1>9 DEF Next, Saving

\* For a user who waits for answers, the dock labels a started run with the steps it
\* executes (runNow): no other save comes between the one it was started from and its
\* start, and edits, saves and clicks whose save fails leave both alone.  This lasts until
\* a later save of runNow is answered: until its run starts, and for good if that
\* fails, the dock has the new steps and still the earlier run.
THEOREM DockShowsTheRun == Calm => (Spec => []DockMatchesRun)
<1> SUFFICES ASSUME Calm PROVE Spec => []DockMatchesRun
  OBVIOUS
<1>1. Init => EditorInv /\ CalmInv
  BY InitEditor, InitCalm
<1>2. EditorInv /\ CalmInv /\ [Next]_vars => (EditorInv /\ CalmInv)'
  BY NextKeeps, NextCalm
<1>3. CalmInv => DockMatchesRun
  BY DEF CalmInv
<1> QED BY <1>1, <1>2, <1>3, PTL DEF Spec

\* For such a user, and when no answer is lost, a canvas the page takes for saved
\* (lastSavedRef) is the one the server would return.
THEOREM SavedIsStored ==
  Calm /\ "accepted" \notin Lossy => (Spec => []BelievedSavedIsSaved)
<1> SUFFICES ASSUME Calm, "accepted" \notin Lossy PROVE Spec => []BelievedSavedIsSaved
  OBVIOUS
<1> DEFINE Inv == EditorInv /\ ShapeInv /\ CalmInv /\ SavedInv
<1>1. Init => Inv
  BY InitEditor, InitDraws, InitCalm DEF Init, SavedInv
<1>2. Inv /\ [Next]_vars => Inv'
  BY NextKeeps, NextDraws, NextCalm, NextSaved
<1>3. Inv => BelievedSavedIsSaved
  BY DEF SavedInv, BelievedSavedIsSaved, Quiet
<1> QED BY <1>1, <1>2, <1>3, PTL DEF Spec
==============================================================================
