-------------------------- MODULE LimitOrderBookProofs --------------------------
(***************************************************************************)
(* Proofs about LimitOrderBook, for every set of order ids, prices and     *)
(* quantities, every range of valid prices and every size of the pool.     *)
(***************************************************************************)
EXTENDS LimitOrderBook, FiniteSetTheorems, SequenceTheorems, WellFoundedInduction, TLAPS

-----------------------------------------------------------------------------
(* Induction over the natural numbers, as facts about sets of numbers. *)

(* Every set of natural numbers that is not empty has a least element. *)
LEMMA LeastOf ==
  ASSUME NEW T \in SUBSET Nat, T # {}
  PROVE  \E x \in T : \A y \in T : x <= y
<1> DEFINE R == {p \in Nat \X Nat : p[1] < p[2]}
<1>1. IsWellFoundedOn(R, Nat)
  BY NatLessThanWellFounded DEF OpToRel
<1>2. \A a, b \in Nat : a < b => <<a, b>> \in R
  OBVIOUS
<1> HIDE DEF R
<1>3. PICK x \in T : \A y \in T : ~(<<y, x>> \in R)
  BY <1>1, WFMin
<1>4. ASSUME NEW y \in T PROVE x <= y
  <2>1. x \in Nat /\ y \in Nat
    OBVIOUS
  <2>2. ~(y < x)
    BY <1>2, <1>3, <2>1
  <2> QED
    BY <2>1, <2>2
<1> QED
  BY <1>4

(* A set with 0 and with the successor of each of its numbers has them all. *)
LEMMA SetInduction ==
  ASSUME NEW T, 0 \in T, \A n \in Nat : n \in T => n + 1 \in T
  PROVE  Nat \subseteq T
<1> DEFINE U == {n \in Nat : n \notin T}
<1> SUFFICES ASSUME U # {} PROVE FALSE
  OBVIOUS
<1>1. PICK x \in U : \A y \in U : x <= y
  BY LeastOf
<1>2. x # 0 /\ x - 1 \in Nat /\ x - 1 \notin U
  BY <1>1
<1> QED
  BY <1>2

-----------------------------------------------------------------------------
(* Sums over sets of slots. *)

(* h gives the sum of f over each subset of D. *)
IsSum(h, f, D) ==
  /\ h \in [SUBSET D -> Nat]
  /\ h[{}] = 0
  /\ \A S \in SUBSET D : \A x \in S : h[S] = f[x] + h[S \ {x}]

LEMMA SumExists ==
  ASSUME NEW N \in Nat, NEW f \in [0 .. N - 1 -> Nat]
  PROVE  \E h : IsSum(h, f, 0 .. N - 1)
<1> DEFINE T == {n \in Nat : \A g \in [0 .. n - 1 -> Nat] : \E h : IsSum(h, g, 0 .. n - 1)}
<1>1. 0 \in T
  <2>1. ASSUME NEW g PROVE IsSum([S \in {{}} |-> 0], g, 0 .. 0 - 1)
    <3>1. SUBSET (0 .. 0 - 1) = {{}}
      OBVIOUS
    <3> QED
      BY <3>1 DEF IsSum
  <2> QED
    BY <2>1
<1>2. ASSUME NEW n \in Nat, n \in T PROVE n + 1 \in T
  <2> SUFFICES ASSUME NEW g \in [0 .. n -> Nat]
               PROVE  \E h : IsSum(h, g, 0 .. n)
    OBVIOUS
  <2> DEFINE g0 == [x \in 0 .. n - 1 |-> g[x]]
  <2>1. g0 \in [0 .. n - 1 -> Nat]
    OBVIOUS
  <2>2. PICK h0 : IsSum(h0, g0, 0 .. n - 1)
    BY <1>2, <2>1
  <2> DEFINE h == [S \in SUBSET (0 .. n) |-> h0[S \ {n}] + IF n \in S THEN g[n] ELSE 0]
  <2>3. \A S \in SUBSET (0 .. n) : S \ {n} \in SUBSET (0 .. n - 1)
    OBVIOUS
  <2>4. h \in [SUBSET (0 .. n) -> Nat]
    BY <2>2, <2>3, SMTT(30) DEF IsSum
  <2>5. h[{}] = 0
    BY <2>2 DEF IsSum
  <2>6. ASSUME NEW S \in SUBSET (0 .. n), NEW x \in S
        PROVE  h[S] = g[x] + h[S \ {x}]
    <3>1. S \ {x} \in SUBSET (0 .. n) /\ n \in 0 .. n /\ x \in 0 .. n
      OBVIOUS
    <3>2. /\ h[S] = h0[S \ {n}] + IF n \in S THEN g[n] ELSE 0
          /\ h[S \ {x}] = h0[(S \ {x}) \ {n}] + IF n \in S \ {x} THEN g[n] ELSE 0
      BY <3>1
    <3> HIDE DEF h
    <3>3. CASE x = n
      <4>1. (S \ {x}) \ {n} = S \ {n} /\ n \in S /\ n \notin S \ {x}
        BY <3>3
      <4>2. h0[S \ {n}] \in Nat /\ g[n] \in Nat
        BY <2>2, <2>3, <3>1 DEF IsSum
      <4>3. h[S] = h0[S \ {n}] + g[n] /\ h[S \ {x}] = h0[S \ {n}] + 0
        BY <3>2, <4>1
      <4> QED
        BY <3>3, <4>2, <4>3
    <3>4. CASE x # n
      <4>1. (S \ {x}) \ {n} = (S \ {n}) \ {x} /\ x \in S \ {n} /\ x \in 0 .. n - 1
        BY <3>1, <3>4
      <4>2. h0[S \ {n}] = g[x] + h0[(S \ {n}) \ {x}]
        BY <2>2, <2>3, <4>1 DEF IsSum
      <4>3. h0[(S \ {n}) \ {x}] \in Nat /\ g[n] \in Nat /\ g[x] \in Nat
        BY <2>2, <2>3, <3>1, <4>1 DEF IsSum
      <4>4. n \in S <=> n \in S \ {x}
        BY <3>4
      <4>5. h[S \ {x}] = h0[(S \ {n}) \ {x}] + IF n \in S THEN g[n] ELSE 0
        BY <3>2, <4>1, <4>4
      <4> QED
        BY <3>2, <4>2, <4>3, <4>5
    <3> QED
      BY <3>3, <3>4
  <2> HIDE DEF h
  <2> QED
    BY <2>4, <2>5, <2>6 DEF IsSum
<1>3. Nat \subseteq T
  <2> HIDE DEF T
  <2> QED
    BY <1>1, <1>2, SetInduction
<1> QED
  BY <1>3

(* A property that a set has when it is empty, or when all the sets with   *)
(* one element less have it: no finite set is a smallest exception.        *)
LEMMA FiniteInduction ==
  ASSUME NEW D, IsFiniteSet(D), NEW G \in SUBSET (SUBSET D), {} \in G,
         \A S \in SUBSET D : S # {} /\ (\A x \in S : S \ {x} \in G) => S \in G
  PROVE  \A S \in SUBSET D : S \in G
<1> DEFINE U == (SUBSET D) \ G
<1> SUFFICES ASSUME U # {} PROVE FALSE
  OBVIOUS
<1> DEFINE R == StrictSubsetOrdering(D)
           W == SUBSET D
<1>1. IsWellFoundedOn(R, W)
  <2>1. IsWellFoundedOn(StrictSubsetOrdering(D), FiniteSubsetsOf(D))
    BY FS_StrictSubsetOrderingWellFounded
  <2>2. FiniteSubsetsOf(D) = SUBSET D
    BY FS_FiniteSubsetsOfFinite
  <2> QED
    BY <2>1, <2>2
<1>2. PICK S \in U : \A V \in U : ~(<<V, S>> \in R)
  <2>1. U \subseteq W
    OBVIOUS
  <2> HIDE DEF U, R, W
  <2> QED
    BY <1>1, <2>1, WFMin
<1>3. ASSUME NEW x \in S PROVE S \ {x} \in G
  <2>1. S \ {x} \in SUBSET D /\ S \ {x} # S /\ S \ {x} \subseteq S /\ S \in SUBSET D
    BY <1>2
  <2>2. <<S \ {x}, S>> \in StrictSubsetOrdering(D)
    BY <2>1 DEF StrictSubsetOrdering
  <2> QED
    BY <1>2, <2>1, <2>2
<1> QED
  BY <1>2, <1>3

SumOf(f) == CHOOSE h : IsSum(h, f, Slots)

LEMMA SlotsFinite == IsFiniteSet(Slots) /\ Cardinality(Slots) = MaxOrders
BY BookAssumption, FS_Interval DEF Slots

LEMMA SumOfIsSum ==
  ASSUME NEW f \in [Slots -> Nat]
  PROVE  IsSum(SumOf(f), f, Slots)
BY SumExists, BookAssumption DEF SumOf, Slots

(* A sum depends only on the summands. *)
LEMMA SumCongruence ==
  ASSUME NEW f \in [Slots -> Nat], NEW g \in [Slots -> Nat], NEW S \in SUBSET Slots,
         \A n \in S : f[n] = g[n]
  PROVE  SumOf(f)[S] = SumOf(g)[S]
<1> DEFINE G == {V \in SUBSET Slots : V \subseteq S => SumOf(f)[V] = SumOf(g)[V]}
<1>1. {} \in G
  BY SumOfIsSum DEF IsSum
<1>2. ASSUME NEW V \in SUBSET Slots, V # {}, \A x \in V : V \ {x} \in G PROVE V \in G
  <2>1. PICK x \in V : TRUE
    BY <1>2
  <2>2. V \ {x} \in G
    BY <1>2
  <2> QED
    BY <2>1, <2>2, SumOfIsSum DEF IsSum
<1>3. \A V \in SUBSET Slots : V \in G
  <2> HIDE DEF G
  <2>1. G \in SUBSET (SUBSET Slots)
    BY DEF G
  <2> QED
    BY <1>1, <1>2, <2>1, SlotsFinite, FiniteInduction
<1> QED
  BY <1>3

-----------------------------------------------------------------------------
(* Chains: the nodes of a level in order of arrival. *)

(* No node is met twice. *)
Distinct(q) == \A i, j \in 1 .. Len(q) : q[i] = q[j] => i = j

(* No slot is met twice, so that no chain is longer than the pool. *)
LEMMA InjectiveIsShort ==
  ASSUME NEW q \in Seq(Slots), Distinct(q)
  PROVE  Len(q) <= MaxOrders
<1> SUFFICES ASSUME Len(q) > MaxOrders PROVE FALSE
  BY BookAssumption
<1>1. IsFiniteSet(1 .. Len(q)) /\ Cardinality(1 .. Len(q)) = Len(q)
  BY FS_Interval
<1>2. q \in [1 .. Len(q) -> Slots]
  OBVIOUS
<1>3. Cardinality(Slots) < Cardinality(1 .. Len(q))
  BY <1>1, SlotsFinite, BookAssumption
<1>4. \E x, y \in 1 .. Len(q) : x # y /\ q[x] = q[y]
  BY <1>1, <1>2, <1>3, SlotsFinite, FS_PigeonHole
<1> QED
  BY <1>4 DEF Distinct

(* Following a link from the first node of a chain yields the chain. *)
LEMMA WalkFollowsChain ==
  ASSUME NEW q \in Seq(Slots), Distinct(q), Len(q) > 0, NEW link,
         \A i \in 1 .. Len(q) : pool[q[i]][link] = IF i = Len(q) THEN Null ELSE q[i + 1]
  PROVE  Walk(q[1], link) = q
<1> DEFINE n == q[1]
           E(h) == [k \in 0 .. MaxOrders |->
                      IF k = 0 THEN n
                      ELSE IF h[k - 1] = Null THEN Null ELSE pool[h[k - 1]][link]]
           g == [k \in 0 .. MaxOrders |-> IF k < Len(q) THEN q[k + 1] ELSE Null]
<1>1. MaxOrders \in Nat /\ Len(q) <= MaxOrders /\ Len(q) \in Nat /\ Null \notin Slots
  BY BookAssumption, InjectiveIsShort DEF Slots
<1>2. \A i \in 1 .. Len(q) : q[i] \in Slots /\ q[i] # Null
  BY <1>1
<1>3. g = E(g)
  <2>1. ASSUME NEW k \in 0 .. MaxOrders, k # 0
        PROVE  g[k] = IF g[k - 1] = Null THEN Null ELSE pool[g[k - 1]][link]
    <3>1. CASE k < Len(q)
      <4>1. k \in 1 .. Len(q) /\ k # Len(q) /\ k - 1 < Len(q) /\ k - 1 \in 0 .. MaxOrders
        BY <1>1, <2>1, <3>1
      <4>2. g[k - 1] = q[k] /\ g[k] = q[k + 1]
        BY <3>1, <4>1
      <4> QED
        BY <1>2, <4>1, <4>2
    <3>2. CASE k = Len(q)
      <4>1. k \in 1 .. Len(q) /\ k - 1 < Len(q) /\ k - 1 \in 0 .. MaxOrders
        BY <1>1, <2>1, <3>2
      <4>2. g[k - 1] = q[k] /\ g[k] = Null
        BY <3>2, <4>1
      <4> QED
        BY <3>2, <4>1, <4>2
    <3>3. CASE k > Len(q)
      <4>1. ~(k - 1 < Len(q)) /\ ~(k < Len(q)) /\ k - 1 \in 0 .. MaxOrders
        BY <1>1, <3>3
      <4> QED
        BY <4>1
    <3> QED
      BY <1>1, <3>1, <3>2, <3>3
  <2>2. g[0] = n
    BY <1>1
  <2> QED
    BY <2>1, <2>2
<1>4. ASSUME NEW h, h = E(h) PROVE h = g
  <2> DEFINE T == {k \in Nat : k <= MaxOrders => h[k] = g[k]}
  <2>1. 0 \in T
    BY <1>1, <1>4
  <2>2. ASSUME NEW k \in Nat, k \in T PROVE k + 1 \in T
    <3> SUFFICES ASSUME k + 1 <= MaxOrders PROVE h[k + 1] = g[k + 1]
      OBVIOUS
    <3>1. k + 1 \in 0 .. MaxOrders /\ k + 1 # 0 /\ (k + 1) - 1 = k
      BY <1>1, <2>2
    <3>4. h[k] = g[k]
      <4>1. k <= MaxOrders
        BY <1>1, <2>2, <3>1
      <4> HIDE DEF g, E
      <4> QED
        BY <2>2, <4>1
    <3>2. h[k + 1] = IF h[k] = Null THEN Null ELSE pool[h[k]][link]
      BY <1>4, <3>1, ZenonT(60)
    <3>3. g[k + 1] = IF g[k] = Null THEN Null ELSE pool[g[k]][link]
      <4> HIDE DEF g
      <4> QED
        BY <1>3, <3>1, ZenonT(60)
    <3> QED
      <4> HIDE DEF g, E
      <4> QED
        BY <3>1, <3>2, <3>3, <3>4
  <2>3. Nat \subseteq T
    <3> HIDE DEF T
    <3> QED
      BY <2>1, <2>2, SetInduction
  <2>4. \A k \in 0 .. MaxOrders : h[k] = g[k]
    <3> HIDE DEF g, E
    <3> QED
      BY <1>1, <2>3
  <2>5. /\ h = [k \in 0 .. MaxOrders |-> h[k]]
        /\ g = [k \in 0 .. MaxOrders |-> g[k]]
    BY <1>4
  <2> HIDE DEF g, E, T
  <2> QED
    BY <2>4, <2>5
<1> DEFINE step == CHOOSE h : h = E(h)
<1>5. step = g
  <2> HIDE DEF g
  <2> QED
    BY <1>3, <1>4
<1>6. Walk(n, link) = [k \in 1 .. Cardinality({i \in 0 .. MaxOrders : step[i] # Null})
                         |-> step[k - 1]]
  BY DEF Walk
<1> HIDE DEF step, E
<1>7. {i \in 0 .. MaxOrders : g[i] # Null} = 0 .. Len(q) - 1
  BY <1>1, <1>2
<1>8. Cardinality(0 .. Len(q) - 1) = Len(q)
  <2>1. 0 \in Int /\ Len(q) - 1 \in Int
    BY <1>1
  <2>2. Cardinality(0 .. Len(q) - 1) = IF 0 > Len(q) - 1 THEN 0 ELSE Len(q) - 1 - 0 + 1
    BY <2>1, FS_Interval
  <2> QED
    BY <1>1, <2>2
<1>9. Walk(n, link) = [k \in 1 .. Len(q) |-> g[k - 1]]
  <2> HIDE DEF g
  <2> QED
    BY <1>5, <1>6, <1>7, <1>8
<1>10. \A k \in 1 .. Len(q) : g[k - 1] = q[k]
  BY <1>1
<1>11. q = [k \in 1 .. Len(q) |-> q[k]]
  OBVIOUS
<1> HIDE DEF g
<1> QED
  BY <1>9, <1>10, <1>11

Shares(P) == [n \in Slots |-> P[n].quantity]

(* The sum the model takes over a set of nodes is the sum of their         *)
(* quantities, in whatever order the fold takes the nodes.                 *)
LEMMA VolumeIsSum ==
  ASSUME Shares(pool) \in [Slots -> Nat], NEW S \in SUBSET Slots
  PROVE  MapThenSumSet(LAMBDA n : pool[n].quantity, S) = SumOf(Shares(pool))[S]
<1> DEFINE D == SUBSET S
           E(h) == [s \in D |->
                      IF s = {} THEN 0
                      ELSE pool[CHOOSE x \in s : TRUE].quantity + h[s \ {CHOOSE x \in s : TRUE}]]
           g == [s \in D |-> SumOf(Shares(pool))[s]]
<1>1. IsSum(SumOf(Shares(pool)), Shares(pool), Slots)
  BY SumOfIsSum
<1>2. g = E(g)
  <2>1. ASSUME NEW s \in D, s # {}
        PROVE  g[s] = pool[CHOOSE x \in s : TRUE].quantity + g[s \ {CHOOSE x \in s : TRUE}]
    <3> DEFINE x == CHOOSE x \in s : TRUE
    <3>1. x \in s
      BY <2>1
    <3> HIDE DEF x
    <3>2. s \in SUBSET Slots /\ s \ {x} \in D /\ x \in Slots
      BY <3>1
    <3>3. SumOf(Shares(pool))[s] = Shares(pool)[x] + SumOf(Shares(pool))[s \ {x}]
      BY <1>1, <3>1, <3>2 DEF IsSum
    <3>4. g[s] = pool[x].quantity + g[s \ {x}]
      BY <3>2, <3>3 DEF Shares
    <3> QED
      BY <3>4 DEF x
  <2>2. g[{}] = 0
    BY <1>1 DEF IsSum
  <2> QED
    BY <2>1, <2>2
<1>3. ASSUME NEW h, h = E(h) PROVE h = g
  <2> DEFINE G == {s \in D : h[s] = g[s]}
  <2>1. {} \in G
    BY <1>1, <1>3 DEF IsSum
  <2>2. ASSUME NEW s \in D, s # {}, \A x \in s : s \ {x} \in G PROVE s \in G
    <3> DEFINE x == CHOOSE x \in s : TRUE
    <3>1. x \in s /\ s \ {x} \in G
      BY <2>2
    <3>2. h[s] = pool[x].quantity + h[s \ {x}]
      BY <1>3, <2>2
    <3>3. g[s] = pool[x].quantity + g[s \ {x}]
      <4> HIDE DEF g
      <4> QED
        BY <1>2, <2>2
    <3>4. h[s \ {x}] = g[s \ {x}]
      BY <3>1
    <3> HIDE DEF g, x, E
    <3> QED
      BY <3>2, <3>3, <3>4
  <2>3. IsFiniteSet(S)
    BY SlotsFinite, FS_Subset
  <2>4. \A s \in SUBSET S : s \in G
    <3>1. G \in SUBSET D
      OBVIOUS
    <3> HIDE DEF G
    <3> QED
      BY <2>1, <2>2, <2>3, <3>1, FiniteInduction
  <2>5. \A s \in D : h[s] = g[s]
    <3> HIDE DEF g, E
    <3> QED
      BY <2>4
  <2>6. h = [s \in D |-> h[s]] /\ g = [s \in D |-> g[s]]
    BY <1>3
  <2> HIDE DEF g, E, G, D
  <2> QED
    BY <2>5, <2>6
<1> DEFINE iter == CHOOSE h : h = E(h)
<1>4. iter = g
  <2> HIDE DEF g
  <2> QED
    BY <1>2, <1>3
<1>5. MapThenSumSet(LAMBDA n : pool[n].quantity, S) = iter[S]
  BY DEF MapThenSumSet, MapThenFoldSet
<1> HIDE DEF iter
<1> QED
  BY <1>4, <1>5

-----------------------------------------------------------------------------
(* The nodes q, linked in pool P both ways between the ends of a level. *)
IsChain(P, q, level) ==
  /\ q \in Seq(Slots) /\ Distinct(q) /\ Len(q) > 0
  /\ level.head = q[1] /\ level.tail = q[Len(q)]
  /\ \A i \in 1 .. Len(q) : P[q[i]].next = IF i = Len(q) THEN Null ELSE q[i + 1]
  /\ \A i \in 1 .. Len(q) : P[q[i]].prev = IF i = 1 THEN Null ELSE q[i - 1]

(* The list of a level that is a chain is that chain. *)
NodesAreChains ==
  \A s, p, q : p \in DOMAIN levels[s] /\ IsChain(pool, q, levels[s][p]) => NodesAt(s, p) = q

LEMMA NodesFollow == NodesAreChains
<1> SUFFICES ASSUME NEW s, NEW p, NEW q, p \in DOMAIN levels[s], IsChain(pool, q, levels[s][p])
             PROVE  NodesAt(s, p) = q
  BY DEF NodesAreChains
<1> DEFINE level == levels[s][p]
<1>1. /\ q \in Seq(Slots) /\ Distinct(q) /\ Len(q) > 0 /\ level.head = q[1]
      /\ \A i \in 1 .. Len(q) : pool[q[i]]["next"] = IF i = Len(q) THEN Null ELSE q[i + 1]
  BY DEF IsChain
<1>2. Walk(q[1], "next") = q
  BY <1>1, WalkFollowsChain
<1> QED
  BY <1>1, <1>2 DEF NodesAt

LEMMA NodesFollowNext == NodesAreChains'
BY NodesFollow, PTL

(* Walking the other way meets the same nodes in the opposite order. *)
LEMMA WalkBackwards ==
  ASSUME NEW q, NEW level, IsChain(pool, q, level)
  PROVE  Walk(level.tail, "prev") = [k \in 1 .. Len(q) |-> q[Len(q) + 1 - k]]
<1> DEFINE r == [k \in 1 .. Len(q) |-> q[Len(q) + 1 - k]]
<1>1. /\ q \in Seq(Slots) /\ Len(q) \in Nat /\ Len(q) > 0 /\ Distinct(q)
      /\ level.tail = q[Len(q)]
      /\ \A i \in 1 .. Len(q) : pool[q[i]]["prev"] = IF i = 1 THEN Null ELSE q[i - 1]
  BY DEF IsChain
<1>2. \A k \in 1 .. Len(q) : Len(q) + 1 - k \in 1 .. Len(q)
  BY <1>1
<1>3. r \in Seq(Slots) /\ Len(r) = Len(q) /\ r[1] = q[Len(q)]
  BY <1>1, <1>2
<1>4. Distinct(r)
  <2>1. ASSUME NEW a \in 1 .. Len(q), NEW b \in 1 .. Len(q), r[a] = r[b] PROVE a = b
    <3>1. Len(q) + 1 - a = Len(q) + 1 - b
      BY <1>1, <1>2, <2>1 DEF Distinct
    <3> HIDE DEF r
    <3> QED
      BY <1>1, <3>1
  <2> HIDE DEF r
  <2> QED
    BY <1>3, <2>1 DEF Distinct
<1>5. ASSUME NEW k \in 1 .. Len(r)
      PROVE  pool[r[k]]["prev"] = IF k = Len(r) THEN Null ELSE r[k + 1]
  <2>1. /\ Len(q) + 1 - k \in 1 .. Len(q)
        /\ (Len(q) + 1 - k = 1) <=> (k = Len(r))
        /\ k # Len(r) => k + 1 \in 1 .. Len(q) /\ Len(q) + 1 - (k + 1) = (Len(q) + 1 - k) - 1
    <3>1. k \in 1 .. Len(q) /\ Len(r) = Len(q) /\ Len(q) \in Nat /\ k \in Int
      BY <1>1, <1>3
    <3> HIDE DEF r
    <3> QED
      BY <3>1
  <2>2. r[k] = q[Len(q) + 1 - k] /\ (k # Len(r) => r[k + 1] = q[(Len(q) + 1 - k) - 1])
    BY <1>3, <2>1
  <2> HIDE DEF r
  <2> QED
    BY <1>1, <2>1, <2>2
<1> HIDE DEF r
<1>6. Walk(r[1], "prev") = r
  BY <1>1, <1>3, <1>4, <1>5, WalkFollowsChain
<1> QED
  BY <1>1, <1>3, <1>6 DEF r

-----------------------------------------------------------------------------
(* What the operations do to a chain. *)

LEMMA ChainKept ==
  ASSUME NEW P, NEW P2, NEW q, NEW level, NEW level2, IsChain(P, q, level),
         level2.head = level.head, level2.tail = level.tail,
         \A m \in Range(q) : P2[m].next = P[m].next /\ P2[m].prev = P[m].prev
  PROVE  IsChain(P2, q, level2)
<1>1. \A i \in 1 .. Len(q) : q[i] \in Range(q)
  BY DEF IsChain, Range
<1> QED
  BY <1>1 DEF IsChain

LEMMA ChainStarted ==
  ASSUME NEW P, NEW n \in Slots, P[n].next = Null, P[n].prev = Null,
         NEW level, level.head = n, level.tail = n
  PROVE  IsChain(P, <<n>>, level) /\ Range(<<n>>) = {n}
BY DEF IsChain, Distinct, Range

LEMMA ChainAppended ==
  ASSUME NEW P, NEW P2, NEW q, NEW level, IsChain(P, q, level),
         NEW n \in Slots, n \notin Range(q), P2[n].next = Null, P2[n].prev = level.tail,
         \A m \in Range(q) : /\ P2[m].prev = P[m].prev
                             /\ P2[m].next = IF m = level.tail THEN n ELSE P[m].next,
         NEW level2, level2.head = level.head, level2.tail = n
  PROVE  /\ IsChain(P2, Append(q, n), level2)
         /\ Range(Append(q, n)) = Range(q) \union {n}
<1> DEFINE r == Append(q, n)
<1>1. q \in Seq(Slots) /\ Len(q) \in Nat /\ Len(q) > 0 /\ DOMAIN q = 1 .. Len(q)
  BY DEF IsChain
<1>2. /\ r \in Seq(Slots) /\ Len(r) = Len(q) + 1 /\ DOMAIN r = 1 .. Len(q) + 1
      /\ r[Len(q) + 1] = n
      /\ \A i \in 1 .. Len(q) : r[i] = q[i]
  BY <1>1
<1>3. \A i \in 1 .. Len(q) + 1 : i \in 1 .. Len(q) \/ i = Len(q) + 1
  BY <1>1
<1>4. \A i \in 1 .. Len(q) : q[i] \in Range(q)
  BY <1>1 DEF Range
<1> HIDE DEF r
<1>5. Distinct(r)
  <2> SUFFICES ASSUME NEW i \in 1 .. Len(q) + 1, NEW j \in 1 .. Len(q) + 1, r[i] = r[j]
               PROVE  i = j
    BY <1>2 DEF Distinct
  <2>1. \A k \in 1 .. Len(q) : r[k] # n
    BY <1>2, <1>4
  <2>2. CASE i \in 1 .. Len(q) /\ j \in 1 .. Len(q)
    BY <1>2, <2>2 DEF Distinct, IsChain
  <2> QED
    BY <1>2, <1>3, <2>1, <2>2
<1>6. Range(r) = Range(q) \union {n}
  <2>1. \A i \in 1 .. Len(q) : i \in 1 .. Len(q) + 1
    BY <1>1
  <2>2. Len(q) + 1 \in 1 .. Len(q) + 1
    BY <1>1
  <2> QED
    BY <1>1, <1>2, <1>3, <2>1, <2>2 DEF Range
<1>7. ASSUME NEW i \in 1 .. Len(r)
      PROVE  /\ P2[r[i]].next = IF i = Len(r) THEN Null ELSE r[i + 1]
             /\ P2[r[i]].prev = IF i = 1 THEN Null ELSE r[i - 1]
  <2>1. CASE i = Len(q) + 1
    <3>1. i # 1 /\ i - 1 = Len(q) /\ Len(q) \in 1 .. Len(q) /\ i = Len(r)
      BY <1>1, <1>2, <2>1
    <3>2. r[i] = n /\ r[i - 1] = q[Len(q)] /\ level.tail = q[Len(q)]
      BY <1>2, <2>1, <3>1 DEF IsChain
    <3> QED
      BY <3>1, <3>2
  <2>2. CASE i = Len(q)
    <3>0. Len(q) \in Nat /\ Len(q) > 0 /\ Len(r) = Len(q) + 1
      BY <1>1, <1>2
    <3>1. i \in 1 .. Len(q) /\ i # Len(r) /\ (i # 1 => i - 1 \in 1 .. Len(q))
      BY <2>2, <3>0
    <3>2. r[i] = level.tail /\ r[i] = q[i] /\ q[i] \in Range(q) /\ r[i + 1] = n
      BY <1>2, <1>4, <2>2, <3>1 DEF IsChain
    <3>3. P2[q[i]].prev = IF i = 1 THEN Null ELSE q[i - 1]
      BY <3>1, <3>2 DEF IsChain
    <3> QED
      BY <1>2, <3>1, <3>2, <3>3
  <2>3. CASE i \in 1 .. Len(q) /\ i # Len(q)
    <3>1. /\ i \in 1 .. Len(q) /\ i # Len(r) /\ i + 1 \in 1 .. Len(q)
          /\ Len(q) \in 1 .. Len(q) /\ (i # 1 => i - 1 \in 1 .. Len(q))
      BY <1>1, <1>2, <2>3
    <3>2. r[i] = q[i] /\ r[i + 1] = q[i + 1] /\ (i # 1 => r[i - 1] = q[i - 1]) /\ q[i] \in Range(q)
      BY <1>2, <1>4, <3>1
    <3>3. q[i] # level.tail
      <4>1. level.tail = q[Len(q)] /\ Distinct(q)
        BY DEF IsChain
      <4> QED
        BY <2>3, <3>1, <4>1 DEF Distinct
    <3>4. P[q[i]].next = q[i + 1] /\ P[q[i]].prev = IF i = 1 THEN Null ELSE q[i - 1]
      BY <2>3 DEF IsChain
    <3> QED
      BY <3>1, <3>2, <3>3, <3>4
  <2> QED
    BY <1>2, <1>3, <2>1, <2>2, <2>3
<1>8. level2.head = r[1] /\ level2.tail = r[Len(r)] /\ Len(r) > 0
  <2>1. 1 \in 1 .. Len(q) /\ Len(r) > 0
    BY <1>1, <1>2
  <2>2. level.head = q[1] /\ r[1] = q[1] /\ r[Len(r)] = n
    BY <1>2, <2>1 DEF IsChain
  <2> QED
    BY <2>1, <2>2
<1>9. IsChain(P2, r, level2)
  BY <1>2, <1>5, <1>7, <1>8 DEF IsChain
<1> QED
  BY <1>6, <1>9 DEF r

(* As in SequencesExt, whose Remove would hide that of the book. *)
RemoveAt(s, k) == SubSeq(s, 1, k - 1) \o SubSeq(s, k + 1, Len(s))

(* Taking an element out shifts those behind it and keeps the others. *)
LEMMA RemoveAtShifts ==
  ASSUME NEW S, NEW s \in Seq(S), NEW k \in 1 .. Len(s)
  PROVE  /\ RemoveAt(s, k) \in Seq(S)
         /\ Len(RemoveAt(s, k)) = Len(s) - 1
         /\ \A i \in 1 .. Len(s) - 1 :
              RemoveAt(s, k)[i] = s[IF i < k THEN i ELSE i + 1]
<1> DEFINE a == SubSeq(s, 1, k - 1)
           b == SubSeq(s, k + 1, Len(s))
<1>1. a \in Seq(S) /\ Len(a) = k - 1 /\ \A i \in 1 .. k - 1 : a[i] = s[i]
  OBVIOUS
<1>2. b \in Seq(S) /\ Len(b) = Len(s) - k /\ \A i \in 1 .. Len(s) - k : b[i] = s[k + i]
  OBVIOUS
<1>3. RemoveAt(s, k) = a \o b
  BY DEF RemoveAt
<1> HIDE DEF a, b
<1>4. a \o b \in Seq(S) /\ Len(a \o b) = Len(s) - 1
  <2>1. a \o b \in Seq(S) /\ Len(a \o b) = Len(a) + Len(b)
    BY <1>1, <1>2, ConcatProperties
  <2> QED
    BY <1>1, <1>2, <2>1
<1>5. ASSUME NEW i \in 1 .. Len(s) - 1
      PROVE  (a \o b)[i] = s[IF i < k THEN i ELSE i + 1]
  <2>1. CASE i < k
    BY <1>1, <1>2, <2>1
  <2>2. CASE ~(i < k)
    <3>1. /\ i - (k - 1) \in 1 .. Len(s) - k /\ k + (i - (k - 1)) = i + 1
          /\ i \in k .. (k - 1) + (Len(s) - k)
      BY <2>2
    <3>2. (a \o b)[i] = b[i - (k - 1)]
      BY <1>1, <1>2, <3>1
    <3> QED
      BY <1>2, <2>2, <3>1, <3>2
  <2> QED
    BY <2>1, <2>2
<1> QED
  BY <1>3, <1>4, <1>5

(* Only the ends of a chain lack a neighbour, and its nodes are live. *)
LEMMA ChainEnds ==
  ASSUME NEW P, NEW q, NEW level, IsChain(P, q, level), NEW i \in 1 .. Len(q)
  PROVE  /\ Len(q) \in Nat /\ q[i] \in Slots /\ q[i] \in Range(q)
         /\ level.head \in Range(q) /\ level.tail \in Range(q)
         /\ level.head \in Slots /\ level.tail \in Slots
         /\ P[q[i]].prev = Null <=> i = 1
         /\ P[q[i]].next = Null <=> i = Len(q)
         /\ i # 1 => P[q[i]].prev = q[i - 1] /\ q[i - 1] \in Range(q)
         /\ i # Len(q) => P[q[i]].next = q[i + 1] /\ q[i + 1] \in Range(q)
<1>1. q \in Seq(Slots) /\ Len(q) \in Nat /\ Len(q) > 0 /\ DOMAIN q = 1 .. Len(q)
  BY DEF IsChain
<1>2. \A k \in 1 .. Len(q) : q[k] \in Slots /\ q[k] # Null /\ q[k] \in Range(q)
  BY <1>1, BookAssumption DEF Slots, Range
<1>3. /\ 1 \in 1 .. Len(q) /\ Len(q) \in 1 .. Len(q)
      /\ i # 1 => i - 1 \in 1 .. Len(q)
      /\ i # Len(q) => i + 1 \in 1 .. Len(q)
  <2> DEFINE N == Len(q)
  <2>1. N \in Nat /\ i \in 1 .. N
    BY <1>1
  <2> HIDE DEF N
  <2>2. 1 \in 1 .. N /\ N \in 1 .. N /\ (i # 1 => i - 1 \in 1 .. N) /\ (i # N => i + 1 \in 1 .. N)
    BY <2>1
  <2> QED
    BY <2>2 DEF N
<1>4. /\ level.head = q[1] /\ level.tail = q[Len(q)]
      /\ P[q[i]].next = IF i = Len(q) THEN Null ELSE q[i + 1]
      /\ P[q[i]].prev = IF i = 1 THEN Null ELSE q[i - 1]
  BY DEF IsChain
<1> QED
  BY <1>1, <1>2, <1>3, <1>4

LEMMA ChainShortened ==
  ASSUME NEW P, NEW P2, NEW q, NEW level, IsChain(P, q, level), Len(q) # 1,
         NEW k \in 1 .. Len(q), NEW n, n = q[k],
         \A m \in Range(q) \ {n} :
            /\ P2[m].next = IF m = P[n].prev THEN P[n].next ELSE P[m].next
            /\ P2[m].prev = IF m = P[n].next THEN P[n].prev ELSE P[m].prev,
         NEW level2,
         level2.head = IF P[n].prev = Null THEN P[n].next ELSE level.head,
         level2.tail = IF P[n].next = Null THEN P[n].prev ELSE level.tail
  PROVE  /\ IsChain(P2, RemoveAt(q, k), level2)
         /\ Range(RemoveAt(q, k)) = Range(q) \ {n}
<1> DEFINE r == RemoveAt(q, k)
           N == Len(q)
           up(i) == IF i < k THEN i ELSE i + 1
<1>1. q \in Seq(Slots) /\ N \in Nat /\ N > 1 /\ DOMAIN q = 1 .. N
  <2>1. q \in Seq(Slots) /\ Len(q) \in Nat /\ Len(q) > 0 /\ DOMAIN q = 1 .. Len(q)
    BY DEF IsChain
  <2> QED
    BY <2>1
<1>2. r \in Seq(Slots) /\ Len(r) = N - 1 /\ \A i \in 1 .. N - 1 : r[i] = q[up(i)]
  <2>1. r \in Seq(Slots) /\ Len(r) = Len(q) - 1
    BY <1>1, RemoveAtShifts
  <2>2. \A i \in 1 .. Len(q) - 1 : r[i] = q[IF i < k THEN i ELSE i + 1]
    BY <1>1, RemoveAtShifts
  <2> HIDE DEF r
  <2> QED
    BY <2>1, <2>2
<1>3. /\ \A i \in 1 .. N : q[i] \in Range(q) /\ q[i] \in Slots /\ q[i] # Null
      /\ \A i, j \in 1 .. N : q[i] = q[j] => i = j
  <2>1. \A i \in 1 .. N : q[i] \in Slots /\ q[i] \in Range(q)
    BY <1>1 DEF Range
  <2>2. \A i, j \in 1 .. N : q[i] = q[j] => i = j
    BY DEF IsChain, Distinct
  <2> QED
    BY <2>1, <2>2, BookAssumption DEF Slots
<1>4. /\ P[n].prev = IF k = 1 THEN Null ELSE q[k - 1]
      /\ P[n].next = IF k = N THEN Null ELSE q[k + 1]
      /\ level.head = q[1] /\ level.tail = q[N]
      /\ \A i \in 1 .. N : P[q[i]].next = IF i = N THEN Null ELSE q[i + 1]
      /\ \A i \in 1 .. N : P[q[i]].prev = IF i = 1 THEN Null ELSE q[i - 1]
  BY DEF IsChain
<1>5. k \in 1 .. N
  OBVIOUS
<1> HIDE DEF r, N
<1>6. Distinct(r)
  <2> SUFFICES ASSUME NEW i \in 1 .. N - 1, NEW j \in 1 .. N - 1, r[i] = r[j] PROVE i = j
    BY <1>2 DEF Distinct
  <2>1. up(i) \in 1 .. N /\ up(j) \in 1 .. N
    BY <1>1, <1>5
  <2>2. up(i) = up(j)
    BY <1>2, <1>3, <2>1
  <2> QED
    BY <1>1, <1>5, <2>2
<1>7. Range(r) = Range(q) \ {n}
  <2>1. DOMAIN r = 1 .. N - 1
    BY <1>1, <1>2
  <2>2. ASSUME NEW i \in 1 .. N - 1 PROVE r[i] \in Range(q) \ {n}
    <3>1. up(i) \in 1 .. N /\ up(i) # k
      BY <1>1, <1>5
    <3> QED
      BY <1>2, <1>3, <1>5, <3>1
  <2>3. ASSUME NEW i \in 1 .. N, i # k PROVE \E j \in 1 .. N - 1 : q[i] = r[j]
    <3>1. CASE i < k
      <4>1. i \in 1 .. N - 1 /\ up(i) = i
        BY <1>1, <1>5, <3>1
      <4> QED
        BY <1>2, <4>1
    <3>2. CASE ~(i < k)
      <4>1. i - 1 \in 1 .. N - 1 /\ up(i - 1) = i
        BY <1>1, <1>5, <2>3, <3>2
      <4> QED
        BY <1>2, <4>1
    <3> QED
      BY <3>1, <3>2
  <2>4. Range(r) \subseteq Range(q) \ {n}
    BY <2>1, <2>2 DEF Range
  <2>5. ASSUME NEW m \in Range(q), m # n PROVE m \in Range(r)
    <3>1. PICK i \in 1 .. N : m = q[i]
      BY <1>1 DEF Range
    <3>2. i # k
      BY <2>5, <3>1
    <3>3. PICK j \in 1 .. N - 1 : q[i] = r[j]
      BY <2>3, <3>2
    <3> QED
      BY <2>1, <3>1, <3>3 DEF Range
  <2> QED
    BY <2>4, <2>5
<1>8. ASSUME NEW i \in 1 .. N - 1
      PROVE  /\ P2[r[i]].next = IF i = N - 1 THEN Null ELSE r[i + 1]
             /\ P2[r[i]].prev = IF i = 1 THEN Null ELSE r[i - 1]
  <2>1. /\ up(i) \in 1 .. N /\ up(i) # k
        /\ i # N - 1 => i + 1 \in 1 .. N - 1
        /\ i # 1 => i - 1 \in 1 .. N - 1
    BY <1>1, <1>5
  <2>2. q[up(i)] \in Range(q) \ {n}
    BY <1>3, <1>5, <2>1
  <2>3. /\ r[i] = q[up(i)]
        /\ i # N - 1 => r[i + 1] = q[up(i + 1)]
        /\ i # 1 => r[i - 1] = q[up(i - 1)]
    BY <1>2, <2>1
  <2>4. P2[r[i]].next = IF i = N - 1 THEN Null ELSE r[i + 1]
    <3>1. CASE up(i) = k - 1
      <4>1. k # 1 /\ up(i) = i /\ up(i + 1) = k + 1 /\ (i = N - 1 <=> k = N)
        BY <1>1, <1>5, <3>1
      <4>2. q[up(i)] = P[n].prev
        BY <1>4, <3>1, <4>1
      <4> HIDE DEF up
      <4> QED
        BY <1>4, <2>2, <2>3, <4>1, <4>2
    <3>2. CASE up(i) # k - 1
      <4>1. /\ k # 1 => k - 1 \in 1 .. N
            /\ up(i) = N <=> i = N - 1
            /\ i # N - 1 => up(i + 1) = up(i) + 1
        BY <1>1, <1>5, <3>2
      <4>2. q[up(i)] # P[n].prev
        BY <1>3, <1>4, <2>1, <3>2, <4>1
      <4> HIDE DEF up
      <4> QED
        BY <1>4, <2>1, <2>2, <2>3, <4>1, <4>2
    <3> QED
      BY <3>1, <3>2
  <2>5. P2[r[i]].prev = IF i = 1 THEN Null ELSE r[i - 1]
    <3>1. CASE up(i) = k + 1
      <4>1. k # N /\ i = k /\ (i # 1 => up(i - 1) = k - 1)
        BY <1>1, <1>5, <2>1, <3>1
      <4>2. q[up(i)] = P[n].next
        BY <1>4, <3>1, <4>1
      <4> HIDE DEF up
      <4> QED
        BY <1>4, <2>2, <2>3, <4>1, <4>2
    <3>2. CASE up(i) # k + 1
      <4>1. /\ k # N => k + 1 \in 1 .. N
            /\ up(i) = 1 <=> i = 1
            /\ i # 1 => up(i - 1) = up(i) - 1
        BY <1>1, <1>5, <2>1, <3>2
      <4>2. q[up(i)] # P[n].next
        BY <1>3, <1>4, <2>1, <3>2, <4>1
      <4> HIDE DEF up
      <4> QED
        BY <1>4, <2>1, <2>2, <2>3, <4>1, <4>2, SMTT(30)
    <3> QED
      BY <3>1, <3>2
  <2> QED
    BY <2>4, <2>5
<1>9. level2.head = r[1] /\ level2.tail = r[Len(r)] /\ Len(r) > 0
  <2>1. 1 \in 1 .. N - 1 /\ N - 1 \in 1 .. N - 1 /\ Len(r) > 0
    BY <1>1, <1>2
  <2>2. r[1] = q[up(1)] /\ r[Len(r)] = q[up(N - 1)]
    BY <1>2, <2>1
  <2>3. /\ up(1) = IF k = 1 THEN 2 ELSE 1
        /\ up(N - 1) = IF k = N THEN N - 1 ELSE N
    BY <1>1, <1>5
  <2>4. /\ k = 1 => k # N /\ k + 1 = 2
        /\ k = N => k # 1
        /\ k # 1 => k - 1 \in 1 .. N
        /\ k # N => k + 1 \in 1 .. N
    BY <1>1, <1>5
  <2> HIDE DEF up
  <2> QED
    BY <1>3, <1>4, <2>1, <2>2, <2>3, <2>4
<1>10. IsChain(P2, r, level2)
  <2>1. \A i \in 1 .. Len(r) : i = Len(r) <=> i = N - 1
    BY <1>2
  <2> HIDE DEF up
  <2> QED
    BY <1>2, <1>6, <1>8, <1>9, <2>1 DEF IsChain
<1> QED
  BY <1>7, <1>10 DEF r

-----------------------------------------------------------------------------
(* What the operations do to a total. *)

LEMMA SumAdded ==
  ASSUME NEW P, NEW P2, Shares(P) \in [Slots -> Nat], Shares(P2) \in [Slots -> Nat],
         NEW S \in SUBSET Slots, NEW n \in Slots, n \notin S,
         \A m \in S : P2[m].quantity = P[m].quantity
  PROVE  /\ SumOf(Shares(P))[S] \in Nat
         /\ SumOf(Shares(P2))[S \union {n}] = P2[n].quantity + SumOf(Shares(P))[S]
<1>1. \A m \in S : Shares(P2)[m] = Shares(P)[m]
  BY DEF Shares
<1>2. SumOf(Shares(P2))[S] = SumOf(Shares(P))[S]
  BY <1>1, SumCongruence
<1>3. IsSum(SumOf(Shares(P2)), Shares(P2), Slots) /\ IsSum(SumOf(Shares(P)), Shares(P), Slots)
  BY SumOfIsSum
<1>4. S \union {n} \in SUBSET Slots /\ n \in S \union {n} /\ (S \union {n}) \ {n} = S
  OBVIOUS
<1>5. SumOf(Shares(P2))[S \union {n}] = Shares(P2)[n] + SumOf(Shares(P2))[S]
  BY <1>3, <1>4, ZenonT(60) DEF IsSum
<1>6. Shares(P2)[n] = P2[n].quantity
  BY DEF Shares
<1> QED
  BY <1>2, <1>3, <1>5, <1>6 DEF IsSum

LEMMA SumReduced ==
  ASSUME NEW P, NEW P2, Shares(P) \in [Slots -> Nat], Shares(P2) \in [Slots -> Nat],
         NEW S \in SUBSET Slots, NEW n \in S, NEW d \in Nat,
         P2[n].quantity = P[n].quantity - d,
         \A m \in S \ {n} : P2[m].quantity = P[m].quantity
  PROVE  SumOf(Shares(P2))[S] = SumOf(Shares(P))[S] - d
<1> DEFINE R == S \ {n}
<1>1. R \in SUBSET Slots /\ n \notin R /\ n \in Slots /\ R \union {n} = S
  OBVIOUS
<1>2. \A m \in R : P2[m].quantity = P[m].quantity
  OBVIOUS
<1> HIDE DEF R
<1>3. SumOf(Shares(P2))[R \union {n}] = P2[n].quantity + SumOf(Shares(P))[R]
  BY <1>1, <1>2, SumAdded
<1>4. SumOf(Shares(P))[R \union {n}] = P[n].quantity + SumOf(Shares(P))[R]
  BY <1>1, SumAdded
<1>5. SumOf(Shares(P))[R] \in Nat /\ P[n].quantity \in Nat
  <2>1. Shares(P)[n] \in Nat
    BY <1>1
  <2> QED
    BY <1>1, <2>1, SumAdded DEF Shares
<1>6. /\ SumOf(Shares(P2))[S] = P2[n].quantity + SumOf(Shares(P))[R]
      /\ SumOf(Shares(P))[S] = P[n].quantity + SumOf(Shares(P))[R]
  BY <1>1, <1>3, <1>4
<1> QED
  BY <1>5, <1>6

-----------------------------------------------------------------------------
(* The inductive invariant. *)

Nodes == [order_id : OrderIds \union {Null}, price : Prices \union {0}, quantity : Nat,
          side : Sides, next : Pointers, prev : Pointers]
Levels == [total_volume : Nat, head : Slots, tail : Slots]

Types ==
  /\ pool \in [Slots -> Nodes]
  /\ free_list \in Seq(Slots)
  /\ DOMAIN order_map \subseteq OrderIds /\ order_map \in [DOMAIN order_map -> Slots]
  /\ prices \in [Sides -> SUBSET Prices]
  /\ levels = [s \in Sides |-> levels[s]]
  /\ \A s \in Sides : levels[s] \in [prices[s] -> Levels]
  /\ running \in BOOLEAN

(* The map leads to the node of the order, which has shares and a level. *)
OrdersFound ==
  \A id \in DOMAIN order_map :
    /\ pool[order_map[id]].order_id = id
    /\ pool[order_map[id]].quantity > 0
    /\ pool[order_map[id]].price \in prices[pool[order_map[id]].side]

At(s, p) == {n \in LiveSlots : pool[n].side = s /\ pool[n].price = p}

(* The list of a level is a chain of its orders, linked both ways. *)
Chains ==
  \A s \in Sides : \A p \in prices[s] :
    /\ ValidPrice(p)
    /\ IsChain(pool, NodesAt(s, p), levels[s][p])
    /\ Range(NodesAt(s, p)) = At(s, p)

Totals ==
  \A s \in Sides : \A p \in prices[s] :
    levels[s][p].total_volume = SumOf(Shares(pool))[At(s, p)]

Best ==
  /\ best_bid = IF prices["BUY"] = {} THEN 0 ELSE Max(prices["BUY"])
  /\ best_ask = IF prices["SELL"] = {} THEN MaxPriceTicks ELSE Min(prices["SELL"])

IInv == Types /\ PoolConserved /\ OrdersFound /\ Chains /\ Totals /\ Best

LEMMA InvariantInit == Init => IInv
<1> SUFFICES ASSUME Init PROVE IInv
  OBVIOUS
<1>1. DOMAIN order_map = {} /\ LiveSlots = {}
  BY DEF Init, LiveSlots, Range
<1>2. /\ free_list \in Seq(Slots) /\ DOMAIN free_list = 1 .. MaxOrders
      /\ \A i \in 1 .. MaxOrders : free_list[i] = i - 1
  BY BookAssumption DEF Init, InitialFreeList, Slots
<1>3. PoolConserved
  <2>1. \A n \in Slots : n + 1 \in 1 .. MaxOrders /\ free_list[n + 1] = n
    BY <1>2, BookAssumption DEF Slots
  <2>2. Range(free_list) = Slots
    <3>1. \A i \in 1 .. MaxOrders : i - 1 \in Slots
      BY BookAssumption DEF Slots
    <3> QED
      BY <1>2, <2>1, <3>1 DEF Range
  <2>3. \A i, j \in DOMAIN free_list : free_list[i] = free_list[j] => i = j
    BY <1>2, BookAssumption
  <2> QED
    BY <1>1, <2>2, <2>3 DEF PoolConserved
<1>4. Types
  <2>1. pool \in [Slots -> Nodes]
    BY DEF Init, BlankNode, Nodes, Pointers, Sides
  <2>2. \A s \in Sides : levels[s] \in [prices[s] -> Levels]
    BY DEF Init
  <2> QED
    BY <1>1, <1>2, <2>1, <2>2 DEF Init, Types, Sides
<1> QED
  BY <1>1, <1>3, <1>4 DEF Init, IInv, OrdersFound, Chains, Totals, Best, Sides

-----------------------------------------------------------------------------
(* Facts about any state of the invariant. *)

LEMMA SharesType ==
  ASSUME NEW P \in [Slots -> Nodes]
  PROVE  Shares(P) \in [Slots -> Nat]
BY DEF Shares, Nodes

(* The level's record of a chain leads to live nodes of its side and price. *)
LEMMA LevelFacts ==
  ASSUME IInv, NEW s \in Sides, NEW p \in prices[s]
  PROVE  /\ p \in DOMAIN levels[s] /\ p \in Prices /\ levels[s][p] \in Levels
         /\ levels[s][p].head \in Slots /\ levels[s][p].head # Null
         /\ levels[s][p].tail \in At(s, p)
         /\ Range(NodesAt(s, p)) = At(s, p)
         /\ IsChain(pool, NodesAt(s, p), levels[s][p])
<1>1. /\ p \in DOMAIN levels[s] /\ p \in Prices /\ levels[s][p] \in Levels
  BY DEF IInv, Types
<1>2. IsChain(pool, NodesAt(s, p), levels[s][p]) /\ Range(NodesAt(s, p)) = At(s, p)
  BY DEF IInv, Chains
<1>3. 1 \in 1 .. Len(NodesAt(s, p))
  <2>1. NodesAt(s, p) \in Seq(Slots) /\ Len(NodesAt(s, p)) > 0
    BY <1>2 DEF IsChain
  <2>2. Len(NodesAt(s, p)) \in Nat
    BY <2>1
  <2> QED
    BY <2>1, <2>2
<1>4. levels[s][p].head \in Slots /\ levels[s][p].tail \in Range(NodesAt(s, p))
  BY <1>2, <1>3, ChainEnds
<1> QED
  BY <1>1, <1>2, <1>4, BookAssumption DEF Slots

LEMMA LiveAreSlots ==
  ASSUME IInv
  PROVE  /\ LiveSlots \subseteq Slots
         /\ \A s, p : At(s, p) \subseteq LiveSlots
         /\ \A n \in LiveSlots : /\ pool[n].side \in Sides
                                 /\ pool[n].price \in prices[pool[n].side]
                                 /\ pool[n].quantity \in Nat /\ pool[n].quantity > 0
                                 /\ n \in At(pool[n].side, pool[n].price)
BY DEF IInv, Types, OrdersFound, LiveSlots, Range, At, Nodes

-----------------------------------------------------------------------------
(* add_order. *)

(* The orders on the other nodes stay as they are. *)
SameOrder(P, P2, m) ==
  /\ P2[m].order_id = P[m].order_id /\ P2[m].price = P[m].price
  /\ P2[m].quantity = P[m].quantity /\ P2[m].side = P[m].side

(* The slot taken is a free one, and the free list forgets it. *)
LEMMA AllocatedIsFree ==
  ASSUME IInv, ~Exhausted, Allocate
  PROVE  /\ Allocated \in Slots /\ Allocated \notin LiveSlots
         /\ free_list' \in Seq(Slots)
         /\ \A i, j \in DOMAIN free_list' : free_list'[i] = free_list'[j] => i = j
         /\ Range(free_list') = Range(free_list) \ {Allocated}
<1> DEFINE N == Len(free_list)
<1>1. /\ free_list \in Seq(Slots) /\ N \in Nat /\ N > 0 /\ DOMAIN free_list = 1 .. N
      /\ N \in 1 .. N
  BY DEF IInv, Types, Exhausted
<1>2. /\ free_list' \in Seq(Slots) /\ Len(free_list') = N - 1
      /\ DOMAIN free_list' = 1 .. N - 1
      /\ \A i \in 1 .. N - 1 : free_list'[i] = free_list[i]
  BY <1>1 DEF Allocate
<1>3. \A i, j \in 1 .. N : free_list[i] = free_list[j] => i = j
  BY <1>1 DEF IInv, PoolConserved
<1>4. Allocated = free_list[N] /\ Allocated \in Slots /\ Allocated \in Range(free_list)
  BY <1>1 DEF Allocated, Range
<1>5. Allocated \notin LiveSlots
  BY <1>4 DEF IInv, PoolConserved
<1> HIDE DEF N
<1>6. Range(free_list') = Range(free_list) \ {Allocated}
  <2>1. \A i \in 1 .. N - 1 : i \in 1 .. N /\ i # N
    BY <1>1
  <2>2. \A i \in 1 .. N : i = N \/ i \in 1 .. N - 1
    BY <1>1
  <2> QED
    BY <1>1, <1>2, <1>3, <1>4, <2>1, <2>2 DEF Range
<1>7. \A i, j \in DOMAIN free_list' : free_list'[i] = free_list'[j] => i = j
  <2>1. \A i \in 1 .. N - 1 : i \in 1 .. N
    BY <1>1
  <2> QED
    BY <1>2, <1>3, <2>1
<1> QED
  BY <1>2, <1>4, <1>5, <1>6, <1>7

(* insert_into_level: the new node is written and hung behind the tail. *)
LEMMA AddPool ==
  ASSUME IInv, NEW id \in OrderIds, NEW s \in Sides, NEW p \in Prices, NEW q \in Quantities,
         AddOrder(id, s, p, q), NEW n, n = Allocated
  PROVE  /\ n \in Slots /\ n \notin LiveSlots
         /\ pool' \in [Slots -> Nodes]
         /\ pool'[n].order_id = id /\ pool'[n].price = p
         /\ pool'[n].quantity = q /\ pool'[n].side = s
         /\ pool'[n].next = Null
         /\ pool'[n].prev = IF p \in prices[s] THEN levels[s][p].tail ELSE Null
         /\ \A m \in Slots \ {n} :
              /\ SameOrder(pool, pool', m)
              /\ pool'[m].prev = pool[m].prev
              /\ pool'[m].next = IF p \in prices[s] /\ m = levels[s][p].tail
                                THEN n ELSE pool[m].next
<1> DEFINE node == [order_id |-> id, price |-> p, quantity |-> q, side |-> s,
                    next |-> Null, prev |-> Null]
           level == IF p \in DOMAIN levels[s] THEN levels[s][p] ELSE EmptyLevel
<1>1. pool' = LinkLast(level, n, node) /\ ~Exhausted /\ Allocate
  BY Zenon DEF AddOrder
<1>2. n \in Slots /\ n \notin LiveSlots
  BY <1>1, AllocatedIsFree
<1>3. pool \in [Slots -> Nodes] /\ DOMAIN levels[s] = prices[s]
  BY DEF IInv, Types
<1>4. node \in Nodes
  BY BookAssumption DEF Nodes, Pointers
<1>5. CASE p \in prices[s]
  <2>1. level = levels[s][p] /\ level.head # Null /\ level.tail \in At(s, p)
    BY <1>3, <1>5, LevelFacts
  <2> DEFINE t == level.tail
  <2>2. t \in Slots /\ t # n
    BY <1>2, <2>1, LiveAreSlots
  <2>3. pool' = [pool EXCEPT ![n] = [node EXCEPT !.prev = t], ![t].next = n]
    BY <1>1, <2>1 DEF LinkLast
  <2>4. t \in Pointers /\ n \in Pointers
    BY <1>2, <2>2 DEF Pointers
  <2>5. [node EXCEPT !.prev = t] \in Nodes
    BY <1>4, <2>4 DEF Nodes
  <2>6. [pool[t] EXCEPT !.next = n] \in Nodes
    BY <1>3, <2>2, <2>4 DEF Nodes
  <2>7. /\ DOMAIN pool' = Slots
        /\ pool'[n] = [node EXCEPT !.prev = t]
        /\ pool'[t] = [pool[t] EXCEPT !.next = n]
        /\ \A m \in Slots : m # n /\ m # t => pool'[m] = pool[m]
    <3> HIDE DEF node, t
    <3> QED
      BY <1>2, <1>3, <2>2, <2>3
  <2>8. pool' \in [Slots -> Nodes]
    <3>1. pool' = [m \in Slots |-> pool'[m]]
      BY <1>3, <2>3
    <3>2. \A m \in Slots : pool'[m] \in Nodes
      <4> HIDE DEF node, t
      <4> QED
        BY <1>3, <2>5, <2>6, <2>7
    <3> QED
      BY <3>1, <3>2
  <2>9. ASSUME NEW m \in Slots, m # n
        PROVE  /\ SameOrder(pool, pool', m)
               /\ pool'[m].prev = pool[m].prev
               /\ pool'[m].next = IF m = t THEN n ELSE pool[m].next
    <3> HIDE DEF node, t
    <3>1. pool[m] \in Nodes
      BY <1>3
    <3> QED
      BY <2>7, <2>9, <3>1 DEF Nodes, SameOrder
  <2>10. /\ pool'[n].order_id = id /\ pool'[n].price = p
         /\ pool'[n].quantity = q /\ pool'[n].side = s
         /\ pool'[n].next = Null /\ pool'[n].prev = t
    BY <2>7
  <2> QED
    BY <1>2, <1>5, <2>1, <2>8, <2>9, <2>10
<1>6. CASE p \notin prices[s]
  <2>1. level.head = Null
    BY <1>3, <1>6 DEF EmptyLevel
  <2>2. pool' = [pool EXCEPT ![n] = node]
    <3> HIDE DEF level, node
    <3> QED
      BY <1>1, <2>1 DEF LinkLast
  <2>3. /\ pool' \in [Slots -> Nodes] /\ pool'[n] = node
        /\ \A m \in Slots : m # n => pool'[m] = pool[m]
    <3> HIDE DEF node
    <3> QED
      BY <1>2, <1>3, <1>4, <2>2
  <2>4. /\ pool'[n].order_id = id /\ pool'[n].price = p
        /\ pool'[n].quantity = q /\ pool'[n].side = s
        /\ pool'[n].next = Null /\ pool'[n].prev = Null
    BY <2>3
  <2> HIDE DEF node, level
  <2> QED
    BY <1>2, <1>6, <2>3, <2>4 DEF SameOrder
<1> QED
  BY <1>5, <1>6

(* The map gains the order, and no level but its own gains the node. *)
LEMMA AddMap ==
  ASSUME IInv, NEW id \in OrderIds, NEW s \in Sides, NEW p \in Prices, NEW q \in Quantities,
         AddOrder(id, s, p, q), NEW n, n = Allocated
  PROVE  /\ id \notin DOMAIN order_map
         /\ DOMAIN order_map' = DOMAIN order_map \union {id}
         /\ order_map' \in [DOMAIN order_map' -> Slots]
         /\ order_map'[id] = n
         /\ \A x \in DOMAIN order_map : order_map'[x] = order_map[x]
         /\ LiveSlots' = LiveSlots \union {n}
<1>1. /\ order_map' = [x \in DOMAIN order_map \union {id} |->
                         IF x = id THEN n ELSE order_map[x]]
      /\ id \notin DOMAIN order_map
  BY Zenon DEF AddOrder
<1>2. /\ n \in Slots /\ n \notin LiveSlots
      /\ pool'[n].price = p /\ pool'[n].side = s
      /\ \A m \in Slots \ {n} : SameOrder(pool, pool', m)
  BY AddPool
<1>3. order_map \in [DOMAIN order_map -> Slots]
  BY DEF IInv, Types
<1>4. /\ DOMAIN order_map' = DOMAIN order_map \union {id}
      /\ order_map' \in [DOMAIN order_map' -> Slots]
      /\ order_map'[id] = n
      /\ \A x \in DOMAIN order_map : order_map'[x] = order_map[x]
  BY <1>1, <1>2, <1>3
<1>5. LiveSlots' = LiveSlots \union {n}
  BY <1>4 DEF LiveSlots, Range
<1> QED
  BY <1>1, <1>4, <1>5

LEMMA AddAt ==
  ASSUME IInv, NEW id \in OrderIds, NEW s \in Sides, NEW p \in Prices, NEW q \in Quantities,
         AddOrder(id, s, p, q), NEW n, n = Allocated, NEW t, NEW x
  PROVE  At(t, x)' = IF t = s /\ x = p THEN At(t, x) \union {n} ELSE At(t, x)
<1>1. /\ n \in Slots /\ n \notin LiveSlots
      /\ pool'[n].price = p /\ pool'[n].side = s
      /\ \A m \in Slots \ {n} : SameOrder(pool, pool', m)
  BY AddPool
<1>2. LiveSlots' = LiveSlots \union {n}
  BY AddMap
<1>3. At(t, x)' = {m \in LiveSlots \union {n} : pool'[m].side = t /\ pool'[m].price = x}
  BY <1>2 DEF At
<1>4. \A m \in LiveSlots : pool'[m].side = pool[m].side /\ pool'[m].price = pool[m].price
  BY <1>1, LiveAreSlots DEF SameOrder
<1> QED
  BY <1>1, <1>3, <1>4 DEF At

(* Each level's record, and whether it is there. *)
LEMMA AddLevels ==
  ASSUME IInv, NEW id \in OrderIds, NEW s \in Sides, NEW p \in Prices, NEW q \in Quantities,
         AddOrder(id, s, p, q), NEW n, n = Allocated
  PROVE  /\ prices' \in [Sides -> SUBSET Prices]
         /\ levels' = [t \in Sides |-> levels'[t]]
         /\ \A t \in Sides : /\ prices'[t] = IF t = s THEN prices[t] \union {p} ELSE prices[t]
                             /\ levels'[t] \in [prices'[t] -> Levels]
         /\ \A t \in Sides : \A x \in prices'[t] : t # s \/ x # p =>
                 x \in prices[t] /\ levels'[t][x] = levels[t][x]
         /\ p \in prices'[s] /\ levels'[s][p].tail = n
         /\ levels'[s][p].head = IF p \in prices[s] THEN levels[s][p].head ELSE n
         /\ levels'[s][p].total_volume =
               q + IF p \in prices[s] THEN levels[s][p].total_volume ELSE 0
<1> DEFINE level == IF p \in DOMAIN levels[s] THEN levels[s][p] ELSE EmptyLevel
           new == LevelWith(level, n, q)
<1>1. /\ levels' = [levels EXCEPT ![s] =
              [x \in DOMAIN @ \union {p} |-> IF x = p THEN new ELSE @[x]]]
      /\ prices' = [prices EXCEPT ![s] = @ \union {p}]
  BY Zenon DEF AddOrder
<1>2. /\ prices \in [Sides -> SUBSET Prices] /\ levels = [t \in Sides |-> levels[t]]
      /\ \A t \in Sides : levels[t] \in [prices[t] -> Levels]
      /\ q \in Nat /\ n \in Slots
  BY AddPool, BookAssumption DEF IInv, Types
<1>3. /\ new.tail = n
      /\ new.head = IF p \in prices[s] THEN levels[s][p].head ELSE n
      /\ new.total_volume = q + IF p \in prices[s] THEN levels[s][p].total_volume ELSE 0
      /\ new \in Levels
  <2>1. CASE p \in prices[s]
    <3>1. level = levels[s][p] /\ level \in Levels /\ level.head # Null
      BY <1>2, <2>1, LevelFacts
    <3>2. level.total_volume \in Nat /\ level.head \in Slots
      <4> HIDE DEF level
      <4> QED
        BY <3>1 DEF Levels
    <3>3. new = [total_volume |-> level.total_volume + q, head |-> level.head, tail |-> n]
      <4> HIDE DEF level
      <4> QED
        BY <3>1 DEF LevelWith
    <3> HIDE DEF new
    <3>4. new.tail = n /\ new.head = level.head /\ new.total_volume = q + level.total_volume
      BY <1>2, <3>2, <3>3
    <3>5. new \in Levels
      BY <1>2, <3>2, <3>3 DEF Levels
    <3> QED
      BY <2>1, <3>1, <3>4, <3>5
  <2>2. CASE p \notin prices[s]
    <3>1. level = EmptyLevel
      BY <1>2, <2>2
    <3>2. new = [total_volume |-> 0 + q, head |-> n, tail |-> n]
      <4> HIDE DEF level
      <4> QED
        BY <3>1 DEF LevelWith, EmptyLevel
    <3> HIDE DEF new
    <3> QED
      BY <1>2, <2>2, <3>2 DEF Levels
  <2> QED
    BY <2>1, <2>2
<1> HIDE DEF new
<1>4. \A t \in Sides : prices'[t] = IF t = s THEN prices[t] \union {p} ELSE prices[t]
  BY <1>1, <1>2
<1>5. levels' = [t \in Sides |-> levels'[t]]
  BY <1>1, <1>2
<1>6. ASSUME NEW t \in Sides
      PROVE  levels'[t] = IF t = s THEN [x \in prices[s] \union {p} |->
                                           IF x = p THEN new ELSE levels[s][x]]
                          ELSE levels[t]
  <2>1. DOMAIN levels[s] = prices[s]
    BY <1>2
  <2> QED
    BY <1>1, <1>2, <2>1
<1>7. \A t \in Sides : levels'[t] \in [prices'[t] -> Levels]
  BY <1>2, <1>3, <1>4, <1>6, ZenonT(60)
<1>8. prices' \in [Sides -> SUBSET Prices]
  BY <1>1, <1>2
<1>9. levels'[s][p] = new
  BY <1>6
<1>10. \A t \in Sides : \A x \in prices'[t] : t # s \/ x # p =>
                 x \in prices[t] /\ levels'[t][x] = levels[t][x]
  BY <1>4, <1>6, ZenonT(60)
<1> QED
  BY <1>3, <1>4, <1>5, <1>7, <1>8, <1>9, <1>10

(* The new order stands last on its level, and the other lists stay. *)
LEMMA AddNodes ==
  ASSUME IInv, NEW id \in OrderIds, NEW s \in Sides, NEW p \in Prices, NEW q \in Quantities,
         AddOrder(id, s, p, q), NEW n, n = Allocated, NEW t \in Sides, NEW x \in prices'[t]
  PROVE  /\ NodesAt(t, x)' =
               IF t = s /\ x = p
               THEN IF p \in prices[s] THEN Append(NodesAt(s, p), n) ELSE <<n>>
               ELSE NodesAt(t, x)
         /\ IsChain(pool', NodesAt(t, x)', levels'[t][x])
         /\ Range(NodesAt(t, x)') = At(t, x)'
<1>1. /\ n \in Slots /\ n \notin LiveSlots
      /\ pool'[n].next = Null
      /\ pool'[n].prev = IF p \in prices[s] THEN levels[s][p].tail ELSE Null
      /\ \A m \in Slots \ {n} :
            /\ pool'[m].prev = pool[m].prev
            /\ pool'[m].next = IF p \in prices[s] /\ m = levels[s][p].tail
                              THEN n ELSE pool[m].next
  BY AddPool
<1>2. At(t, x)' = IF t = s /\ x = p THEN At(t, x) \union {n} ELSE At(t, x)
  BY AddAt
<1>3. /\ levels'[t] \in [prices'[t] -> Levels]
      /\ t # s \/ x # p => x \in prices[t] /\ levels'[t][x] = levels[t][x]
      /\ levels'[s][p].tail = n
      /\ levels'[s][p].head = IF p \in prices[s] THEN levels[s][p].head ELSE n
  <2>1. \A u \in Sides : levels'[u] \in [prices'[u] -> Levels]
    BY AddLevels
  <2>2. \A u \in Sides : \A y \in prices'[u] : u # s \/ y # p =>
          y \in prices[u] /\ levels'[u][y] = levels[u][y]
    BY AddLevels
  <2>3. /\ levels'[s][p].tail = n
        /\ levels'[s][p].head = IF p \in prices[s] THEN levels[s][p].head ELSE n
    BY AddLevels
  <2> QED
    BY <2>1, <2>2, <2>3
<1>4. x \in DOMAIN levels'[t]
  BY <1>3
<1>5. ASSUME NEW c, IsChain(pool', c, levels'[t][x]) PROVE NodesAt(t, x)' = c
  BY <1>4, <1>5, NodesFollowNext DEF NodesAreChains
<1>6. CASE t = s /\ x = p /\ p \in prices[s]
  <2>1. PICK c : c = NodesAt(s, p)
    OBVIOUS
  <2>2. IsChain(pool, c, levels[s][p]) /\ Range(c) = At(s, p)
    BY <1>6, <2>1, LevelFacts
  <2>3. Range(c) \subseteq Slots /\ n \notin Range(c)
    BY <1>1, <2>2, LiveAreSlots
  <2>4. /\ IsChain(pool', Append(c, n), levels'[s][p])
        /\ Range(Append(c, n)) = Range(c) \union {n}
    <3>1. /\ pool'[n].prev = levels[s][p].tail
          /\ \A m \in Range(c) : /\ pool'[m].prev = pool[m].prev
                                 /\ pool'[m].next = IF m = levels[s][p].tail
                                                   THEN n ELSE pool[m].next
      BY <1>1, <1>6, <2>3
    <3>2. levels'[s][p].tail = n /\ levels'[s][p].head = levels[s][p].head
      BY <1>3, <1>6
    <3> QED
      BY <1>1, <2>2, <2>3, <3>1, <3>2, ChainAppended
  <2> QED
    BY <1>2, <1>5, <1>6, <2>1, <2>2, <2>4
<1>7. CASE t = s /\ x = p /\ p \notin prices[s]
  <2>1. IsChain(pool', <<n>>, levels'[s][p]) /\ Range(<<n>>) = {n}
    <3>1. /\ pool'[n].next = Null /\ pool'[n].prev = Null
          /\ levels'[s][p].head = n /\ levels'[s][p].tail = n
      BY <1>1, <1>3, <1>7
    <3> QED
      BY <1>1, <3>1, ChainStarted
  <2>2. At(s, p) = {}
    BY <1>7, LiveAreSlots DEF At
  <2> QED
    BY <1>2, <1>5, <1>7, <2>1, <2>2
<1>8. CASE t # s \/ x # p
  <2>1. PICK c : c = NodesAt(t, x)
    OBVIOUS
  <2>2. IsChain(pool, c, levels[t][x]) /\ Range(c) = At(t, x)
    BY <1>3, <1>8, <2>1, LevelFacts
  <2>3. \A m \in Range(c) : m \in Slots \ {n} /\ (p \in prices[s] => m # levels[s][p].tail)
    <3>1. ASSUME p \in prices[s] PROVE levels[s][p].tail \notin At(t, x)
      BY <1>8, <3>1, LevelFacts DEF At
    <3> QED
      BY <1>1, <2>2, <3>1, LiveAreSlots
  <2>4. IsChain(pool', c, levels'[t][x])
    <3>1. \A m \in Range(c) : pool'[m].next = pool[m].next /\ pool'[m].prev = pool[m].prev
      BY <1>1, <2>3
    <3>2. levels'[t][x] = levels[t][x]
      BY <1>3, <1>8
    <3> QED
      BY <2>2, <3>1, <3>2, ChainKept
  <2> QED
    BY <1>2, <1>5, <1>8, <2>1, <2>2, <2>4
<1> QED
  BY <1>6, <1>7, <1>8

LEMMA AddStep ==
  ASSUME IInv, NEW id \in OrderIds, NEW s \in Sides, NEW p \in Prices, NEW q \in Quantities,
         AddOrder(id, s, p, q)
  PROVE  IInv'
<1>0. PICK n : n = Allocated
  OBVIOUS
<1>1. /\ n \in Slots /\ n \notin LiveSlots
      /\ pool' \in [Slots -> Nodes]
      /\ pool'[n].order_id = id /\ pool'[n].price = p
      /\ pool'[n].quantity = q /\ pool'[n].side = s
      /\ \A m \in Slots \ {n} : SameOrder(pool, pool', m)
  BY <1>0, AddPool
<1>2. /\ ~Exhausted /\ Allocate /\ UpdateBestPrices /\ running' = running
      /\ ValidPrice(p) /\ q # 0
  BY Zenon DEF AddOrder
<1>3. /\ id \notin DOMAIN order_map
      /\ DOMAIN order_map' = DOMAIN order_map \union {id}
      /\ order_map' \in [DOMAIN order_map' -> Slots]
      /\ order_map'[id] = n
      /\ \A x \in DOMAIN order_map : order_map'[x] = order_map[x]
      /\ LiveSlots' = LiveSlots \union {n}
  BY <1>0, AddMap
<1>4. /\ prices' \in [Sides -> SUBSET Prices]
      /\ levels' = [t \in Sides |-> levels'[t]]
      /\ \A t \in Sides : /\ prices'[t] = IF t = s THEN prices[t] \union {p} ELSE prices[t]
                          /\ levels'[t] \in [prices'[t] -> Levels]
  BY <1>0, AddLevels
<1>5. /\ free_list' \in Seq(Slots)
      /\ \A i, j \in DOMAIN free_list' : free_list'[i] = free_list'[j] => i = j
      /\ Range(free_list') = Range(free_list) \ {n}
  BY <1>0, <1>2, AllocatedIsFree
<1>6. /\ DOMAIN order_map \subseteq OrderIds /\ running \in BOOLEAN
      /\ \A x \in DOMAIN order_map : order_map[x] \in LiveSlots
  BY DEF IInv, Types, LiveSlots, Range
<1>7. Types'
  BY <1>1, <1>2, <1>3, <1>4, <1>5, <1>6 DEF Types
<1>8. PoolConserved'
  <2>1. \A a, b \in DOMAIN order_map' : order_map'[a] = order_map'[b] => a = b
    BY <1>1, <1>3, <1>6 DEF IInv, PoolConserved
  <2>2. Range(free_list') \intersect LiveSlots' = {}
    BY <1>3, <1>5 DEF IInv, PoolConserved
  <2>3. Range(free_list') \union LiveSlots' = Slots
    BY <1>1, <1>3, <1>5 DEF IInv, PoolConserved
  <2>4. Range(free_list)' = Range(free_list')
    BY DEF Range
  <2> QED
    BY <1>5, <2>1, <2>2, <2>3, <2>4 DEF PoolConserved
<1>9. OrdersFound'
  <2>1. ASSUME NEW x \in DOMAIN order_map
        PROVE  /\ pool'[order_map'[x]].order_id = x
               /\ pool'[order_map'[x]].quantity > 0
               /\ pool'[order_map'[x]].price \in prices'[pool'[order_map'[x]].side]
    <3>1. /\ order_map'[x] = order_map[x] /\ order_map[x] \in LiveSlots
          /\ SameOrder(pool, pool', order_map[x])
      BY <1>1, <1>3, <1>6, LiveAreSlots
    <3>2. /\ pool[order_map[x]].order_id = x /\ pool[order_map[x]].quantity > 0
          /\ pool[order_map[x]].price \in prices[pool[order_map[x]].side]
          /\ pool[order_map[x]].side \in Sides
      BY <3>1, LiveAreSlots DEF IInv, OrdersFound
    <3> QED
      BY <1>4, <3>1, <3>2 DEF SameOrder
  <2>2. q > 0 /\ p \in prices'[s]
    BY <1>2, <1>4, BookAssumption
  <2> QED
    BY <1>1, <1>3, <2>1, <2>2 DEF OrdersFound
<1>10. Chains'
  <2> SUFFICES ASSUME NEW t \in Sides, NEW x \in prices'[t]
               PROVE  /\ ValidPrice(x)
                      /\ IsChain(pool', NodesAt(t, x)', levels'[t][x])
                      /\ Range(NodesAt(t, x)') = At(t, x)'
    BY DEF Chains, ValidPrice
  <2>1. IsChain(pool', NodesAt(t, x)', levels'[t][x]) /\ Range(NodesAt(t, x)') = At(t, x)'
    BY <1>0, AddNodes
  <2>2. x \in prices[t] \/ x = p
    BY <1>4
  <2>3. ValidPrice(x)
    BY <1>2, <2>2 DEF IInv, Chains
  <2> QED
    BY <2>1, <2>3
<1>11. Totals'
  <2> SUFFICES ASSUME NEW t \in Sides, NEW x \in prices'[t]
               PROVE  levels'[t][x].total_volume = SumOf(Shares(pool'))[At(t, x)']
    BY DEF Totals
  <2>1. Shares(pool) \in [Slots -> Nat] /\ Shares(pool') \in [Slots -> Nat]
    BY <1>1, SharesType DEF IInv, Types
  <2>2. At(t, x) \in SUBSET Slots /\ n \notin At(t, x)
    BY <1>1, LiveAreSlots
  <2>3. \A m \in At(t, x) : pool'[m].quantity = pool[m].quantity
    BY <1>1, <2>2 DEF SameOrder
  <2>4. x \in prices[t] => levels[t][x].total_volume = SumOf(Shares(pool))[At(t, x)]
    BY DEF IInv, Totals
  <2>5. CASE t = s /\ x = p
    <3>1. At(t, x)' = At(t, x) \union {n}
      BY <1>0, <2>5, AddAt
    <3>2. SumOf(Shares(pool'))[At(t, x) \union {n}] =
            pool'[n].quantity + SumOf(Shares(pool))[At(t, x)]
      <4>1. PICK S : S = At(t, x)
        OBVIOUS
      <4>2. PICK P : P = pool
        OBVIOUS
      <4>3. PICK P2 : P2 = pool'
        OBVIOUS
      <4>4. /\ Shares(P) \in [Slots -> Nat] /\ Shares(P2) \in [Slots -> Nat]
            /\ S \in SUBSET Slots /\ n \in Slots /\ n \notin S
            /\ \A m \in S : P2[m].quantity = P[m].quantity
        BY <1>1, <2>1, <2>2, <2>3, <4>1, <4>2, <4>3
      <4>5. SumOf(Shares(P2))[S \union {n}] = P2[n].quantity + SumOf(Shares(P))[S]
        BY <4>4, SumAdded
      <4> QED
        BY <4>1, <4>2, <4>3, <4>5
    <3>3. x \notin prices[t] => SumOf(Shares(pool))[At(t, x)] = 0
      <4>1. x \notin prices[t] => At(t, x) = {}
        BY LiveAreSlots DEF At
      <4> QED
        BY <2>1, <4>1, SumOfIsSum DEF IsSum
    <3>4. levels'[s][p].total_volume =
            q + IF p \in prices[s] THEN levels[s][p].total_volume ELSE 0
      BY <1>0, AddLevels
    <3> QED
      BY <1>1, <2>4, <2>5, <3>1, <3>2, <3>3, <3>4
  <2>6. CASE t # s \/ x # p
    <3>1. At(t, x)' = At(t, x)
      BY <1>0, <2>6, AddAt
    <3>2. \A u \in Sides : \A y \in prices'[u] : u # s \/ y # p =>
            y \in prices[u] /\ levels'[u][y] = levels[u][y]
      BY <1>0, AddLevels
    <3>3. \A m \in At(t, x) : Shares(pool')[m] = Shares(pool)[m]
      BY <2>2, <2>3 DEF Shares
    <3>4. SumOf(Shares(pool'))[At(t, x)] = SumOf(Shares(pool))[At(t, x)]
      BY <2>1, <2>2, <3>3, SumCongruence
    <3> QED
      BY <2>4, <2>6, <3>1, <3>2, <3>4
  <2> QED
    BY <2>5, <2>6
<1>12. Best'
  BY <1>2 DEF Best, UpdateBestPrices
<1> QED
  BY <1>7, <1>8, <1>9, <1>10, <1>11, <1>12 DEF IInv

-----------------------------------------------------------------------------
(* A cancel or an execution that leaves shares on the order. *)

LEMMA ShrinkNodes ==
  ASSUME IInv, NEW n \in LiveSlots, NEW q \in Nat, q < pool[n].quantity,
         Shrink(n, q), NEW s, NEW p, s = pool[n].side, p = pool[n].price
  PROVE  /\ pool' \in [Slots -> Nodes]
         /\ \A m \in Slots : m # n => pool'[m] = pool[m]
         /\ pool'[n].order_id = pool[n].order_id
         /\ pool'[n].quantity = pool[n].quantity - q
         /\ \A m \in Slots : /\ pool'[m].side = pool[m].side
                             /\ pool'[m].price = pool[m].price
                             /\ pool'[m].next = pool[m].next
                             /\ pool'[m].prev = pool[m].prev
         /\ LiveSlots' = LiveSlots
         /\ \A t, x : At(t, x)' = At(t, x)
<1>1. pool \in [Slots -> Nodes] /\ n \in Slots /\ pool[n] \in Nodes
  BY LiveAreSlots DEF IInv, Types
<1>2. pool' = [pool EXCEPT ![n] = [pool[n] EXCEPT !.quantity = @ - q]]
  BY DEF Shrink
<1> DEFINE node == [pool[n] EXCEPT !.quantity = @ - q]
<1>3. /\ node \in Nodes /\ node.order_id = pool[n].order_id
      /\ node.quantity = pool[n].quantity - q /\ node.side = pool[n].side
      /\ node.price = pool[n].price /\ node.next = pool[n].next /\ node.prev = pool[n].prev
  <2>1. pool[n].quantity \in Nat /\ pool[n].quantity - q \in Nat
    BY <1>1 DEF Nodes
  <2>2. node = [order_id |-> pool[n].order_id, price |-> pool[n].price,
                quantity |-> pool[n].quantity - q, side |-> pool[n].side,
                next |-> pool[n].next, prev |-> pool[n].prev]
    BY <1>1 DEF Nodes
  <2> HIDE DEF node
  <2> QED
    BY <1>1, <2>1, <2>2 DEF Nodes
<1> HIDE DEF node
<1>4. /\ pool' \in [Slots -> Nodes] /\ pool'[n] = node
      /\ \A m \in Slots : m # n => pool'[m] = pool[m]
  BY <1>1, <1>2, <1>3 DEF node
<1>5. LiveSlots' = LiveSlots
  BY DEF Shrink, LiveSlots, Range
<1>6. \A m \in Slots : /\ pool'[m].side = pool[m].side
                       /\ pool'[m].price = pool[m].price
                       /\ pool'[m].next = pool[m].next
                       /\ pool'[m].prev = pool[m].prev
  BY <1>3, <1>4
<1>7. ASSUME NEW t, NEW x PROVE At(t, x)' = At(t, x)
  BY <1>5, <1>6, LiveAreSlots DEF At
<1> QED
  BY <1>3, <1>4, <1>5, <1>6, <1>7

LEMMA ShrinkLevels ==
  ASSUME IInv, NEW n \in LiveSlots, NEW q \in Nat, q < pool[n].quantity,
         Shrink(n, q), NEW s, NEW p, s = pool[n].side, p = pool[n].price
  PROVE  /\ levels' = [t \in Sides |-> levels'[t]]
         /\ \A t \in Sides : \A x \in prices[t] :
              /\ levels'[t][x].head = levels[t][x].head
              /\ levels'[t][x].tail = levels[t][x].tail
              /\ levels'[t][x].total_volume = SumOf(Shares(pool'))[At(t, x)]
         /\ \A t \in Sides : levels'[t] \in [prices[t] -> Levels]
<1>1. s \in Sides /\ p \in prices[s] /\ n \in At(s, p)
  BY LiveAreSlots
<1>2. levels' = [levels EXCEPT ![s][p].total_volume = @ - q]
  BY DEF Shrink
<1>3. /\ levels = [t \in Sides |-> levels[t]]
      /\ \A t \in Sides : levels[t] \in [prices[t] -> Levels]
      /\ \A t \in Sides : \A x \in prices[t] :
            levels[t][x].total_volume = SumOf(Shares(pool))[At(t, x)]
  BY DEF IInv, Types, Totals
<1> DEFINE record == [levels[s][p] EXCEPT !.total_volume = @ - q]
<1>4. levels' = [levels EXCEPT ![s] = [levels[s] EXCEPT ![p] = record]]
  BY <1>2
<1> HIDE DEF record
<1>5. /\ levels' = [t \in Sides |-> levels'[t]]
      /\ levels'[s] = [levels[s] EXCEPT ![p] = record]
      /\ \A t \in Sides : t # s => levels'[t] = levels[t]
  BY <1>1, <1>3, <1>4
<1>6. /\ levels'[s][p] = record
      /\ \A t \in Sides : \A x \in prices[t] : t # s \/ x # p => levels'[t][x] = levels[t][x]
  BY <1>1, <1>3, <1>5
<1>7. ASSUME NEW t \in Sides, NEW x \in prices[t]
      PROVE  SumOf(Shares(pool'))[At(t, x)] =
               SumOf(Shares(pool))[At(t, x)] - IF t = s /\ x = p THEN q ELSE 0
  <2>1. PICK S : S = At(t, x)
    OBVIOUS
  <2>2. PICK P : P = pool
    OBVIOUS
  <2>3. PICK P2 : P2 = pool'
    OBVIOUS
  <2>4. P \in [Slots -> Nodes] /\ P2 \in [Slots -> Nodes]
    BY <2>2, <2>3, ShrinkNodes DEF IInv, Types
  <2>5. Shares(P) \in [Slots -> Nat] /\ Shares(P2) \in [Slots -> Nat]
    BY <2>4, SharesType
  <2>6. /\ S \in SUBSET Slots
        /\ n \in S <=> t = s /\ x = p
        /\ \A m \in S \ {n} : P2[m].quantity = P[m].quantity
        /\ P2[n].quantity = P[n].quantity - q
    BY <1>1, <2>1, <2>2, <2>3, ShrinkNodes, LiveAreSlots DEF At
  <2>7. CASE t = s /\ x = p
    <3>1. SumOf(Shares(P2))[S] = SumOf(Shares(P))[S] - q
      BY <2>5, <2>6, <2>7, SumReduced
    <3> QED
      BY <2>1, <2>2, <2>3, <2>7, <3>1
  <2>8. CASE ~(t = s /\ x = p)
    <3>1. \A m \in S : Shares(P2)[m] = Shares(P)[m]
      BY <2>6, <2>8 DEF Shares
    <3>2. SumOf(Shares(P2))[S] = SumOf(Shares(P))[S]
      BY <2>5, <2>6, <3>1, SumCongruence
    <3>3. SumOf(Shares(P))[S] \in Nat
      BY <2>5, <2>6, SumOfIsSum DEF IsSum
    <3> QED
      BY <2>1, <2>2, <2>3, <2>8, <3>2, <3>3
  <2> QED
    BY <2>7, <2>8
<1>8. SumOf(Shares(pool'))[At(s, p)] \in Nat
  <2>1. Shares(pool') \in [Slots -> Nat]
    BY ShrinkNodes, SharesType
  <2>2. At(s, p) \in SUBSET Slots
    BY LiveAreSlots
  <2> QED
    BY <2>1, <2>2, SumOfIsSum DEF IsSum
<1>9. /\ record.head = levels[s][p].head /\ record.tail = levels[s][p].tail
      /\ record.total_volume = SumOf(Shares(pool'))[At(s, p)]
      /\ record \in Levels
  <2>1. levels[s][p] \in Levels
    BY <1>1, <1>3
  <2>2. record = [total_volume |-> levels[s][p].total_volume - q,
                  head |-> levels[s][p].head, tail |-> levels[s][p].tail]
    BY <2>1 DEF record, Levels
  <2>3. levels[s][p].total_volume - q = SumOf(Shares(pool'))[At(s, p)]
    BY <1>1, <1>3, <1>7
  <2> QED
    BY <1>8, <2>1, <2>2, <2>3 DEF Levels
<1>10. ASSUME NEW t \in Sides, NEW x \in prices[t]
       PROVE  /\ levels'[t][x].head = levels[t][x].head
              /\ levels'[t][x].tail = levels[t][x].tail
              /\ levels'[t][x].total_volume = SumOf(Shares(pool'))[At(t, x)]
  <2>1. CASE t = s /\ x = p
    BY <1>6, <1>9, <2>1
  <2>2. CASE ~(t = s /\ x = p)
    <3>1. levels'[t][x] = levels[t][x] /\ levels[t][x].total_volume = SumOf(Shares(pool))[At(t, x)]
      BY <1>3, <1>6, <2>2
    <3>2. SumOf(Shares(pool'))[At(t, x)] = SumOf(Shares(pool))[At(t, x)] - 0
      BY <1>7, <2>2
    <3>3. levels[t][x].total_volume \in Nat
      BY <1>3 DEF Levels
    <3> QED
      BY <3>1, <3>2, <3>3
  <2> QED
    BY <2>1, <2>2
<1>11. \A t \in Sides : levels'[t] \in [prices[t] -> Levels]
  BY <1>1, <1>3, <1>5, <1>9
<1> QED
  BY <1>5, <1>10, <1>11

LEMMA ShrinkStep ==
  ASSUME IInv, NEW n \in LiveSlots, NEW q \in Nat, q < pool[n].quantity, Shrink(n, q),
         running' = running
  PROVE  /\ IInv'
         /\ \A t \in Sides : \A x \in prices[t] : NodesAt(t, x)' = NodesAt(t, x)
<1>1. PICK s : s = pool[n].side
  OBVIOUS
<1>2. PICK p : p = pool[n].price
  OBVIOUS
<1>3. /\ pool' \in [Slots -> Nodes]
      /\ \A m \in Slots : m # n => pool'[m] = pool[m]
      /\ pool'[n].order_id = pool[n].order_id
      /\ pool'[n].quantity = pool[n].quantity - q
      /\ \A m \in Slots : /\ pool'[m].side = pool[m].side
                          /\ pool'[m].price = pool[m].price
                          /\ pool'[m].next = pool[m].next
                          /\ pool'[m].prev = pool[m].prev
      /\ LiveSlots' = LiveSlots
  BY <1>1, <1>2, ShrinkNodes
<1>4. \A t, x : At(t, x)' = At(t, x)
  BY <1>1, <1>2, ShrinkNodes
<1>5. /\ levels' = [t \in Sides |-> levels'[t]]
      /\ \A t \in Sides : \A x \in prices[t] :
            /\ levels'[t][x].head = levels[t][x].head
            /\ levels'[t][x].tail = levels[t][x].tail
            /\ levels'[t][x].total_volume = SumOf(Shares(pool'))[At(t, x)]
  BY <1>1, <1>2, ShrinkLevels
<1>6. \A t \in Sides : levels'[t] \in [prices[t] -> Levels]
  BY <1>1, <1>2, ShrinkLevels
<1>7. UNCHANGED <<free_list, order_map, prices, best_bid, best_ask, running>>
  BY DEF Shrink
<1>8. Types'
  BY <1>3, <1>5, <1>6, <1>7 DEF IInv, Types
<1>9. PoolConserved'
  BY <1>3, <1>7 DEF IInv, PoolConserved, Range
<1>10. OrdersFound'
  <2> SUFFICES ASSUME NEW id \in DOMAIN order_map
               PROVE  /\ pool'[order_map[id]].order_id = id
                      /\ pool'[order_map[id]].quantity > 0
                      /\ pool'[order_map[id]].price \in prices[pool'[order_map[id]].side]
    BY <1>7 DEF OrdersFound
  <2>1. order_map[id] \in Slots
    BY DEF IInv, Types
  <2>2. /\ pool[order_map[id]].order_id = id /\ pool[order_map[id]].quantity > 0
        /\ pool[order_map[id]].price \in prices[pool[order_map[id]].side]
    BY DEF IInv, OrdersFound
  <2>3. pool'[order_map[id]].order_id = id
    BY <1>3, <2>1, <2>2
  <2>4. pool'[order_map[id]].quantity > 0
    <3>1. pool[n].quantity \in Nat
      BY LiveAreSlots
    <3> QED
      BY <1>3, <2>1, <2>2, <3>1
  <2> QED
    BY <1>3, <2>1, <2>2, <2>3, <2>4
<1>11. ASSUME NEW t \in Sides, NEW x \in prices[t]
       PROVE  IsChain(pool', NodesAt(t, x), levels'[t][x]) /\ NodesAt(t, x)' = NodesAt(t, x)
  <2>1. PICK c : c = NodesAt(t, x)
    OBVIOUS
  <2>2. IsChain(pool, c, levels[t][x]) /\ Range(c) = At(t, x)
    BY <2>1, LevelFacts
  <2>3. \A m \in Range(c) : pool'[m].next = pool[m].next /\ pool'[m].prev = pool[m].prev
    BY <1>3, <2>2, LiveAreSlots
  <2>4. levels'[t][x].head = levels[t][x].head /\ levels'[t][x].tail = levels[t][x].tail
    BY <1>5
  <2>5. IsChain(pool', c, levels'[t][x])
    BY <2>2, <2>3, <2>4, ChainKept
  <2>6. x \in DOMAIN levels'[t]
    BY <1>6
  <2>7. NodesAt(t, x)' = c
    BY <2>5, <2>6, NodesFollowNext DEF NodesAreChains
  <2> QED
    BY <2>1, <2>5, <2>7
<1>12. Chains'
  <2> SUFFICES ASSUME NEW t \in Sides, NEW x \in prices[t]
               PROVE  /\ ValidPrice(x)
                      /\ IsChain(pool', NodesAt(t, x)', levels'[t][x])
                      /\ Range(NodesAt(t, x)') = At(t, x)'
    BY <1>7 DEF Chains, ValidPrice
  <2>1. ValidPrice(x) /\ Range(NodesAt(t, x)) = At(t, x)
    BY DEF IInv, Chains
  <2> QED
    BY <1>4, <1>11, <2>1
<1>13. Totals'
  BY <1>4, <1>5, <1>7 DEF Totals
<1>14. Best'
  BY <1>7 DEF IInv, Best
<1> QED
  BY <1>8, <1>9, <1>10, <1>11, <1>12, <1>13, <1>14 DEF IInv

-----------------------------------------------------------------------------
(* A cancel or an execution that takes the whole order. *)

(* Node n is the k-th of its level. *)
StandsAt(n, s, p, k) == k \in 1 .. Len(NodesAt(s, p)) /\ n = NodesAt(s, p)[k]

(* The node among those of its level. *)
LEMMA PlaceInLevel ==
  ASSUME IInv, NEW n \in LiveSlots, NEW s, NEW p, s = pool[n].side, p = pool[n].price
  PROVE  /\ s \in Sides /\ p \in prices[s] /\ n \in At(s, p)
         /\ \E k : StandsAt(n, s, p, k)
<1>1. s \in Sides /\ p \in prices[s] /\ n \in At(s, p)
  BY LiveAreSlots
<1>2. n \in Range(NodesAt(s, p)) /\ NodesAt(s, p) \in Seq(Slots)
  BY <1>1, LevelFacts DEF IsChain
<1> QED
  BY <1>1, <1>2 DEF Range, StandsAt

(* remove_from_level: the node is blank and its neighbours are joined. *)
LEMMA RemovePool ==
  ASSUME IInv, NEW id \in DOMAIN order_map, NEW n, n = order_map[id], Remove(id, n)
  PROVE  /\ n \in LiveSlots
         /\ pool' \in [Slots -> Nodes]
         /\ \A m \in Slots \ {n} :
              /\ SameOrder(pool, pool', m)
              /\ pool'[m].next = IF m = pool[n].prev THEN pool[n].next ELSE pool[m].next
              /\ pool'[m].prev = IF m = pool[n].next THEN pool[n].prev ELSE pool[m].prev
<1>1. pool' = Unlink(n)
  BY DEF Remove
<1>2. pool \in [Slots -> Nodes] /\ n \in LiveSlots /\ n \in Slots
  BY LiveAreSlots DEF IInv, Types, LiveSlots, Range
<1>3. BlankNode \in Nodes
  BY DEF BlankNode, Nodes, Pointers, Sides
<1>4. ASSUME NEW m \in Slots, m # n
      PROVE  /\ pool'[m] \in Nodes
             /\ SameOrder(pool, pool', m)
             /\ pool'[m].next = IF m = pool[n].prev THEN pool[n].next ELSE pool[m].next
             /\ pool'[m].prev = IF m = pool[n].next THEN pool[n].prev ELSE pool[m].prev
  <2>1. pool[m] \in Nodes /\ pool[n] \in Nodes
    BY <1>2
  <2> DEFINE nx == IF m = pool[n].prev THEN pool[n].next ELSE pool[m].next
             pv == IF m = pool[n].next THEN pool[n].prev ELSE pool[m].prev
  <2>2. nx \in Pointers /\ pv \in Pointers
    BY <2>1 DEF Nodes
  <2>3. pool'[m] = [pool[m] EXCEPT !.next = nx, !.prev = pv]
    BY <1>1, <1>4 DEF Unlink
  <2> HIDE DEF nx, pv
  <2>4. pool'[m] = [order_id |-> pool[m].order_id, price |-> pool[m].price,
                    quantity |-> pool[m].quantity, side |-> pool[m].side,
                    next |-> nx, prev |-> pv]
    BY <2>1, <2>3 DEF Nodes
  <2>5. pool'[m] \in Nodes
    BY <2>1, <2>2, <2>4 DEF Nodes
  <2>6. SameOrder(pool, pool', m) /\ pool'[m].next = nx /\ pool'[m].prev = pv
    BY <2>4 DEF SameOrder
  <2> QED
    BY <2>5, <2>6 DEF nx, pv
<1>5. pool' \in [Slots -> Nodes]
  <2>1. pool' = [m \in Slots |-> pool'[m]] /\ pool'[n] = BlankNode
    BY <1>1, <1>2 DEF Unlink
  <2>2. \A m \in Slots : pool'[m] \in Nodes
    BY <1>3, <1>4, <2>1
  <2> QED
    BY <2>1, <2>2
<1> QED
  BY <1>2, <1>4, <1>5

LEMMA RemoveMap ==
  ASSUME IInv, NEW id \in DOMAIN order_map, NEW n, n = order_map[id], Remove(id, n)
  PROVE  /\ DOMAIN order_map' = DOMAIN order_map \ {id}
         /\ order_map' \in [DOMAIN order_map' -> Slots]
         /\ \A x \in DOMAIN order_map \ {id} : order_map'[x] = order_map[x]
         /\ LiveSlots' = LiveSlots \ {n}
<1>1. order_map' = Restrict(order_map, DOMAIN order_map \ {id})
  BY DEF Remove
<1>2. order_map \in [DOMAIN order_map -> Slots]
  BY DEF IInv, Types
<1>3. /\ DOMAIN order_map' = DOMAIN order_map \ {id}
      /\ order_map' \in [DOMAIN order_map' -> Slots]
      /\ \A x \in DOMAIN order_map \ {id} : order_map'[x] = order_map[x]
  BY <1>1, <1>2 DEF Restrict
<1>4. \A x \in DOMAIN order_map : order_map[x] = n => x = id
  BY DEF IInv, PoolConserved
<1>5. LiveSlots' = LiveSlots \ {n}
  BY <1>3, <1>4 DEF LiveSlots, Range
<1> QED
  BY <1>3, <1>5

LEMMA RemoveAtLevel ==
  ASSUME IInv, NEW id \in DOMAIN order_map, NEW n, n = order_map[id], Remove(id, n),
         NEW s, NEW p, s = pool[n].side, p = pool[n].price, NEW t, NEW x
  PROVE  At(t, x)' = IF t = s /\ x = p THEN At(t, x) \ {n} ELSE At(t, x)
<1>1. n \in LiveSlots /\ \A m \in Slots \ {n} : SameOrder(pool, pool', m)
  BY RemovePool
<1>2. LiveSlots' = LiveSlots \ {n}
  BY RemoveMap
<1>3. At(t, x)' = {m \in LiveSlots \ {n} : pool'[m].side = t /\ pool'[m].price = x}
  BY <1>2 DEF At
<1>4. \A m \in LiveSlots \ {n} : pool'[m].side = pool[m].side /\ pool'[m].price = pool[m].price
  BY <1>1, LiveAreSlots DEF SameOrder
<1> QED
  BY <1>1, <1>3, <1>4 DEF At

(* The record of the level without the node, which is gone when that was   *)
(* the only one.                                                           *)
LEMMA RemoveLevels ==
  ASSUME IInv, NEW id \in DOMAIN order_map, NEW n, n = order_map[id], Remove(id, n),
         NEW s, NEW p, s = pool[n].side, p = pool[n].price,
         NEW alone, alone = (Len(NodesAt(s, p)) = 1)
  PROVE  /\ prices' \in [Sides -> SUBSET Prices]
         /\ levels' = [t \in Sides |-> levels'[t]]
         /\ \A t \in Sides : /\ prices'[t] = IF t = s /\ alone THEN prices[t] \ {p} ELSE prices[t]
                             /\ DOMAIN levels'[t] = prices'[t]
                             /\ levels'[t] = [x \in DOMAIN levels'[t] |-> levels'[t][x]]
         /\ \A t \in Sides : \A x \in prices'[t] : t # s \/ x # p => levels'[t][x] = levels[t][x]
         /\ ~alone => levels'[s][p] = LevelWithout(levels[s][p], n)
<1> DEFINE level == LevelWithout(levels[s][p], n)
           emptied == level.head = Null
<1>1. /\ levels' = [levels EXCEPT ![s] =
              IF emptied THEN Restrict(@, DOMAIN @ \ {p}) ELSE [@ EXCEPT ![p] = level]]
      /\ prices' = [prices EXCEPT ![s] = IF emptied THEN @ \ {p} ELSE @]
  BY DEF Remove
<1>2. /\ n \in LiveSlots /\ s \in Sides /\ p \in prices[s]
      /\ \E k : StandsAt(n, s, p, k)
  BY RemovePool, PlaceInLevel
<1>3. /\ prices \in [Sides -> SUBSET Prices] /\ levels = [t \in Sides |-> levels[t]]
      /\ \A t \in Sides : levels[t] \in [prices[t] -> Levels]
  BY DEF IInv, Types
<1>4. emptied = alone
  <2>1. PICK c : c = NodesAt(s, p)
    OBVIOUS
  <2>2. PICK k \in 1 .. Len(c) : n = c[k]
    BY <1>2, <2>1 DEF StandsAt
  <2>3. IsChain(pool, c, levels[s][p])
    BY <1>2, <2>1, LevelFacts
  <2>4. /\ Len(c) \in Nat /\ levels[s][p].head # Null
        /\ pool[n].prev = Null <=> k = 1
        /\ pool[n].next = Null <=> k = Len(c)
    BY <1>2, <2>2, <2>3, ChainEnds, LevelFacts
  <2>5. level.head = IF pool[n].prev = Null THEN pool[n].next ELSE levels[s][p].head
    BY DEF LevelWithout
  <2>6. emptied <=> k = 1 /\ k = Len(c)
    <3> HIDE DEF level
    <3> QED
      BY <2>4, <2>5
  <2>7. (k = 1 /\ k = Len(c)) <=> Len(c) = 1
    <3>1. Len(c) \in Nat /\ k \in 1 .. Len(c)
      BY <2>2, <2>4
    <3>2. Len(c) = 1 => k = 1
      BY <3>1
    <3> QED
      BY <3>2
  <2> HIDE DEF level
  <2> QED
    BY <2>1, <2>6, <2>7
<1> HIDE DEF level, emptied
<1>5. /\ levels' = [levels EXCEPT ![s] = IF alone THEN Restrict(levels[s], prices[s] \ {p})
                                         ELSE [levels[s] EXCEPT ![p] = level]]
      /\ prices' = [prices EXCEPT ![s] = IF alone THEN prices[s] \ {p} ELSE prices[s]]
  BY <1>1, <1>2, <1>3, <1>4
<1>6. /\ levels' = [t \in Sides |-> levels'[t]]
      /\ levels'[s] = IF alone THEN Restrict(levels[s], prices[s] \ {p})
                       ELSE [levels[s] EXCEPT ![p] = level]
      /\ \A t \in Sides : t # s => levels'[t] = levels[t]
  BY <1>2, <1>3, <1>5
<1>7. /\ prices' \in [Sides -> SUBSET Prices]
      /\ \A t \in Sides : prices'[t] = IF t = s /\ alone THEN prices[t] \ {p} ELSE prices[t]
  BY <1>2, <1>3, <1>5
<1>8. /\ DOMAIN levels'[s] = prices'[s]
      /\ levels'[s] = [x \in DOMAIN levels'[s] |-> levels'[s][x]]
      /\ \A x \in prices'[s] : x # p => levels'[s][x] = levels[s][x]
      /\ ~alone => levels'[s][p] = level
  <2>1. DOMAIN levels[s] = prices[s] /\ levels[s] = [x \in prices[s] |-> levels[s][x]]
    BY <1>2, <1>3
  <2>2. CASE alone
    <3>1. levels'[s] = [x \in prices[s] \ {p} |-> levels[s][x]] /\ prices'[s] = prices[s] \ {p}
      BY <1>2, <1>6, <1>7, <2>2 DEF Restrict
    <3> QED
      BY <2>2, <3>1
  <2>3. CASE ~alone
    <3>1. levels'[s] = [levels[s] EXCEPT ![p] = level] /\ prices'[s] = prices[s]
      BY <1>2, <1>6, <1>7, <2>3
    <3> QED
      BY <1>2, <2>1, <2>3, <3>1
  <2> QED
    BY <2>2, <2>3
<1>9. ASSUME NEW t \in Sides, t # s
      PROVE  /\ DOMAIN levels'[t] = prices'[t]
             /\ levels'[t] = [x \in DOMAIN levels'[t] |-> levels'[t][x]]
             /\ levels'[t] = levels[t]
  BY <1>3, <1>6, <1>7, <1>9
<1>10. \A t \in Sides : /\ DOMAIN levels'[t] = prices'[t]
                        /\ levels'[t] = [x \in DOMAIN levels'[t] |-> levels'[t][x]]
  BY <1>8, <1>9
<1>11. \A t \in Sides : \A x \in prices'[t] : t # s \/ x # p => levels'[t][x] = levels[t][x]
  BY <1>8, <1>9, ZenonT(60)
<1> QED
  BY <1>6, <1>7, <1>8, <1>10, <1>11 DEF level

(* The list of the level loses the node, and the other lists stay. *)
LEMMA RemoveNodes ==
  ASSUME IInv, NEW id \in DOMAIN order_map, NEW n, n = order_map[id], Remove(id, n),
         NEW s, NEW p, s = pool[n].side, p = pool[n].price,
         NEW k, StandsAt(n, s, p, k),
         NEW t \in Sides, NEW x \in prices'[t]
  PROVE  /\ NodesAt(t, x)' = IF t = s /\ x = p THEN RemoveAt(NodesAt(s, p), k) ELSE NodesAt(t, x)
         /\ IsChain(pool', NodesAt(t, x)', levels'[t][x])
         /\ Range(NodesAt(t, x)') = At(t, x)'
         /\ x \in prices[t]
<1>1. /\ n \in LiveSlots
      /\ \A m \in Slots \ {n} :
            /\ pool'[m].next = IF m = pool[n].prev THEN pool[n].next ELSE pool[m].next
            /\ pool'[m].prev = IF m = pool[n].next THEN pool[n].prev ELSE pool[m].prev
  BY RemovePool
<1>2. At(t, x)' = IF t = s /\ x = p THEN At(t, x) \ {n} ELSE At(t, x)
  BY RemoveAtLevel
<1>3. PICK c : c = NodesAt(s, p)
  OBVIOUS
<1>4. PICK alone : alone = (Len(NodesAt(s, p)) = 1)
  OBVIOUS
<1>5. /\ \A u \in Sides : /\ prices'[u] = IF u = s /\ alone THEN prices[u] \ {p} ELSE prices[u]
                          /\ DOMAIN levels'[u] = prices'[u]
      /\ \A u \in Sides : \A y \in prices'[u] : u # s \/ y # p => levels'[u][y] = levels[u][y]
      /\ ~alone => levels'[s][p] = LevelWithout(levels[s][p], n)
  <2>1. /\ prices' \in [Sides -> SUBSET Prices]
        /\ levels' = [u \in Sides |-> levels'[u]]
        /\ \A u \in Sides : /\ prices'[u] = IF u = s /\ alone THEN prices[u] \ {p} ELSE prices[u]
                            /\ DOMAIN levels'[u] = prices'[u]
                            /\ levels'[u] = [y \in DOMAIN levels'[u] |-> levels'[u][y]]
        /\ \A u \in Sides : \A y \in prices'[u] : u # s \/ y # p => levels'[u][y] = levels[u][y]
        /\ ~alone => levels'[s][p] = LevelWithout(levels[s][p], n)
    BY <1>4, RemoveLevels
  <2> QED
    BY <2>1
<1>6. /\ s \in Sides /\ p \in prices[s] /\ n \in At(s, p)
      /\ IsChain(pool, c, levels[s][p]) /\ Range(c) = At(s, p)
      /\ k \in 1 .. Len(c) /\ n = c[k]
  <2>1. s \in Sides /\ p \in prices[s] /\ n \in At(s, p)
    BY <1>1, PlaceInLevel
  <2>2. IsChain(pool, c, levels[s][p]) /\ Range(c) = At(s, p)
    BY <1>3, <2>1, LevelFacts
  <2>3. k \in 1 .. Len(c) /\ n = c[k]
    BY <1>3 DEF StandsAt
  <2> QED
    BY <2>1, <2>2, <2>3
<1>7. x \in DOMAIN levels'[t] /\ x \in prices[t] /\ (t = s /\ x = p => ~alone)
  BY <1>5, <1>6
<1>8. ASSUME NEW d, IsChain(pool', d, levels'[t][x]) PROVE NodesAt(t, x)' = d
  BY <1>7, <1>8, NodesFollowNext DEF NodesAreChains
<1>9. CASE t = s /\ x = p
  <2>1. PICK level2 : level2 = levels'[s][p]
    OBVIOUS
  <2>2. /\ level2.head = IF pool[n].prev = Null THEN pool[n].next ELSE levels[s][p].head
        /\ level2.tail = IF pool[n].next = Null THEN pool[n].prev ELSE levels[s][p].tail
    <3>1. level2 = LevelWithout(levels[s][p], n)
      BY <1>5, <1>7, <1>9, <2>1
    <3> QED
      BY <3>1 DEF LevelWithout
  <2>3. \A m \in Range(c) \ {n} :
            /\ pool'[m].next = IF m = pool[n].prev THEN pool[n].next ELSE pool[m].next
            /\ pool'[m].prev = IF m = pool[n].next THEN pool[n].prev ELSE pool[m].prev
    BY <1>1, <1>6, LiveAreSlots
  <2>4. Len(c) # 1
    BY <1>3, <1>4, <1>7, <1>9
  <2>5. IsChain(pool', RemoveAt(c, k), level2) /\ Range(RemoveAt(c, k)) = Range(c) \ {n}
    BY ONLY <1>6, <2>2, <2>3, <2>4, ChainShortened
  <2> QED
    BY <1>2, <1>3, <1>6, <1>7, <1>8, <1>9, <2>1, <2>5
<1>10. CASE t # s \/ x # p
  <2>1. PICK d : d = NodesAt(t, x)
    OBVIOUS
  <2>2. IsChain(pool, d, levels[t][x]) /\ Range(d) = At(t, x)
    BY <1>7, <2>1, LevelFacts
  <2>3. /\ pool[n].prev = Null \/ pool[n].prev \in At(s, p)
        /\ pool[n].next = Null \/ pool[n].next \in At(s, p)
    BY <1>6, ChainEnds
  <2>4. \A m \in Range(d) : m \in Slots \ {n} /\ m # pool[n].prev /\ m # pool[n].next
    <3>1. \A m \in At(t, x) : m \in Slots /\ m # Null /\ m \notin At(s, p)
      BY <1>10, LiveAreSlots, BookAssumption DEF At, Slots
    <3> QED
      BY <1>6, <2>2, <2>3, <3>1
  <2>5. \A m \in Range(d) : pool'[m].next = pool[m].next /\ pool'[m].prev = pool[m].prev
    BY <1>1, <2>4
  <2>6. levels'[t][x] = levels[t][x]
    BY <1>5, <1>10
  <2>7. IsChain(pool', d, levels'[t][x])
    BY <2>2, <2>5, <2>6, ChainKept
  <2> QED
    BY <1>2, <1>7, <1>8, <1>10, <2>1, <2>2, <2>7
<1> QED
  BY <1>9, <1>10

(* What is freed was not free. *)
LEMMA DeallocateKeeps ==
  ASSUME NEW S, NEW f \in Seq(S), NEW n \in S, n \notin Range(f),
         \A i, j \in DOMAIN f : f[i] = f[j] => i = j
  PROVE  /\ Append(f, n) \in Seq(S)
         /\ Range(Append(f, n)) = Range(f) \union {n}
         /\ \A i, j \in DOMAIN Append(f, n) : Append(f, n)[i] = Append(f, n)[j] => i = j
<1> DEFINE g == Append(f, n)
           N == Len(f)
<1>1. N \in Nat /\ DOMAIN f = 1 .. N
  OBVIOUS
<1>2. /\ g \in Seq(S) /\ DOMAIN g = 1 .. N + 1 /\ g[N + 1] = n
      /\ \A i \in 1 .. N : g[i] = f[i]
  BY <1>1
<1>3. \A i \in 1 .. N : f[i] \in Range(f)
  BY <1>1 DEF Range
<1> HIDE DEF g, N
<1>4. /\ \A i \in 1 .. N + 1 : i \in 1 .. N \/ i = N + 1
      /\ \A i \in 1 .. N : i \in 1 .. N + 1
      /\ N + 1 \in 1 .. N + 1
  BY <1>1
<1>5. Range(g) = Range(f) \union {n}
  BY <1>1, <1>2, <1>4 DEF Range
<1>6. \A i, j \in DOMAIN g : g[i] = g[j] => i = j
  BY <1>1, <1>2, <1>3, <1>4
<1> QED
  BY <1>2, <1>5, <1>6 DEF g

LEMMA RemoveStep ==
  ASSUME IInv, NEW id \in DOMAIN order_map, NEW n, n = order_map[id], Remove(id, n),
         running' = running
  PROVE  IInv'
<1>1. PICK s : s = pool[n].side
  OBVIOUS
<1>2. PICK p : p = pool[n].price
  OBVIOUS
<1>3. /\ n \in LiveSlots /\ pool' \in [Slots -> Nodes]
      /\ \A m \in Slots \ {n} : SameOrder(pool, pool', m)
  BY RemovePool
<1>4. /\ DOMAIN order_map' = DOMAIN order_map \ {id}
      /\ order_map' \in [DOMAIN order_map' -> Slots]
      /\ \A x \in DOMAIN order_map \ {id} : order_map'[x] = order_map[x]
      /\ LiveSlots' = LiveSlots \ {n}
  BY RemoveMap
<1>5. /\ s \in Sides /\ p \in prices[s] /\ n \in At(s, p)
  BY <1>1, <1>2, <1>3, PlaceInLevel
<1>6. PICK k : StandsAt(n, s, p, k)
  BY <1>1, <1>2, <1>3, PlaceInLevel
<1>7. PICK alone : alone = (Len(NodesAt(s, p)) = 1)
  OBVIOUS
<1>8. /\ prices' \in [Sides -> SUBSET Prices]
      /\ levels' = [t \in Sides |-> levels'[t]]
      /\ \A t \in Sides : /\ prices'[t] = IF t = s /\ alone THEN prices[t] \ {p} ELSE prices[t]
                          /\ DOMAIN levels'[t] = prices'[t]
                          /\ levels'[t] = [x \in DOMAIN levels'[t] |-> levels'[t][x]]
      /\ \A t \in Sides : \A x \in prices'[t] : t # s \/ x # p => levels'[t][x] = levels[t][x]
      /\ ~alone => levels'[s][p] = LevelWithout(levels[s][p], n)
  BY <1>1, <1>2, <1>7, RemoveLevels
<1>9. ASSUME NEW t \in Sides, NEW x \in prices'[t]
      PROVE  /\ IsChain(pool', NodesAt(t, x)', levels'[t][x])
             /\ Range(NodesAt(t, x)') = At(t, x)'
             /\ x \in prices[t]
  BY <1>1, <1>2, <1>6, RemoveNodes
<1>10. Deallocate(n) /\ UpdateBestPrices
  BY DEF Remove
<1>11. /\ free_list \in Seq(Slots) /\ n \in Slots /\ n \notin Range(free_list)
       /\ DOMAIN order_map \subseteq OrderIds /\ running \in BOOLEAN
       /\ \A x \in DOMAIN order_map : order_map[x] \in LiveSlots
       /\ \A x \in DOMAIN order_map : order_map[x] = n => x = id
  BY <1>3, LiveAreSlots DEF IInv, Types, PoolConserved, LiveSlots, Range
<1>12. /\ free_list' \in Seq(Slots)
       /\ Range(free_list') = Range(free_list) \union {n}
       /\ \A i, j \in DOMAIN free_list' : free_list'[i] = free_list'[j] => i = j
  <2>1. \A i, j \in DOMAIN free_list : free_list[i] = free_list[j] => i = j
    BY DEF IInv, PoolConserved
  <2>2. free_list' = Append(free_list, n)
    BY <1>10 DEF Deallocate
  <2> QED
    BY <1>11, <2>1, <2>2, DeallocateKeeps
<1>13. ASSUME NEW t \in Sides, NEW x \in prices'[t]
       PROVE  /\ levels'[t][x].total_volume = SumOf(Shares(pool'))[At(t, x)']
              /\ levels'[t][x].total_volume \in Nat
  <2>1. PICK P : P = pool
    OBVIOUS
  <2>2. PICK P2 : P2 = pool'
    OBVIOUS
  <2>3. P \in [Slots -> Nodes] /\ P2 \in [Slots -> Nodes]
    BY <1>3, <2>1, <2>2 DEF IInv, Types
  <2>4. Shares(P) \in [Slots -> Nat] /\ Shares(P2) \in [Slots -> Nat]
    BY <2>3, SharesType
  <2>5. PICK S : S = At(t, x)'
    OBVIOUS
  <2>6. x \in prices[t] /\ levels[t][x].total_volume = SumOf(Shares(P))[At(t, x)]
    BY <1>9, <2>1 DEF IInv, Totals
  <2>7. At(t, x)' = IF t = s /\ x = p THEN At(t, x) \ {n} ELSE At(t, x)
    BY <1>1, <1>2, RemoveAtLevel
  <2>8. n \in At(t, x) => t = s /\ x = p
    BY <1>5 DEF At
  <2>9. /\ S \in SUBSET Slots /\ n \in Slots /\ n \notin S
        /\ \A m \in S : P[m].quantity = P2[m].quantity
    BY <1>3, <1>11, <2>1, <2>2, <2>5, <2>7, <2>8, LiveAreSlots DEF SameOrder
  <2>10. SumOf(Shares(P2))[S] \in Nat
    BY <2>4, <2>9, SumOfIsSum DEF IsSum
  <2>11. CASE t = s /\ x = p
    <3>1. SumOf(Shares(P))[S \union {n}] = P[n].quantity + SumOf(Shares(P2))[S]
      BY <2>4, <2>9, SumAdded
    <3>2. S \union {n} = At(t, x)
      BY <1>5, <2>5, <2>7, <2>11
    <3>3. ~alone
      BY <1>8, <2>11
    <3>4. levels'[t][x].total_volume = levels[t][x].total_volume - P[n].quantity
      BY <1>8, <2>1, <2>11, <3>3 DEF LevelWithout
    <3>5. P[n].quantity \in Nat
      BY <1>3, <2>1, LiveAreSlots
    <3>6. levels[t][x].total_volume = P[n].quantity + SumOf(Shares(P2))[S]
      BY <2>6, <3>1, <3>2
    <3>7. levels'[t][x].total_volume = SumOf(Shares(P2))[S]
      BY <2>10, <3>4, <3>5, <3>6
    <3> QED
      BY <2>2, <2>5, <2>10, <3>7
  <2>12. CASE ~(t = s /\ x = p)
    <3>1. S = At(t, x)
      BY <2>5, <2>7, <2>12
    <3>2. \A m \in S : Shares(P)[m] = Shares(P2)[m]
      BY <2>9 DEF Shares
    <3>3. SumOf(Shares(P))[S] = SumOf(Shares(P2))[S]
      BY <2>4, <2>9, <3>2, SumCongruence
    <3>4. levels'[t][x] = levels[t][x]
      BY <1>8, <2>12
    <3> QED
      BY <2>2, <2>5, <2>6, <2>10, <3>1, <3>3, <3>4
  <2> QED
    BY <2>11, <2>12
<1>14. ASSUME NEW t \in Sides PROVE levels'[t] \in [prices'[t] -> Levels]
  <2>1. ASSUME NEW x \in prices'[t] PROVE levels'[t][x] \in Levels
    <3>1. CASE t = s /\ x = p
      <4>1. ~alone
        BY <1>8, <3>1
      <4>2. levels'[t][x] = LevelWithout(levels[s][p], n)
        BY <1>8, <3>1, <4>1
      <4>3. IsChain(pool', NodesAt(t, x)', levels'[t][x])
        BY <1>9, <2>1
      <4>4. PICK c : c = NodesAt(t, x)'
        OBVIOUS
      <4>5. PICK l : l = levels'[t][x]
        OBVIOUS
      <4>6. IsChain(pool', c, l)
        BY <4>3, <4>4, <4>5
      <4>7. 1 \in 1 .. Len(c)
        <5>1. c \in Seq(Slots) /\ Len(c) > 0
          BY <4>6 DEF IsChain
        <5>2. Len(c) \in Nat
          BY <5>1
        <5> QED
          BY <5>1, <5>2
      <4>8. l.head \in Slots /\ l.tail \in Slots
        BY <4>6, <4>7, ChainEnds
      <4>9. l.total_volume \in Nat
        BY <1>13, <4>5
      <4>10. l = [total_volume |-> l.total_volume, head |-> l.head, tail |-> l.tail]
        BY <4>2, <4>5 DEF LevelWithout
      <4> QED
        BY <4>5, <4>8, <4>9, <4>10 DEF Levels
    <3>2. CASE ~(t = s /\ x = p)
      <4>1. levels'[t][x] = levels[t][x] /\ x \in prices[t]
        BY <1>8, <1>9, <3>2
      <4> QED
        BY <4>1, LevelFacts
    <3> QED
      BY <3>1, <3>2
  <2>2. /\ DOMAIN levels'[t] = prices'[t]
        /\ levels'[t] = [x \in DOMAIN levels'[t] |-> levels'[t][x]]
    BY <1>8
  <2> QED
    BY <2>1, <2>2
<1>15. Types'
  <2>1. prices' \in [Sides -> SUBSET Prices] /\ levels' = [t \in Sides |-> levels'[t]]
    BY <1>8
  <2> QED
    BY <1>3, <1>4, <1>11, <1>12, <1>14, <2>1 DEF Types
<1>16. PoolConserved'
  <2>1. \A a, b \in DOMAIN order_map' : order_map'[a] = order_map'[b] => a = b
    BY <1>4 DEF IInv, PoolConserved
  <2>2. Range(free_list') \intersect LiveSlots' = {}
    BY <1>4, <1>12 DEF IInv, PoolConserved
  <2>3. Range(free_list') \union LiveSlots' = Slots
    BY <1>3, <1>4, <1>11, <1>12 DEF IInv, PoolConserved
  <2>4. Range(free_list)' = Range(free_list')
    BY DEF Range
  <2> QED
    BY <1>12, <2>1, <2>2, <2>3, <2>4 DEF PoolConserved
<1>17. OrdersFound'
  <2> SUFFICES ASSUME NEW x \in DOMAIN order_map \ {id}
               PROVE  /\ pool'[order_map[x]].order_id = x
                      /\ pool'[order_map[x]].quantity > 0
                      /\ pool'[order_map[x]].price \in prices'[pool'[order_map[x]].side]
    BY <1>4 DEF OrdersFound
  <2>1. PICK m : m = order_map[x]
    OBVIOUS
  <2>2. m \in LiveSlots /\ m # n /\ m \in Slots
    BY <1>11, <2>1, LiveAreSlots
  <2>3. SameOrder(pool, pool', m)
    BY <1>3, <2>2
  <2>4. /\ pool[m].order_id = x /\ pool[m].quantity > 0
        /\ pool[m].side \in Sides /\ pool[m].price \in prices[pool[m].side]
    BY <2>1, <2>2, LiveAreSlots DEF IInv, OrdersFound
  <2>5. ASSUME pool[m].side = s, pool[m].price = p PROVE ~alone
    <3>1. m \in At(s, p)
      BY <2>2, <2>5 DEF At
    <3>2. PICK c : c = NodesAt(s, p)
      OBVIOUS
    <3>3. Range(c) = At(s, p) /\ c \in Seq(Slots)
      BY <1>5, <3>2, LevelFacts DEF IsChain
    <3>4. PICK i \in 1 .. Len(c) : m = c[i]
      BY <3>1, <3>3 DEF Range
    <3>5. k \in 1 .. Len(c) /\ n = c[k]
      BY <1>6, <3>2 DEF StandsAt
    <3>6. i # k
      BY <2>2, <3>4, <3>5
    <3>7. Len(c) # 1
      BY <3>3, <3>4, <3>5, <3>6
    <3> QED
      BY <1>7, <3>2, <3>7
  <2>6. pool[m].price \in prices'[pool[m].side]
    BY <1>8, <2>4, <2>5
  <2> QED
    BY <2>1, <2>3, <2>4, <2>6 DEF SameOrder
<1>18. Chains'
  <2> SUFFICES ASSUME NEW t \in Sides, NEW x \in prices'[t]
               PROVE  /\ ValidPrice(x)
                      /\ IsChain(pool', NodesAt(t, x)', levels'[t][x])
                      /\ Range(NodesAt(t, x)') = At(t, x)'
    BY DEF Chains, ValidPrice
  <2>1. /\ IsChain(pool', NodesAt(t, x)', levels'[t][x])
        /\ Range(NodesAt(t, x)') = At(t, x)'
        /\ x \in prices[t]
    BY <1>9
  <2> QED
    BY <2>1 DEF IInv, Chains
<1>19. Totals'
  BY <1>13 DEF Totals
<1>20. Best'
  BY <1>10 DEF Best, UpdateBestPrices
<1> QED
  BY <1>15, <1>16, <1>17, <1>18, <1>19, <1>20 DEF IInv

-----------------------------------------------------------------------------
(* The calls, and the invariant. *)

(* Refused calls and unknown orders leave the book alone. *)
LEMMA NoChangeStep ==
  ASSUME IInv, running' \in BOOLEAN,
         UNCHANGED <<pool, free_list, order_map, prices, levels, best_bid, best_ask>>
  PROVE  /\ IInv'
         /\ \A t \in Sides : \A x \in prices[t] : NodesAt(t, x)' = NodesAt(t, x)
<1>1. /\ pool' = pool /\ free_list' = free_list /\ order_map' = order_map
      /\ prices' = prices /\ levels' = levels
      /\ best_bid' = best_bid /\ best_ask' = best_ask
  OBVIOUS
<1>2. LiveSlots' = LiveSlots
  BY <1>1 DEF LiveSlots, Range
<1>3. \A t, x : At(t, x)' = At(t, x)
  BY <1>1, <1>2 DEF At
<1>4. ASSUME NEW t \in Sides, NEW x \in prices[t]
      PROVE  NodesAt(t, x)' = NodesAt(t, x)
  <2>1. PICK c : c = NodesAt(t, x)
    OBVIOUS
  <2>2. x \in DOMAIN levels'[t] /\ IsChain(pool', c, levels'[t][x])
    BY <1>1, <2>1, LevelFacts
  <2> QED
    BY <2>1, <2>2, NodesFollowNext DEF NodesAreChains
<1>5. Types' /\ PoolConserved' /\ OrdersFound' /\ Best'
  BY <1>1, <1>2 DEF IInv, Types, PoolConserved, Range, OrdersFound, Best
<1>6. Chains'
  <2> SUFFICES ASSUME NEW t \in Sides, NEW x \in prices[t]
               PROVE  /\ ValidPrice(x)
                      /\ IsChain(pool', NodesAt(t, x)', levels'[t][x])
                      /\ Range(NodesAt(t, x)') = At(t, x)'
    BY <1>1 DEF Chains, ValidPrice
  <2>1. /\ ValidPrice(x) /\ IsChain(pool, NodesAt(t, x), levels[t][x])
        /\ Range(NodesAt(t, x)) = At(t, x)
    BY DEF IInv, Chains
  <2> QED
    BY <1>1, <1>3, <1>4, <2>1
<1>7. Totals'
  BY <1>1, <1>3 DEF IInv, Totals
<1> QED
  BY <1>4, <1>5, <1>6, <1>7 DEF IInv

LEMMA TakeStep ==
  ASSUME IInv, NEW call, NEW id \in DOMAIN order_map, NEW n, n = order_map[id],
         NEW q \in Nat, q <= pool[n].quantity, TakeShares(call, id, n, q), running' = running
  PROVE  IInv'
<1>1. n \in LiveSlots /\ running' \in BOOLEAN
  BY DEF LiveSlots, Range, IInv, Types
<1>2. CASE q = 0
  BY <1>1, <1>2, NoChangeStep DEF TakeShares
<1>3. CASE q # 0 /\ q < pool[n].quantity
  BY <1>1, <1>3, ShrinkStep DEF TakeShares
<1>4. CASE q # 0 /\ ~(q < pool[n].quantity)
  BY <1>4, RemoveStep DEF TakeShares
<1> QED
  BY <1>2, <1>3, <1>4

(* What cancel_order and execute_order take is at most what the order has. *)
LEMMA TakenShares ==
  ASSUME IInv, NEW id \in DOMAIN order_map, NEW q \in Quantities, NEW n, n = order_map[id]
  PROVE  /\ n \in LiveSlots /\ pool[n].quantity \in Nat /\ pool[n].quantity > 0
         /\ Lesser(q, pool[n].quantity) \in Nat
         /\ Lesser(q, pool[n].quantity) <= pool[n].quantity
         /\ q # 0 => Lesser(q, pool[n].quantity) # 0
<1>1. n \in LiveSlots
  BY DEF LiveSlots, Range
<1>2. pool[n].quantity \in Nat /\ pool[n].quantity > 0 /\ q \in Nat
  BY <1>1, LiveAreSlots, BookAssumption
<1> QED
  BY <1>1, <1>2 DEF Lesser

LEMMA InvariantStep == IInv /\ [Next]_vars => IInv'
<1> SUFFICES ASSUME IInv, [Next]_vars PROVE IInv'
  OBVIOUS
<1>1. ASSUME NEW id \in OrderIds, NEW q \in Quantities, NEW p \in Prices, AddRejected(id, p, q)
      PROVE  IInv'
  BY <1>1, NoChangeStep DEF AddRejected, IInv, Types
<1>2. ASSUME NEW id \in OrderIds, NEW q \in Quantities, NEW p \in Prices, AddExhausted(id, p, q)
      PROVE  IInv'
  BY <1>2, NoChangeStep DEF AddExhausted
<1>3. ASSUME NEW id \in OrderIds, NEW q \in Quantities, NEW p \in Prices, NEW s \in Sides,
             AddOrder(id, s, p, q)
      PROVE  IInv'
  BY <1>3, AddStep
<1>4. ASSUME NEW id \in OrderIds, Unknown(id) PROVE IInv'
  BY <1>4, NoChangeStep DEF Unknown, IInv, Types
<1>5. ASSUME NEW id \in OrderIds, NEW q \in Quantities, CancelOrder(id, q) PROVE IInv'
  <2>1. PICK n : n = order_map[id]
    OBVIOUS
  <2>2. PICK a : a = IF q = 0 THEN pool[n].quantity ELSE Lesser(q, pool[n].quantity)
    OBVIOUS
  <2>3. id \in DOMAIN order_map /\ running' = running /\ TakeShares("cancel", id, n, a)
    BY <1>5, <2>1, <2>2 DEF CancelOrder
  <2>4. a \in Nat /\ a <= pool[n].quantity
    BY <2>1, <2>2, <2>3, TakenShares
  <2> QED
    BY <2>1, <2>3, <2>4, TakeStep
<1>6. ASSUME NEW id \in OrderIds, NEW q \in Quantities, ExecuteOrder(id, q) PROVE IInv'
  <2>1. PICK n : n = order_map[id]
    OBVIOUS
  <2>2. PICK a : a = Lesser(q, pool[n].quantity)
    OBVIOUS
  <2>3. id \in DOMAIN order_map /\ running' = running /\ TakeShares("execute", id, n, a)
    BY <1>6, <2>1, <2>2 DEF ExecuteOrder
  <2>4. a \in Nat /\ a <= pool[n].quantity
    BY <2>1, <2>2, <2>3, TakenShares
  <2> QED
    BY <2>1, <2>3, <2>4, TakeStep
<1>7. CASE UNCHANGED vars
  BY <1>7, NoChangeStep DEF vars, IInv, Types
<1> QED
  BY <1>1, <1>2, <1>3, <1>4, <1>5, <1>6, <1>7 DEF Next

LEMMA Invariance == Spec => []IInv
BY InvariantInit, InvariantStep, PTL DEF Spec

-----------------------------------------------------------------------------
(* The best of a bounded set of prices is one of them. *)

LEMMA MaxOfBounded ==
  ASSUME NEW N \in Nat, NEW T \in SUBSET (0 .. N), T # {}
  PROVE  Max(T) \in T
<1> DEFINE U == {N - x : x \in T}
<1>1. U \in SUBSET Nat /\ U # {}
  <2>1. ASSUME NEW x \in T PROVE x \in 0 .. N /\ N - x \in Nat
    <3>1. x \in 0 .. N
      OBVIOUS
    <3> QED
      BY <3>1
  <2> QED
    BY <2>1
<1>2. PICK u \in U : \A y \in U : u <= y
  BY <1>1, LeastOf
<1>3. PICK x \in T : u = N - x
  BY <1>2
<1>4. \A y \in T : x >= y
  <2>1. ASSUME NEW y \in T PROVE x >= y
    <3>1. N - x <= N - y
      BY <1>2, <1>3
    <3> QED
      BY <3>1
  <2> QED
    BY <2>1
<1> HIDE DEF U
<1> QED
  BY <1>4 DEF Max

LEMMA MinOfNaturals ==
  ASSUME NEW T \in SUBSET Nat, T # {}
  PROVE  Min(T) \in T
BY LeastOf DEF Min

(* add_order, cancel_order, execute_order: no operation leaves a pointer   *)
(* outside the pool, a negative quantity or total, or a level without      *)
(* both of its ends.                                                       *)
THEOREM TypeCorrect == Spec => []TypeOK
<1>1. IInv => TypeOK
  <2> SUFFICES ASSUME IInv PROVE TypeOK
    OBVIOUS
  <2>1. \A s \in Sides : /\ prices[s] \in SUBSET Nat
                         /\ prices[s] \in SUBSET (0 .. MaxPriceTicks)
    <3> SUFFICES ASSUME NEW s \in Sides, NEW p \in prices[s]
                 PROVE  p \in Nat /\ p \in 0 .. MaxPriceTicks
      OBVIOUS
    <3>1. p \in Nat
      BY BookAssumption DEF IInv, Types
    <3>2. ValidPrice(p)
      BY DEF IInv, Chains
    <3> QED
      BY <3>1, <3>2, BookAssumption DEF ValidPrice
  <2>2. best_bid \in Nat
    <3>1. CASE prices["BUY"] = {}
      BY <3>1 DEF IInv, Best
    <3>2. CASE prices["BUY"] # {}
      <4>1. Max(prices["BUY"]) \in prices["BUY"]
        BY <2>1, <3>2, MaxOfBounded, BookAssumption DEF Sides
      <4> QED
        BY <2>1, <3>2, <4>1 DEF IInv, Best, Sides
    <3> QED
      BY <3>1, <3>2
  <2>3. best_ask \in Nat
    <3>1. CASE prices["SELL"] = {}
      BY <3>1, BookAssumption DEF IInv, Best
    <3>2. CASE prices["SELL"] # {}
      <4>1. Min(prices["SELL"]) \in prices["SELL"]
        BY <2>1, <3>2, MinOfNaturals DEF Sides
      <4> QED
        BY <2>1, <3>2, <4>1 DEF IInv, Best, Sides
    <3> QED
      BY <3>1, <3>2
  <2>4. ASSUME NEW s \in Sides, NEW p \in DOMAIN levels[s]
        PROVE  /\ p \in Prices
               /\ levels[s][p] \in [total_volume : Nat, head : Pointers, tail : Pointers]
    <3>1. p \in prices[s]
      BY DEF IInv, Types
    <3>2. p \in Prices /\ levels[s][p] \in Levels
      BY <3>1, LevelFacts
    <3> QED
      BY <3>2 DEF Levels, Pointers
  <2>5. LiveSlots \subseteq Slots
    BY LiveAreSlots
  <2> QED
    BY <2>2, <2>3, <2>4, <2>5 DEF IInv, Types, TypeOK, Nodes
<1> QED
  BY Invariance, <1>1, PTL

(* allocate and deallocate with their callers: every slot is free, once,   *)
(* or holds the node of exactly one live order, however long the engine    *)
(* runs and at whatever call the pool is empty.                            *)
THEOREM SlotsConserved == Spec => []PoolConserved
<1>1. IInv => PoolConserved
  BY DEF IInv
<1> QED
  BY Invariance, <1>1, PTL

(* insert_into_level and remove_from_level: the list of a level, followed  *)
(* from either end, is the same chain of the live orders of that side and  *)
(* price, with no node of another level and none missing.                  *)
THEOREM ListsAreRight == Spec => []ListsMatchMap
<1>1. IInv => ListsMatchMap
  <2> SUFFICES ASSUME IInv PROVE ListsMatchMap
    OBVIOUS
  <2>1. \A id \in DOMAIN order_map : pool[order_map[id]].order_id = id
    BY DEF IInv, OrdersFound
  <2>2. ASSUME NEW s \in Sides, NEW p \in DOMAIN levels[s],
               NEW f, f = NodesAt(s, p), NEW b, b = Walk(levels[s][p].tail, "prev")
        PROVE  /\ Len(f) = Len(b)
               /\ \A k \in DOMAIN f : b[Len(f) + 1 - k] = f[k]
               /\ Range(f) = {n \in LiveSlots : pool[n].side = s /\ pool[n].price = p}
    <3>1. p \in prices[s]
      BY DEF IInv, Types
    <3>2. IsChain(pool, f, levels[s][p]) /\ Range(f) = At(s, p)
      BY <2>2, <3>1, LevelFacts
    <3>3. b = [k \in 1 .. Len(f) |-> f[Len(f) + 1 - k]]
      BY <2>2, <3>2, WalkBackwards
    <3>4. f \in Seq(Slots) /\ Len(f) \in Nat /\ DOMAIN f = 1 .. Len(f)
      BY <3>2 DEF IsChain
    <3>5. Len(b) = Len(f)
      BY <3>3, <3>4
    <3>6. ASSUME NEW k \in 1 .. Len(f) PROVE b[Len(f) + 1 - k] = f[k]
      <4>1. Len(f) + 1 - k \in 1 .. Len(f) /\ Len(f) + 1 - (Len(f) + 1 - k) = k
        BY <3>4
      <4> QED
        BY <3>3, <4>1
    <3> QED
      BY <3>2, <3>4, <3>5, <3>6 DEF At
  <2>3. \A n \in LiveSlots : pool[n].price \in DOMAIN levels[pool[n].side]
    BY LiveAreSlots, LevelFacts
  <2> QED
    BY <2>1, <2>2, <2>3 DEF ListsMatchMap
<1> QED
  BY Invariance, <1>1, PTL

(* total_volume: after any calls the cached total of a level is the sum of *)
(* its orders, and a level is there just as long as it has one.            *)
THEOREM TotalsAreRight == Spec => []VolumesAddUp
<1>1. IInv => VolumesAddUp
  <2> SUFFICES ASSUME IInv, NEW s \in Sides
               PROVE  /\ DOMAIN levels[s] = prices[s]
                      /\ \A p \in prices[s] :
                           /\ Range(NodesAt(s, p)) # {}
                           /\ levels[s][p].total_volume =
                                 MapThenSumSet(LAMBDA n : pool[n].quantity, Range(NodesAt(s, p)))
                      /\ \A n \in LiveSlots : pool[n].quantity > 0
    BY DEF VolumesAddUp
  <2>1. DOMAIN levels[s] = prices[s]
    BY DEF IInv, Types
  <2>2. ASSUME NEW p \in prices[s]
        PROVE  /\ Range(NodesAt(s, p)) # {}
               /\ levels[s][p].total_volume =
                     MapThenSumSet(LAMBDA n : pool[n].quantity, Range(NodesAt(s, p)))
    <3>1. PICK S : S = Range(NodesAt(s, p))
      OBVIOUS
    <3>2. S = At(s, p) /\ S # {} /\ S \in SUBSET Slots
      BY <3>1, LevelFacts, LiveAreSlots
    <3>3. Shares(pool) \in [Slots -> Nat]
      BY SharesType DEF IInv, Types
    <3>4. MapThenSumSet(LAMBDA n : pool[n].quantity, S) = SumOf(Shares(pool))[S]
      BY <3>2, <3>3, VolumeIsSum
    <3>5. levels[s][p].total_volume = SumOf(Shares(pool))[S]
      BY <3>2 DEF IInv, Totals
    <3> QED
      BY <3>1, <3>2, <3>4, <3>5
  <2>3. \A n \in LiveSlots : pool[n].quantity > 0
    BY LiveAreSlots
  <2> QED
    BY <2>1, <2>2, <2>3
<1> QED
  BY Invariance, <1>1, PTL

-----------------------------------------------------------------------------
(* What the queues of the abstract book are. *)

Orders == [id : OrderIds \union {Null}, quantity : Nat]

QueueOf(P, c) ==
  [k \in DOMAIN c |-> [id |-> P[c[k]].order_id, quantity |-> P[c[k]].quantity]]

QueuesAreOfNodes == \A s, p : Queue(s, p) = QueueOf(pool, NodesAt(s, p))

LEMMA QueuesFollow == QueuesAreOfNodes
BY DEF QueuesAreOfNodes, Queue, QueueOf

LEMMA QueuesFollowNext == QueuesAreOfNodes'
BY QueuesFollow, PTL

(* A price without a level has no nodes, and an empty queue. *)
AbsentHasNone ==
  \A s, p : p \notin DOMAIN levels[s] => NodesAt(s, p) = << >>

LEMMA AbsentNodes == AbsentHasNone
BY DEF AbsentHasNone, NodesAt

LEMMA AbsentNodesNext == AbsentHasNone'
BY AbsentNodes, PTL

LEMMA NodesType ==
  ASSUME IInv, NEW s \in Sides, NEW p
  PROVE  NodesAt(s, p) \in Seq(Slots) /\ Range(NodesAt(s, p)) = At(s, p)
<1>1. CASE p \in prices[s]
  BY <1>1, LevelFacts DEF IsChain
<1>2. CASE p \notin prices[s]
  <2>1. NodesAt(s, p) = << >>
    BY <1>2, AbsentNodes DEF AbsentHasNone, IInv, Types
  <2>2. At(s, p) = {}
    BY <1>2, LiveAreSlots DEF At
  <2> QED
    BY <2>1, <2>2 DEF Range
<1> QED
  BY <1>1, <1>2

LEMMA QueueOfType ==
  ASSUME NEW P \in [Slots -> Nodes], NEW c \in Seq(Slots)
  PROVE  /\ QueueOf(P, c) \in Seq(Orders)
         /\ Len(QueueOf(P, c)) = Len(c)
         /\ \A k \in 1 .. Len(c) :
              QueueOf(P, c)[k] = [id |-> P[c[k]].order_id, quantity |-> P[c[k]].quantity]
<1> DEFINE f == QueueOf(P, c)
<1>1. Len(c) \in Nat /\ DOMAIN c = 1 .. Len(c) /\ \A k \in 1 .. Len(c) : c[k] \in Slots
  OBVIOUS
<1>2. \A k \in 1 .. Len(c) : P[c[k]].order_id \in OrderIds \union {Null} /\ P[c[k]].quantity \in Nat
  BY <1>1 DEF Nodes
<1>3. /\ DOMAIN f = 1 .. Len(c)
      /\ f = [k \in 1 .. Len(c) |-> f[k]]
      /\ \A k \in 1 .. Len(c) :
            f[k] = [id |-> P[c[k]].order_id, quantity |-> P[c[k]].quantity]
  BY <1>1 DEF QueueOf
<1> HIDE DEF f
<1>4. ASSUME NEW k \in 1 .. Len(c) PROVE f[k] \in Orders
  <2>1. f[k] = [id |-> P[c[k]].order_id, quantity |-> P[c[k]].quantity]
    BY <1>3
  <2>2. P[c[k]].order_id \in OrderIds \union {Null} /\ P[c[k]].quantity \in Nat
    BY <1>2
  <2> QED
    BY <2>1, <2>2 DEF Orders
<1>5. f \in Seq(Orders) /\ Len(f) = Len(c)
  BY <1>1, <1>3, <1>4
<1> QED
  BY <1>3, <1>5 DEF f

LEMMA QueueOfSame ==
  ASSUME NEW P, NEW P2, NEW c \in Seq(Slots), \A m \in Range(c) : SameOrder(P, P2, m)
  PROVE  QueueOf(P2, c) = QueueOf(P, c)
<1>1. \A k \in DOMAIN c : c[k] \in Range(c)
  BY DEF Range
<1> QED
  BY <1>1 DEF QueueOf, SameOrder

LEMMA QueueOfAppended ==
  ASSUME NEW P \in [Slots -> Nodes], NEW P2 \in [Slots -> Nodes], NEW c \in Seq(Slots),
         NEW n \in Slots, \A m \in Range(c) : SameOrder(P, P2, m)
  PROVE  QueueOf(P2, Append(c, n)) =
           Append(QueueOf(P, c), [id |-> P2[n].order_id, quantity |-> P2[n].quantity])
<1> DEFINE d == Append(c, n)
           o == [id |-> P2[n].order_id, quantity |-> P2[n].quantity]
           f == QueueOf(P, c)
           g == QueueOf(P2, d)
<1>1. /\ d \in Seq(Slots) /\ Len(c) \in Nat /\ Len(d) = Len(c) + 1 /\ d[Len(c) + 1] = n
      /\ \A k \in 1 .. Len(c) : d[k] = c[k] /\ c[k] \in Range(c)
  BY DEF Range
<1> HIDE DEF d
<1>2. /\ f \in Seq(Orders) /\ Len(f) = Len(c)
      /\ \A k \in 1 .. Len(c) : f[k] = [id |-> P[c[k]].order_id, quantity |-> P[c[k]].quantity]
  BY QueueOfType
<1>3. /\ g \in Seq(Orders) /\ Len(g) = Len(d)
      /\ \A k \in 1 .. Len(d) : g[k] = [id |-> P2[d[k]].order_id, quantity |-> P2[d[k]].quantity]
  BY <1>1, QueueOfType
<1>4. ASSUME NEW k \in 1 .. Len(c) PROVE k \in 1 .. Len(d) /\ g[k] = f[k]
  <2>1. k \in 1 .. Len(d) /\ d[k] = c[k] /\ c[k] \in Range(c)
    BY <1>1
  <2>2. SameOrder(P, P2, c[k])
    BY <2>1
  <2>3. /\ f[k] = [id |-> P[c[k]].order_id, quantity |-> P[c[k]].quantity]
        /\ g[k] = [id |-> P2[d[k]].order_id, quantity |-> P2[d[k]].quantity]
    BY <1>2, <1>3, <2>1
  <2> QED
    BY <2>1, <2>2, <2>3 DEF SameOrder
<1>5. g[Len(c) + 1] = o /\ o \in Orders
  <2>1. Len(c) + 1 \in 1 .. Len(d)
    BY <1>1
  <2>2. g[Len(c) + 1] = o
    BY <1>1, <1>3, <2>1
  <2>3. o \in Orders
    BY DEF Nodes, Orders
  <2> QED
    BY <2>2, <2>3
<1> HIDE DEF f, g, o
<1>6. Append(f, o) \in Seq(Orders) /\ Len(Append(f, o)) = Len(c) + 1 /\ Append(f, o)[Len(c) + 1] = o
      /\ \A k \in 1 .. Len(c) : Append(f, o)[k] = f[k]
  BY <1>2, <1>5
<1>7. \A k \in 1 .. Len(c) + 1 : g[k] = Append(f, o)[k]
  <2>1. \A k \in 1 .. Len(c) + 1 : k \in 1 .. Len(c) \/ k = Len(c) + 1
    BY <1>1
  <2> QED
    BY <1>4, <1>5, <1>6, <2>1
<1>8. g = Append(f, o)
  BY <1>1, <1>3, <1>6, <1>7, SeqEqual
<1> QED
  BY <1>8 DEF f, g, d, o

LEMMA QueueOfWithout ==
  ASSUME NEW P \in [Slots -> Nodes], NEW P2 \in [Slots -> Nodes], NEW c \in Seq(Slots),
         Distinct(c), NEW k \in 1 .. Len(c), \A m \in Range(c) \ {c[k]} : SameOrder(P, P2, m)
  PROVE  QueueOf(P2, RemoveAt(c, k)) = RemoveAt(QueueOf(P, c), k)
<1> DEFINE d == RemoveAt(c, k)
           f == QueueOf(P, c)
           g == QueueOf(P2, d)
           h == RemoveAt(f, k)
           N == Len(c)
           up(i) == IF i < k THEN i ELSE i + 1
<1>1. d \in Seq(Slots) /\ Len(d) = N - 1
  BY RemoveAtShifts
<1>2. \A i \in 1 .. N - 1 : d[i] = c[up(i)]
  BY RemoveAtShifts
<1>3. /\ f \in Seq(Orders) /\ Len(f) = N
      /\ \A i \in 1 .. N : f[i] = [id |-> P[c[i]].order_id, quantity |-> P[c[i]].quantity]
  BY QueueOfType
<1>4. /\ g \in Seq(Orders) /\ Len(g) = Len(d)
      /\ \A i \in 1 .. Len(d) : g[i] = [id |-> P2[d[i]].order_id, quantity |-> P2[d[i]].quantity]
  <2> HIDE DEF d
  <2> QED
    BY <1>1, QueueOfType
<1>5. h \in Seq(Orders) /\ Len(h) = N - 1 /\ \A i \in 1 .. N - 1 : h[i] = f[up(i)]
  <2> HIDE DEF f
  <2>1. k \in 1 .. Len(f)
    BY <1>3
  <2>2. h \in Seq(Orders) /\ Len(h) = Len(f) - 1
    BY <1>3, <2>1, RemoveAtShifts
  <2>3. \A i \in 1 .. Len(f) - 1 : h[i] = f[IF i < k THEN i ELSE i + 1]
    BY <1>3, <2>1, RemoveAtShifts
  <2> QED
    BY <1>3, <2>2, <2>3
<1>6. N \in Nat /\ k \in 1 .. N /\ \A i \in 1 .. N : c[i] \in Range(c)
  BY DEF Range
<1> HIDE DEF d, f, g, h
<1>7. ASSUME NEW i \in 1 .. N - 1 PROVE g[i] = h[i]
  <2>1. up(i) \in 1 .. N /\ up(i) # k /\ i \in 1 .. Len(d)
    BY <1>1, <1>6
  <2>2. c[up(i)] # c[k] /\ c[up(i)] \in Range(c)
    BY <1>6, <2>1 DEF Distinct
  <2>3. SameOrder(P, P2, c[up(i)])
    BY <2>2
  <2>4. h[i] = f[up(i)] /\ d[i] = c[up(i)]
    BY <1>2, <1>5
  <2> HIDE DEF up
  <2>5. /\ f[up(i)] = [id |-> P[c[up(i)]].order_id, quantity |-> P[c[up(i)]].quantity]
        /\ g[i] = [id |-> P2[d[i]].order_id, quantity |-> P2[d[i]].quantity]
    BY <1>3, <1>4, <2>1
  <2> QED
    BY <2>3, <2>4, <2>5 DEF SameOrder
<1>8. g = h
  BY <1>1, <1>4, <1>5, <1>7, SeqEqual
<1> QED
  BY <1>8 DEF d, f, g, h

LEMMA QueueOfReduced ==
  ASSUME NEW P \in [Slots -> Nodes], NEW P2 \in [Slots -> Nodes], NEW c \in Seq(Slots),
         Distinct(c), NEW k \in 1 .. Len(c), NEW rest, P2[c[k]].quantity = rest,
         P2[c[k]].order_id = P[c[k]].order_id,
         \A m \in Range(c) \ {c[k]} : SameOrder(P, P2, m)
  PROVE  QueueOf(P2, c) = [QueueOf(P, c) EXCEPT ![k].quantity = rest]
<1> DEFINE f == QueueOf(P, c)
           g == QueueOf(P2, c)
           h == [f EXCEPT ![k].quantity = rest]
<1>1. /\ DOMAIN f = 1 .. Len(c) /\ DOMAIN g = 1 .. Len(c)
      /\ f = [i \in 1 .. Len(c) |-> f[i]] /\ g = [i \in 1 .. Len(c) |-> g[i]]
      /\ \A i \in 1 .. Len(c) : f[i] = [id |-> P[c[i]].order_id, quantity |-> P[c[i]].quantity]
      /\ \A i \in 1 .. Len(c) : g[i] = [id |-> P2[c[i]].order_id, quantity |-> P2[c[i]].quantity]
  BY DEF QueueOf
<1>2. \A i \in 1 .. Len(c) : c[i] \in Range(c)
  BY DEF Range
<1> HIDE DEF f, g
<1>3. h = [i \in 1 .. Len(c) |-> IF i = k THEN [f[k] EXCEPT !.quantity = rest] ELSE f[i]]
  BY <1>1
<1>4. [f[k] EXCEPT !.quantity = rest] = [id |-> P[c[k]].order_id, quantity |-> rest]
  BY <1>1
<1>5. ASSUME NEW i \in 1 .. Len(c), i # k PROVE f[i] = g[i]
  <2>1. c[i] # c[k]
    BY <1>5 DEF Distinct
  <2>2. SameOrder(P, P2, c[i])
    BY <1>2, <2>1
  <2> QED
    BY <1>1, <2>2 DEF SameOrder
<1>6. g[k] = [id |-> P[c[k]].order_id, quantity |-> rest]
  BY <1>1
<1>7. \A i \in 1 .. Len(c) : h[i] = g[i]
  BY <1>3, <1>4, <1>5, <1>6
<1>8. h = [i \in 1 .. Len(c) |-> h[i]]
  BY <1>3
<1> HIDE DEF h
<1>9. g = h
  BY <1>1, <1>7, <1>8
<1> QED
  BY <1>9 DEF f, g, h

(* update_best_prices: the cached best prices are those of the queues,     *)
(* never that of a level already gone or of an order refused.              *)
THEOREM BestPricesAreRight == Spec => []BestPricesCurrent
<1>1. IInv => BestPricesCurrent
  <2> SUFFICES ASSUME IInv PROVE BestPricesCurrent
    OBVIOUS
  <2>1. ASSUME NEW s \in Sides PROVE Abstract!NonEmpty(s) = prices[s]
    <3>1. ASSUME NEW p \in Prices PROVE Queue(s, p) # << >> <=> p \in prices[s]
      <4>1. Queue(s, p) = QueueOf(pool, NodesAt(s, p))
        BY QueuesFollow DEF QueuesAreOfNodes
      <4>2. PICK c \in Seq(Slots) : c = NodesAt(s, p)
        BY NodesType
      <4>3. Len(Queue(s, p)) = Len(c) /\ Queue(s, p) \in Seq(Orders)
        BY <4>1, <4>2, QueueOfType DEF IInv, Types
      <4>4. p \in prices[s] => Len(c) > 0
        BY <4>2, LevelFacts DEF IsChain
      <4>5. p \notin prices[s] => c = << >>
        BY <4>2, AbsentNodes DEF AbsentHasNone, IInv, Types
      <4>6. Queue(s, p) = << >> <=> Len(c) = 0
        BY <4>3
      <4> QED
        BY <4>4, <4>5, <4>6
    <3>2. prices[s] \subseteq Prices
      BY DEF IInv, Types
    <3>3. Abstract!NonEmpty(s) = {p \in Prices : Queue(s, p) # << >>}
      BY DEF Abstract!NonEmpty
    <3> QED
      BY <3>1, <3>2, <3>3
  <2>2. /\ Abstract!NonEmpty("BUY") = prices["BUY"]
        /\ Abstract!NonEmpty("SELL") = prices["SELL"]
    BY <2>1 DEF Sides
  <2>3. PICK B, A : B = prices["BUY"] /\ A = prices["SELL"]
    OBVIOUS
  <2>4. Abstract!Max(B) = Max(B) /\ Abstract!Min(A) = Min(A)
    BY DEF Abstract!Max, Max, Abstract!Min, Min
  <2>5. /\ Abstract!BestBid = IF B = {} THEN 0 ELSE Abstract!Max(B)
        /\ Abstract!BestAsk = IF A = {} THEN MaxPriceTicks ELSE Abstract!Min(A)
    BY <2>2, <2>3 DEF Abstract!BestBid, Abstract!BestAsk
  <2>6. /\ best_bid = IF B = {} THEN 0 ELSE Max(B)
        /\ best_ask = IF A = {} THEN MaxPriceTicks ELSE Min(A)
    BY <2>3 DEF IInv, Best
  <2> QED
    BY <2>4, <2>5, <2>6 DEF BestPricesCurrent
<1> QED
  BY Invariance, <1>1, PTL

-----------------------------------------------------------------------------
(* What the abstract book sees in a state of the invariant. *)

(* Each element of a queue is the order of a node at that side and price. *)
LEMMA QueueElements ==
  ASSUME IInv, NEW t \in Sides, NEW x, NEW c, c = NodesAt(t, x)
  PROVE  /\ c \in Seq(Slots) /\ Distinct(c) /\ Range(c) = At(t, x)
         /\ Queue(t, x) = QueueOf(pool, c)
         /\ Queue(t, x) \in Seq(Orders)
         /\ Len(Queue(t, x)) = Len(c) /\ DOMAIN Queue(t, x) = 1 .. Len(c)
         /\ \A k \in 1 .. Len(c) :
              Queue(t, x)[k] = [id |-> pool[c[k]].order_id, quantity |-> pool[c[k]].quantity]
<1>1. c \in Seq(Slots) /\ Range(c) = At(t, x)
  BY NodesType
<1>2. Queue(t, x) = QueueOf(pool, c)
  BY QueuesFollow DEF QueuesAreOfNodes
<1>3. pool \in [Slots -> Nodes]
  BY DEF IInv, Types
<1>4. /\ QueueOf(pool, c) \in Seq(Orders)
      /\ Len(QueueOf(pool, c)) = Len(c)
      /\ \A k \in 1 .. Len(c) :
           QueueOf(pool, c)[k] = [id |-> pool[c[k]].order_id, quantity |-> pool[c[k]].quantity]
  BY <1>1, <1>3, QueueOfType
<1>5. Distinct(c)
  <2>1. CASE x \in prices[t]
    BY <2>1, LevelFacts DEF IsChain
  <2>2. CASE x \notin prices[t]
    <3>1. c = << >>
      BY <2>2, AbsentNodes DEF AbsentHasNone, IInv, Types
    <3> QED
      BY <3>1 DEF Distinct
  <2> QED
    BY <2>1, <2>2
<1>6. DOMAIN Queue(t, x) = 1 .. Len(c)
  BY <1>2, <1>4
<1> QED
  BY <1>1, <1>2, <1>4, <1>5, <1>6

(* A live node holds the order that leads to it. *)
LEMMA OrderOfNode ==
  ASSUME IInv, NEW m \in LiveSlots
  PROVE  /\ pool[m].order_id \in DOMAIN order_map
         /\ order_map[pool[m].order_id] = m
BY DEF LiveSlots, Range, IInv, OrdersFound

(* An order waits in a queue just if its node is there. *)
LEMMA WaitsAt ==
  ASSUME IInv, NEW t \in Sides, NEW x, NEW id
  PROVE  (\E o \in Abstract!Range(Queue(t, x)) : o.id = id)
           <=> (id \in DOMAIN order_map /\ order_map[id] \in At(t, x))
<1> PICK c : c = NodesAt(t, x)
  OBVIOUS
<1>1. /\ c \in Seq(Slots) /\ Range(c) = At(t, x)
      /\ DOMAIN Queue(t, x) = 1 .. Len(c)
      /\ \A k \in 1 .. Len(c) :
           Queue(t, x)[k] = [id |-> pool[c[k]].order_id, quantity |-> pool[c[k]].quantity]
  BY QueueElements
<1>2. Abstract!Range(Queue(t, x)) = {Queue(t, x)[k] : k \in 1 .. Len(c)}
  BY <1>1 DEF Abstract!Range
<1>3. (\E o \in Abstract!Range(Queue(t, x)) : o.id = id)
        <=> \E k \in 1 .. Len(c) : pool[c[k]].order_id = id
  BY <1>1, <1>2
<1>4. At(t, x) = {c[k] : k \in 1 .. Len(c)}
  BY <1>1 DEF Range
<1>5. At(t, x) \subseteq LiveSlots
  BY LiveAreSlots
<1>6. \A m \in LiveSlots : pool[m].order_id = id <=> id \in DOMAIN order_map /\ order_map[id] = m
  BY OrderOfNode DEF IInv, OrdersFound
<1> QED
  BY <1>3, <1>4, <1>5, <1>6

(* order_map_ knows exactly the waiting orders. *)
LEMMA LiveOrders ==
  ASSUME IInv
  PROVE  /\ Abstract!Live = DOMAIN order_map
         /\ \A id : Abstract!IsLive(id) <=> id \in DOMAIN order_map
<1>1. ASSUME NEW id
      PROVE  id \in Abstract!Live <=> \E t \in Sides, x \in Prices :
                                         \E o \in Abstract!Range(Queue(t, x)) : o.id = id
  <2> DEFINE Q == [t \in Sides |-> [x \in Prices |-> Queue(t, x)]]
  <2>1. Abstract!Live =
          UNION {{o.id : o \in Abstract!Range(Q[t][x])} : t \in Sides, x \in Prices}
    BY DEF Abstract!Live, Abstract!Sides, Sides
  <2>2. \A t \in Sides, x \in Prices : Q[t][x] = Queue(t, x)
    OBVIOUS
  <2> HIDE DEF Q
  <2> DEFINE Ids(t, x) == {o.id : o \in Abstract!Range(Q[t][x])}
  <2>3. \A t \in Sides, x \in Prices :
          id \in Ids(t, x) <=> \E o \in Abstract!Range(Queue(t, x)) : o.id = id
    BY <2>2
  <2>4. Abstract!Live = UNION {Ids(t, x) : t \in Sides, x \in Prices}
    BY <2>1
  <2> HIDE DEF Ids
  <2>5. id \in Abstract!Live <=> \E t \in Sides, x \in Prices : id \in Ids(t, x)
    BY <2>4
  <2> QED
    BY <2>3, <2>5
<1>2. ASSUME NEW id \in DOMAIN order_map
      PROVE  \E t \in Sides, x \in Prices : order_map[id] \in At(t, x)
  <2>1. order_map[id] \in LiveSlots
    BY DEF LiveSlots, Range
  <2> QED
    BY <2>1, LiveAreSlots DEF IInv, Types
<1>3. \A id : \A t \in Sides, x \in Prices :
        (\E o \in Abstract!Range(Queue(t, x)) : o.id = id)
          <=> (id \in DOMAIN order_map /\ order_map[id] \in At(t, x))
  BY WaitsAt
<1>4. \A id : id \in Abstract!Live <=> id \in DOMAIN order_map
  BY <1>1, <1>2, <1>3
<1>5. Abstract!Live = DOMAIN order_map
  BY <1>4
<1> QED
  BY <1>5 DEF Abstract!IsLive

(* The pool is exhausted when as many orders wait as it has nodes. *)
LEMMA FullPool ==
  ASSUME IInv
  PROVE  /\ Cardinality(DOMAIN order_map) \in Nat
         /\ Cardinality(DOMAIN order_map) <= MaxOrders
         /\ Cardinality(DOMAIN order_map) = MaxOrders <=> Exhausted
<1>1. order_map \in Injection(DOMAIN order_map, Slots)
  BY DEF IInv, Types, PoolConserved, Injection, IsInjective
<1>2. /\ IsFiniteSet(DOMAIN order_map)
      /\ Cardinality(DOMAIN order_map) <= Cardinality(Slots)
      /\ Cardinality(DOMAIN order_map) = Cardinality(Slots)
            <=> order_map \in Surjection(DOMAIN order_map, Slots)
  BY <1>1, SlotsFinite, FS_Injection
<1>3. order_map \in Surjection(DOMAIN order_map, Slots) <=> LiveSlots = Slots
  BY DEF Surjection, LiveSlots, Range, IInv, Types
<1>4. LiveSlots = Slots <=> Range(free_list) = {}
  BY LiveAreSlots DEF IInv, PoolConserved
<1>5. Range(free_list) = {} <=> Exhausted
  <2>1. /\ free_list \in Seq(Slots) /\ Len(free_list) \in Nat
        /\ DOMAIN free_list = 1 .. Len(free_list)
    BY DEF IInv, Types
  <2>2. Range(free_list) = {} <=> 1 .. Len(free_list) = {}
    BY <2>1 DEF Range
  <2>3. \A N \in Nat : 1 .. N = {} <=> N = 0
    <3>1. \A N \in Nat : N # 0 => 1 \in 1 .. N
      OBVIOUS
    <3> QED
      BY <3>1
  <2>4. free_list = << >> <=> Len(free_list) = 0
    BY <2>1
  <2> QED
    BY <2>1, <2>2, <2>3, <2>4 DEF Exhausted
<1> QED
  BY <1>2, <1>3, <1>4, <1>5, SlotsFinite, FS_CardinalityType

(* The abstract book finds an order where its node is. *)
LEMMA PlaceOfOrder ==
  ASSUME IInv, NEW id \in DOMAIN order_map, NEW n, n = order_map[id],
         NEW s, NEW p, s = pool[n].side, p = pool[n].price, NEW k, StandsAt(n, s, p, k)
  PROVE  /\ Abstract!Place(id) = [s |-> s, p |-> p, i |-> k]
         /\ Abstract!OrderOf(id) = [id |-> id, quantity |-> pool[n].quantity]
<1> PICK c : c = NodesAt(s, p)
  OBVIOUS
<1>1. n \in LiveSlots
  BY DEF LiveSlots, Range
<1>2. s \in Sides /\ p \in prices[s] /\ p \in Prices /\ n \in At(s, p)
  BY <1>1, PlaceInLevel DEF IInv, Types
<1>3. /\ c \in Seq(Slots) /\ Distinct(c) /\ Range(c) = At(s, p)
      /\ DOMAIN Queue(s, p) = 1 .. Len(c)
      /\ \A j \in 1 .. Len(c) :
           Queue(s, p)[j] = [id |-> pool[c[j]].order_id, quantity |-> pool[c[j]].quantity]
  BY <1>2, QueueElements
<1>4. k \in 1 .. Len(c) /\ c[k] = n
  BY DEF StandsAt
<1> DEFINE Q == [t \in Sides |-> [x \in Prices |-> Queue(t, x)]]
<1>5. \A t \in Sides, x \in Prices : Q[t][x] = Queue(t, x)
  OBVIOUS
<1> DEFINE Here(w) == \E o \in Abstract!Range(Q[w[1]][w[2]]) : o.id = id
           There(i) == Q[s][p][i].id = id
<1>6. \A w \in Sides \X Prices : Here(w) <=> w = <<s, p>>
  <2> SUFFICES ASSUME NEW t \in Sides, NEW x \in Prices PROVE Here(<<t, x>>) <=> t = s /\ x = p
    BY <1>2
  <2>1. Here(<<t, x>>) <=> \E o \in Abstract!Range(Queue(t, x)) : o.id = id
    BY <1>5
  <2>2. Here(<<t, x>>) <=> n \in At(t, x)
    BY <2>1, WaitsAt
  <2>3. n \in At(t, x) <=> t = s /\ x = p
    BY <1>1 DEF At
  <2> QED
    BY <2>2, <2>3
<1>7. DOMAIN Q[s][p] = 1 .. Len(c)
  BY <1>2, <1>3, <1>5
<1>8. \A i \in 1 .. Len(c) : There(i) <=> i = k
  <2> SUFFICES ASSUME NEW i \in 1 .. Len(c) PROVE There(i) <=> i = k
    OBVIOUS
  <2>1. Q[s][p][i].id = pool[c[i]].order_id
    <3>1. Q[s][p] = Queue(s, p)
      BY <1>2, <1>5
    <3> HIDE DEF Q, Here, There
    <3>2. Q[s][p][i] = [id |-> pool[c[i]].order_id, quantity |-> pool[c[i]].quantity]
      BY <1>3, <3>1
    <3> QED
      BY <3>2
  <2>2. c[i] \in LiveSlots
    <3>1. At(s, p) \subseteq LiveSlots
      BY LiveAreSlots
    <3>2. DOMAIN c = 1 .. Len(c)
      BY <1>3
    <3>3. c[i] \in Range(c)
      BY <3>2 DEF Range
    <3> QED
      BY <1>3, <3>1, <3>3
  <2>3. pool[c[i]].order_id = id <=> c[i] = n
    BY <2>2, OrderOfNode DEF IInv, OrdersFound
  <2>4. c[i] = n <=> i = k
    BY <1>3, <1>4 DEF Distinct
  <2> QED
    BY <2>1, <2>3, <2>4
<1>9. Abstract!Place(id) =
        LET w == CHOOSE w \in Sides \X Prices : Here(w)
            i == CHOOSE i \in DOMAIN Q[w[1]][w[2]] : Q[w[1]][w[2]][i].id = id
        IN  [s |-> w[1], p |-> w[2], i |-> i]
  BY DEF Abstract!Place, Abstract!Sides, Sides
<1>10. <<s, p>> = CHOOSE w \in Sides \X Prices : Here(w)
  <2> HIDE DEF Here
  <2> QED
    BY <1>2, <1>6
<1>11. k = CHOOSE i \in 1 .. Len(c) : There(i)
  <2> HIDE DEF There
  <2> QED
    BY <1>4, <1>8
<1>12. Abstract!Place(id) = [s |-> s, p |-> p, i |-> k]
  <2> DEFINE W == CHOOSE w \in Sides \X Prices : Here(w)
  <2>1. Abstract!Place(id) =
          [s |-> W[1], p |-> W[2],
           i |-> CHOOSE i \in DOMAIN Q[W[1]][W[2]] : Q[W[1]][W[2]][i].id = id]
    BY <1>9
  <2> HIDE DEF Q, Here
  <2>2. W[1] = s /\ W[2] = p
    <3>1. W = <<s, p>>
      BY <1>10
    <3> HIDE DEF W
    <3> QED
      BY <3>1
  <2> HIDE DEF W
  <2>3. k = CHOOSE i \in DOMAIN Q[s][p] : Q[s][p][i].id = id
    BY <1>7, <1>11
  <2> QED
    BY <2>1, <2>2, <2>3
<1>13. Q[s][p][k] = [id |-> id, quantity |-> pool[n].quantity]
  BY <1>2, <1>3, <1>4, <1>5 DEF IInv, OrdersFound
<1>14. Abstract!OrderOf(id) = Q[Abstract!Place(id).s][Abstract!Place(id).p][Abstract!Place(id).i]
  BY DEF Abstract!OrderOf, Sides
<1> QED
  BY <1>12, <1>13, <1>14

-----------------------------------------------------------------------------
(* What each operation does to the queues. *)

Queues == [t \in Sides |-> [x \in Prices |-> Queue(t, x)]]
QueuesWith(s, p, queue) == [Queues EXCEPT ![s][p] = queue]
WithRest(queue, k, rest) == [queue EXCEPT ![k].quantity = rest]

LEMMA QueuesUpdated ==
  ASSUME NEW s \in Sides, NEW p \in Prices, NEW v,
         \A t \in Sides, x \in Prices : Queue(t, x)' = IF t = s /\ x = p THEN v ELSE Queue(t, x)
  PROVE  Queues' = QueuesWith(s, p, v)
BY DEF Queues, QueuesWith

LEMMA QueuesKept ==
  ASSUME \A t \in Sides, x \in Prices : Queue(t, x)' = Queue(t, x)
  PROVE  Queues' = Queues
BY DEF Queues

(* A call that changes nothing keeps the queues. *)
LEMMA NoChangeQueues ==
  ASSUME UNCHANGED <<pool, levels>>
  PROVE  Queues' = Queues
BY DEF Queues, Queue, NodesAt, Walk

(* add_order puts the order behind those that came before it. *)
LEMMA AddQueues ==
  ASSUME IInv, NEW id \in OrderIds, NEW s \in Sides, NEW p \in Prices, NEW q \in Quantities,
         AddOrder(id, s, p, q)
  PROVE  Queues' = QueuesWith(s, p, Append(Queue(s, p), [id |-> id, quantity |-> q]))
<1> PICK n : n = Allocated
  OBVIOUS
<1>1. IInv'
  BY AddStep
<1>2. /\ n \in Slots /\ n \notin LiveSlots /\ pool' \in [Slots -> Nodes]
      /\ pool'[n].order_id = id /\ pool'[n].quantity = q
      /\ \A m \in Slots \ {n} : SameOrder(pool, pool', m)
  BY AddPool
<1>3. \A t \in Sides : /\ prices'[t] = IF t = s THEN prices[t] \union {p} ELSE prices[t]
                       /\ levels'[t] \in [prices'[t] -> Levels]
  BY AddLevels
<1>4. pool \in [Slots -> Nodes]
  BY DEF IInv, Types
<1>5. ASSUME NEW t \in Sides, NEW x \in Prices
      PROVE  NodesAt(t, x)' = IF t = s /\ x = p THEN Append(NodesAt(s, p), n) ELSE NodesAt(t, x)
  <2>1. CASE x \in prices'[t]
    <3>1. NodesAt(t, x)' = IF t = s /\ x = p
                           THEN IF p \in prices[s] THEN Append(NodesAt(s, p), n) ELSE <<n>>
                           ELSE NodesAt(t, x)
      BY <2>1, AddNodes
    <3>2. p \notin prices[s] => Append(NodesAt(s, p), n) = <<n>>
      <4>1. p \notin prices[s] => NodesAt(s, p) = << >>
        BY AbsentNodes DEF AbsentHasNone, IInv, Types
      <4>2. Append(<< >>, n) = <<n>>
        OBVIOUS
      <4> QED
        BY <4>1, <4>2
    <3> QED
      BY <3>1, <3>2
  <2>2. CASE x \notin prices'[t]
    <3>1. NodesAt(t, x)' = << >>
      BY <1>1, <2>2, AbsentNodesNext DEF AbsentHasNone, IInv, Types
    <3>2. x \notin prices[t] /\ ~(t = s /\ x = p)
      BY <1>3, <2>2
    <3>3. NodesAt(t, x) = << >>
      BY <3>2, AbsentNodes DEF AbsentHasNone, IInv, Types
    <3> QED
      BY <3>1, <3>2, <3>3
  <2> QED
    BY <2>1, <2>2
<1>6. ASSUME NEW t \in Sides, NEW x \in Prices
      PROVE  Queue(t, x)' = IF t = s /\ x = p
                            THEN Append(Queue(s, p), [id |-> id, quantity |-> q])
                            ELSE Queue(t, x)
  <2> PICK c : c = NodesAt(t, x)
    OBVIOUS
  <2>1. c \in Seq(Slots) /\ Range(c) = At(t, x) /\ Queue(t, x) = QueueOf(pool, c)
    BY QueueElements
  <2>2. \A m \in Range(c) : SameOrder(pool, pool', m)
    BY <1>2, <2>1, LiveAreSlots
  <2>3. Queue(t, x)' = QueueOf(pool', NodesAt(t, x)')
    BY QueuesFollowNext DEF QueuesAreOfNodes
  <2>4. CASE t = s /\ x = p
    <3>1. Queue(t, x)' = QueueOf(pool', Append(c, n))
      BY <1>5, <2>3, <2>4
    <3>2. QueueOf(pool', Append(c, n)) =
            Append(QueueOf(pool, c), [id |-> pool'[n].order_id, quantity |-> pool'[n].quantity])
      BY <1>2, <1>4, <2>1, <2>2, QueueOfAppended
    <3> QED
      BY <1>2, <2>1, <2>4, <3>1, <3>2
  <2>5. CASE ~(t = s /\ x = p)
    <3>1. Queue(t, x)' = QueueOf(pool', c)
      BY <1>5, <2>3, <2>5
    <3>2. QueueOf(pool', c) = QueueOf(pool, c)
      BY <2>1, <2>2, QueueOfSame
    <3> QED
      BY <2>1, <2>5, <3>1, <3>2
  <2> QED
    BY <2>4, <2>5
<1> QED
  BY <1>6, QueuesUpdated

(* A part of an order taken leaves the rest where it stands. *)
LEMMA ShrinkQueues ==
  ASSUME IInv, NEW n \in LiveSlots, NEW q \in Nat, q < pool[n].quantity, Shrink(n, q),
         running' = running, NEW s, NEW p, s = pool[n].side, p = pool[n].price,
         NEW k, StandsAt(n, s, p, k)
  PROVE  Queues' = QueuesWith(s, p, WithRest(Queue(s, p), k, pool[n].quantity - q))
<1>1. /\ IInv'
      /\ \A t \in Sides : \A x \in prices[t] : NodesAt(t, x)' = NodesAt(t, x)
  BY ShrinkStep
<1>2. /\ pool' \in [Slots -> Nodes]
      /\ \A m \in Slots : m # n => pool'[m] = pool[m]
      /\ pool'[n].order_id = pool[n].order_id
      /\ pool'[n].quantity = pool[n].quantity - q
  BY ShrinkNodes
<1>3. prices' = prices
  BY DEF Shrink
<1>4. pool \in [Slots -> Nodes] /\ n \in Slots
  BY LiveAreSlots DEF IInv, Types
<1>5. s \in Sides /\ p \in prices[s] /\ p \in Prices
  BY PlaceInLevel DEF IInv, Types
<1>6. ASSUME NEW t \in Sides, NEW x \in Prices
      PROVE  NodesAt(t, x)' = NodesAt(t, x)
  <2>1. CASE x \in prices[t]
    BY <1>1, <2>1
  <2>2. CASE x \notin prices[t]
    <3>1. NodesAt(t, x)' = << >>
      BY <1>1, <1>3, <2>2, AbsentNodesNext DEF AbsentHasNone, IInv, Types
    <3>2. NodesAt(t, x) = << >>
      BY <2>2, AbsentNodes DEF AbsentHasNone, IInv, Types
    <3> QED
      BY <3>1, <3>2
  <2> QED
    BY <2>1, <2>2
<1>0. PICK v : v = WithRest(Queue(s, p), k, pool[n].quantity - q)
  OBVIOUS
<1>7. ASSUME NEW t \in Sides, NEW x \in Prices
      PROVE  Queue(t, x)' = IF t = s /\ x = p THEN v ELSE Queue(t, x)
  <2> PICK c : c = NodesAt(t, x)
    OBVIOUS
  <2>1. /\ c \in Seq(Slots) /\ Distinct(c) /\ Range(c) = At(t, x)
        /\ Queue(t, x) = QueueOf(pool, c)
    BY QueueElements
  <2>2. \A m \in Range(c) : m \in Slots
    BY <2>1, LiveAreSlots
  <2>3. \A m \in Range(c) \ {n} : SameOrder(pool, pool', m)
    BY <1>2, <2>2 DEF SameOrder
  <2>4. Queue(t, x)' = QueueOf(pool', c)
    <3>1. Queue(t, x)' = QueueOf(pool', NodesAt(t, x)')
      BY QueuesFollowNext DEF QueuesAreOfNodes
    <3> QED
      BY <1>6, <3>1
  <2>5. CASE t = s /\ x = p
    <3>1. k \in 1 .. Len(c) /\ c[k] = n
      BY <2>5 DEF StandsAt
    <3> PICK rest : rest = pool[n].quantity - q
      OBVIOUS
    <3>2. QueueOf(pool', c) = [QueueOf(pool, c) EXCEPT ![k].quantity = rest]
      BY <1>2, <1>4, <2>1, <2>3, <3>1, QueueOfReduced
    <3> QED
      BY <1>0, <2>1, <2>4, <2>5, <3>2 DEF WithRest
  <2>6. CASE ~(t = s /\ x = p)
    <3>1. n \notin Range(c)
      BY <2>1, <2>6 DEF At
    <3>2. QueueOf(pool', c) = QueueOf(pool, c)
      BY <2>1, <2>3, <3>1, QueueOfSame
    <3> QED
      BY <2>1, <2>4, <2>6, <3>2
  <2> QED
    BY <2>5, <2>6
<1>8. Queues' = QueuesWith(s, p, v)
  BY <1>5, <1>7, QueuesUpdated
<1> QED
  BY <1>0, <1>8

(* The whole of an order taken takes it out of its queue. *)
LEMMA RemoveQueues ==
  ASSUME IInv, NEW id \in DOMAIN order_map, NEW n, n = order_map[id], Remove(id, n),
         running' = running, NEW s, NEW p, s = pool[n].side, p = pool[n].price,
         NEW k, StandsAt(n, s, p, k)
  PROVE  Queues' = QueuesWith(s, p, RemoveAt(Queue(s, p), k))
<1>1. IInv'
  BY RemoveStep
<1>2. /\ n \in LiveSlots /\ pool' \in [Slots -> Nodes]
      /\ \A m \in Slots \ {n} : SameOrder(pool, pool', m)
  BY RemovePool
<1>3. pool \in [Slots -> Nodes] /\ n \in Slots
  BY <1>2, LiveAreSlots DEF IInv, Types
<1>4. s \in Sides /\ p \in prices[s] /\ p \in Prices
  BY <1>2, PlaceInLevel DEF IInv, Types
<1>0. PICK alone : alone = (Len(NodesAt(s, p)) = 1)
  OBVIOUS
<1>5. \A t \in Sides : prices'[t] = IF t = s /\ alone THEN prices[t] \ {p} ELSE prices[t]
  <2>1. /\ prices' \in [Sides -> SUBSET Prices]
        /\ levels' = [t \in Sides |-> levels'[t]]
        /\ \A t \in Sides : /\ prices'[t] = IF t = s /\ alone THEN prices[t] \ {p} ELSE prices[t]
                            /\ DOMAIN levels'[t] = prices'[t]
                            /\ levels'[t] = [x \in DOMAIN levels'[t] |-> levels'[t][x]]
        /\ \A t \in Sides : \A x \in prices'[t] : t # s \/ x # p => levels'[t][x] = levels[t][x]
        /\ ~alone => levels'[s][p] = LevelWithout(levels[s][p], n)
    BY ONLY IInv, id \in DOMAIN order_map, n = order_map[id], Remove(id, n),
            s = pool[n].side, p = pool[n].price, <1>0, RemoveLevels, SMTT(30)
  <2> QED
    BY <2>1
<1>6. /\ NodesAt(s, p) \in Seq(Slots) /\ Distinct(NodesAt(s, p))
      /\ k \in 1 .. Len(NodesAt(s, p)) /\ NodesAt(s, p)[k] = n
  BY <1>4, QueueElements DEF StandsAt
<1>7. ASSUME NEW t \in Sides, NEW x \in Prices
      PROVE  NodesAt(t, x)' = IF t = s /\ x = p THEN RemoveAt(NodesAt(s, p), k) ELSE NodesAt(t, x)
  <2>1. CASE x \in prices'[t]
    BY <2>1, RemoveNodes
  <2>2. CASE x \notin prices'[t]
    <3>1. NodesAt(t, x)' = << >>
      BY <1>1, <2>2, AbsentNodesNext DEF AbsentHasNone, IInv, Types
    <3>2. CASE t = s /\ x = p
      <4>1. Len(NodesAt(s, p)) = 1
        BY <1>0, <1>4, <1>5, <2>2, <3>2
      <4>2. RemoveAt(NodesAt(s, p), k) \in Seq(Slots) /\ Len(RemoveAt(NodesAt(s, p), k)) = 0
        BY <1>6, <4>1, RemoveAtShifts
      <4>3. RemoveAt(NodesAt(s, p), k) = << >>
        BY <4>2
      <4> QED
        BY <3>1, <3>2, <4>3
    <3>3. CASE ~(t = s /\ x = p)
      <4>1. x \notin prices[t]
        BY <1>5, <2>2, <3>3
      <4>2. NodesAt(t, x) = << >>
        BY <4>1, AbsentNodes DEF AbsentHasNone, IInv, Types
      <4> QED
        BY <3>1, <3>3, <4>2
    <3> QED
      BY <3>2, <3>3
  <2> QED
    BY <2>1, <2>2
<1>8. ASSUME NEW t \in Sides, NEW x \in Prices
      PROVE  Queue(t, x)' = IF t = s /\ x = p THEN RemoveAt(Queue(s, p), k) ELSE Queue(t, x)
  <2> PICK c : c = NodesAt(t, x)
    OBVIOUS
  <2>1. /\ c \in Seq(Slots) /\ Distinct(c) /\ Range(c) = At(t, x)
        /\ Queue(t, x) = QueueOf(pool, c)
    BY QueueElements
  <2>2. \A m \in Range(c) \ {n} : SameOrder(pool, pool', m)
    BY <1>2, <2>1, LiveAreSlots
  <2>3. Queue(t, x)' = QueueOf(pool', NodesAt(t, x)')
    BY QueuesFollowNext DEF QueuesAreOfNodes
  <2>4. CASE t = s /\ x = p
    <3>1. k \in 1 .. Len(c) /\ c[k] = n
      BY <1>6, <2>4
    <3>2. QueueOf(pool', RemoveAt(c, k)) = RemoveAt(QueueOf(pool, c), k)
      BY <1>2, <1>3, <2>1, <2>2, <3>1, QueueOfWithout
    <3> QED
      BY <1>7, <2>1, <2>3, <2>4, <3>2
  <2>5. CASE ~(t = s /\ x = p)
    <3>1. n \notin Range(c)
      BY <2>1, <2>5 DEF At
    <3>2. QueueOf(pool', c) = QueueOf(pool, c)
      BY <2>1, <2>2, <3>1, QueueOfSame
    <3> QED
      BY <1>7, <2>1, <2>3, <2>5, <3>2
  <2> QED
    BY <2>4, <2>5
<1> QED
  BY <1>4, <1>8, QueuesUpdated

-----------------------------------------------------------------------------
(* Each step of the book is a step of the abstract book. *)

(* Shares taken from an order leave the queues as Reduce says. *)
LEMMA TakenFromQueue ==
  ASSUME IInv, NEW call, NEW id \in DOMAIN order_map, NEW n, n = order_map[id],
         NEW q \in Nat, q # 0, q <= pool[n].quantity, TakeShares(call, id, n, q),
         running' = running
  PROVE  Abstract!Reduce(id, q)
<1>1. /\ n \in LiveSlots /\ pool[n].quantity \in Nat
  BY LiveAreSlots DEF LiveSlots, Range
<1>2. PICK s : s = pool[n].side
  OBVIOUS
<1>3. PICK p : p = pool[n].price
  OBVIOUS
<1>4. PICK k : StandsAt(n, s, p, k)
  BY <1>1, <1>2, <1>3, PlaceInLevel
<1>5. s \in Sides /\ p \in Prices
  BY <1>1, <1>2, <1>3, PlaceInLevel DEF IInv, Types
<1>6. PICK rest : rest = pool[n].quantity - q
  OBVIOUS
<1>7. PICK old : old = Queue(s, p)
  OBVIOUS
<1>8. Queues' = QueuesWith(s, p, IF rest = 0 THEN RemoveAt(old, k) ELSE WithRest(old, k, rest))
  <2>1. CASE q < pool[n].quantity
    <3>1. Shrink(n, q) /\ rest # 0
      BY <1>1, <1>6, <2>1 DEF TakeShares
    <3>2. Queues' = QueuesWith(s, p, WithRest(Queue(s, p), k, pool[n].quantity - q))
      BY <1>1, <1>2, <1>3, <1>4, <2>1, <3>1, ShrinkQueues
    <3> QED
      BY <1>6, <1>7, <3>1, <3>2
  <2>2. CASE ~(q < pool[n].quantity)
    <3>1. Remove(id, n) /\ rest = 0
      BY <1>1, <1>6, <2>2 DEF TakeShares
    <3>2. Queues' = QueuesWith(s, p, RemoveAt(Queue(s, p), k))
      BY <1>2, <1>3, <1>4, <3>1, RemoveQueues
    <3> QED
      BY <1>7, <3>1, <3>2
  <2> QED
    BY <2>1, <2>2
<1>9. /\ Abstract!Place(id) = [s |-> s, p |-> p, i |-> k]
      /\ Abstract!OrderOf(id) = [id |-> id, quantity |-> pool[n].quantity]
  BY <1>2, <1>3, <1>4, PlaceOfOrder, SMTT(30)
<1>10. Abstract!OrderOf(id).quantity - q = rest
  BY <1>6, <1>9
<1>11. Queues[s][p] = old
  BY <1>5, <1>7 DEF Queues
<1>12. PICK w : w = Abstract!Place(id)
  OBVIOUS
<1>13. Abstract!Reduce(id, q) <=>
         Queues' = [Queues EXCEPT ![w.s][w.p] =
                      IF Abstract!OrderOf(id).quantity - q = 0
                      THEN RemoveAt(@, w.i) ELSE [@ EXCEPT ![w.i].quantity =
                                                    Abstract!OrderOf(id).quantity - q]]
  BY <1>12 DEF Abstract!Reduce, Abstract!RemoveAt, RemoveAt, Queues
<1>14. w.s = s /\ w.p = p /\ w.i = k
  BY <1>9, <1>12
<1>15. Abstract!Reduce(id, q) <=>
         Queues' = [Queues EXCEPT ![s][p] =
                      IF rest = 0 THEN RemoveAt(@, k) ELSE [@ EXCEPT ![k].quantity = rest]]
  BY <1>10, <1>13, <1>14
<1> QED
  BY <1>8, <1>11, <1>15 DEF QueuesWith, WithRest

(* A call that is refused or unknown keeps what the abstract book shows. *)
LEMMA RejectedInAbstract ==
  ASSUME IInv, NEW id \in OrderIds, NEW q \in Quantities, NEW p \in Prices, NEW s \in Sides,
         AddRejected(id, p, q)
  PROVE  Abstract!AddOrder(id, s, p, q)
<1>1. Queues' = Queues
  BY NoChangeQueues DEF AddRejected
<1>2. Abstract!Rejected(id, p, q)
  BY LiveOrders DEF AddRejected, Abstract!Rejected, Abstract!ValidPrice, ValidPrice
<1>3. running /\ result' = Added(FALSE) /\ running' = running
  BY DEF AddRejected
<1>4. result' = Abstract!Added(FALSE)
  BY <1>3 DEF Abstract!Added, Added
<1>5. UNCHANGED <<Queues, running>>
  BY <1>1, <1>3
<1>6. /\ result' = Abstract!Added(FALSE) /\ running /\ Abstract!Rejected(id, p, q)
      /\ UNCHANGED <<Queues, running>>
  BY <1>2, <1>3, <1>4, <1>5
<1> QED
  BY ONLY <1>6, Zenon DEF Abstract!AddOrder, Queues

LEMMA ExhaustedInAbstract ==
  ASSUME IInv, NEW id \in OrderIds, NEW q \in Quantities, NEW p \in Prices, NEW s \in Sides,
         AddExhausted(id, p, q)
  PROVE  Abstract!AddOrder(id, s, p, q)
<1>1. Queues' = Queues
  BY NoChangeQueues DEF AddExhausted
<1>2. ~Abstract!Rejected(id, p, q)
  BY LiveOrders DEF AddExhausted, Abstract!Rejected, Abstract!ValidPrice, ValidPrice
<1>3. Cardinality(Abstract!Live) = MaxOrders
  BY LiveOrders, FullPool DEF AddExhausted
<1>4. running /\ result' = result /\ running' = FALSE
  BY DEF AddExhausted
<1>5. UNCHANGED <<Queues, result>>
  BY <1>1, <1>4
<1>6. Abstract!Cardinality(Abstract!Live) = MaxOrders
  BY <1>3 DEF Abstract!Cardinality, Cardinality
<1>7. /\ running' = FALSE /\ running /\ ~Abstract!Rejected(id, p, q)
      /\ UNCHANGED <<Queues, result>>
  BY <1>2, <1>4, <1>5
<1> QED
  BY ONLY <1>6, <1>7, Zenon DEF Abstract!AddOrder, Queues

LEMMA AddInAbstract ==
  ASSUME IInv, NEW id \in OrderIds, NEW q \in Quantities, NEW p \in Prices, NEW s \in Sides,
         AddOrder(id, s, p, q)
  PROVE  Abstract!AddOrder(id, s, p, q)
<1>1. Queues' = QueuesWith(s, p, Append(Queue(s, p), [id |-> id, quantity |-> q]))
  BY AddQueues
<1>2. Queues' = [Queues EXCEPT ![s][p] = Append(@, [id |-> id, quantity |-> q])]
  <2>1. Queues[s][p] = Queue(s, p)
    BY DEF Queues
  <2> QED
    BY <1>1, <2>1 DEF QueuesWith
<1>3. /\ running /\ ValidPrice(p) /\ q # 0 /\ id \notin DOMAIN order_map /\ ~Exhausted
      /\ result' = Added(TRUE) /\ running' = running
  BY Zenon DEF AddOrder
<1>4. ~Abstract!Rejected(id, p, q)
  BY <1>3, LiveOrders DEF Abstract!Rejected, Abstract!ValidPrice, ValidPrice
<1>5. Abstract!Cardinality(Abstract!Live) < MaxOrders
  <2>1. Cardinality(Abstract!Live) < MaxOrders
    BY <1>3, LiveOrders, FullPool, BookAssumption
  <2> QED
    BY <2>1 DEF Abstract!Cardinality, Cardinality
<1>6. result' = Abstract!Added(TRUE)
  BY <1>3 DEF Abstract!Added, Added
<1>7. /\ running /\ ~Abstract!Rejected(id, p, q) /\ UNCHANGED running
      /\ Queues' = [Queues EXCEPT ![s][p] = Append(@, [id |-> id, quantity |-> q])]
  BY <1>2, <1>3, <1>4
<1> QED
  BY ONLY <1>5, <1>6, <1>7, Zenon DEF Abstract!AddOrder, Queues

LEMMA UnknownInAbstract ==
  ASSUME IInv, NEW id \in OrderIds, Unknown(id)
  PROVE  Abstract!Unknown(id)
<1>1. Queues' = Queues
  BY NoChangeQueues DEF Unknown
<1>2. ~Abstract!IsLive(id)
  BY LiveOrders DEF Unknown
<1> QED
  BY <1>1, <1>2 DEF Unknown, Abstract!Unknown, Abstract!NotFound, NotFound,
                    Abstract!Answer, Answer, Queues

LEMMA CancelInAbstract ==
  ASSUME IInv, NEW id \in OrderIds, NEW q \in Quantities, CancelOrder(id, q)
  PROVE  Abstract!CancelOrder(id, q)
<1>1. id \in DOMAIN order_map /\ running /\ running' = running
  BY DEF CancelOrder
<1>2. PICK n : n = order_map[id]
  OBVIOUS
<1>3. PICK left : left = pool[n].quantity
  OBVIOUS
<1>4. PICK taken : taken = IF q = 0 THEN left ELSE Lesser(q, left)
  OBVIOUS
<1>5. TakeShares("cancel", id, n, taken)
  BY <1>2, <1>3, <1>4 DEF CancelOrder
<1>6. left \in Nat /\ left > 0 /\ taken \in Nat /\ taken # 0 /\ taken <= left
  BY <1>1, <1>2, <1>3, <1>4, TakenShares
<1>7. Abstract!Reduce(id, taken)
  BY <1>1, <1>2, <1>3, <1>5, <1>6, TakenFromQueue
<1>8. result' = Answer("cancel", TRUE, taken = left, taken)
  <2>1. result' = Answer("cancel", TRUE, taken # 0 /\ taken = left, taken)
    BY <1>3, <1>5 DEF TakeShares
  <2>2. (taken # 0 /\ taken = left) = (taken = left)
    BY <1>6
  <2> QED
    BY <2>1, <2>2
<1>9. Abstract!OrderOf(id).quantity = left
  <2>1. n \in LiveSlots
    BY <1>1, <1>2 DEF LiveSlots, Range
  <2>2. PICK s, p : s = pool[n].side /\ p = pool[n].price
    OBVIOUS
  <2>3. PICK k : StandsAt(n, s, p, k)
    BY <2>1, <2>2, PlaceInLevel
  <2>4. Abstract!OrderOf(id) = [id |-> id, quantity |-> pool[n].quantity]
    BY <1>1, <1>2, <2>2, <2>3, PlaceOfOrder
  <2> QED
    BY <1>3, <2>4
<1>10. Abstract!IsLive(id)
  BY <1>1, LiveOrders
<1>11. taken = IF q = 0 THEN left ELSE Abstract!Lesser(q, left)
  BY <1>4 DEF Abstract!Lesser, Lesser
<1> QED
  BY <1>1, <1>7, <1>8, <1>9, <1>10, <1>11 DEF Abstract!CancelOrder, Abstract!Answer, Answer

LEMMA ExecuteInAbstract ==
  ASSUME IInv, NEW id \in OrderIds, NEW q \in Quantities, ExecuteOrder(id, q)
  PROVE  Abstract!ExecuteOrder(id, q)
<1>1. id \in DOMAIN order_map /\ running /\ running' = running
  BY DEF ExecuteOrder
<1>2. PICK n : n = order_map[id]
  OBVIOUS
<1>3. PICK left : left = pool[n].quantity
  OBVIOUS
<1>4. PICK taken : taken = Lesser(q, left)
  OBVIOUS
<1>5. TakeShares("execute", id, n, taken)
  BY <1>2, <1>3, <1>4 DEF ExecuteOrder
<1>6. left \in Nat /\ left > 0 /\ taken \in Nat /\ taken <= left
  BY <1>1, <1>2, <1>3, <1>4, TakenShares
<1>7. IF taken = 0 THEN Queues' = Queues ELSE Abstract!Reduce(id, taken)
  <2>1. CASE taken = 0
    <3>1. UNCHANGED <<pool, levels>>
      BY <1>5, <2>1 DEF TakeShares
    <3> QED
      BY <2>1, <3>1, NoChangeQueues
  <2>2. CASE taken # 0
    BY <1>1, <1>2, <1>3, <1>5, <1>6, <2>2, TakenFromQueue
  <2> QED
    BY <2>1, <2>2
<1>8. result' = Answer("execute", TRUE, taken = left, taken)
  <2>1. result' = Answer("execute", TRUE, taken # 0 /\ taken = left, taken)
    BY <1>3, <1>5 DEF TakeShares
  <2>2. (taken # 0 /\ taken = left) = (taken = left)
    BY <1>6
  <2> QED
    BY <2>1, <2>2
<1>9. Abstract!OrderOf(id).quantity = left
  <2>1. n \in LiveSlots
    BY <1>1, <1>2 DEF LiveSlots, Range
  <2>2. PICK s, p : s = pool[n].side /\ p = pool[n].price
    OBVIOUS
  <2>3. PICK k : StandsAt(n, s, p, k)
    BY <2>1, <2>2, PlaceInLevel
  <2>4. Abstract!OrderOf(id) = [id |-> id, quantity |-> pool[n].quantity]
    BY <1>1, <1>2, <2>2, <2>3, PlaceOfOrder
  <2> QED
    BY <1>3, <2>4
<1>10. Abstract!IsLive(id)
  BY <1>1, LiveOrders
<1>11. taken = Abstract!Lesser(q, left)
  BY <1>4 DEF Abstract!Lesser, Lesser
<1> QED
  BY <1>1, <1>7, <1>8, <1>9, <1>10, <1>11
     DEF Abstract!ExecuteOrder, Abstract!Answer, Answer, Queues

LEMMA AbstractInit == Init => Abstract!Init
<1> SUFFICES ASSUME Init PROVE Abstract!Init
  OBVIOUS
<1>1. \A t \in Sides : DOMAIN levels[t] = {}
  BY DEF Init
<1>2. \A t \in Sides, x \in Prices : Queue(t, x) = << >>
  <2>1. \A t \in Sides, x \in Prices : NodesAt(t, x) = << >>
    BY <1>1 DEF NodesAt
  <2> QED
    BY <2>1 DEF Queue
<1>3. Queues = [t \in Sides |-> [x \in Prices |-> << >>]]
  BY <1>2 DEF Queues
<1>4. result = Abstract!NotFound /\ running = TRUE
  BY DEF Init, NotFound, Answer, Abstract!NotFound, Abstract!Answer
<1> QED
  BY <1>3, <1>4 DEF Abstract!Init, Abstract!Sides, Sides, Queues

LEMMA AbstractStep == IInv /\ [Next]_vars => [Abstract!Next]_(Abstract!vars)
<1> SUFFICES ASSUME IInv, [Next]_vars PROVE Abstract!Next \/ UNCHANGED Abstract!vars
  OBVIOUS
<1>1. "BUY" \in Sides /\ Abstract!Sides = Sides
  BY DEF Sides, Abstract!Sides
<1>2. CASE UNCHANGED vars
  <2>1. Queues' = Queues /\ result' = result /\ running' = running
    BY <1>2, NoChangeQueues DEF vars
  <2> QED
    BY <2>1 DEF Abstract!vars, Queues
<1>3. ASSUME NEW id \in OrderIds, NEW q \in Quantities, NEW p \in Prices, NEW s \in Sides,
             Abstract!AddOrder(id, s, p, q)
      PROVE  Abstract!Next
  BY <1>1, <1>3 DEF Abstract!Next
<1>4. ASSUME NEW id \in OrderIds, NEW q \in Quantities, NEW p \in Prices, AddRejected(id, p, q)
      PROVE  Abstract!Next
  BY <1>1, <1>3, <1>4, RejectedInAbstract
<1>5. ASSUME NEW id \in OrderIds, NEW q \in Quantities, NEW p \in Prices, AddExhausted(id, p, q)
      PROVE  Abstract!Next
  BY <1>1, <1>3, <1>5, ExhaustedInAbstract
<1>6. ASSUME NEW id \in OrderIds, NEW q \in Quantities, NEW p \in Prices, NEW s \in Sides,
             AddOrder(id, s, p, q)
      PROVE  Abstract!Next
  BY <1>3, <1>6, AddInAbstract
<1>7. ASSUME NEW id \in OrderIds, Unknown(id) PROVE Abstract!Next
  BY <1>7, UnknownInAbstract DEF Abstract!Next
<1>8. ASSUME NEW id \in OrderIds, NEW q \in Quantities, CancelOrder(id, q) PROVE Abstract!Next
  BY <1>8, CancelInAbstract DEF Abstract!Next
<1>9. ASSUME NEW id \in OrderIds, NEW q \in Quantities, ExecuteOrder(id, q) PROVE Abstract!Next
  BY <1>9, ExecuteInAbstract DEF Abstract!Next
<1> QED
  BY <1>2, <1>4, <1>5, <1>6, <1>7, <1>8, <1>9 DEF Next

(* add_order, cancel_order and execute_order: the linked lists, the map,   *)
(* the totals and the pool together are a queue per side and price, with   *)
(* the same answers; an engine that runs out of nodes does so just when    *)
(* as many orders wait as the pool has.                                    *)
THEOREM ListsImplementQueues == Spec => AbstractBookSpec
<1>1. Abstract!Init /\ [][Abstract!Next]_(Abstract!vars) => Abstract!Spec
  BY DEF Abstract!Spec
<1> QED
  BY AbstractInit, AbstractStep, Invariance, <1>1, PTL DEF Spec, AbstractBookSpec
=============================================================================
