---------------------------- MODULE EngineLoopProofs ----------------------------
(***************************************************************************)
(* Proofs about EngineLoop, for every set of order ids, prices and         *)
(* quantities, every interval between snapshots and every size of the      *)
(* windows, the clusters and the pool; and about the search for a cycle in *)
(* GraphEngine, for every number of assets and all rates.                  *)
(***************************************************************************)
EXTENDS EngineLoop, FiniteSetTheorems, SequenceTheorems, WellFoundedInduction,
        FunctionTheorems, NaturalsInduction, TLAPS

-----------------------------------------------------------------------------
(* Sums over finite sets. *)

(* A property that a set has when it is empty, or when all the sets with   *)
(* one element less have it: no finite set is a smallest exception.        *)
LEMMA FiniteInduction ==
  ASSUME NEW D, IsFiniteSet(D), NEW G \in SUBSET (SUBSET D), {} \in G,
         \A S \in SUBSET D : S # {} /\ (\A x \in S : S \ {x} \in G) => S \in G
  PROVE  \A S \in SUBSET D : S \in G
<1> DEFINE U == (SUBSET D) \ G
<1> SUFFICES ASSUME U # {} PROVE FALSE
  OBVIOUS
<1> DEFINE R == StrictSubsetOrdering(D)
           W == SUBSET D
<1>1. IsWellFoundedOn(R, W)
  <2>1. IsWellFoundedOn(StrictSubsetOrdering(D), FiniteSubsetsOf(D))
    BY FS_StrictSubsetOrderingWellFounded
  <2>2. FiniteSubsetsOf(D) = SUBSET D
    BY FS_FiniteSubsetsOfFinite
  <2> QED
    BY <2>1, <2>2
<1>2. PICK S \in U : \A V \in U : ~(<<V, S>> \in R)
  <2>1. U \subseteq W
    OBVIOUS
  <2> HIDE DEF U, R, W
  <2> QED
    BY <1>1, <2>1, WFMin
<1>3. ASSUME NEW x \in S PROVE S \ {x} \in G
  <2>1. S \ {x} \in SUBSET D /\ S \ {x} # S /\ S \ {x} \subseteq S /\ S \in SUBSET D
    BY <1>2
  <2>2. <<S \ {x}, S>> \in StrictSubsetOrdering(D)
    BY <2>1 DEF StrictSubsetOrdering
  <2> QED
    BY <1>2, <2>1, <2>2
<1> QED
  BY <1>2, <1>3

(* h gives the sum of f over each subset of D. *)
IsSum(h, f, D) ==
  /\ h \in [SUBSET D -> Int]
  /\ h[{}] = 0
  /\ \A S \in SUBSET D : \A x \in S : h[S] = f[x] + h[S \ {x}]

LEMMA SumExists ==
  ASSUME NEW D, IsFiniteSet(D), NEW f \in [D -> Int]
  PROVE  \E h : IsSum(h, f, D)
<1> DEFINE G == {S \in SUBSET D : \E h : IsSum(h, f, S)}
<1>1. {} \in G
  <2>1. SUBSET {} = {{}}
    OBVIOUS
  <2>2. IsSum([S \in {{}} |-> 0], f, {})
    BY <2>1 DEF IsSum
  <2> QED
    BY <2>2
<1>2. ASSUME NEW R \in SUBSET D, R # {}, \A x \in R : R \ {x} \in G
      PROVE  R \in G
  <2>1. PICK n \in R : TRUE
    BY <1>2
  <2>2. PICK h0 : IsSum(h0, f, R \ {n})
    BY <1>2
  <2> DEFINE h == [S \in SUBSET R |-> h0[S \ {n}] + IF n \in S THEN f[n] ELSE 0]
  <2>3. \A S \in SUBSET R : S \ {n} \in SUBSET (R \ {n})
    OBVIOUS
  <2>4. h \in [SUBSET R -> Int]
    BY <2>2, <2>3 DEF IsSum
  <2>5. h[{}] = 0
    BY <2>2 DEF IsSum
  <2>6. ASSUME NEW S \in SUBSET R, NEW x \in S
        PROVE  h[S] = f[x] + h[S \ {x}]
    <3>1. S \ {x} \in SUBSET R /\ n \in D /\ x \in D
      OBVIOUS
    <3>2. /\ h[S] = h0[S \ {n}] + IF n \in S THEN f[n] ELSE 0
          /\ h[S \ {x}] = h0[(S \ {x}) \ {n}] + IF n \in S \ {x} THEN f[n] ELSE 0
      BY <3>1
    <3> HIDE DEF h
    <3>3. CASE x = n
      <4>1. (S \ {x}) \ {n} = S \ {n} /\ n \in S /\ n \notin S \ {x}
        BY <3>3
      <4>2. h0[S \ {n}] \in Int /\ f[n] \in Int
        BY <2>2, <2>3, <3>1 DEF IsSum
      <4>3. h[S] = h0[S \ {n}] + f[n] /\ h[S \ {x}] = h0[S \ {n}] + 0
        BY <3>2, <4>1
      <4> QED
        BY <3>3, <4>2, <4>3
    <3>4. CASE x # n
      <4>1. (S \ {x}) \ {n} = (S \ {n}) \ {x} /\ x \in S \ {n}
        BY <3>4
      <4>2. h0[S \ {n}] = f[x] + h0[(S \ {n}) \ {x}]
        BY <2>2, <2>3, <4>1 DEF IsSum
      <4>3. h0[(S \ {n}) \ {x}] \in Int /\ f[n] \in Int /\ f[x] \in Int
        <5>1. (S \ {n}) \ {x} \in SUBSET (R \ {n})
          BY <2>3
        <5> QED
          BY <2>2, <3>1, <5>1 DEF IsSum
      <4>4. n \in S <=> n \in S \ {x}
        BY <3>4
      <4>5. h[S \ {x}] = h0[(S \ {n}) \ {x}] + IF n \in S THEN f[n] ELSE 0
        BY <3>2, <4>1, <4>4
      <4> QED
        BY <3>2, <4>2, <4>3, <4>5
    <3> QED
      BY <3>3, <3>4
  <2> HIDE DEF h
  <2>7. IsSum(h, f, R)
    BY <2>4, <2>5, <2>6 DEF IsSum
  <2> QED
    BY <2>7
<1>3. G \in SUBSET (SUBSET D)
  OBVIOUS
<1>4. \A S \in SUBSET D : S \in G
  <2> HIDE DEF G
  <2> QED
    BY <1>1, <1>2, <1>3, FiniteInduction
<1> QED
  BY <1>4

(* iter adds f up over the subsets of D, in some order. *)
AddsUp(iter, f, D) ==
  /\ iter[{}] = 0
  /\ \A S \in SUBSET D : S # {} => \E x \in S : iter[S] = f[x] + iter[S \ {x}]

(* A sum is the same in whatever order the elements are taken. *)
LEMMA SumUnique ==
  ASSUME NEW D, IsFiniteSet(D), NEW f, NEW h, NEW iter,
         IsSum(h, f, D), AddsUp(iter, f, D)
  PROVE  \A S \in SUBSET D : iter[S] = h[S]
<1> DEFINE G == {S \in SUBSET D : iter[S] = h[S]}
<1>1. {} \in G /\ G \in SUBSET (SUBSET D)
  BY DEF IsSum, AddsUp
<1>2. ASSUME NEW S \in SUBSET D, S # {}, \A x \in S : S \ {x} \in G
      PROVE  S \in G
  <2>1. PICK x \in S : iter[S] = f[x] + iter[S \ {x}]
    BY <1>2 DEF AddsUp
  <2>2. iter[S \ {x}] = h[S \ {x}]
    BY <1>2
  <2>3. h[S] = f[x] + h[S \ {x}]
    BY DEF IsSum
  <2> QED
    BY <2>1, <2>2, <2>3
<1>3. \A S \in SUBSET D : S \in G
  <2> HIDE DEF G
  <2> QED
    BY <1>1, <1>2, FiniteInduction
<1> QED
  BY <1>3

LEMMA SumNat ==
  ASSUME NEW D, IsFiniteSet(D), NEW f \in [D -> Nat], NEW h, IsSum(h, f, D)
  PROVE  \A S \in SUBSET D : h[S] \in Nat
<1> DEFINE G == {S \in SUBSET D : h[S] \in Nat}
<1>1. {} \in G /\ G \in SUBSET (SUBSET D)
  BY DEF IsSum
<1>2. ASSUME NEW S \in SUBSET D, S # {}, \A x \in S : S \ {x} \in G
      PROVE  S \in G
  <2>1. PICK x \in S : TRUE
    BY <1>2
  <2>2. h[S] = f[x] + h[S \ {x}] /\ h[S \ {x}] \in Nat /\ f[x] \in Nat
    BY <1>2 DEF IsSum
  <2> QED
    BY <2>2
<1>3. \A S \in SUBSET D : S \in G
  <2> HIDE DEF G
  <2> QED
    BY <1>1, <1>2, FiniteInduction
<1> QED
  BY <1>3

-----------------------------------------------------------------------------
(* Least and greatest elements. *)

LEMMA LeastOf ==
  ASSUME NEW T \in SUBSET Nat, T # {}
  PROVE  \E x \in T : \A y \in T : x <= y
<1> DEFINE R == {p \in Nat \X Nat : p[1] < p[2]}
<1>1. IsWellFoundedOn(R, Nat)
  BY NatLessThanWellFounded DEF OpToRel
<1>2. \A a, b \in Nat : a < b => <<a, b>> \in R
  OBVIOUS
<1> HIDE DEF R
<1>3. PICK x \in T : \A y \in T : ~(<<y, x>> \in R)
  BY <1>1, WFMin
<1>4. ASSUME NEW y \in T PROVE x <= y
  <2>1. x \in Nat /\ y \in Nat /\ ~(y < x)
    BY <1>2, <1>3
  <2> QED
    BY <2>1
<1> QED
  BY <1>4

LEMMA GreatestOf ==
  ASSUME NEW N \in Nat, NEW T \in SUBSET (0 .. N), T # {}
  PROVE  \E x \in T : \A y \in T : x >= y
<1> DEFINE U == {N - x : x \in T}
<1>1. U \in SUBSET Nat /\ U # {}
  <2>1. ASSUME NEW x \in T PROVE N - x \in Nat
    <3>1. x \in 0 .. N
      OBVIOUS
    <3> QED
      BY <3>1
  <2> QED
    BY <2>1
<1>2. PICK u \in U : \A y \in U : u <= y
  BY <1>1, LeastOf
<1>3. PICK x \in T : u = N - x
  BY <1>2
<1>4. ASSUME NEW y \in T PROVE x >= y
  <2>1. N - x <= N - y /\ x \in 0 .. N /\ y \in 0 .. N
    BY <1>2, <1>3
  <2> QED
    BY <2>1
<1> QED
  BY <1>4

LEMMA MaxIsIn ==
  ASSUME NEW N \in Nat, NEW T \in SUBSET (0 .. N), T # {}
  PROVE  Max(T) \in T
BY GreatestOf DEF Max

-----------------------------------------------------------------------------
(* The sum of a sequence of integers. *)

Total(seq) == (CHOOSE h : IsSum(h, seq, DOMAIN seq))[DOMAIN seq]

LEMMA SeqDomain ==
  ASSUME NEW seq \in Seq(Int)
  PROVE  /\ DOMAIN seq = 1 .. Len(seq) /\ Len(seq) \in Nat
         /\ IsFiniteSet(DOMAIN seq) /\ seq \in [DOMAIN seq -> Int]
<1>1. DOMAIN seq = 1 .. Len(seq) /\ Len(seq) \in Nat /\ seq \in [DOMAIN seq -> Int]
  OBVIOUS
<1>2. PICK n : n = Len(seq)
  OBVIOUS
<1>3. 1 \in Int /\ n \in Int
  BY <1>1, <1>2
<1>4. IsFiniteSet(1 .. n)
  BY <1>3, FS_Interval
<1> QED
  BY <1>1, <1>2, <1>4

LEMMA TotalIsSum ==
  ASSUME NEW seq \in Seq(Int), NEW h, IsSum(h, seq, DOMAIN seq)
  PROVE  Total(seq) = h[DOMAIN seq] /\ Total(seq) \in Int
<1> DEFINE g == CHOOSE g : IsSum(g, seq, DOMAIN seq)
<1>1. IsSum(g, seq, DOMAIN seq)
  OBVIOUS
<1>2. Total(seq) = g[DOMAIN seq]
  BY DEF Total
<1> HIDE DEF g
<1>3. AddsUp(g, seq, DOMAIN seq)
  BY <1>1 DEF IsSum, AddsUp
<1>4. \A S \in SUBSET DOMAIN seq : g[S] = h[S]
  BY <1>3, SeqDomain, SumUnique
<1>5. h[DOMAIN seq] \in Int
  BY DEF IsSum
<1> QED
  BY <1>2, <1>4, <1>5

LEMMA TotalEmpty == Total(<< >>) = 0
<1>1. << >> \in Seq(Int) /\ DOMAIN << >> = {}
  OBVIOUS
<1>2. PICK h : IsSum(h, << >>, DOMAIN << >>)
  BY <1>1, SeqDomain, SumExists
<1>3. Total(<< >>) = h[DOMAIN << >>]
  BY <1>1, <1>2, TotalIsSum
<1> QED
  BY <1>1, <1>2, <1>3 DEF IsSum

LEMMA TotalAppend ==
  ASSUME NEW seq \in Seq(Int), NEW x \in Int
  PROVE  /\ Total(seq) \in Int
         /\ Total(Append(seq, x)) = Total(seq) + x
<1>1. PICK n, t : n = Len(seq) /\ t = Append(seq, x)
  OBVIOUS
<1>2. /\ n \in Nat /\ DOMAIN seq = 1 .. n /\ t \in Seq(Int) /\ DOMAIN t = 1 .. n + 1
      /\ t[n + 1] = x /\ \A i \in 1 .. n : t[i] = seq[i]
  BY <1>1
<1>3. PICK h : IsSum(h, t, DOMAIN t)
  BY <1>2, SeqDomain, SumExists
<1>4. PICK g : IsSum(g, seq, DOMAIN seq)
  BY SeqDomain, SumExists
<1>5. AddsUp(h, seq, DOMAIN seq)
  <2>1. 1 .. n \subseteq 1 .. n + 1
    BY <1>2
  <2>2. ASSUME NEW S \in SUBSET (1 .. n), S # {} PROVE \E y \in S : h[S] = seq[y] + h[S \ {y}]
    <3>1. PICK y \in S : TRUE
      BY <2>2
    <3>2. h[S] = t[y] + h[S \ {y}]
      BY <1>2, <1>3, <2>1 DEF IsSum
    <3> QED
      BY <1>2, <3>2
  <2> QED
    BY <1>2, <1>3, <2>2 DEF IsSum, AddsUp
<1>6. \A S \in SUBSET DOMAIN seq : h[S] = g[S]
  BY <1>4, <1>5, SeqDomain, SumUnique
<1>7. h[1 .. n + 1] = x + h[(1 .. n + 1) \ {n + 1}] /\ (1 .. n + 1) \ {n + 1} = 1 .. n
  <2>1. n + 1 \in 1 .. n + 1 /\ (1 .. n + 1) \ {n + 1} = 1 .. n
    BY <1>2
  <2> QED
    BY <1>2, <1>3, <2>1 DEF IsSum
<1>8. Total(t) = h[1 .. n + 1]
  BY <1>2, <1>3, TotalIsSum
<1>9. Total(seq) = g[1 .. n] /\ Total(seq) \in Int
  BY <1>2, <1>4, TotalIsSum
<1>10. h[1 .. n] = g[1 .. n]
  BY <1>2, <1>6
<1>11. Total(t) = x + Total(seq)
  BY <1>7, <1>8, <1>9, <1>10
<1> QED
  BY <1>1, <1>9, <1>11

LEMMA TotalTail ==
  ASSUME NEW seq \in Seq(Int), seq # << >>
  PROVE  /\ Total(Tail(seq)) \in Int
         /\ Total(Tail(seq)) = Total(seq) - Head(seq)
<1>1. PICK n, t : n = Len(seq) - 1 /\ t = Tail(seq)
  OBVIOUS
<1>2. /\ n \in Nat /\ DOMAIN seq = 1 .. n + 1 /\ t \in Seq(Int) /\ DOMAIN t = 1 .. n
      /\ \A i \in 1 .. n : t[i] = seq[i + 1]
      /\ Head(seq) = seq[1] /\ seq[1] \in Int
  BY <1>1
<1>3. PICK h : IsSum(h, seq, DOMAIN seq)
  BY SeqDomain, SumExists
<1>4. PICK g : IsSum(g, t, DOMAIN t)
  BY <1>2, SeqDomain, SumExists
<1> DEFINE up(S) == {i + 1 : i \in S}
           iter == [S \in SUBSET (1 .. n) |-> h[up(S)]]
<1>5. AddsUp(iter, t, DOMAIN t)
  <2>1. up({}) = {}
    OBVIOUS
  <2>2. ASSUME NEW S \in SUBSET (1 .. n), S # {} PROVE \E y \in S : iter[S] = t[y] + iter[S \ {y}]
    <3>1. PICK y \in S : TRUE
      BY <2>2
    <3>2. up(S) \in SUBSET (1 .. n + 1)
      BY <1>2
    <3>3. y + 1 \in up(S)
      OBVIOUS
    <3>4. up(S) \ {y + 1} = up(S \ {y})
      <4>1. S \subseteq Int /\ y \in Int
        BY <1>2
      <4>2. \A i \in S : i + 1 = y + 1 <=> i = y
        BY <4>1
      <4>3. \A z : z \in up(S) \ {y + 1} <=> z \in up(S \ {y})
        BY <4>2
      <4> QED
        BY <4>3
    <3>5. h[up(S)] = seq[y + 1] + h[up(S) \ {y + 1}]
      <4> HIDE DEF up
      <4> QED
        BY <1>2, <1>3, <3>2, <3>3 DEF IsSum
    <3>6. iter[S] = h[up(S)] /\ iter[S \ {y}] = h[up(S \ {y})]
      OBVIOUS
    <3>7. t[y] = seq[y + 1]
      BY <1>2
    <3> HIDE DEF iter, up
    <3> QED
      BY <3>4, <3>5, <3>6, <3>7
  <2>3. iter[{}] = 0
    BY <1>3, <2>1 DEF IsSum
  <2> HIDE DEF iter
  <2> QED
    BY <1>2, <2>2, <2>3 DEF AddsUp
<1>6. \A S \in SUBSET DOMAIN t : iter[S] = g[S]
  <2> HIDE DEF iter
  <2> QED
    BY <1>2, <1>4, <1>5, SeqDomain, SumUnique
<1>7. iter[1 .. n] = h[up(1 .. n)]
  OBVIOUS
<1>8. up(1 .. n) = (1 .. n + 1) \ {1}
  <2>1. \A i \in (1 .. n + 1) \ {1} : i - 1 \in 1 .. n /\ i = (i - 1) + 1
    BY <1>2
  <2>2. \A i \in 1 .. n : i + 1 \in (1 .. n + 1) \ {1}
    BY <1>2
  <2> QED
    BY <2>1, <2>2
<1> HIDE DEF iter, up
<1>9. h[1 .. n + 1] = seq[1] + h[(1 .. n + 1) \ {1}]
  <2>1. 1 \in 1 .. n + 1
    BY <1>2
  <2>2. IsSum(h, seq, 1 .. n + 1)
    BY <1>2, <1>3
  <2> QED
    BY <2>1, <2>2 DEF IsSum
<1>10. Total(seq) = h[1 .. n + 1] /\ Total(seq) \in Int
  BY <1>2, <1>3, TotalIsSum
<1>11. Total(t) = g[1 .. n] /\ Total(t) \in Int
  BY <1>2, <1>4, TotalIsSum
<1>12. iter[1 .. n] = g[1 .. n]
  BY <1>2, <1>6
<1>13. Total(seq) = seq[1] + Total(t)
  BY <1>7, <1>8, <1>9, <1>10, <1>11, <1>12
<1> QED
  BY <1>1, <1>2, <1>10, <1>11, <1>13

(* What FoldLeft computes when it adds the elements of seq: it takes the   *)
(* last one of the positions left off.                                     *)
Unfolded(seq, g) ==
  [S \in SUBSET DOMAIN seq |-> IF S = {} THEN 0 ELSE g[S \ {Max(S)}] + seq[Max(S)]]

LEMMA FoldIsTotal ==
  ASSUME NEW seq \in Seq(Int)
  PROVE  /\ \E h : h = Unfolded(seq, h)
         /\ \A h : h = Unfolded(seq, h) => h[DOMAIN seq] = Total(seq)
<1> DEFINE D == DOMAIN seq
<1>1. D = 1 .. Len(seq) /\ Len(seq) \in Nat /\ IsFiniteSet(D) /\ seq \in [D -> Int]
  BY SeqDomain
<1>2. ASSUME NEW S \in SUBSET D, S # {} PROVE Max(S) \in S
  <2>1. S \in SUBSET (0 .. Len(seq))
    BY <1>1
  <2> QED
    BY <1>1, <1>2, <2>1, MaxIsIn
<1>3. PICK h : IsSum(h, seq, D)
  <2> HIDE DEF D
  <2> QED
    BY <1>1, SumExists
<1>4. h = Unfolded(seq, h)
  <2>1. ASSUME NEW S \in SUBSET D, S # {} PROVE h[S] = h[S \ {Max(S)}] + seq[Max(S)]
    <3>1. PICK x : x = Max(S)
      OBVIOUS
    <3>2. x \in S
      BY <1>2, <2>1, <3>1
    <3>3. h[S] = seq[x] + h[S \ {x}] /\ seq[x] \in Int /\ h[S \ {x}] \in Int
      BY <1>1, <1>3, <3>2 DEF IsSum
    <3> QED
      BY <3>1, <3>3
  <2>2. h = [S \in SUBSET D |-> h[S]] /\ h[{}] = 0
    BY <1>3 DEF IsSum
  <2> QED
    BY <2>1, <2>2 DEF Unfolded
<1>5. ASSUME NEW g, g = Unfolded(seq, g)
      PROVE  g[D] = Total(seq)
  <2>1. g[{}] = 0 /\ \A S \in SUBSET D : S # {} => g[S] = g[S \ {Max(S)}] + seq[Max(S)]
    BY <1>5 DEF Unfolded
  <2> DEFINE G == {S \in SUBSET D : g[S] = h[S]}
  <2>2. {} \in G /\ G \in SUBSET (SUBSET D)
    BY <1>3, <2>1 DEF IsSum
  <2>3. ASSUME NEW S \in SUBSET D, S # {}, \A x \in S : S \ {x} \in G
        PROVE  S \in G
    <3>1. PICK x : x = Max(S)
      OBVIOUS
    <3>2. x \in S
      BY <1>2, <2>3, <3>1
    <3>3. h[S] = seq[x] + h[S \ {x}] /\ seq[x] \in Int /\ h[S \ {x}] \in Int
      BY <1>1, <1>3, <3>2 DEF IsSum
    <3>4. g[S] = g[S \ {x}] + seq[x]
      BY <2>1, <2>3, <3>1
    <3>5. g[S \ {x}] = h[S \ {x}]
      BY <2>3, <3>2
    <3> QED
      BY <3>3, <3>4, <3>5
  <2>4. \A S \in SUBSET D : S \in G
    <3> HIDE DEF G, D
    <3> QED
      BY <1>1, <2>2, <2>3, FiniteInduction, ZenonT(60)
  <2>5. Total(seq) = h[D]
    BY <1>3, TotalIsSum
  <2> QED
    BY <2>4, <2>5
<1> HIDE DEF D
<1> QED
  BY <1>4, <1>5 DEF D

LEMMA TotalNat ==
  ASSUME NEW seq \in Seq(Nat)
  PROVE  Total(seq) \in Nat
<1>1. seq \in Seq(Int) /\ seq \in [DOMAIN seq -> Nat]
  OBVIOUS
<1>2. IsFiniteSet(DOMAIN seq) /\ seq \in [DOMAIN seq -> Int]
  BY <1>1, SeqDomain
<1>3. PICK h : IsSum(h, seq, DOMAIN seq)
  BY <1>2, SumExists
<1>4. \A S \in SUBSET DOMAIN seq : h[S] \in Nat
  BY <1>1, <1>2, <1>3, SumNat
<1>5. Total(seq) = h[DOMAIN seq]
  BY <1>1, <1>3, TotalIsSum
<1> QED
  BY <1>4, <1>5

(* The quantities, and the notionals, of a sequence. *)
Shares(seq) == [i \in DOMAIN seq |-> seq[i].quantity]
Notionals(seq) == [i \in DOMAIN seq |-> seq[i].price * seq[i].quantity]

LEMMA FoldNumbers ==
  ASSUME NEW seq \in Seq(Int)
  PROVE  FoldLeft(LAMBDA sum, x : sum + x, 0, seq) = Total(seq)
<1> DEFINE E(g) == [S \in SUBSET DOMAIN seq |->
                      IF S = {} THEN 0 ELSE g[S \ {Max(S)}] + seq[Max(S)]]
           iter == CHOOSE g : g = E(g)
<1>1. \A g : E(g) = Unfolded(seq, g)
  BY DEF Unfolded
<1>2. FoldLeft(LAMBDA sum, x : sum + x, 0, seq) = iter[DOMAIN seq]
  BY DEF FoldLeft, MapThenFoldSet
<1> HIDE DEF E
<1>3. \E h : h = E(h)
  BY <1>1, FoldIsTotal
<1>4. iter = E(iter)
  BY <1>3
<1> HIDE DEF iter
<1> QED
  BY <1>1, <1>2, <1>4, FoldIsTotal

LEMMA FoldShares ==
  ASSUME NEW seq, Shares(seq) \in Seq(Int)
  PROVE  /\ FoldLeft(LAMBDA sum, x : sum + x.quantity, 0, seq) = Total(Shares(seq))
         /\ Book!FoldLeft(LAMBDA sum, order : sum + order.quantity, 0, seq) = Total(Shares(seq))
<1> DEFINE E(g) == [S \in SUBSET DOMAIN seq |->
                      IF S = {} THEN 0 ELSE g[S \ {Max(S)}] + seq[Max(S)].quantity]
           iter == CHOOSE g : g = E(g)
<1>1. PICK t : t = Shares(seq)
  OBVIOUS
<1>2. DOMAIN t = DOMAIN seq /\ DOMAIN t = 1 .. Len(t) /\ Len(t) \in Nat /\ t \in Seq(Int)
      /\ \A i \in DOMAIN seq : t[i] = seq[i].quantity
  BY <1>1 DEF Shares
<1>3. \A g : E(g) = Unfolded(t, g)
  <2>1. ASSUME NEW S \in SUBSET DOMAIN seq, S # {} PROVE t[Max(S)] = seq[Max(S)].quantity
    <3>1. S \in SUBSET (0 .. Len(t))
      BY <1>2
    <3>2. Max(S) \in S
      BY <1>2, <2>1, <3>1, MaxIsIn
    <3> QED
      BY <1>2, <3>2
  <2> QED
    BY <1>2, <2>1 DEF Unfolded
<1>4. /\ FoldLeft(LAMBDA sum, x : sum + x.quantity, 0, seq) = iter[DOMAIN seq]
      /\ Book!FoldLeft(LAMBDA sum, order : sum + order.quantity, 0, seq) = iter[DOMAIN seq]
  <2>1. FoldLeft(LAMBDA sum, x : sum + x.quantity, 0, seq) = iter[DOMAIN seq]
    BY DEF FoldLeft, MapThenFoldSet
  <2>2. Book!FoldLeft(LAMBDA sum, order : sum + order.quantity, 0, seq) = iter[DOMAIN seq]
    BY DEF Book!FoldLeft, Book!MapThenFoldSet, Book!Max, Max
  <2> QED
    BY <2>1, <2>2
<1> HIDE DEF E
<1>5. \E h : h = E(h)
  BY <1>2, <1>3, FoldIsTotal
<1>6. iter = E(iter)
  BY <1>5
<1> HIDE DEF iter
<1>7. iter[DOMAIN t] = Total(t)
  BY <1>2, <1>3, <1>6, FoldIsTotal
<1> QED
  BY <1>1, <1>2, <1>4, <1>7

LEMMA FoldNotionals ==
  ASSUME NEW seq, Notionals(seq) \in Seq(Int)
  PROVE  FoldLeft(LAMBDA sum, x : sum + x.price * x.quantity, 0, seq) = Total(Notionals(seq))
<1> DEFINE E(g) == [S \in SUBSET DOMAIN seq |->
                      IF S = {} THEN 0
                      ELSE g[S \ {Max(S)}] + seq[Max(S)].price * seq[Max(S)].quantity]
           iter == CHOOSE g : g = E(g)
<1>1. PICK t : t = Notionals(seq)
  OBVIOUS
<1>2. DOMAIN t = DOMAIN seq /\ DOMAIN t = 1 .. Len(t) /\ Len(t) \in Nat /\ t \in Seq(Int)
      /\ \A i \in DOMAIN seq : t[i] = seq[i].price * seq[i].quantity
  BY <1>1 DEF Notionals
<1>3. \A g : E(g) = Unfolded(t, g)
  <2>1. ASSUME NEW S \in SUBSET DOMAIN seq, S # {}
        PROVE  t[Max(S)] = seq[Max(S)].price * seq[Max(S)].quantity
    <3>1. S \in SUBSET (0 .. Len(t))
      BY <1>2
    <3>2. Max(S) \in S
      BY <1>2, <2>1, <3>1, MaxIsIn
    <3> QED
      BY <1>2, <3>2
  <2> QED
    BY <1>2, <2>1 DEF Unfolded
<1>4. FoldLeft(LAMBDA sum, x : sum + x.price * x.quantity, 0, seq) = iter[DOMAIN seq]
  BY DEF FoldLeft, MapThenFoldSet
<1> HIDE DEF E
<1>5. \E h : h = E(h)
  BY <1>2, <1>3, FoldIsTotal
<1>6. iter = E(iter)
  BY <1>5
<1> HIDE DEF iter
<1>7. iter[DOMAIN t] = Total(t)
  BY <1>2, <1>3, <1>6, FoldIsTotal
<1> QED
  BY <1>1, <1>2, <1>4, <1>7

-----------------------------------------------------------------------------
(* The book, as the engine uses it. *)

Orders == [id : OrderIds, quantity : Nat \ {0}]

BookTypes ==
  /\ queues \in [Sides -> [Prices -> Seq(Orders)]]
  /\ running \in BOOLEAN

(* An id waits in one place. *)
IdsUnique ==
  \A s, t \in Sides, p, x \in Prices :
    \A i \in 1 .. Len(queues[s][p]), j \in 1 .. Len(queues[t][x]) :
      queues[s][p][i].id = queues[t][x][j].id => s = t /\ p = x /\ i = j

PricesValid ==
  \A s \in Sides, p \in Prices : Len(queues[s][p]) > 0 => Book!ValidPrice(p)

BookInv == BookTypes /\ IdsUnique /\ PricesValid

(* Order id stands at place i of the queue of side s and price p. *)
StandsAt(id, s, p, i) ==
  /\ s \in Sides /\ p \in Prices /\ i \in 1 .. Len(queues[s][p])
  /\ queues[s][p][i].id = id

LEMMA QueueFacts ==
  ASSUME BookTypes, NEW s \in Sides, NEW p \in Prices
  PROVE  /\ queues[s][p] \in Seq(Orders) /\ Len(queues[s][p]) \in Nat
         /\ DOMAIN queues[s][p] = 1 .. Len(queues[s][p])
         /\ \A i \in 1 .. Len(queues[s][p]) : queues[s][p][i] \in Orders
BY DEF BookTypes

(* Live lists the orders that stand somewhere. *)
LEMMA LiveStands ==
  ASSUME BookTypes, NEW id
  PROVE  /\ id \in Live <=> \E s, p, i : StandsAt(id, s, p, i)
         /\ Book!IsLive(id) <=> id \in Live
<1> DEFINE Ids(s, p) == {order.id : order \in Book!Range(queues[s][p])}
<1>1. ASSUME NEW s \in Sides, NEW p \in Prices
      PROVE  id \in Ids(s, p) <=> \E i \in 1 .. Len(queues[s][p]) : queues[s][p][i].id = id
  BY QueueFacts DEF Book!Range
<1>2. Live = UNION {Ids(s, p) : s \in Sides, p \in Prices}
  BY DEF Live, Book!Live, Sides
<1> HIDE DEF Ids
<1>3. id \in Live <=> \E s \in Sides, p \in Prices : id \in Ids(s, p)
  BY <1>2
<1>4. id \in Live <=> \E s, p, i : StandsAt(id, s, p, i)
  BY <1>1, <1>3 DEF StandsAt
<1> QED
  BY <1>4 DEF Live, Book!IsLive

(* The place the book looks up is one where the order stands. *)
LEMMA PlaceStands ==
  ASSUME BookTypes, NEW id \in Live
  PROVE  /\ StandsAt(id, Book!Place(id).s, Book!Place(id).p, Book!Place(id).i)
         /\ Book!OrderOf(id) = queues[Book!Place(id).s][Book!Place(id).p][Book!Place(id).i]
         /\ Book!OrderOf(id) \in Orders /\ Book!OrderOf(id).id = id
<1> DEFINE Here(w) == \E order \in Book!Range(queues[w[1]][w[2]]) : order.id = id
           w == CHOOSE w \in Sides \X Prices : Here(w)
           There(i) == queues[w[1]][w[2]][i].id = id
           k == CHOOSE i \in DOMAIN queues[w[1]][w[2]] : There(i)
<1>1. PICK s, p, i : StandsAt(id, s, p, i)
  BY LiveStands
<1>2. <<s, p>> \in Sides \X Prices /\ Here(<<s, p>>)
  BY <1>1, QueueFacts DEF StandsAt, Book!Range
<1>3. w \in Sides \X Prices /\ Here(w)
  <2> HIDE DEF Here
  <2> QED
    BY <1>2
<1>4. Book!Place(id) = [s |-> w[1], p |-> w[2], i |-> k]
  BY DEF Book!Place, Sides
<1> HIDE DEF w
<1>5. w[1] \in Sides /\ w[2] \in Prices
  BY <1>3
<1>6. \E j \in DOMAIN queues[w[1]][w[2]] : There(j)
  BY <1>3 DEF Book!Range
<1>7. k \in DOMAIN queues[w[1]][w[2]] /\ There(k)
  <2> HIDE DEF There
  <2> QED
    BY <1>6
<1> HIDE DEF k
<1>8. StandsAt(id, w[1], w[2], k)
  BY <1>5, <1>7, QueueFacts DEF StandsAt
<1>9. queues[w[1]][w[2]][k] \in Orders /\ queues[w[1]][w[2]][k].id = id
  BY <1>5, <1>7, QueueFacts
<1>10. Book!OrderOf(id) = queues[w[1]][w[2]][k]
  BY <1>4 DEF Book!OrderOf
<1> QED
  BY <1>4, <1>8, <1>9, <1>10

(* The same of the next state. *)
LivesStand == BookTypes => \A id : id \in Live <=> \E s, p, i : StandsAt(id, s, p, i)

LEMMA LiveStandsNow == LivesStand
BY LiveStands DEF LivesStand

LEMMA LiveStandsNext == LivesStand'
BY LiveStandsNow, PTL

(* An order stands in one place only, and the book finds it there. *)
LEMMA OnePlace ==
  ASSUME BookInv, NEW id, NEW s, NEW p, NEW i, StandsAt(id, s, p, i)
  PROVE  /\ id \in Live
         /\ Book!Place(id).s = s /\ Book!Place(id).p = p /\ Book!Place(id).i = i
         /\ Book!OrderOf(id) = queues[s][p][i]
         /\ queues[s][p][i] \in Orders
<1>1. BookTypes /\ id \in Live
  BY LiveStands DEF BookInv
<1>2. PICK w : w = Book!Place(id)
  OBVIOUS
<1>3. StandsAt(id, w.s, w.p, w.i) /\ Book!OrderOf(id) = queues[w.s][w.p][w.i]
  BY <1>1, <1>2, PlaceStands
<1>4. w.s = s /\ w.p = p /\ w.i = i
  BY <1>3, SMTT(30) DEF StandsAt, BookInv, IdsUnique
<1>5. queues[s][p][i] \in Orders
  BY <1>1, QueueFacts DEF StandsAt
<1> QED
  BY <1>1, <1>2, <1>3, <1>4, <1>5

LEMMA BookInit == Book!Init => BookInv
BY DEF Book!Init, BookInv, BookTypes, IdsUnique, PricesValid, Sides

LEMMA BookKept ==
  ASSUME BookInv, UNCHANGED queues, running' \in BOOLEAN
  PROVE  /\ BookInv' /\ Live' = Live
         /\ \A id, s, p, i : StandsAt(id, s, p, i)' <=> StandsAt(id, s, p, i)
         /\ \A s, p : queues'[s][p] = queues[s][p]
BY DEF BookInv, BookTypes, IdsUnique, PricesValid, StandsAt, Live, Book!Live

(* add_order: the new order stands last in its queue, the others as before. *)
LEMMA BookAdded ==
  ASSUME BookInv, NEW id \in OrderIds, NEW s \in Sides, NEW p \in Prices, NEW q \in Quantities,
         Book!AddOrder(id, s, p, q), running', result'.added
  PROVE  /\ BookInv'
         /\ id \notin Live /\ q \in Nat \ {0} /\ Book!ValidPrice(p)
         /\ \E i : StandsAt(id, s, p, i)' /\ queues'[s][p][i] = [id |-> id, quantity |-> q]
         /\ \A x, t, y, i : StandsAt(x, t, y, i) => /\ StandsAt(x, t, y, i)'
                                                  /\ queues'[t][y][i] = queues[t][y][i]
         /\ Live' = Live \union {id}
<1>1. /\ ~Book!Rejected(id, p, q)
      /\ queues' = [queues EXCEPT ![s][p] = Append(@, [id |-> id, quantity |-> q])]
      /\ running' = running
  <2>1. Book!Added(FALSE).added = FALSE
    BY DEF Book!Added
  <2> QED
    BY <2>1, Zenon DEF Book!AddOrder
<1>2. id \notin Live /\ q \in Nat \ {0} /\ Book!ValidPrice(p)
  BY <1>1, LiveStands, EngineAssumption DEF Book!Rejected, BookInv
<1>3. PICK o : o = [id |-> id, quantity |-> q]
  OBVIOUS
<1>4. o \in Orders
  BY <1>2, <1>3 DEF Orders
<1>5. PICK old \in Seq(Orders) : old = queues[s][p]
  BY QueueFacts DEF BookInv
<1>18. PICK new : new = Append(old, o)
  OBVIOUS
<1>6. new \in Seq(Orders) /\ new = Append(old, o)
  BY <1>4, <1>18
<1>7. Len(old) \in Nat /\ Len(new) = Len(old) + 1 /\ new[Len(old) + 1] = o
  BY <1>6
<1>8. \A i \in 1 .. Len(old) : new[i] = old[i]
  BY <1>6
<1>9. \A t \in Sides, x \in Prices :
        queues'[t][x] = IF t = s /\ x = p THEN new ELSE queues[t][x]
  BY <1>1, <1>3, <1>5, <1>6 DEF BookInv, BookTypes
<1>10. BookTypes'
  <2>1. queues' \in [Sides -> [Prices -> Seq(Orders)]]
    BY <1>1, <1>3, <1>5, <1>6 DEF BookInv, BookTypes
  <2> QED
    BY <1>1, <2>1 DEF BookInv, BookTypes
<1>11. ASSUME NEW t \in Sides, NEW x \in Prices
       PROVE  /\ Len(queues[t][x]) \in Nat
              /\ Len(queues'[t][x]) = IF t = s /\ x = p THEN Len(queues[t][x]) + 1
                                                        ELSE Len(queues[t][x])
              /\ \A i \in 1 .. Len(queues[t][x]) : queues'[t][x][i] = queues[t][x][i]
              /\ \A i \in 1 .. Len(queues'[t][x]) :
                   \/ i \in 1 .. Len(queues[t][x])
                   \/ t = s /\ x = p /\ i = Len(old) + 1 /\ queues'[t][x][i] = o
  <2>1. Len(queues[t][x]) \in Nat
    BY QueueFacts DEF BookInv
  <2> QED
    BY <1>5, <1>7, <1>8, <1>9, <2>1
<1>12. ASSUME NEW t \in Sides, NEW x \in Prices, NEW i \in 1 .. Len(queues[t][x])
       PROVE  queues[t][x][i].id # id
  BY <1>2, <1>12, LiveStands DEF StandsAt, BookInv
<1>13. IdsUnique'
  <2> SUFFICES ASSUME NEW t \in Sides, NEW u \in Sides, NEW x \in Prices, NEW y \in Prices,
                      NEW i \in 1 .. Len(queues'[t][x]), NEW j \in 1 .. Len(queues'[u][y]),
                      queues'[t][x][i].id = queues'[u][y][j].id
               PROVE  t = u /\ x = y /\ i = j
    BY DEF IdsUnique
  <2>1. \/ /\ i \in 1 .. Len(queues[t][x]) /\ queues'[t][x][i] = queues[t][x][i]
           /\ queues[t][x][i].id # id
        \/ t = s /\ x = p /\ i = Len(old) + 1 /\ queues'[t][x][i].id = id
    BY <1>3, <1>11, <1>12, SMTT(30)
  <2>2. \/ /\ j \in 1 .. Len(queues[u][y]) /\ queues'[u][y][j] = queues[u][y][j]
           /\ queues[u][y][j].id # id
        \/ u = s /\ y = p /\ j = Len(old) + 1 /\ queues'[u][y][j].id = id
    BY <1>3, <1>11, <1>12
  <2>3. CASE i \in 1 .. Len(queues[t][x]) /\ j \in 1 .. Len(queues[u][y])
    <3>1. queues'[t][x][i] = queues[t][x][i]
      BY <1>11, <2>3
    <3>2. queues'[u][y][j] = queues[u][y][j]
      BY <1>11, <2>3
    <3>3. queues[t][x][i].id = queues[u][y][j].id
      BY <3>1, <3>2
    <3>4. IdsUnique
      BY DEF BookInv
    <3> QED
      BY ONLY t \in Sides, u \in Sides, x \in Prices, y \in Prices, <2>3, <3>3, <3>4
         DEF IdsUnique
  <2> QED
    BY <2>1, <2>2, <2>3
<1>14. PricesValid'
  <2>1. ASSUME NEW t \in Sides, NEW x \in Prices, Len(queues'[t][x]) > 0
        PROVE  Book!ValidPrice(x)
    BY <1>2, <1>11, <2>1 DEF BookInv, PricesValid
  <2> QED
    BY <2>1 DEF PricesValid, Book!ValidPrice
<1>15. \A x, t, y, i : StandsAt(x, t, y, i) => /\ StandsAt(x, t, y, i)'
                                               /\ queues'[t][y][i] = queues[t][y][i]
  <2> SUFFICES ASSUME NEW x, NEW t, NEW y, NEW i, StandsAt(x, t, y, i)
               PROVE  StandsAt(x, t, y, i)' /\ queues'[t][y][i] = queues[t][y][i]
    OBVIOUS
  <2>1. t \in Sides /\ y \in Prices /\ i \in 1 .. Len(queues[t][y]) /\ queues[t][y][i].id = x
    BY DEF StandsAt
  <2>2. i \in 1 .. Len(queues'[t][y]) /\ queues'[t][y][i] = queues[t][y][i]
    BY <1>11, <2>1
  <2> QED
    BY <2>1, <2>2 DEF StandsAt
<1>16. StandsAt(id, s, p, Len(old) + 1)' /\ queues'[s][p][Len(old) + 1] = o
  <2>1. Len(old) + 1 \in 1 .. Len(queues'[s][p])
    BY <1>7, <1>9
  <2>2. queues'[s][p][Len(old) + 1] = o
    BY <1>7, <1>9
  <2> QED
    BY <1>3, <2>1, <2>2 DEF StandsAt
<1>17. Live' = Live \union {id}
  <2>1. ASSUME NEW x PROVE x \in Live' <=> x \in Live \/ x = id
    <3>1. x \in Live' <=> \E t, y, i : StandsAt(x, t, y, i)'
      BY <1>10, LiveStandsNext DEF LivesStand
    <3>2. x \in Live <=> \E t, y, i : StandsAt(x, t, y, i)
      BY LiveStands DEF BookInv
    <3>3. ASSUME NEW t, NEW y, NEW i, StandsAt(x, t, y, i)'
          PROVE  StandsAt(x, t, y, i) \/ x = id
      <4>1. /\ t \in Sides /\ y \in Prices /\ i \in 1 .. Len(queues'[t][y])
            /\ queues'[t][y][i].id = x
        BY <3>3 DEF StandsAt
      <4>2. CASE i \in 1 .. Len(queues[t][y])
        BY <1>11, <4>1, <4>2 DEF StandsAt
      <4>3. CASE i \notin 1 .. Len(queues[t][y])
        BY <1>3, <1>11, <4>1, <4>3
      <4> QED
        BY <4>2, <4>3
    <3> QED
      BY <1>15, <1>16, <3>1, <3>2, <3>3
  <2> QED
    BY <2>1
<1> QED
  BY <1>2, <1>3, <1>10, <1>13, <1>14, <1>15, <1>16, <1>17 DEF BookInv

(* Taking an element out shifts those behind it and keeps the others. *)
LEMMA RemoveAtShifts ==
  ASSUME NEW S, NEW s \in Seq(S), NEW k \in 1 .. Len(s)
  PROVE  /\ Book!RemoveAt(s, k) \in Seq(S)
         /\ Len(Book!RemoveAt(s, k)) = Len(s) - 1
         /\ \A i \in 1 .. Len(s) - 1 :
              Book!RemoveAt(s, k)[i] = s[IF i < k THEN i ELSE i + 1]
<1> DEFINE a == SubSeq(s, 1, k - 1)
           b == SubSeq(s, k + 1, Len(s))
<1>1. a \in Seq(S) /\ Len(a) = k - 1 /\ \A i \in 1 .. k - 1 : a[i] = s[i]
  OBVIOUS
<1>2. b \in Seq(S) /\ Len(b) = Len(s) - k /\ \A i \in 1 .. Len(s) - k : b[i] = s[k + i]
  OBVIOUS
<1>3. Book!RemoveAt(s, k) = a \o b
  BY DEF Book!RemoveAt
<1> HIDE DEF a, b
<1>4. a \o b \in Seq(S) /\ Len(a \o b) = Len(s) - 1
  <2>1. a \o b \in Seq(S) /\ Len(a \o b) = Len(a) + Len(b)
    BY <1>1, <1>2, ConcatProperties
  <2> QED
    BY <1>1, <1>2, <2>1
<1>5. ASSUME NEW i \in 1 .. Len(s) - 1
      PROVE  (a \o b)[i] = s[IF i < k THEN i ELSE i + 1]
  <2>1. CASE i < k
    BY <1>1, <1>2, <2>1
  <2>2. CASE ~(i < k)
    <3>1. /\ i - (k - 1) \in 1 .. Len(s) - k /\ k + (i - (k - 1)) = i + 1
          /\ i \in k .. (k - 1) + (Len(s) - k)
      BY <2>2
    <3>2. (a \o b)[i] = b[i - (k - 1)]
      BY <1>1, <1>2, <3>1
    <3> QED
      BY <1>2, <2>2, <3>1, <3>2
  <2> QED
    BY <2>1, <2>2
<1> QED
  BY <1>3, <1>4, <1>5

(* Shares taken: the order is left with the rest, or gone with the last of *)
(* them; the others keep their side, price and quantity.                   *)
LEMMA BookReduced ==
  ASSUME BookInv, NEW id, NEW s, NEW p, NEW k, StandsAt(id, s, p, k),
         NEW q \in Nat \ {0}, q <= queues[s][p][k].quantity,
         NEW rest, rest = queues[s][p][k].quantity - q,
         Book!Reduce(id, q), running' = running
  PROVE  /\ BookInv'
         /\ rest \in Nat
         /\ \A x, t, y, i : StandsAt(x, t, y, i) /\ x # id =>
              \E j : StandsAt(x, t, y, j)' /\ queues'[t][y][j] = queues[t][y][i]
         /\ rest = 0 => Live' = Live \ {id}
         /\ rest # 0 => /\ Live' = Live
                       /\ \E j : StandsAt(id, s, p, j)' /\ queues'[s][p][j].quantity = rest
<1>1. s = Book!Place(id).s /\ p = Book!Place(id).p /\ k = Book!Place(id).i
  BY OnePlace
<1>2. BookTypes /\ StandsAt(id, s, p, k) /\ Book!OrderOf(id) = queues[s][p][k]
  BY OnePlace DEF BookInv
<1>3. /\ s \in Sides /\ p \in Prices /\ k \in 1 .. Len(queues[s][p])
      /\ queues[s][p][k].id = id
  BY <1>2 DEF StandsAt
<1>4. PICK old : old = queues[s][p]
  OBVIOUS
<1>5. old \in Seq(Orders) /\ Len(old) \in Nat /\ k \in 1 .. Len(old) /\ old[k] \in Orders
  BY <1>2, <1>3, <1>4, QueueFacts
<1>6. Book!OrderOf(id).quantity - q = rest
  BY <1>2
<1>7. rest \in Nat /\ old[k].id = id /\ rest = old[k].quantity - q
  BY <1>3, <1>4, <1>5 DEF Orders
<1>8. PICK new : new = IF rest = 0 THEN Book!RemoveAt(old, k) ELSE [old EXCEPT ![k].quantity = rest]
  OBVIOUS
<1>9. queues' = [queues EXCEPT ![s][p] = new]
  <2>1. PICK w : w = Book!Place(id)
    OBVIOUS
  <2>2. queues' = [queues EXCEPT ![w.s][w.p] =
                     IF Book!OrderOf(id).quantity - q = 0 THEN Book!RemoveAt(@, w.i)
                     ELSE [@ EXCEPT ![w.i].quantity = Book!OrderOf(id).quantity - q]]
    BY <2>1 DEF Book!Reduce
  <2>3. w.s = s /\ w.p = p /\ w.i = k
    BY <1>1, <2>1
  <2>4. queues' = [queues EXCEPT ![s][p] =
                     IF rest = 0 THEN Book!RemoveAt(@, k) ELSE [@ EXCEPT ![k].quantity = rest]]
    BY <1>6, <2>2, <2>3
  <2> QED
    BY <1>4, <1>8, <2>4
(* where the elements of the shorter queue stood *)
<1> DEFINE up(i) == IF rest = 0 /\ i >= k THEN i + 1 ELSE i
<1>10. /\ new \in Seq(Orders) /\ Len(new) \in Nat
       /\ Len(new) = IF rest = 0 THEN Len(old) - 1 ELSE Len(old)
       /\ \A i \in 1 .. Len(new) :
            /\ up(i) \in 1 .. Len(old)
            /\ new[i].id = old[up(i)].id
            /\ up(i) # k => new[i] = old[up(i)]
       /\ rest # 0 => new[k].quantity = rest
  <2>1. CASE rest = 0
    <3>1. new = Book!RemoveAt(old, k)
      BY <1>8, <2>1
    <3>2. /\ new \in Seq(Orders) /\ Len(new) = Len(old) - 1
          /\ \A i \in 1 .. Len(old) - 1 : new[i] = old[IF i < k THEN i ELSE i + 1]
      BY <1>5, <3>1, RemoveAtShifts
    <3>3. \A i \in 1 .. Len(old) - 1 :
            /\ up(i) \in 1 .. Len(old) /\ up(i) = IF i < k THEN i ELSE i + 1
      BY <1>5, <2>1
    <3> QED
      BY <1>5, <2>1, <3>2, <3>3
  <2>2. CASE rest # 0
    <3>1. new = [old EXCEPT ![k].quantity = rest]
      BY <1>8, <2>2
    <3>2. [old[k] EXCEPT !.quantity = rest] = [id |-> id, quantity |-> rest]
      BY <1>5, <1>7 DEF Orders
    <3>3. [id |-> id, quantity |-> rest] \in Orders
      BY <1>5, <1>7, <2>2 DEF Orders
    <3>4. new = [old EXCEPT ![k] = [id |-> id, quantity |-> rest]]
      BY <1>5, <3>1, <3>2
    <3>5. new \in Seq(Orders) /\ Len(new) = Len(old)
      BY <1>5, <3>3, <3>4
    <3>6. /\ \A i \in 1 .. Len(old) : i # k => new[i] = old[i]
          /\ new[k] = [id |-> id, quantity |-> rest]
      BY <1>5, <3>4
    <3>7. \A i \in 1 .. Len(old) : up(i) = i
      BY <2>2
    <3> QED
      BY <1>5, <1>7, <2>2, <3>5, <3>6, <3>7
  <2> QED
    BY <2>1, <2>2
<1>11. \A i \in 1 .. Len(old) : i # k => \E j \in 1 .. Len(new) : up(j) = i
  <2> SUFFICES ASSUME NEW i \in 1 .. Len(old), i # k PROVE \E j \in 1 .. Len(new) : up(j) = i
    OBVIOUS
  <2> DEFINE j == IF rest = 0 /\ i > k THEN i - 1 ELSE i
  <2>1. j \in 1 .. Len(new) /\ up(j) = i
    BY <1>5, <1>10
  <2> QED
    BY <2>1
<1>12. \A i, j \in 1 .. Len(new) : up(i) = up(j) => i = j
  BY <1>5, <1>10
<1>13. rest # 0 => up(k) = k /\ k \in 1 .. Len(new)
  BY <1>5, <1>10
<1>14. rest = 0 => \A i \in 1 .. Len(new) : up(i) # k
  BY <1>5, <1>10
<1> HIDE DEF up
<1>15. \A t \in Sides, x \in Prices :
         queues'[t][x] = IF t = s /\ x = p THEN new ELSE queues[t][x]
  BY <1>2, <1>3, <1>9 DEF BookTypes
<1>16. BookTypes'
  <2>1. queues' \in [Sides -> [Prices -> Seq(Orders)]]
    BY <1>2, <1>3, <1>9, <1>10 DEF BookTypes
  <2> QED
    BY <1>2, <2>1 DEF BookTypes
(* where an order of the next state stood *)
<1> DEFINE before(t, x, i) == IF t = s /\ x = p THEN up(i) ELSE i
<1>17. ASSUME NEW t \in Sides, NEW x \in Prices, NEW i \in 1 .. Len(queues'[t][x])
       PROVE  /\ before(t, x, i) \in 1 .. Len(queues[t][x])
              /\ queues'[t][x][i].id = queues[t][x][before(t, x, i)].id
              /\ ~(t = s /\ x = p /\ before(t, x, i) = k) =>
                   queues'[t][x][i] = queues[t][x][before(t, x, i)]
  BY <1>4, <1>10, <1>15
<1>18. IdsUnique'
  <2> SUFFICES ASSUME NEW t \in Sides, NEW u \in Sides, NEW x \in Prices, NEW y \in Prices,
                      NEW i \in 1 .. Len(queues'[t][x]), NEW j \in 1 .. Len(queues'[u][y]),
                      queues'[t][x][i].id = queues'[u][y][j].id
               PROVE  t = u /\ x = y /\ i = j
    BY DEF IdsUnique
  <2>1. /\ before(t, x, i) \in 1 .. Len(queues[t][x])
        /\ before(u, y, j) \in 1 .. Len(queues[u][y])
        /\ queues[t][x][before(t, x, i)].id = queues[u][y][before(u, y, j)].id
    BY <1>17
  <2>2. t = u /\ x = y /\ before(t, x, i) = before(u, y, j)
    <3> HIDE DEF before
    <3> QED
      BY <2>1, SMTT(30) DEF BookInv, IdsUnique
  <2> QED
    BY <1>12, <1>15, <2>2
<1>19. PricesValid'
  <2>1. ASSUME NEW t \in Sides, NEW x \in Prices, Len(queues'[t][x]) > 0
        PROVE  Book!ValidPrice(x)
    <3>1. Len(queues[t][x]) \in Nat /\ Len(queues[t][x]) > 0
      <4>1. Len(queues[t][x]) \in Nat
        BY <1>2, QueueFacts
      <4> QED
        BY <1>4, <1>5, <1>15, <2>1, <4>1
    <3> QED
      BY <3>1 DEF BookInv, PricesValid
  <2> QED
    BY <2>1 DEF PricesValid, Book!ValidPrice
<1>20. \A x, t, y, i : StandsAt(x, t, y, i) /\ x # id =>
         \E j : StandsAt(x, t, y, j)' /\ queues'[t][y][j] = queues[t][y][i]
  <2> SUFFICES ASSUME NEW x, NEW t, NEW y, NEW i, StandsAt(x, t, y, i), x # id
               PROVE  \E j : StandsAt(x, t, y, j)' /\ queues'[t][y][j] = queues[t][y][i]
    OBVIOUS
  <2>1. t \in Sides /\ y \in Prices /\ i \in 1 .. Len(queues[t][y]) /\ queues[t][y][i].id = x
    BY DEF StandsAt
  <2>2. \E j \in 1 .. Len(queues'[t][y]) : queues'[t][y][j] = queues[t][y][i]
    <3>1. CASE t = s /\ y = p
      <4>1. i # k /\ i \in 1 .. Len(old) /\ queues'[t][y] = new /\ queues[t][y] = old
        BY <1>3, <1>4, <1>15, <2>1, <3>1
      <4>2. PICK j \in 1 .. Len(new) : up(j) = i
        BY <1>11, <4>1
      <4>3. new[j] = old[i]
        BY <1>10, <4>1, <4>2
      <4> QED
        BY <4>1, <4>2, <4>3
    <3>2. CASE ~(t = s /\ y = p)
      BY <1>15, <2>1, <3>2
    <3> QED
      BY <3>1, <3>2
  <2> QED
    BY <2>1, <2>2 DEF StandsAt
<1>21. rest # 0 => StandsAt(id, s, p, k)' /\ queues'[s][p][k].quantity = rest
  BY <1>3, <1>7, <1>10, <1>13, <1>15 DEF StandsAt
<1>22. ASSUME NEW x PROVE x \in Live' <=> x \in Live /\ (rest = 0 => x # id)
  <2>1. x \in Live' <=> \E t, y, i : StandsAt(x, t, y, i)'
    BY <1>16, LiveStandsNext DEF LivesStand
  <2>2. x \in Live <=> \E t, y, i : StandsAt(x, t, y, i)
    BY <1>2, LiveStands
  <2>3. ASSUME NEW t, NEW y, NEW i, StandsAt(x, t, y, i)'
        PROVE  StandsAt(x, t, y, before(t, y, i)) /\ (rest = 0 => x # id)
    <3>1. /\ t \in Sides /\ y \in Prices /\ i \in 1 .. Len(queues'[t][y])
          /\ queues'[t][y][i].id = x
      BY <2>3 DEF StandsAt
    <3>2. StandsAt(x, t, y, before(t, y, i))
      BY <1>17, <3>1 DEF StandsAt
    <3>3. ASSUME rest = 0, x = id PROVE FALSE
      <4>1. t = s /\ y = p /\ before(t, y, i) = k
        BY <1>2, <3>2, <3>3 DEF StandsAt, BookInv, IdsUnique
      <4> QED
        BY <1>14, <1>15, <3>1, <3>3, <4>1
    <3> QED
      BY <3>2, <3>3
  <2>4. x \in Live /\ x # id => x \in Live'
    BY <1>20, <2>1, <2>2
  <2>5. rest # 0 => id \in Live'
    <3>1. id \in Live' <=> \E t, y, i : StandsAt(id, t, y, i)'
      BY <1>16, LiveStandsNext DEF LivesStand
    <3> QED
      BY <1>21, <3>1
  <2> QED
    BY <2>1, <2>2, <2>3, <2>4, <2>5
<1>23. /\ rest = 0 => Live' = Live \ {id}
       /\ rest # 0 => Live' = Live
  BY <1>22
<1> HIDE DEF before
<1> QED
  BY <1>7, <1>16, <1>18, <1>19, <1>20, <1>21, <1>23 DEF BookInv

-----------------------------------------------------------------------------
(* The spoofing detector: what the orders followed in a cluster add up to. *)

FollowedOK(o) ==
  /\ DOMAIN o \subseteq OrderIds /\ IsFiniteSet(DOMAIN o)
  /\ o \in [DOMAIN o -> Nat \ {0}]

Waiting(o) == MapThenSumSet(LAMBDA id : o[id], DOMAIN o)

LEMMA WaitingIsSum ==
  ASSUME NEW o, FollowedOK(o), NEW h, IsSum(h, o, DOMAIN o)
  PROVE  Waiting(o) = h[DOMAIN o]
<1> DEFINE D == DOMAIN o
           E(g) == [s \in SUBSET D |->
                      IF s = {} THEN 0
                      ELSE o[CHOOSE x \in s : TRUE] + g[s \ {CHOOSE x \in s : TRUE}]]
           iter == CHOOSE g : g = E(g)
<1>1. h = E(h)
  <2>1. ASSUME NEW s \in SUBSET D, s # {}
        PROVE  h[s] = o[CHOOSE x \in s : TRUE] + h[s \ {CHOOSE x \in s : TRUE}]
    <3> DEFINE x == CHOOSE x \in s : TRUE
    <3>1. x \in s
      BY <2>1
    <3> HIDE DEF x
    <3>2. h[s] = o[x] + h[s \ {x}]
      BY <3>1 DEF IsSum
    <3> QED
      BY <3>2 DEF x
  <2>2. h = [s \in SUBSET D |-> h[s]] /\ h[{}] = 0
    BY DEF IsSum
  <2> QED
    BY <2>1, <2>2
<1>2. iter = E(iter)
  <2> HIDE DEF E
  <2> QED
    BY <1>1
<1>3. Waiting(o) = iter[D]
  BY DEF Waiting, MapThenSumSet, MapThenFoldSet
<1> HIDE DEF iter
<1>4. iter[{}] = 0
  BY <1>2
<1>5. ASSUME NEW s \in SUBSET D, s # {}
      PROVE  \E x \in s : iter[s] = o[x] + iter[s \ {x}]
  <2>1. iter[s] = o[CHOOSE x \in s : TRUE] + iter[s \ {CHOOSE x \in s : TRUE}]
    BY <1>2, <1>5
  <2>2. (CHOOSE x \in s : TRUE) \in s
    BY <1>5
  <2> QED
    BY <2>1, <2>2
<1>6. IsFiniteSet(D)
  BY DEF FollowedOK
<1> HIDE DEF E, D
<1>7. \A s \in SUBSET D : iter[s] = h[s]
  <2>1. IsSum(h, o, D)
    BY DEF D
  <2>2. AddsUp(iter, o, D)
    BY <1>4, <1>5 DEF AddsUp
  <2> QED
    BY <1>6, <2>1, <2>2, SumUnique
<1> QED
  BY <1>3, <1>7 DEF D

(* Taking an order out, or in, changes the sum by what it had. *)
LEMMA WaitingWithout ==
  ASSUME NEW o, FollowedOK(o), NEW id, NEW r,
         DOMAIN r = DOMAIN o \ {id}, r = [x \in DOMAIN r |-> r[x]],
         \A x \in DOMAIN r : r[x] = o[x]
  PROVE  /\ FollowedOK(r)
         /\ Waiting(o) \in Nat /\ Waiting(r) \in Nat
         /\ Waiting(o) = Waiting(r) + IF id \in DOMAIN o THEN o[id] ELSE 0
<1> DEFINE D == DOMAIN o
           R == DOMAIN r
<1>1. FollowedOK(r)
  <2>1. IsFiniteSet(R) /\ R \subseteq OrderIds
    BY FS_Subset DEF FollowedOK
  <2> QED
    BY <2>1 DEF FollowedOK
<1>2. /\ o \in [D -> Nat] /\ r \in [R -> Nat] /\ IsFiniteSet(D) /\ IsFiniteSet(R)
      /\ o \in [D -> Int] /\ r \in [R -> Int]
  BY <1>1 DEF FollowedOK
<1>3. PICK h : IsSum(h, o, D)
  BY <1>2, SumExists
<1>4. PICK g : IsSum(g, r, R)
  BY <1>2, SumExists
<1>5. Waiting(o) = h[D] /\ Waiting(r) = g[R]
  BY <1>1, <1>3, <1>4, WaitingIsSum
<1>6. h[R] = g[R]
  <2>1. AddsUp(h, r, R)
    BY <1>3 DEF IsSum, AddsUp
  <2>2. \A S \in SUBSET R : h[S] = g[S]
    <3> HIDE DEF R
    <3> QED
      BY <1>2, <1>4, <2>1, SumUnique
  <2> QED
    BY <2>2
<1>7. h[D] = h[R] + IF id \in D THEN o[id] ELSE 0
  <2>1. CASE id \in D
    <3>1. h[D] = o[id] + h[D \ {id}] /\ R = D \ {id} /\ h[R] \in Int /\ o[id] \in Nat
      BY <1>2, <1>3, <2>1 DEF IsSum
    <3> QED
      BY <2>1, <3>1
  <2>2. CASE id \notin D
    <3>1. R = D /\ h[D] \in Int
      BY <1>3, <2>2 DEF IsSum
    <3> QED
      BY <2>2, <3>1
  <2> QED
    BY <2>1, <2>2
<1>8. h[D] \in Nat /\ g[R] \in Nat
  <2>1. (\A S \in SUBSET D : h[S] \in Nat) /\ (\A S \in SUBSET R : g[S] \in Nat)
    <3> HIDE DEF D, R
    <3> QED
      BY <1>2, <1>3, <1>4, SumNat
  <2> QED
    BY <2>1
<1> QED
  BY <1>1, <1>5, <1>6, <1>7, <1>8

LEMMA WaitingNat ==
  ASSUME NEW o, FollowedOK(o)
  PROVE  Waiting(o) \in Nat
<1>1. PICK r : r = [x \in DOMAIN o \ {OrderIds} |-> o[x]]
  OBVIOUS
<1>2. DOMAIN r = DOMAIN o \ {OrderIds} /\ r = [x \in DOMAIN r |-> r[x]]
      /\ \A x \in DOMAIN r : r[x] = o[x]
  BY <1>1
<1> QED
  BY <1>2, WaitingWithout

LEMMA NothingWaiting == FollowedOK(<< >>) /\ Waiting(<< >>) = 0
<1>1. FollowedOK(<< >>)
  BY FS_EmptySet DEF FollowedOK
<1>2. Waiting(<< >>) = 0
  <2>1. IsFiniteSet({}) /\ << >> \in [{} -> Int] /\ DOMAIN << >> = {}
    BY FS_EmptySet
  <2>2. PICK h : IsSum(h, << >>, {})
    BY <2>1, SumExists
  <2> QED
    BY <1>1, <2>1, <2>2, WaitingIsSum DEF IsSum
<1> QED
  BY <1>1, <1>2

-----------------------------------------------------------------------------
(* Each step of a cluster keeps what is cancelled and what is waiting      *)
(* within what was added.                                                  *)

ClusterOK(c) ==
  /\ c \in [total_add_volume : Nat, total_cancel_volume : Nat, orders : {c.orders}]
  /\ FollowedOK(c.orders)
  /\ c.total_cancel_volume + Waiting(c.orders) <= c.total_add_volume

LEMMA NewClusterOK == ClusterOK(Spoof!NoCluster)
BY NothingWaiting DEF Spoof!NoCluster, ClusterOK

(* evict_old halves both volumes and follows nothing any more. *)
LEMMA EvictedOK ==
  ASSUME NEW c, ClusterOK(c)
  PROVE  /\ ClusterOK(Spoof!Evicted(c))
         /\ Spoof!Forgotten(c) = DOMAIN c.orders \ DOMAIN Spoof!Evicted(c).orders
         /\ DOMAIN Spoof!Evicted(c).orders \subseteq DOMAIN c.orders
         /\ \A x \in DOMAIN Spoof!Evicted(c).orders : Spoof!Evicted(c).orders[x] = c.orders[x]
<1>1. CASE ~Spoof!Overfull(c)
  BY <1>1 DEF Spoof!Evicted, Spoof!Forgotten
<1>2. CASE Spoof!Overfull(c)
  <2>1. PICK a, b, w : a = c.total_add_volume /\ b = c.total_cancel_volume /\ w = Waiting(c.orders)
    OBVIOUS
  <2>2. a \in Nat /\ b \in Nat /\ w \in Nat /\ b + w <= a
    <3>1. w \in Nat
      BY <2>1, WaitingNat DEF ClusterOK
    <3> QED
      BY <2>1, <3>1 DEF ClusterOK
  <2>3. a \div 2 \in Nat /\ b \div 2 \in Nat /\ b \div 2 <= a \div 2
    BY <2>2
  <2>4. Spoof!Evicted(c) = [total_add_volume |-> a \div 2, total_cancel_volume |-> b \div 2,
                            orders |-> << >>]
    BY <1>2, <2>1 DEF Spoof!Evicted
  <2>5. ClusterOK(Spoof!Evicted(c))
    BY <2>3, <2>4, NothingWaiting DEF ClusterOK
  <2>6. DOMAIN Spoof!Evicted(c).orders = {}
    BY <2>4
  <2>7. Spoof!Forgotten(c) = DOMAIN c.orders
    BY <1>2 DEF Spoof!Forgotten
  <2> QED
    BY <2>5, <2>6, <2>7
<1> QED
  BY <1>1, <1>2

(* record_add: an order not yet followed brings what it has to both sides. *)
Grown(c, id, q) == [c EXCEPT !.total_add_volume = @ + q, !.orders = Spoof!With(@, id, q)]

LEMMA GrownOK ==
  ASSUME NEW c, ClusterOK(c), NEW id \in OrderIds, id \notin DOMAIN c.orders, NEW q \in Nat \ {0}
  PROVE  /\ ClusterOK(Grown(c, id, q))
         /\ DOMAIN Grown(c, id, q).orders = DOMAIN c.orders \union {id}
         /\ Grown(c, id, q).orders[id] = q
         /\ \A x \in DOMAIN c.orders : Grown(c, id, q).orders[x] = c.orders[x]
<1>0. PICK d : d = Grown(c, id, q)
  OBVIOUS
<1>1. PICK o, n : o = c.orders /\ n = Spoof!With(o, id, q)
  OBVIOUS
<1>2. /\ n = [x \in DOMAIN o \union {id} |-> IF x = id THEN q ELSE o[x]]
      /\ FollowedOK(o)
  BY <1>1 DEF Spoof!With, ClusterOK
<1>3. FollowedOK(n)
  <2>1. IsFiniteSet(DOMAIN o \union {id})
    BY <1>2, FS_AddElement DEF FollowedOK
  <2> QED
    BY <1>2, <2>1 DEF FollowedOK
<1>4. /\ DOMAIN n = DOMAIN o \union {id} /\ n[id] = q
      /\ \A x \in DOMAIN o : n[x] = o[x]
      /\ o = [x \in DOMAIN o |-> o[x]] /\ DOMAIN o = DOMAIN n \ {id}
  BY <1>1, <1>2 DEF FollowedOK
<1>5. Waiting(n) \in Nat /\ Waiting(o) \in Nat /\ Waiting(n) = Waiting(o) + q
  BY <1>3, <1>4, WaitingWithout
<1>6. d.orders = n /\ d.total_add_volume = c.total_add_volume + q
      /\ d.total_cancel_volume = c.total_cancel_volume
      /\ d \in [total_add_volume : Nat, total_cancel_volume : Nat, orders : {n}]
  <2>1. d = [c EXCEPT !.total_add_volume = c.total_add_volume + q, !.orders = n]
    BY <1>0, <1>1 DEF Grown
  <2>2. /\ c \in [total_add_volume : Nat, total_cancel_volume : Nat, orders : {c.orders}]
        /\ c.total_add_volume + q \in Nat
    BY DEF ClusterOK
  <2> QED
    BY <2>1, <2>2
<1>7. ClusterOK(d)
  BY <1>1, <1>3, <1>5, <1>6 DEF ClusterOK
<1> QED
  BY <1>0, <1>1, <1>4, <1>6, <1>7

(* Shares taken from a followed order. *)
Charged(c, q) == [c EXCEPT !.total_cancel_volume = @ + q]

(* l is what c becomes when order id has q shares less. *)
IsLessened(l, c, id, q) ==
  /\ ClusterOK(l) /\ ClusterOK(Charged(l, q)) /\ Charged(l, q).orders = l.orders
  /\ DOMAIN l.orders = IF q = c.orders[id] THEN DOMAIN c.orders \ {id} ELSE DOMAIN c.orders
  /\ q # c.orders[id] => l.orders[id] = c.orders[id] - q
  /\ \A x \in DOMAIN c.orders \ {id} : l.orders[x] = c.orders[x]

LEMMA LessenedOK ==
  ASSUME NEW c, ClusterOK(c), NEW id, id \in DOMAIN c.orders, NEW q \in Nat \ {0},
         q <= c.orders[id]
  PROVE  IsLessened(Spoof!Lessened(c, id, q), c, id, q)
<1>0. PICK d : d = Spoof!Lessened(c, id, q)
  OBVIOUS
<1>1. PICK o, n, l : o = c.orders /\ n = d.orders /\ l = [x \in DOMAIN o \ {id} |-> o[x]]
  OBVIOUS
<1>2. FollowedOK(o) /\ o[id] \in Nat \ {0} /\ DOMAIN l = DOMAIN o \ {id}
  BY <1>1 DEF ClusterOK, FollowedOK
<1>3. /\ FollowedOK(l) /\ Waiting(o) \in Nat /\ Waiting(l) \in Nat
      /\ Waiting(o) = Waiting(l) + o[id]
  BY <1>1, <1>2, WaitingWithout
<1>4. /\ d = [c EXCEPT !.orders = n]
      /\ n = IF o[id] = q THEN l ELSE [o EXCEPT ![id] = o[id] - q]
  <2>1. Spoof!Without(o, id) = l
    BY <1>1 DEF Spoof!Without, Spoof!Restrict
  <2> QED
    BY <1>0, <1>1, <2>1 DEF Spoof!Lessened, ClusterOK
<1>5. FollowedOK(n) /\ Waiting(n) \in Nat /\ Waiting(n) + q = Waiting(o)
  <2>1. CASE o[id] = q
    BY <1>3, <1>4, <2>1
  <2>2. CASE o[id] # q
    <3>1. n = [o EXCEPT ![id] = o[id] - q] /\ o[id] - q \in Nat \ {0}
      BY <1>1, <1>2, <1>4, <2>2
    <3>2. FollowedOK(n) /\ DOMAIN n = DOMAIN o /\ n[id] = o[id] - q
      BY <1>1, <1>2, <3>1 DEF FollowedOK
    <3>3. DOMAIN l = DOMAIN n \ {id} /\ \A x \in DOMAIN l : l[x] = n[x]
      BY <1>1, <1>2, <3>1
    <3>4. Waiting(n) \in Nat /\ Waiting(n) = Waiting(l) + n[id]
      BY <1>1, <3>2, <3>3, WaitingWithout
    <3> QED
      BY <1>1, <1>2, <1>3, <3>2, <3>4
  <2> QED
    BY <2>1, <2>2
<1>6. /\ d.orders = n /\ d.total_add_volume = c.total_add_volume
      /\ d.total_cancel_volume = c.total_cancel_volume
      /\ d \in [total_add_volume : Nat, total_cancel_volume : Nat, orders : {n}]
  BY <1>4 DEF ClusterOK
<1>7. c.total_cancel_volume + Waiting(o) <= c.total_add_volume
      /\ c.total_cancel_volume \in Nat /\ c.total_add_volume \in Nat
  BY <1>1 DEF ClusterOK
<1>8. ClusterOK(d)
  BY <1>3, <1>5, <1>6, <1>7 DEF ClusterOK
<1>9. ClusterOK(Charged(d, q)) /\ Charged(d, q).orders = n
  <2>1. PICK e : e = Charged(d, q)
    OBVIOUS
  <2>2. /\ e.orders = n /\ e.total_add_volume = c.total_add_volume
        /\ e.total_cancel_volume = c.total_cancel_volume + q
        /\ e \in [total_add_volume : Nat, total_cancel_volume : Nat, orders : {n}]
    BY <1>6, <1>7, <2>1 DEF Charged
  <2>3. ClusterOK(e)
    BY <1>3, <1>5, <1>7, <2>2 DEF ClusterOK
  <2> QED
    BY <2>1, <2>2, <2>3
<1>10. /\ DOMAIN n = IF q = o[id] THEN DOMAIN o \ {id} ELSE DOMAIN o
       /\ q # o[id] => n[id] = o[id] - q
       /\ \A x \in DOMAIN o \ {id} : n[x] = o[x]
  BY <1>1, <1>2, <1>4
<1> QED
  BY <1>0, <1>1, <1>8, <1>9, <1>10 DEF IsLessened

-----------------------------------------------------------------------------
(* The two indexes of the detector agree. *)

IsFunction(f) == f = [x \in DOMAIN f |-> f[x]]

DetectorInv ==
  /\ IsFunction(clusters) /\ IsFunction(order_clusters)
  /\ \A key \in DOMAIN clusters : ClusterOK(clusters[key])
  /\ \A id \in DOMAIN order_clusters : Spoof!Followed(id)
  /\ \A key \in DOMAIN clusters : \A id \in DOMAIN clusters[key].orders :
       id \in DOMAIN order_clusters /\ order_clusters[id] = key

(* What the detector believes order id has left. *)
Left(id) == clusters[order_clusters[id]].orders[id]

LEMMA DetectorInit == Spoof!SpoofInit => DetectorInv
BY DEF Spoof!SpoofInit, DetectorInv, IsFunction

(* One cluster changes, and the index of orders with it. *)
LEMMA ClusterSet ==
  ASSUME DetectorInv, NEW key, NEW c, ClusterOK(c),
         NEW old, old = DOMAIN Spoof!ClusterAt(key).orders,
         clusters' = Spoof!With(clusters, key, c),
         IsFunction(order_clusters'),
         DOMAIN order_clusters' = (DOMAIN order_clusters \ old) \union DOMAIN c.orders,
         \A x \in DOMAIN c.orders : x \in old \/ x \notin DOMAIN order_clusters,
         \A x \in DOMAIN order_clusters' :
           order_clusters'[x] = IF x \in DOMAIN c.orders THEN key ELSE order_clusters[x]
  PROVE  /\ DetectorInv'
         /\ \A x \in DOMAIN order_clusters' :
              Left(x)' = IF x \in DOMAIN c.orders THEN c.orders[x] ELSE Left(x)
<1>1. PICK f, g, f2, g2 : /\ f = clusters /\ g = order_clusters
                          /\ f2 = clusters' /\ g2 = order_clusters'
  OBVIOUS
<1>2. /\ DOMAIN f2 = DOMAIN f \union {key} /\ f2[key] = c
      /\ \A y \in DOMAIN f : y # key => f2[y] = f[y]
      /\ IsFunction(f2)
  BY <1>1 DEF Spoof!With, IsFunction
<1>3. old = IF key \in DOMAIN f THEN DOMAIN f[key].orders ELSE {}
  BY <1>1 DEF Spoof!ClusterAt, Spoof!NoCluster
<1>4. \A x \in DOMAIN g : g[x] \in DOMAIN f /\ x \in DOMAIN f[g[x]].orders
  BY <1>1 DEF DetectorInv, Spoof!Followed
<1>5. \A y \in DOMAIN f : \A x \in DOMAIN f[y].orders : x \in DOMAIN g /\ g[x] = y
  BY <1>1 DEF DetectorInv
<1>6. /\ DOMAIN g2 = (DOMAIN g \ old) \union DOMAIN c.orders
      /\ \A x \in DOMAIN c.orders : x \in old \/ x \notin DOMAIN g
      /\ \A x \in DOMAIN g2 : g2[x] = IF x \in DOMAIN c.orders THEN key ELSE g[x]
      /\ IsFunction(g2)
  BY <1>1
<1>7. \A y \in DOMAIN f2 : ClusterOK(f2[y])
  <2>1. \A y \in DOMAIN f : ClusterOK(f[y])
    BY <1>1 DEF DetectorInv
  <2> QED
    BY <1>2, <2>1
<1>8. ASSUME NEW x \in DOMAIN g2
      PROVE  /\ g2[x] \in DOMAIN f2 /\ x \in DOMAIN f2[g2[x]].orders
             /\ f2[g2[x]].orders[x] = IF x \in DOMAIN c.orders THEN c.orders[x] ELSE f[g[x]].orders[x]
  <2>1. CASE x \in DOMAIN c.orders
    BY <1>2, <1>6, <2>1
  <2>2. CASE x \notin DOMAIN c.orders
    <3>1. x \in DOMAIN g /\ x \notin old /\ g2[x] = g[x]
      BY <1>6, <2>2
    <3>2. g[x] \in DOMAIN f /\ x \in DOMAIN f[g[x]].orders /\ g[x] # key
      BY <1>3, <1>4, <3>1
    <3> QED
      BY <1>2, <2>2, <3>1, <3>2
  <2> QED
    BY <2>1, <2>2
<1>9. ASSUME NEW y \in DOMAIN f2, NEW x \in DOMAIN f2[y].orders
      PROVE  x \in DOMAIN g2 /\ g2[x] = y
  <2>1. CASE y = key
    BY <1>2, <1>6, <2>1
  <2>2. CASE y # key
    <3>1. y \in DOMAIN f /\ f2[y] = f[y] /\ x \in DOMAIN g /\ g[x] = y
      BY <1>2, <1>5, <2>2
    <3>2. x \notin old /\ x \notin DOMAIN c.orders
      BY <1>3, <1>5, <1>6, <2>2, <3>1
    <3> QED
      BY <1>6, <3>1, <3>2
  <2> QED
    BY <2>1, <2>2
<1>10. DetectorInv'
  BY <1>1, <1>2, <1>6, <1>7, <1>8, <1>9 DEF DetectorInv, Spoof!Followed
<1> QED
  BY <1>1, <1>8, <1>10 DEF Left

(* record_add of an order not followed: it is followed unless the cluster  *)
(* forgets all its orders, and no other order's share changes.             *)
LEMMA AddRecorded ==
  ASSUME DetectorInv, NEW id \in OrderIds, id \notin DOMAIN order_clusters,
         NEW p, NEW q \in Nat \ {0}, Spoof!record_add(id, p, q)
  PROVE  /\ DetectorInv'
         /\ \A x \in DOMAIN order_clusters' :
              IF x = id THEN order_clusters'[x] = Spoof!price_cluster(p) /\ Left(x)' = q
              ELSE /\ x \in DOMAIN order_clusters
                   /\ order_clusters'[x] = order_clusters[x] /\ Left(x)' = Left(x)
<1>1. PICK key, b, grown, old :
        /\ key = Spoof!price_cluster(p) /\ b = Spoof!ClusterAt(key)
        /\ grown = Grown(b, id, q)
        /\ old = DOMAIN b.orders
  OBVIOUS
<1>2. PICK c : c = Spoof!Evicted(grown)
  OBVIOUS
<1>3. /\ ClusterOK(b) /\ id \notin old
      /\ \A x \in old : x \in DOMAIN order_clusters /\ order_clusters[x] = key
      /\ \A x \in old : b.orders[x] = Left(x)
  BY <1>1, NewClusterOK DEF Spoof!ClusterAt, Spoof!NoCluster, DetectorInv, Left
<1>4. /\ ClusterOK(grown) /\ DOMAIN grown.orders = old \union {id} /\ grown.orders[id] = q
      /\ \A x \in old : grown.orders[x] = b.orders[x]
  <2>1. id \in OrderIds \ DOMAIN b.orders /\ ClusterOK(b)
    BY <1>1, <1>3
  <2>2. /\ ClusterOK(Grown(b, id, q))
        /\ DOMAIN Grown(b, id, q).orders = DOMAIN b.orders \union {id}
        /\ Grown(b, id, q).orders[id] = q
        /\ \A x \in DOMAIN b.orders : Grown(b, id, q).orders[x] = b.orders[x]
    BY <2>1, GrownOK
  <2>3. /\ ClusterOK(grown)
        /\ DOMAIN grown.orders = DOMAIN b.orders \union {id}
        /\ grown.orders[id] = q
        /\ \A x \in DOMAIN b.orders : grown.orders[x] = b.orders[x]
    BY <1>1, <2>2
  <2>4. old = DOMAIN b.orders
    BY <1>1
  <2> QED
    BY <2>3, <2>4
<1>5. /\ ClusterOK(c) /\ Spoof!Forgotten(grown) = DOMAIN grown.orders \ DOMAIN c.orders
      /\ DOMAIN c.orders \subseteq DOMAIN grown.orders
      /\ \A x \in DOMAIN c.orders : c.orders[x] = grown.orders[x]
  BY <1>2, <1>4, EvictedOK
<1>6. clusters' = Spoof!With(clusters, key, c)
  BY <1>1, <1>2 DEF Spoof!record_add, Grown
<1>7. order_clusters' = [x \in DOMAIN order_clusters' |->
                           IF x = id THEN key ELSE order_clusters[x]]
      /\ DOMAIN order_clusters' =
           (DOMAIN order_clusters \union {id}) \ (DOMAIN grown.orders \ DOMAIN c.orders)
  <2>1. order_clusters' = Spoof!Restrict(Spoof!With(order_clusters, id, key),
                            (DOMAIN order_clusters \union {id}) \ Spoof!Forgotten(grown))
    BY <1>1 DEF Spoof!record_add, Grown
  <2>2. PICK D : D = (DOMAIN order_clusters \union {id}) \ Spoof!Forgotten(grown)
    OBVIOUS
  <2>3. order_clusters' = [x \in D |-> IF x = id THEN key ELSE order_clusters[x]]
    BY <2>1, <2>2 DEF Spoof!Restrict, Spoof!With
  <2> QED
    BY <1>5, <2>2, <2>3
<1>8. IsFunction(order_clusters')
  BY <1>7 DEF IsFunction
<1>9. DOMAIN order_clusters' = (DOMAIN order_clusters \ old) \union DOMAIN c.orders
  BY <1>3, <1>4, <1>5, <1>7
<1>10. \A x \in DOMAIN c.orders : x \in old \/ x \notin DOMAIN order_clusters
  BY <1>4, <1>5
<1>11. \A x \in DOMAIN order_clusters' :
         order_clusters'[x] = IF x \in DOMAIN c.orders THEN key ELSE order_clusters[x]
  BY <1>3, <1>4, <1>5, <1>7, <1>9
<1>12. /\ DetectorInv'
       /\ \A x \in DOMAIN order_clusters' :
            Left(x)' = IF x \in DOMAIN c.orders THEN c.orders[x] ELSE Left(x)
  <2>1. old = DOMAIN Spoof!ClusterAt(key).orders
    BY <1>1
  <2> QED
    BY <1>5, <1>6, <1>8, <1>9, <1>10, <1>11, <2>1, ClusterSet
<1>13. ASSUME NEW x \in DOMAIN order_clusters'
       PROVE  IF x = id THEN order_clusters'[x] = key /\ Left(x)' = q
              ELSE /\ x \in DOMAIN order_clusters
                   /\ order_clusters'[x] = order_clusters[x] /\ Left(x)' = Left(x)
  <2>1. CASE x = id
    <3>1. x \in DOMAIN c.orders
      BY <1>9, <2>1
    <3> QED
      BY <1>4, <1>5, <1>11, <1>12, <2>1, <3>1
  <2>2. CASE x # id
    <3>1. x \in DOMAIN order_clusters /\ order_clusters'[x] = order_clusters[x]
      BY <1>7, <2>2
    <3>2. CASE x \in DOMAIN c.orders
      <4>1. x \in old /\ c.orders[x] = Left(x)
        BY <1>3, <1>4, <1>5, <2>2, <3>2
      <4> QED
        BY <1>12, <2>2, <3>1, <3>2, <4>1
    <3>3. CASE x \notin DOMAIN c.orders
      BY <1>12, <2>2, <3>1, <3>3
    <3> QED
      BY <3>2, <3>3
  <2> QED
    BY <2>1, <2>2
<1> QED
  BY <1>1, <1>12, <1>13

(* Shares of an order taken: record_execute and check_cancel.  The order   *)
(* is followed with the rest, or no longer, and no other's share changes.  *)
ShareTaken(id, q) ==
  \A x \in DOMAIN order_clusters' :
    /\ x \in DOMAIN order_clusters /\ order_clusters'[x] = order_clusters[x]
    /\ IF x = id THEN Left(x) # q /\ Left(x)' = Left(x) - q ELSE Left(x)' = Left(x)

LEMMA TakenFrom ==
  ASSUME DetectorInv, NEW id \in DOMAIN order_clusters, NEW q \in Nat \ {0}, q <= Left(id),
         NEW key, key = order_clusters[id], NEW c, ClusterOK(c),
         NEW l, l = Spoof!Lessened(clusters[key], id, q),
         DOMAIN c.orders \subseteq DOMAIN l.orders,
         \A x \in DOMAIN c.orders : c.orders[x] = l.orders[x],
         clusters' = [clusters EXCEPT ![key] = c],
         order_clusters' = Spoof!Restrict(order_clusters, DOMAIN order_clusters \
                             (DOMAIN clusters[key].orders \ DOMAIN c.orders))
  PROVE  DetectorInv' /\ ShareTaken(id, q)
<1>1. PICK b, old : b = clusters[key] /\ old = DOMAIN b.orders
  OBVIOUS
<1>2. /\ key \in DOMAIN clusters /\ ClusterOK(b) /\ id \in old
      /\ \A x \in old : x \in DOMAIN order_clusters /\ order_clusters[x] = key
      /\ \A x \in old : b.orders[x] = Left(x)
  BY <1>1 DEF DetectorInv, Spoof!Followed, Left
<1>3. /\ DOMAIN l.orders = IF q = b.orders[id] THEN old \ {id} ELSE old
      /\ q # b.orders[id] => l.orders[id] = b.orders[id] - q
      /\ \A x \in old \ {id} : l.orders[x] = b.orders[x]
  <2>1. l = Spoof!Lessened(b, id, q) /\ id \in DOMAIN b.orders /\ q <= b.orders[id]
    BY <1>1, <1>2
  <2>2. IsLessened(Spoof!Lessened(b, id, q), b, id, q)
    BY <1>2, <2>1, LessenedOK
  <2>3. old = DOMAIN b.orders
    BY <1>1
  <2> QED
    BY <2>1, <2>2, <2>3 DEF IsLessened
<1>4. DOMAIN c.orders \subseteq old
  BY <1>3
<1>5. clusters' = Spoof!With(clusters, key, c)
  <2>1. clusters = [y \in DOMAIN clusters |-> clusters[y]] /\ DOMAIN clusters \union {key} = DOMAIN clusters
    BY <1>2 DEF DetectorInv, IsFunction
  <2> QED
    BY <2>1 DEF Spoof!With
<1>6. /\ DOMAIN order_clusters' = DOMAIN order_clusters \ (old \ DOMAIN c.orders)
      /\ order_clusters' = [x \in DOMAIN order_clusters' |-> order_clusters[x]]
  <2>1. PICK D : D = DOMAIN order_clusters \ (DOMAIN clusters[key].orders \ DOMAIN c.orders)
    OBVIOUS
  <2>2. order_clusters' = [x \in D |-> order_clusters[x]]
    BY <2>1 DEF Spoof!Restrict
  <2> QED
    BY <1>1, <2>1, <2>2
<1>7. /\ DetectorInv'
      /\ \A x \in DOMAIN order_clusters' :
           Left(x)' = IF x \in DOMAIN c.orders THEN c.orders[x] ELSE Left(x)
  <2>1. old = DOMAIN Spoof!ClusterAt(key).orders
    BY <1>1, <1>2 DEF Spoof!ClusterAt
  <2>2. IsFunction(order_clusters')
    BY <1>6 DEF IsFunction
  <2>3. DOMAIN order_clusters' = (DOMAIN order_clusters \ old) \union DOMAIN c.orders
    BY <1>2, <1>4, <1>6
  <2>4. \A x \in DOMAIN c.orders : x \in old \/ x \notin DOMAIN order_clusters
    BY <1>4
  <2>5. \A x \in DOMAIN order_clusters' :
          order_clusters'[x] = IF x \in DOMAIN c.orders THEN key ELSE order_clusters[x]
    BY <1>2, <1>4, <1>6
  <2> QED
    BY <1>5, <2>1, <2>2, <2>3, <2>4, <2>5, ClusterSet, SMTT(30)
<1>8. ShareTaken(id, q)
  <2> SUFFICES ASSUME NEW x \in DOMAIN order_clusters'
               PROVE  /\ x \in DOMAIN order_clusters /\ order_clusters'[x] = order_clusters[x]
                      /\ IF x = id THEN Left(x) # q /\ Left(x)' = Left(x) - q
                                   ELSE Left(x)' = Left(x)
    BY DEF ShareTaken
  <2>1. x \in DOMAIN order_clusters /\ order_clusters'[x] = order_clusters[x]
    BY <1>6
  <2>2. CASE x \in DOMAIN c.orders
    <3>1. Left(x)' = l.orders[x] /\ x \in old /\ b.orders[x] = Left(x)
      BY <1>2, <1>4, <1>7, <2>2
    <3>2. CASE x = id
      <4>1. q # b.orders[id]
        BY <1>3, <2>2, <3>2
      <4> QED
        BY <1>3, <2>1, <3>1, <3>2, <4>1
    <3>3. CASE x # id
      BY <1>3, <2>1, <3>1, <3>3
    <3> QED
      BY <3>2, <3>3
  <2>3. CASE x \notin DOMAIN c.orders
    <3>1. Left(x)' = Left(x) /\ x \notin old
      BY <1>6, <1>7, <2>3
    <3> QED
      BY <1>2, <2>1, <3>1
  <2> QED
    BY <2>2, <2>3
<1> QED
  BY <1>7, <1>8

LEMMA ExecuteRecorded ==
  ASSUME DetectorInv, NEW id, NEW q \in Nat \ {0}, id \in DOMAIN order_clusters => q <= Left(id),
         Spoof!record_execute(id, q)
  PROVE  DetectorInv' /\ ShareTaken(id, q)
<1>1. CASE id \notin DOMAIN order_clusters
  <2>1. clusters' = clusters /\ order_clusters' = Spoof!Restrict(order_clusters, DOMAIN order_clusters \ {id})
    BY <1>1 DEF Spoof!record_execute, Spoof!Followed, Spoof!Without
  <2>2. order_clusters' = order_clusters
    BY <1>1, <2>1 DEF Spoof!Restrict, DetectorInv, IsFunction
  <2> QED
    BY <1>1, <2>1, <2>2 DEF DetectorInv, Spoof!Followed, ShareTaken, Left
<1>2. CASE id \in DOMAIN order_clusters
  <2>1. PICK key, b, l : /\ key = order_clusters[id] /\ b = clusters[key]
                         /\ l = Spoof!Lessened(clusters[key], id, q)
    OBVIOUS
  <2>2. Spoof!Followed(id) /\ ClusterOK(b) /\ id \in DOMAIN b.orders /\ b.orders[id] = Left(id)
        /\ key \in DOMAIN clusters
    BY <1>2, <2>1 DEF DetectorInv, Spoof!Followed, Left
  <2>3. Spoof!Applied(id, q) = q
    BY <1>2 DEF Spoof!Applied, Left
  <2>4. /\ ClusterOK(l)
        /\ DOMAIN l.orders = IF q = b.orders[id] THEN DOMAIN b.orders \ {id} ELSE DOMAIN b.orders
    <3>1. l = Spoof!Lessened(b, id, q) /\ q <= b.orders[id]
      BY <1>2, <2>1, <2>2
    <3>2. IsLessened(Spoof!Lessened(b, id, q), b, id, q)
      BY <2>2, <3>1, LessenedOK
    <3> QED
      BY <3>1, <3>2 DEF IsLessened
  <2>5. /\ clusters' = [clusters EXCEPT ![key] = l]
        /\ order_clusters' = IF id \in DOMAIN l.orders THEN order_clusters
                             ELSE Spoof!Restrict(order_clusters, DOMAIN order_clusters \ {id})
    BY <2>1, <2>2, <2>3 DEF Spoof!record_execute, Spoof!Without
  <2>6. order_clusters' = Spoof!Restrict(order_clusters, DOMAIN order_clusters \
                            (DOMAIN clusters[key].orders \ DOMAIN l.orders))
    <3>1. CASE id \in DOMAIN l.orders
      <4>1. DOMAIN clusters[key].orders \ DOMAIN l.orders = {}
        BY <2>1, <2>2, <2>4, <3>1
      <4> QED
        BY <2>5, <3>1, <4>1 DEF Spoof!Restrict, DetectorInv, IsFunction
    <3>2. CASE id \notin DOMAIN l.orders
      <4>1. DOMAIN clusters[key].orders \ DOMAIN l.orders = {id}
        BY <2>1, <2>2, <2>4, <3>2
      <4> QED
        BY <2>5, <3>2, <4>1
    <3> QED
      BY <3>1, <3>2
  <2>7. q <= Left(id)
    BY <1>2
  <2> QED
    BY <1>2, <2>1, <2>4, <2>5, <2>6, <2>7, TakenFrom
<1> QED
  BY <1>1, <1>2

LEMMA CancelChecked ==
  ASSUME DetectorInv, NEW id, NEW q \in Nat \ {0}, id \in DOMAIN order_clusters => q <= Left(id),
         Spoof!check_cancel(id, q)
  PROVE  /\ DetectorInv' /\ ShareTaken(id, q)
         /\ Spoof!Alert(id, q).quantity \in Nat
         /\ Spoof!Alert(id, q).is_suspected_spoof => Spoof!Alert(id, q).quantity > 0
<1>1. CASE id \notin DOMAIN order_clusters
  <2>1. UNCHANGED <<clusters, order_clusters>>
    BY <1>1 DEF Spoof!check_cancel, Spoof!Followed, Spoof!spoofVars
  <2>2. Spoof!Alert(id, q) = [quantity |-> 0, is_suspected_spoof |-> FALSE]
    BY <1>1 DEF Spoof!Alert, Spoof!Followed
  <2> QED
    BY <1>1, <2>1, <2>2 DEF DetectorInv, Spoof!Followed, ShareTaken, Left
<1>2. CASE id \in DOMAIN order_clusters
  <2>1. PICK key, b, l, after, c :
          /\ key = order_clusters[id] /\ b = clusters[key]
          /\ l = Spoof!Lessened(clusters[key], id, q)
          /\ after = Charged(l, q)
          /\ c = Spoof!Evicted(after)
    OBVIOUS
  <2>2. Spoof!Followed(id) /\ ClusterOK(b) /\ id \in DOMAIN b.orders /\ b.orders[id] = Left(id)
        /\ key \in DOMAIN clusters
    BY <1>2, <2>1 DEF DetectorInv, Spoof!Followed, Left
  <2>3. Spoof!Applied(id, q) = q
    BY <1>2 DEF Spoof!Applied, Left
  <2>4. /\ ClusterOK(l) /\ ClusterOK(after)
        /\ DOMAIN l.orders = IF q = b.orders[id] THEN DOMAIN b.orders \ {id} ELSE DOMAIN b.orders
        /\ after.orders = l.orders
    <3>1. l = Spoof!Lessened(b, id, q) /\ q <= b.orders[id]
      BY <1>2, <2>1, <2>2
    <3>2. IsLessened(Spoof!Lessened(b, id, q), b, id, q)
      BY <2>2, <3>1, LessenedOK
    <3> QED
      BY <2>1, <3>1, <3>2 DEF IsLessened
  <2>6. Spoof!Cancelled(id, q) = after
    BY <2>1, <2>3 DEF Spoof!Cancelled, Charged
  <2>7. /\ ClusterOK(c) /\ Spoof!Forgotten(after) = DOMAIN after.orders \ DOMAIN c.orders
        /\ DOMAIN c.orders \subseteq DOMAIN after.orders
        /\ \A x \in DOMAIN c.orders : c.orders[x] = after.orders[x]
    <3>1. /\ ClusterOK(Spoof!Evicted(after))
          /\ Spoof!Forgotten(after) = DOMAIN after.orders \ DOMAIN Spoof!Evicted(after).orders
          /\ DOMAIN Spoof!Evicted(after).orders \subseteq DOMAIN after.orders
          /\ \A x \in DOMAIN Spoof!Evicted(after).orders :
               Spoof!Evicted(after).orders[x] = after.orders[x]
      BY <2>4, EvictedOK
    <3> QED
      BY <2>1, <3>1
  <2>8. /\ clusters' = [clusters EXCEPT ![key] = c]
        /\ order_clusters' = Spoof!Restrict(order_clusters, DOMAIN order_clusters \
                               (Spoof!Forgotten(after) \union ({id} \ DOMAIN after.orders)))
    BY <2>1, <2>2, <2>6 DEF Spoof!check_cancel
  <2>9. Spoof!Forgotten(after) \union ({id} \ DOMAIN after.orders)
          = DOMAIN clusters[key].orders \ DOMAIN c.orders
    BY <2>1, <2>2, <2>4, <2>7
  <2>10. DetectorInv' /\ ShareTaken(id, q)
    <3>1. /\ DOMAIN c.orders \subseteq DOMAIN l.orders
          /\ \A x \in DOMAIN c.orders : c.orders[x] = l.orders[x]
      BY <2>4, <2>7
    <3>2. order_clusters' = Spoof!Restrict(order_clusters, DOMAIN order_clusters \
                              (DOMAIN clusters[key].orders \ DOMAIN c.orders))
      BY <2>8, <2>9
    <3>3. q <= Left(id)
      BY <1>2
    <3>4. key = order_clusters[id] /\ l = Spoof!Lessened(clusters[key], id, q)
      BY <2>1
    <3>5. ClusterOK(c) /\ clusters' = [clusters EXCEPT ![key] = c]
      BY <2>7, <2>8
    <3> QED
      BY <1>2, <3>1, <3>2, <3>3, <3>4, <3>5, TakenFrom
  <2>11. Spoof!Alert(id, q).quantity = q
    BY <2>2, <2>3 DEF Spoof!Alert
  <2> QED
    BY <2>10, <2>11
<1> QED
  BY <1>1, <1>2

-----------------------------------------------------------------------------
(* The book, the detector and the lifetimes agree. *)

(* An order the detector follows stands in the book, with a price of its   *)
(* cluster and as many shares as the detector believes.                    *)
FollowedStand ==
  \A id \in DOMAIN order_clusters :
    \E s, p, i : /\ StandsAt(id, s, p, i)
                 /\ order_clusters[id] = Spoof!price_cluster(p)
                 /\ Left(id) = queues[s][p][i].quantity

Registers == BookInv /\ DetectorInv /\ FollowedStand /\ add_timestamps = Live

LEMMA RegistersAgree == Registers => TrackersFollowBook
<1> SUFFICES ASSUME Registers PROVE TrackersFollowBook
  OBVIOUS
<1>1. ASSUME NEW id \in DOMAIN order_clusters
      PROVE  /\ Spoof!Followed(id)
             /\ id \in Live
             /\ order_clusters[id] = Spoof!price_cluster(Book!Place(id).p)
             /\ clusters[order_clusters[id]].orders[id] = Book!OrderOf(id).quantity
  <2>1. PICK s, p, i : /\ StandsAt(id, s, p, i)
                       /\ order_clusters[id] = Spoof!price_cluster(p)
                       /\ Left(id) = queues[s][p][i].quantity
    BY DEF Registers, FollowedStand
  <2>2. /\ id \in Live
        /\ Book!Place(id).s = s /\ Book!Place(id).p = p /\ Book!Place(id).i = i
        /\ Book!OrderOf(id) = queues[s][p][i]
        /\ queues[s][p][i] \in Orders
    BY <2>1, OnePlace DEF Registers
  <2> QED
    BY <2>1, <2>2 DEF Registers, DetectorInv, Left
<1>2. \A key \in DOMAIN clusters : \A id \in DOMAIN clusters[key].orders :
        id \in DOMAIN order_clusters /\ order_clusters[id] = key
  BY DEF Registers, DetectorInv
<1> QED
  BY <1>1, <1>2 DEF Registers, TrackersFollowBook

LEMMA ClustersCovered == Registers => CancelsCoveredByAdds
<1> SUFFICES ASSUME Registers, NEW key \in DOMAIN clusters
             PROVE  clusters[key].total_cancel_volume + Outstanding(key)
                      <= clusters[key].total_add_volume
  BY DEF CancelsCoveredByAdds
<1>1. ClusterOK(clusters[key])
  BY DEF Registers, DetectorInv
<1>2. Outstanding(key) = Waiting(clusters[key].orders)
  BY DEF Outstanding, Waiting
<1> QED
  BY <1>1, <1>2 DEF ClusterOK

LEMMA RegistersKept ==
  ASSUME Registers, UNCHANGED <<queues, spoofVars, add_timestamps>>, running' \in BOOLEAN
  PROVE  Registers'
<1>1. /\ BookInv' /\ Live' = Live
      /\ \A id, s, p, i : StandsAt(id, s, p, i)' <=> StandsAt(id, s, p, i)
      /\ \A s, p : queues'[s][p] = queues[s][p]
  BY BookKept DEF Registers
<1>2. DetectorInv'
  BY DEF Registers, DetectorInv, Spoof!Followed, spoofVars
<1>3. FollowedStand'
  BY <1>1 DEF Registers, FollowedStand, Left, spoofVars
<1> QED
  BY <1>1, <1>2, <1>3 DEF Registers

LEMMA RegistersAdd ==
  ASSUME Registers, NEW id \in OrderIds, NEW s \in Sides, NEW p \in Prices, NEW q \in Quantities,
         Book!AddOrder(id, s, p, q), running', result'.added,
         Spoof!record_add(id, p, q), add_timestamps' = add_timestamps \union {id}
  PROVE  Registers'
<1>1. /\ BookInv'
      /\ id \notin Live /\ q \in Nat \ {0} /\ Book!ValidPrice(p)
      /\ \E i : StandsAt(id, s, p, i)' /\ queues'[s][p][i] = [id |-> id, quantity |-> q]
      /\ \A x, t, y, i : StandsAt(x, t, y, i) => /\ StandsAt(x, t, y, i)'
                                               /\ queues'[t][y][i] = queues[t][y][i]
      /\ Live' = Live \union {id}
  BY BookAdded DEF Registers
<1>2. id \notin DOMAIN order_clusters
  BY <1>1, RegistersAgree DEF TrackersFollowBook
<1>3. /\ DetectorInv'
      /\ \A x \in DOMAIN order_clusters' :
           IF x = id THEN order_clusters'[x] = Spoof!price_cluster(p) /\ Left(x)' = q
           ELSE /\ x \in DOMAIN order_clusters
                /\ order_clusters'[x] = order_clusters[x] /\ Left(x)' = Left(x)
  BY <1>1, <1>2, AddRecorded DEF Registers
<1>4. ASSUME NEW x \in DOMAIN order_clusters'
      PROVE  \E t, y, i : /\ StandsAt(x, t, y, i)'
                          /\ order_clusters'[x] = Spoof!price_cluster(y)
                          /\ Left(x)' = queues'[t][y][i].quantity
  <2>1. CASE x = id
    <3>1. PICK i : StandsAt(id, s, p, i)' /\ queues'[s][p][i] = [id |-> id, quantity |-> q]
      BY <1>1
    <3>2. Left(x)' = queues'[s][p][i].quantity
      BY <1>3, <2>1, <3>1
    <3>3. StandsAt(x, s, p, i)'
      BY <2>1, <3>1
    <3> QED
      BY <1>3, <2>1, <3>2, <3>3
  <2>2. CASE x # id
    <3>1. x \in DOMAIN order_clusters /\ order_clusters'[x] = order_clusters[x]
          /\ Left(x)' = Left(x)
      BY <1>3, <2>2
    <3>2. PICK t, y, i : /\ StandsAt(x, t, y, i)
                         /\ order_clusters[x] = Spoof!price_cluster(y)
                         /\ Left(x) = queues[t][y][i].quantity
      BY <3>1 DEF Registers, FollowedStand
    <3>3. StandsAt(x, t, y, i)' /\ queues'[t][y][i] = queues[t][y][i]
      BY <1>1, <3>2
    <3> QED
      BY <3>1, <3>2, <3>3
  <2> QED
    BY <2>1, <2>2
<1>5. FollowedStand'
  BY <1>4 DEF FollowedStand, Spoof!price_cluster
<1> QED
  BY <1>1, <1>3, <1>5 DEF Registers

(* A cancel or an execution takes q shares of the order that stands at     *)
(* place k, and removes it with the last of them.                          *)
Takes(id, q, removed) ==
  /\ q \in Nat \ {0} /\ removed \in BOOLEAN
  /\ \E s, p, k : /\ StandsAt(id, s, p, k)
                  /\ q <= queues[s][p][k].quantity
                  /\ removed <=> q = queues[s][p][k].quantity
  /\ Book!Reduce(id, q)
  /\ running' = running

LEMMA TakenInReach ==
  ASSUME Registers, NEW id, NEW q, NEW removed, Takes(id, q, removed)
  PROVE  q \in Nat \ {0} /\ (id \in DOMAIN order_clusters => q <= Left(id))
<1>1. PICK s, p, k : StandsAt(id, s, p, k) /\ q <= queues[s][p][k].quantity
  BY DEF Takes
<1>2. ASSUME id \in DOMAIN order_clusters PROVE q <= Left(id)
  <2>1. PICK t, y, i : StandsAt(id, t, y, i) /\ Left(id) = queues[t][y][i].quantity
    BY <1>2 DEF Registers, FollowedStand
  <2>2. t = s /\ y = p /\ i = k
    BY <1>1, <2>1 DEF StandsAt, Registers, BookInv, IdsUnique
  <2> QED
    BY <1>1, <2>1, <2>2
<1> QED
  BY <1>2 DEF Takes

LEMMA RegistersTake ==
  ASSUME Registers, NEW id, NEW q, NEW removed, Takes(id, q, removed),
         DetectorInv', ShareTaken(id, q),
         add_timestamps' = IF removed THEN add_timestamps \ {id} ELSE add_timestamps
  PROVE  Registers'
<1>1. PICK s, p, k : /\ StandsAt(id, s, p, k)
                     /\ q <= queues[s][p][k].quantity
                     /\ removed <=> q = queues[s][p][k].quantity
  BY DEF Takes
<1>2. PICK rest : rest = queues[s][p][k].quantity - q
  OBVIOUS
<1>3. /\ BookInv'
      /\ rest \in Nat
      /\ \A x, t, y, i : StandsAt(x, t, y, i) /\ x # id =>
           \E j : StandsAt(x, t, y, j)' /\ queues'[t][y][j] = queues[t][y][i]
      /\ rest = 0 => Live' = Live \ {id}
      /\ rest # 0 => /\ Live' = Live
                    /\ \E j : StandsAt(id, s, p, j)' /\ queues'[s][p][j].quantity = rest
  <2>1. BookInv /\ q \in Nat \ {0} /\ Book!Reduce(id, q) /\ running' = running
    BY DEF Registers, Takes
  <2> QED
    BY <1>1, <1>2, <2>1, BookReduced
<1>4. queues[s][p][k].quantity \in Nat /\ q \in Nat
  <2>1. queues[s][p][k] \in Orders
    BY <1>1, OnePlace DEF Registers
  <2> QED
    BY <2>1 DEF Orders, Takes
<1>5. removed <=> rest = 0
  BY <1>1, <1>2, <1>4
<1>6. ASSUME NEW x \in DOMAIN order_clusters'
      PROVE  \E t, y, i : /\ StandsAt(x, t, y, i)'
                          /\ order_clusters'[x] = Spoof!price_cluster(y)
                          /\ Left(x)' = queues'[t][y][i].quantity
  <2>1. /\ x \in DOMAIN order_clusters /\ order_clusters'[x] = order_clusters[x]
        /\ IF x = id THEN Left(x) # q /\ Left(x)' = Left(x) - q ELSE Left(x)' = Left(x)
    BY DEF ShareTaken
  <2>2. PICK t, y, i : /\ StandsAt(x, t, y, i)
                       /\ order_clusters[x] = Spoof!price_cluster(y)
                       /\ Left(x) = queues[t][y][i].quantity
    BY <2>1 DEF Registers, FollowedStand
  <2>3. CASE x = id
    <3>1. t = s /\ y = p /\ i = k
      BY <1>1, <2>2, <2>3 DEF StandsAt, Registers, BookInv, IdsUnique
    <3>2. rest # 0 /\ Left(x)' = rest
      BY <1>2, <1>4, <2>1, <2>2, <2>3, <3>1
    <3>3. PICK j : StandsAt(id, s, p, j)' /\ queues'[s][p][j].quantity = rest
      BY <1>3, <3>2
    <3>4. StandsAt(x, t, y, j)'
      BY <2>3, <3>1, <3>3
    <3> QED
      BY <2>1, <2>2, <3>1, <3>2, <3>3, <3>4
  <2>4. CASE x # id
    <3>1. PICK j : StandsAt(x, t, y, j)' /\ queues'[t][y][j] = queues[t][y][i]
      BY <1>3, <2>2, <2>4
    <3> QED
      BY <2>1, <2>2, <2>4, <3>1
  <2> QED
    BY <2>3, <2>4
<1>7. FollowedStand'
  BY <1>6 DEF FollowedStand, Spoof!price_cluster
<1>8. add_timestamps' = Live'
  BY <1>3, <1>5 DEF Registers
<1> QED
  BY <1>3, <1>7, <1>8 DEF Registers

(* What the answers of cancel_order and execute_order mean. *)
LEMMA CancelTakes ==
  ASSUME BookInv, NEW id, NEW q \in Quantities, Book!CancelOrder(id, q)
  PROVE  result'.found /\ Takes(id, result'.affected_quantity, result'.order_removed)
<1>1. PICK left, taken, w :
        /\ left = Book!OrderOf(id).quantity
        /\ taken = IF q = 0 THEN left ELSE Book!Lesser(q, left)
        /\ w = Book!Place(id)
  OBVIOUS
<1>2. /\ id \in Live /\ running' = running
      /\ result' = [call |-> "cancel", found |-> TRUE, order_removed |-> (taken = left),
                    affected_quantity |-> taken]
      /\ Book!Reduce(id, taken)
  BY <1>1, LiveStands DEF Book!CancelOrder, Book!Answer, BookInv
<1>3. StandsAt(id, w.s, w.p, w.i) /\ left = queues[w.s][w.p][w.i].quantity /\ left \in Nat \ {0}
  BY <1>1, <1>2, PlaceStands DEF BookInv, Orders
<1>4. taken \in Nat \ {0} /\ taken <= left
  BY <1>1, <1>3, EngineAssumption DEF Book!Lesser
<1>5. Takes(id, taken, taken = left)
  BY <1>2, <1>3, <1>4 DEF Takes
<1> QED
  BY <1>2, <1>5

LEMMA ExecuteTakes ==
  ASSUME BookInv, NEW id, NEW q \in Quantities, Book!ExecuteOrder(id, q)
  PROVE  /\ id \in Live
         /\ IF result'.affected_quantity = 0 THEN UNCHANGED <<queues, running>>
            ELSE Takes(id, result'.affected_quantity, result'.order_removed)
<1>1. PICK left, taken, w :
        /\ left = Book!OrderOf(id).quantity
        /\ taken = Book!Lesser(q, left)
        /\ w = Book!Place(id)
  OBVIOUS
<1>2. /\ id \in Live /\ running' = running
      /\ result' = [call |-> "execute", found |-> TRUE, order_removed |-> (taken = left),
                    affected_quantity |-> taken]
      /\ IF taken = 0 THEN UNCHANGED queues ELSE Book!Reduce(id, taken)
  BY <1>1, LiveStands DEF Book!ExecuteOrder, Book!Answer, BookInv
<1>3. StandsAt(id, w.s, w.p, w.i) /\ left = queues[w.s][w.p][w.i].quantity /\ left \in Nat \ {0}
  BY <1>1, <1>2, PlaceStands DEF BookInv, Orders
<1>4. taken \in Nat /\ taken <= left
  BY <1>1, <1>3, EngineAssumption DEF Book!Lesser
<1>5. taken # 0 => Takes(id, taken, taken = left)
  BY <1>2, <1>3, <1>4 DEF Takes
<1> QED
  BY <1>2, <1>5

-----------------------------------------------------------------------------
(* The windows. *)

Entries == [quantity : Nat, aggressor : Sides]

WindowOK(w) ==
  /\ w \in [alerts : Nat, cancels : Nat, signals : Seq(Nat), executions : Seq(Entries)]
  /\ w.alerts <= w.cancels
  /\ Len(w.signals) <= w.cancels
  /\ w.alerts > 0 => Len(w.signals) > 0

(* No more executions than turns since the last snapshot was due, and of   *)
(* them in the window what it can hold.                                    *)
Turns ==
  /\ total_ticks \in Nat
  /\ happened \in Seq(Entries)
  /\ Len(happened) <= total_ticks % EveryN
  /\ WindowOK(window)
  /\ \A snap \in published : WindowOK(snap.window)
  /\ window.executions = FirstOf(happened)
  /\ \A snap \in published : snap.window.executions = FirstOf(reported)

LEMMA TurnCount ==
  ASSUME NEW t \in Nat, NEW n \in Nat \ {0}
  PROVE  /\ t % n \in Nat /\ t % n < n
         /\ (t + 1) % n # 0 => (t + 1) % n = (t % n) + 1
<1>1. PICK d, r : d = t \div n /\ r = t % n
  OBVIOUS
<1>2. d \in Nat /\ r \in 0 .. n - 1 /\ t = n * d + r
  BY <1>1
<1>3. CASE r + 1 < n
  <2>1. t + 1 = n * d + (r + 1) /\ r + 1 \in 0 .. n - 1
    BY <1>2, <1>3
  <2>2. (t + 1) % n = r + 1
    BY <1>2, <2>1, SMTT(30)
  <2> QED
    BY <1>1, <1>2, <2>2
<1>4. CASE r + 1 = n
  <2>1. t + 1 = n * (d + 1) + 0
    BY <1>2, <1>4
  <2>2. (t + 1) % n = 0
    BY <1>2, <2>1, SMTT(30)
  <2> QED
    BY <1>1, <1>2, <2>2
<1> QED
  BY <1>2, <1>3, <1>4

LEMMA AppendCappedFacts ==
  ASSUME NEW S, NEW seq \in Seq(S), NEW entry \in S
  PROVE  /\ AppendCapped(seq, entry) \in Seq(S)
         /\ Len(AppendCapped(seq, entry)) <= Len(seq) + 1
         /\ Len(AppendCapped(seq, entry)) > 0
<1>1. /\ Append(seq, entry) \in Seq(S) /\ Len(Append(seq, entry)) = Len(seq) + 1
      /\ Len(seq) \in Nat
  OBVIOUS
<1> QED
  BY <1>1, EngineAssumption DEF AppendCapped

(* Appending to what is kept of a sequence keeps what is kept of it with   *)
(* the entry appended.                                                     *)
LEMMA FirstOfAppend ==
  ASSUME NEW S, NEW seq \in Seq(S), NEW entry \in S
  PROVE  AppendCapped(FirstOf(seq), entry) = FirstOf(Append(seq, entry))
<1>1. PICK longer : longer = Append(seq, entry)
  OBVIOUS
<1>2. /\ longer \in Seq(S) /\ Len(longer) = Len(seq) + 1 /\ Len(seq) \in Nat
      /\ WindowCap \in Nat \ {0}
      /\ \A i \in 1 .. Len(seq) : longer[i] = seq[i]
  BY <1>1, EngineAssumption
<1>3. CASE Len(seq) < WindowCap
  BY <1>1, <1>2, <1>3 DEF AppendCapped, FirstOf
<1>4. CASE Len(seq) = WindowCap
  <2>1. AppendCapped(FirstOf(seq), entry) = seq
    BY <1>2, <1>4 DEF AppendCapped, FirstOf
  <2>2. FirstOf(longer) = SubSeq(longer, 1, WindowCap)
    BY <1>2, <1>4 DEF FirstOf
  <2>3. SubSeq(longer, 1, WindowCap) = seq
    BY <1>2, <1>4
  <2> QED
    BY <1>1, <2>1, <2>2, <2>3
<1>5. CASE Len(seq) > WindowCap
  <2>1. FirstOf(seq) = SubSeq(seq, 1, WindowCap) /\ FirstOf(longer) = SubSeq(longer, 1, WindowCap)
    BY <1>2, <1>5 DEF FirstOf
  <2>2. SubSeq(longer, 1, WindowCap) = SubSeq(seq, 1, WindowCap)
    BY <1>2, <1>5
  <2>3. Len(SubSeq(seq, 1, WindowCap)) = WindowCap
    BY <1>2, <1>5
  <2>4. AppendCapped(FirstOf(seq), entry) = FirstOf(seq)
    BY <1>2, <2>1, <2>3 DEF AppendCapped
  <2> QED
    BY <1>1, <2>1, <2>2, <2>4
<1> QED
  BY <1>2, <1>3, <1>4, <1>5

LEMMA FirstOfNone == FirstOf(<< >>) = << >>
BY EngineAssumption DEF FirstOf

LEMMA TurnEnds ==
  ASSUME Turns, NEW w, WindowOK(w), NEW e \in Seq(Entries),
         Len(e) <= (total_ticks % EveryN) + 1,
         w.executions = FirstOf(e),
         EndTurn(w, e)
  PROVE  Turns'
<1>1. total_ticks \in Nat /\ total_ticks' = total_ticks + 1 /\ EveryN \in Nat \ {0}
  BY EngineAssumption DEF EndTurn, Turns
<1>2. CASE total_ticks' % EveryN = 0
  <2>1. \A snap \in published' : snap.window = w
    BY <1>2 DEF EndTurn
  <2>2. reported' = e /\ window' = EmptyWindow /\ happened' = << >>
    BY <1>2 DEF EndTurn, Cleared
  <2>3. WindowOK(EmptyWindow) /\ EmptyWindow.executions = << >>
    BY DEF WindowOK, EmptyWindow
  <2>4. << >> \in Seq(Entries) /\ Len(<< >>) = 0
    OBVIOUS
  <2>5. total_ticks' \in Nat
    BY <1>1
  <2> QED
    <3>1. /\ happened' \in Seq(Entries) /\ Len(happened') <= total_ticks' % EveryN
          /\ WindowOK(window') /\ \A snap \in published' : WindowOK(snap.window)
      BY <1>2, <2>1, <2>2, <2>3, <2>4
    <3>2. /\ window'.executions = FirstOf(happened')
          /\ \A snap \in published' : snap.window.executions = FirstOf(reported')
      BY <2>1, <2>2, <2>3, FirstOfNone
    <3> QED
      BY <2>5, <3>1, <3>2 DEF Turns, FirstOf
<1>3. CASE total_ticks' % EveryN # 0
  <2>1. window' = w /\ happened' = e /\ published' = {}
    BY <1>3 DEF EndTurn
  <2>2. total_ticks' % EveryN = (total_ticks % EveryN) + 1
    BY <1>1, <1>3, TurnCount
  <2>3. total_ticks' \in Nat
    BY <1>1
  <2> QED
    BY <2>1, <2>2, <2>3 DEF Turns, FirstOf
<1> QED
  BY <1>2, <1>3

LEMMA TurnIgnored == ASSUME Turns, Ignore PROVE Turns'
<1>1. /\ WindowOK(window) /\ happened \in Seq(Entries)
      /\ window.executions = FirstOf(happened)
  BY DEF Turns
<1>2. Len(happened) <= (total_ticks % EveryN) + 1
  <2>1. total_ticks % EveryN \in Nat /\ Len(happened) \in Nat
    BY TurnCount, EngineAssumption DEF Turns
  <2> QED
    BY <2>1 DEF Turns
<1>3. EndTurn(window, happened)
  BY DEF Ignore
<1> QED
  BY <1>1, <1>2, <1>3, TurnEnds

LEMMA TurnAborted == ASSUME Turns, Abort PROVE Turns'
BY DEF Turns, Abort, FirstOf

(* An execution is appended to the window while there is room. *)
LEMMA ExecutionPrinted ==
  ASSUME Turns, NEW q \in Nat, NEW aggressor \in Sides, PrintExecution(q, aggressor)
  PROVE  Turns'
<1>1. PICK entry : entry = [quantity |-> q, aggressor |-> aggressor]
  OBVIOUS
<1>2. entry \in Entries
  BY <1>1 DEF Entries
<1>3. PICK x, e, w : /\ x = AppendCapped(window.executions, entry)
                     /\ e = Append(happened, entry)
                     /\ w = [window EXCEPT !.executions = x]
  OBVIOUS
<1>4. EndTurn(w, e)
  BY <1>1, <1>3 DEF PrintExecution
<1>5. /\ window \in [alerts : Nat, cancels : Nat, signals : Seq(Nat), executions : Seq(Entries)]
      /\ window.executions \in Seq(Entries)
  BY DEF Turns, WindowOK
<1>6. x \in Seq(Entries)
  BY <1>2, <1>3, <1>5, AppendCappedFacts
<1>7. WindowOK(w) /\ w.executions = x
  BY <1>3, <1>5, <1>6 DEF Turns, WindowOK
<1>8. e \in Seq(Entries) /\ Len(e) = Len(happened) + 1 /\ Len(happened) \in Nat
  BY <1>2, <1>3 DEF Turns
<1>9. total_ticks % EveryN \in Nat /\ total_ticks % EveryN < EveryN
  BY TurnCount, EngineAssumption DEF Turns
<1>10. Len(e) <= (total_ticks % EveryN) + 1
  BY <1>8, <1>9 DEF Turns
<1>11. w.executions = FirstOf(e)
  <2>1. window.executions = FirstOf(happened) /\ happened \in Seq(Entries)
    BY DEF Turns
  <2>2. AppendCapped(FirstOf(happened), entry) = FirstOf(Append(happened, entry))
    BY <1>2, <2>1, FirstOfAppend
  <2> QED
    BY <1>3, <1>7, <2>1, <2>2
<1> QED
  BY <1>4, <1>7, <1>8, <1>10, <1>11, TurnEnds

(* A cancel is counted, and listed when it was scored. *)
LEMMA CancelListed ==
  ASSUME Turns, NEW alert, alert.quantity \in Nat,
         alert.is_suspected_spoof => alert.quantity > 0,
         NEW signals, signals = IF alert.quantity > 0
                                THEN AppendCapped(window.signals, alert.quantity)
                                ELSE window.signals,
         EndTurn([window EXCEPT !.alerts = IF alert.is_suspected_spoof THEN @ + 1 ELSE @,
                                !.cancels = @ + 1,
                                !.signals = signals], happened)
  PROVE  Turns'
<1>1. PICK a, c, s, x : /\ a = window.alerts /\ c = window.cancels
                        /\ s = window.signals /\ x = window.executions
  OBVIOUS
<1>2. PICK b : b = IF alert.is_suspected_spoof THEN a + 1 ELSE a
  OBVIOUS
<1>3. PICK w : w = [window EXCEPT !.alerts = b, !.cancels = c + 1, !.signals = signals]
  OBVIOUS
<1>4. window = [alerts |-> a, cancels |-> c, signals |-> s, executions |-> x]
      /\ a \in Nat /\ c \in Nat /\ s \in Seq(Nat) /\ x \in Seq(Entries)
      /\ a <= c /\ Len(s) <= c /\ (a > 0 => Len(s) > 0)
  BY <1>1 DEF Turns, WindowOK
<1>5. w = [alerts |-> b, cancels |-> c + 1, signals |-> signals, executions |-> x]
  BY <1>3, <1>4
<1>6. Len(s) \in Nat
  BY <1>4
<1>7. /\ signals \in Seq(Nat) /\ Len(signals) <= Len(s) + 1
      /\ alert.quantity > 0 => Len(signals) > 0
      /\ alert.quantity = 0 => signals = s
  <2>1. CASE alert.quantity > 0
    <3>1. signals = AppendCapped(s, alert.quantity)
      BY <1>1, <2>1
    <3>2. /\ AppendCapped(s, alert.quantity) \in Seq(Nat)
          /\ Len(AppendCapped(s, alert.quantity)) <= Len(s) + 1
          /\ Len(AppendCapped(s, alert.quantity)) > 0
      BY <1>4, AppendCappedFacts
    <3> QED
      BY <2>1, <3>1, <3>2
  <2>2. CASE ~(alert.quantity > 0)
    BY <1>1, <1>4, <1>6, <2>2
  <2> QED
    BY <2>1, <2>2
<1>8. b \in Nat /\ b <= c + 1 /\ Len(signals) <= c + 1 /\ (b > 0 => Len(signals) > 0)
  <2>1. CASE alert.quantity > 0
    <3>1. Len(signals) \in Nat
      BY <1>7
    <3> QED
      BY <1>2, <1>4, <1>6, <1>7, <2>1, <3>1
  <2>2. CASE alert.quantity = 0
    BY <1>2, <1>4, <1>6, <1>7, <2>2
  <2> QED
    BY <2>1, <2>2
<1>9. WindowOK(w) /\ w.executions = x
  BY <1>4, <1>5, <1>7, <1>8 DEF WindowOK
<1>10. EndTurn(w, happened)
  BY <1>1, <1>2, <1>3
<1>11. happened \in Seq(Entries) /\ w.executions = FirstOf(happened)
  BY <1>1, <1>9 DEF Turns
<1>12. Len(happened) <= (total_ticks % EveryN) + 1
  <2>1. total_ticks % EveryN \in Nat /\ Len(happened) \in Nat
    BY TurnCount, EngineAssumption DEF Turns
  <2> QED
    BY <2>1 DEF Turns
<1> QED
  BY <1>9, <1>10, <1>11, <1>12, TurnEnds

-----------------------------------------------------------------------------
(* The dispatch of each tick keeps both. *)

IInv == Registers /\ Turns

LEMMA InitOK == Init => IInv
<1> SUFFICES ASSUME Init PROVE IInv
  OBVIOUS
<1>1. BookInv /\ \A s \in Sides, p \in Prices : Len(queues[s][p]) = 0
  BY BookInit DEF Init, Book!Init, Sides
<1>2. Live = {}
  <2>1. ASSUME NEW id \in Live PROVE FALSE
    <3>1. PICK s, p, i : StandsAt(id, s, p, i)
      BY <1>1, LiveStands DEF BookInv
    <3> QED
      BY <1>1, <3>1 DEF StandsAt
  <2> QED
    BY <2>1
<1>3. Registers
  BY <1>1, <1>2, DetectorInit DEF Init, Registers, FollowedStand, Spoof!SpoofInit
<1>4. Turns
  <2>1. WindowOK(EmptyWindow) /\ EmptyWindow.executions = << >>
    BY DEF WindowOK, EmptyWindow
  <2>2. << >> \in Seq(Entries) /\ Len(<< >>) = 0 /\ 0 % EveryN \in Nat
    BY TurnCount, EngineAssumption
  <2> QED
    BY <2>1, <2>2, FirstOfNone DEF Init, Turns
<1> QED
  BY <1>3, <1>4 DEF IInv

LEMMA AddOK ==
  ASSUME IInv, NEW id \in OrderIds, NEW s \in Sides, NEW p \in Prices, NEW q \in Quantities,
         DispatchAdd(id, s, p, q)
  PROVE  IInv'
<1>1. Registers /\ Turns /\ Book!AddOrder(id, s, p, q)
  BY DEF IInv, DispatchAdd
<1>2. running' \in BOOLEAN /\ (~running' \/ ~result'.added => queues' = queues)
  <2>1. running \in BOOLEAN
    BY <1>1 DEF Registers, BookInv, BookTypes
  <2>2. Book!Added(TRUE).added
    BY DEF Book!Added
  <2>3. \/ running' = running /\ queues' = queues
        \/ running' = FALSE /\ queues' = queues
        \/ result' = Book!Added(TRUE) /\ running /\ running' = running
    BY <1>1 DEF Book!AddOrder
  <2> QED
    BY <2>1, <2>2, <2>3, Zenon
<1>3. CASE ~running'
  <2>1. Abort
    BY <1>3 DEF DispatchAdd
  <2>2. Registers'
    BY <1>1, <1>2, <1>3, <2>1, RegistersKept DEF Abort
  <2>3. Turns'
    BY <1>1, <2>1, TurnAborted
  <2> QED
    BY <2>2, <2>3 DEF IInv
<1>4. CASE running' /\ ~result'.added
  <2>1. Ignore
    BY <1>4 DEF DispatchAdd
  <2>2. Registers'
    BY <1>1, <1>2, <1>4, <2>1, RegistersKept DEF Ignore
  <2>3. Turns'
    BY <1>1, <2>1, TurnIgnored
  <2> QED
    BY <2>2, <2>3 DEF IInv
<1>5. CASE running' /\ result'.added
  <2>1. /\ Spoof!record_add(id, p, q) /\ add_timestamps' = add_timestamps \union {id}
        /\ EndTurn(window, happened)
    BY <1>5 DEF DispatchAdd
  <2>2. Registers'
    BY <1>1, <1>5, <2>1, RegistersAdd
  <2>3. Turns'
    <3>1. /\ WindowOK(window) /\ happened \in Seq(Entries)
          /\ window.executions = FirstOf(happened)
      BY <1>1 DEF Turns
    <3>2. Len(happened) <= (total_ticks % EveryN) + 1
      <4>1. total_ticks % EveryN \in Nat /\ Len(happened) \in Nat
        BY <1>1, TurnCount, EngineAssumption DEF Turns
      <4> QED
        BY <1>1, <4>1 DEF Turns
    <3> QED
      BY <1>1, <2>1, <3>1, <3>2, TurnEnds
  <2> QED
    BY <2>2, <2>3 DEF IInv
<1> QED
  BY <1>3, <1>4, <1>5

LEMMA CancelOK ==
  ASSUME IInv, NEW id \in OrderIds, NEW q \in Quantities, DispatchCancel(id, q)
  PROVE  IInv'
<1>1. Registers /\ Turns
  BY DEF IInv
<1>2. CASE Book!Unknown(id)
  <2>1. queues' = queues /\ running' = running /\ ~result'.found
    BY <1>2 DEF Book!Unknown, Book!NotFound, Book!Answer
  <2>2. Ignore
    BY <2>1 DEF DispatchCancel
  <2>3. running' \in BOOLEAN
    BY <1>1, <2>1 DEF Registers, BookInv, BookTypes
  <2>4. Registers'
    BY <1>1, <2>1, <2>2, <2>3, RegistersKept DEF Ignore
  <2>5. Turns'
    BY <1>1, <2>2, TurnIgnored
  <2> QED
    BY <2>4, <2>5 DEF IInv
<1>3. CASE Book!CancelOrder(id, q)
  <2>1. PICK n, removed : n = result'.affected_quantity /\ removed = result'.order_removed
    OBVIOUS
  <2>2. result'.found /\ Takes(id, n, removed)
    BY <1>1, <1>3, <2>1, CancelTakes DEF Registers
  <2>3. n \in Nat \ {0}
    BY <2>2 DEF Takes
  <2>4. PICK alert : alert = Spoof!Alert(id, n)
    OBVIOUS
  <2>5. PICK signals : signals = IF alert.quantity > 0
                                 THEN AppendCapped(window.signals, alert.quantity)
                                 ELSE window.signals
    OBVIOUS
  <2>6. /\ Spoof!check_cancel(id, n)
        /\ add_timestamps' = IF removed THEN add_timestamps \ {id} ELSE add_timestamps
        /\ EndTurn([window EXCEPT !.alerts = IF alert.is_suspected_spoof THEN @ + 1 ELSE @,
                                  !.cancels = @ + 1,
                                  !.signals = signals], happened)
    BY <2>1, <2>2, <2>3, <2>4, <2>5 DEF DispatchCancel
  <2>7. id \in DOMAIN order_clusters => n <= Left(id)
    BY <1>1, <2>2, TakenInReach
  <2>8. /\ DetectorInv' /\ ShareTaken(id, n)
        /\ Spoof!Alert(id, n).quantity \in Nat
        /\ Spoof!Alert(id, n).is_suspected_spoof => Spoof!Alert(id, n).quantity > 0
    BY <1>1, <2>3, <2>6, <2>7, CancelChecked DEF Registers
  <2>9. Registers'
    BY <1>1, <2>2, <2>6, <2>8, RegistersTake
  <2>10. alert.quantity \in Nat /\ (alert.is_suspected_spoof => alert.quantity > 0)
    BY <2>4, <2>8
  <2>11. Turns'
    BY <1>1, <2>5, <2>6, <2>10, CancelListed
  <2> QED
    BY <2>9, <2>11 DEF IInv
<1> QED
  BY <1>2, <1>3 DEF DispatchCancel

LEMMA ExecuteOK ==
  ASSUME IInv, NEW id \in OrderIds, NEW q \in Quantities, DispatchExecute(id, q)
  PROVE  IInv'
<1>1. Registers /\ Turns
  BY DEF IInv
<1>2. CASE Book!Unknown(id)
  <2>1. queues' = queues /\ running' = running /\ ~result'.found
    BY <1>2 DEF Book!Unknown, Book!NotFound, Book!Answer
  <2>2. Ignore
    BY <2>1 DEF DispatchExecute
  <2>3. running' \in BOOLEAN
    BY <1>1, <2>1 DEF Registers, BookInv, BookTypes
  <2>4. Registers'
    BY <1>1, <2>1, <2>2, <2>3, RegistersKept DEF Ignore
  <2>5. Turns'
    BY <1>1, <2>2, TurnIgnored
  <2> QED
    BY <2>4, <2>5 DEF IInv
<1>3. CASE Book!ExecuteOrder(id, q)
  <2>1. PICK n, removed : n = result'.affected_quantity /\ removed = result'.order_removed
    OBVIOUS
  <2>2. /\ id \in Live
        /\ IF n = 0 THEN UNCHANGED <<queues, running>> ELSE Takes(id, n, removed)
    BY <1>1, <1>3, <2>1, ExecuteTakes DEF Registers
  <2>3. CASE n = 0
    <3>1. Ignore
      BY <2>1, <2>3 DEF DispatchExecute
    <3>2. running' \in BOOLEAN /\ queues' = queues
      BY <1>1, <2>2, <2>3 DEF Registers, BookInv, BookTypes
    <3>3. Registers'
      BY <1>1, <3>1, <3>2, RegistersKept DEF Ignore
    <3>4. Turns'
      BY <1>1, <3>1, TurnIgnored
    <3> QED
      BY <3>3, <3>4 DEF IInv
  <2>4. CASE n # 0
    <3>1. Takes(id, n, removed) /\ n \in Nat \ {0} /\ result'.found
      BY <1>3, <2>2, <2>4 DEF Takes, Book!ExecuteOrder, Book!Answer
    <3>2. PICK aggressor : aggressor = Opposite(Book!Place(id).s)
      OBVIOUS
    <3>3. /\ Spoof!record_execute(id, n)
          /\ add_timestamps' = IF removed THEN add_timestamps \ {id} ELSE add_timestamps
          /\ PrintExecution(n, aggressor)
      BY <2>1, <2>4, <3>1, <3>2 DEF DispatchExecute
    <3>4. id \in DOMAIN order_clusters => n <= Left(id)
      BY <1>1, <3>1, TakenInReach
    <3>5. DetectorInv' /\ ShareTaken(id, n)
      BY <1>1, <3>1, <3>3, <3>4, ExecuteRecorded DEF Registers
    <3>6. Registers'
      BY <1>1, <3>1, <3>3, <3>5, RegistersTake
    <3>7. aggressor \in Sides
      BY <3>2 DEF Opposite, Sides, Book!Sides
    <3>8. n \in Nat
      BY <3>1
    <3>9. Turns'
      BY <1>1, <3>3, <3>7, <3>8, ExecutionPrinted
    <3> QED
      BY <3>6, <3>9 DEF IInv
  <2> QED
    BY <2>3, <2>4
<1> QED
  BY <1>2, <1>3 DEF DispatchExecute

LEMMA TradeOK ==
  ASSUME IInv, NEW s \in Sides, NEW p, NEW q \in Quantities, DispatchTrade(s, p, q)
  PROVE  IInv'
<1>1. Registers /\ Turns /\ queues' = queues /\ running' = running
  BY DEF IInv, DispatchTrade, bookVars
<1>2. running' \in BOOLEAN
  BY <1>1 DEF Registers, BookInv, BookTypes
<1>3. CASE q = 0
  <2>1. Ignore
    BY <1>3 DEF DispatchTrade
  <2>2. Registers'
    BY <1>1, <1>2, <2>1, RegistersKept DEF Ignore
  <2>3. Turns'
    BY <1>1, <2>1, TurnIgnored
  <2> QED
    BY <2>2, <2>3 DEF IInv
<1>4. CASE q # 0
  <2>1. UNCHANGED <<spoofVars, add_timestamps>> /\ PrintExecution(q, s)
    BY <1>4 DEF DispatchTrade
  <2>2. Registers'
    BY <1>1, <1>2, <2>1, RegistersKept
  <2>3. q \in Nat
    BY EngineAssumption
  <2>4. Turns'
    BY <1>1, <2>1, <2>3, ExecutionPrinted
  <2> QED
    BY <2>2, <2>4 DEF IInv
<1> QED
  BY <1>3, <1>4

LEMMA StutterOK == ASSUME IInv, UNCHANGED vars PROVE IInv'
<1>1. Registers'
  BY RegistersKept DEF IInv, vars, bookVars, Registers, BookInv, BookTypes
<1>2. Turns'
  BY DEF IInv, vars, turnVars, Turns
<1> QED
  BY <1>1, <1>2 DEF IInv

LEMMA Inductive == Spec => []IInv
<1>1. IInv /\ [Next]_vars => IInv'
  <2> SUFFICES ASSUME IInv, [Next]_vars PROVE IInv'
    OBVIOUS
  <2>1. ASSUME NEW id \in OrderIds, NEW q \in Quantities, DispatchCancel(id, q) PROVE IInv'
    BY <2>1, CancelOK
  <2>2. ASSUME NEW id \in OrderIds, NEW q \in Quantities, DispatchExecute(id, q) PROVE IInv'
    BY <2>2, ExecuteOK
  <2>3. ASSUME NEW id \in OrderIds, NEW s \in Sides, NEW p \in Prices, NEW q \in Quantities,
               DispatchAdd(id, s, p, q)
        PROVE  IInv'
    BY <2>3, AddOK
  <2>4. ASSUME NEW s \in Sides, NEW p \in TradePrices, NEW q \in Quantities,
               DispatchTrade(s, p, q)
        PROVE  IInv'
    BY <2>4, TradeOK
  <2>5. CASE UNCHANGED vars
    BY <2>5, StutterOK
  <2> QED
    BY <2>1, <2>2, <2>3, <2>4, <2>5 DEF Next
<1> QED
  BY <1>1, InitOK, PTL DEF Spec

-----------------------------------------------------------------------------
(* What the analytics read from the book are natural numbers. *)

TopTyped == BookInv => Top \in Analytics!Tops

LEMMA VolumeNat ==
  ASSUME BookTypes, NEW s \in Sides, NEW p \in Prices
  PROVE  Book!Volume(s, p) \in Nat
<1>1. PICK seq : seq = queues[s][p]
  OBVIOUS
<1>2. seq \in Seq(Orders)
  BY <1>1, QueueFacts
<1>3. Shares(seq) \in Seq(Nat) /\ Shares(seq) \in Seq(Int)
  <2>1. Shares(seq) = [i \in 1 .. Len(seq) |-> seq[i].quantity] /\ Len(seq) \in Nat
    BY <1>2 DEF Shares
  <2>2. \A x \in Orders : x.quantity \in Nat
    BY DEF Orders
  <2>3. \A i \in 1 .. Len(seq) : seq[i].quantity \in Nat
    BY <1>2, <2>2
  <2> QED
    BY <2>1, <2>3
<1>4. Total(Shares(seq)) \in Nat
  BY <1>3, TotalNat
<1>5. Book!FoldLeft(LAMBDA sum, order : sum + order.quantity, 0, seq) = Total(Shares(seq))
  BY <1>3, FoldShares
<1> QED
  BY <1>1, <1>4, <1>5 DEF Book!Volume

LEMMA TopNow == TopTyped
<1> SUFFICES ASSUME BookInv PROVE Top \in Analytics!Tops
  BY DEF TopTyped
<1>1. Sides = {"BUY", "SELL"} /\ Prices \subseteq Nat /\ MaxPriceTicks \in Nat
  BY EngineAssumption DEF Sides, Book!Sides
<1>2. ASSUME NEW s \in Sides
      PROVE  /\ Book!NonEmpty(s) \subseteq Prices
             /\ Book!NonEmpty(s) \in SUBSET (0 .. MaxPriceTicks)
  <2>1. ASSUME NEW p \in Book!NonEmpty(s) PROVE p \in Prices /\ p \in 0 .. MaxPriceTicks
    <3>1. p \in Prices /\ queues[s][p] # << >>
      BY DEF Book!NonEmpty
    <3>2. Len(queues[s][p]) > 0
      <4>1. PICK seq : seq = queues[s][p]
        OBVIOUS
      <4>2. seq \in Seq(Orders) /\ seq # << >>
        BY <3>1, <4>1, QueueFacts DEF BookInv
      <4>3. Len(seq) > 0
        BY <4>2
      <4> QED
        BY <4>1, <4>3
    <3>3. Book!ValidPrice(p)
      BY <3>1, <3>2 DEF BookInv, PricesValid
    <3> QED
      BY <1>1, <3>1, <3>3, EngineAssumption DEF Book!ValidPrice
  <2> QED
    BY <2>1
<1>3. Book!BestBid \in Nat /\ (Book!NonEmpty("BUY") # {} => Book!BestBid \in Prices)
  <2>1. CASE Book!NonEmpty("BUY") = {}
    BY <2>1 DEF Book!BestBid
  <2>2. CASE Book!NonEmpty("BUY") # {}
    <3>1. PICK T : T = Book!NonEmpty("BUY")
      OBVIOUS
    <3>2. Max(T) \in T
      BY <1>1, <1>2, <2>2, <3>1, MaxIsIn
    <3>3. Book!Max(T) = Max(T)
      BY DEF Book!Max, Max
    <3>4. Book!BestBid = Book!Max(T)
      BY <2>2, <3>1 DEF Book!BestBid
    <3> QED
      BY <1>1, <1>2, <3>1, <3>2, <3>3, <3>4
  <2> QED
    BY <2>1, <2>2
<1>4. Book!BestAsk \in Nat /\ (Book!NonEmpty("SELL") # {} => Book!BestAsk \in Prices)
  <2>1. CASE Book!NonEmpty("SELL") = {}
    BY <1>1, <2>1 DEF Book!BestAsk
  <2>2. CASE Book!NonEmpty("SELL") # {}
    <3>1. PICK T : T = Book!NonEmpty("SELL")
      OBVIOUS
    <3>2. T \in SUBSET Nat
      BY <1>1, <1>2, <3>1
    <3>3. Book!Min(T) \in T
      BY <2>2, <3>1, <3>2, LeastOf DEF Book!Min
    <3>4. Book!BestAsk = Book!Min(T)
      BY <2>2, <3>1 DEF Book!BestAsk
    <3> QED
      BY <1>1, <1>2, <3>1, <3>3, <3>4
  <2> QED
    BY <2>1, <2>2
<1>5. \A s \in Sides : \A p : Book!Volume(s, p) \in Nat
  <2>1. ASSUME NEW s \in Sides, NEW p PROVE Book!Volume(s, p) \in Nat
    <3>1. CASE p \in Prices
      BY <3>1, VolumeNat DEF BookInv
    <3>2. CASE p \notin Prices
      <4>1. p \notin Book!NonEmpty(s)
        BY <3>2 DEF Book!NonEmpty
      <4> QED
        BY <4>1 DEF Book!Volume
    <3> QED
      BY <3>1, <3>2
  <2> QED
    BY <2>1
<1> QED
  BY <1>1, <1>3, <1>4, <1>5 DEF Top, Analytics!Tops

LEMMA TopNext == TopTyped'
BY TopNow, PTL

-----------------------------------------------------------------------------
(* A rolling window: the next entry pushes the oldest one out. *)

Fill(b) == IF Len(b) = Window THEN Window ELSE Len(b) + 1

(* c is b without its oldest entry, if b is full, and then t. *)
Rolled(c, b, t) ==
  /\ Len(c) = Fill(b) /\ Fill(b) \in Nat
  /\ \A i \in 1 .. Fill(b) :
       c[i] = IF i = Fill(b) THEN t ELSE b[IF Len(b) = Window THEN i + 1 ELSE i]

LEMMA PushedElements ==
  ASSUME NEW S, NEW b \in Seq(S), NEW t \in S
  PROVE  Analytics!Pushed(b, t) \in Seq(S) /\ Rolled(Analytics!Pushed(b, t), b, t)
<1>0. PICK k : k = Fill(b)
  OBVIOUS
<1>1. Len(b) \in Nat /\ Window \in Nat \ {0}
  BY EngineAssumption
<1>2. PICK c : c = IF Len(b) = Window THEN Tail(b) ELSE b
  OBVIOUS
<1>3. /\ c \in Seq(S) /\ Len(c) = k - 1 /\ k \in Nat \ {0}
      /\ \A i \in 1 .. k - 1 : c[i] = b[IF Len(b) = Window THEN i + 1 ELSE i]
  <2>0. k = IF Len(b) = Window THEN Window ELSE Len(b) + 1
    BY <1>0 DEF Fill
  <2>1. CASE Len(b) = Window
    <3>1. b # << >>
      BY <1>1, <2>1
    <3>2. Tail(b) \in Seq(S) /\ Len(Tail(b)) = Len(b) - 1
          /\ \A i \in 1 .. Len(b) - 1 : Tail(b)[i] = b[i + 1]
      BY <1>1, <3>1
    <3> QED
      BY <1>1, <1>2, <2>0, <2>1, <3>2
  <2>2. CASE Len(b) # Window
    BY <1>1, <1>2, <2>0, <2>2
  <2> QED
    BY <2>1, <2>2
<1>4. Analytics!Pushed(b, t) = Append(c, t)
  BY <1>2 DEF Analytics!Pushed
<1>5. /\ Append(c, t) \in Seq(S) /\ Len(Append(c, t)) = k
      /\ \A i \in 1 .. k : Append(c, t)[i] = IF i = k THEN t ELSE c[i]
  BY <1>3
<1> QED
  BY <1>0, <1>3, <1>4, <1>5 DEF Rolled

LEMMA PushedTotal ==
  ASSUME NEW seq \in Seq(Int), NEW x \in Int
  PROVE  /\ Analytics!Pushed(seq, x) \in Seq(Int)
         /\ Analytics!Oldest(seq, 0) \in Int
         /\ Total(seq) \in Int
         /\ Total(Analytics!Pushed(seq, x)) = Total(seq) - Analytics!Oldest(seq, 0) + x
<1>1. Len(seq) \in Nat /\ Window \in Nat \ {0} /\ Total(seq) \in Int
  BY EngineAssumption, TotalAppend
<1>2. CASE Len(seq) = Window
  <2>1. seq # << >>
    BY <1>1, <1>2
  <2>2. PICK c : c = Tail(seq)
    OBVIOUS
  <2>3. c \in Seq(Int) /\ Head(seq) \in Int
    BY <2>1, <2>2
  <2>4. Total(c) \in Int /\ Total(c) = Total(seq) - Head(seq)
    BY <2>1, <2>2, TotalTail
  <2>5. Total(Append(c, x)) = Total(c) + x /\ Append(c, x) \in Seq(Int)
    BY <2>3, TotalAppend
  <2>6. Analytics!Pushed(seq, x) = Append(c, x) /\ Analytics!Oldest(seq, 0) = Head(seq)
    BY <1>2, <2>2 DEF Analytics!Pushed, Analytics!Oldest
  <2> QED
    BY <1>1, <2>3, <2>4, <2>5, <2>6
<1>3. CASE Len(seq) # Window
  <2>1. Total(Append(seq, x)) = Total(seq) + x /\ Append(seq, x) \in Seq(Int)
    BY TotalAppend
  <2>2. Analytics!Pushed(seq, x) = Append(seq, x) /\ Analytics!Oldest(seq, 0) = 0
    BY <1>3 DEF Analytics!Pushed, Analytics!Oldest
  <2> QED
    BY <1>1, <2>1, <2>2
<1> QED
  BY <1>2, <1>3

NoTrade == [price |-> 0, quantity |-> 0]

LEMMA PushedTrade ==
  ASSUME NEW b \in Seq(Analytics!Trades), NEW t \in Analytics!Trades
  PROVE  /\ Shares(b) \in Seq(Int) /\ Notionals(b) \in Seq(Int)
         /\ Shares(Analytics!Pushed(b, t)) = Analytics!Pushed(Shares(b), t.quantity)
         /\ Notionals(Analytics!Pushed(b, t)) = Analytics!Pushed(Notionals(b), t.price * t.quantity)
         /\ Analytics!Oldest(b, NoTrade).quantity = Analytics!Oldest(Shares(b), 0)
         /\ Analytics!Oldest(b, NoTrade).price * Analytics!Oldest(b, NoTrade).quantity
              = Analytics!Oldest(Notionals(b), 0)
<1>1. PICK q, m, k, u, v :
        /\ q = Shares(b) /\ m = Notionals(b) /\ u = t.quantity /\ v = t.price * t.quantity
        /\ k = Fill(b)
  OBVIOUS
<1>2. \A x \in Analytics!Trades : x.price \in Int /\ x.quantity \in Int /\ x.price * x.quantity \in Int
  BY DEF Analytics!Trades
<1>3. /\ q \in Seq(Int) /\ Len(q) = Len(b) /\ (\A i \in 1 .. Len(b) : q[i] = b[i].quantity)
      /\ u \in Int /\ v \in Int
  <2>1. \A i \in 1 .. Len(b) : b[i].quantity \in Int
    BY <1>2
  <2>2. q = [i \in 1 .. Len(b) |-> b[i].quantity] /\ Len(b) \in Nat
    BY <1>1 DEF Shares
  <2>3. u \in Int /\ v \in Int
    BY <1>1, <1>2
  <2> QED
    BY <2>1, <2>2, <2>3
<1>4. m \in Seq(Int) /\ Len(m) = Len(b)
      /\ \A i \in 1 .. Len(b) : m[i] = b[i].price * b[i].quantity
  <2>1. \A i \in 1 .. Len(b) : b[i].price * b[i].quantity \in Int
    BY <1>2
  <2>2. m = [i \in 1 .. Len(b) |-> b[i].price * b[i].quantity] /\ Len(b) \in Nat
    BY <1>1 DEF Notionals
  <2> QED
    BY <2>1, <2>2
<1>5. PICK c, d, e : /\ c = Analytics!Pushed(b, t) /\ d = Analytics!Pushed(q, u)
                     /\ e = Analytics!Pushed(m, v)
  OBVIOUS
<1>6. /\ c \in Seq(Analytics!Trades) /\ k \in Nat /\ Len(c) = k
      /\ \A i \in 1 .. k : c[i] = IF i = k THEN t ELSE b[IF Len(b) = Window THEN i + 1 ELSE i]
  <2>1. Analytics!Pushed(b, t) \in Seq(Analytics!Trades) /\ Rolled(Analytics!Pushed(b, t), b, t)
    BY PushedElements
  <2> QED
    BY <1>1, <1>5, <2>1 DEF Rolled
<1>7. /\ d \in Seq(Int) /\ Len(d) = k
      /\ \A i \in 1 .. k : d[i] = IF i = k THEN u ELSE q[IF Len(b) = Window THEN i + 1 ELSE i]
  <2>1. k = Fill(q)
    BY <1>1, <1>3 DEF Fill
  <2>2. Analytics!Pushed(q, u) \in Seq(Int) /\ Rolled(Analytics!Pushed(q, u), q, u)
    BY <1>3, PushedElements
  <2> QED
    BY <1>3, <1>5, <2>1, <2>2 DEF Rolled
<1>8. /\ e \in Seq(Int) /\ Len(e) = k
      /\ \A i \in 1 .. k : e[i] = IF i = k THEN v ELSE m[IF Len(b) = Window THEN i + 1 ELSE i]
  <2>1. k = Fill(m)
    BY <1>1, <1>4 DEF Fill
  <2>2. Analytics!Pushed(m, v) \in Seq(Int) /\ Rolled(Analytics!Pushed(m, v), m, v)
    BY <1>3, <1>4, PushedElements
  <2> QED
    BY <1>4, <1>5, <2>1, <2>2 DEF Rolled
<1>9. \A i \in 1 .. k : i = k \/ (IF Len(b) = Window THEN i + 1 ELSE i) \in 1 .. Len(b)
  BY <1>1, <1>6, EngineAssumption DEF Fill
<1>10. \A i \in 1 .. k : d[i] = c[i].quantity /\ e[i] = c[i].price * c[i].quantity
  BY <1>1, <1>3, <1>4, <1>6, <1>7, <1>8, <1>9, ZenonT(60)
<1>11. /\ DOMAIN c = 1 .. k /\ d = [i \in 1 .. k |-> d[i]] /\ e = [i \in 1 .. k |-> e[i]]
  BY <1>6, <1>7, <1>8
<1>12. Shares(c) = d /\ Notionals(c) = e
  BY <1>10, <1>11 DEF Shares, Notionals
<1>13. /\ Analytics!Oldest(b, NoTrade).quantity = Analytics!Oldest(q, 0)
       /\ Analytics!Oldest(b, NoTrade).price * Analytics!Oldest(b, NoTrade).quantity
            = Analytics!Oldest(m, 0)
  <2>1. CASE Len(b) = Window
    <3>1. 1 \in 1 .. Len(b) /\ Head(b) = b[1] /\ Head(q) = q[1] /\ Head(m) = m[1]
      BY <1>3, <1>4, <2>1, EngineAssumption
    <3>2. Analytics!Oldest(b, NoTrade) = b[1] /\ Analytics!Oldest(q, 0) = q[1]
          /\ Analytics!Oldest(m, 0) = m[1]
      BY <1>3, <1>4, <2>1, <3>1 DEF Analytics!Oldest
    <3> QED
      BY <1>3, <1>4, <3>1, <3>2
  <2>2. CASE Len(b) # Window
    BY <1>3, <1>4, <2>2 DEF Analytics!Oldest, NoTrade
  <2> QED
    BY <2>1, <2>2
<1> QED
  BY <1>1, <1>3, <1>4, <1>5, <1>12, <1>13

-----------------------------------------------------------------------------
(* The sums that the analytics carry along are those of their windows. *)

AtMost(n, cap) == IF n < cap THEN n ELSE cap

AnalyticsOK(a) ==
  /\ a \in Analytics!Engines
  /\ a.ofi_sum = Total(a.ofi_buffer)
  /\ a.vwap_volume = Total(Shares(a.vwap_buffer))
  /\ a.vwap_notional = Total(Notionals(a.vwap_buffer))
  /\ Len(a.vwap_buffer) = AtMost(a.total_trade_count, Window)

LEMMA NewAnalyticsOK == AnalyticsOK(Analytics!NewAnalytics)
<1>1. Shares(<< >>) = << >> /\ Notionals(<< >>) = << >>
  BY DEF Shares, Notionals
<1>2. Len(<< >>) = 0 /\ 0 < Window /\ MaxPriceTicks \in Nat
  BY EngineAssumption
<1> QED
  BY <1>1, <1>2, TotalEmpty
     DEF AnalyticsOK, Analytics!NewAnalytics, Analytics!Engines, Analytics!Tops, AtMost

(* update_ofi: the sum changes by the entry that comes and the one that    *)
(* goes, and the top is remembered.                                        *)
LEMMA TopSeenOK ==
  ASSUME NEW a, AnalyticsOK(a), NEW top \in Analytics!Tops
  PROVE  /\ AnalyticsOK(Analytics!TopSeen(a, top))
         /\ Analytics!TopSeen(a, top).prev = top
<1>1. a \in Analytics!Engines
  BY DEF AnalyticsOK
<1>2. CASE ~a.ofi_initialized
  <2>1. PICK c : c = [a EXCEPT !.prev = top, !.ofi_initialized = TRUE]
    OBVIOUS
  <2>2. /\ c \in Analytics!Engines /\ c.prev = top
        /\ c.ofi_sum = a.ofi_sum /\ c.ofi_buffer = a.ofi_buffer
        /\ c.vwap_volume = a.vwap_volume /\ c.vwap_notional = a.vwap_notional
        /\ c.vwap_buffer = a.vwap_buffer /\ c.total_trade_count = a.total_trade_count
    BY <1>1, <2>1 DEF Analytics!Engines
  <2>3. Analytics!TopSeen(a, top) = c
    BY <1>2, <2>1 DEF Analytics!TopSeen
  <2> QED
    BY <2>2, <2>3 DEF AnalyticsOK
<1>3. CASE a.ofi_initialized
  <2>1. PICK delta, sum, buffer :
          /\ delta = Analytics!Delta(a.prev, top)
          /\ sum = a.ofi_sum - Analytics!Oldest(a.ofi_buffer, 0) + delta
          /\ buffer = Analytics!Pushed(a.ofi_buffer, delta)
    OBVIOUS
  <2>2. delta \in Int
    BY <1>1, <2>1 DEF Analytics!Engines, Analytics!Tops, Analytics!Delta, Analytics!If
  <2>3. a.ofi_buffer \in Seq(Int) /\ a.ofi_sum \in Int
    BY <1>1 DEF Analytics!Engines
  <2>4. /\ buffer \in Seq(Int) /\ Analytics!Oldest(a.ofi_buffer, 0) \in Int
        /\ Total(buffer) = Total(a.ofi_buffer) - Analytics!Oldest(a.ofi_buffer, 0) + delta
    BY <2>1, <2>2, <2>3, PushedTotal
  <2>5. sum \in Int /\ sum = Total(buffer)
    BY <2>1, <2>2, <2>3, <2>4 DEF AnalyticsOK
  <2>6. PICK c : c = [a EXCEPT !.prev = top, !.ofi_sum = sum, !.ofi_buffer = buffer]
    OBVIOUS
  <2>7. /\ c \in Analytics!Engines /\ c.prev = top
        /\ c.ofi_sum = sum /\ c.ofi_buffer = buffer
        /\ c.vwap_volume = a.vwap_volume /\ c.vwap_notional = a.vwap_notional
        /\ c.vwap_buffer = a.vwap_buffer /\ c.total_trade_count = a.total_trade_count
    BY <1>1, <2>4, <2>5, <2>6 DEF Analytics!Engines
  <2>8. Analytics!TopSeen(a, top) = c
    BY <1>3, <2>1, <2>6 DEF Analytics!TopSeen
  <2> QED
    BY <2>5, <2>7, <2>8 DEF AnalyticsOK
<1> QED
  BY <1>2, <1>3

(* update_vwap: likewise for the two sums over the trades. *)
LEMMA TradeSeenOK ==
  ASSUME NEW a, AnalyticsOK(a), NEW t \in Analytics!Trades
  PROVE  /\ AnalyticsOK(Analytics!TradeSeen(a, t))
         /\ Analytics!TradeSeen(a, t).prev = a.prev
<1>1. a \in Analytics!Engines
  BY DEF AnalyticsOK
<1>2. CASE t.price = 0 \/ t.quantity = 0
  BY <1>2 DEF Analytics!TradeSeen
<1>3. CASE ~(t.price = 0 \/ t.quantity = 0)
  <2>1. PICK b, q, m, old, u, v, volume, notional, buffer :
          /\ b = a.vwap_buffer /\ q = Shares(b) /\ m = Notionals(b)
          /\ old = Analytics!Oldest(b, NoTrade)
          /\ u = t.quantity /\ v = t.price * t.quantity
          /\ volume = a.vwap_volume - old.quantity + t.quantity
          /\ notional = a.vwap_notional - old.price * old.quantity + t.price * t.quantity
          /\ buffer = Analytics!Pushed(b, t)
    OBVIOUS
  <2>2. /\ b \in Seq(Analytics!Trades) /\ a.vwap_volume \in Int /\ a.vwap_notional \in Int
        /\ a.total_trade_count \in Nat
        /\ a.vwap_volume = Total(q) /\ a.vwap_notional = Total(m)
    BY <1>1, <2>1 DEF AnalyticsOK, Analytics!Engines
  <2>3. /\ q \in Seq(Int) /\ m \in Seq(Int)
        /\ Shares(buffer) = Analytics!Pushed(q, u)
        /\ Notionals(buffer) = Analytics!Pushed(m, v)
        /\ old.quantity = Analytics!Oldest(q, 0)
        /\ old.price * old.quantity = Analytics!Oldest(m, 0)
    <3>1. /\ Shares(b) \in Seq(Int) /\ Notionals(b) \in Seq(Int)
          /\ Shares(Analytics!Pushed(b, t)) = Analytics!Pushed(Shares(b), t.quantity)
          /\ Notionals(Analytics!Pushed(b, t)) = Analytics!Pushed(Notionals(b), t.price * t.quantity)
          /\ Analytics!Oldest(b, NoTrade).quantity = Analytics!Oldest(Shares(b), 0)
          /\ Analytics!Oldest(b, NoTrade).price * Analytics!Oldest(b, NoTrade).quantity
               = Analytics!Oldest(Notionals(b), 0)
      BY <2>2, PushedTrade
    <3> QED
      BY ONLY <2>1, <3>1
  <2>4. u \in Int /\ v \in Int
    BY <2>1 DEF Analytics!Trades
  <2>5. /\ Analytics!Oldest(q, 0) \in Int
        /\ Total(Analytics!Pushed(q, u)) = Total(q) - Analytics!Oldest(q, 0) + u
    BY <2>3, <2>4, PushedTotal
  <2>6. /\ Analytics!Oldest(m, 0) \in Int
        /\ Total(Analytics!Pushed(m, v)) = Total(m) - Analytics!Oldest(m, 0) + v
    BY <2>3, <2>4, PushedTotal
  <2>7. volume \in Int /\ volume = Total(Shares(buffer))
    <3>1. volume = a.vwap_volume - Analytics!Oldest(q, 0) + u
      BY <2>1, <2>3
    <3> QED
      BY <2>2, <2>3, <2>4, <2>5, <3>1
  <2>8. notional \in Int /\ notional = Total(Notionals(buffer))
    <3>1. notional = a.vwap_notional - Analytics!Oldest(m, 0) + v
      BY ONLY <2>1, <2>3
    <3> QED
      BY <2>2, <2>3, <2>4, <2>6, <3>1
  <2>9. buffer \in Seq(Analytics!Trades) /\ Rolled(buffer, b, t)
    BY <2>1, <2>2, PushedElements
  <2>10. Len(buffer) = AtMost(a.total_trade_count + 1, Window)
    <3>1. Len(b) = AtMost(a.total_trade_count, Window)
      BY <2>1 DEF AnalyticsOK
    <3> QED
      BY <2>2, <2>9, <3>1, EngineAssumption DEF Rolled, Fill, AtMost
  <2>14. PICK n : n = a.total_trade_count + 1
    OBVIOUS
  <2>15. n \in Nat
    BY <2>2, <2>14
  <2>11. PICK c : c = [a EXCEPT !.vwap_notional = notional, !.vwap_volume = volume,
                                !.vwap_buffer = buffer, !.total_trade_count = n]
    OBVIOUS
  <2>12. /\ c \in Analytics!Engines /\ c.prev = a.prev
         /\ c.ofi_sum = a.ofi_sum /\ c.ofi_buffer = a.ofi_buffer
         /\ c.vwap_volume = volume /\ c.vwap_notional = notional
         /\ c.vwap_buffer = buffer /\ c.total_trade_count = n
    BY <1>1, <2>7, <2>8, <2>9, <2>11, <2>15 DEF Analytics!Engines
  <2>13. Analytics!TradeSeen(a, t) = c
    BY <1>3, <2>1, <2>11, <2>14 DEF Analytics!TradeSeen, NoTrade
  <2> QED
    BY <2>7, <2>8, <2>10, <2>12, <2>13, <2>14 DEF AnalyticsOK
<1> QED
  BY <1>2, <1>3

-----------------------------------------------------------------------------
(* The counts of the PIN estimator. *)

Count(seq, side) == Cardinality({i \in DOMAIN seq : seq[i] = side})

LEMMA CountAppend ==
  ASSUME NEW seq \in Seq(Sides), NEW x \in Sides, NEW side
  PROVE  /\ Count(seq, side) \in Nat
         /\ Count(Append(seq, x), side) = Count(seq, side) + IF x = side THEN 1 ELSE 0
<1>1. PICK n, t, A, B : /\ n = Len(seq) /\ t = Append(seq, x)
                        /\ A = {i \in DOMAIN seq : seq[i] = side}
                        /\ B = {i \in DOMAIN t : t[i] = side}
  OBVIOUS
<1>2. /\ n \in Nat /\ DOMAIN seq = 1 .. n /\ DOMAIN t = 1 .. n + 1
      /\ t[n + 1] = x /\ \A i \in 1 .. n : t[i] = seq[i]
  BY <1>1
<1>3. IsFiniteSet(A)
  <2>1. IsFiniteSet(1 .. n)
    BY <1>2, FS_Interval
  <2> QED
    BY <1>1, <1>2, <2>1, FS_Subset
<1>4. Cardinality(A) \in Nat
  BY <1>3, FS_CardinalityType
<1>5. B = IF x = side THEN A \union {n + 1} ELSE A
  <2>1. \A i \in 1 .. n + 1 : i \in 1 .. n \/ i = n + 1
    BY <1>2
  <2>2. n + 1 \in 1 .. n + 1 /\ \A i \in 1 .. n : i \in 1 .. n + 1
    BY <1>2
  <2> QED
    BY <1>1, <1>2, <2>1, <2>2
<1>6. n + 1 \notin A
  BY <1>1, <1>2
<1>7. Cardinality(B) = Cardinality(A) + IF x = side THEN 1 ELSE 0
  <2>1. Cardinality(A \union {n + 1}) = Cardinality(A) + 1
    BY <1>3, <1>6, FS_AddElement
  <2> QED
    BY <1>4, <1>5, <2>1
<1> QED
  BY <1>1, <1>4, <1>7 DEF Count

LEMMA CountTail ==
  ASSUME NEW seq \in Seq(Sides), seq # << >>, NEW side
  PROVE  /\ Count(Tail(seq), side) \in Nat
         /\ Count(seq, side) = Count(Tail(seq), side) + IF Head(seq) = side THEN 1 ELSE 0
<1>1. PICK n, t, A, B : /\ n = Len(seq) - 1 /\ t = Tail(seq)
                        /\ A = {i \in DOMAIN seq : seq[i] = side}
                        /\ B = {i \in DOMAIN t : t[i] = side}
  OBVIOUS
<1>2. /\ n \in Nat /\ DOMAIN seq = 1 .. n + 1 /\ DOMAIN t = 1 .. n
      /\ Head(seq) = seq[1] /\ \A i \in 1 .. n : t[i] = seq[i + 1]
  BY <1>1
<1>3. IsFiniteSet(A) /\ IsFiniteSet(B)
  <2>1. IsFiniteSet(1 .. n) /\ IsFiniteSet(1 .. n + 1)
    BY <1>2, FS_Interval
  <2> QED
    BY <1>1, <1>2, <2>1, FS_Subset
<1>4. Cardinality(B) \in Nat
  BY <1>3, FS_CardinalityType
<1>5. Cardinality(A \ {1}) = Cardinality(B)
  <2> DEFINE f == [i \in B |-> i + 1]
  <2>1. B \subseteq Int /\ \A i \in B : i \in 1 .. n /\ i + 1 \in A \ {1}
    BY <1>1, <1>2
  <2>2. \A j \in A \ {1} : j - 1 \in B /\ (j - 1) + 1 = j
    <3>1. \A j \in (1 .. n + 1) \ {1} : j - 1 \in 1 .. n /\ (j - 1) + 1 = j
      BY <1>2
    <3> QED
      BY <1>1, <1>2, <3>1
  <2>3. f \in [B -> A \ {1}]
    BY <2>1
  <2>4. \A i, j \in B : f[i] = f[j] => i = j
    BY <2>1
  <2>5. \A j \in A \ {1} : \E i \in B : f[i] = j
    BY <2>2
  <2> HIDE DEF f
  <2>6. f \in Bijection(B, A \ {1})
    BY <2>3, <2>4, <2>5, Fun_IsBij
  <2> QED
    BY <1>3, <2>6, FS_Bijection DEF ExistsBijection
<1>6. Cardinality(A \ {1}) = IF 1 \in A THEN Cardinality(A) - 1 ELSE Cardinality(A)
  BY <1>3, FS_RemoveElement
<1>7. Cardinality(A) \in Nat
  BY <1>3, FS_CardinalityType
<1>8. 1 \in A <=> Head(seq) = side
  BY <1>1, <1>2
<1>9. Cardinality(A) = Cardinality(B) + IF Head(seq) = side THEN 1 ELSE 0
  BY <1>4, <1>5, <1>6, <1>7, <1>8
<1> QED
  BY <1>1, <1>4, <1>9 DEF Count

PinOK(p, n) ==
  /\ p \in [trade_history : Seq(Sides), buy_count : Int, sell_count : Int]
  /\ p.buy_count = Count(p.trade_history, "BUY")
  /\ p.sell_count = Count(p.trade_history, "SELL")
  /\ Len(p.trade_history) = AtMost(n, PinWindow)

LEMMA NewPinOK == PinOK(Flow!NewPin, 0)
<1>1. PICK p : p = Flow!NewPin
  OBVIOUS
<1>2. p = [trade_history |-> << >>, buy_count |-> 0, sell_count |-> 0]
  BY <1>1 DEF Flow!NewPin
<1>3. p \in [trade_history : Seq(Sides), buy_count : Int, sell_count : Int]
      /\ p.trade_history = << >> /\ p.buy_count = 0 /\ p.sell_count = 0
  BY <1>2
<1>4. ASSUME NEW side PROVE Count(<< >>, side) = 0
  <2>1. {i \in DOMAIN << >> : << >>[i] = side} = {}
    OBVIOUS
  <2> QED
    BY <2>1, FS_EmptySet DEF Count
<1>5. Len(<< >>) = AtMost(0, PinWindow)
  BY EngineAssumption DEF AtMost
<1> QED
  BY <1>1, <1>3, <1>4, <1>5 DEF PinOK

Longer(p, side) == [p EXCEPT !.trade_history = Append(@, side)]
Shorter(p) == [p EXCEPT !.trade_history = Tail(@)]

LEMMA LongerRecord ==
  ASSUME NEW h, NEW b, NEW s, NEW side
  PROVE  Longer([trade_history |-> h, buy_count |-> b, sell_count |-> s], side)
           = [trade_history |-> Append(h, side), buy_count |-> b, sell_count |-> s]
<1>1. PICK n : n = Append(h, side)
  OBVIOUS
<1>2. [[trade_history |-> h, buy_count |-> b, sell_count |-> s] EXCEPT !.trade_history = n]
        = [trade_history |-> n, buy_count |-> b, sell_count |-> s]
  OBVIOUS
<1>3. [trade_history |-> h, buy_count |-> b, sell_count |-> s].trade_history = h
  OBVIOUS
<1> QED
  BY <1>1, <1>2, <1>3 DEF Longer

LEMMA ShorterRecord ==
  ASSUME NEW h, NEW b, NEW s
  PROVE  Shorter([trade_history |-> h, buy_count |-> b, sell_count |-> s])
           = [trade_history |-> Tail(h), buy_count |-> b, sell_count |-> s]
<1>1. PICK n : n = Tail(h)
  OBVIOUS
<1>2. [[trade_history |-> h, buy_count |-> b, sell_count |-> s] EXCEPT !.trade_history = n]
        = [trade_history |-> n, buy_count |-> b, sell_count |-> s]
  OBVIOUS
<1>3. [trade_history |-> h, buy_count |-> b, sell_count |-> s].trade_history = h
  OBVIOUS
<1> QED
  BY <1>1, <1>2, <1>3 DEF Shorter

(* record_trade: the count of the side that comes rises, and that of the   *)
(* side that falls out of the window sinks.                                *)
LEMMA TradeRecorded ==
  ASSUME NEW p, NEW n \in Nat, PinOK(p, n), NEW side \in Sides
  PROVE  PinOK(Flow!record_trade(p, side), n + 1)
<1>1. PICK h, b, s : h = p.trade_history /\ b = p.buy_count /\ s = p.sell_count
  OBVIOUS
<1>2. /\ p = [trade_history |-> h, buy_count |-> b, sell_count |-> s]
      /\ h \in Seq(Sides) /\ Len(h) \in Nat /\ b \in Int /\ s \in Int
      /\ b = Count(h, "BUY") /\ s = Count(h, "SELL") /\ Len(h) = AtMost(n, PinWindow)
  BY <1>1 DEF PinOK
<1>3. Sides = {"BUY", "SELL"} /\ PinWindow \in Nat
  BY EngineAssumption DEF Sides, Book!Sides
<1>4. PICK h2, b2, s2, grown :
        /\ h2 = Append(h, side)
        /\ b2 = b + IF side = "BUY" THEN 1 ELSE 0
        /\ s2 = s + IF side = "SELL" THEN 1 ELSE 0
        /\ grown = [trade_history |-> h2, buy_count |-> b2, sell_count |-> s2]
  OBVIOUS
<1>5. /\ h2 \in Seq(Sides) /\ Len(h2) = Len(h) + 1 /\ b2 \in Int /\ s2 \in Int
      /\ h2 # << >>
  BY <1>2, <1>4
<1>6. b2 = Count(h2, "BUY") /\ s2 = Count(h2, "SELL")
  BY <1>2, <1>4, CountAppend
<1>7. Longer(Flow!Counted(p, side, 1), side) = grown
  <2>1. CASE side = "BUY"
    <3>1. b2 = b + 1 /\ s2 = s
      BY <1>2, <1>4, <2>1
    <3>2. Flow!Counted(p, side, 1) = [trade_history |-> h, buy_count |-> b2, sell_count |-> s2]
      BY <1>2, <2>1, <3>1 DEF Flow!Counted
    <3>3. Longer([trade_history |-> h, buy_count |-> b2, sell_count |-> s2], side) = grown
      BY <1>4, LongerRecord
    <3> QED
      BY <3>2, <3>3
  <2>2. CASE side = "SELL"
    <3>1. b2 = b /\ s2 = s + 1
      BY <1>2, <1>4, <2>2
    <3>2. Flow!Counted(p, side, 1) = [trade_history |-> h, buy_count |-> b2, sell_count |-> s2]
      BY <1>2, <2>2, <3>1 DEF Flow!Counted
    <3>3. Longer([trade_history |-> h, buy_count |-> b2, sell_count |-> s2], side) = grown
      BY <1>4, LongerRecord
    <3> QED
      BY <3>2, <3>3
  <2> QED
    BY <1>3, <2>1, <2>2
<1>8. Flow!record_trade(p, side) =
        IF Len(grown.trade_history) <= PinWindow THEN grown
        ELSE Shorter(Flow!Counted(grown, Head(grown.trade_history), -1))
  <2>1. Flow!record_trade(p, side) =
          IF Len(Longer(Flow!Counted(p, side, 1), side).trade_history) <= PinWindow
          THEN Longer(Flow!Counted(p, side, 1), side)
          ELSE Shorter(Flow!Counted(Longer(Flow!Counted(p, side, 1), side),
                         Head(Longer(Flow!Counted(p, side, 1), side).trade_history), -1))
    BY DEF Flow!record_trade, Longer, Shorter
  <2> QED
    BY <1>7, <2>1
<1>9. CASE Len(h2) <= PinWindow
  <2>1. Flow!record_trade(p, side) = grown
    BY <1>4, <1>8, <1>9
  <2>2. Len(h2) = AtMost(n + 1, PinWindow)
    BY <1>2, <1>3, <1>5, <1>9 DEF AtMost
  <2> QED
    BY <1>4, <1>5, <1>6, <2>1, <2>2 DEF PinOK
<1>10. CASE ~(Len(h2) <= PinWindow)
  <2>1. PICK x, h3, b3, s3, last :
          /\ x = Head(h2) /\ h3 = Tail(h2)
          /\ b3 = b2 - IF x = "BUY" THEN 1 ELSE 0
          /\ s3 = s2 - IF x = "SELL" THEN 1 ELSE 0
          /\ last = [trade_history |-> h3, buy_count |-> b3, sell_count |-> s3]
    OBVIOUS
  <2>2. /\ x \in Sides /\ h3 \in Seq(Sides) /\ Len(h3) = Len(h2) - 1
        /\ b3 \in Int /\ s3 \in Int
    BY <1>5, <2>1
  <2>3. b3 = Count(h3, "BUY") /\ s3 = Count(h3, "SELL")
    <3>1. /\ Count(h3, "BUY") \in Nat
          /\ Count(h2, "BUY") = Count(h3, "BUY") + IF x = "BUY" THEN 1 ELSE 0
      BY <1>5, <2>1, CountTail
    <3>2. /\ Count(h3, "SELL") \in Nat
          /\ Count(h2, "SELL") = Count(h3, "SELL") + IF x = "SELL" THEN 1 ELSE 0
      BY <1>5, <2>1, CountTail
    <3> QED
      BY <1>6, <2>1, <3>1, <3>2
  <2>4. Shorter(Flow!Counted(grown, x, -1)) = last
    <3>1. CASE x = "BUY"
      <4>1. b3 = b2 + -1 /\ s3 = s2
        BY <1>5, <2>1, <3>1
      <4>2. Flow!Counted(grown, x, -1) = [trade_history |-> h2, buy_count |-> b3, sell_count |-> s3]
        BY <1>4, <3>1, <4>1 DEF Flow!Counted
      <4>3. Shorter([trade_history |-> h2, buy_count |-> b3, sell_count |-> s3]) = last
        BY <2>1, ShorterRecord
      <4> QED
        BY <4>2, <4>3
    <3>2. CASE x = "SELL"
      <4>1. b3 = b2 /\ s3 = s2 + -1
        BY <1>5, <2>1, <3>2
      <4>2. Flow!Counted(grown, x, -1) = [trade_history |-> h2, buy_count |-> b3, sell_count |-> s3]
        BY <1>4, <3>2, <4>1 DEF Flow!Counted
      <4>3. Shorter([trade_history |-> h2, buy_count |-> b3, sell_count |-> s3]) = last
        BY <2>1, ShorterRecord
      <4> QED
        BY <4>2, <4>3
    <3> QED
      BY <1>3, <2>2, <3>1, <3>2
  <2>5. Flow!record_trade(p, side) = last
    BY <1>4, <1>8, <1>10, <2>1, <2>4
  <2>6. Len(h3) = AtMost(n + 1, PinWindow)
    BY <1>2, <1>3, <1>5, <1>10, <2>2 DEF AtMost
  <2> QED
    BY <2>1, <2>2, <2>3, <2>5, <2>6 DEF PinOK
<1> QED
  BY <1>9, <1>10

-----------------------------------------------------------------------------
(* The dispatch of each tick keeps what the analytics and the estimators   *)
(* carry along, the book being as proved above.                            *)

FlowInv ==
  /\ AnalyticsOK(analytics)
  /\ FlowSeesEveryChange
  /\ total_executes \in Nat
  /\ PinOK(pin, total_executes)
  /\ hawkes = AtMost(total_executes, MaxEvents)

LEMMA FlowInit == Init => FlowInv
<1> SUFFICES ASSUME Init PROVE FlowInv
  OBVIOUS
<1>1. analytics = Analytics!NewAnalytics /\ pin = Flow!NewPin /\ hawkes = 0 /\ total_executes = 0
  BY DEF Init
<1>2. FlowSeesEveryChange
  BY <1>1 DEF FlowSeesEveryChange, Analytics!NewAnalytics
<1>3. 0 = AtMost(0, MaxEvents)
  BY EngineAssumption DEF AtMost
<1> QED
  BY <1>1, <1>2, <1>3, NewAnalyticsOK, NewPinOK DEF FlowInv

Summed(seq) == Book!FoldLeft(LAMBDA sum, order : sum + order.quantity, 0, seq)
VolumesSummed ==
  \A s, p : Book!Volume(s, p) = IF p \in Book!NonEmpty(s) THEN Summed(queues[s][p]) ELSE 0

LEMMA VolumesAreSummed == VolumesSummed
BY DEF VolumesSummed, Book!Volume, Summed

LEMMA TopKept == ASSUME queues' = queues PROVE Top' = Top
<1>1. ASSUME NEW s PROVE Book!NonEmpty(s)' = Book!NonEmpty(s)
  BY DEF Book!NonEmpty
<1>2. Book!BestBid' = Book!BestBid /\ Book!BestAsk' = Book!BestAsk
  BY <1>1 DEF Book!BestBid, Book!BestAsk
<1>3. VolumesSummed /\ VolumesSummed'
  BY VolumesAreSummed, PTL
<1>4. /\ Book!Volume("BUY", Book!BestBid)' = Book!Volume("BUY", Book!BestBid)
      /\ Book!Volume("SELL", Book!BestAsk)' = Book!Volume("SELL", Book!BestAsk)
  BY <1>1, <1>2, <1>3 DEF VolumesSummed
<1> QED
  BY <1>2, <1>4 DEF Top

(* A tick that leaves the book alone, and one that ends the engine. *)
LEMMA FlowKept ==
  ASSUME FlowInv, UNCHANGED <<analytics, flowVars>>,
         running' => running /\ queues' = queues
  PROVE  FlowInv'
<1>1. UNCHANGED <<analytics, hawkes, pin, total_executes>>
  BY DEF flowVars
<1>2. FlowSeesEveryChange'
  BY <1>1, TopKept DEF FlowInv, FlowSeesEveryChange
<1> QED
  BY <1>1, <1>2 DEF FlowInv

LEMMA TopUpdated ==
  ASSUME FlowInv, BookInv'
  PROVE  /\ Top' \in Analytics!Tops
         /\ Analytics!process(analytics, Top') = Analytics!TopSeen(analytics, Top')
         /\ AnalyticsOK(Analytics!process(analytics, Top'))
         /\ Analytics!process(analytics, Top').prev = Top'
<1>1. PICK a, top : a = analytics /\ top = Top'
  OBVIOUS
<1>2. a \in Analytics!Engines /\ AnalyticsOK(a)
  BY <1>1 DEF FlowInv, AnalyticsOK
<1>3. top \in Analytics!Tops
  BY <1>1, TopNext DEF TopTyped
<1>4. Analytics!update_ofi[<<a, top>>] = Analytics!TopSeen(a, top)
  BY <1>2, <1>3 DEF Analytics!update_ofi
<1>5. Analytics!process(a, top) = Analytics!TopSeen(a, top)
  BY <1>4 DEF Analytics!process
<1> QED
  BY <1>1, <1>2, <1>3, <1>5, TopSeenOK

(* An add or a cancel. *)
LEMMA FlowProcessed ==
  ASSUME FlowInv, BookInv', analytics' = Analytics!process(analytics, Top'), UNCHANGED flowVars
  PROVE  FlowInv'
<1>1. UNCHANGED <<hawkes, pin, total_executes>>
  BY DEF flowVars
<1>2. AnalyticsOK(analytics') /\ analytics'.prev = Top'
  BY TopUpdated
<1>3. FlowSeesEveryChange'
  BY <1>2 DEF FlowSeesEveryChange
<1> QED
  BY <1>1, <1>2, <1>3 DEF FlowInv

(* An execution of either kind. *)
LEMMA FlowObserved ==
  ASSUME FlowInv, BookInv', NEW price \in Nat, NEW q \in Nat, NEW aggressor \in Sides,
         Observe(price, q, aggressor)
  PROVE  FlowInv'
<1>1. PICK a, t : a = Analytics!process(analytics, Top') /\ t = [price |-> price, quantity |-> q]
  OBVIOUS
<1>2. AnalyticsOK(a) /\ a.prev = Top' /\ a \in Analytics!Engines /\ t \in Analytics!Trades
  BY <1>1, TopUpdated DEF AnalyticsOK, Analytics!Trades
<1>3. analytics' = Analytics!TradeSeen(a, t)
  <2>1. Analytics!update_vwap[<<a, t>>] = Analytics!TradeSeen(a, t)
    BY <1>2 DEF Analytics!update_vwap
  <2>2. analytics' = Analytics!process_execute(analytics, Top', t)
    BY <1>1 DEF Observe
  <2>3. analytics' = Analytics!update_vwap[<<a, t>>]
    BY <1>1, <2>2 DEF Analytics!process_execute, Analytics!process
  <2> QED
    BY <2>1, <2>3
<1>4. AnalyticsOK(analytics') /\ analytics'.prev = Top'
  BY <1>2, <1>3, TradeSeenOK
<1>5. FlowSeesEveryChange'
  BY <1>4 DEF FlowSeesEveryChange
<1>6. total_executes' = total_executes + 1 /\ total_executes \in Nat
  BY DEF FlowInv, Observe
<1>7. PinOK(pin', total_executes')
  <2>1. PinOK(Flow!record_trade(pin, aggressor), total_executes + 1)
    BY TradeRecorded DEF FlowInv
  <2> QED
    BY <1>6, <2>1 DEF Observe
<1>8. hawkes' = AtMost(total_executes', MaxEvents)
  <2>1. hawkes' = IF hawkes + 1 > MaxEvents THEN hawkes ELSE hawkes + 1
    BY DEF Observe, Flow!record_event
  <2> QED
    BY <1>6, <2>1, EngineAssumption DEF FlowInv, AtMost
<1> QED
  BY <1>4, <1>5, <1>6, <1>7, <1>8 DEF FlowInv

LEMMA FlowAdd ==
  ASSUME IInv, IInv', FlowInv, NEW id, NEW s, NEW p, NEW q, DispatchAdd(id, s, p, q)
  PROVE  FlowInv'
<1>1. BookInv' /\ running
  BY DEF IInv, Registers, DispatchAdd, BeginTurn
<1>2. CASE ~running'
  BY <1>2, FlowKept DEF DispatchAdd, Abort
<1>3. CASE running' /\ ~result'.added
  <2>1. queues' = queues
    <3>1. Book!Added(TRUE).added
      BY DEF Book!Added
    <3>2. queues' = queues \/ result' = Book!Added(TRUE)
      BY DEF DispatchAdd, Book!AddOrder
    <3> QED
      BY <1>3, <3>1, <3>2
  <2> QED
    BY <1>1, <1>3, <2>1, FlowKept DEF DispatchAdd, Ignore
<1>4. CASE running' /\ result'.added
  BY <1>1, <1>4, FlowProcessed DEF DispatchAdd
<1> QED
  BY <1>2, <1>3, <1>4

LEMMA FlowCancel ==
  ASSUME IInv, IInv', FlowInv, NEW id, NEW q \in Quantities, DispatchCancel(id, q)
  PROVE  FlowInv'
<1>1. Registers /\ BookInv' /\ running
  BY DEF IInv, Registers, DispatchCancel, BeginTurn
<1>2. CASE Book!Unknown(id)
  <2>1. queues' = queues /\ ~result'.found
    BY <1>2 DEF Book!Unknown, Book!NotFound, Book!Answer
  <2> QED
    BY <1>1, <2>1, FlowKept DEF DispatchCancel, Ignore
<1>3. CASE Book!CancelOrder(id, q)
  <2>1. PICK n, removed : n = result'.affected_quantity /\ removed = result'.order_removed
    OBVIOUS
  <2>2. result'.found /\ n \in Nat \ {0}
    BY <1>1, <1>3, <2>1, CancelTakes DEF Registers, Takes
  <2>3. analytics' = Analytics!process(analytics, Top') /\ UNCHANGED flowVars
    BY <2>1, <2>2 DEF DispatchCancel
  <2> QED
    BY <1>1, <2>3, FlowProcessed
<1> QED
  BY <1>2, <1>3 DEF DispatchCancel

LEMMA FlowExecute ==
  ASSUME IInv, IInv', FlowInv, NEW id, NEW q \in Quantities, DispatchExecute(id, q)
  PROVE  FlowInv'
<1>1. Registers /\ BookInv /\ BookInv' /\ running
  BY DEF IInv, Registers, DispatchExecute, BeginTurn
<1>2. CASE Book!Unknown(id)
  <2>1. queues' = queues /\ ~result'.found
    BY <1>2 DEF Book!Unknown, Book!NotFound, Book!Answer
  <2> QED
    BY <1>1, <2>1, FlowKept DEF DispatchExecute, Ignore
<1>3. CASE Book!ExecuteOrder(id, q)
  <2>1. PICK n, removed : n = result'.affected_quantity /\ removed = result'.order_removed
    OBVIOUS
  <2>2. /\ id \in Live
        /\ IF n = 0 THEN UNCHANGED <<queues, running>> ELSE Takes(id, n, removed)
    BY <1>1, <1>3, <2>1, ExecuteTakes DEF Registers
  <2>3. CASE n = 0
    BY <1>1, <2>1, <2>2, <2>3, FlowKept DEF DispatchExecute, Ignore
  <2>4. CASE n # 0
    <3>1. n \in Nat /\ result'.found
      BY <1>3, <2>2, <2>4 DEF Takes, Book!ExecuteOrder, Book!Answer
    <3>2. PICK aggressor : aggressor = Opposite(Book!Place(id).s)
      OBVIOUS
    <3>3. PICK price \in TradePrices \union {Book!Place(id).p} : Observe(price, n, aggressor)
      BY <2>1, <2>4, <3>1, <3>2 DEF DispatchExecute
    <3>4. aggressor \in Sides
      BY <3>2 DEF Opposite, Sides, Book!Sides
    <3>5. price \in Nat
      BY <1>1, <2>2, PlaceStands, EngineAssumption DEF BookInv, StandsAt
    <3> QED
      BY <1>1, <3>1, <3>3, <3>4, <3>5, FlowObserved
  <2> QED
    BY <2>3, <2>4
<1> QED
  BY <1>2, <1>3 DEF DispatchExecute

LEMMA FlowTrade ==
  ASSUME IInv, IInv', FlowInv, NEW s \in Sides, NEW p \in TradePrices,
         NEW q \in Quantities, DispatchTrade(s, p, q)
  PROVE  FlowInv'
<1>1. BookInv' /\ running /\ queues' = queues
  BY DEF IInv, Registers, DispatchTrade, BeginTurn, bookVars
<1>2. CASE q = 0
  BY <1>1, <1>2, FlowKept DEF DispatchTrade, Ignore
<1>3. CASE q # 0
  <2>1. p \in Nat /\ q \in Nat
    BY EngineAssumption
  <2> QED
    BY <1>1, <1>3, <2>1, FlowObserved DEF DispatchTrade
<1> QED
  BY <1>2, <1>3

LEMMA FlowInductive == Spec => []FlowInv
<1>1. IInv /\ IInv' /\ FlowInv /\ [Next]_vars => FlowInv'
  <2> SUFFICES ASSUME IInv, IInv', FlowInv, [Next]_vars PROVE FlowInv'
    OBVIOUS
  <2>1. ASSUME NEW id \in OrderIds, NEW q \in Quantities, DispatchCancel(id, q) PROVE FlowInv'
    BY <2>1, FlowCancel
  <2>2. ASSUME NEW id \in OrderIds, NEW q \in Quantities, DispatchExecute(id, q) PROVE FlowInv'
    BY <2>2, FlowExecute
  <2>3. ASSUME NEW id \in OrderIds, NEW s \in Sides, NEW p \in Prices, NEW q \in Quantities,
               DispatchAdd(id, s, p, q)
        PROVE  FlowInv'
    BY <2>3, FlowAdd
  <2>4. ASSUME NEW s \in Sides, NEW p \in TradePrices, NEW q \in Quantities,
               DispatchTrade(s, p, q)
        PROVE  FlowInv'
    BY <2>4, FlowTrade
  <2>5. CASE UNCHANGED vars
    BY <2>5, FlowKept DEF vars, bookVars
  <2> QED
    BY <2>1, <2>2, <2>3, <2>4, <2>5 DEF Next
<1> QED
  BY <1>1, FlowInit, Inductive, PTL DEF Spec

-----------------------------------------------------------------------------
(* The three registers the engine keeps of the live orders, the book, the  *)
(* spoofing detector's two indexes and add_timestamps_, agree after every  *)
(* tick, in whatever order ids are added, cancelled, executed and reused,  *)
(* and whichever clusters are evicted in between.                          *)
THEOREM RegistersAgreeAlways == Spec => []TrackersFollowBook
BY Inductive, RegistersAgree, PTL DEF IInv

(* In no cluster do the shares cancelled and the shares still waiting      *)
(* exceed the shares added, so the ratio the detector compares with its    *)
(* threshold is at most one, also after evict_old halved both volumes.     *)
THEOREM CancelsAreCovered == Spec => []CancelsCoveredByAdds
BY Inductive, ClustersCovered, PTL DEF IInv

(* In every window, open or published, no more alerts and no more signals  *)
(* than cancels were counted, and an alert is never without a signal.      *)
THEOREM WindowsAgree == Spec => []WindowCountsAgree
<1>1. Turns => WindowCountsAgree
  BY DEF Turns, WindowCountsAgree, Windows, WindowOK
<1> QED
  BY <1>1, Inductive, PTL DEF IInv

(* A snapshot lists exactly the executions of its own interval, or the     *)
(* first WindowCap of them; and an interval never has more than EveryN.    *)
THEOREM ExecutionsAreComplete == Spec => []ExecutionsComplete
<1>1. Turns => ExecutionsComplete
  <2> SUFFICES ASSUME Turns PROVE ExecutionsComplete
    OBVIOUS
  <2>1. total_ticks % EveryN \in Nat /\ total_ticks % EveryN < EveryN
    BY TurnCount, EngineAssumption DEF Turns
  <2>2. Len(happened) \in Nat /\ Len(happened) <= total_ticks % EveryN
    BY DEF Turns
  <2>3. Len(happened) < EveryN
    BY <2>1, <2>2, EngineAssumption
  <2> QED
    BY <2>3 DEF Turns, ExecutionsComplete
<1> QED
  BY <1>1, Inductive, PTL DEF IInv

(* Between two ticks the top of book that the order flow remembers is the  *)
(* book's: every change of it, by an add, a cancel or an execution, has    *)
(* gone through update_ofi exactly once.                                   *)
THEOREM FlowSeesTheBook == Spec => []FlowSeesEveryChange
BY FlowInductive, PTL DEF FlowInv

(* The sums update_ofi and update_vwap carry along, and the counts of      *)
(* record_trade and record_event, are those of the entries still in their  *)
(* windows, however often the windows have rolled over.                    *)
THEOREM TotalsMatchWindows == Spec => []RunningTotals
<1>1. FlowInv => RunningTotals
  <2> SUFFICES ASSUME FlowInv PROVE RunningTotals
    OBVIOUS
  <2>1. PICK a, vwap : a = analytics /\ vwap = a.vwap_buffer
    OBVIOUS
  <2>2. /\ a.ofi_buffer \in Seq(Int) /\ vwap \in Seq(Analytics!Trades)
        /\ a.ofi_sum = Total(a.ofi_buffer)
        /\ a.vwap_volume = Total(Shares(vwap)) /\ a.vwap_notional = Total(Notionals(vwap))
        /\ Len(vwap) = AtMost(a.total_trade_count, Window)
    BY <2>1 DEF FlowInv, AnalyticsOK, Analytics!Engines
  <2>3. NoTrade \in Analytics!Trades
    BY DEF NoTrade, Analytics!Trades
  <2>4. Shares(vwap) \in Seq(Int) /\ Notionals(vwap) \in Seq(Int)
    BY <2>2, <2>3, PushedTrade
  <2>5. a.ofi_sum = FoldLeft(LAMBDA sum, x : sum + x, 0, a.ofi_buffer)
    BY <2>2, FoldNumbers
  <2>6. a.vwap_volume = FoldLeft(LAMBDA sum, x : sum + x.quantity, 0, vwap)
    BY <2>2, <2>4, FoldShares
  <2>7. a.vwap_notional = FoldLeft(LAMBDA sum, x : sum + x.price * x.quantity, 0, vwap)
    BY <2>2, <2>4, FoldNotionals
  <2>8. /\ pin.buy_count = Cardinality({i \in DOMAIN pin.trade_history : pin.trade_history[i] = "BUY"})
        /\ pin.sell_count = Cardinality({i \in DOMAIN pin.trade_history : pin.trade_history[i] = "SELL"})
        /\ Len(pin.trade_history) = AtMost(total_executes, PinWindow)
        /\ hawkes = AtMost(total_executes, MaxEvents)
    BY DEF FlowInv, PinOK, Count
  <2> QED
    BY <2>1, <2>2, <2>5, <2>6, <2>7, <2>8 DEF RunningTotals, AtMost
<1> QED
  BY <1>1, FlowInductive, PTL

-----------------------------------------------------------------------------
(* Folding a function over a sequence. *)

LEMMA SetInduction ==
  ASSUME NEW G \in SUBSET Nat, 0 \in G, \A n \in G : n + 1 \in G
  PROVE  \A n \in Nat : n \in G
<1> SUFFICES ASSUME Nat \ G # {} PROVE FALSE
  OBVIOUS
<1> DEFINE U == Nat \ G
<1>1. U \in SUBSET Nat /\ U # {}
  OBVIOUS
<1>2. PICK x \in U : \A y \in U : x <= y
  <2> HIDE DEF U
  <2> QED
    BY <1>1, LeastOf
<1>3. x \in Nat /\ x # 0 /\ x - 1 \in Nat /\ (x - 1) + 1 = x /\ ~(x <= x - 1)
  OBVIOUS
<1>4. x - 1 \in G
  BY <1>2, <1>3
<1>5. (x - 1) + 1 \in G
  BY <1>4
<1> QED
  BY <1>3, <1>5

LEMMA MaxIs ==
  ASSUME NEW S, S \subseteq Nat, NEW x \in S, \A y \in S : x >= y
  PROVE  Max(S) = x
<1>1. PICK m : m = Max(S)
  OBVIOUS
<1>2. m \in S /\ \A y \in S : m >= y
  BY <1>1 DEF Max
<1>3. m >= x /\ x >= m /\ m \in Nat /\ x \in Nat
  BY <1>2
<1> QED
  BY <1>1, <1>3

(* What FoldLeft computes: h takes the last position of each set off. *)
Unfolds(h, step, base, seq, n) ==
  h = [S \in SUBSET (1 .. n) |->
         IF S = {} THEN base ELSE step[<<h[S \ {Max(S)}], seq[Max(S)]>>]]

LEMMA FoldExists ==
  ASSUME NEW step, NEW base, NEW seq, NEW n \in Nat
  PROVE  \E h : Unfolds(h, step, base, seq, n)
<1> DEFINE G == {k \in Nat : \E h : Unfolds(h, step, base, seq, k)}
<1>1. 0 \in G
  <2>1. 1 .. 0 = {} /\ SUBSET {} = {{}}
    OBVIOUS
  <2>2. Unfolds([S \in {{}} |-> base], step, base, seq, 0)
    BY <2>1 DEF Unfolds
  <2> QED
    BY <2>2
<1>2. ASSUME NEW k \in G PROVE k + 1 \in G
  <2>1. PICK h0 : Unfolds(h0, step, base, seq, k)
    OBVIOUS
  <2>2. k \in Nat /\ k + 1 \in Nat
    OBVIOUS
  <2> DEFINE D == SUBSET (1 .. k)
             D1 == SUBSET (1 .. k + 1)
             h == [S \in D1 |-> IF k + 1 \in S THEN step[<<h0[S \ {k + 1}], seq[k + 1]>>] ELSE h0[S]]
  <2>3. \A S \in D1 : S \subseteq Nat /\ S \ {k + 1} \in D /\ S \ {k + 1} \in D1
    <3>1. \A i \in 1 .. k + 1 : i \in Nat /\ (i # k + 1 => i \in 1 .. k)
      BY <2>2
    <3> QED
      BY <3>1
  <2>4. \A S \in D1 : k + 1 \notin S => S \in D
    BY <2>3
  <2>5. h0[{}] = base /\ \A S \in D : S # {} => h0[S] = step[<<h0[S \ {Max(S)}], seq[Max(S)]>>]
    BY <2>1 DEF Unfolds
  <2>6. ASSUME NEW S \in D1, S # {}
        PROVE  h[S] = step[<<h[S \ {Max(S)}], seq[Max(S)]>>]
    <3>1. CASE k + 1 \in S
      <4>1. Max(S) = k + 1
        <5>1. \A y \in S : k + 1 >= y
          OBVIOUS
        <5> QED
          BY <2>3, <3>1, <5>1, MaxIs
      <4>2. h[S] = step[<<h0[S \ {k + 1}], seq[k + 1]>>]
        BY <3>1
      <4>3. h[S \ {k + 1}] = h0[S \ {k + 1}]
        BY <2>3
      <4> QED
        BY <4>1, <4>2, <4>3
    <3>2. CASE k + 1 \notin S
      <4>1. S \in D /\ h[S] = h0[S]
        BY <2>4, <3>2
      <4>2. PICK m : m = Max(S)
        OBVIOUS
      <4>3. S \ {m} \in D1 /\ k + 1 \notin S \ {m}
        BY <3>2
      <4>4. h[S \ {m}] = h0[S \ {m}]
        BY <4>3
      <4> QED
        BY <2>5, <2>6, <4>1, <4>2, <4>4
    <3> QED
      BY <3>1, <3>2
  <2>7. h[{}] = base
    BY <2>5
  <2>8. h = [S \in D1 |-> IF S = {} THEN base ELSE step[<<h[S \ {Max(S)}], seq[Max(S)]>>]]
    <3>1. h = [S \in D1 |-> h[S]]
      OBVIOUS
    <3> HIDE DEF h, D1
    <3> QED
      BY <2>6, <2>7, <3>1
  <2> HIDE DEF h
  <2>9. Unfolds(h, step, base, seq, k + 1)
    BY <2>8 DEF Unfolds
  <2> QED
    BY <2>2, <2>9
<1>3. G \in SUBSET Nat
  OBVIOUS
<1>4. n \in G
  <2> HIDE DEF G
  <2> QED
    BY <1>1, <1>2, <1>3, SetInduction
<1> QED
  BY <1>4

(* r is the value before the first element of seq and after each of them. *)
IsRun(r, step, base, seq) ==
  /\ r[0] = base
  /\ \A k \in 1 .. Len(seq) : r[k] = step[<<r[k - 1], seq[k]>>]

Folded(step, base, seq) == Graph!FoldLeft(LAMBDA s, e : step[<<s, e>>], base, seq)

LEMMA FoldIsRun ==
  ASSUME NEW step, NEW base, NEW seq, Len(seq) \in Nat, DOMAIN seq = 1 .. Len(seq)
  PROVE  \E r : IsRun(r, step, base, seq) /\ r[Len(seq)] = Folded(step, base, seq)
<1> DEFINE E(g) == [S \in SUBSET DOMAIN seq |->
                      IF S = {} THEN base ELSE step[<<g[S \ {Max(S)}], seq[Max(S)]>>]]
           iter == CHOOSE g : g = E(g)
<1>1. PICK n : n = Len(seq)
  OBVIOUS
<1>2. n \in Nat /\ DOMAIN seq = 1 .. n
  BY <1>1
<1>3. \A g : g = E(g) <=> Unfolds(g, step, base, seq, n)
  BY <1>2 DEF Unfolds
<1>4. Folded(step, base, seq) = iter[DOMAIN seq]
  BY DEF Folded, Graph!FoldLeft, Graph!MapThenFoldSet, Graph!Max, Max
<1> HIDE DEF E
<1>5. \E h : h = E(h)
  BY <1>2, <1>3, FoldExists
<1>6. iter = E(iter)
  BY <1>5
<1> HIDE DEF iter
<1>7. Unfolds(iter, step, base, seq, n)
  BY <1>3, <1>6
<1> DEFINE r == [k \in 0 .. n |-> iter[1 .. k]]
<1>8. 1 .. 0 = {} /\ iter[{}] = base
  <2>1. 1 .. 0 = {}
    OBVIOUS
  <2>2. {} \in SUBSET (1 .. n)
    OBVIOUS
  <2> QED
    BY <1>7, <2>1, <2>2, Zenon DEF Unfolds
<1>9. r[0] = base
  <2>1. 0 \in 0 .. n
    BY <1>2
  <2> QED
    BY <1>8, <2>1
<1>10. ASSUME NEW k \in 1 .. n PROVE r[k] = step[<<r[k - 1], seq[k]>>]
  <2>1. /\ k \in Nat /\ 1 .. k \subseteq Nat /\ k \in 1 .. k /\ 1 .. k \in SUBSET (1 .. n)
        /\ (1 .. k) \ {k} = 1 .. k - 1 /\ \A y \in 1 .. k : k >= y
    BY <1>2
  <2>2. Max(1 .. k) = k
    BY <2>1, MaxIs
  <2>3. 1 .. k # {}
    BY <2>1
  <2>4. iter[1 .. k] = step[<<iter[1 .. k - 1], seq[k]>>]
    BY <1>7, <2>1, <2>2, <2>3 DEF Unfolds
  <2>5. k \in 0 .. n /\ k - 1 \in 0 .. n
    BY <1>2
  <2> QED
    BY <2>4, <2>5
<1>11. r[n] = iter[DOMAIN seq]
  BY <1>2
<1> HIDE DEF r
<1>12. IsRun(r, step, base, seq)
  BY <1>1, <1>9, <1>10 DEF IsRun
<1> QED
  BY <1>1, <1>4, <1>11, <1>12

(* What holds at the start of a run and after each step holds at its end:  *)
(* inv[k] is the set of the values allowed after k elements.               *)
LEMMA RunKeeps ==
  ASSUME NEW step, NEW base, NEW seq, NEW r, IsRun(r, step, base, seq), Len(seq) \in Nat,
         NEW inv, base \in inv[0],
         \A k \in 1 .. Len(seq) : \A s \in inv[k - 1] : step[<<s, seq[k]>>] \in inv[k]
  PROVE  \A k \in 0 .. Len(seq) : r[k] \in inv[k]
<1>1. PICK n : n = Len(seq) /\ n \in Nat
  OBVIOUS
<1> DEFINE Kept(k) == r[k] \in inv[k]
           G == {k \in Nat : k <= n => Kept(k)}
<1>2. Kept(0)
  BY DEF IsRun
<1>3. ASSUME NEW k \in 1 .. n, Kept(k - 1) PROVE Kept(k)
  BY <1>1, <1>3 DEF IsRun
<1> HIDE DEF Kept
<1>4. 0 \in G
  BY <1>2
<1>5. ASSUME NEW k \in G PROVE k + 1 \in G
  <2>1. k \in Nat /\ k + 1 \in Nat /\ (k + 1) - 1 = k /\ (k <= n => Kept(k))
    OBVIOUS
  <2>2. ASSUME k + 1 <= n PROVE Kept(k + 1)
    <3>1. k + 1 \in 1 .. n /\ k <= n
      BY <1>1, <2>1, <2>2
    <3> QED
      BY <1>3, <2>1, <3>1
  <2> QED
    BY <2>1, <2>2
<1>6. \A k \in Nat : k \in G
  <2>1. G \in SUBSET Nat
    OBVIOUS
  <2> HIDE DEF G
  <2> QED
    BY <1>4, <1>5, <2>1, SetInduction
<1>7. \A k \in 0 .. n : k \in Nat /\ k <= n
  BY <1>1
<1>8. \A k \in 0 .. n : Kept(k)
  BY <1>6, <1>7
<1> QED
  BY <1>1, <1>8 DEF Kept

-----------------------------------------------------------------------------
(* The search for an arbitrage among three assets.                         *)

Nodes == {0, 1, 2}

LEMMA ThreeAssets == Graph!Assets = Nodes
BY DEF Graph!Assets, Nodes

(* The search's weights, by a potential of each node and what crossing an  *)
(* edge costs on top; an edge from a node to itself is never relaxed.      *)
Priced(w, level, cost) ==
  /\ level \in [Nodes -> Int] /\ cost \in [Nodes \X Nodes -> Int]
  /\ w \in [Nodes -> [Nodes -> Int]]
  /\ \A u \in Nodes : w[u][u] = Graph!NoEdge
  /\ \A u, v \in Nodes : u # v =>
       /\ w[u][v] = level[u] - level[v] + cost[<<u, v>>]
       /\ cost[<<u, v>>] > 0

(* Distance and potential together grow along the predecessors: a node was *)
(* reached over an edge with a cost, and what its predecessor was reached  *)
(* with can only have become less.                                         *)
Uphill(level, s) ==
  /\ s \in Graph!Searches
  /\ \A v \in Nodes : s.pred[v] # Graph!NoPred =>
       s.dist[s.pred[v]] + level[s.pred[v]] < s.dist[v] + level[v]

LEMMA RelaxUphill ==
  ASSUME NEW w, NEW level, NEW cost, Priced(w, level, cost), NEW s, Uphill(level, s),
         NEW u \in Nodes, NEW v \in Nodes
  PROVE  Uphill(level, Graph!Relax(w, s, <<u, v>>))
<1>1. PICK dist, pred : dist = s.dist /\ pred = s.pred
  OBVIOUS
<1>2. /\ dist \in [Nodes -> Int] /\ pred \in [Nodes -> Nodes \union {Graph!NoPred}]
      /\ s = [dist |-> dist, pred |-> pred]
  BY <1>1, ThreeAssets DEF Uphill, Graph!Searches
<1>3. Graph!NoPred \notin Nodes
  BY DEF Graph!NoPred, Nodes
<1>4. CASE ~Graph!Shortens(w, s, <<u, v>>)
  BY <1>4 DEF Graph!Relax
<1>5. CASE Graph!Shortens(w, s, <<u, v>>)
  <2>1. w[u][v] < Graph!NoEdge /\ dist[u] + w[u][v] < dist[v]
    BY <1>1, <1>5 DEF Graph!Shortens
  <2>2. u # v
    BY <2>1 DEF Priced, Graph!NoEdge
  <2>3. PICK d : d = dist[u] + w[u][v]
    OBVIOUS
  <2>4. d \in Int /\ d < dist[v] /\ dist[u] + level[u] < d + level[v]
    <3>1. <<u, v>> \in Nodes \X Nodes
      OBVIOUS
    <3>2. PICK c : c = cost[<<u, v>>]
      OBVIOUS
    <3>3. /\ c \in Int /\ c > 0 /\ w[u][v] = level[u] - level[v] + c
          /\ level[u] \in Int /\ level[v] \in Int
      BY <2>2, <3>1, <3>2 DEF Priced
    <3>4. dist[u] \in Int
      BY <1>2
    <3> QED
      BY <2>1, <2>3, <3>3, <3>4
  <2>5. PICK dist1, pred1 : /\ dist1 = [dist EXCEPT ![v] = d]
                            /\ pred1 = [pred EXCEPT ![v] = u]
    OBVIOUS
  <2>6. Graph!Relax(w, s, <<u, v>>) = [dist |-> dist1, pred |-> pred1]
    BY <1>2, <1>5, <2>3, <2>5 DEF Graph!Relax
  <2>7. dist1 \in [Nodes -> Int] /\ pred1 \in [Nodes -> Nodes \union {Graph!NoPred}]
    BY <1>2, <2>4, <2>5
  <2>8. ASSUME NEW x \in Nodes, pred1[x] # Graph!NoPred
        PROVE  dist1[pred1[x]] + level[pred1[x]] < dist1[x] + level[x]
    <3>1. level[x] \in Int /\ \A y \in Nodes : level[y] \in Int /\ dist[y] \in Int
      BY <1>2 DEF Priced
    <3>2. CASE x = v
      <4>1. pred1[x] = u /\ dist1[x] = d /\ dist1[u] = dist[u]
        BY <1>2, <2>2, <2>5, <3>2
      <4> QED
        BY <2>4, <3>2, <4>1
    <3>3. CASE x # v
      <4>1. pred1[x] = pred[x] /\ dist1[x] = dist[x] /\ pred[x] \in Nodes
        BY <1>2, <2>5, <2>8, <3>3
      <4>2. dist[pred[x]] + level[pred[x]] < dist[x] + level[x]
        BY <1>1, <2>8, <4>1 DEF Uphill
      <4>3. dist1[pred[x]] \in Int /\ dist1[pred[x]] <= dist[pred[x]]
        BY <1>2, <2>4, <2>5, <4>1
      <4> QED
        BY <3>1, <4>1, <4>2, <4>3
    <3> QED
      BY <3>2, <3>3
  <2>9. [dist |-> dist1, pred |-> pred1] \in Graph!Searches
    BY <2>7, ThreeAssets DEF Graph!Searches
  <2> QED
    BY <2>6, <2>8, <2>9 DEF Uphill
<1> QED
  BY <1>4, <1>5

LEMMA EdgesOfThree ==
  ASSUME NEW k \in 1 .. 18
  PROVE  \E u, v \in Nodes : Graph!Edge(k) = <<u, v>>
<1>1. \A m \in 0 .. 17 : m % 3 \in Nodes /\ (m \div 3) % 3 \in Nodes
  BY DEF Nodes
<1>2. k - 1 \in 0 .. 17
  OBVIOUS
<1>3. (k - 1) % 3 \in Nodes /\ ((k - 1) \div 3) % 3 \in Nodes
  BY <1>1, <1>2
<1> QED
  BY <1>3 DEF Graph!Edge

LEMMA RelaxedUphill ==
  ASSUME NEW w, NEW level, NEW cost, Priced(w, level, cost)
  PROVE  Uphill(level, Graph!Relaxed(w))
<1> DEFINE base == [dist |-> [v \in Graph!Assets |-> 0], pred |-> [v \in Graph!Assets |-> Graph!NoPred]]
           edges == [k \in 1 .. (3 - 1) * 3 * 3 |-> Graph!Edge(k)]
           step == [x \in Graph!Searches \X (Graph!Assets \X Graph!Assets) |->
                      Graph!Relax(w, x[1], x[2])]
           good == {s \in Graph!Searches : Uphill(level, s)}
           inv == [k \in 0 .. 18 |-> good]
<1>1. Graph!Relaxed(w) = Folded(step, base, edges)
  BY DEF Graph!Relaxed, Folded
<1>2. /\ DOMAIN edges = 1 .. 18 /\ Len(edges) = 18
      /\ \A k \in 1 .. 18 : edges[k] = Graph!Edge(k)
  OBVIOUS
<1>3. ASSUME NEW s \in good, NEW u \in Nodes, NEW v \in Nodes
      PROVE  step[<<s, <<u, v>> >>] \in good
  <2>1. PICK e : e = <<u, v>>
    OBVIOUS
  <2>2. e \in Graph!Assets \X Graph!Assets /\ s \in Graph!Searches
    BY <2>1, ThreeAssets
  <2>3. step[<<s, e>>] = Graph!Relax(w, s, e)
    BY <2>2
  <2>4. Uphill(level, Graph!Relax(w, s, e))
    BY <2>1, RelaxUphill
  <2> QED
    BY <2>1, <2>3, <2>4 DEF Uphill
<1>4. base \in good
  <2>1. Graph!NoPred = -1
    BY DEF Graph!NoPred
  <2> QED
    BY <2>1, ThreeAssets DEF Uphill, Graph!Searches
<1> HIDE DEF base, edges, step, good
<1>5. ASSUME NEW k \in 1 .. 18, NEW s \in inv[k - 1] PROVE step[<<s, edges[k]>>] \in inv[k]
  <2>1. k - 1 \in 0 .. 18 /\ k \in 0 .. 18
    OBVIOUS
  <2>2. s \in good /\ inv[k] = good
    BY <2>1
  <2>3. PICK u, v \in Nodes : Graph!Edge(k) = <<u, v>>
    BY EdgesOfThree
  <2> QED
    BY <1>2, <1>3, <2>2, <2>3
<1>6. base \in inv[0] /\ inv[18] = good
  BY <1>4
<1> HIDE DEF inv
<1>7. PICK r : IsRun(r, step, base, edges) /\ r[Len(edges)] = Folded(step, base, edges)
  <2>1. Len(edges) \in Nat /\ DOMAIN edges = 1 .. Len(edges)
    BY <1>2
  <2> QED
    BY <2>1, FoldIsRun
<1>8. \A k \in 0 .. Len(edges) : r[k] \in inv[k]
  <2>1. Len(edges) \in Nat
    BY <1>2
  <2>2. \A k \in 1 .. Len(edges) : \A s \in inv[k - 1] : step[<<s, edges[k]>>] \in inv[k]
    BY <1>2, <1>5
  <2> QED
    BY <1>6, <1>7, <2>1, <2>2, RunKeeps
<1>9. r[Len(edges)] \in good
  <2>1. Len(edges) \in 0 .. Len(edges)
    BY <1>2
  <2> QED
    BY <1>2, <1>6, <1>8, <2>1
<1> QED
  BY <1>1, <1>7, <1>9 DEF good

(* Three steps back fall off the path: along the predecessors the nodes    *)
(* are all different, and there are only three of them.                    *)
LEMMA WalkEnds ==
  ASSUME NEW level \in [Nodes -> Int], NEW s, Uphill(level, s), NEW v \in Nodes
  PROVE  Graph!Walk(s.pred, v)[3] = Graph!NoPred
<1>1. PICK pred, none, rank : /\ pred = s.pred /\ none = Graph!NoPred
                              /\ rank = [x \in Nodes |-> s.dist[x] + level[x]]
  OBVIOUS
<1>2. /\ pred \in [Nodes -> Nodes \union {none}] /\ none \notin Nodes
      /\ rank \in [Nodes -> Int]
      /\ \A x \in Nodes : pred[x] # none => pred[x] \in Nodes /\ rank[pred[x]] < rank[x]
  <2>1. s.dist \in [Nodes -> Int] /\ s.pred \in [Nodes -> Nodes \union {Graph!NoPred}]
    BY ThreeAssets DEF Uphill, Graph!Searches
  <2>2. none \notin Nodes
    BY <1>1 DEF Graph!NoPred, Nodes
  <2>3. rank \in [Nodes -> Int]
    BY <1>1, <2>1
  <2>4. ASSUME NEW x \in Nodes, pred[x] # none PROVE pred[x] \in Nodes /\ rank[pred[x]] < rank[x]
    <3>1. pred[x] \in Nodes
      BY <1>1, <2>1, <2>4
    <3>2. s.dist[pred[x]] + level[pred[x]] < s.dist[x] + level[x]
      BY <1>1, <2>4 DEF Uphill
    <3> QED
      BY <1>1, <3>1, <3>2
  <2> QED
    BY <1>1, <2>1, <2>2, <2>3, <2>4
<1> DEFINE Back(x) == IF x = none THEN none ELSE pred[x]
           E(at) == [i \in 0 .. 3 |-> IF i = 0 THEN v ELSE IF at[i - 1] = none THEN none
                                                           ELSE pred[at[i - 1]]]
           walk == CHOOSE at : at = E(at)
<1>3. Graph!Walk(s.pred, v) = walk
  BY <1>1 DEF Graph!Walk
<1>4. walk = E(walk)
  <2>1. PICK a, b, c : a = Back(v) /\ b = Back(a) /\ c = Back(b)
    OBVIOUS
  <2> DEFINE h == [i \in 0 .. 3 |-> IF i = 0 THEN v ELSE IF i = 1 THEN a ELSE IF i = 2 THEN b ELSE c]
  <2>2. h[0] = v /\ h[1] = a /\ h[2] = b /\ h[3] = c
    OBVIOUS
  <2>3. ASSUME NEW i \in 0 .. 3
        PROVE  h[i] = IF i = 0 THEN v ELSE IF h[i - 1] = none THEN none ELSE pred[h[i - 1]]
    <3>1. i = 0 \/ i = 1 \/ i = 2 \/ i = 3
      OBVIOUS
    <3>2. 1 - 1 = 0 /\ 2 - 1 = 1 /\ 3 - 1 = 2
      OBVIOUS
    <3> HIDE DEF h
    <3> QED
      BY <2>1, <2>2, <3>1, <3>2
  <2>4. h = [i \in 0 .. 3 |-> h[i]]
    OBVIOUS
  <2> HIDE DEF h
  <2>5. h = E(h)
    BY <2>3, <2>4
  <2> HIDE DEF E
  <2> QED
    BY <2>5
<1> HIDE DEF walk
<1>5. /\ walk[0] = v
      /\ walk[1] = IF walk[0] = none THEN none ELSE pred[walk[0]]
      /\ walk[2] = IF walk[1] = none THEN none ELSE pred[walk[1]]
      /\ walk[3] = IF walk[2] = none THEN none ELSE pred[walk[2]]
  BY <1>4
<1>6. PICK a, b, c : a = walk[1] /\ b = walk[2] /\ c = walk[3]
  OBVIOUS
<1>7. ASSUME c # none PROVE FALSE
  <2>1. /\ a \in Nodes /\ b \in Nodes /\ c \in Nodes
        /\ rank[a] < rank[v] /\ rank[b] < rank[a] /\ rank[c] < rank[b]
    BY <1>2, <1>5, <1>6, <1>7
  <2>2. rank[v] \in Int /\ rank[a] \in Int /\ rank[b] \in Int /\ rank[c] \in Int
    BY <1>2, <2>1
  <2>3. v # a /\ v # b /\ v # c /\ a # b /\ a # c /\ b # c
    BY <2>1, <2>2
  <2> QED
    BY <2>1, <2>3 DEF Nodes
<1> QED
  BY <1>1, <1>3, <1>6, <1>7

(* Where every edge costs something on top of the potentials, nothing is   *)
(* reported.                                                               *)
LEMMA NothingToGain ==
  ASSUME NEW w, NEW level, NEW cost, Priced(w, level, cost)
  PROVE  ~Graph!detect_arbitrage[w].opportunity_found
<1> DEFINE s == Graph!Relaxed(w)
           open == {k \in 1 .. 3 * 3 : Graph!Shortens(w, s, Graph!Edge(k))}
<1>1. Graph!detect_arbitrage[w] = Graph!Found(s, open)
  <2>1. w \in Graph!Weights
    BY ThreeAssets DEF Priced, Graph!Weights
  <2> QED
    BY <2>1 DEF Graph!detect_arbitrage
<1>2. Uphill(level, s)
  BY RelaxedUphill
<1>3. open \subseteq 1 .. 9
  OBVIOUS
<1> HIDE DEF s, open
<1>4. ~Graph!NoArbitrage.opportunity_found
  BY DEF Graph!NoArbitrage
<1>5. CASE open = {}
  BY <1>1, <1>4, <1>5 DEF Graph!Found
<1>6. CASE open # {}
  <2>1. PICK m : m = Graph!Min(open)
    OBVIOUS
  <2>2. m \in open
    <3>1. open \in SUBSET Nat
      BY <1>3
    <3> QED
      BY <1>6, <2>1, <3>1, LeastOf DEF Graph!Min
  <2>3. m \in 1 .. 18
    BY <1>3, <2>2
  <2>4. PICK u, v \in Nodes : Graph!Edge(m) = <<u, v>>
    BY <2>3, EdgesOfThree
  <2>5. Graph!Walk(s.pred, v)[3] = Graph!NoPred
    BY <1>2, WalkEnds DEF Priced
  <2>6. Graph!Edge(Graph!Min(open))[2] = v
    BY <2>1, <2>4
  <2>7. Graph!Found(s, open) = Graph!NoArbitrage
    BY <2>5, <2>6 DEF Graph!Found
  <2> QED
    BY <1>1, <1>4, <2>7
<1> QED
  BY <1>5, <1>6

(* The rates of a quoted market: the spread, at least a tick, is charged   *)
(* twice on every edge, and is more than the rounding.                     *)
LEMMA QuotedIsPriced ==
  ASSUME NEW bid \in Nat, NEW ask \in Nat, NEW rounding \in Roundings,
         Analytics!get_spread(bid, ask) # -1
  PROVE  \E level, cost : Priced(Weights(bid, ask, rounding), level, cost)
<1>1. PICK f : f = Friction(Analytics!get_spread(bid, ask))
  OBVIOUS
<1>2. f \in Int /\ f >= 2
  <2>1. Analytics!get_spread(bid, ask) = ask - bid /\ ask > bid
    BY DEF Analytics!get_spread
  <2> QED
    BY <1>1, <2>1 DEF Friction
<1> DEFINE level == [i \in Nodes |-> Log(i, bid, ask)]
           cost == [e \in Nodes \X Nodes |-> f + rounding[e]]
           w == Weights(bid, ask, rounding)
<1>3. 0 .. 2 = Nodes
  BY DEF Nodes
<1>4. \A e \in Nodes \X Nodes : rounding[e] \in {-1, 0, 1}
  BY <1>3, EngineAssumption
<1>5. \A i \in Nodes : Log(i, bid, ask) \in Int
  BY DEF Log
<1>6. level \in [Nodes -> Int] /\ \A i \in Nodes : level[i] = Log(i, bid, ask)
  BY <1>5
<1>7. cost \in [Nodes \X Nodes -> Int] /\ \A e \in Nodes \X Nodes : cost[e] > 0
  <2>1. ASSUME NEW e \in Nodes \X Nodes PROVE f + rounding[e] \in Int /\ f + rounding[e] > 0
    <3>1. rounding[e] \in {-1, 0, 1}
      BY <1>4
    <3> QED
      BY <1>2, <3>1
  <2> QED
    BY <2>1
<1>8. w = [i \in Nodes |-> [j \in Nodes |->
             IF i = j THEN Graph!NoEdge
             ELSE Log(i, bid, ask) - Log(j, bid, ask) + f + rounding[<<i, j>>]]]
  BY <1>1, <1>3 DEF Weights
<1>9. ASSUME NEW i \in Nodes, NEW j \in Nodes
      PROVE  /\ i = j => w[i][j] = Graph!NoEdge
             /\ i # j => w[i][j] = level[i] - level[j] + cost[<<i, j>>]
             /\ w[i][j] \in Int
  <2>1. w[i][j] = IF i = j THEN Graph!NoEdge
                  ELSE Log(i, bid, ask) - Log(j, bid, ask) + f + rounding[<<i, j>>]
    BY <1>8
  <2>2. cost[<<i, j>>] = f + rounding[<<i, j>>] /\ rounding[<<i, j>>] \in Int
    BY <1>4
  <2>3. Graph!NoEdge \in Int
    BY DEF Graph!NoEdge
  <2> HIDE DEF w, level, cost
  <2> QED
    BY <1>2, <1>5, <1>6, <2>1, <2>2, <2>3
<1>10. w \in [Nodes -> [Nodes -> Int]]
  <2>1. w = [i \in Nodes |-> [j \in Nodes |-> w[i][j]]]
    BY <1>8
  <2> HIDE DEF w
  <2> QED
    BY <1>9, <2>1
<1>11. Priced(w, level, cost)
  <2>1. \A i, j \in Nodes : <<i, j>> \in Nodes \X Nodes
    OBVIOUS
  <2> HIDE DEF w, level, cost
  <2> QED
    BY <1>6, <1>7, <1>9, <1>10, <2>1 DEF Priced
<1> QED
  BY <1>11

-----------------------------------------------------------------------------
(* The figures a snapshot published now would have. *)
HonestQuotes ==
  \A rounding \in Roundings : \A figures :
    figures = Figures(rounding) => (figures.arbitrage_opportunity => figures.spread = -1)

LEMMA QuotesAreHonest == BookInv => HonestQuotes
<1> SUFFICES ASSUME BookInv, NEW rounding \in Roundings,
                    NEW figures, figures = Figures(rounding), figures.arbitrage_opportunity,
                    figures.spread # -1
             PROVE  FALSE
  BY Zenon DEF HonestQuotes
<1>1. PICK bid, ask : bid = Book!BestBid /\ ask = Book!BestAsk
  OBVIOUS
<1>2. /\ figures.spread = Analytics!get_spread(bid, ask)
      /\ figures.arbitrage_opportunity = Arbitrage[<<bid, ask, rounding>>]
  BY <1>1 DEF Figures
<1>3. bid \in Nat /\ ask \in Nat
  BY <1>1, TopNow DEF TopTyped, Top, Analytics!Tops
<1>4. Analytics!get_spread(bid, ask) # -1
  BY <1>2
<1>5. bid \in 0 .. MaxPriceTicks /\ ask \in 0 .. MaxPriceTicks
  BY <1>3, <1>4, EngineAssumption DEF Analytics!get_spread
<1>6. PICK w : w = Weights(bid, ask, rounding)
  OBVIOUS
<1>7. ~Graph!detect_arbitrage[w].opportunity_found
  <2>1. PICK level, cost : Priced(w, level, cost)
    BY <1>3, <1>4, <1>6, QuotedIsPriced
  <2> QED
    BY <2>1, NothingToGain
<1>8. Arbitrage[<<bid, ask, rounding>>] = Graph!detect_arbitrage[w].opportunity_found
  <2>1. PICK x : x = <<bid, ask, rounding>>
    OBVIOUS
  <2>2. /\ x \in (0 .. MaxPriceTicks) \X (0 .. MaxPriceTicks) \X Roundings
        /\ x[1] = bid /\ x[2] = ask /\ x[3] = rounding
    BY <1>5, <2>1
  <2>3. Arbitrage[x] = Graph!detect_arbitrage[Weights(x[1], x[2], x[3])].opportunity_found
    BY <2>2 DEF Arbitrage
  <2> QED
    BY <1>6, <2>1, <2>2, <2>3
<1> QED
  BY <1>2, <1>7, <1>8

LEMMA QuotesStayHonest == BookInv' => HonestQuotes'
BY QuotesAreHonest, PTL

(* What a turn publishes are the figures of the state it leaves. *)
Publishes ==
  \/ published' = {}
  \/ \E rounding \in Roundings : \E w, figures :
       figures = Figures(rounding)' /\ published' = {[window |-> w, figures |-> figures]}

LEMMA TurnPublishes ==
  ASSUME NEW w, NEW e, EndTurn(w, e)
  PROVE  Publishes
<1>1. CASE published' = {}
  BY <1>1 DEF Publishes
<1>2. CASE published' # {}
  <2>1. PICK rounding \in Roundings : published' = {[window |-> w, figures |-> Figures(rounding)']}
    BY <1>2 DEF EndTurn
  <2>2. PICK figures : figures = Figures(rounding)'
    OBVIOUS
  <2>3. published' = {[window |-> w, figures |-> figures]}
    BY <2>1, <2>2
  <2> QED
    BY <2>2, <2>3 DEF Publishes
<1> QED
  BY <1>1, <1>2

LEMMA StepPublishes == [Next]_vars => Publishes \/ UNCHANGED <<published, queues>>
<1> SUFFICES ASSUME [Next]_vars PROVE Publishes \/ UNCHANGED <<published, queues>>
  OBVIOUS
<1>1. CASE UNCHANGED vars
  BY <1>1 DEF vars, bookVars, turnVars
<1>2. CASE Next
  <2>1. Abort => Publishes
    BY DEF Abort, Publishes
  <2>2. Ignore => Publishes
    BY TurnPublishes DEF Ignore
  <2>3. ASSUME NEW q, NEW s, PrintExecution(q, s) PROVE Publishes
    BY <2>3, TurnPublishes DEF PrintExecution
  <2>4. ASSUME NEW id, NEW s, NEW p, NEW q, DispatchAdd(id, s, p, q) PROVE Publishes
    BY <2>1, <2>2, <2>4, TurnPublishes DEF DispatchAdd
  <2>5. ASSUME NEW id, NEW q, DispatchCancel(id, q) PROVE Publishes
    BY <2>2, <2>5, TurnPublishes DEF DispatchCancel
  <2>6. ASSUME NEW id, NEW q, DispatchExecute(id, q) PROVE Publishes
    BY <2>2, <2>3, <2>6 DEF DispatchExecute
  <2>7. ASSUME NEW s, NEW p, NEW q, DispatchTrade(s, p, q) PROVE Publishes
    BY <2>2, <2>3, <2>7 DEF DispatchTrade
  <2> QED
    BY <1>2, <2>4, <2>5, <2>6, <2>7 DEF Next
<1> QED
  BY <1>1, <1>2

(* While both sides are quoted and do not cross, no snapshot reports an    *)
(* arbitrage, whatever the rounding of the logarithms: detect_arbitrage    *)
(* finds an edge to shorten at most for a while, and never a cycle.        *)
THEOREM QuotedMarketIsFair == Spec => []NoArbitrageWhenQuoted
<1>1. Init => NoArbitrageWhenQuoted
  BY DEF Init, NoArbitrageWhenQuoted
<1>2. IInv' /\ NoArbitrageWhenQuoted /\ [Next]_vars => NoArbitrageWhenQuoted'
  <2> SUFFICES ASSUME IInv', NoArbitrageWhenQuoted, [Next]_vars
               PROVE  NoArbitrageWhenQuoted'
    OBVIOUS
  <2>1. HonestQuotes'
    BY QuotesStayHonest DEF IInv, Registers
  <2>2. CASE Publishes
    BY <2>1, <2>2 DEF Publishes, HonestQuotes, NoArbitrageWhenQuoted
  <2>3. CASE UNCHANGED <<published, queues>>
    BY <2>3 DEF NoArbitrageWhenQuoted
  <2> QED
    BY <2>2, <2>3, StepPublishes
<1> QED
  BY <1>1, <1>2, Inductive, PTL DEF Spec

-----------------------------------------------------------------------------
(* The elements of a finite set of numbers, from the least on.             *)

Rank(S, p) == Cardinality({x \in S : x < p})
Nth(S, i) == CHOOSE p \in S : Rank(S, p) = i - 1
Lowest(S, k) == {x \in S : Rank(S, x) < k}

LEMMA RankGrows ==
  ASSUME NEW S \in SUBSET Nat, IsFiniteSet(S), NEW p \in S, NEW q \in S, p < q
  PROVE  Rank(S, p) < Rank(S, q)
<1> DEFINE P == {x \in S : x < p}
           Q == {x \in S : x < q}
<1>1. p \in Q /\ p \notin P
  OBVIOUS
<1>2. \A x \in S : x < p => x < q
  OBVIOUS
<1>3. P \in SUBSET Q /\ P # Q /\ Q \in SUBSET S
  BY <1>1, <1>2
<1> HIDE DEF P, Q
<1>4. IsFiniteSet(P) /\ IsFiniteSet(Q)
  BY <1>3, FS_Subset
<1>5. Cardinality(P) <= Cardinality(Q) /\ Cardinality(P) # Cardinality(Q)
  BY <1>3, <1>4, FS_Subset
<1>6. Cardinality(P) \in Nat /\ Cardinality(Q) \in Nat
  BY <1>4, FS_CardinalityType
<1>7. Cardinality(P) < Cardinality(Q)
  BY <1>5, <1>6
<1> QED
  BY <1>7 DEF Rank, P, Q

LEMMA RankRange ==
  ASSUME NEW S \in SUBSET Nat, IsFiniteSet(S), NEW p \in S
  PROVE  Rank(S, p) \in 0 .. Cardinality(S) - 1 /\ Cardinality(S) \in Nat
<1> DEFINE P == {x \in S : x < p}
<1>1. P \in SUBSET S /\ P # S
  <2>1. p \notin P
    OBVIOUS
  <2> QED
    BY <2>1
<1> HIDE DEF P
<1>2. IsFiniteSet(P) /\ Cardinality(P) <= Cardinality(S) /\ Cardinality(P) # Cardinality(S)
  BY <1>1, FS_Subset
<1>3. Cardinality(P) \in Nat /\ Cardinality(S) \in Nat
  BY <1>2, FS_CardinalityType
<1>4. Cardinality(P) \in 0 .. Cardinality(S) - 1
  BY <1>2, <1>3
<1> QED
  BY <1>3, <1>4 DEF Rank, P

LEMMA RankIsOne ==
  ASSUME NEW S \in SUBSET Nat, IsFiniteSet(S), NEW p \in S, NEW q \in S, Rank(S, p) = Rank(S, q)
  PROVE  p = q
<1>1. p \in Nat /\ q \in Nat /\ (p < q \/ q < p \/ p = q)
  OBVIOUS
<1>2. Rank(S, p) \in Int /\ Rank(S, q) \in Int
  BY RankRange
<1>3. ~(p < q) /\ ~(q < p)
  BY <1>2, RankGrows
<1> QED
  BY <1>1, <1>3

LEMMA NthIs ==
  ASSUME NEW S \in SUBSET Nat, IsFiniteSet(S), NEW i \in 1 .. Cardinality(S)
  PROVE  Nth(S, i) \in S /\ Rank(S, Nth(S, i)) = i - 1
<1>1. PICK n : n = Cardinality(S)
  OBVIOUS
<1>2. n \in Nat
  BY <1>1, FS_CardinalityType
<1> DEFINE f == [p \in S |-> Rank(S, p)]
           T == 0 .. n - 1
<1>3. \A p \in S : Rank(S, p) \in T
  BY <1>1, RankRange
<1>4. f \in [S -> T]
  BY <1>3
<1>5. \A p, q \in S : f[p] = f[q] => p = q
  BY RankIsOne
<1>6. IsFiniteSet(T) /\ Cardinality(T) = n
  <2>1. 0 \in Int /\ n - 1 \in Int
    BY <1>2
  <2>2. IsFiniteSet(0 .. n - 1) /\ Cardinality(0 .. n - 1) = IF 0 > n - 1 THEN 0 ELSE (n - 1) - 0 + 1
    BY <2>1, FS_Interval
  <2> QED
    BY <1>2, <2>2
<1>7. i - 1 \in T
  BY <1>1, <1>2
<1>8. f \in Surjection(S, T)
  <2> HIDE DEF f, T
  <2>1. f \in Injection(S, T)
    BY <1>4, <1>5 DEF Injection, IsInjective
  <2> QED
    BY <1>1, <1>6, <2>1, FS_Injection
<1>9. \E p \in S : f[p] = i - 1
  <2> HIDE DEF f, T
  <2> QED
    BY <1>7, <1>8 DEF Surjection
<1>10. \E p \in S : Rank(S, p) = i - 1
  BY <1>9
<1> QED
  BY <1>10 DEF Nth

LEMMA LowestGrow ==
  ASSUME NEW S \in SUBSET Nat, IsFiniteSet(S)
  PROVE  /\ Lowest(S, 0) = {} /\ Lowest(S, Cardinality(S)) = S
         /\ \A k : Lowest(S, k) \in SUBSET S
         /\ \A k \in 1 .. Cardinality(S) :
              /\ Nth(S, k) \in Lowest(S, k)
              /\ Lowest(S, k) \ {Nth(S, k)} = Lowest(S, k - 1)
<1>1. PICK n : n = Cardinality(S)
  OBVIOUS
<1>2. n \in Nat /\ \A x \in S : Rank(S, x) \in 0 .. n - 1
  <2>1. n \in Nat
    BY <1>1, FS_CardinalityType
  <2> QED
    BY <1>1, <2>1, RankRange
<1>3. Lowest(S, 0) = {} /\ Lowest(S, n) = S
  <2>1. \A x \in S : ~(Rank(S, x) < 0) /\ Rank(S, x) < n
    BY <1>2
  <2> QED
    BY <2>1 DEF Lowest
<1>4. ASSUME NEW k \in 1 .. n
      PROVE  Nth(S, k) \in Lowest(S, k) /\ Lowest(S, k) \ {Nth(S, k)} = Lowest(S, k - 1)
  <2>1. PICK p : p = Nth(S, k)
    OBVIOUS
  <2>2. p \in S /\ Rank(S, p) = k - 1
    BY <1>1, <2>1, NthIs
  <2>3. \A x \in S : Rank(S, x) = k - 1 => x = p
    BY <2>2, RankIsOne
  <2>4. \A x \in S : Rank(S, x) < k <=> Rank(S, x) < k - 1 \/ Rank(S, x) = k - 1
    BY <1>2
  <2>5. \A x \in S : Rank(S, x) < k - 1 => x # p
    BY <1>2, <2>2
  <2>6. p \in Lowest(S, k)
    BY <1>2, <2>2 DEF Lowest
  <2>7. Lowest(S, k) \ {p} = Lowest(S, k - 1)
    BY <2>3, <2>4, <2>5 DEF Lowest
  <2> QED
    BY <2>1, <2>6, <2>7
<1> QED
  BY <1>1, <1>3, <1>4 DEF Lowest

-----------------------------------------------------------------------------
(* A ladder of m levels from the least price on: sum[k] is the volume of   *)
(* the first k of them.                                                    *)
IsLadder(levels, sum, m) ==
  /\ m \in Nat /\ Len(levels) = m /\ levels \in Seq(Graph!PriceLevel)
  /\ \A k \in 1 .. m : levels[k].volume > 0
  /\ sum \in [0 .. m -> Nat] /\ sum[0] = 0
  /\ \A k \in 1 .. m : sum[k] = sum[k - 1] + levels[k].volume

LEMMA LadderClimbs ==
  ASSUME NEW levels, NEW sum, NEW m, IsLadder(levels, sum, m)
  PROVE  \A j, k \in 0 .. m : j < k => sum[j] < sum[k]
<1>1. m \in Nat /\ \A k \in 1 .. m : sum[k] > sum[k - 1] /\ sum[k] \in Nat /\ sum[k - 1] \in Nat
  <2>1. ASSUME NEW k \in 1 .. m
        PROVE  sum[k] > sum[k - 1] /\ sum[k] \in Nat /\ sum[k - 1] \in Nat
    <3>1. k \in 0 .. m /\ k - 1 \in 0 .. m
      BY DEF IsLadder
    <3>2. sum[k] \in Nat /\ sum[k - 1] \in Nat
      BY <3>1 DEF IsLadder
    <3>3. levels[k] \in Graph!PriceLevel
      BY DEF IsLadder
    <3>4. levels[k].volume \in Nat
      BY <3>3 DEF Graph!PriceLevel
    <3>5. sum[k] = sum[k - 1] + levels[k].volume /\ levels[k].volume > 0
      BY DEF IsLadder
    <3> QED
      BY <3>2, <3>4, <3>5
  <2> QED
    BY <2>1 DEF IsLadder
<1> SUFFICES ASSUME NEW j \in 0 .. m PROVE \A k \in 0 .. m : j < k => sum[j] < sum[k]
  OBVIOUS
<1> DEFINE Above(k) == sum[j] < sum[k]
           G == {k \in Nat : j < k /\ k <= m => Above(k)}
<1>2. 0 \in G
  BY <1>1
<1>3. ASSUME NEW k \in G PROVE k + 1 \in G
  <2>1. k \in Nat /\ k + 1 \in Nat /\ (k + 1) - 1 = k /\ (j < k /\ k <= m => Above(k))
    OBVIOUS
  <2>2. ASSUME j < k + 1, k + 1 <= m PROVE Above(k + 1)
    <3>1. k + 1 \in 1 .. m /\ (k = j \/ (j < k /\ k <= m))
      BY <1>1, <2>1, <2>2
    <3>2. sum[k + 1] > sum[k] /\ sum[k + 1] \in Nat /\ sum[k] \in Nat
      BY <1>1, <2>1, <3>1
    <3>3. sum[j] \in Nat
      BY DEF IsLadder
    <3> QED
      BY <2>1, <3>1, <3>2, <3>3
  <2> HIDE DEF Above
  <2> QED
    BY <2>1, <2>2
<1>4. \A k \in Nat : k \in G
  <2>1. G \in SUBSET Nat
    OBVIOUS
  <2> HIDE DEF G
  <2> QED
    BY <1>2, <1>3, <2>1, SetInduction
<1>5. \A k \in 0 .. m : k \in Nat /\ k <= m
  BY <1>1
<1> QED
  BY <1>4, <1>5

LEMMA ScaledUp ==
  ASSUME NEW a \in Nat, NEW b \in Nat, NEW c \in Nat, a <= b
  PROVE  a * c <= b * c
<1>1. PICK d \in Nat : b = a + d
  <2>1. b - a \in Nat /\ b = a + (b - a)
    OBVIOUS
  <2> QED
    BY <2>1
<1>2. b * c = a * c + d * c /\ d * c \in Nat /\ a * c \in Nat
  BY <1>1
<1> QED
  BY <1>2

LEMMA Remainder ==
  ASSUME NEW v \in Nat, NEW n \in Nat \ {0}
  PROVE  v % n \in Nat /\ v % n <= v /\ (v < n => v % n = v)
<1>1. PICK d, r : d = v \div n /\ r = v % n
  OBVIOUS
<1>2. d \in Nat /\ r \in 0 .. n - 1 /\ v = n * d + r
  BY <1>1
<1>3. n * d \in Nat
  BY <1>2
<1>4. v < n => r = v
  BY <1>1
<1> QED
  BY <1>1, <1>2, <1>3, <1>4

(* The walk of the probe up a ladder: as far as the ladder goes when all   *)
(* its volumes fit a fill, and never further.                              *)
LEMMA WalkUp ==
  ASSUME NEW levels, NEW sum, NEW m, IsLadder(levels, sum, m),
         NEW low \in Nat, NEW high \in Nat,
         \A k \in 1 .. m : low <= levels[k].price /\ levels[k].price <= high
  PROVE  LET w == Graph!simulate_market_impact(levels, Probe)
         IN  /\ w.filled \in Nat /\ w.filled <= Graph!Smaller(Probe, sum[m])
             /\ w.remaining = Probe - w.filled
             /\ (\A k \in 1 .. m : levels[k].volume < Width) =>
                  w.filled = Graph!Smaller(Probe, sum[m])
             /\ w.notional >= low * w.filled /\ w.notional <= high * w.filled
<1> DEFINE start == [notional |-> 0, filled |-> 0, remaining |-> Probe, levels_consumed |-> 0]
           Fits == \A k \in 1 .. m : levels[k].volume < Width
           Good(w, k) == /\ w.filled <= Graph!Smaller(Probe, sum[k])
                         /\ w.remaining = Probe - w.filled
                         /\ Fits => w.filled = Graph!Smaller(Probe, sum[k])
                         /\ w.notional >= low * w.filled /\ w.notional <= high * w.filled
           inv == [k \in 0 .. m |-> {w \in Graph!Walks : Good(w, k)}]
<1>1. m \in Nat /\ Len(levels) = m /\ DOMAIN levels = 1 .. m
  BY DEF IsLadder
<1>2. Probe \in Nat /\ Probe > 0 /\ Width \in Int /\ Width > Probe
  BY EngineAssumption, SMTT(30)
<1>3. start \in inv[0]
  <2>1. start \in Graph!Walks
    BY <1>2 DEF Graph!Walks
  <2>2. sum[0] = 0 /\ 0 \in 0 .. m
    BY <1>1 DEF IsLadder
  <2>3. Good(start, 0)
    BY <1>2, <2>2 DEF Graph!Smaller
  <2> HIDE DEF Good, start
  <2> QED
    BY <2>1, <2>2, <2>3
<1>4. ASSUME NEW k \in 1 .. m, NEW w \in inv[k - 1]
      PROVE  Graph!Fill[<<w, levels[k]>>] \in inv[k]
  <2>1. /\ k \in 0 .. m /\ k - 1 \in 0 .. m /\ w \in Graph!Walks /\ Good(w, k - 1)
    BY <1>1
  <2>2. PICK level : level = levels[k]
    OBVIOUS
  <2>3. level \in Graph!PriceLevel
    BY <1>1, <2>2 DEF IsLadder
  <2>4. PICK a, b, v, p : a = sum[k - 1] /\ b = sum[k] /\ v = level.volume /\ p = level.price
    OBVIOUS
  <2>5. a \in Nat /\ b \in Nat /\ b = a + v
    BY <2>1, <2>2, <2>4 DEF IsLadder
  <2>6. v \in Nat /\ v > 0 /\ (Fits => v < Width) /\ p \in Nat /\ low <= p /\ p <= high
    BY <2>2, <2>3, <2>4 DEF IsLadder, Graph!PriceLevel
  <2> HIDE DEF Fits
  <2>7. /\ w.notional \in Nat /\ w.filled \in Nat /\ w.remaining \in Int /\ w.levels_consumed \in Nat
    BY <2>1 DEF Graph!Walks
  <2>8. PICK x : x = Graph!Filled(w, level)
    OBVIOUS
  <2>9. Graph!Fill[<<w, level>>] = x
    <3>1. <<w, level>> \in Graph!Walks \X Graph!PriceLevel
      BY <2>1, <2>3
    <3> QED
      BY <2>8, <3>1 DEF Graph!Fill
  <2>10. x \in Graph!Walks /\ Good(x, k)
    <3>1. w.filled <= Graph!Smaller(Probe, a) /\ w.remaining = Probe - w.filled
          /\ (Fits => w.filled = Graph!Smaller(Probe, a))
          /\ w.notional >= low * w.filled /\ w.notional <= high * w.filled
      BY <2>1, <2>4
    <3>2. CASE w.remaining = 0
      <4>1. x = w
        BY <2>8, <3>2 DEF Graph!Filled
      <4>2. Graph!Smaller(Probe, b) = Probe /\ Graph!Smaller(Probe, a) = Probe
        BY <1>2, <2>5, <2>6, <2>7, <3>1, <3>2 DEF Graph!Smaller
      <4> QED
        BY <2>1, <2>4, <3>1, <4>1, <4>2
    <3>3. CASE w.remaining # 0
      <4>1. PICK u, q : u = v % Width /\ q = Graph!Smaller(w.remaining, u)
        OBVIOUS
      <4>2. u \in Nat /\ u <= v /\ (Fits => u = v)
        <5>1. Width \in Nat \ {0}
          BY <1>2
        <5>2. PICK r : r = v % Width
          OBVIOUS
        <5>3. r \in Nat /\ r <= v /\ (v < Width => r = v)
          BY <2>6, <5>1, <5>2, Remainder
        <5> QED
          BY <2>6, <4>1, <5>2, <5>3
      <4>3. x = [notional |-> w.notional + p * q, filled |-> w.filled + q,
                 remaining |-> w.remaining - q, levels_consumed |-> w.levels_consumed + 1]
        BY <2>4, <2>6, <2>8, <3>3, <4>1, <4>2 DEF Graph!Filled, Graph!FillQty
      <4>4. w.remaining \in Nat
        BY <1>2, <2>5, <2>7, <3>1 DEF Graph!Smaller
      <4>5. /\ q \in Nat /\ w.remaining - q = Probe - (w.filled + q)
            /\ w.filled + q <= Graph!Smaller(Probe, b)
            /\ Fits => w.filled + q = Graph!Smaller(Probe, b)
        <5>1. q \in Nat /\ q <= w.remaining /\ q <= v /\ (q = w.remaining \/ q = u)
          <6>1. PICK y : y = w.remaining /\ y \in Nat
            BY <4>4
          <6>2. v \in Nat /\ u \in Nat /\ u <= v /\ q = IF y <= u THEN y ELSE u
            BY <2>6, <4>1, <4>2, <6>1 DEF Graph!Smaller
          <6>3. q \in Nat /\ q <= y /\ q <= v /\ (q = y \/ q = u)
            BY <6>1, <6>2
          <6> QED
            BY <6>1, <6>3
        <5>2. w.remaining - q = Probe - (w.filled + q) /\ w.filled + q <= Graph!Smaller(Probe, b)
          BY <1>2, <2>5, <2>6, <2>7, <3>1, <4>4, <5>1 DEF Graph!Smaller
        <5>3. ASSUME Fits PROVE w.filled + q = Graph!Smaller(Probe, b)
          <6>1. PICK f, y : f = w.filled /\ y = w.remaining
            OBVIOUS
          <6>2. /\ f \in Nat /\ y \in Nat /\ y # 0 /\ y = Probe - f
                /\ f = IF Probe <= a THEN Probe ELSE a
            BY <2>7, <3>1, <3>3, <4>4, <5>3, <6>1 DEF Graph!Smaller
          <6>3. u = v /\ q = IF y <= v THEN y ELSE v
            BY <4>1, <4>2, <5>3, <6>1 DEF Graph!Smaller
          <6>4. f = a
            BY <1>2, <2>5, <6>2
          <6>5. f + q = IF Probe <= b THEN Probe ELSE b
            BY <1>2, <2>5, <2>6, <6>2, <6>3, <6>4
          <6> QED
            BY <6>1, <6>5 DEF Graph!Smaller
        <5> QED
          BY <5>1, <5>2, <5>3
      <4>6. low * q <= p * q /\ p * q <= high * q /\ p * q \in Nat
        BY <2>6, <4>5, ScaledUp
      <4>7. low * (w.filled + q) = low * w.filled + low * q /\ high * (w.filled + q) = high * w.filled + high * q
        BY <2>7, <4>5
      <4>8. low * w.filled \in Nat /\ high * w.filled \in Nat /\ low * q \in Nat /\ high * q \in Nat
        BY <2>7, <4>5
      <4>9. w.notional + p * q >= low * (w.filled + q) /\ w.notional + p * q <= high * (w.filled + q)
        <5>1. PICK lf, hf, lq, hq, pq :
                /\ lf = low * w.filled /\ hf = high * w.filled
                /\ lq = low * q /\ hq = high * q /\ pq = p * q
          OBVIOUS
        <5>2. /\ lf \in Nat /\ hf \in Nat /\ lq \in Nat /\ hq \in Nat /\ pq \in Nat
              /\ w.notional >= lf /\ w.notional <= hf /\ lq <= pq /\ pq <= hq
          BY <3>1, <4>6, <4>8, <5>1
        <5>3. w.notional + pq >= lf + lq /\ w.notional + pq <= hf + hq
          BY <2>7, <5>2
        <5> QED
          BY <4>7, <5>1, <5>3
      <4>10. x.filled = w.filled + q /\ x.notional = w.notional + p * q /\ x.remaining = w.remaining - q
        BY <4>3
      <4>11. x \in Graph!Walks
        <5>1. PICK pq : pq = p * q /\ pq \in Nat
          BY <4>6
        <5>2. w.notional + pq \in Nat
          BY <2>7, <5>1
        <5>3. w.filled + q \in Nat /\ w.remaining - q \in Int /\ w.levels_consumed + 1 \in Nat
          <6>1. q \in Nat
            BY <4>5
          <6> QED
            BY <2>7, <6>1
        <5>4. PICK a1, a2, a3, a4 : /\ a1 = w.notional + pq /\ a2 = w.filled + q
                                    /\ a3 = w.remaining - q /\ a4 = w.levels_consumed + 1
          OBVIOUS
        <5>5. x = [notional |-> a1, filled |-> a2, remaining |-> a3, levels_consumed |-> a4]
          BY <4>3, <5>1, <5>4
        <5>6. a1 \in Nat /\ a2 \in Nat /\ a3 \in Int /\ a4 \in Nat
          BY <5>2, <5>3, <5>4
        <5> QED
          BY <5>5, <5>6 DEF Graph!Walks
      <4>12. Good(x, k)
        BY <2>4, <4>5, <4>9, <4>10
      <4> QED
        BY <4>11, <4>12
    <3> QED
      BY <3>2, <3>3
  <2> HIDE DEF Good
  <2> QED
    BY <2>1, <2>2, <2>9, <2>10
<1>5. PICK r : IsRun(r, Graph!Fill, start, levels) /\ r[Len(levels)] = Folded(Graph!Fill, start, levels)
  <2> HIDE DEF start
  <2> QED
    BY <1>1, FoldIsRun
<1>6. Folded(Graph!Fill, start, levels) = Graph!simulate_market_impact(levels, Probe)
  BY DEF Folded, Graph!simulate_market_impact
<1>7. \A k \in 0 .. Len(levels) : r[k] \in inv[k]
  <2> HIDE DEF start, inv
  <2>1. \A k \in 1 .. Len(levels) : \A s \in inv[k - 1] : Graph!Fill[<<s, levels[k]>>] \in inv[k]
    BY <1>1, <1>4
  <2> QED
    BY <1>1, <1>3, <1>5, <2>1, RunKeeps
<1>8. m \in 0 .. m
  BY <1>1
<1>9. r[m] \in {w \in Graph!Walks : Good(w, m)}
  BY <1>1, <1>7, <1>8
<1>10. /\ Graph!simulate_market_impact(levels, Probe) \in Graph!Walks
       /\ Good(Graph!simulate_market_impact(levels, Probe), m)
  <2> HIDE DEF Good, start
  <2> QED
    BY <1>1, <1>5, <1>6, <1>9
<1> QED
  BY <1>10 DEF Graph!Walks

Volumes(seq) == [i \in DOMAIN seq |-> seq[i].volume]
SummedVolumes(seq) == Graph!FoldLeft(LAMBDA sum, level : sum + level.volume, 0, seq)

LEMMA FoldVolumes ==
  ASSUME NEW seq, Volumes(seq) \in Seq(Int)
  PROVE  SummedVolumes(seq) = Total(Volumes(seq))
<1> DEFINE E(g) == [S \in SUBSET DOMAIN seq |->
                      IF S = {} THEN 0 ELSE g[S \ {Max(S)}] + seq[Max(S)].volume]
           iter == CHOOSE g : g = E(g)
<1>1. PICK t : t = Volumes(seq)
  OBVIOUS
<1>2. DOMAIN t = DOMAIN seq /\ DOMAIN t = 1 .. Len(t) /\ Len(t) \in Nat /\ t \in Seq(Int)
      /\ \A i \in DOMAIN seq : t[i] = seq[i].volume
  BY <1>1 DEF Volumes
<1>3. \A g : E(g) = Unfolded(t, g)
  <2>1. ASSUME NEW S \in SUBSET DOMAIN seq, S # {} PROVE t[Max(S)] = seq[Max(S)].volume
    <3>1. S \in SUBSET (0 .. Len(t))
      BY <1>2
    <3>2. Max(S) \in S
      BY <1>2, <2>1, <3>1, MaxIsIn
    <3> QED
      BY <1>2, <3>2
  <2> QED
    BY <1>2, <2>1 DEF Unfolded
<1>4. SummedVolumes(seq) = iter[DOMAIN seq]
  BY DEF SummedVolumes, Graph!FoldLeft, Graph!MapThenFoldSet, Graph!Max, Max
<1> HIDE DEF E
<1>5. \E h : h = E(h)
  BY <1>2, <1>3, FoldIsTotal
<1>6. iter = E(iter)
  BY <1>5
<1> HIDE DEF iter
<1>7. iter[DOMAIN t] = Total(t)
  BY <1>2, <1>3, <1>6, FoldIsTotal
<1> QED
  BY <1>1, <1>2, <1>4, <1>7

(* The volume of the first j levels of a ladder. *)
LEMMA LadderVolume ==
  ASSUME NEW levels, NEW sum, NEW m, IsLadder(levels, sum, m), NEW j \in 0 .. m
  PROVE  SummedVolumes(SubSeq(levels, 1, j)) = sum[j]
<1>1. m \in Nat /\ j \in Nat /\ j <= m /\ Len(levels) = m
  BY DEF IsLadder
<1>2. PICK front : front = SubSeq(levels, 1, j)
  OBVIOUS
<1>3. DOMAIN front = 1 .. j /\ \A i \in 1 .. j : front[i] = levels[i]
  BY <1>1, <1>2 DEF IsLadder
<1>4. PICK t : t = Volumes(front)
  OBVIOUS
<1>5. t = [i \in 1 .. j |-> levels[i].volume]
  BY <1>3, <1>4 DEF Volumes
<1>6. \A i \in 1 .. j : levels[i].volume \in Nat
  <2>1. ASSUME NEW i \in 1 .. j PROVE levels[i].volume \in Nat
    <3>1. i \in 1 .. m
      BY <1>1
    <3>2. levels[i] \in Graph!PriceLevel
      BY <3>1 DEF IsLadder
    <3> QED
      BY <3>2 DEF Graph!PriceLevel
  <2> QED
    BY <2>1
<1>7. t \in Seq(Int) /\ DOMAIN t = 1 .. j
  BY <1>1, <1>5, <1>6
<1>8. PICK h : IsSum(h, t, DOMAIN t)
  BY <1>7, SeqDomain, SumExists
<1> DEFINE Kept(k) == h[1 .. k] = sum[k]
           G == {k \in Nat : k <= j => Kept(k)}
<1>9. Kept(0)
  <2>1. 1 .. 0 = {}
    OBVIOUS
  <2> QED
    BY <1>8, <2>1 DEF IsSum, IsLadder
<1>10. ASSUME NEW k \in 1 .. j, Kept(k - 1) PROVE Kept(k)
  <2>1. k \in 1 .. k /\ (1 .. k) \ {k} = 1 .. k - 1 /\ 1 .. k \in SUBSET (1 .. j) /\ k \in 1 .. m
    BY <1>1
  <2>2. h[1 .. k] = t[k] + h[(1 .. k) \ {k}]
    BY <1>7, <1>8, <2>1 DEF IsSum
  <2>3. h[1 .. k] = levels[k].volume + sum[k - 1]
    BY <1>5, <1>10, <2>1, <2>2
  <2>4. sum[k] = sum[k - 1] + levels[k].volume
    BY <2>1 DEF IsLadder
  <2>5. sum[k - 1] \in Nat /\ levels[k].volume \in Nat
    <3>1. k - 1 \in 0 .. m
      BY <1>1
    <3> QED
      BY <1>6, <3>1 DEF IsLadder
  <2> QED
    BY <2>3, <2>4, <2>5
<1>11. Kept(j)
  <2> HIDE DEF Kept
  <2>1. 0 \in G
    BY <1>9
  <2>2. ASSUME NEW k \in G PROVE k + 1 \in G
    <3>1. k \in Nat /\ k + 1 \in Nat /\ (k + 1) - 1 = k /\ (k <= j => Kept(k))
      OBVIOUS
    <3>2. ASSUME k + 1 <= j PROVE Kept(k + 1)
      <4>1. k + 1 \in 1 .. j /\ k <= j
        BY <1>1, <3>1, <3>2
      <4> QED
        BY <1>10, <3>1, <4>1
    <3> QED
      BY <3>1, <3>2
  <2>3. \A k \in Nat : k \in G
    <3>1. G \in SUBSET Nat
      OBVIOUS
    <3> HIDE DEF G
    <3> QED
      BY <2>1, <2>2, <3>1, SetInduction
  <2> QED
    BY <1>1, <2>3
<1>12. Total(t) = h[1 .. j]
  BY <1>7, <1>8, TotalIsSum
<1>13. SummedVolumes(front) = Total(t)
  BY <1>4, <1>7, FoldVolumes
<1> QED
  BY <1>2, <1>11, <1>12, <1>13

-----------------------------------------------------------------------------
(* The levels of a set of prices, of which each has a volume.              *)

LevelsOf(vol, m) ==
  [i \in 1 .. m |-> [price |-> Nth(DOMAIN vol, i), volume |-> vol[Nth(DOMAIN vol, i)]]]

LEMMA TotalOver ==
  ASSUME NEW vol, IsFiniteSet(DOMAIN vol), NEW h, IsSum(h, vol, DOMAIN vol)
  PROVE  Total(vol) = h[DOMAIN vol]
<1> DEFINE g == CHOOSE g : IsSum(g, vol, DOMAIN vol)
<1>1. IsSum(g, vol, DOMAIN vol)
  OBVIOUS
<1>2. Total(vol) = g[DOMAIN vol]
  BY DEF Total
<1> HIDE DEF g
<1>3. AddsUp(g, vol, DOMAIN vol)
  BY <1>1 DEF IsSum, AddsUp
<1>4. \A S \in SUBSET DOMAIN vol : g[S] = h[S]
  BY <1>3, SumUnique
<1> QED
  BY <1>2, <1>4

LEMMA MakesSeq ==
  ASSUME NEW T, NEW n \in Nat, NEW f, f = [i \in 1 .. n |-> f[i]], \A i \in 1 .. n : f[i] \in T
  PROVE  f \in Seq(T) /\ Len(f) = n
OBVIOUS

LEMMA LevelsAreLadder ==
  ASSUME NEW vol, DOMAIN vol \subseteq Nat, IsFiniteSet(DOMAIN vol),
         vol \in [DOMAIN vol -> Nat \ {0}],
         NEW n, n = Cardinality(DOMAIN vol)
  PROVE  /\ n \in Nat
         /\ \E sum : IsLadder(LevelsOf(vol, n), sum, n) /\ sum[n] = Total(vol)
         /\ \A i \in 1 .. n : /\ LevelsOf(vol, n)[i].price \in DOMAIN vol
                              /\ LevelsOf(vol, n)[i].volume = vol[LevelsOf(vol, n)[i].price]
<1>1. PICK D : D = DOMAIN vol
  OBVIOUS
<1>2. /\ D \in SUBSET Nat /\ IsFiniteSet(D) /\ n = Cardinality(D) /\ n \in Nat
      /\ vol \in [D -> Nat] /\ vol \in [D -> Int] /\ \A p \in D : vol[p] \in Nat /\ vol[p] > 0
  BY <1>1, FS_CardinalityType
<1>3. PICK h : IsSum(h, vol, D)
  BY <1>2, SumExists
<1>4. \A S \in SUBSET D : h[S] \in Nat
  BY <1>2, <1>3, SumNat
<1>5. Total(vol) = h[D]
  BY <1>1, <1>2, <1>3, TotalOver
<1> DEFINE sum == [k \in 0 .. n |-> h[Lowest(D, k)]]
           levels == LevelsOf(vol, n)
<1>6. ASSUME NEW i \in 1 .. n
      PROVE  /\ Nth(D, i) \in D /\ levels[i] = [price |-> Nth(D, i), volume |-> vol[Nth(D, i)]]
             /\ levels[i].price = Nth(D, i) /\ levels[i].volume = vol[Nth(D, i)]
  <2>1. Nth(D, i) \in D
    BY <1>2, NthIs
  <2> QED
    BY <1>1, <2>1 DEF LevelsOf
<1>7. levels \in Seq(Graph!PriceLevel) /\ Len(levels) = n
  <2>1. ASSUME NEW i \in 1 .. n PROVE levels[i] \in Graph!PriceLevel
    <3>1. PICK p, v : p = Nth(D, i) /\ v = vol[p]
      OBVIOUS
    <3>2. p \in Nat /\ v \in Nat
      BY <1>2, <1>6, <3>1
    <3>3. levels[i] = [price |-> p, volume |-> v]
      BY <1>6, <3>1
    <3> QED
      BY <3>2, <3>3 DEF Graph!PriceLevel
  <2>2. levels = [i \in 1 .. n |-> levels[i]]
    BY DEF LevelsOf
  <2>3. \A i \in 1 .. n : levels[i] \in Graph!PriceLevel
    BY <2>1
  <2> HIDE DEF levels
  <2> QED
    BY <1>2, <2>2, <2>3, MakesSeq
<1> HIDE DEF levels
<1>8. \A k \in 1 .. n : levels[k].volume > 0
  BY <1>2, <1>6
<1>9. /\ Lowest(D, 0) = {} /\ Lowest(D, n) = D /\ \A k : Lowest(D, k) \in SUBSET D
      /\ \A k \in 1 .. n : /\ Nth(D, k) \in Lowest(D, k)
                           /\ Lowest(D, k) \ {Nth(D, k)} = Lowest(D, k - 1)
  BY <1>2, LowestGrow
<1>10. sum \in [0 .. n -> Nat] /\ sum[0] = 0 /\ sum[n] = h[D]
  <2>1. \A k \in 0 .. n : h[Lowest(D, k)] \in Nat
    BY <1>4, <1>9
  <2>2. h[{}] = 0
    BY <1>3 DEF IsSum
  <2>3. 0 \in 0 .. n /\ n \in 0 .. n
    BY <1>2
  <2> QED
    BY <1>9, <2>1, <2>2, <2>3
<1>11. ASSUME NEW k \in 1 .. n PROVE sum[k] = sum[k - 1] + levels[k].volume
  <2>1. h[Lowest(D, k)] = vol[Nth(D, k)] + h[Lowest(D, k - 1)]
    <3>1. PICK S, x : S = Lowest(D, k) /\ x = Nth(D, k)
      OBVIOUS
    <3>2. S \in SUBSET D /\ x \in S /\ S \ {x} = Lowest(D, k - 1)
      BY <1>9, <3>1
    <3>3. h[S] = vol[x] + h[S \ {x}]
      BY <1>3, <3>2 DEF IsSum
    <3> QED
      BY <3>1, <3>2, <3>3
  <2>2. k \in 0 .. n /\ k - 1 \in 0 .. n
    BY <1>2
  <2>3. levels[k].volume = vol[Nth(D, k)] /\ vol[Nth(D, k)] \in Nat
    BY <1>2, <1>6
  <2>4. h[Lowest(D, k - 1)] \in Nat
    BY <1>4, <1>9
  <2> QED
    BY <2>1, <2>2, <2>3, <2>4
<1>12. IsLadder(levels, sum, n)
  <2> HIDE DEF sum
  <2> QED
    BY <1>2, <1>7, <1>8, <1>10, <1>11 DEF IsLadder
<1>13. \A i \in 1 .. n : levels[i].price \in DOMAIN vol /\ levels[i].volume = vol[levels[i].price]
  BY <1>1, <1>6
<1> HIDE DEF sum
<1> QED
  BY <1>2, <1>5, <1>10, <1>12, <1>13 DEF levels

(* The asks of the book and what stands at each of them. *)
Asks == Book!NonEmpty("SELL")
Vols == [p \in Asks |-> Book!Volume("SELL", p)]
AskDepth == MapThenSumSet(LAMBDA p : Book!Volume("SELL", p), Asks)

LEMMA TotalPositive ==
  ASSUME NEW seq \in Seq(Nat), Len(seq) > 0, \A i \in 1 .. Len(seq) : seq[i] > 0
  PROVE  Total(seq) > 0
<1>1. PICK n : n = Len(seq)
  OBVIOUS
<1>2. n \in Nat /\ n \in 1 .. n /\ DOMAIN seq = 1 .. n /\ seq \in Seq(Int) /\ seq[n] \in Nat
      /\ seq[n] > 0 /\ seq \in [1 .. n -> Nat]
  BY <1>1
<1>3. PICK h : IsSum(h, seq, DOMAIN seq)
  BY <1>2, SeqDomain, SumExists
<1>4. IsFiniteSet(1 .. n)
  BY <1>2, SeqDomain
<1>5. \A S \in SUBSET (1 .. n) : h[S] \in Nat
  BY <1>2, <1>3, <1>4, SumNat
<1>6. h[1 .. n] = seq[n] + h[(1 .. n) \ {n}]
  BY <1>2, <1>3 DEF IsSum
<1>7. h[(1 .. n) \ {n}] \in Nat
  BY <1>5
<1>8. Total(seq) = h[1 .. n]
  BY <1>2, <1>3, TotalIsSum
<1> QED
  BY <1>2, <1>6, <1>7, <1>8

LEMMA AsksNow ==
  ASSUME BookInv
  PROVE  /\ Asks \in SUBSET (0 .. MaxPriceTicks) /\ Asks \in SUBSET Nat
         /\ IsFiniteSet(Asks)
         /\ Vols \in [Asks -> Nat \ {0}] /\ DOMAIN Vols = Asks
<1>1. "SELL" \in Sides /\ Prices \subseteq Nat /\ MaxPriceTicks \in Nat
  BY EngineAssumption DEF Sides, Book!Sides
<1>2. ASSUME NEW p \in Asks
      PROVE  p \in 0 .. MaxPriceTicks /\ p \in Nat /\ Book!Volume("SELL", p) \in Nat \ {0}
  <2>1. PICK seq : seq = queues["SELL"][p]
    OBVIOUS
  <2>2. p \in Prices /\ seq # << >>
    BY <2>1 DEF Asks, Book!NonEmpty
  <2>3. seq \in Seq(Orders)
    BY <1>1, <2>1, <2>2, QueueFacts DEF BookInv
  <2>4. Len(seq) > 0 /\ Len(seq) \in Nat
    BY <2>2, <2>3
  <2>5. Book!ValidPrice(p)
    BY <1>1, <2>1, <2>2, <2>4 DEF BookInv, PricesValid
  <2>6. p \in 0 .. MaxPriceTicks /\ p \in Nat
    BY <1>1, <2>2, <2>5, EngineAssumption DEF Book!ValidPrice
  <2>7. PICK t : t = Shares(seq)
    OBVIOUS
  <2>8. \A i \in 1 .. Len(seq) : seq[i].quantity \in Nat /\ seq[i].quantity > 0
    <3>1. \A x \in Orders : x.quantity \in Nat /\ x.quantity > 0
      BY DEF Orders
    <3> QED
      BY <2>3, <3>1
  <2>9. t = [i \in 1 .. Len(seq) |-> seq[i].quantity]
    BY <2>3, <2>7 DEF Shares
  <2>10. t \in Seq(Nat) /\ t \in Seq(Int) /\ Len(t) = Len(seq) /\ \A i \in 1 .. Len(t) : t[i] > 0
    BY <2>4, <2>8, <2>9
  <2>11. Total(t) \in Nat /\ Total(t) > 0
    BY <2>4, <2>10, TotalNat, TotalPositive
  <2>12. Book!FoldLeft(LAMBDA sum, order : sum + order.quantity, 0, seq) = Total(t)
    BY <2>7, <2>10, FoldShares
  <2>13. Book!Volume("SELL", p) = Total(t)
    BY <2>1, <2>12 DEF Book!Volume, Asks
  <2> QED
    BY <2>6, <2>11, <2>13
<1>3. Asks \in SUBSET (0 .. MaxPriceTicks) /\ Asks \in SUBSET Nat
  BY <1>2
<1>4. IsFiniteSet(Asks)
  <2>1. \A p \in Asks : p <= MaxPriceTicks
    BY <1>1, <1>3
  <2> QED
    BY <1>1, <1>3, <2>1, FS_BoundedSetOfNaturals
<1>5. Vols \in [Asks -> Nat \ {0}] /\ DOMAIN Vols = Asks
  BY <1>2 DEF Vols
<1> QED
  BY <1>3, <1>4, <1>5

LEMMA DepthIsTotal ==
  ASSUME BookInv
  PROVE  AskDepth = Total(Vols) /\ AskDepth \in Nat
<1> DEFINE E(g) == [s \in SUBSET Asks |->
                      IF s = {} THEN 0
                      ELSE Book!Volume("SELL", CHOOSE x \in s : TRUE) + g[s \ {CHOOSE x \in s : TRUE}]]
           iter == CHOOSE g : g = E(g)
<1>1. /\ IsFiniteSet(Asks) /\ Vols \in [Asks -> Nat] /\ Vols \in [Asks -> Int]
      /\ \A p \in Asks : Vols[p] = Book!Volume("SELL", p)
  BY AsksNow DEF Vols
<1>2. PICK h : IsSum(h, Vols, Asks)
  BY <1>1, SumExists
<1>3. h = E(h)
  <2>1. ASSUME NEW s \in SUBSET Asks, s # {}
        PROVE  h[s] = Book!Volume("SELL", CHOOSE x \in s : TRUE) + h[s \ {CHOOSE x \in s : TRUE}]
    <3> DEFINE x == CHOOSE x \in s : TRUE
    <3>1. x \in s
      BY <2>1
    <3> HIDE DEF x
    <3>2. h[s] = Vols[x] + h[s \ {x}]
      BY <1>2, <3>1 DEF IsSum
    <3>3. Vols[x] = Book!Volume("SELL", x)
      BY <1>1, <3>1
    <3> QED
      BY <3>2, <3>3 DEF x
  <2>2. h = [s \in SUBSET Asks |-> h[s]] /\ h[{}] = 0
    BY <1>2 DEF IsSum
  <2> QED
    BY <2>1, <2>2
<1>4. iter = E(iter)
  <2> HIDE DEF E
  <2> QED
    BY <1>3
<1>5. AskDepth = iter[Asks]
  BY DEF AskDepth, MapThenSumSet, MapThenFoldSet
<1> HIDE DEF iter
<1>6. iter[{}] = 0
  BY <1>4
<1>7. ASSUME NEW s \in SUBSET Asks, s # {}
      PROVE  \E x \in s : iter[s] = Vols[x] + iter[s \ {x}]
  <2>1. iter[s] = Book!Volume("SELL", CHOOSE x \in s : TRUE) + iter[s \ {CHOOSE x \in s : TRUE}]
    BY <1>4, <1>7
  <2>2. (CHOOSE x \in s : TRUE) \in s
    BY <1>7
  <2> QED
    BY <1>1, <2>1, <2>2
<1> HIDE DEF E
<1>8. AddsUp(iter, Vols, Asks)
  BY <1>6, <1>7 DEF AddsUp
<1>9. \A s \in SUBSET Asks : iter[s] = h[s]
  BY <1>1, <1>2, <1>8, SumUnique
<1>10. h[Asks] \in Nat
  BY <1>1, <1>2, SumNat
<1>11. Total(Vols) = h[Asks]
  BY <1>1, <1>2, AsksNow, TotalOver
<1> QED
  BY <1>5, <1>9, <1>10, <1>11

(* RiskMatchesDepth of the figures of one snapshot, and the same of the    *)
(* volumes at the asks and the best of them alone.                         *)
Risk(figures, asks, fits, depth, best) ==
  LET impact == figures.impact
  IN  /\ impact.filled <= Book!Lesser(Probe, depth)
      /\ fits => impact.filled = Book!Lesser(Probe, depth)
      /\ figures.fully_filled <=> impact.filled = Probe
      /\ \A p \in asks : impact.notional >= best * impact.filled
      /\ asks # {} => impact.notional <= Max(asks) * impact.filled
      /\ figures.flash_crash.total = depth
      /\ figures.flash_crash.top = depth <=> Cardinality(asks) <= TopDepth

RiskOf(figures, vols, best) ==
  Cardinality(DOMAIN vols) <= TotalDepth =>
    Risk(figures, DOMAIN vols, \A p \in DOMAIN vols : vols[p] < Width, Total(vols), best)

RiskMatchesVolumes ==
  RiskMatchesDepth <=> \A snap \in published : RiskOf(snap.figures, Vols, Book!BestAsk)

LEMMA RiskByVolumes == BookInv => RiskMatchesVolumes
<1> SUFFICES ASSUME BookInv PROVE RiskMatchesVolumes
  OBVIOUS
<1>1. /\ DOMAIN Vols = Asks /\ AskDepth = Total(Vols)
      /\ \A p \in Asks : Vols[p] = Book!Volume("SELL", p)
  BY AsksNow, DepthIsTotal DEF Vols
<1>2. PICK fits \in BOOLEAN : fits <=> \A p \in Asks : Book!Volume("SELL", p) < Width
  OBVIOUS
<1>3. RiskMatchesDepth <=>
        (Cardinality(Asks) <= TotalDepth =>
           \A snap \in published : Risk(snap.figures, Asks, fits, AskDepth, Book!BestAsk))
  BY <1>2 DEF RiskMatchesDepth, Risk, Asks, AskDepth
<1>4. fits = \A p \in DOMAIN Vols : Vols[p] < Width
  BY <1>1, <1>2
<1> QED
  BY <1>1, <1>3, <1>4 DEF RiskMatchesVolumes, RiskOf

LEMMA TopAsksAre ==
  ASSUME BookInv, Cardinality(Asks) <= TotalDepth
  PROVE  Book!TopAsks(TotalDepth) = LevelsOf(Vols, Cardinality(Asks))
<1>1. PICK n : n = Cardinality(Asks)
  OBVIOUS
<1>2. n \in Nat /\ TotalDepth \in Nat /\ n <= TotalDepth /\ DOMAIN Vols = Asks
  BY <1>1, AsksNow, FS_CardinalityType, EngineAssumption
<1>3. Book!Lesser(TotalDepth, n) = n
  BY <1>2 DEF Book!Lesser
<1>4. ASSUME NEW i \in 1 .. n
      PROVE  Nth(Asks, i) \in Asks /\ Vols[Nth(Asks, i)] = Book!Volume("SELL", Nth(Asks, i))
  <2>1. Nth(Asks, i) \in Asks
    BY <1>1, AsksNow, NthIs
  <2> QED
    BY <2>1 DEF Vols
<1>5. Book!TopAsks(TotalDepth) =
        [i \in 1 .. n |-> [price |-> Nth(Asks, i), volume |-> Book!Volume("SELL", Nth(Asks, i))]]
  <2> DEFINE nth(i) == CHOOSE p \in Book!NonEmpty("SELL") :
                         Cardinality({x \in Book!NonEmpty("SELL") : x < p}) = i - 1
  <2>2. Book!TopAsks(TotalDepth) =
          [i \in 1 .. Book!Lesser(TotalDepth, Cardinality(Book!NonEmpty("SELL"))) |->
             [price |-> nth(i), volume |-> Book!Volume("SELL", nth(i))]]
    <3>1. \A S : Book!Cardinality(S) = Cardinality(S)
      BY DEF Book!Cardinality, Cardinality
    <3> QED
      BY <3>1 DEF Book!TopAsks
  <2>3. \A i : nth(i) = Nth(Asks, i)
    BY DEF Nth, Rank, Asks
  <2> HIDE DEF nth
  <2> QED
    BY <1>1, <1>3, <2>2, <2>3 DEF Asks
<1>6. LevelsOf(Vols, n) = [i \in 1 .. n |-> [price |-> Nth(Asks, i), volume |-> Vols[Nth(Asks, i)]]]
  BY <1>2 DEF LevelsOf
<1> QED
  BY <1>1, <1>4, <1>5, <1>6

(* The figures a snapshot published now would have match the asks. *)
HonestRisk ==
  \A rounding \in Roundings : \A figures :
    figures = Figures(rounding) => RiskOf(figures, Vols, Book!BestAsk)

LEMMA RiskIsHonest == BookInv => HonestRisk
<1> SUFFICES ASSUME BookInv, NEW rounding \in Roundings, NEW figures, figures = Figures(rounding),
                    Cardinality(DOMAIN Vols) <= TotalDepth
             PROVE  Risk(figures, DOMAIN Vols, \A p \in DOMAIN Vols : Vols[p] < Width,
                         Total(Vols), Book!BestAsk)
  BY Zenon DEF HonestRisk, RiskOf
<1>1. PICK n, asks, levels, best, high, impact, depth :
        /\ asks = Asks /\ n = Cardinality(asks) /\ levels = LevelsOf(Vols, n)
        /\ best = Book!BestAsk /\ high = (IF asks = {} THEN 0 ELSE Max(asks))
        /\ impact = Graph!simulate_market_impact(levels, Probe) /\ depth = Total(Vols)
  OBVIOUS
<1>2. /\ asks \in SUBSET (0 .. MaxPriceTicks) /\ asks \in SUBSET Nat /\ IsFiniteSet(asks)
      /\ DOMAIN Vols = asks /\ Vols \in [asks -> Nat \ {0}] /\ n \in Nat
  BY <1>1, AsksNow, FS_CardinalityType
<1>3. PICK sum : IsLadder(levels, sum, n) /\ sum[n] = depth
  BY <1>1, <1>2, LevelsAreLadder
<1>4. \A i \in 1 .. n : levels[i].price \in asks /\ levels[i].volume = Vols[levels[i].price]
  BY <1>1, <1>2, LevelsAreLadder
<1>5. best \in Nat /\ \A p \in asks : best <= p
  <2>1. CASE asks = {}
    BY <1>1, <2>1, EngineAssumption DEF Book!BestAsk, Asks
  <2>2. CASE asks # {}
    <3>1. best = Book!Min(asks)
      BY <1>1, <2>2 DEF Book!BestAsk, Asks
    <3>2. Book!Min(asks) \in asks /\ \A p \in asks : Book!Min(asks) <= p
      BY <1>2, <2>2, LeastOf DEF Book!Min
    <3> QED
      BY <1>2, <3>1, <3>2
  <2> QED
    BY <2>1, <2>2
<1>6. high \in Nat /\ \A p \in asks : p <= high
  <2>1. CASE asks = {}
    BY <1>1, <2>1
  <2>2. CASE asks # {}
    <3>1. MaxPriceTicks \in Nat
      BY EngineAssumption
    <3>2. PICK x \in asks : \A y \in asks : x >= y
      BY <1>2, <2>2, <3>1, GreatestOf
    <3>3. high = x
      BY <1>1, <1>2, <2>2, <3>2, MaxIs
    <3> QED
      BY <1>2, <3>2, <3>3
  <2> QED
    BY <2>1, <2>2
<1>7. /\ impact.filled \in Nat /\ impact.filled <= Graph!Smaller(Probe, depth)
      /\ impact.remaining = Probe - impact.filled
      /\ (\A p \in asks : Vols[p] < Width) => impact.filled = Graph!Smaller(Probe, depth)
      /\ impact.notional >= best * impact.filled /\ impact.notional <= high * impact.filled
  <2>1. /\ \A k \in 1 .. n : best <= levels[k].price /\ levels[k].price <= high
        /\ (\A p \in asks : Vols[p] < Width) => \A k \in 1 .. n : levels[k].volume < Width
    BY <1>2, <1>4, <1>5, <1>6
  <2>2. LET w == Graph!simulate_market_impact(levels, Probe)
        IN  /\ w.filled \in Nat /\ w.filled <= Graph!Smaller(Probe, sum[n])
            /\ w.remaining = Probe - w.filled
            /\ (\A k \in 1 .. n : levels[k].volume < Width) =>
                 w.filled = Graph!Smaller(Probe, sum[n])
            /\ w.notional >= best * w.filled /\ w.notional <= high * w.filled
    BY <1>3, <1>5, <1>6, <2>1, WalkUp
  <2> QED
    BY <1>1, <1>3, <2>1, <2>2
<1>8. Book!TopAsks(TotalDepth) = levels
  BY <1>1, <1>2, TopAsksAre
<1>9. /\ figures.impact = impact /\ figures.fully_filled = Graph!fully_filled(levels, impact)
      /\ figures.flash_crash = Graph!compute_flash_crash_probability(levels, TopDepth)
  BY <1>1, <1>8 DEF Figures
<1>10. Probe \in Nat /\ Probe > 0 /\ depth \in Nat /\ Len(levels) = n /\ (levels = << >> <=> n = 0)
  <2>1. Probe \in Nat /\ Probe > 0
    BY EngineAssumption, SMTT(30)
  <2>2. n \in 0 .. n
    BY <1>2
  <2>3. Len(levels) = n /\ levels \in Seq(Graph!PriceLevel) /\ sum[n] \in Nat
    BY <1>3, <2>2 DEF IsLadder
  <2>4. levels = << >> <=> n = 0
    BY <1>2, <2>3
  <2> QED
    BY <1>3, <2>1, <2>3, <2>4
<1>11. figures.fully_filled <=> impact.filled = Probe
  <2>1. n = 0 => depth = 0
    BY <1>3 DEF IsLadder
  <2>2. impact.remaining = 0 <=> impact.filled = Probe
    BY <1>7, <1>10
  <2>3. impact.filled = Probe => depth >= Probe
    BY <1>7, <1>10 DEF Graph!Smaller
  <2>4. levels # << >> /\ impact.remaining = 0 <=> impact.filled = Probe
    BY <1>10, <2>1, <2>2, <2>3
  <2> QED
    BY <1>9, <2>4, Zenon DEF Graph!fully_filled
<1>12. PICK j : j = Graph!Smaller(TopDepth, n)
  OBVIOUS
<1>13. j \in 0 .. n /\ n \in 0 .. n /\ Graph!Smaller(n, n) = n /\ (j = n <=> n <= TopDepth)
  BY <1>2, <1>12, EngineAssumption DEF Graph!Smaller
<1>14. figures.flash_crash.total = depth /\ figures.flash_crash.top = sum[j]
  <2>1. figures.flash_crash = [top |-> SummedVolumes(SubSeq(levels, 1, j)),
                               total |-> SummedVolumes(SubSeq(levels, 1, n))]
    <3>1. Graph!compute_flash_crash_probability(levels, TopDepth) =
            [top |-> SummedVolumes(SubSeq(levels, 1, Graph!Smaller(TopDepth, Len(levels)))),
             total |-> SummedVolumes(SubSeq(levels, 1, Graph!Smaller(Len(levels), Len(levels))))]
      BY DEF Graph!compute_flash_crash_probability, SummedVolumes
    <3> QED
      BY <1>9, <1>10, <1>12, <1>13, <3>1
  <2>2. SummedVolumes(SubSeq(levels, 1, j)) = sum[j] /\ SummedVolumes(SubSeq(levels, 1, n)) = sum[n]
    BY <1>3, <1>13, LadderVolume
  <2> QED
    BY <1>3, <2>1, <2>2
<1>15. sum[j] = depth <=> n <= TopDepth
  <2>1. j < n => sum[j] < sum[n]
    BY <1>3, <1>13, LadderClimbs
  <2>2. sum[j] \in Nat /\ sum[n] \in Nat
    BY <1>3, <1>13 DEF IsLadder
  <2>3. j = n \/ j < n
    BY <1>2, <1>13
  <2> QED
    BY <1>3, <1>13, <2>1, <2>2, <2>3
<1>16. Graph!Smaller(Probe, depth) = Book!Lesser(Probe, depth)
  BY DEF Graph!Smaller, Book!Lesser
<1>17. asks # {} => high = Max(asks)
  BY <1>1
<1> QED
  BY <1>1, <1>2, <1>7, <1>9, <1>11, <1>14, <1>15, <1>16, <1>17 DEF Risk

LEMMA RiskStaysHonest == BookInv' => HonestRisk'
BY RiskIsHonest, PTL

LEMMA RiskByVolumesNext == BookInv' => RiskMatchesVolumes'
BY RiskByVolumes, PTL

LEMMA VolsKept == ASSUME queues' = queues PROVE Vols' = Vols /\ Book!BestAsk' = Book!BestAsk
<1>1. VolumesSummed /\ VolumesSummed'
  BY VolumesAreSummed, PTL
<1>2. ASSUME NEW s PROVE Book!NonEmpty(s)' = Book!NonEmpty(s)
  BY DEF Book!NonEmpty
<1>3. \A p : Book!Volume("SELL", p)' = Book!Volume("SELL", p)
  BY <1>1, <1>2 DEF VolumesSummed
<1> QED
  BY <1>2, <1>3 DEF Vols, Asks, Book!BestAsk

(* In every snapshot the probe is filled as far as the asks go, or less    *)
(* far where a level's volume does not fit 32 bits, but never further; at  *)
(* a price between the best and the worst of them; and the risk scored is  *)
(* that of the levels past the top, whatever levels the book has.          *)
THEOREM RiskIsTheDepth == Spec => []RiskMatchesDepth
<1>1. Init => RiskMatchesDepth
  BY DEF Init, RiskMatchesDepth
<1>2. IInv /\ IInv' /\ RiskMatchesDepth /\ [Next]_vars => RiskMatchesDepth'
  <2> SUFFICES ASSUME IInv, IInv', RiskMatchesDepth, [Next]_vars
               PROVE  RiskMatchesDepth'
    OBVIOUS
  <2>1. HonestRisk' /\ RiskMatchesVolumes' /\ RiskMatchesVolumes
    BY RiskStaysHonest, RiskByVolumes, RiskByVolumesNext DEF IInv, Registers
  <2>2. \A snap \in published : RiskOf(snap.figures, Vols, Book!BestAsk)
    BY <2>1 DEF RiskMatchesVolumes
  <2>3. \A snap \in published' : RiskOf(snap.figures, Vols', Book!BestAsk')
    <3>1. CASE Publishes
      BY <2>1, <3>1 DEF Publishes, HonestRisk
    <3>2. CASE UNCHANGED <<published, queues>>
      BY <2>2, <3>2, VolsKept
    <3> QED
      BY <3>1, <3>2, StepPublishes
  <2> QED
    BY <2>1, <2>3 DEF RiskMatchesVolumes
<1> QED
  BY <1>1, <1>2, Inductive, PTL DEF Spec

-----------------------------------------------------------------------------
(* The search for an arbitrage among any number of assets: what it reports *)
(* is worth trading.  The engine uses it for three.                        *)

CONSTANT n_assets
Rates == INSTANCE GraphEngine

(* Nodes that lead to each other along the predecessors and nowhere else.  *)
Loop(C, pred) == C # {} /\ \A y \in C : pred[y] \in C /\ \E x \in C : pred[x] = y

(* Going back over an edge gains at least its weight, what the predecessor *)
(* was reached with having become less since; and where the predecessors   *)
(* close a loop, one of its edges gains more, as the edge that closed the  *)
(* loop lowered a node that another one's distance was made from.          *)
Slack(w, s) ==
  /\ s \in Rates!Searches
  /\ \A v \in Rates!Assets : s.pred[v] # Rates!NoPred =>
       /\ w[s.pred[v]][v] < Rates!NoEdge
       /\ s.dist[s.pred[v]] + w[s.pred[v]][v] <= s.dist[v]
  /\ \A C \in SUBSET Rates!Assets : Loop(C, s.pred) =>
       \E v \in C : s.dist[s.pred[v]] + w[s.pred[v]][v] < s.dist[v]

LEMMA NoPredIsNone == Rates!NoPred \notin Rates!Assets
BY DEF Rates!NoPred, Rates!Assets

LEMMA RelaxSlack ==
  ASSUME NEW w \in Rates!Weights, NEW s, Slack(w, s),
         NEW u \in Rates!Assets, NEW v \in Rates!Assets
  PROVE  Slack(w, Rates!Relax(w, s, <<u, v>>))
<1>1. PICK A, none, dist, pred : /\ A = Rates!Assets /\ none = Rates!NoPred
                                 /\ dist = s.dist /\ pred = s.pred
  OBVIOUS
<1>2. /\ dist \in [A -> Int] /\ pred \in [A -> A \union {none}]
      /\ s = [dist |-> dist, pred |-> pred] /\ none \notin A /\ u \in A /\ v \in A
  BY <1>1, NoPredIsNone DEF Slack, Rates!Searches
<1>3. \A x, y \in A : w[x][y] \in Int
  BY <1>1 DEF Rates!Weights
<1>4. \A x \in A : pred[x] # none => /\ pred[x] \in A /\ w[pred[x]][x] < Rates!NoEdge
                                     /\ dist[pred[x]] + w[pred[x]][x] <= dist[x]
  BY <1>1, <1>2 DEF Slack
<1>5. \A C \in SUBSET A : Loop(C, pred) => \E x \in C : dist[pred[x]] + w[pred[x]][x] < dist[x]
  BY <1>1 DEF Slack
<1>6. CASE ~Rates!Shortens(w, s, <<u, v>>)
  BY <1>6 DEF Rates!Relax
<1>7. CASE Rates!Shortens(w, s, <<u, v>>)
  <2>1. PICK g, d : g = w[u][v] /\ d = dist[u] + g
    OBVIOUS
  <2>2. g < Rates!NoEdge /\ d < dist[v] /\ g \in Int /\ d \in Int
    BY <1>1, <1>2, <1>3, <1>7, <2>1 DEF Rates!Shortens
  <2>3. PICK dist1, pred1 : /\ dist1 = [dist EXCEPT ![v] = d]
                            /\ pred1 = [pred EXCEPT ![v] = u]
    OBVIOUS
  <2>4. Rates!Relax(w, s, <<u, v>>) = [dist |-> dist1, pred |-> pred1]
    BY <1>2, <1>7, <2>1, <2>3 DEF Rates!Relax
  <2>5. /\ dist1 \in [A -> Int] /\ pred1 \in [A -> A \union {none}]
        /\ dist1[v] = d /\ pred1[v] = u
        /\ \A x \in A : x # v => dist1[x] = dist[x] /\ pred1[x] = pred[x]
        /\ \A x \in A : dist1[x] <= dist[x]
    BY <1>2, <2>2, <2>3
  <2>6. ASSUME NEW x \in A, pred1[x] # none
        PROVE  w[pred1[x]][x] < Rates!NoEdge /\ dist1[pred1[x]] + w[pred1[x]][x] <= dist1[x]
    <3>1. CASE x = v
      <4>1. dist1[u] \in Int /\ dist1[u] <= dist[u] /\ dist[u] \in Int
        BY <1>2, <2>5
      <4> QED
        BY <2>1, <2>2, <2>5, <3>1, <4>1
    <3>2. CASE x # v
      <4>1. /\ pred1[x] = pred[x] /\ pred[x] \in A /\ dist1[x] = dist[x]
            /\ w[pred[x]][x] < Rates!NoEdge /\ dist[pred[x]] + w[pred[x]][x] <= dist[x]
        BY <1>4, <2>5, <2>6, <3>2
      <4>2. PICK p, h : p = pred[x] /\ h = w[p][x]
        OBVIOUS
      <4>3. /\ dist1[p] \in Int /\ dist[p] \in Int /\ h \in Int /\ dist[x] \in Int
            /\ dist1[p] <= dist[p] /\ dist[p] + h <= dist[x]
        BY <1>2, <1>3, <2>5, <4>1, <4>2
      <4> QED
        BY <4>1, <4>2, <4>3
    <3> QED
      BY <3>1, <3>2
  <2>7. ASSUME NEW C \in SUBSET A, Loop(C, pred1)
        PROVE  \E x \in C : dist1[pred1[x]] + w[pred1[x]][x] < dist1[x]
    <3>1. CASE v \in C
      <4>1. PICK x \in C : pred1[x] = v
        BY <2>7, <3>1 DEF Loop
      <4>2. CASE x = v
        BY <1>2, <2>1, <2>2, <2>5, <4>1, <4>2
      <4>3. CASE x # v
        <5>1. x \in A /\ pred[x] = v /\ dist1[x] = dist[x] /\ v # none
          BY <1>2, <2>5, <4>1, <4>3
        <5>2. PICK h : h = w[v][x]
          OBVIOUS
        <5>3. dist[v] + h <= dist[x] /\ h \in Int /\ dist[v] \in Int /\ dist[x] \in Int
          BY <1>2, <1>3, <1>4, <5>1, <5>2
        <5>4. d + h < dist[x]
          BY <2>2, <5>3
        <5> QED
          BY <2>5, <4>1, <5>1, <5>2, <5>4
      <4> QED
        BY <4>2, <4>3
    <3>2. CASE v \notin C
      <4>1. \A x \in C : x \in A /\ x # v /\ pred1[x] = pred[x] /\ dist1[x] = dist[x]
        BY <2>5, <3>2
      <4>2. Loop(C, pred)
        BY <2>7, <4>1 DEF Loop
      <4>3. PICK x \in C : dist[pred[x]] + w[pred[x]][x] < dist[x]
        BY <1>5, <4>2
      <4>4. pred[x] \in C
        BY <4>2 DEF Loop
      <4> QED
        BY <4>1, <4>3, <4>4
    <3> QED
      BY <3>1, <3>2
  <2>8. [dist |-> dist1, pred |-> pred1] \in Rates!Searches
    BY <1>1, <2>5 DEF Rates!Searches
  <2> QED
    BY <1>1, <2>4, <2>6, <2>7, <2>8 DEF Slack
<1> QED
  BY <1>6, <1>7

LEMMA EdgeIs ==
  ASSUME n_assets \in Nat \ {0}, NEW k \in Nat \ {0}
  PROVE  \E u, v \in Rates!Assets : Rates!Edge(k) = <<u, v>>
<1>1. \A m \in Int : m % n_assets \in 0 .. n_assets - 1
  OBVIOUS
<1>2. k - 1 \in Int /\ (k - 1) \div n_assets \in Int
  OBVIOUS
<1>3. ((k - 1) \div n_assets) % n_assets \in Rates!Assets /\ (k - 1) % n_assets \in Rates!Assets
  BY <1>1, <1>2 DEF Rates!Assets
<1> QED
  BY <1>3 DEF Rates!Edge

LEMMA RelaxedSlack ==
  ASSUME n_assets \in Nat \ {0}, NEW w \in Rates!Weights
  PROVE  Slack(w, Rates!Relaxed(w))
<1> DEFINE base == [dist |-> [v \in Rates!Assets |-> 0], pred |-> [v \in Rates!Assets |-> Rates!NoPred]]
           edges == [k \in 1 .. (n_assets - 1) * n_assets * n_assets |-> Rates!Edge(k)]
           step == [x \in Rates!Searches \X (Rates!Assets \X Rates!Assets) |->
                      Rates!Relax(w, x[1], x[2])]
           good == {s \in Rates!Searches : Slack(w, s)}
<1>1. Rates!Relaxed(w) = Folded(step, base, edges)
  BY DEF Rates!Relaxed, Folded, Rates!FoldLeft, Graph!FoldLeft, Rates!MapThenFoldSet,
         Graph!MapThenFoldSet, Rates!Max, Graph!Max
<1>2. PICK m \in Nat : m = (n_assets - 1) * n_assets * n_assets
  <2>1. PICK a, b : a = n_assets - 1 /\ b = n_assets
    OBVIOUS
  <2>2. a \in Nat /\ b \in Nat
    BY <2>1
  <2>3. a * b \in Nat
    BY <2>2
  <2>4. (a * b) * b \in Nat
    BY <2>2, <2>3
  <2> QED
    BY <2>1, <2>4
<1>3. /\ DOMAIN edges = 1 .. m /\ Len(edges) = m
      /\ \A k \in 1 .. m : edges[k] = Rates!Edge(k)
  BY <1>2
<1>4. ASSUME NEW s \in good, NEW u \in Rates!Assets, NEW v \in Rates!Assets
      PROVE  step[<<s, <<u, v>> >>] \in good
  <2>1. PICK e : e = <<u, v>>
    OBVIOUS
  <2>2. e \in Rates!Assets \X Rates!Assets /\ s \in Rates!Searches
    BY <2>1
  <2>3. step[<<s, e>>] = Rates!Relax(w, s, e)
    BY <2>2
  <2>4. Slack(w, Rates!Relax(w, s, e))
    BY <2>1, RelaxSlack
  <2> QED
    BY <2>1, <2>3, <2>4 DEF Slack
<1>5. base \in good
  <2>1. Rates!NoPred \in Int
    BY DEF Rates!NoPred
  <2>2. base \in Rates!Searches
    BY DEF Rates!Searches
  <2>3. \A v \in Rates!Assets : base.pred[v] = Rates!NoPred
    OBVIOUS
  <2>4. \A C \in SUBSET Rates!Assets : ~Loop(C, base.pred)
    BY <2>3, NoPredIsNone DEF Loop
  <2> HIDE DEF base
  <2> QED
    BY <2>2, <2>3, <2>4 DEF Slack
<1> HIDE DEF base, edges, step, good
<1> DEFINE inv == [k \in 0 .. m |-> good]
<1>6. ASSUME NEW k \in 1 .. m, NEW s \in inv[k - 1] PROVE step[<<s, edges[k]>>] \in inv[k]
  <2>1. k - 1 \in 0 .. m /\ k \in 0 .. m /\ k \in Nat \ {0}
    OBVIOUS
  <2>2. s \in good /\ inv[k] = good
    BY <2>1
  <2>3. PICK u, v \in Rates!Assets : Rates!Edge(k) = <<u, v>>
    BY <2>1, EdgeIs
  <2> QED
    BY <1>3, <1>4, <2>2, <2>3
<1>7. base \in inv[0] /\ inv[m] = good
  BY <1>5
<1> HIDE DEF inv
<1>8. PICK r : IsRun(r, step, base, edges) /\ r[Len(edges)] = Folded(step, base, edges)
  <2>1. Len(edges) \in Nat /\ DOMAIN edges = 1 .. Len(edges)
    BY <1>3
  <2> QED
    BY <2>1, FoldIsRun
<1>9. \A k \in 0 .. Len(edges) : r[k] \in inv[k]
  <2>1. Len(edges) \in Nat
    BY <1>3
  <2>2. \A k \in 1 .. Len(edges) : \A s \in inv[k - 1] : step[<<s, edges[k]>>] \in inv[k]
    BY <1>3, <1>6
  <2> QED
    BY <1>7, <1>8, <2>1, <2>2, RunKeeps
<1>10. r[Len(edges)] \in good
  <2>1. Len(edges) \in 0 .. Len(edges)
    BY <1>3
  <2> QED
    BY <1>3, <1>7, <1>9, <2>1
<1> QED
  BY <1>1, <1>8, <1>10 DEF good

(* a is the walk back from v: node by node to the predecessor. *)
Back(pred, x) == IF x = Rates!NoPred THEN Rates!NoPred ELSE pred[x]

LEMMA WalkIs ==
  ASSUME n_assets \in Nat, NEW pred, NEW v
  PROVE  /\ Rates!Walk(pred, v)[0] = v
         /\ \A i \in 1 .. n_assets : Rates!Walk(pred, v)[i] = Back(pred, Rates!Walk(pred, v)[i - 1])
<1> DEFINE E(at) == [i \in 0 .. n_assets |->
                       IF i = 0 THEN v ELSE IF at[i - 1] = Rates!NoPred THEN Rates!NoPred
                                            ELSE pred[at[i - 1]]]
           walk == CHOOSE at : at = E(at)
<1>1. Rates!Walk(pred, v) = walk
  BY DEF Rates!Walk
<1>2. walk = E(walk)
  <2> DEFINE G == {k \in Nat : \E h : /\ h[0] = v
                                      /\ \A i \in 1 .. k : h[i] = Back(pred, h[i - 1])}
  <2>1. 0 \in G
    <3>1. [i \in {0} |-> v][0] = v /\ 1 .. 0 = {}
      OBVIOUS
    <3> QED
      BY <3>1
  <2>2. ASSUME NEW k \in G PROVE k + 1 \in G
    <3>1. PICK h : h[0] = v /\ \A i \in 1 .. k : h[i] = Back(pred, h[i - 1])
      OBVIOUS
    <3>2. PICK x : x = Back(pred, h[k])
      OBVIOUS
    <3> DEFINE h1 == [i \in 0 .. k + 1 |-> IF i = k + 1 THEN x ELSE h[i]]
    <3>3. k \in Nat /\ k + 1 \in Nat /\ 0 \in 0 .. k + 1 /\ 0 # k + 1
      OBVIOUS
    <3>4. h1[0] = v
      BY <3>1, <3>3
    <3>5. ASSUME NEW i \in 1 .. k + 1 PROVE h1[i] = Back(pred, h1[i - 1])
      <4>1. i \in 0 .. k + 1 /\ i - 1 \in 0 .. k + 1 /\ i - 1 # k + 1 /\ (i = k + 1 \/ i \in 1 .. k)
            /\ (k + 1) - 1 = k
        BY <3>3
      <4>2. h1[i - 1] = h[i - 1]
        BY <4>1
      <4>3. CASE i = k + 1
        BY <3>2, <4>1, <4>2, <4>3
      <4>4. CASE i \in 1 .. k
        <5>1. i # k + 1
          BY <3>3, <4>4
        <5> QED
          BY <3>1, <4>1, <4>2, <4>4, <5>1
      <4> QED
        BY <4>1, <4>3, <4>4
    <3> HIDE DEF h1
    <3> QED
      BY <3>3, <3>4, <3>5
  <2>3. n_assets \in G
    <3>1. G \in SUBSET Nat
      OBVIOUS
    <3> HIDE DEF G
    <3> QED
      BY <2>1, <2>2, <3>1, SetInduction
  <2>4. PICK h : h[0] = v /\ \A i \in 1 .. n_assets : h[i] = Back(pred, h[i - 1])
    BY <2>3
  <2> DEFINE at == [i \in 0 .. n_assets |-> h[i]]
  <2>5. at[0] = v
    BY <2>4
  <2>6. ASSUME NEW i \in 0 .. n_assets, i # 0
        PROVE  at[i] = IF at[i - 1] = Rates!NoPred THEN Rates!NoPred ELSE pred[at[i - 1]]
    <3>1. i \in 1 .. n_assets /\ i - 1 \in 0 .. n_assets
      BY <2>6
    <3> QED
      BY <2>4, <3>1 DEF Back
  <2>7. at = [i \in 0 .. n_assets |-> at[i]]
    OBVIOUS
  <2> HIDE DEF at
  <2>8. at = E(at)
    BY <2>5, <2>6, <2>7
  <2> HIDE DEF E
  <2> QED
    BY <2>8
<1> HIDE DEF walk
<1>3. walk[0] = v
  BY <1>2
<1>4. ASSUME NEW i \in 1 .. n_assets PROVE walk[i] = Back(pred, walk[i - 1])
  <2>1. i \in 0 .. n_assets /\ i # 0
    OBVIOUS
  <2> QED
    BY <1>2, <2>1 DEF Back
<1> QED
  BY <1>1, <1>3, <1>4

IsWalk(a, pred, n) ==
  /\ pred \in [Rates!Assets -> Rates!Assets \union {Rates!NoPred}]
  /\ a[0] \in Rates!Assets
  /\ \A i \in 1 .. n : a[i] = Back(pred, a[i - 1])

(* As long as a walk has not fallen off, all it met are nodes. *)
LEMMA WalkStays ==
  ASSUME NEW a, NEW pred, NEW n, n \in Nat, IsWalk(a, pred, n)
  PROVE  \A m \in 0 .. n : a[m] # Rates!NoPred =>
           /\ \A i \in 0 .. m : a[i] \in Rates!Assets
           /\ \A i \in 1 .. m : a[i] = pred[a[i - 1]]
<1> SUFFICES ASSUME NEW m \in 0 .. n, a[m] # Rates!NoPred
             PROVE  /\ \A i \in 0 .. m : a[i] \in Rates!Assets
                    /\ \A i \in 1 .. m : a[i] = pred[a[i - 1]]
  OBVIOUS
<1>1. PICK A, none : A = Rates!Assets /\ none = Rates!NoPred
  OBVIOUS
<1>2. /\ none \notin A /\ m \in Nat /\ pred \in [A -> A \union {none}] /\ a[0] \in A
      /\ \A i \in 1 .. m : a[i] = IF a[i - 1] = none THEN none ELSE pred[a[i - 1]]
  BY <1>1, NoPredIsNone DEF Back, IsWalk
<1> DEFINE Off(k) == a[m - k] # none
           On(k) == a[k] \in A
           G == {k \in Nat : k <= m => Off(k)}
           H == {k \in Nat : k <= m => On(k)}
<1>3. \A k \in Nat : k \in G
  <2>1. 0 \in G
    BY <1>1
  <2>2. ASSUME NEW k \in Nat, k <= m => Off(k), k + 1 <= m PROVE Off(k + 1)
    <3>1. m - k \in 1 .. m /\ m - (k + 1) = (m - k) - 1 /\ k <= m
      BY <1>2, <2>2
    <3> QED
      BY <1>2, <2>2, <3>1
  <2>3. G \in SUBSET Nat
    OBVIOUS
  <2> HIDE DEF Off
  <2>4. \A k \in G : k + 1 \in G
    BY <2>2
  <2> HIDE DEF G
  <2> QED
    BY <2>1, <2>3, <2>4, SetInduction
<1>4. \A i \in 0 .. m : a[i] # none
  <2>1. \A i \in 0 .. m : m - i \in Nat /\ m - i <= m /\ m - (m - i) = i
    BY <1>2
  <2>2. \A i \in 0 .. m : Off(m - i)
    BY <1>3, <2>1
  <2> QED
    BY <2>1, <2>2
<1>5. \A k \in Nat : k \in H
  <2>1. 0 \in H
    BY <1>2
  <2>2. ASSUME NEW k \in Nat, k <= m => On(k), k + 1 <= m PROVE On(k + 1)
    <3>1. k + 1 \in 1 .. m /\ k + 1 \in 0 .. m /\ k \in 0 .. m /\ (k + 1) - 1 = k /\ k <= m
      BY <1>2, <2>2
    <3> QED
      BY <1>2, <1>4, <2>2, <3>1
  <2>3. H \in SUBSET Nat
    OBVIOUS
  <2> HIDE DEF On
  <2>4. \A k \in H : k + 1 \in H
    BY <2>2
  <2> HIDE DEF H
  <2> QED
    BY <2>1, <2>3, <2>4, SetInduction
<1>6. \A i \in 0 .. m : On(i)
  BY <1>2, <1>5
<1>7. \A i \in 1 .. m : a[i] = pred[a[i - 1]]
  <2>1. \A i \in 1 .. m : i - 1 \in 0 .. m
    BY <1>2
  <2> QED
    BY <1>2, <1>4, <2>1
<1> QED
  BY <1>1, <1>6, <1>7

(* A walk of as many steps as there are nodes has met one of them twice,   *)
(* and from there on runs in a circle, which its last node is on.          *)
LEMMA WalkCloses ==
  ASSUME NEW n \in Nat \ {0}, n = n_assets, NEW pred, NEW a, IsWalk(a, pred, n),
         a[n] # Rates!NoPred, NEW b, IsWalk(b, pred, n), b[0] = a[n]
  PROVE  \E p \in 1 .. n : b[p] = a[n]
<1>1. PICK A : A = Rates!Assets /\ A = 0 .. n - 1
  BY DEF Rates!Assets
<1>2. n \in 0 .. n /\ n \in Nat
  OBVIOUS
<1>3. (\A i \in 0 .. n : a[i] \in A) /\ \A i \in 1 .. n : a[i] = pred[a[i - 1]]
  <2>1. /\ \A i \in 0 .. n : a[i] \in Rates!Assets
        /\ \A i \in 1 .. n : a[i] = pred[a[i - 1]]
    BY <1>2, WalkStays
  <2> QED
    BY <1>1, <2>1
<1>4. \E i, j \in 0 .. n : i < j /\ a[i] = a[j]
  <2> DEFINE f == [k \in 0 .. n |-> a[k]]
  <2>1. IsFiniteSet(0 .. n) /\ Cardinality(0 .. n) = n + 1
    <3>1. 0 \in Int /\ n \in Int
      OBVIOUS
    <3>2. IsFiniteSet(0 .. n) /\ Cardinality(0 .. n) = IF 0 > n THEN 0 ELSE n - 0 + 1
      BY <3>1, FS_Interval
    <3> QED
      BY <3>2
  <2>2. IsFiniteSet(A) /\ Cardinality(A) = n
    <3>1. 0 \in Int /\ n - 1 \in Int
      OBVIOUS
    <3>2. IsFiniteSet(0 .. n - 1) /\ Cardinality(0 .. n - 1) = IF 0 > n - 1 THEN 0 ELSE (n - 1) - 0 + 1
      BY <3>1, FS_Interval
    <3> QED
      BY <1>1, <3>2
  <2>3. f \in [0 .. n -> A]
    BY <1>3
  <2>4. Cardinality(A) < Cardinality(0 .. n)
    BY <2>1, <2>2
  <2> HIDE DEF f
  <2>5. PICK x, y \in 0 .. n : x # y /\ f[x] = f[y]
    BY <2>1, <2>2, <2>3, <2>4, FS_PigeonHole
  <2>6. a[x] = a[y]
    BY <2>5 DEF f
  <2>7. x < y \/ y < x
    BY <2>5
  <2> QED
    BY <2>6, <2>7
<1> PICK i, j \in 0 .. n : i < j /\ a[i] = a[j]
  BY <1>4
<1>5. PICK p, q : p = j - i /\ q = n - j
  OBVIOUS
<1>6. p \in 1 .. n /\ q \in Nat /\ i + q = n - p /\ j + q = n /\ p \in Nat /\ n - p \in 0 .. n
  BY <1>4, <1>5
<1> DEFINE Circle(k) == a[i + k] = a[j + k]
           G == {k \in Nat : k <= q => Circle(k)}
<1>7. \A k \in Nat : k \in G
  <2>1. 0 \in G
    BY <1>4
  <2>2. ASSUME NEW k \in Nat, k <= q => Circle(k), k + 1 <= q PROVE Circle(k + 1)
    <3>1. /\ i + (k + 1) \in 1 .. n /\ j + (k + 1) \in 1 .. n /\ k <= q
          /\ (i + (k + 1)) - 1 = i + k /\ (j + (k + 1)) - 1 = j + k
      BY <1>4, <1>5, <2>2
    <3> QED
      BY <1>3, <2>2, <3>1
  <2>3. G \in SUBSET Nat
    OBVIOUS
  <2> HIDE DEF Circle
  <2>4. \A k \in G : k + 1 \in G
    BY <2>2
  <2> HIDE DEF G
  <2> QED
    BY <2>1, <2>3, <2>4, SetInduction
<1>8. a[n - p] = a[n]
  <2>1. Circle(q)
    BY <1>6, <1>7
  <2> QED
    BY <1>6, <2>1
<1> DEFINE Same(k) == b[k] = a[(n - p) + k]
           H == {k \in Nat : k <= p => Same(k)}
<1>9. \A k \in Nat : k \in H
  <2>1. 0 \in H
    <3>1. (n - p) + 0 = n - p
      BY <1>6
    <3> QED
      BY <1>8, <3>1
  <2>2. ASSUME NEW k \in Nat, k <= p => Same(k), k + 1 <= p PROVE Same(k + 1)
    <3>1. /\ k + 1 \in 1 .. n /\ (n - p) + (k + 1) \in 1 .. n /\ k <= p
          /\ (k + 1) - 1 = k /\ ((n - p) + (k + 1)) - 1 = (n - p) + k
      BY <1>6, <2>2
    <3>2. b[k + 1] = Back(pred, b[k]) /\ a[(n - p) + (k + 1)] = Back(pred, a[(n - p) + k])
      BY <3>1 DEF IsWalk
    <3> QED
      BY <2>2, <3>1, <3>2
  <2>3. H \in SUBSET Nat
    OBVIOUS
  <2> HIDE DEF Same
  <2>4. \A k \in H : k + 1 \in H
    BY <2>2
  <2> HIDE DEF H
  <2> QED
    BY <2>1, <2>3, <2>4, SetInduction
<1>10. b[p] = a[n]
  <2>1. Same(p)
    BY <1>6, <1>9
  <2>2. (n - p) + p = n
    BY <1>6
  <2> QED
    BY <2>1, <2>2
<1> QED
  BY <1>6, <1>10

(* What the recursion of CycleWeight computes. *)
IsTotal(t, w, c) ==
  /\ t[0] = 0
  /\ \A i \in 1 .. Len(c) - 1 : t[i] = t[i - 1] + w[c[i]][c[i + 1]]

LEMMA WeightIs ==
  ASSUME NEW w, NEW c, Len(c) \in Nat \ {0}
  PROVE  \E t : IsTotal(t, w, c) /\ Rates!CycleWeight(w, c) = t[Len(c) - 1]
<1> PICK L \in Nat : L = Len(c) - 1
  OBVIOUS
<1> DEFINE E(t) == [i \in 0 .. Len(c) - 1 |-> IF i = 0 THEN 0 ELSE t[i - 1] + w[c[i]][c[i + 1]]]
           total == CHOOSE t : t = E(t)
<1>1. Rates!CycleWeight(w, c) = total[L]
  <2>1. Len(c) - 1 = L
    OBVIOUS
  <2> QED
    BY <2>1 DEF Rates!CycleWeight
<1>2. total = E(total)
  <2> DEFINE G == {k \in Nat : \E h : /\ h[0] = 0
                                      /\ \A i \in 1 .. k : h[i] = h[i - 1] + w[c[i]][c[i + 1]]}
  <2>1. 0 \in G
    <3>1. [i \in {0} |-> 0][0] = 0 /\ 1 .. 0 = {}
      OBVIOUS
    <3> QED
      BY <3>1
  <2>2. ASSUME NEW k \in G PROVE k + 1 \in G
    <3>1. PICK h : h[0] = 0 /\ \A i \in 1 .. k : h[i] = h[i - 1] + w[c[i]][c[i + 1]]
      OBVIOUS
    <3>2. k \in Nat /\ k + 1 \in Nat /\ 0 \in 0 .. k + 1 /\ 0 # k + 1 /\ (k + 1) - 1 = k
      OBVIOUS
    <3>3. PICK x : x = h[k] + w[c[k + 1]][c[(k + 1) + 1]]
      OBVIOUS
    <3> DEFINE h1 == [i \in 0 .. k + 1 |-> IF i = k + 1 THEN x ELSE h[i]]
    <3>4. h1[0] = 0
      BY <3>1, <3>2
    <3>5. ASSUME NEW i \in 1 .. k + 1 PROVE h1[i] = h1[i - 1] + w[c[i]][c[i + 1]]
      <4>1. i \in 0 .. k + 1 /\ i - 1 \in 0 .. k + 1 /\ i - 1 # k + 1 /\ (i = k + 1 \/ i \in 1 .. k)
        BY <3>2
      <4>2. h1[i - 1] = h[i - 1]
        BY <4>1
      <4>3. CASE i = k + 1
        <5>1. h1[i] = x
          BY <4>1, <4>3
        <5> HIDE DEF h1
        <5> QED
          BY <3>2, <3>3, <4>2, <4>3, <5>1
      <4>4. CASE i \in 1 .. k
        <5>1. i # k + 1
          BY <3>2, <4>4
        <5>2. h1[i] = h[i]
          BY <4>1, <5>1
        <5> HIDE DEF h1
        <5> QED
          BY <3>1, <4>2, <4>4, <5>2
      <4> QED
        BY <4>1, <4>3, <4>4
    <3> HIDE DEF h1
    <3> QED
      BY <3>2, <3>4, <3>5
  <2>3. L \in G
    <3>1. G \in SUBSET Nat
      OBVIOUS
    <3> HIDE DEF G
    <3> QED
      BY <2>1, <2>2, <3>1, SetInduction
  <2>4. PICK h : h[0] = 0 /\ \A i \in 1 .. L : h[i] = h[i - 1] + w[c[i]][c[i + 1]]
    BY <2>3
  <2>5. Len(c) - 1 = L
    OBVIOUS
  <2> DEFINE t == [i \in 0 .. L |-> h[i]]
  <2>6. t[0] = 0
    BY <2>4
  <2>7. ASSUME NEW i \in 0 .. L, i # 0 PROVE t[i] = t[i - 1] + w[c[i]][c[i + 1]]
    <3>1. i \in 1 .. L /\ i - 1 \in 0 .. L
      BY <2>7
    <3> QED
      BY <2>4, <3>1
  <2>8. t = [i \in 0 .. Len(c) - 1 |-> t[i]]
    BY <2>5
  <2> HIDE DEF t
  <2>9. t = E(t)
    BY <2>5, <2>6, <2>7, <2>8
  <2> HIDE DEF E
  <2> QED
    BY <2>9
<1> HIDE DEF total
<1>3. Len(c) - 1 = L
  OBVIOUS
<1>4. total[0] = 0
  BY <1>2, <1>3
<1>5. ASSUME NEW i \in 1 .. L PROVE total[i] = total[i - 1] + w[c[i]][c[i + 1]]
  <2>1. i \in 0 .. L /\ i # 0
    OBVIOUS
  <2> QED
    BY <1>2, <1>3, <2>1
<1> QED
  BY <1>1, <1>3, <1>4, <1>5 DEF IsTotal

(* c leads forward along the predecessors, and back to where it began. *)
IsCircle(c, pred, L) ==
  /\ c \in [1 .. L + 1 -> Rates!Assets] /\ c[1] = c[L + 1]
  /\ \A i \in 1 .. L : pred[c[i + 1]] = c[i]

LEMMA CircleIsLoop ==
  ASSUME NEW L \in Nat \ {0}, NEW c, NEW pred, IsCircle(c, pred, L)
  PROVE  Loop({c[i] : i \in 1 .. L}, pred) /\ {c[i] : i \in 1 .. L} \in SUBSET Rates!Assets
<1> DEFINE C == {c[i] : i \in 1 .. L}
<1>1. \A i \in 1 .. L + 1 : c[i] \in C
  <2> SUFFICES ASSUME NEW i \in 1 .. L + 1 PROVE c[i] \in C
    OBVIOUS
  <2>1. 1 \in 1 .. L /\ (i \in 1 .. L \/ i = L + 1)
    OBVIOUS
  <2> QED
    BY <2>1 DEF IsCircle
<1>2. ASSUME NEW y \in C PROVE pred[y] \in C /\ \E x \in C : pred[x] = y
  <2>1. PICK i \in 1 .. L : y = c[i]
    OBVIOUS
  <2>2. i + 1 \in 1 .. L + 1
    OBVIOUS
  <2>3. pred[c[i + 1]] = y /\ c[i + 1] \in C
    BY <1>1, <2>1, <2>2 DEF IsCircle
  <2>4. \E k \in 1 .. L : y = c[k + 1]
    <3>1. CASE i = 1
      <4>1. L \in 1 .. L
        OBVIOUS
      <4> QED
        BY <2>1, <3>1, <4>1 DEF IsCircle
    <3>2. CASE i # 1
      <4>1. i - 1 \in 1 .. L /\ (i - 1) + 1 = i
        BY <3>2
      <4> QED
        BY <2>1, <4>1
    <3> QED
      BY <3>1, <3>2
  <2>5. PICK k \in 1 .. L : y = c[k + 1]
    BY <2>4
  <2>6. pred[y] = c[k] /\ c[k] \in C
    BY <2>5 DEF IsCircle
  <2> HIDE DEF C
  <2> QED
    BY <2>3, <2>6
<1>3. C # {}
  <2>1. 1 \in 1 .. L
    OBVIOUS
  <2> QED
    BY <2>1
<1>4. C \in SUBSET Rates!Assets
  <2>1. \A i \in 1 .. L : i \in 1 .. L + 1
    OBVIOUS
  <2> QED
    BY <2>1 DEF IsCircle
<1> QED
  BY <1>2, <1>3, <1>4 DEF Loop

(* Around such a circle the gains of the edges cancel out, and one of them *)
(* is more than its weight.                                                *)
LEMMA CircleIsProfitable ==
  ASSUME NEW w \in Rates!Weights, NEW s, Slack(w, s),
         NEW L \in Nat \ {0}, NEW c, IsCircle(c, s.pred, L)
  PROVE  Rates!Profitable(w, c)
<1>1. PICK A, dist, pred : A = Rates!Assets /\ dist = s.dist /\ pred = s.pred
  OBVIOUS
<1>2. /\ dist \in [A -> Int] /\ Rates!NoPred \notin A
      /\ c \in [1 .. L + 1 -> A] /\ c[1] = c[L + 1] /\ \A i \in 1 .. L : pred[c[i + 1]] = c[i]
  BY <1>1, NoPredIsNone DEF Slack, Rates!Searches, IsCircle
<1>3. \A x, y \in A : w[x][y] \in Int
  BY <1>1 DEF Rates!Weights
<1>4. \A i \in 1 .. L : i \in 1 .. L + 1 /\ i + 1 \in 1 .. L + 1
  OBVIOUS
<1>5. ASSUME NEW i \in 1 .. L
      PROVE  w[c[i]][c[i + 1]] < Rates!NoEdge /\ dist[c[i]] + w[c[i]][c[i + 1]] <= dist[c[i + 1]]
  <2>1. c[i] \in A /\ c[i + 1] \in A /\ pred[c[i + 1]] = c[i] /\ pred[c[i + 1]] # Rates!NoPred
    BY <1>2, <1>4
  <2> QED
    BY <1>1, <2>1 DEF Slack
<1>6. \E k \in 1 .. L : dist[c[k]] + w[c[k]][c[k + 1]] < dist[c[k + 1]]
  <2> DEFINE C == {c[i] : i \in 1 .. L}
  <2>1. Loop(C, pred) /\ C \in SUBSET A
    BY <1>1, CircleIsLoop
  <2>2. PICK x \in C : dist[pred[x]] + w[pred[x]][x] < dist[x]
    BY <1>1, <2>1 DEF Slack
  <2>3. PICK i \in 1 .. L : x = c[i]
    BY <2>2
  <2>4. CASE i = 1
    <3>1. L \in 1 .. L /\ x = c[L + 1]
      BY <1>2, <2>3, <2>4
    <3>2. pred[x] = c[L]
      BY <1>2, <3>1
    <3> QED
      BY <2>2, <3>1, <3>2
  <2>5. CASE i # 1
    <3>1. i - 1 \in 1 .. L /\ (i - 1) + 1 = i
      BY <2>5
    <3>2. pred[x] = c[i - 1]
      BY <1>2, <2>3, <3>1
    <3> QED
      BY <2>2, <2>3, <3>1, <3>2
  <2> QED
    BY <2>4, <2>5
<1>7. PICK k0 \in 1 .. L : dist[c[k0]] + w[c[k0]][c[k0 + 1]] < dist[c[k0 + 1]]
  BY <1>6
<1>8. Len(c) = L + 1
  <2>1. L + 1 \in Nat /\ DOMAIN c = 1 .. L + 1 /\ c \in Seq(A)
    BY <1>2
  <2> QED
    BY <2>1
<1>9. PICK t : /\ t[0] = 0 /\ \A i \in 1 .. L : t[i] = t[i - 1] + w[c[i]][c[i + 1]]
               /\ Rates!CycleWeight(w, c) = t[L]
  <2>1. Len(c) \in Nat \ {0} /\ Len(c) - 1 = L
    BY <1>8
  <2>2. PICK t : IsTotal(t, w, c) /\ Rates!CycleWeight(w, c) = t[Len(c) - 1]
    BY <2>1, WeightIs
  <2> QED
    BY <2>1, <2>2 DEF IsTotal
<1> DEFINE Gains(k) == /\ t[k] \in Int
                       /\ dist[c[1]] + t[k] <= dist[c[k + 1]]
                       /\ k0 <= k => dist[c[1]] + t[k] < dist[c[k + 1]]
           G == {k \in Nat : k <= L => Gains(k)}
<1>10. \A k \in Nat : k \in G
  <2>1. 0 \in G
    <3>1. dist[c[1]] \in Int /\ ~(k0 <= 0) /\ 0 + 1 = 1
      BY <1>2
    <3> QED
      BY <1>9, <3>1
  <2>2. ASSUME NEW k \in Nat, k <= L => Gains(k), k + 1 <= L PROVE Gains(k + 1)
    <3>1. PICK j : j = k + 1
      OBVIOUS
    <3>2. j \in 1 .. L /\ j - 1 = k /\ k <= L /\ j \in 1 .. L + 1 /\ j + 1 \in 1 .. L + 1 /\ 1 \in 1 .. L + 1
      BY <2>2, <3>1
    <3>3. PICK d0, d1, d2, g, t0 : /\ d0 = dist[c[1]] /\ d1 = dist[c[j]] /\ d2 = dist[c[j + 1]]
                                   /\ g = w[c[j]][c[j + 1]] /\ t0 = t[k]
      OBVIOUS
    <3>4. d0 \in Int /\ d1 \in Int /\ d2 \in Int /\ g \in Int
      BY <1>2, <1>3, <3>2, <3>3
    <3>5. t0 \in Int /\ d0 + t0 <= d1 /\ (k0 <= k => d0 + t0 < d1)
      BY <2>2, <3>1, <3>2, <3>3
    <3>6. d1 + g <= d2 /\ (k0 = j => d1 + g < d2)
      BY <1>5, <1>7, <3>2, <3>3
    <3>7. t[j] = t0 + g
      BY <1>9, <3>2, <3>3
    <3>8. k0 <= j => k0 <= k \/ k0 = j
      BY <3>1
    <3> HIDE DEF Gains
    <3>9. /\ t0 + g \in Int /\ d0 + (t0 + g) <= d2
          /\ k0 <= j => d0 + (t0 + g) < d2
      BY <3>4, <3>5, <3>6, <3>8
    <3> QED
      BY <3>1, <3>3, <3>7, <3>9 DEF Gains
  <2>3. G \in SUBSET Nat
    OBVIOUS
  <2> HIDE DEF Gains
  <2>4. \A k \in G : k + 1 \in G
    BY <2>2
  <2> HIDE DEF G
  <2> QED
    BY <2>1, <2>3, <2>4, SetInduction
<1>11. t[L] \in Int /\ t[L] < 0
  <2>1. Gains(L)
    BY <1>10
  <2>2. dist[c[1]] \in Int /\ dist[c[L + 1]] = dist[c[1]] /\ k0 <= L
    BY <1>2
  <2> QED
    BY <2>1, <2>2
<1> QED
  BY <1>2, <1>5, <1>8, <1>9, <1>11 DEF Rates!Profitable

(* The places of the walk that make up the cycle, read backwards. *)
LEMMA ReadBackwards ==
  ASSUME NEW L \in Nat \ {0}, NEW i \in 1 .. L + 1
  PROVE  (2 * L - i) % L = IF i = L + 1 THEN L - 1 ELSE L - i
<1>1. PICK x, q, r : x = 2 * L - i /\ q = x \div L /\ r = x % L
  OBVIOUS
<1>2. x \in Nat /\ q \in Int /\ r \in 0 .. L - 1 /\ x = L * q + r
  BY <1>1
<1>3. L - 1 <= x /\ x <= 2 * L - 1
  BY <1>1
<1>4. q >= 0
  <2>1. ASSUME q <= -1 PROVE FALSE
    <3>1. L * q <= -L
      BY <1>2, <2>1
    <3> QED
      BY <1>2, <3>1
  <2> QED
    BY <1>2, <2>1
<1>5. q <= 1
  <2>1. ASSUME q >= 2 PROVE FALSE
    <3>1. L * q >= L * 2
      BY <1>2, <2>1
    <3> QED
      BY <1>2, <1>3, <3>1
  <2> QED
    BY <1>2, <2>1
<1>6. (q = 0 /\ x = r) \/ (q = 1 /\ x = L + r)
  <2>1. q = 0 \/ q = 1
    BY <1>2, <1>4, <1>5
  <2>2. CASE q = 0
    BY <1>2, <2>2
  <2>3. CASE q = 1
    BY <1>2, <2>3
  <2> QED
    BY <2>1, <2>2, <2>3
<1> QED
  BY <1>1, <1>2, <1>3, <1>6

(* GraphEngine::detect_arbitrage for any number of assets and any rates:   *)
(* what it reports is a closed cycle of exchanges that exist, and trading  *)
(* it returns more than was put in.  (It need not find one that there is:  *)
(* a counterexample of three assets is checked with the model.)            *)
THEOREM ArbitrageIsReal ==
  ASSUME n_assets \in Nat \ {0}, NEW w \in Rates!Weights,
         Rates!detect_arbitrage[w].opportunity_found
  PROVE  Rates!Profitable(w, Rates!detect_arbitrage[w].cycle)
<1> DEFINE s == Rates!Relaxed(w)
           open == {k \in 1 .. n_assets * n_assets : Rates!Shortens(w, s, Rates!Edge(k))}
<1>1. Rates!detect_arbitrage[w] = Rates!Found(s, open)
  BY DEF Rates!detect_arbitrage
<1>2. Slack(w, s)
  BY RelaxedSlack
<1>3. open \subseteq Nat \ {0}
  <2>1. n_assets * n_assets \in Nat
    OBVIOUS
  <2> QED
    BY <2>1
<1> HIDE DEF s, open
<1>4. ~Rates!NoArbitrage.opportunity_found
  BY DEF Rates!NoArbitrage
<1>5. PICK n, pred : n = n_assets /\ pred = s.pred
  OBVIOUS
<1>6. /\ n \in Nat \ {0} /\ n \in 1 .. n /\ n \in 0 .. n
      /\ pred \in [Rates!Assets -> Rates!Assets \union {Rates!NoPred}]
      /\ Rates!NoPred \notin Rates!Assets
  BY <1>2, <1>5, NoPredIsNone DEF Slack, Rates!Searches
<1>7. open # {}
  BY <1>1, <1>4 DEF Rates!Found
<1>8. PICK v \in Rates!Assets : Rates!Edge(Rates!Min(open))[2] = v
  <2>1. PICK m : m = Rates!Min(open)
    OBVIOUS
  <2>2. m \in open
    <3>1. open \in SUBSET Nat
      BY <1>3
    <3> QED
      BY <1>7, <2>1, <3>1, LeastOf DEF Rates!Min
  <2>3. PICK u, x \in Rates!Assets : Rates!Edge(m) = <<u, x>>
    BY <1>3, <2>2, EdgeIs
  <2> QED
    BY <2>1, <2>3
<1>9. PICK a : a = Rates!Walk(pred, v)
  OBVIOUS
<1>10. IsWalk(a, pred, n)
  BY <1>5, <1>6, <1>9, WalkIs DEF IsWalk
<1>11. PICK start : start = a[n]
  OBVIOUS
<1>12. PICK b : b = Rates!Walk(pred, start)
  OBVIOUS
<1> DEFINE lengths == {m \in 1 .. n : b[m] = start}
<1>13. PICK L : L = Rates!Min(lengths)
  OBVIOUS
<1>14. Rates!Found(s, open) =
         IF open = {} \/ start = Rates!NoPred THEN Rates!NoArbitrage
         ELSE [opportunity_found |-> TRUE, cycle |-> [i \in 1 .. L + 1 |-> b[(2 * L - i) % L]]]
  BY <1>5, <1>8, <1>9, <1>11, <1>12, <1>13 DEF Rates!Found
<1>15. start # Rates!NoPred
  BY <1>1, <1>4, <1>14
<1>16. start \in Rates!Assets
  <2>1. \A i \in 0 .. n : a[i] \in Rates!Assets
    BY <1>6, <1>10, <1>11, <1>15, WalkStays
  <2> QED
    BY <1>6, <1>11, <2>1
<1>17. IsWalk(b, pred, n) /\ b[0] = start
  BY <1>5, <1>6, <1>12, <1>16, WalkIs DEF IsWalk
<1>18. \E p \in 1 .. n : b[p] = start
  BY <1>5, <1>6, <1>10, <1>11, <1>15, <1>17, WalkCloses
<1>19. L \in 1 .. n /\ b[L] = start
  <2>1. lengths \in SUBSET Nat /\ lengths # {}
    BY <1>6, <1>18
  <2> HIDE DEF lengths
  <2>2. L \in lengths
    BY <1>13, <2>1, LeastOf DEF Rates!Min
  <2> QED
    BY <2>2 DEF lengths
<1>20. L \in Nat \ {0} /\ L \in 0 .. n
  BY <1>6, <1>19
<1>21. (\A i \in 0 .. L : b[i] \in Rates!Assets) /\ \A i \in 1 .. L : b[i] = pred[b[i - 1]]
  BY <1>6, <1>15, <1>17, <1>19, <1>20, WalkStays
<1> DEFINE c == [i \in 1 .. L + 1 |-> b[(2 * L - i) % L]]
<1>22. /\ \A i \in 1 .. L : c[i] = b[L - i] /\ i \in 1 .. L + 1
       /\ c[L + 1] = b[L - 1] /\ L + 1 \in 1 .. L + 1
  <2>1. \A i \in 1 .. L : i \in 1 .. L + 1 /\ i # L + 1
    BY <1>20
  <2>2. L + 1 \in 1 .. L + 1
    BY <1>20
  <2> QED
    BY <1>20, <2>1, <2>2, ReadBackwards
<1>23. IsCircle(c, pred, L)
  <2>1. ASSUME NEW i \in 1 .. L + 1 PROVE c[i] \in Rates!Assets
    <3>1. L - 1 \in 0 .. L /\ (i # L + 1 => i \in 1 .. L /\ L - i \in 0 .. L)
      BY <1>20
    <3> HIDE DEF c
    <3> QED
      BY <1>21, <1>22, <3>1
  <2>2. c[1] = c[L + 1]
    <3>1. 1 \in 1 .. L
      BY <1>20
    <3> HIDE DEF c
    <3> QED
      BY <1>22, <3>1
  <2>3. ASSUME NEW i \in 1 .. L PROVE pred[c[i + 1]] = c[i]
    <3>1. CASE i = L
      <4>1. L \in 1 .. L /\ L - L = 0
        BY <1>20
      <4>2. b[L] = pred[b[L - 1]]
        BY <1>21, <4>1
      <4>3. c[i] = b[0] /\ c[i + 1] = b[L - 1]
        <5> HIDE DEF c
        <5> QED
          BY <1>22, <3>1, <4>1
      <4> HIDE DEF c
      <4> QED
        BY <1>17, <1>19, <4>2, <4>3
    <3>2. CASE i # L
      <4>1. i + 1 \in 1 .. L /\ L - i \in 1 .. L /\ (L - i) - 1 = L - (i + 1)
        BY <1>20, <3>2
      <4> HIDE DEF c
      <4> QED
        BY <1>21, <1>22, <4>1
    <3> QED
      BY <3>1, <3>2
  <2> QED
    BY <2>1, <2>2, <2>3 DEF IsCircle
<1>24. Rates!detect_arbitrage[w].cycle = c
  BY <1>1, <1>7, <1>14, <1>15
<1> HIDE DEF c
<1> QED
  BY <1>2, <1>5, <1>20, <1>23, <1>24, CircleIsProfitable
=============================================================================
