---------------------------- MODULE IngestorProofs ----------------------------
(***************************************************************************)
(* Proofs about Ingestor, for every set of symbols, order ids, prices and  *)
(* quantities, every size of the rings and every length of the file.       *)
(*   - The map the ingestor translates orders by follows the exchange.     *)
(*   - Until a tick is dropped, each book, up to the ticks under way, is   *)
(*     the file's; after that it only overstates.                          *)
(* The books are folds over sequences of ticks, so what FoldLeft computes  *)
(* is proved first; then what one tick does to a book, what a message does *)
(* to the pair of a book and the file, and each action.                    *)
(***************************************************************************)
EXTENDS Ingestor, WellFoundedInduction, NaturalsInduction, TLAPS

Orders == [side : Sides, price : Prices, quantity : Nat]
Entries == [side : Sides, price : Nat]
Ids == Locates \X OrderIds

Types ==
  /\ exchange \in [DOMAIN exchange -> Orders]
  /\ order_side_map \in [DOMAIN order_side_map -> Entries]
  /\ DOMAIN added \subseteq Ids

(* An order that is alive, or was seen, was added: its id is not new. *)
HistoryGrows == DOMAIN exchange \subseteq DOMAIN added /\ seen \subseteq DOMAIN added

(* OrderMapCurrent, without the key in between. *)
MapFollows ==
  /\ DOMAIN order_side_map \subseteq seen
  /\ \A key \in seen \intersect DOMAIN exchange :
       /\ key \in DOMAIN order_side_map
       /\ order_side_map[key].side = exchange[key].side
       /\ order_side_map[key].price = TickPrice(exchange[key].price)

IInv == Types /\ HistoryGrows /\ MapFollows

-----------------------------------------------------------------------------
(* What the helpers on functions keep. *)

LEMMA WithoutKeeps ==
  ASSUME NEW V, NEW f, f \in [DOMAIN f -> V], NEW x
  PROVE  /\ Without(f, x) \in [DOMAIN f \ {x} -> V]
         /\ DOMAIN Without(f, x) = DOMAIN f \ {x}
         /\ \A y \in DOMAIN f \ {x} : Without(f, x)[y] = f[y]
BY DEF Without, Restrict

(* Taking shares of an order keeps every side and price, and adds none. *)
LEMMA TakenKeeps ==
  ASSUME NEW f, f \in [DOMAIN f -> Orders], NEW x \in DOMAIN f, NEW q \in Quantities
  PROVE  /\ DOMAIN Taken(f, x, q) \subseteq DOMAIN f
         /\ Taken(f, x, q) \in [DOMAIN Taken(f, x, q) -> Orders]
         /\ \A y \in DOMAIN Taken(f, x, q) :
              Taken(f, x, q)[y].side = f[y].side /\ Taken(f, x, q)[y].price = f[y].price
<1>1. CASE q >= f[x].quantity
  <2>1. Taken(f, x, q) = Without(f, x)
    BY <1>1 DEF Taken
  <2>2. /\ Without(f, x) \in [DOMAIN f \ {x} -> Orders]
        /\ DOMAIN Without(f, x) = DOMAIN f \ {x}
        /\ \A y \in DOMAIN f \ {x} : Without(f, x)[y] = f[y]
    BY WithoutKeeps
  <2> QED
    BY <2>1, <2>2
<1>2. CASE ~(q >= f[x].quantity)
  <2> DEFINE order == [f[x] EXCEPT !.quantity = @ - q]
  <2>1. f[x] \in Orders /\ f[x].quantity \in Nat /\ q \in Nat
    BY IngestorAssumption DEF Orders
  <2>2. order \in Orders /\ order.side = f[x].side /\ order.price = f[x].price
    BY <1>2, <2>1 DEF Orders
  <2>3. Taken(f, x, q) = [f EXCEPT ![x] = order]
    BY <1>2 DEF Taken
  <2> HIDE DEF order
  <2> QED
    BY <2>2, <2>3
<1> QED
  BY <1>1, <1>2

LEMMA TickPriceType ==
  ASSUME NEW p \in Prices
  PROVE  TickPrice(p) \in Nat
BY IngestorAssumption DEF TickPrice

-----------------------------------------------------------------------------
LEMMA InvariantInit == Init => IInv
BY DEF Init, IInv, Types, HistoryGrows, MapFollows

(* Messages that change no order: directory, trade, and the ticks under    *)
(* way.                                                                    *)
LEMMA NoOrderStep ==
  ASSUME IInv, UNCHANGED <<exchange, added, seen, order_side_map>>
  PROVE  IInv'
BY DEF IInv, Types, HistoryGrows, MapFollows

(* Executions and partial cancels: whatever quantity goes, the order that  *)
(* stays keeps its side and price, and its entry.                          *)
LEMMA TakeStep ==
  ASSUME IInv, NEW key \in DOMAIN exchange, NEW q \in Quantities,
         exchange' = Taken(exchange, key, q), UNCHANGED <<added, seen, order_side_map>>
  PROVE  IInv'
BY TakenKeeps DEF IInv, Types, HistoryGrows, MapFollows

LEMMA AddStep ==
  ASSUME IInv, NEW l \in Locates, NEW id \in OrderIds, NEW s \in Sides, NEW p \in Prices,
         NEW q \in Quantities, ReadAdd(l, id, s, p, q)
  PROVE  IInv'
<1> DEFINE key == <<l, id>>
           order == [side |-> s, price |-> p, quantity |-> q]
           entry == [side |-> s, price |-> TickPrice(p)]
<1>1. order \in Orders /\ entry \in Entries /\ order.side = entry.side
      /\ entry.price = TickPrice(order.price)
  BY IngestorAssumption, TickPriceType DEF Orders, Entries
<1>2. /\ key \notin DOMAIN added /\ key \in Ids
      /\ exchange' = With(exchange, key, order) /\ added' = With(added, key, order)
      /\ \/ order_side_map' = With(order_side_map, key, entry) /\ seen' = seen \union {key}
         \/ order_side_map' = order_side_map /\ seen' = seen
  BY DEF ReadAdd, Key, Ids
<1> HIDE DEF key, order, entry
<1>3. DOMAIN added' = DOMAIN added \union {key}
  BY <1>2 DEF With
<1>4. /\ exchange' \in [DOMAIN exchange \union {key} -> Orders]
      /\ DOMAIN exchange' = DOMAIN exchange \union {key} /\ exchange'[key] = order
      /\ \A y \in DOMAIN exchange : y # key => exchange'[y] = exchange[y]
  <2>1. exchange \in [DOMAIN exchange -> Orders]
    BY DEF IInv, Types
  <2> QED
    BY <1>1, <1>2, <2>1 DEF With
<1>5. key \notin seen /\ key \notin DOMAIN order_side_map
  BY <1>2 DEF IInv, HistoryGrows, MapFollows
<1>6. CASE order_side_map' = With(order_side_map, key, entry) /\ seen' = seen \union {key}
  <2>1. /\ order_side_map' \in [DOMAIN order_side_map \union {key} -> Entries]
        /\ DOMAIN order_side_map' = DOMAIN order_side_map \union {key}
        /\ order_side_map'[key] = entry
        /\ \A y \in DOMAIN order_side_map : y # key => order_side_map'[y] = order_side_map[y]
    <3>1. order_side_map \in [DOMAIN order_side_map -> Entries]
      BY DEF IInv, Types
    <3> QED
      BY <1>1, <1>6, <3>1 DEF With
  <2> QED
    BY <1>1, <1>2, <1>3, <1>4, <1>6, <2>1 DEF IInv, Types, HistoryGrows, MapFollows
<1>7. CASE order_side_map' = order_side_map /\ seen' = seen
  BY <1>2, <1>3, <1>4, <1>5, <1>7 DEF IInv, Types, HistoryGrows, MapFollows
<1> QED
  BY <1>2, <1>6, <1>7

LEMMA DeleteStep ==
  ASSUME IInv, NEW l \in Locates, NEW id \in OrderIds, ReadDelete(l, id)
  PROVE  IInv'
<1> DEFINE key == <<l, id>>
<1>1. /\ exchange' = Without(exchange, key) /\ added' = added /\ seen' = seen
      /\ order_side_map' = Without(order_side_map, key) \/ order_side_map' = order_side_map
  BY DEF ReadDelete, Key
<1> HIDE DEF key
<1>2. /\ exchange' \in [DOMAIN exchange \ {key} -> Orders]
      /\ DOMAIN exchange' = DOMAIN exchange \ {key}
      /\ \A y \in DOMAIN exchange \ {key} : exchange'[y] = exchange[y]
  BY <1>1, WithoutKeeps DEF IInv, Types
<1>3. CASE order_side_map' = Without(order_side_map, key)
  <2>1. /\ order_side_map' \in [DOMAIN order_side_map \ {key} -> Entries]
        /\ DOMAIN order_side_map' = DOMAIN order_side_map \ {key}
        /\ \A y \in DOMAIN order_side_map \ {key} : order_side_map'[y] = order_side_map[y]
    BY <1>3, WithoutKeeps DEF IInv, Types
  <2> QED
    BY <1>1, <1>2, <2>1 DEF IInv, Types, HistoryGrows, MapFollows
<1>4. CASE order_side_map' = order_side_map
  BY <1>1, <1>2, <1>4 DEF IInv, Types, HistoryGrows, MapFollows
<1> QED
  BY <1>1, <1>3, <1>4

(* The order that makes way takes its entry along, and the new one gets    *)
(* its side from the map and its price from the message.                   *)
LEMMA ReplaceStep ==
  ASSUME IInv, NEW l \in Locates, NEW id \in OrderIds, NEW new \in OrderIds,
         NEW p \in Prices, NEW q \in Quantities, ReadReplace(l, id, new, p, q)
  PROVE  IInv'
<1> DEFINE key == <<l, id>>
           newKey == <<l, new>>
           order == [side |-> exchange[key].side, price |-> p, quantity |-> q]
           old == order_side_map[key]
           entry == [old EXCEPT !.price = TickPrice(p)]
           known == key \in DOMAIN order_side_map
           rest == Without(exchange, key)
           others == Without(order_side_map, key)
<1>1. /\ key \in DOMAIN exchange /\ newKey \notin DOMAIN added /\ newKey \in Ids
      /\ exchange' = With(rest, newKey, order) /\ added' = With(added, newKey, order)
      /\ \/ /\ known
            /\ order_side_map' = With(others, newKey, entry) /\ seen' = seen \union {newKey}
         \/ order_side_map' = order_side_map /\ seen' = seen
  BY DEF ReadReplace, Replaced, Known, Key, Ids
<1>2. order \in Orders /\ order.side = exchange[key].side /\ order.price = p
  BY <1>1, IngestorAssumption DEF IInv, Types, Orders
<1>3. known => /\ entry \in Entries /\ entry.side = exchange[key].side
               /\ entry.price = TickPrice(p)
  <2> SUFFICES ASSUME known
               PROVE  /\ entry \in Entries /\ entry.side = exchange[key].side
                      /\ entry.price = TickPrice(p)
    OBVIOUS
  <2>1. old \in Entries /\ old.side = exchange[key].side
    BY <1>1 DEF IInv, Types, MapFollows
  <2> QED
    BY <2>1, TickPriceType DEF Entries
<1> HIDE DEF key, newKey, order, entry, rest, others
<1>4. /\ rest \in [DOMAIN rest -> Orders] /\ DOMAIN rest = DOMAIN exchange \ {key}
      /\ \A y \in DOMAIN rest : rest[y] = exchange[y]
  BY WithoutKeeps DEF IInv, Types, rest
<1>5. /\ exchange' \in [DOMAIN exchange' -> Orders]
      /\ DOMAIN exchange' = (DOMAIN exchange \ {key}) \union {newKey}
      /\ exchange'[newKey] = order
      /\ \A y \in DOMAIN exchange \ {key} : y # newKey => exchange'[y] = exchange[y]
  BY <1>1, <1>2, <1>4 DEF With
<1>6. DOMAIN added' = DOMAIN added \union {newKey}
  BY <1>1 DEF With
<1>7. newKey \notin seen /\ newKey \notin DOMAIN order_side_map /\ newKey # key
  BY <1>1 DEF IInv, HistoryGrows, MapFollows
<1>8. CASE known /\ order_side_map' = With(others, newKey, entry) /\ seen' = seen \union {newKey}
  <2>1. /\ others \in [DOMAIN others -> Entries] /\ DOMAIN others = DOMAIN order_side_map \ {key}
        /\ \A y \in DOMAIN others : others[y] = order_side_map[y]
    BY WithoutKeeps DEF IInv, Types, others
  <2>2. /\ order_side_map' \in [DOMAIN order_side_map' -> Entries]
        /\ DOMAIN order_side_map' = (DOMAIN order_side_map \ {key}) \union {newKey}
        /\ order_side_map'[newKey] = entry
        /\ \A y \in DOMAIN order_side_map \ {key} : y # newKey
             => order_side_map'[y] = order_side_map[y]
    BY <1>3, <1>8, <2>1 DEF With
  <2>3. MapFollows'
    <3>1. DOMAIN order_side_map' \subseteq seen'
      BY <1>8, <2>2 DEF IInv, MapFollows
    <3>2. ASSUME NEW y \in seen' \intersect DOMAIN exchange'
          PROVE  /\ y \in DOMAIN order_side_map'
                 /\ order_side_map'[y].side = exchange'[y].side
                 /\ order_side_map'[y].price = TickPrice(exchange'[y].price)
      <4>1. CASE y = newKey
        BY <1>2, <1>3, <1>5, <1>8, <2>2, <4>1
      <4>2. CASE y # newKey
        BY <1>5, <1>8, <2>2, <4>2 DEF IInv, MapFollows
      <4> QED
        BY <4>1, <4>2
    <3> QED
      BY <3>1, <3>2 DEF MapFollows
  <2> QED
    BY <1>1, <1>5, <1>6, <1>8, <2>2, <2>3 DEF IInv, Types, HistoryGrows
<1>9. CASE order_side_map' = order_side_map /\ seen' = seen
  BY <1>1, <1>5, <1>6, <1>7, <1>9 DEF IInv, Types, HistoryGrows, MapFollows
<1> QED
  BY <1>1, <1>8, <1>9

LEMMA InvariantStep == IInv /\ [Next]_vars => IInv'
<1> SUFFICES ASSUME IInv, [Next]_vars
             PROVE  IInv'
  OBVIOUS
<1>1. CASE PushTick \/ UNCHANGED vars
  BY <1>1, NoOrderStep DEF PushTick, vars, fileVars
<1>2. ASSUME NEW l \in Locates, ReadDirectory(l) \/ Dispatch(l) PROVE IInv'
  BY <1>2, NoOrderStep DEF ReadDirectory, Dispatch, fileVars
<1>3. ASSUME NEW l \in Locates, NEW id \in OrderIds, ReadDelete(l, id) PROVE IInv'
  BY <1>3, DeleteStep
<1>4. ASSUME NEW l \in Locates, NEW id \in OrderIds, NEW q \in Quantities, ReadCancel(l, id, q)
      PROVE  IInv'
  BY <1>4, TakeStep DEF ReadCancel
<1>5. ASSUME NEW l \in Locates, NEW id \in OrderIds, NEW q \in Quantities, NEW p \in Prices,
             ReadExecuted(l, id, q, p)
      PROVE  IInv'
  BY <1>5, TakeStep DEF ReadExecuted
<1>6. ASSUME NEW l \in Locates, NEW id \in OrderIds, NEW q \in Quantities, NEW p \in Prices,
             NEW new \in OrderIds, ReadReplace(l, id, new, p, q)
      PROVE  IInv'
  BY <1>6, ReplaceStep
<1>7. ASSUME NEW l \in Locates, NEW id \in OrderIds, NEW q \in Quantities, NEW p \in Prices,
             NEW s \in Sides, ReadAdd(l, id, s, p, q)
      PROVE  IInv'
  BY <1>7, AddStep
<1>8. ASSUME NEW l \in Locates, NEW id \in OrderIds, NEW q \in Quantities, NEW p \in Prices,
             NEW s \in Sides, ReadTrade(l, id, s, p, q)
      PROVE  IInv'
  BY <1>8, NoOrderStep DEF ReadTrade
<1> QED
  BY <1>1, <1>2, <1>3, <1>4, <1>5, <1>6, <1>7, <1>8 DEF Next

LEMMA Invariance == Spec => []IInv
BY InvariantInit, InvariantStep, PTL DEF Spec

(* order_side_map under its composite key (FIX 1 of main.rs): every live   *)
(* order that could be seen has its side and its price there, whatever     *)
(* ticks are dropped, and other symbols' orders never mix in.              *)
THEOREM OrderMapFollows == Spec => []OrderMapCurrent
<1>1. IInv => OrderMapCurrent
  <2> SUFFICES ASSUME IInv PROVE OrderMapCurrent
    OBVIOUS
  <2>1. \A key \in seen : key = Key(key[1], key[2])
    BY DEF IInv, Types, HistoryGrows, Ids, Key
  <2> QED
    BY <2>1 DEF IInv, MapFollows, OrderMapCurrent
<1> QED
  BY <1>1, Invariance, PTL

-----------------------------------------------------------------------------
(* Applying a sequence of ticks to a book, one after another. *)

LEMMA SetInduction ==
  ASSUME NEW G \in SUBSET Nat, 0 \in G, \A n \in G : n + 1 \in G
  PROVE  \A n \in Nat : n \in G
<1> SUFFICES ASSUME Nat \ G # {} PROVE FALSE
  OBVIOUS
<1> DEFINE R == {p \in Nat \X Nat : p[1] < p[2]}
           U == Nat \ G
<1>1. IsWellFoundedOn(R, Nat)
  BY NatLessThanWellFounded DEF OpToRel
<1>2. \A a, b \in Nat : a < b => <<a, b>> \in R
  OBVIOUS
<1>3. U \subseteq Nat /\ U # {}
  OBVIOUS
<1> HIDE DEF R
<1>4. PICK x \in U : \A y \in U : ~(<<y, x>> \in R)
  <2> HIDE DEF U
  <2> QED
    BY <1>1, <1>3, WFMin
<1>5. x \in Nat /\ x # 0 /\ x - 1 \in Nat /\ (x - 1) + 1 = x
  OBVIOUS
<1>6. x - 1 \in G
  <2>1. x - 1 < x
    BY <1>5
  <2> QED
    BY <1>2, <1>4, <1>5, <2>1
<1>7. (x - 1) + 1 \in G
  BY <1>6
<1> QED
  BY <1>5, <1>7

LEMMA MaxIs ==
  ASSUME NEW S, S \subseteq Nat, NEW x \in S, \A y \in S : x >= y
  PROVE  Max(S) = x
<1>1. PICK m : m = Max(S)
  OBVIOUS
<1>2. m \in S /\ \A y \in S : m >= y
  BY <1>1 DEF Max
<1>3. m >= x /\ x >= m /\ m \in Nat /\ x \in Nat
  BY <1>2
<1> QED
  BY <1>1, <1>3

(* What FoldLeft computes: h takes the last position of each set off. *)
Unfolds(h, base, seq, n) ==
  h = [S \in SUBSET (1 .. n) |->
         IF S = {} THEN base ELSE Apply(h[S \ {Max(S)}], seq[Max(S)])]

LEMMA FoldExists ==
  ASSUME NEW base, NEW seq, NEW n \in Nat
  PROVE  \E h : Unfolds(h, base, seq, n)
<1> DEFINE G == {k \in Nat : \E h : Unfolds(h, base, seq, k)}
<1>1. 0 \in G
  <2>1. 1 .. 0 = {} /\ SUBSET {} = {{}}
    OBVIOUS
  <2>2. Unfolds([S \in {{}} |-> base], base, seq, 0)
    BY <2>1 DEF Unfolds
  <2> QED
    BY <2>2
<1>2. ASSUME NEW k \in G PROVE k + 1 \in G
  <2>1. PICK h0 : Unfolds(h0, base, seq, k)
    OBVIOUS
  <2>2. k \in Nat /\ k + 1 \in Nat
    OBVIOUS
  <2> DEFINE D == SUBSET (1 .. k)
             D1 == SUBSET (1 .. k + 1)
             h == [S \in D1 |-> IF k + 1 \in S THEN Apply(h0[S \ {k + 1}], seq[k + 1]) ELSE h0[S]]
  <2>3. \A S \in D1 : S \subseteq Nat /\ S \ {k + 1} \in D /\ S \ {k + 1} \in D1
    <3>1. \A i \in 1 .. k + 1 : i \in Nat /\ (i # k + 1 => i \in 1 .. k)
      BY <2>2
    <3> QED
      BY <3>1
  <2>4. \A S \in D1 : k + 1 \notin S => S \in D
    BY <2>3
  <2>5. h0[{}] = base /\ \A S \in D : S # {} => h0[S] = Apply(h0[S \ {Max(S)}], seq[Max(S)])
    BY <2>1 DEF Unfolds
  <2>6. ASSUME NEW S \in D1, S # {}
        PROVE  h[S] = Apply(h[S \ {Max(S)}], seq[Max(S)])
    <3>1. CASE k + 1 \in S
      <4>1. Max(S) = k + 1
        <5>1. \A y \in S : k + 1 >= y
          OBVIOUS
        <5> QED
          BY <2>3, <3>1, <5>1, MaxIs
      <4>2. h[S] = Apply(h0[S \ {k + 1}], seq[k + 1])
        BY <3>1
      <4>3. h[S \ {k + 1}] = h0[S \ {k + 1}]
        BY <2>3
      <4> QED
        BY <4>1, <4>2, <4>3
    <3>2. CASE k + 1 \notin S
      <4>1. S \in D /\ h[S] = h0[S]
        BY <2>4, <3>2
      <4>2. PICK m : m = Max(S)
        OBVIOUS
      <4>3. S \ {m} \in D1 /\ k + 1 \notin S \ {m}
        BY <3>2
      <4>4. h[S \ {m}] = h0[S \ {m}]
        BY <4>3
      <4> QED
        BY <2>5, <2>6, <4>1, <4>2, <4>4
    <3> QED
      BY <3>1, <3>2
  <2>7. h[{}] = base
    BY <2>5
  <2>8. h = [S \in D1 |-> IF S = {} THEN base ELSE Apply(h[S \ {Max(S)}], seq[Max(S)])]
    <3>1. h = [S \in D1 |-> h[S]]
      OBVIOUS
    <3> HIDE DEF h, D1
    <3> QED
      BY <2>6, <2>7, <3>1
  <2> HIDE DEF h
  <2>9. Unfolds(h, base, seq, k + 1)
    BY <2>8 DEF Unfolds
  <2> QED
    BY <2>2, <2>9
<1>3. G \in SUBSET Nat
  OBVIOUS
<1>4. n \in G
  <2> HIDE DEF G
  <2> QED
    BY <1>1, <1>2, <1>3, SetInduction
<1> QED
  BY <1>4

(* r is the book before the first tick and after each of them. *)
IsRun(r, base, seq) ==
  /\ r[0] = base
  /\ \A k \in 1 .. Len(seq) : r[k] = Apply(r[k - 1], seq[k])

LEMMA FoldIsRun ==
  ASSUME NEW T, NEW base, NEW seq \in Seq(T)
  PROVE  \E r : IsRun(r, base, seq) /\ r[Len(seq)] = FoldLeft(Apply, base, seq)
<1> DEFINE E(g) == [S \in SUBSET DOMAIN seq |->
                      IF S = {} THEN base ELSE Apply(g[S \ {Max(S)}], seq[Max(S)])]
           iter == CHOOSE g : g = E(g)
<1>1. PICK n : n = Len(seq)
  OBVIOUS
<1>2. n \in Nat /\ DOMAIN seq = 1 .. n
  BY <1>1
<1>3. \A g : g = E(g) <=> Unfolds(g, base, seq, n)
  BY <1>2 DEF Unfolds
<1>4. FoldLeft(Apply, base, seq) = iter[DOMAIN seq]
  BY DEF FoldLeft, MapThenFoldSet
<1> HIDE DEF E
<1>5. \E h : h = E(h)
  BY <1>2, <1>3, FoldExists
<1>6. iter = E(iter)
  BY <1>5
<1> HIDE DEF iter
<1>7. Unfolds(iter, base, seq, n)
  BY <1>3, <1>6
<1> DEFINE r == [k \in 0 .. n |-> iter[1 .. k]]
<1>8. 1 .. 0 = {} /\ iter[{}] = base
  BY <1>7 DEF Unfolds
<1>9. r[0] = base
  <2>1. 0 \in 0 .. n
    BY <1>2
  <2> QED
    BY <1>8, <2>1
<1>10. ASSUME NEW k \in 1 .. n PROVE r[k] = Apply(r[k - 1], seq[k])
  <2>1. /\ k \in Nat /\ 1 .. k \subseteq Nat /\ k \in 1 .. k /\ 1 .. k \in SUBSET (1 .. n)
        /\ (1 .. k) \ {k} = 1 .. k - 1 /\ \A y \in 1 .. k : k >= y
    BY <1>2
  <2>2. Max(1 .. k) = k
    BY <2>1, MaxIs
  <2>3. 1 .. k # {}
    BY <2>1
  <2>4. iter[1 .. k] = Apply(iter[1 .. k - 1], seq[k])
    BY <1>7, <2>1, <2>2, <2>3 DEF Unfolds
  <2>5. k \in 0 .. n /\ k - 1 \in 0 .. n
    BY <1>2
  <2> QED
    BY <2>4, <2>5
<1>11. r[n] = iter[DOMAIN seq]
  BY <1>2
<1> HIDE DEF r
<1>12. IsRun(r, base, seq)
  BY <1>1, <1>9, <1>10 DEF IsRun
<1> QED
  BY <1>1, <1>4, <1>11, <1>12

LEMMA RunIsFold ==
  ASSUME NEW T, NEW base, NEW seq \in Seq(T), NEW r, IsRun(r, base, seq)
  PROVE  r[Len(seq)] = FoldLeft(Apply, base, seq)
<1>1. PICK q, n : /\ n = Len(seq) /\ IsRun(q, base, seq)
                  /\ q[Len(seq)] = FoldLeft(Apply, base, seq)
  BY FoldIsRun
<1>2. n \in Nat
  BY <1>1
<1> DEFINE G == {k \in Nat : k <= n => r[k] = q[k]}
<1>3. 0 \in G
  BY <1>1 DEF IsRun
<1>4. ASSUME NEW k \in G PROVE k + 1 \in G
  <2>1. k \in Nat /\ k + 1 \in Nat /\ (k + 1) - 1 = k /\ (k <= n => r[k] = q[k])
    OBVIOUS
  <2>2. ASSUME k + 1 <= n PROVE r[k + 1] = q[k + 1]
    <3>1. k + 1 \in 1 .. n /\ k <= n
      BY <1>2, <2>1, <2>2
    <3>2. r[k + 1] = Apply(r[k], seq[k + 1]) /\ q[k + 1] = Apply(q[k], seq[k + 1])
      BY <1>1, <2>1, <3>1 DEF IsRun
    <3> QED
      BY <2>1, <3>1, <3>2
  <2> QED
    BY <2>1, <2>2
<1>5. G \in SUBSET Nat
  OBVIOUS
<1>6. n \in G
  <2> HIDE DEF G
  <2> QED
    BY <1>2, <1>3, <1>4, <1>5, SetInduction
<1> QED
  BY <1>1, <1>2, <1>6

LEMMA FoldEmpty ==
  ASSUME NEW base
  PROVE  FoldLeft(Apply, base, << >>) = base
<1>1. PICK r : IsRun(r, base, << >>) /\ r[Len(<< >>)] = FoldLeft(Apply, base, << >>)
  <2>1. << >> \in Seq({})
    OBVIOUS
  <2> QED
    BY <2>1, FoldIsRun
<1> QED
  BY <1>1 DEF IsRun

(* The last tick, and the first one. *)
LEMMA FoldAppend ==
  ASSUME NEW T, NEW base, NEW seq \in Seq(T), NEW all \in Seq(T), Len(all) = Len(seq) + 1,
         \A k \in 1 .. Len(seq) : all[k] = seq[k]
  PROVE  FoldLeft(Apply, base, all) = Apply(FoldLeft(Apply, base, seq), all[Len(seq) + 1])
<1>1. PICK n : n = Len(seq)
  OBVIOUS
<1>2. n \in Nat /\ Len(all) = n + 1 /\ \A k \in 1 .. n : all[k] = seq[k]
  BY <1>1
<1>3. PICK r : IsRun(r, base, all) /\ r[Len(all)] = FoldLeft(Apply, base, all)
  BY FoldIsRun
<1>4. \A k \in 1 .. n : k \in 1 .. n + 1
  BY <1>2
<1>5. IsRun(r, base, seq)
  BY <1>1, <1>2, <1>3, <1>4 DEF IsRun
<1>6. r[n] = FoldLeft(Apply, base, seq)
  BY <1>1, <1>5, RunIsFold
<1>7. n + 1 \in 1 .. n + 1 /\ (n + 1) - 1 = n
  BY <1>2
<1>8. r[n + 1] = Apply(r[n], all[n + 1])
  BY <1>2, <1>3, <1>7 DEF IsRun
<1> QED
  BY <1>1, <1>2, <1>3, <1>6, <1>8

LEMMA FoldHead ==
  ASSUME NEW T, NEW base, NEW seq \in Seq(T), seq # << >>
  PROVE  FoldLeft(Apply, base, seq) = FoldLeft(Apply, Apply(base, Head(seq)), Tail(seq))
<1>1. PICK n, rest, first : n = Len(seq) - 1 /\ rest = Tail(seq) /\ first = Head(seq)
  OBVIOUS
<1>2. /\ n \in Nat /\ rest \in Seq(T) /\ Len(rest) = n /\ Len(seq) = n + 1 /\ first = seq[1]
      /\ \A k \in 1 .. n : rest[k] = seq[k + 1]
  BY <1>1
<1>3. PICK r : IsRun(r, base, seq) /\ r[Len(seq)] = FoldLeft(Apply, base, seq)
  BY FoldIsRun
<1> DEFINE q == [k \in 0 .. n |-> r[k + 1]]
<1>4. q[0] = Apply(base, first)
  <2>1. 1 \in 1 .. n + 1 /\ 0 \in 0 .. n /\ 0 + 1 = 1 /\ 1 - 1 = 0
    BY <1>2
  <2>2. r[1] = Apply(r[0], seq[1])
    BY <1>2, <1>3, <2>1 DEF IsRun
  <2>3. r[0] = base
    BY <1>3 DEF IsRun
  <2> QED
    BY <1>2, <2>1, <2>2, <2>3
<1>5. ASSUME NEW k \in 1 .. n PROVE q[k] = Apply(q[k - 1], rest[k])
  <2>1. k + 1 \in 1 .. n + 1 /\ (k + 1) - 1 = k /\ k \in 0 .. n /\ k - 1 \in 0 .. n
        /\ (k - 1) + 1 = k
    BY <1>2
  <2>2. r[k + 1] = Apply(r[k], seq[k + 1])
    BY <1>2, <1>3, <2>1 DEF IsRun
  <2>3. q[k] = r[k + 1] /\ q[k - 1] = r[k]
    BY <2>1
  <2> QED
    BY <1>2, <2>2, <2>3
<1>6. q[n] = r[n + 1]
  BY <1>2
<1> HIDE DEF q
<1>7. IsRun(q, Apply(base, first), rest)
  BY <1>2, <1>4, <1>5 DEF IsRun
<1>8. q[n] = FoldLeft(Apply, Apply(base, first), rest)
  BY <1>2, <1>7, RunIsFold
<1> QED
  BY <1>1, <1>2, <1>3, <1>6, <1>8

-----------------------------------------------------------------------------
(* What one tick does to a book. *)

Rests == [side : Sides, price : Nat, quantity : Nat]
Ticks == [order_type : {"ADD", "CANCEL", "EXECUTE"}, order_id : OrderIds, side : Sides,
          price : Nat, quantity : Nat, trade_side_is_aggressor : BOOLEAN]

(* Does tick t take shares of its order, and how many of the n it has left? *)
Takes(t) == t.order_type = "CANCEL" \/ (t.order_type = "EXECUTE" /\ ~t.trade_side_is_aggressor)
Amount(t, n) == IF t.order_type = "CANCEL" /\ t.quantity = 0 THEN n ELSE t.quantity

IsFunction(f) == f = [x \in DOMAIN f |-> f[x]]

LEMMA TakenExactly ==
  ASSUME NEW f, IsFunction(f), NEW x \in DOMAIN f, NEW q \in Nat,
         NEW s, NEW p, NEW n \in Nat, f[x] = [side |-> s, price |-> p, quantity |-> n]
  PROVE  /\ IsFunction(Taken(f, x, q))
         /\ \A y : y \in DOMAIN Taken(f, x, q) <=> y \in DOMAIN f /\ (y = x => q < n)
         /\ \A y \in DOMAIN Taken(f, x, q) :
              Taken(f, x, q)[y] = IF y = x THEN [side |-> s, price |-> p, quantity |-> n - q]
                                  ELSE f[y]
<1>1. f[x].quantity = n
  OBVIOUS
<1>2. CASE q >= n
  <2>1. Taken(f, x, q) = [y \in DOMAIN f \ {x} |-> f[y]]
    BY <1>1, <1>2 DEF Taken, Without, Restrict
  <2> QED
    BY <1>2, <2>1 DEF IsFunction
<1>3. CASE q < n
  <2> DEFINE order == [f[x] EXCEPT !.quantity = @ - q]
  <2>1. order = [side |-> s, price |-> p, quantity |-> n - q]
    BY <1>1
  <2>2. Taken(f, x, q) = [f EXCEPT ![x] = order]
    BY <1>1, <1>3 DEF Taken
  <2> HIDE DEF order
  <2> QED
    BY <1>3, <2>1, <2>2 DEF IsFunction
<1> QED
  BY <1>2, <1>3

LEMMA ApplyAdd ==
  ASSUME NEW o, NEW t, t.order_type = "ADD"
  PROVE  Apply(o, t) = IF ValidPrice(t.price) /\ t.order_id \notin DOMAIN o
                       THEN With(o, t.order_id, [side |-> t.side, price |-> t.price,
                                                 quantity |-> t.quantity])
                       ELSE o
BY DEF Apply

LEMMA ApplyTakes ==
  ASSUME NEW o, NEW t, t.order_type # "ADD"
  PROVE  Apply(o, t) = IF Takes(t) /\ t.order_id \in DOMAIN o
                       THEN Taken(o, t.order_id, Amount(t, o[t.order_id].quantity))
                       ELSE o
BY DEF Apply, Takes, Amount

LEMMA BookTakes ==
  ASSUME NEW o, o \in [DOMAIN o -> Rests], NEW id \in DOMAIN o, NEW q \in Nat
  PROVE  /\ Taken(o, id, q) \in [DOMAIN Taken(o, id, q) -> Rests]
         /\ \A y : y \in DOMAIN Taken(o, id, q)
                     <=> y \in DOMAIN o /\ (y = id => q < o[id].quantity)
         /\ \A y \in DOMAIN Taken(o, id, q) :
              Taken(o, id, q)[y] = IF y = id THEN [side |-> o[id].side, price |-> o[id].price,
                                                  quantity |-> o[id].quantity - q]
                                   ELSE o[y]
<1>1. PICK s, p, n, new : /\ s = o[id].side /\ p = o[id].price /\ n = o[id].quantity
                          /\ new = Taken(o, id, q)
  OBVIOUS
<1>2. /\ o[id] = [side |-> s, price |-> p, quantity |-> n] /\ s \in Sides /\ p \in Nat
      /\ n \in Nat /\ IsFunction(o)
  BY <1>1 DEF Rests, IsFunction
<1>3. /\ IsFunction(new)
      /\ \A y : y \in DOMAIN new <=> y \in DOMAIN o /\ (y = id => q < n)
      /\ \A y \in DOMAIN new :
           new[y] = IF y = id THEN [side |-> s, price |-> p, quantity |-> n - q] ELSE o[y]
  <2>1. /\ IsFunction(Taken(o, id, q))
        /\ \A y : y \in DOMAIN Taken(o, id, q) <=> y \in DOMAIN o /\ (y = id => q < n)
        /\ \A y \in DOMAIN Taken(o, id, q) :
             Taken(o, id, q)[y] = IF y = id THEN [side |-> s, price |-> p, quantity |-> n - q]
                                  ELSE o[y]
    BY ONLY <1>2, TakenExactly, id \in DOMAIN o, q \in Nat
  <2> QED
    BY ONLY <1>1, <2>1
<1>4. \A y \in DOMAIN new : new[y] \in Rests
  BY <1>2, <1>3 DEF Rests
<1> QED
  BY <1>1, <1>3, <1>4 DEF IsFunction

-----------------------------------------------------------------------------
(* A book that is no further than the file, and the ticks that are right   *)
(* for it, given the live orders x of the file, those seen (sn) and all    *)
(* that were added (ad).                                                   *)

Over(o, l, x, sn, ad) ==
  /\ o \in [DOMAIN o -> Rests]
  /\ \A id \in DOMAIN o :
       /\ <<l, id>> \in sn
       /\ o[id].side = ad[<<l, id>>].side
       /\ o[id].price = TickPrice(ad[<<l, id>>].price)
       /\ o[id].quantity <= ad[<<l, id>>].quantity
       /\ <<l, id>> \in DOMAIN x => x[<<l, id>>].quantity <= o[id].quantity

AddRight(t, l, x, sn, ad) ==
  LET key == <<l, t.order_id>>
  IN  /\ key \in sn
      /\ t.side = ad[key].side
      /\ t.price = TickPrice(ad[key].price)
      /\ t.quantity = ad[key].quantity
      /\ key \in DOMAIN x => x[key].quantity <= t.quantity

TakeRight(t, o, l, x) ==
  LET key == <<l, t.order_id>>
  IN  key \in DOMAIN x /\ t.order_id \in DOMAIN o =>
        t.quantity > 0 /\ x[key].quantity + t.quantity <= o[t.order_id].quantity

TickRight(t, o, l, x, sn, ad) ==
  /\ t \in Ticks
  /\ t.order_type = "ADD" => AddRight(t, l, x, sn, ad)
  /\ Takes(t) => TakeRight(t, o, l, x)

LEMMA TickKeepsOver ==
  ASSUME NEW o, NEW l, NEW x, NEW sn, NEW ad, NEW t,
         x \in [DOMAIN x -> Orders], ad \in [DOMAIN ad -> Orders], sn \subseteq DOMAIN ad,
         Over(o, l, x, sn, ad), TickRight(t, o, l, x, sn, ad)
  PROVE  Over(Apply(o, t), l, x, sn, ad)
<1>1. PICK id, key, q, new : /\ id = t.order_id /\ key = <<l, t.order_id>> /\ q = t.quantity
                             /\ new = Apply(o, t)
  OBVIOUS
<1>2. t \in Ticks /\ q \in Nat /\ o \in [DOMAIN o -> Rests]
  BY <1>1 DEF TickRight, Over, Ticks
<1>3. CASE t.order_type = "ADD" /\ ValidPrice(t.price) /\ id \notin DOMAIN o
  <2>1. PICK order : order = [side |-> t.side, price |-> t.price, quantity |-> q]
    OBVIOUS
  <2>2. new = With(o, id, order)
    BY <1>1, <1>3, <2>1, ApplyAdd
  <2>3. order \in Rests
    BY <1>1, <1>2, <2>1 DEF Ticks, Rests
  <2>4. /\ new \in [DOMAIN new -> Rests] /\ DOMAIN new = DOMAIN o \union {id}
        /\ new[id] = order /\ \A y \in DOMAIN o : new[y] = o[y]
    BY <1>2, <1>3, <2>2, <2>3 DEF With
  <2>5. /\ key \in sn /\ order.side = ad[key].side /\ order.price = TickPrice(ad[key].price)
        /\ order.quantity = ad[key].quantity
        /\ key \in DOMAIN x => x[key].quantity <= order.quantity
    BY <1>1, <1>3, <2>1 DEF TickRight, AddRight
  <2>6. order.quantity <= ad[key].quantity
    BY <2>3, <2>5 DEF Rests
  <2> QED
    BY <1>1, <2>4, <2>5, <2>6 DEF Over
<1>4. CASE Takes(t) /\ id \in DOMAIN o
  <2>1. PICK n : n = Amount(t, o[id].quantity)
    OBVIOUS
  <2>2. o[id] \in Rests
    BY <1>2, <1>4
  <2>3. n \in Nat /\ (q > 0 => n = q) /\ n >= q
    BY <1>1, <1>2, <2>1, <2>2 DEF Amount, Rests
  <2>4. new = Taken(o, id, n)
    BY <1>1, <1>4, <2>1, ApplyTakes DEF Takes
  <2>5. /\ new \in [DOMAIN new -> Rests]
        /\ \A y : y \in DOMAIN new <=> y \in DOMAIN o /\ (y = id => n < o[id].quantity)
        /\ \A y \in DOMAIN new :
             new[y] = IF y = id THEN [side |-> o[id].side, price |-> o[id].price,
                                      quantity |-> o[id].quantity - n]
                      ELSE o[y]
    BY <1>2, <1>4, <2>2, <2>3, <2>4, BookTakes
  <2>6. ASSUME id \in DOMAIN new
        PROVE  /\ new[id].side = o[id].side /\ new[id].price = o[id].price
               /\ new[id].quantity <= o[id].quantity
               /\ key \in DOMAIN x => x[key].quantity <= new[id].quantity
    <3>1. new[id] = [side |-> o[id].side, price |-> o[id].price, quantity |-> o[id].quantity - n]
      BY <2>5, <2>6
    <3>2. new[id].quantity = o[id].quantity - n
      BY <3>1
    <3>3. o[id].quantity \in Nat
      BY <2>2 DEF Rests
    <3>4. ASSUME key \in DOMAIN x PROVE x[key].quantity <= new[id].quantity
      <4>1. q > 0 /\ x[key].quantity + q <= o[id].quantity
        BY <1>1, <1>4, <3>4 DEF TickRight, TakeRight
      <4>2. x[key].quantity \in Nat
        BY <3>4 DEF Orders
      <4> QED
        BY <1>2, <2>3, <3>2, <3>3, <4>1, <4>2
    <3> QED
      BY <2>3, <3>1, <3>2, <3>3, <3>4
  <2>7. ASSUME id \in DOMAIN new PROVE new[id].quantity <= ad[key].quantity
    <3>1. id \in DOMAIN o /\ new[id].quantity \in Nat /\ o[id].quantity \in Nat
      BY <2>2, <2>5, <2>7 DEF Rests
    <3>2. key \in sn /\ o[id].quantity <= ad[key].quantity /\ ad[key].quantity \in Nat
      BY <1>1, <3>1 DEF Over, Orders
    <3> QED
      BY <2>6, <2>7, <3>1, <3>2
  <2> QED
    BY <1>1, <2>5, <2>6, <2>7 DEF Over
<1>5. CASE new = o
  BY <1>1, <1>5
<1>6. new = o \/ (Takes(t) /\ id \in DOMAIN o)
        \/ (t.order_type = "ADD" /\ ValidPrice(t.price) /\ id \notin DOMAIN o)
  <2>1. CASE t.order_type = "ADD"
    BY <1>1, <2>1, ApplyAdd
  <2>2. CASE t.order_type # "ADD"
    BY <1>1, <2>2, ApplyTakes
  <2> QED
    BY <2>1, <2>2
<1> QED
  BY <1>3, <1>4, <1>5, <1>6

(* Of an ADD that comes second, the tick before it changes nothing. *)
LEMMA AddStaysRight ==
  ASSUME NEW o, NEW p, NEW l, NEW x, NEW sn, NEW ad, NEW t, t.order_type = "ADD",
         TickRight(t, o, l, x, sn, ad)
  PROVE  TickRight(t, p, l, x, sn, ad)
BY DEF TickRight, Takes

-----------------------------------------------------------------------------
(* A book that is the file's. *)

Due(id, l, x, sn) ==
  /\ id \in OrderIds /\ <<l, id>> \in sn /\ <<l, id>> \in DOMAIN x
  /\ ValidPrice(TickPrice(x[<<l, id>>].price))

IsBook(o, l, x, sn) ==
  /\ o = [id \in DOMAIN o |-> o[id]]
  /\ \A id : id \in DOMAIN o <=> Due(id, l, x, sn)
  /\ \A id \in DOMAIN o : o[id] = AsTick(x[<<l, id>>])

(* Nothing of symbol l changes, but what it could not see. *)
LEMMA BookUntouched ==
  ASSUME NEW o, NEW l, NEW x, NEW y, NEW sn, NEW sm, IsBook(o, l, x, sn),
         \A id \in OrderIds :
           \/ /\ <<l, id>> \in sn <=> <<l, id>> \in sm
              /\ <<l, id>> \in DOMAIN x <=> <<l, id>> \in DOMAIN y
              /\ <<l, id>> \in DOMAIN x => y[<<l, id>>] = x[<<l, id>>]
           \/ <<l, id>> \notin sn /\ <<l, id>> \notin sm
  PROVE  IsBook(o, l, y, sm)
<1>1. \A id : Due(id, l, x, sn) <=> Due(id, l, y, sm)
  BY DEF Due
<1>2. \A id : Due(id, l, x, sn) => y[<<l, id>>] = x[<<l, id>>]
  BY DEF Due
<1> QED
  BY <1>1, <1>2 DEF IsBook

LEMMA AsTickIs ==
  ASSUME NEW e \in Orders
  PROVE  AsTick(e) = [side |-> e.side, price |-> TickPrice(e.price), quantity |-> e.quantity]
<1>1. PICK s, p, q, r : s = e.side /\ p = e.price /\ q = e.quantity /\ r = TickPrice(p)
  OBVIOUS
<1>2. e = [side |-> s, price |-> p, quantity |-> q]
  BY <1>1 DEF Orders
<1>3. [e EXCEPT !.price = r] = [side |-> s, price |-> r, quantity |-> q]
  BY <1>2
<1> QED
  BY <1>1, <1>3 DEF AsTick

(* Shares are taken of an order of l, and the tick says so. *)
LEMMA BookTaken ==
  ASSUME NEW o, NEW l, NEW x, x \in [DOMAIN x -> Orders], NEW sn, IsBook(o, l, x, sn),
         NEW t \in Ticks, Takes(t), t.quantity > 0, <<l, t.order_id>> \in DOMAIN x
  PROVE  IsBook(Apply(o, t), l, Taken(x, <<l, t.order_id>>, t.quantity), sn)
<1>1. PICK id, key, q, new, y : /\ id = t.order_id /\ key = <<l, t.order_id>> /\ q = t.quantity
                                /\ new = Apply(o, t) /\ y = Taken(x, key, q)
  OBVIOUS
<1>2. /\ id \in OrderIds /\ q \in Nat /\ q > 0 /\ t.order_type # "ADD" /\ key \in DOMAIN x
      /\ key = <<l, id>>
  BY <1>1 DEF Ticks, Takes
<1>3. /\ y \in [DOMAIN y -> Orders]
      /\ \A k : k \in DOMAIN y <=> k \in DOMAIN x /\ (k = key => q < x[key].quantity)
      /\ \A k \in DOMAIN y : k # key => y[k] = x[k]
      /\ key \in DOMAIN y => y[key] = [side |-> x[key].side, price |-> x[key].price,
                                       quantity |-> x[key].quantity - q]
  <2>1. PICK s, p, n : s = x[key].side /\ p = x[key].price /\ n = x[key].quantity
    OBVIOUS
  <2>2. /\ x[key] = [side |-> s, price |-> p, quantity |-> n] /\ s \in Sides /\ p \in Prices
        /\ n \in Nat /\ IsFunction(x)
    BY <1>2, <2>1 DEF Orders, IsFunction
  <2>3. /\ IsFunction(y)
        /\ \A k : k \in DOMAIN y <=> k \in DOMAIN x /\ (k = key => q < n)
        /\ \A k \in DOMAIN y :
             y[k] = IF k = key THEN [side |-> s, price |-> p, quantity |-> n - q] ELSE x[k]
    BY <1>1, <1>2, <2>2, TakenExactly
  <2>4. \A k \in DOMAIN y : y[k] \in Orders
    BY <1>2, <2>2, <2>3 DEF Orders
  <2> QED
    BY <2>1, <2>3, <2>4 DEF IsFunction
<1>4. \A i : <<l, i>> = key <=> i = id
  BY <1>2
<1>5. CASE id \in DOMAIN o
  <2>1. o[id] = [side |-> x[key].side, price |-> TickPrice(x[key].price),
                 quantity |-> x[key].quantity]
    BY <1>2, <1>5, AsTickIs DEF IsBook
  <2>2. x[key] \in Orders /\ x[key].quantity \in Nat /\ o[id].quantity = x[key].quantity
    BY <1>2, <2>1 DEF Orders
  <2>3. o \in [DOMAIN o -> Rests]
    <3>1. ASSUME NEW i \in DOMAIN o PROVE o[i] \in Rests
      <4>1. <<l, i>> \in DOMAIN x /\ o[i] = AsTick(x[<<l, i>>])
        BY DEF IsBook, Due
      <4>2. PICK e : e = x[<<l, i>>]
        OBVIOUS
      <4>3. e \in Orders /\ e.price \in Prices
        BY <4>1, <4>2 DEF Orders
      <4>4. TickPrice(e.price) \in Nat
        BY <4>3, TickPriceType
      <4> QED
        BY <4>1, <4>2, <4>3, <4>4, AsTickIs DEF Orders, Rests
    <3> QED
      BY <3>1 DEF IsBook
  <2>4. new = Taken(o, id, q)
    BY <1>1, <1>2, <1>5, ApplyTakes DEF Amount
  <2>5. /\ new \in [DOMAIN new -> Rests]
        /\ \A i : i \in DOMAIN new <=> i \in DOMAIN o /\ (i = id => q < o[id].quantity)
        /\ \A i \in DOMAIN new : i # id => new[i] = o[i]
        /\ id \in DOMAIN new => new[id] = [side |-> o[id].side, price |-> o[id].price,
                                           quantity |-> o[id].quantity - q]
    BY <1>2, <1>5, <2>3, <2>4, BookTakes
  <2>6. ASSUME NEW i PROVE i \in DOMAIN new <=> Due(i, l, y, sn)
    <3>1. i \in DOMAIN o <=> Due(i, l, x, sn)
      BY DEF IsBook
    <3>2. CASE i = id
      <4>1. key \in DOMAIN y => y[key].price = x[key].price
        BY <1>3
      <4> QED
        BY <1>2, <1>3, <2>2, <2>5, <3>1, <3>2, <4>1 DEF Due
    <3>3. CASE i # id
      BY <1>3, <1>4, <2>5, <3>1, <3>3 DEF Due
    <3> QED
      BY <3>2, <3>3
  <2>7. ASSUME NEW i \in DOMAIN new PROVE new[i] = AsTick(y[<<l, i>>])
    <3>1. <<l, i>> \in DOMAIN y
      BY <2>6 DEF Due
    <3>2. CASE i = id
      <4>1. y[key] \in Orders /\ y[key] = [side |-> x[key].side, price |-> x[key].price,
                                           quantity |-> x[key].quantity - q]
        BY <1>2, <1>3, <3>1, <3>2
      <4>2. AsTick(y[key]) = [side |-> x[key].side, price |-> TickPrice(x[key].price),
                              quantity |-> x[key].quantity - q]
        BY <4>1, AsTickIs
      <4>3. new[id] = [side |-> x[key].side, price |-> TickPrice(x[key].price),
                       quantity |-> x[key].quantity - q]
        BY <2>1, <2>5, <3>2
      <4> QED
        BY <1>2, <3>2, <4>2, <4>3
    <3>3. CASE i # id
      BY <1>3, <1>4, <2>5, <3>1, <3>3 DEF IsBook
    <3> QED
      BY <3>2, <3>3
  <2>8. new = [i \in DOMAIN new |-> new[i]]
    BY <2>5
  <2> QED
    BY <1>1, <2>6, <2>7, <2>8 DEF IsBook
<1>6. CASE id \notin DOMAIN o
  <2>1. new = o
    BY <1>1, <1>2, <1>6, ApplyTakes
  <2>2. \A i : Due(i, l, x, sn) <=> Due(i, l, y, sn)
    <3>1. ~Due(id, l, x, sn)
      BY <1>6 DEF IsBook
    <3>2. key \in DOMAIN y => key \in DOMAIN x /\ y[key].price = x[key].price
      BY <1>3
    <3>3. ~Due(id, l, y, sn)
      BY <1>2, <3>1, <3>2 DEF Due
    <3>4. ASSUME NEW i, i # id PROVE Due(i, l, x, sn) <=> Due(i, l, y, sn)
      BY <1>3, <1>4, <3>4 DEF Due
    <3> QED
      BY <3>1, <3>3, <3>4
  <2>3. \A i \in DOMAIN o : y[<<l, i>>] = x[<<l, i>>]
    <3>1. ASSUME NEW i \in DOMAIN o PROVE <<l, i>> \in DOMAIN x /\ <<l, i>> # key
      BY <1>4, <1>6 DEF IsBook, Due
    <3> QED
      BY <1>3, <3>1
  <2> QED
    BY <1>1, <2>1, <2>2, <2>3 DEF IsBook
<1> QED
  BY <1>5, <1>6

(* An order of l is deleted. *)
LEMMA BookDeleted ==
  ASSUME NEW o, NEW l, NEW x, x \in [DOMAIN x -> Orders], NEW sn, IsBook(o, l, x, sn),
         NEW t \in Ticks, t.order_type = "CANCEL", t.quantity = 0
  PROVE  IsBook(Apply(o, t), l, Without(x, <<l, t.order_id>>), sn)
<1>1. PICK id, key, new, y : /\ id = t.order_id /\ key = <<l, id>>
                             /\ new = Apply(o, t) /\ y = Without(x, key)
  OBVIOUS
<1>2. DOMAIN y = DOMAIN x \ {key} /\ \A k \in DOMAIN y : y[k] = x[k]
  BY <1>1 DEF Without, Restrict
<1>3. \A i : <<l, i>> = key <=> i = id
  BY <1>1
<1>4. /\ new = [i \in DOMAIN new |-> new[i]] /\ DOMAIN new = DOMAIN o \ {id}
      /\ \A i \in DOMAIN new : new[i] = o[i]
  <2>1. CASE id \in DOMAIN o
    <3>1. new = Taken(o, id, o[id].quantity)
      BY <1>1, <2>1, ApplyTakes DEF Amount, Takes
    <3>2. o[id].quantity \in Nat
      <4>1. o[id] = AsTick(x[key]) /\ key \in DOMAIN x
        BY <1>1, <2>1 DEF IsBook, Due
      <4>2. AsTick(x[key]).quantity = x[key].quantity /\ x[key].quantity \in Nat
        BY <4>1, AsTickIs DEF Orders
      <4> QED
        BY <4>1, <4>2
    <3>3. o[id].quantity >= o[id].quantity
      BY <3>2
    <3>4. new = Without(o, id)
      BY <3>1, <3>3 DEF Taken
    <3> QED
      BY <3>4 DEF Without, Restrict
  <2>2. CASE id \notin DOMAIN o
    <3>1. new = o
      BY <1>1, <2>2, ApplyTakes
    <3> QED
      BY <2>2, <3>1 DEF IsBook
  <2> QED
    BY <2>1, <2>2
<1>5. ASSUME NEW i PROVE Due(i, l, y, sn) <=> Due(i, l, x, sn) /\ i # id
  BY <1>2, <1>3 DEF Due
<1>6. \A i \in DOMAIN new : new[i] = AsTick(y[<<l, i>>])
  BY <1>2, <1>3, <1>4 DEF IsBook, Due
<1> QED
  BY <1>1, <1>4, <1>5, <1>6 DEF IsBook

(* An order of l is added, and seen. *)
LEMMA BookAdded ==
  ASSUME NEW o, NEW l, NEW x, x \in [DOMAIN x -> Orders], NEW sn, IsBook(o, l, x, sn),
         NEW t \in Ticks, t.order_type = "ADD", <<l, t.order_id>> \notin DOMAIN x,
         NEW e \in Orders, t.side = e.side, t.price = TickPrice(e.price), t.quantity = e.quantity
  PROVE  IsBook(Apply(o, t), l, With(x, <<l, t.order_id>>, e), sn \union {<<l, t.order_id>>})
<1>1. PICK id, key, new, y, sm :
        /\ id = t.order_id /\ key = <<l, id>> /\ sm = sn \union {key}
        /\ new = Apply(o, t) /\ y = With(x, key, e)
  OBVIOUS
<1>2. /\ DOMAIN y = DOMAIN x \union {key} /\ y[key] = e
      /\ \A k \in DOMAIN x : k # key => y[k] = x[k]
  BY <1>1 DEF With
<1>3. (\A i : <<l, i>> = key <=> i = id) /\ id \in OrderIds
  BY <1>1 DEF Ticks
<1>4. id \notin DOMAIN o
  BY <1>1 DEF IsBook, Due
<1>5. ASSUME NEW i, i # id PROVE Due(i, l, y, sm) <=> Due(i, l, x, sn)
  BY <1>1, <1>2, <1>3, <1>5 DEF Due
<1>6. Due(id, l, y, sm) <=> ValidPrice(t.price)
  BY <1>1, <1>2, <1>3 DEF Due
<1>7. \A i \in DOMAIN o : <<l, i>> # key /\ <<l, i>> \in DOMAIN x
  BY <1>3, <1>4 DEF IsBook, Due
<1>8. CASE ValidPrice(t.price)
  <2>1. PICK order : order = [side |-> t.side, price |-> t.price, quantity |-> t.quantity]
    OBVIOUS
  <2>2. new = With(o, id, order)
    BY <1>1, <1>4, <1>8, <2>1, ApplyAdd
  <2>3. order = AsTick(e)
    BY <2>1, AsTickIs
  <2>4. /\ new = [i \in DOMAIN new |-> new[i]] /\ DOMAIN new = DOMAIN o \union {id}
        /\ new[id] = order /\ \A i \in DOMAIN o : new[i] = o[i]
    BY <1>4, <2>2 DEF With
  <2>5. \A i : i \in DOMAIN new <=> Due(i, l, y, sm)
    BY <1>5, <1>6, <1>8, <2>4 DEF IsBook
  <2>6. \A i \in DOMAIN new : new[i] = AsTick(y[<<l, i>>])
    BY <1>1, <1>2, <1>7, <2>3, <2>4 DEF IsBook
  <2> QED
    BY <1>1, <2>4, <2>5, <2>6 DEF IsBook
<1>9. CASE ~ValidPrice(t.price)
  <2>1. new = o
    BY <1>1, <1>9, ApplyAdd
  <2>2. \A i : i \in DOMAIN new <=> Due(i, l, y, sm)
    BY <1>4, <1>5, <1>6, <1>9, <2>1 DEF IsBook
  <2>3. \A i \in DOMAIN new : new[i] = AsTick(y[<<l, i>>])
    BY <1>2, <1>7, <2>1 DEF IsBook
  <2> QED
    BY <1>1, <2>1, <2>2, <2>3 DEF IsBook
<1> QED
  BY <1>8, <1>9

-----------------------------------------------------------------------------
(* The invariant of the books. *)

(* The book of symbol l once its ring is empty. *)
Drained(l) == FoldLeft(Apply, book[l], queue[l])

(* Book o of symbol l after the ticks still to be pushed. *)
Pended(o, l, todo) ==
  IF todo = << >> THEN o
  ELSE IF todo[1].symbol # l THEN o
  ELSE IF Len(todo) = 1 THEN Apply(o, todo[1].tick)
  ELSE Apply(Apply(o, todo[1].tick), todo[2].tick)

Parcels == [symbol : Locates, tick : Ticks]

(* A message makes at most two ticks, for one symbol; the second one adds. *)
Routed(todo) ==
  /\ todo \in Seq(Parcels) /\ Len(todo) <= 2
  /\ Len(todo) = 2 => todo[2].symbol = todo[1].symbol /\ todo[2].tick.order_type = "ADD"

Plumbing ==
  /\ queue \in [Locates -> Seq(Ticks)]
  /\ book = [l \in Locates |-> book[l]]
  /\ ticks_dropped \in Nat
  /\ Routed(pending)
  /\ added \in [DOMAIN added -> Orders]
  /\ \A key \in seen : key[1] \in target_stock_locates

(* Every book is at most behind the file, and the ticks to come are right. *)
BooksBehind == \A l \in Locates : Over(Drained(l), l, exchange, seen, added)

TicksRight ==
  \A i \in DOMAIN pending :
    TickRight(pending[i].tick, Drained(pending[i].symbol), pending[i].symbol,
              exchange, seen, added)

BooksExact ==
  ticks_dropped = 0 =>
    \A l \in Locates : IsBook(Pended(Drained(l), l, pending), l, exchange, seen)

BookInv == Plumbing /\ BooksBehind /\ TicksRight /\ BooksExact

-----------------------------------------------------------------------------
(* Book o after a queue of ticks. *)
After(o, ticks) == FoldLeft(Apply, o, ticks)

LEMMA AfterOneMore ==
  ASSUME NEW o, NEW q \in Seq(Ticks), NEW r \in Seq(Ticks), NEW t,
         Len(r) = Len(q) + 1, r[Len(r)] = t, \A k \in 1 .. Len(q) : r[k] = q[k]
  PROVE  After(o, r) = Apply(After(o, q), t)
BY FoldAppend DEF After

LEMMA DrainedStays ==
  ASSUME UNCHANGED <<queue, book>>, NEW l
  PROVE  Drained(l)' = Drained(l)
BY DEF Drained

LEMMA DrainedPush ==
  ASSUME Plumbing, NEW l \in Locates, NEW t \in Ticks,
         queue'[l] = Append(queue[l], t), book'[l] = book[l]
  PROVE  Drained(l)' = Apply(Drained(l), t)
<1>1. queue[l] \in Seq(Ticks)
  BY DEF Plumbing
<1>2. PICK q, r : q = queue[l] /\ r = Append(q, t)
  OBVIOUS
<1>3. /\ q \in Seq(Ticks) /\ r \in Seq(Ticks) /\ Len(r) = Len(q) + 1 /\ r[Len(r)] = t
      /\ \A k \in 1 .. Len(q) : r[k] = q[k]
  BY <1>1, <1>2
<1>4. After(book[l], r) = Apply(After(book[l], q), t)
  BY ONLY <1>3, AfterOneMore
<1> QED
  BY <1>2, <1>4 DEF Drained, After

LEMMA DrainedDispatch ==
  ASSUME Plumbing, NEW l \in Locates, Dispatch(l), NEW m \in Locates
  PROVE  Drained(m)' = Drained(m)
<1>1. queue[l] \in Seq(Ticks) /\ queue[l] # << >>
  BY DEF Plumbing, Dispatch
<1>2. /\ queue' = [queue EXCEPT ![l] = Tail(@)]
      /\ book' = [book EXCEPT ![l] = Apply(@, Head(queue[l]))]
  BY DEF Dispatch
<1>3. queue = [k \in Locates |-> queue[k]] /\ book = [k \in Locates |-> book[k]]
  BY DEF Plumbing
<1>4. CASE m = l
  <2>1. queue'[l] = Tail(queue[l]) /\ book'[l] = Apply(book[l], Head(queue[l]))
    BY <1>2, <1>3
  <2>2. FoldLeft(Apply, book[l], queue[l])
          = FoldLeft(Apply, Apply(book[l], Head(queue[l])), Tail(queue[l]))
    BY <1>1, FoldHead
  <2> QED
    BY <1>4, <2>1, <2>2 DEF Drained
<1>5. CASE m # l
  <2>1. queue'[m] = queue[m] /\ book'[m] = book[m]
    BY <1>2, <1>3, <1>5
  <2> QED
    BY <2>1 DEF Drained
<1> QED
  BY <1>4, <1>5

-----------------------------------------------------------------------------
(* The ticks of one message. *)

LEMMA RouteOne ==
  ASSUME NEW l \in Locates, NEW t \in Ticks, Route(l, <<t>>)
  PROVE  /\ Routed(pending)' /\ pending' # << >> /\ Len(pending') = 1 /\ DOMAIN pending' = {1}
         /\ pending'[1].symbol = l /\ pending'[1].tick = t
<1>1. PICK item : item = [symbol |-> l, tick |-> t]
  OBVIOUS
<1>2. item \in Parcels /\ item.symbol = l /\ item.tick = t
  BY <1>1 DEF Parcels
<1>3. pending' = <<item>>
  <2>1. DOMAIN <<t>> = DOMAIN <<item>> /\ DOMAIN <<t>> = {1} /\ <<t>>[1] = t /\ <<item>>[1] = item
    OBVIOUS
  <2>2. pending' = [i \in DOMAIN <<t>> |-> [symbol |-> l, tick |-> <<t>>[i]]]
    BY DEF Route
  <2>3. pending' = [i \in {1} |-> item]
    BY <1>1, <2>1, <2>2
  <2>4. <<item>> = [i \in {1} |-> item]
    BY <2>1
  <2> QED
    BY <2>3, <2>4
<1>4. /\ <<item>> \in Seq(Parcels) /\ Len(<<item>>) = 1
      /\ DOMAIN <<item>> = {1} /\ <<item>>[1] = item /\ <<item>> # << >>
  BY <1>2
<1> QED
  BY <1>2, <1>3, <1>4 DEF Routed

LEMMA RouteTwo ==
  ASSUME NEW l \in Locates, NEW t \in Ticks, NEW u \in Ticks, u.order_type = "ADD",
         Route(l, <<t, u>>)
  PROVE  /\ Routed(pending)' /\ pending' # << >> /\ Len(pending') = 2
         /\ DOMAIN pending' = {1, 2}
         /\ pending'[1].symbol = l /\ pending'[1].tick = t
         /\ pending'[2].symbol = l /\ pending'[2].tick = u
<1>1. PICK item, last : item = [symbol |-> l, tick |-> t] /\ last = [symbol |-> l, tick |-> u]
  OBVIOUS
<1>2. /\ item \in Parcels /\ item.symbol = l /\ item.tick = t
      /\ last \in Parcels /\ last.symbol = l /\ last.tick = u
  BY <1>1 DEF Parcels
<1>3. pending' = <<item, last>>
  <2>1. /\ DOMAIN <<t, u>> = {1, 2} /\ <<t, u>>[1] = t /\ <<t, u>>[2] = u
        /\ DOMAIN <<item, last>> = {1, 2} /\ <<item, last>>[1] = item /\ <<item, last>>[2] = last
        /\ <<item, last>> = [i \in DOMAIN <<item, last>> |-> <<item, last>>[i]]
    OBVIOUS
  <2>2. pending' = [i \in DOMAIN <<t, u>> |-> [symbol |-> l, tick |-> <<t, u>>[i]]]
    BY DEF Route
  <2>3. \A i \in {1, 2} : pending'[i] = <<item, last>>[i]
    BY <1>1, <2>1, <2>2
  <2> QED
    BY <2>1, <2>2, <2>3
<1>4. /\ <<item, last>> \in Seq(Parcels) /\ Len(<<item, last>>) = 2
      /\ DOMAIN <<item, last>> = {1, 2} /\ <<item, last>>[1] = item /\ <<item, last>>[2] = last
      /\ <<item, last>> # << >>
  BY <1>2
<1> QED
  BY <1>2, <1>3, <1>4 DEF Routed

(* The ticks that are due as the symbol's engine will meet them. *)
LEMMA SettledIs ==
  ASSUME Plumbing, NEW l \in Locates
  PROVE  Settled(l) = Pended(Drained(l), l, pending)
<1>1. PICK q, n : q = queue[l] /\ n = Len(q)
  OBVIOUS
<1>2. q \in Seq(Ticks) /\ n \in Nat /\ Len(q) = n
  BY <1>1 DEF Plumbing
<1>3. pending \in Seq(Parcels) /\ Len(pending) <= 2
      /\ (Len(pending) = 2 => pending[2].symbol = pending[1].symbol)
  BY DEF Plumbing, Routed
<1>4. \/ pending = << >> \/ (pending # << >> /\ pending[1].symbol # l)
      \/ pending # << >> /\ pending[1].symbol = l
  OBVIOUS
<1>5. ASSUME pending = << >> \/ (pending # << >> /\ pending[1].symbol # l)
      PROVE  Settled(l) = Pended(Drained(l), l, pending)
  <2>1. UnderWay(l) = q \o << >>
    <3>1. ~(pending # << >> /\ Head(pending).symbol = l)
      BY <1>3, <1>5
    <3> QED
      BY <1>1, <3>1 DEF UnderWay
  <2>2. q \o << >> = q
    BY <1>2
  <2>3. Pended(Drained(l), l, pending) = Drained(l)
    BY <1>5 DEF Pended
  <2> QED
    BY <1>1, <2>1, <2>2, <2>3 DEF Settled, Drained, After
<1>6. ASSUME pending # << >>, pending[1].symbol = l
      PROVE  Settled(l) = Pended(Drained(l), l, pending)
  <2>1. PICK ticks, all : /\ ticks = [i \in DOMAIN pending |-> pending[i].tick]
                          /\ all = q \o ticks
    OBVIOUS
  <2>2. UnderWay(l) = q \o ticks
    <3>1. pending # << >> /\ Head(pending).symbol = l
      BY <1>3, <1>6
    <3> QED
      BY <1>1, <2>1, <3>1 DEF UnderWay
  <2>3. Settled(l) = After(book[l], all) /\ Drained(l) = After(book[l], q)
    BY <1>1, <2>1, <2>2 DEF Settled, Drained, After
  <2>4. PICK m : m = Len(pending)
    OBVIOUS
  <2>5. m \in {1, 2} /\ DOMAIN pending = 1 .. m
    BY <1>3, <1>6, <2>4
  <2>6. \A i \in 1 .. m : pending[i] \in Parcels
    BY ONLY <1>3, <2>4, <2>5
  <2>7. \A i \in 1 .. m : pending[i].tick \in Ticks
    BY <2>6 DEF Parcels
  <2>8. ticks \in Seq(Ticks) /\ Len(ticks) = m /\ \A i \in 1 .. m : ticks[i] = pending[i].tick
    BY <2>1, <2>5, <2>7
  <2>9. /\ all \in Seq(Ticks) /\ Len(all) = n + m /\ \A k \in 1 .. n : all[k] = q[k]
        /\ \A i \in 1 .. m : all[n + i] = pending[i].tick
    BY <1>1, <1>2, <2>1, <2>5, <2>8
  <2>10. CASE m = 1
    <3>1. Len(all) = Len(q) + 1 /\ all[Len(q) + 1] = pending[1].tick
      BY <1>2, <2>9, <2>10
    <3>2. After(book[l], all) = Apply(After(book[l], q), pending[1].tick)
      BY <1>2, <2>9, <3>1, AfterOneMore
    <3> QED
      BY <1>6, <2>3, <2>4, <2>10, <3>2 DEF Pended
  <2>11. CASE m = 2
    <3>1. PICK r : r = Append(q, pending[1].tick)
      OBVIOUS
    <3>2. pending[1].tick \in Ticks /\ all[n + 1] = pending[1].tick /\ all[n + 2] = pending[2].tick
      BY <2>7, <2>9, <2>11
    <3>3. /\ r \in Seq(Ticks) /\ Len(r) = n + 1 /\ r[n + 1] = pending[1].tick
          /\ \A k \in 1 .. n : r[k] = q[k]
      BY <1>2, <3>1, <3>2
    <3>4. After(book[l], r) = Apply(After(book[l], q), pending[1].tick)
      BY <1>2, <3>3, AfterOneMore
    <3>5. /\ Len(all) = Len(r) + 1 /\ all[Len(r) + 1] = pending[2].tick
          /\ \A k \in 1 .. Len(r) : all[k] = r[k]
      <4>1. \A k \in 1 .. n + 1 : k \in 1 .. n \/ k = n + 1
        BY <1>2
      <4> QED
        BY <1>2, <2>9, <2>11, <3>2, <3>3, <4>1
    <3>6. After(book[l], all) = Apply(After(book[l], r), pending[2].tick)
      BY <2>9, <3>3, <3>5, AfterOneMore
    <3> QED
      BY <1>6, <2>3, <2>4, <2>11, <3>4, <3>6 DEF Pended
  <2> QED
    BY <2>5, <2>10, <2>11
<1> QED
  BY <1>4, <1>5, <1>6

-----------------------------------------------------------------------------
(* A message of the file, as the books see it. *)

(* Of what was seen, orders only shrink; what was added stays as it was.   *)
LEMMA OverKept ==
  ASSUME NEW o, NEW l, NEW x, NEW y, NEW sn, NEW sm, NEW ad, NEW bd,
         x \in [DOMAIN x -> Orders], y \in [DOMAIN y -> Orders],
         Over(o, l, x, sn, ad), sn \subseteq sm, \A key \in sn : bd[key] = ad[key],
         \A key \in sn : key \in DOMAIN y =>
           key \in DOMAIN x /\ y[key].quantity <= x[key].quantity
  PROVE  Over(o, l, y, sm, bd)
<1>1. o \in [DOMAIN o -> Rests]
  BY DEF Over
<1>2. ASSUME NEW id \in DOMAIN o
      PROVE  /\ <<l, id>> \in sm
             /\ o[id].side = bd[<<l, id>>].side
             /\ o[id].price = TickPrice(bd[<<l, id>>].price)
             /\ o[id].quantity <= bd[<<l, id>>].quantity
             /\ <<l, id>> \in DOMAIN y => y[<<l, id>>].quantity <= o[id].quantity
  <2>1. PICK key : key = <<l, id>>
    OBVIOUS
  <2>2. /\ key \in sn /\ o[id].side = ad[key].side /\ o[id].price = TickPrice(ad[key].price)
        /\ o[id].quantity <= ad[key].quantity
        /\ key \in DOMAIN x => x[key].quantity <= o[id].quantity
    BY <2>1 DEF Over
  <2>3. ASSUME key \in DOMAIN y PROVE y[key].quantity <= o[id].quantity
    <3>1. key \in DOMAIN x /\ y[key].quantity <= x[key].quantity /\ x[key].quantity <= o[id].quantity
      BY <2>2, <2>3
    <3>2. y[key].quantity \in Nat /\ x[key].quantity \in Nat /\ o[id].quantity \in Nat
      BY <1>1, <2>3, <3>1 DEF Orders, Rests
    <3> QED
      BY <3>1, <3>2
  <2> QED
    BY <2>1, <2>2, <2>3
<1> QED
  BY <1>1, <1>2 DEF Over

(* Shares taken of one order. *)
LEMMA TakenChanges ==
  ASSUME NEW x, x \in [DOMAIN x -> Orders], NEW key \in DOMAIN x, NEW q \in Nat,
         NEW y, y = Taken(x, key, q)
  PROVE  /\ \A k : k # key => /\ k \in DOMAIN y <=> k \in DOMAIN x
                              /\ k \in DOMAIN x => y[k] = x[k]
         /\ key \in DOMAIN y => y[key].quantity + q = x[key].quantity
<1>1. PICK s, p, n : s = x[key].side /\ p = x[key].price /\ n = x[key].quantity
  OBVIOUS
<1>2. x[key] = [side |-> s, price |-> p, quantity |-> n] /\ n \in Nat /\ IsFunction(x)
  BY <1>1 DEF Orders, IsFunction
<1>3. /\ \A k : k \in DOMAIN y <=> k \in DOMAIN x /\ (k = key => q < n)
      /\ \A k \in DOMAIN y :
           y[k] = IF k = key THEN [side |-> s, price |-> p, quantity |-> n - q] ELSE x[k]
  BY <1>2, TakenExactly
<1>4. ASSUME key \in DOMAIN y PROVE y[key].quantity + q = n
  <2>1. y[key] = [side |-> s, price |-> p, quantity |-> n - q]
    BY <1>3, <1>4
  <2>2. y[key].quantity = n - q
    BY <2>1
  <2> QED
    BY <1>2, <2>2
<1> QED
  BY <1>1, <1>3, <1>4

(* What a message leaves to show: the types of what it makes, that the     *)
(* orders only shrink, and that its ticks are right and exact.             *)
LEMMA MessageStep ==
  ASSUME IInv, IInv', BookInv, ReadMessage, Routed(pending)', seen \subseteq seen',
         \A key \in seen' : key[1] \in target_stock_locates',
         added' \in [DOMAIN added' -> Orders],
         \A key \in seen : added'[key] = added[key],
         \A key \in seen : key \in DOMAIN exchange' =>
           key \in DOMAIN exchange /\ exchange'[key].quantity <= exchange[key].quantity,
         \A i \in DOMAIN pending' :
           TickRight(pending'[i].tick, Drained(pending'[i].symbol), pending'[i].symbol,
                     exchange', seen', added'),
         ticks_dropped = 0 =>
           \A l \in Locates : IsBook(Pended(Drained(l), l, pending'), l, exchange', seen')
  PROVE  BookInv'
<1>1. Plumbing'
  BY DEF BookInv, Plumbing, ReadMessage
<1>2. \A l : Drained(l)' = Drained(l)
  BY DrainedStays DEF ReadMessage
<1>3. exchange \in [DOMAIN exchange -> Orders] /\ exchange' \in [DOMAIN exchange' -> Orders]
  BY DEF IInv, Types
<1>4. BooksBehind'
  <2>1. ASSUME NEW l \in Locates PROVE Over(Drained(l), l, exchange', seen', added')
    <3>1. Over(Drained(l), l, exchange, seen, added)
      BY DEF BookInv, BooksBehind
    <3> QED
      BY <1>3, <3>1, OverKept
  <2> QED
    BY <1>2, <2>1 DEF BooksBehind
<1>5. TicksRight'
  BY <1>2 DEF TicksRight
<1>6. BooksExact'
  BY <1>2 DEF BooksExact, ReadMessage
<1> QED
  BY <1>1, <1>4, <1>5, <1>6 DEF BookInv

(* What the books were before it. *)
LEMMA BeforeMessage ==
  ASSUME IInv, BookInv, ReadMessage
  PROVE  /\ Routed(pending) /\ pending = << >>
         /\ \A key \in seen : key[1] \in target_stock_locates
         /\ added \in [DOMAIN added -> Orders] /\ exchange \in [DOMAIN exchange -> Orders]
         /\ \A l \in Locates : Over(Drained(l), l, exchange, seen, added)
         /\ ticks_dropped = 0 => \A l \in Locates : IsBook(Drained(l), l, exchange, seen)
BY DEF IInv, Types, BookInv, Plumbing, BooksBehind, BooksExact, ReadMessage, Pended

(* An order the ingestor does not know, in a message, is one it has not    *)
(* seen; one that it knows has its side and price in the map.              *)
LEMMA UnknownUnseen ==
  ASSUME IInv, BookInv, NEW l \in Locates, NEW id \in OrderIds, <<l, id>> \in DOMAIN exchange
  PROVE  Known(l, id) <=> <<l, id>> \in seen
<1>1. PICK key : key = <<l, id>> /\ key \in DOMAIN exchange
  OBVIOUS
<1>2. Known(l, id) <=> l \in target_stock_locates /\ key \in DOMAIN order_side_map
  BY <1>1 DEF Known, Key
<1>3. key \in seen => key[1] \in target_stock_locates /\ key[1] = l
  BY <1>1 DEF BookInv, Plumbing
<1>4. key \in seen <=> key \in DOMAIN order_side_map
  BY <1>1 DEF IInv, MapFollows
<1> QED
  BY <1>1, <1>2, <1>3, <1>4

(* Messages that change nothing the books could see. *)
LEMMA QuietStep ==
  ASSUME IInv, IInv', BookInv, ReadMessage, UNCHANGED <<pending, seen>>,
         target_stock_locates \subseteq target_stock_locates',
         added' \in [DOMAIN added' -> Orders],
         \A key \in seen : /\ added'[key] = added[key]
                           /\ key \in DOMAIN exchange' <=> key \in DOMAIN exchange
                           /\ key \in DOMAIN exchange => exchange'[key] = exchange[key]
  PROVE  BookInv'
<1>1. /\ Routed(pending) /\ pending = << >>
      /\ \A key \in seen : key[1] \in target_stock_locates
      /\ exchange \in [DOMAIN exchange -> Orders]
      /\ ticks_dropped = 0 => \A l \in Locates : IsBook(Drained(l), l, exchange, seen)
  BY BeforeMessage
<1>2. \A key \in seen : key \in DOMAIN exchange' =>
        key \in DOMAIN exchange /\ exchange'[key].quantity <= exchange[key].quantity
  <2>1. \A key \in DOMAIN exchange : exchange[key].quantity \in Nat
    BY <1>1 DEF Orders
  <2>2. \A n \in Nat : n <= n
    OBVIOUS
  <2> QED
    BY <2>1, <2>2
<1>3. ASSUME ticks_dropped = 0, NEW l \in Locates
      PROVE  IsBook(Pended(Drained(l), l, pending'), l, exchange', seen')
  <2>1. IsBook(Drained(l), l, exchange, seen)
    BY <1>1, <1>3
  <2>2. IsBook(Drained(l), l, exchange', seen')
    BY <2>1, BookUntouched
  <2> QED
    BY <1>1, <2>2 DEF Pended
<1>4. \A i \in DOMAIN pending' : FALSE
  BY <1>1
<1> QED
  BY <1>1, <1>2, <1>3, <1>4, MessageStep

-----------------------------------------------------------------------------
(* Messages that make ticks, all for symbol l. *)
LEMMA LoudStep ==
  ASSUME IInv, IInv', BookInv, ReadMessage, NEW l \in Locates,
         Routed(pending)', pending' # << >>, \A i \in DOMAIN pending' : pending'[i].symbol = l,
         l \in target_stock_locates, target_stock_locates' = target_stock_locates,
         seen \subseteq seen', \A key \in seen' \ seen : key[1] = l,
         added' \in [DOMAIN added' -> Orders],
         \A key \in seen : added'[key] = added[key],
         \A key \in seen : key \in DOMAIN exchange' =>
           key \in DOMAIN exchange /\ exchange'[key].quantity <= exchange[key].quantity,
         \A key : key[1] # l => /\ key \in DOMAIN exchange' <=> key \in DOMAIN exchange
                                /\ key \in DOMAIN exchange => exchange'[key] = exchange[key],
         \A i \in DOMAIN pending' :
           TickRight(pending'[i].tick, Drained(l), l, exchange', seen', added'),
         ticks_dropped = 0 => IsBook(Pended(Drained(l), l, pending'), l, exchange', seen')
  PROVE  BookInv'
<1>1. /\ \A key \in seen : key[1] \in target_stock_locates
      /\ ticks_dropped = 0 => \A m \in Locates : IsBook(Drained(m), m, exchange, seen)
  BY BeforeMessage
<1>2. ASSUME ticks_dropped = 0, NEW m \in Locates
      PROVE  IsBook(Pended(Drained(m), m, pending'), m, exchange', seen')
  <2>1. CASE m = l
    BY <1>2, <2>1
  <2>2. CASE m # l
    <3>1. 1 \in DOMAIN pending'
      BY DEF Routed
    <3>2. Pended(Drained(m), m, pending') = Drained(m)
      BY <2>2, <3>1 DEF Pended
    <3>3. ASSUME NEW id \in OrderIds
          PROVE  /\ <<m, id>> \in seen <=> <<m, id>> \in seen'
                 /\ <<m, id>> \in DOMAIN exchange <=> <<m, id>> \in DOMAIN exchange'
                 /\ <<m, id>> \in DOMAIN exchange => exchange'[<<m, id>>] = exchange[<<m, id>>]
      <4>1. <<m, id>>[1] = m
        OBVIOUS
      <4>2. PICK key : key = <<m, id>> /\ key[1] = m
        BY <4>1, Zenon
      <4>3. /\ key \in seen <=> key \in seen'
            /\ key \in DOMAIN exchange <=> key \in DOMAIN exchange'
            /\ key \in DOMAIN exchange => exchange'[key] = exchange[key]
        BY <2>2, <4>2
      <4> QED
        BY <4>2, <4>3
    <3>4. IsBook(Drained(m), m, exchange, seen)
      BY <1>1, <1>2
    <3>5. IsBook(Drained(m), m, exchange', seen')
      BY <3>3, <3>4, BookUntouched
    <3> QED
      BY <3>2, <3>5
  <2> QED
    BY <2>1, <2>2
<1>3. \A key \in seen' : key[1] \in target_stock_locates'
  BY <1>1
<1>4. \A i \in DOMAIN pending' :
        TickRight(pending'[i].tick, Drained(pending'[i].symbol), pending'[i].symbol,
                  exchange', seen', added')
  OBVIOUS
<1> QED
  BY <1>2, <1>3, <1>4, MessageStep

LEMMA TickIs ==
  ASSUME NEW type \in {"ADD", "CANCEL", "EXECUTE"}, NEW id \in OrderIds, NEW e,
         e.side \in Sides, e.price \in Nat, NEW q \in Nat
  PROVE  /\ Tick(type, id, e, q) \in Ticks
         /\ Tick(type, id, e, q).order_type = type /\ Tick(type, id, e, q).order_id = id
         /\ Tick(type, id, e, q).side = e.side /\ Tick(type, id, e, q).price = e.price
         /\ Tick(type, id, e, q).quantity = q
         /\ ~Tick(type, id, e, q).trade_side_is_aggressor
<1>1. PICK s, p : s = e.side /\ p = e.price
  OBVIOUS
<1>2. Tick(type, id, e, q) =
        [order_type |-> type, order_id |-> id, side |-> s, price |-> p,
         quantity |-> q, trade_side_is_aggressor |-> FALSE]
  BY <1>1 DEF Tick
<1>3. s \in Sides /\ p \in Nat
  BY <1>1
<1> QED
  BY <1>1, <1>2, <1>3 DEF Ticks

(* Shares of a known order are executed or cancelled. *)
LEMMA KnownTaken ==
  ASSUME IInv, IInv', BookInv, ReadMessage, NEW l \in Locates, NEW id \in OrderIds,
         NEW q \in Quantities, <<l, id>> \in DOMAIN exchange, Known(l, id),
         exchange' = Taken(exchange, <<l, id>>, q),
         UNCHANGED <<target_stock_locates, added, seen>>,
         NEW t \in Ticks, Takes(t), t.order_id = id, t.quantity = q, Route(l, <<t>>)
  PROVE  BookInv'
<1>1. PICK key : key = <<l, id>> /\ key[1] = l
  OBVIOUS
<1>2. /\ pending = << >> /\ added \in [DOMAIN added -> Orders]
      /\ exchange \in [DOMAIN exchange -> Orders]
      /\ \A m \in Locates : Over(Drained(m), m, exchange, seen, added)
      /\ ticks_dropped = 0 => \A m \in Locates : IsBook(Drained(m), m, exchange, seen)
  BY BeforeMessage
<1>3. /\ Routed(pending)' /\ pending' # << >> /\ Len(pending') = 1 /\ DOMAIN pending' = {1}
      /\ pending'[1].symbol = l /\ pending'[1].tick = t
  BY RouteOne
<1>4. q \in Nat /\ q > 0 /\ key \in DOMAIN exchange /\ t.order_type # "ADD"
  BY <1>1, IngestorAssumption DEF Takes
<1>5. /\ \A k : k # key => /\ k \in DOMAIN exchange' <=> k \in DOMAIN exchange
                           /\ k \in DOMAIN exchange => exchange'[k] = exchange[k]
      /\ key \in DOMAIN exchange' => exchange'[key].quantity + q = exchange[key].quantity
  BY <1>1, <1>2, <1>4, TakenChanges
<1>6. exchange' \in [DOMAIN exchange' -> Orders]
  BY DEF IInv, Types
<1>7. ASSUME NEW k \in seen, k \in DOMAIN exchange'
      PROVE  k \in DOMAIN exchange /\ exchange'[k].quantity <= exchange[k].quantity
  <2>1. k \in DOMAIN exchange
    BY <1>4, <1>5, <1>7
  <2>2. exchange'[k].quantity \in Nat /\ exchange[k].quantity \in Nat
    BY <1>2, <1>6, <1>7, <2>1 DEF Orders
  <2>3. CASE k = key
    <3>1. exchange'[k].quantity + q = exchange[k].quantity
      BY <1>5, <1>7, <2>3
    <3> QED
      BY <1>4, <2>1, <2>2, <3>1
  <2>4. CASE k # key
    <3>1. exchange'[k] = exchange[k]
      BY <1>5, <2>1, <2>4
    <3> QED
      BY <2>1, <2>2, <3>1
  <2> QED
    BY <2>3, <2>4
<1>8. TickRight(t, Drained(l), l, exchange', seen', added')
  <2>1. ASSUME key \in DOMAIN exchange', id \in DOMAIN Drained(l)
        PROVE  q > 0 /\ exchange'[key].quantity + q <= Drained(l)[id].quantity
    <3>1. exchange[key].quantity <= Drained(l)[id].quantity
      <4>1. Over(Drained(l), l, exchange, seen, added)
        BY <1>2
      <4> QED
        BY <1>1, <1>4, <2>1, <4>1 DEF Over
    <3> QED
      BY <1>4, <1>5, <2>1, <3>1
  <2>2. TakeRight(t, Drained(l), l, exchange')
    BY <1>1, <2>1 DEF TakeRight
  <2> QED
    BY <1>4, <2>2 DEF TickRight
<1>9. ASSUME ticks_dropped = 0
      PROVE  IsBook(Pended(Drained(l), l, pending'), l, exchange', seen')
  <2>1. IsBook(Drained(l), l, exchange, seen)
    BY <1>2, <1>9
  <2>2. t.quantity > 0 /\ <<l, t.order_id>> \in DOMAIN exchange
    BY <1>4
  <2>3. IsBook(Apply(Drained(l), t), l, Taken(exchange, <<l, t.order_id>>, t.quantity), seen)
    BY <1>2, <2>1, <2>2, BookTaken
  <2>4. Pended(Drained(l), l, pending') = Apply(Drained(l), t)
    BY <1>3 DEF Pended
  <2> QED
    BY <2>3, <2>4
<1>10. l \in target_stock_locates
  BY DEF Known
<1>11. \A k : k[1] # l => k # key
  BY <1>1
<1> QED
  BY <1>1, <1>2, <1>3, <1>5, <1>7, <1>8, <1>9, <1>10, <1>11, LoudStep

(* One is deleted. *)
LEMMA KnownDeleted ==
  ASSUME IInv, IInv', BookInv, ReadMessage, NEW l \in Locates, NEW id \in OrderIds,
         <<l, id>> \in DOMAIN exchange, Known(l, id),
         exchange' = Without(exchange, <<l, id>>),
         UNCHANGED <<target_stock_locates, added, seen>>,
         NEW t \in Ticks, t.order_type = "CANCEL", t.order_id = id, t.quantity = 0,
         Route(l, <<t>>)
  PROVE  BookInv'
<1>1. PICK key : key = <<l, id>> /\ key[1] = l
  OBVIOUS
<1>2. /\ added \in [DOMAIN added -> Orders] /\ exchange \in [DOMAIN exchange -> Orders]
      /\ ticks_dropped = 0 => \A m \in Locates : IsBook(Drained(m), m, exchange, seen)
  BY BeforeMessage
<1>3. /\ Routed(pending)' /\ pending' # << >> /\ Len(pending') = 1 /\ DOMAIN pending' = {1}
      /\ pending'[1].symbol = l /\ pending'[1].tick = t
  BY RouteOne
<1>4. /\ DOMAIN exchange' = DOMAIN exchange \ {key}
      /\ \A k \in DOMAIN exchange : k # key => exchange'[k] = exchange[k]
  BY ONLY <1>1, exchange' = Without(exchange, <<l, id>>) DEF Without, Restrict
<1>5. \A k \in DOMAIN exchange : exchange[k].quantity <= exchange[k].quantity
  <2>1. \A k \in DOMAIN exchange : exchange[k].quantity \in Nat
    BY <1>2 DEF Orders
  <2>2. \A n \in Nat : n <= n
    OBVIOUS
  <2> QED
    BY <2>1, <2>2
<1>6. \A k \in seen : k \in DOMAIN exchange' =>
        k \in DOMAIN exchange /\ exchange'[k].quantity <= exchange[k].quantity
  BY <1>4, <1>5
<1>7. TickRight(t, Drained(l), l, exchange', seen', added')
  BY <1>1, <1>4 DEF TickRight, TakeRight
<1>8. ASSUME ticks_dropped = 0
      PROVE  IsBook(Pended(Drained(l), l, pending'), l, exchange', seen')
  <2>1. IsBook(Drained(l), l, exchange, seen)
    BY <1>2, <1>8
  <2>2. IsBook(Apply(Drained(l), t), l, Without(exchange, <<l, t.order_id>>), seen)
    BY <1>2, <2>1, BookDeleted
  <2>3. Pended(Drained(l), l, pending') = Apply(Drained(l), t)
    BY <1>3 DEF Pended
  <2> QED
    BY <2>2, <2>3
<1>9. l \in target_stock_locates
  BY DEF Known
<1>10. \A k : k[1] # l => k # key
  BY <1>1
<1> QED
  BY <1>1, <1>2, <1>3, <1>4, <1>6, <1>7, <1>8, <1>9, <1>10, LoudStep

(* An order of a target symbol is added. *)
LEMMA TargetAdded ==
  ASSUME IInv, IInv', BookInv, ReadMessage, NEW l \in Locates, NEW id \in OrderIds,
         l \in target_stock_locates, UNCHANGED target_stock_locates,
         <<l, id>> \notin DOMAIN added, NEW order \in Orders,
         exchange' = With(exchange, <<l, id>>, order), added' = With(added, <<l, id>>, order),
         seen' = seen \union {<<l, id>>},
         NEW t \in Ticks, t.order_type = "ADD", t.order_id = id, t.side = order.side,
         t.price = TickPrice(order.price), t.quantity = order.quantity, Route(l, <<t>>)
  PROVE  BookInv'
<1>1. PICK key : key = <<l, id>> /\ key[1] = l
  OBVIOUS
<1>2. /\ added \in [DOMAIN added -> Orders] /\ exchange \in [DOMAIN exchange -> Orders]
      /\ ticks_dropped = 0 => \A m \in Locates : IsBook(Drained(m), m, exchange, seen)
  BY BeforeMessage
<1>3. /\ Routed(pending)' /\ pending' # << >> /\ Len(pending') = 1 /\ DOMAIN pending' = {1}
      /\ pending'[1].symbol = l /\ pending'[1].tick = t
  BY RouteOne
<1>4. key \notin seen /\ key \notin DOMAIN exchange /\ key \notin DOMAIN added
  BY <1>1 DEF IInv, HistoryGrows
<1>5. /\ DOMAIN exchange' = DOMAIN exchange \union {key} /\ exchange'[key] = order
      /\ \A k \in DOMAIN exchange : exchange'[k] = exchange[k]
  BY <1>1, <1>4 DEF With
<1>6. /\ added' \in [DOMAIN added' -> Orders] /\ added'[key] = order
      /\ \A k \in DOMAIN added : added'[k] = added[k]
  BY <1>1, <1>2, <1>4 DEF With
<1>7. \A k \in seen : added'[k] = added[k]
  BY <1>6 DEF IInv, HistoryGrows
<1>8. \A k \in seen : k \in DOMAIN exchange' =>
        k \in DOMAIN exchange /\ exchange'[k].quantity <= exchange[k].quantity
  <2>1. \A k \in DOMAIN exchange : exchange[k].quantity \in Nat
    BY <1>2 DEF Orders
  <2>2. \A n \in Nat : n <= n
    OBVIOUS
  <2> QED
    BY <1>4, <1>5, <2>1, <2>2
<1>9. TickRight(t, Drained(l), l, exchange', seen', added')
  <2>1. order.quantity \in Nat
    BY DEF Orders
  <2>2. AddRight(t, l, exchange', seen', added')
    BY <1>1, <1>5, <1>6, <2>1 DEF AddRight
  <2> QED
    BY <2>2 DEF TickRight, Takes
<1>10. ASSUME ticks_dropped = 0
       PROVE  IsBook(Pended(Drained(l), l, pending'), l, exchange', seen')
  <2>1. IsBook(Drained(l), l, exchange, seen)
    BY <1>2, <1>10
  <2>2. <<l, t.order_id>> \notin DOMAIN exchange
    BY <1>1, <1>4
  <2>3. IsBook(Apply(Drained(l), t), l, With(exchange, <<l, t.order_id>>, order),
               seen \union {<<l, t.order_id>>})
    BY <1>2, <2>1, <2>2, BookAdded
  <2>4. Pended(Drained(l), l, pending') = Apply(Drained(l), t)
    BY <1>3 DEF Pended
  <2> QED
    BY <2>3, <2>4
<1>11. \A k : k[1] # l => k # key
  BY <1>1
<1> QED
  BY <1>1, <1>3, <1>5, <1>6, <1>7, <1>8, <1>9, <1>10, <1>11, LoudStep

(* A known order makes way for another one. *)
LEMMA KnownReplaced ==
  ASSUME IInv, IInv', BookInv, ReadMessage, NEW l \in Locates, NEW id \in OrderIds,
         NEW new \in OrderIds, <<l, id>> \in DOMAIN exchange, Known(l, id),
         UNCHANGED target_stock_locates, <<l, new>> \notin DOMAIN added, NEW order \in Orders,
         exchange' = With(Without(exchange, <<l, id>>), <<l, new>>, order),
         added' = With(added, <<l, new>>, order), seen' = seen \union {<<l, new>>},
         NEW t \in Ticks, t.order_type = "CANCEL", t.order_id = id, t.quantity = 0,
         NEW u \in Ticks, u.order_type = "ADD", u.order_id = new, u.side = order.side,
         u.price = TickPrice(order.price), u.quantity = order.quantity, Route(l, <<t, u>>)
  PROVE  BookInv'
<1>1. PICK key, newKey : key = <<l, id>> /\ key[1] = l /\ newKey = <<l, new>> /\ newKey[1] = l
  OBVIOUS
<1>2. /\ added \in [DOMAIN added -> Orders] /\ exchange \in [DOMAIN exchange -> Orders]
      /\ ticks_dropped = 0 => \A m \in Locates : IsBook(Drained(m), m, exchange, seen)
  BY BeforeMessage
<1>3. /\ Routed(pending)' /\ pending' # << >> /\ Len(pending') = 2 /\ DOMAIN pending' = {1, 2}
      /\ pending'[1].symbol = l /\ pending'[1].tick = t
      /\ pending'[2].symbol = l /\ pending'[2].tick = u
  BY RouteTwo
<1>4. /\ newKey \notin seen /\ newKey \notin DOMAIN exchange /\ newKey \notin DOMAIN added
      /\ newKey # key /\ key \in DOMAIN exchange
  BY <1>1 DEF IInv, HistoryGrows
<1> PICK rest : rest = Without(exchange, key)
  OBVIOUS
<1>5. /\ DOMAIN rest = DOMAIN exchange \ {key} /\ rest \in [DOMAIN rest -> Orders]
      /\ \A k \in DOMAIN rest : rest[k] = exchange[k]
  BY <1>2 DEF Without, Restrict
<1>6. exchange' = With(rest, newKey, order)
  BY <1>1
<1>7. /\ DOMAIN exchange' = (DOMAIN exchange \ {key}) \union {newKey} /\ exchange'[newKey] = order
      /\ \A k \in DOMAIN exchange : k # key => exchange'[k] = exchange[k]
  BY ONLY <1>4, <1>5, <1>6 DEF With
<1>8. /\ added' \in [DOMAIN added' -> Orders] /\ added'[newKey] = order
      /\ \A k \in DOMAIN added : added'[k] = added[k]
  BY <1>1, <1>2, <1>4 DEF With
<1>9. \A k \in seen : added'[k] = added[k]
  BY <1>8 DEF IInv, HistoryGrows
<1>10. \A k \in seen : k \in DOMAIN exchange' =>
         k \in DOMAIN exchange /\ exchange'[k].quantity <= exchange[k].quantity
  <2>1. \A k \in DOMAIN exchange : exchange[k].quantity \in Nat
    BY <1>2 DEF Orders
  <2>2. \A n \in Nat : n <= n
    OBVIOUS
  <2> QED
    BY <1>4, <1>7, <2>1, <2>2
<1>11. TickRight(t, Drained(l), l, exchange', seen', added')
  BY <1>1, <1>4, <1>7 DEF TickRight, TakeRight
<1>12. TickRight(u, Drained(l), l, exchange', seen', added')
  <2>1. order.quantity \in Nat
    BY DEF Orders
  <2>2. AddRight(u, l, exchange', seen', added')
    BY <1>1, <1>7, <1>8, <2>1 DEF AddRight
  <2> QED
    BY <2>2 DEF TickRight, Takes
<1>13. ASSUME ticks_dropped = 0
       PROVE  IsBook(Pended(Drained(l), l, pending'), l, exchange', seen')
  <2>1. IsBook(Drained(l), l, exchange, seen)
    BY <1>2, <1>13
  <2> PICK half : half = Apply(Drained(l), t)
    OBVIOUS
  <2>2. IsBook(Apply(Drained(l), t), l, Without(exchange, <<l, t.order_id>>), seen)
    BY <1>2, <2>1, BookDeleted
  <2>3. IsBook(half, l, rest, seen)
    BY <1>1, <2>2
  <2>4. <<l, u.order_id>> \notin DOMAIN rest
    BY <1>1, <1>4, <1>5
  <2>5. IsBook(Apply(half, u), l, With(rest, <<l, u.order_id>>, order),
               seen \union {<<l, u.order_id>>})
    BY <1>5, <2>3, <2>4, BookAdded
  <2>6. Pended(Drained(l), l, pending') = Apply(half, u)
    BY <1>3 DEF Pended
  <2> QED
    BY <1>1, <1>6, <2>5, <2>6
<1>14. l \in target_stock_locates
  BY DEF Known
<1>15. \A k : k[1] # l => k # key /\ k # newKey
  BY <1>1
<1>16. \A i \in DOMAIN pending' : pending'[i].symbol = l
  BY <1>3
<1>17. \A i \in DOMAIN pending' :
         TickRight(pending'[i].tick, Drained(l), l, exchange', seen', added')
  BY <1>3, <1>11, <1>12
<1>18. \A k \in seen' \ seen : k[1] = l
  BY <1>1
<1>19. \A k : k[1] # l => /\ k \in DOMAIN exchange' <=> k \in DOMAIN exchange
                          /\ k \in DOMAIN exchange => exchange'[k] = exchange[k]
  BY <1>7, <1>15
<1> QED
  BY <1>3, <1>8, <1>9, <1>10, <1>13, <1>14, <1>16, <1>17, <1>18, <1>19, LoudStep

(* A trade of a target symbol: its tick takes nothing from the book. *)
LEMMA TargetTraded ==
  ASSUME IInv, IInv', BookInv, ReadMessage, NEW l \in Locates,
         l \in target_stock_locates, UNCHANGED <<target_stock_locates, exchange, added, seen>>,
         NEW t \in Ticks, t.order_type = "EXECUTE", t.trade_side_is_aggressor, Route(l, <<t>>)
  PROVE  BookInv'
<1>1. /\ added \in [DOMAIN added -> Orders] /\ exchange \in [DOMAIN exchange -> Orders]
      /\ ticks_dropped = 0 => \A m \in Locates : IsBook(Drained(m), m, exchange, seen)
  BY BeforeMessage
<1>2. /\ Routed(pending)' /\ pending' # << >> /\ Len(pending') = 1 /\ DOMAIN pending' = {1}
      /\ pending'[1].symbol = l /\ pending'[1].tick = t
  BY RouteOne
<1>3. \A k \in DOMAIN exchange : exchange[k].quantity <= exchange[k].quantity
  <2>1. \A k \in DOMAIN exchange : exchange[k].quantity \in Nat
    BY <1>1 DEF Orders
  <2>2. \A n \in Nat : n <= n
    OBVIOUS
  <2> QED
    BY <2>1, <2>2
<1>4. TickRight(t, Drained(l), l, exchange', seen', added')
  BY DEF TickRight, Takes
<1>5. Apply(Drained(l), t) = Drained(l)
  BY ApplyTakes DEF Takes
<1>6. Pended(Drained(l), l, pending') = Drained(l)
  BY <1>2, <1>5 DEF Pended
<1> QED
  BY <1>1, <1>2, <1>3, <1>4, <1>6, LoudStep

-----------------------------------------------------------------------------
(* One lemma per action. *)

LEMMA DirectoryBooks ==
  ASSUME IInv, IInv', BookInv, NEW l \in Locates, ReadDirectory(l)
  PROVE  BookInv'
<1>1. /\ ReadMessage /\ UNCHANGED <<pending, exchange, added, seen>>
      /\ target_stock_locates \subseteq target_stock_locates'
  BY DEF ReadDirectory
<1>2. added \in [DOMAIN added -> Orders]
  BY DEF BookInv, Plumbing
<1> QED
  BY <1>1, <1>2, QuietStep

LEMMA AddBooks ==
  ASSUME IInv, IInv', BookInv, NEW l \in Locates, NEW id \in OrderIds, NEW s \in Sides,
         NEW p \in Prices, NEW q \in Quantities, ReadAdd(l, id, s, p, q)
  PROVE  BookInv'
<1>1. PICK order, entry, t : /\ order = [side |-> s, price |-> p, quantity |-> q]
                             /\ entry = [side |-> s, price |-> TickPrice(p)]
                             /\ t = Tick("ADD", id, entry, q)
  OBVIOUS
<1>2. q \in Nat /\ TickPrice(p) \in Nat
  BY IngestorAssumption, TickPriceType
<1>3. order \in Orders /\ order.side = s /\ order.price = p /\ order.quantity = q
  BY <1>1, <1>2 DEF Orders
<1>4. entry.side = s /\ entry.price = TickPrice(p)
  BY <1>1
<1>5. /\ t \in Ticks /\ t.order_type = "ADD" /\ t.order_id = id /\ t.side = s
      /\ t.price = TickPrice(p) /\ t.quantity = q
  BY <1>1, <1>2, <1>4, TickIs
<1>6. /\ ReadMessage /\ <<l, id>> \notin DOMAIN added
      /\ exchange' = With(exchange, <<l, id>>, order) /\ added' = With(added, <<l, id>>, order)
      /\ UNCHANGED target_stock_locates
  BY <1>1 DEF ReadAdd
<1>7. CASE l \in target_stock_locates
  <2>1. seen' = seen \union {<<l, id>>} /\ Route(l, <<t>>)
    BY <1>1, <1>7 DEF ReadAdd
  <2> QED
    BY <1>3, <1>5, <1>6, <1>7, <2>1, TargetAdded
<1>8. CASE l \notin target_stock_locates
  <2>1. UNCHANGED <<pending, seen>>
    BY <1>8 DEF ReadAdd
  <2>2. PICK key : key = <<l, id>>
    OBVIOUS
  <2>3. key \notin seen /\ key \notin DOMAIN exchange /\ key \notin DOMAIN added
        /\ seen \subseteq DOMAIN added
    BY <1>6, <2>2 DEF IInv, HistoryGrows
  <2>4. added \in [DOMAIN added -> Orders]
    BY DEF BookInv, Plumbing
  <2>5. /\ DOMAIN exchange' = DOMAIN exchange \union {key}
        /\ \A k \in DOMAIN exchange : exchange'[k] = exchange[k]
        /\ added' \in [DOMAIN added' -> Orders] /\ \A k \in DOMAIN added : added'[k] = added[k]
    BY ONLY <1>3, <1>6, <2>2, <2>3, <2>4 DEF With
  <2>6. \A k \in seen : /\ added'[k] = added[k]
                        /\ k \in DOMAIN exchange' <=> k \in DOMAIN exchange
                        /\ k \in DOMAIN exchange => exchange'[k] = exchange[k]
    BY <2>3, <2>5
  <2> QED
    BY <1>6, <2>1, <2>5, <2>6, QuietStep
<1> QED
  BY <1>7, <1>8

(* A change of an order the ingestor does not know goes unnoticed. *)
LEMMA UnknownChanged ==
  ASSUME IInv, IInv', BookInv, ReadMessage, NEW l \in Locates, NEW id \in OrderIds,
         <<l, id>> \in DOMAIN exchange, ~Known(l, id),
         UNCHANGED <<target_stock_locates, added, seen, pending>>,
         \A k : k # <<l, id>> => /\ k \in DOMAIN exchange' <=> k \in DOMAIN exchange
                                 /\ k \in DOMAIN exchange => exchange'[k] = exchange[k]
  PROVE  BookInv'
<1>1. <<l, id>> \notin seen
  BY UnknownUnseen
<1>2. added \in [DOMAIN added -> Orders]
  BY DEF BookInv, Plumbing
<1>3. \A k \in seen : /\ added'[k] = added[k]
                      /\ k \in DOMAIN exchange' <=> k \in DOMAIN exchange
                      /\ k \in DOMAIN exchange => exchange'[k] = exchange[k]
  BY <1>1
<1> QED
  BY <1>2, <1>3, QuietStep

(* A known order has an entry, with a side and a price. *)
LEMMA EntryIs ==
  ASSUME IInv, NEW l \in Locates, NEW id \in OrderIds, <<l, id>> \in DOMAIN exchange,
         Known(l, id)
  PROVE  /\ order_side_map[Key(l, id)].side \in Sides /\ order_side_map[Key(l, id)].price \in Nat
         /\ order_side_map[Key(l, id)].side = exchange[<<l, id>>].side
         /\ order_side_map[Key(l, id)] \in Entries
<1>1. PICK key : key = <<l, id>> /\ key = Key(l, id)
  BY DEF Key
<1>2. key \in DOMAIN order_side_map /\ key \in DOMAIN exchange
  BY <1>1 DEF Known
<1>3. order_side_map[key] \in Entries /\ order_side_map[key].side = exchange[key].side
  BY <1>2 DEF IInv, Types, MapFollows
<1> QED
  BY <1>1, <1>3 DEF Entries

LEMMA CancelBooks ==
  ASSUME IInv, IInv', BookInv, NEW l \in Locates, NEW id \in OrderIds, NEW q \in Quantities,
         ReadCancel(l, id, q)
  PROVE  BookInv'
<1>1. /\ ReadMessage /\ <<l, id>> \in DOMAIN exchange
      /\ exchange' = Taken(exchange, <<l, id>>, q)
      /\ UNCHANGED <<target_stock_locates, added, seen>>
  BY DEF ReadCancel
<1>2. q \in Nat
  BY IngestorAssumption
<1>3. CASE Known(l, id)
  <2>1. PICK t : t = Tick("CANCEL", id, order_side_map[Key(l, id)], q)
    OBVIOUS
  <2>2. t \in Ticks /\ t.order_type = "CANCEL" /\ t.order_id = id /\ t.quantity = q
    BY <1>1, <1>2, <1>3, <2>1, EntryIs, TickIs
  <2>3. Route(l, <<t>>)
    BY <1>3, <2>1 DEF ReadCancel
  <2>4. Takes(t)
    BY <2>2 DEF Takes
  <2> QED
    BY <1>1, <1>3, <2>2, <2>3, <2>4, KnownTaken
<1>4. CASE ~Known(l, id)
  <2>1. UNCHANGED pending
    BY <1>4 DEF ReadCancel
  <2>2. exchange \in [DOMAIN exchange -> Orders]
    BY DEF IInv, Types
  <2>3. \A k : k # <<l, id>> => /\ k \in DOMAIN exchange' <=> k \in DOMAIN exchange
                                /\ k \in DOMAIN exchange => exchange'[k] = exchange[k]
    BY <1>1, <1>2, <2>2, TakenChanges
  <2> QED
    BY <1>1, <1>4, <2>1, <2>3, UnknownChanged
<1> QED
  BY <1>3, <1>4

LEMMA ExecutedBooks ==
  ASSUME IInv, IInv', BookInv, NEW l \in Locates, NEW id \in OrderIds, NEW q \in Quantities,
         NEW p \in Prices, ReadExecuted(l, id, q, p)
  PROVE  BookInv'
<1>1. /\ ReadMessage /\ <<l, id>> \in DOMAIN exchange
      /\ exchange' = Taken(exchange, <<l, id>>, q)
      /\ UNCHANGED <<target_stock_locates, added, seen>>
  BY DEF ReadExecuted
<1>2. q \in Nat
  BY IngestorAssumption
<1>3. CASE Known(l, id)
  <2>1. PICK old, entry, t, price :
          /\ old = order_side_map[Key(l, id)] /\ price \in {old.price, TickPrice(p)}
          /\ entry = [old EXCEPT !.price = price]
          /\ t = Tick("EXECUTE", id, entry, q) /\ Route(l, <<t>>)
    BY <1>3 DEF ReadExecuted
  <2>2. old \in Entries /\ TickPrice(p) \in Nat
    BY <1>1, <1>3, <2>1, EntryIs, TickPriceType
  <2>3. entry.side \in Sides /\ entry.price \in Nat
    BY <2>1, <2>2 DEF Entries
  <2>4. /\ t \in Ticks /\ t.order_type = "EXECUTE" /\ t.order_id = id /\ t.quantity = q
        /\ ~t.trade_side_is_aggressor
    <3>1. t = Tick("EXECUTE", id, entry, q)
      BY <2>1
    <3> QED
      BY ONLY <1>2, <2>3, <3>1, id \in OrderIds, TickIs
  <2>5. Takes(t)
    BY <2>4 DEF Takes
  <2> QED
    BY <1>1, <1>3, <2>1, <2>4, <2>5, KnownTaken
<1>4. CASE ~Known(l, id)
  <2>1. UNCHANGED pending
    BY <1>4 DEF ReadExecuted
  <2>2. exchange \in [DOMAIN exchange -> Orders]
    BY DEF IInv, Types
  <2>3. \A k : k # <<l, id>> => /\ k \in DOMAIN exchange' <=> k \in DOMAIN exchange
                                /\ k \in DOMAIN exchange => exchange'[k] = exchange[k]
    BY <1>1, <1>2, <2>2, TakenChanges
  <2> QED
    BY <1>1, <1>4, <2>1, <2>3, UnknownChanged
<1> QED
  BY <1>3, <1>4

LEMMA DeleteBooks ==
  ASSUME IInv, IInv', BookInv, NEW l \in Locates, NEW id \in OrderIds, ReadDelete(l, id)
  PROVE  BookInv'
<1>1. /\ ReadMessage /\ <<l, id>> \in DOMAIN exchange
      /\ exchange' = Without(exchange, <<l, id>>)
      /\ UNCHANGED <<target_stock_locates, added, seen>>
  BY DEF ReadDelete
<1>2. CASE Known(l, id)
  <2>1. PICK t : t = Tick("CANCEL", id, order_side_map[Key(l, id)], 0)
    OBVIOUS
  <2>2. t \in Ticks /\ t.order_type = "CANCEL" /\ t.order_id = id /\ t.quantity = 0
    BY <1>1, <1>2, <2>1, EntryIs, TickIs
  <2>3. Route(l, <<t>>)
    BY <1>2, <2>1 DEF ReadDelete
  <2> QED
    BY <1>1, <1>2, <2>2, <2>3, KnownDeleted
<1>3. CASE ~Known(l, id)
  <2>1. UNCHANGED pending
    BY <1>3 DEF ReadDelete
  <2>2. \A k : k # <<l, id>> => /\ k \in DOMAIN exchange' <=> k \in DOMAIN exchange
                                /\ k \in DOMAIN exchange => exchange'[k] = exchange[k]
    BY <1>1 DEF Without, Restrict
  <2> QED
    BY <1>1, <1>3, <2>1, <2>2, UnknownChanged
<1> QED
  BY <1>2, <1>3

LEMMA ReplaceBooks ==
  ASSUME IInv, IInv', BookInv, NEW l \in Locates, NEW id \in OrderIds, NEW new \in OrderIds,
         NEW p \in Prices, NEW q \in Quantities, ReadReplace(l, id, new, p, q)
  PROVE  BookInv'
<1>1. PICK order : order = [side |-> exchange[<<l, id>>].side, price |-> p, quantity |-> q]
  OBVIOUS
<1>2. /\ ReadMessage /\ <<l, id>> \in DOMAIN exchange /\ <<l, new>> \notin DOMAIN added
      /\ exchange' = With(Without(exchange, <<l, id>>), <<l, new>>, order)
      /\ added' = With(added, <<l, new>>, order) /\ UNCHANGED target_stock_locates
  BY <1>1 DEF ReadReplace, Replaced
<1>3. q \in Nat /\ TickPrice(p) \in Nat
  BY IngestorAssumption, TickPriceType
<1>4. /\ order \in Orders /\ order.side = exchange[<<l, id>>].side /\ order.price = p
      /\ order.quantity = q
  <2>1. exchange[<<l, id>>].side \in Sides
    BY <1>2 DEF IInv, Types, Orders
  <2> QED
    BY <1>1, <1>3, <2>1 DEF Orders
<1>5. CASE Known(l, id)
  <2>1. PICK old, entry, t, u :
          /\ old = order_side_map[Key(l, id)] /\ entry = [old EXCEPT !.price = TickPrice(p)]
          /\ t = Tick("CANCEL", id, old, 0) /\ u = Tick("ADD", new, entry, q)
    OBVIOUS
  <2>2. old \in Entries /\ old.side = order.side /\ old.side \in Sides /\ old.price \in Nat
    BY <1>2, <1>4, <1>5, <2>1, EntryIs
  <2>3. entry.side \in Sides /\ entry.side = order.side /\ entry.price = TickPrice(p)
        /\ entry.price \in Nat
    BY <1>3, <2>1, <2>2 DEF Entries
  <2>4. t \in Ticks /\ t.order_type = "CANCEL" /\ t.order_id = id /\ t.quantity = 0
    <3>1. t = Tick("CANCEL", id, old, 0)
      BY <2>1
    <3> QED
      BY ONLY <2>2, <3>1, id \in OrderIds, TickIs
  <2>5. /\ u \in Ticks /\ u.order_type = "ADD" /\ u.order_id = new /\ u.side = entry.side
        /\ u.price = entry.price /\ u.quantity = q
    <3>1. u = Tick("ADD", new, entry, q)
      BY <2>1
    <3> QED
      BY ONLY <1>3, <2>3, <3>1, new \in OrderIds, TickIs
  <2>6. seen' = seen \union {<<l, new>>} /\ Route(l, <<t, u>>)
    BY <1>5, <2>1 DEF ReadReplace
  <2> QED
    BY <1>2, <1>4, <1>5, <2>3, <2>4, <2>5, <2>6, KnownReplaced
<1>6. CASE ~Known(l, id)
  <2>1. UNCHANGED <<pending, seen>>
    BY <1>6 DEF ReadReplace
  <2>2. PICK key, newKey : key = <<l, id>> /\ newKey = <<l, new>>
    OBVIOUS
  <2>3. /\ key \notin seen /\ newKey \notin seen /\ newKey \notin DOMAIN exchange
        /\ newKey \notin DOMAIN added /\ seen \subseteq DOMAIN added
    BY <1>2, <1>6, <2>2, UnknownUnseen DEF IInv, HistoryGrows
  <2>4. added \in [DOMAIN added -> Orders]
    BY DEF BookInv, Plumbing
  <2>5. /\ added' \in [DOMAIN added' -> Orders] /\ \A k \in DOMAIN added : added'[k] = added[k]
    BY ONLY <1>2, <1>4, <2>2, <2>3, <2>4 DEF With
  <2>6. /\ DOMAIN exchange' = (DOMAIN exchange \ {key}) \union {newKey}
        /\ \A k \in DOMAIN exchange : k # key => exchange'[k] = exchange[k]
    BY ONLY <1>2, <2>2, <2>3 DEF With, Without, Restrict
  <2>7. \A k \in seen : /\ added'[k] = added[k]
                        /\ k \in DOMAIN exchange' <=> k \in DOMAIN exchange
                        /\ k \in DOMAIN exchange => exchange'[k] = exchange[k]
    BY <2>3, <2>5, <2>6
  <2> QED
    BY <1>2, <2>1, <2>5, <2>7, QuietStep
<1> QED
  BY <1>5, <1>6

LEMMA TradeBooks ==
  ASSUME IInv, IInv', BookInv, NEW l \in Locates, NEW id \in OrderIds, NEW s \in Sides,
         NEW p \in Prices, NEW q \in Quantities, ReadTrade(l, id, s, p, q)
  PROVE  BookInv'
<1>1. ReadMessage /\ UNCHANGED <<target_stock_locates, exchange, added, seen>>
  BY DEF ReadTrade
<1>2. CASE l \in target_stock_locates
  <2>1. PICK entry, plain, t :
          /\ entry = [side |-> s, price |-> TickPrice(p)] /\ plain = Tick("EXECUTE", id, entry, q)
          /\ t = [plain EXCEPT !.trade_side_is_aggressor = TRUE]
    OBVIOUS
  <2>2. entry.side = s /\ entry.price \in Nat /\ q \in Nat
    BY <2>1, TickPriceType, IngestorAssumption
  <2>3. plain \in Ticks /\ plain.order_type = "EXECUTE"
    <3>1. plain = Tick("EXECUTE", id, entry, q)
      BY <2>1
    <3> QED
      BY ONLY <2>2, <3>1, id \in OrderIds, s \in Sides, TickIs
  <2>4. t \in Ticks /\ t.order_type = "EXECUTE" /\ t.trade_side_is_aggressor
    BY ONLY <2>1, <2>3 DEF Ticks
  <2>5. Route(l, <<t>>)
    BY <1>2, <2>1 DEF ReadTrade
  <2> QED
    BY <1>1, <1>2, <2>4, <2>5, TargetTraded
<1>3. CASE l \notin target_stock_locates
  <2>1. UNCHANGED pending
    BY <1>3 DEF ReadTrade
  <2>2. added \in [DOMAIN added -> Orders]
    BY DEF BookInv, Plumbing
  <2> QED
    BY <1>1, <2>1, <2>2, QuietStep
<1> QED
  BY <1>2, <1>3

(* A tick enters the ring, or is dropped. *)
LEMMA PushBooks ==
  ASSUME IInv, BookInv, PushTick
  PROVE  BookInv'
<1>1. /\ pending # << >> /\ pending' = Tail(pending)
      /\ UNCHANGED <<book, exchange, added, seen, target_stock_locates>>
  BY DEF PushTick, fileVars
<1>2. PICK n, l, t : n = Len(pending) /\ l = pending[1].symbol /\ t = pending[1].tick
  OBVIOUS
<1>3. pending \in Seq(Parcels) /\ n \in {1, 2} /\ DOMAIN pending = 1 .. n /\ pending[1] \in Parcels
  BY <1>1, <1>2 DEF BookInv, Plumbing, Routed
<1>4. l \in Locates /\ t \in Ticks
  BY <1>2, <1>3 DEF Parcels
<1>5. /\ pending' \in Seq(Parcels) /\ Len(pending') = n - 1 /\ DOMAIN pending' = 1 .. n - 1
      /\ n = 2 => pending'[1] = pending[2]
      /\ n = 1 => pending' = << >>
  BY <1>1, <1>2, <1>3
<1>6. Routed(pending)'
  BY <1>3, <1>5 DEF Routed
<1>7. /\ \A m \in Locates : Over(Drained(m), m, exchange, seen, added)
      /\ TickRight(t, Drained(l), l, exchange, seen, added)
  BY <1>2, <1>3 DEF BookInv, BooksBehind, TicksRight
<1>8. n = 2 => /\ pending'[1].symbol = l /\ pending'[1].tick.order_type = "ADD"
               /\ TickRight(pending'[1].tick, Drained(l), l, exchange, seen, added)
  <2>1. SUFFICES ASSUME n = 2
                 PROVE  /\ pending'[1].symbol = l /\ pending'[1].tick.order_type = "ADD"
                        /\ TickRight(pending'[1].tick, Drained(l), l, exchange, seen, added)
    OBVIOUS
  <2>2. 2 \in DOMAIN pending /\ pending[2].symbol = l /\ pending[2].tick.order_type = "ADD"
    BY <1>2, <1>3, <2>1 DEF BookInv, Plumbing, Routed
  <2> QED
    BY <1>5, <2>1, <2>2 DEF BookInv, TicksRight
<1>9. /\ queue \in [Locates -> Seq(Ticks)] /\ book = [m \in Locates |-> book[m]]
      /\ ticks_dropped \in Nat
      /\ ticks_dropped = 0 =>
           \A m \in Locates : IsBook(Pended(Drained(m), m, pending), m, exchange, seen)
  BY DEF BookInv, Plumbing, BooksExact
<1>10. PICK h : h = Head(pending) /\ h = pending[1]
  BY <1>1, <1>3
<1>11. CASE Len(queue[l]) < QueueCap
  <2>1. queue' = [queue EXCEPT ![l] = Append(@, t)] /\ UNCHANGED ticks_dropped
    BY <1>2, <1>10, <1>11 DEF PushTick
  <2>2. queue[l] \in Seq(Ticks) /\ Append(queue[l], t) \in Seq(Ticks)
    BY <1>4, <1>9
  <2>3. /\ queue' \in [Locates -> Seq(Ticks)] /\ queue'[l] = Append(queue[l], t)
        /\ \A m \in Locates : m # l => queue'[m] = queue[m]
    BY <1>4, <1>9, <2>1, <2>2
  <2>4. Plumbing'
    BY <1>1, <1>6, <2>1, <2>3 DEF BookInv, Plumbing
  <2>5. Drained(l)' = Apply(Drained(l), t)
    BY <1>1, <1>4, <2>3, DrainedPush DEF BookInv
  <2>6. \A m \in Locates : m # l => Drained(m)' = Drained(m)
    BY <1>1, <2>3 DEF Drained
  <2>7. Over(Apply(Drained(l), t), l, exchange, seen, added)
    <3>1. /\ exchange \in [DOMAIN exchange -> Orders] /\ added \in [DOMAIN added -> Orders]
          /\ seen \subseteq DOMAIN added /\ Over(Drained(l), l, exchange, seen, added)
      BY <1>4, <1>7 DEF IInv, Types, HistoryGrows, BookInv, Plumbing
    <3> QED
      BY <1>7, <3>1, TickKeepsOver
  <2>8. BooksBehind'
    <3>1. ASSUME NEW m \in Locates PROVE Over(Drained(m)', m, exchange, seen, added)
      BY <1>7, <2>5, <2>6, <2>7
    <3> QED
      BY <1>1, <3>1 DEF BooksBehind
  <2>9. TicksRight'
    <3>1. ASSUME NEW i \in DOMAIN pending'
          PROVE  /\ i = 1 /\ pending'[i].symbol = l
                 /\ TickRight(pending'[i].tick, Drained(l)', l, exchange, seen, added)
      <4>1. n = 2 /\ i = 1
        BY <1>3, <1>5
      <4> QED
        BY <1>8, <4>1, AddStaysRight
    <3> QED
      BY <1>1, <3>1 DEF TicksRight
  <2>10. BooksExact'
    <3>1. ASSUME ticks_dropped = 0, NEW m \in Locates
          PROVE  Pended(Drained(m)', m, pending') = Pended(Drained(m), m, pending)
      <4>1. CASE m # l
        <5>1. Drained(m)' = Drained(m)
          BY <2>6, <4>1
        <5>2. Pended(Drained(m), m, pending) = Drained(m)
          BY <1>1, <1>2, <4>1 DEF Pended
        <5>3. Pended(Drained(m), m, pending') = Drained(m)
          BY <1>3, <1>5, <1>8, <4>1 DEF Pended
        <5> QED
          BY <5>1, <5>2, <5>3
      <4>2. CASE m = l /\ n = 1
        <5>1. Pended(Drained(l), l, pending) = Apply(Drained(l), t)
          BY <1>1, <1>2, <4>2 DEF Pended
        <5>2. Pended(Drained(l)', l, pending') = Drained(l)'
          BY <1>5, <4>2 DEF Pended
        <5> QED
          BY <2>5, <4>2, <5>1, <5>2
      <4>3. CASE m = l /\ n = 2
        <5>1. Pended(Drained(l), l, pending) = Apply(Apply(Drained(l), t), pending[2].tick)
          BY <1>1, <1>2, <4>3 DEF Pended
        <5>2. Pended(Drained(l)', l, pending') = Apply(Drained(l)', pending'[1].tick)
          <6>1. pending' # << >> /\ Len(pending') = 1 /\ pending'[1].symbol = l
            <7>1. Len(pending') = 1
              BY <1>5, <4>3
            <7>2. pending' # << >>
              BY <7>1
            <7> QED
              BY <1>8, <4>3, <7>1, <7>2
          <6> QED
            BY <6>1 DEF Pended
        <5>3. pending'[1].tick = pending[2].tick
          BY <1>5, <4>3
        <5> QED
          BY <2>5, <4>3, <5>1, <5>2, <5>3
      <4> QED
        BY <1>3, <4>1, <4>2, <4>3
    <3> QED
      BY <1>1, <1>9, <2>1, <3>1 DEF BooksExact
  <2> QED
    BY <2>4, <2>8, <2>9, <2>10 DEF BookInv
<1>12. CASE ~(Len(queue[l]) < QueueCap)
  <2>1. ticks_dropped' = ticks_dropped + 1 /\ UNCHANGED queue
    BY <1>2, <1>10, <1>12 DEF PushTick
  <2>2. ticks_dropped' \in Nat /\ ticks_dropped' # 0
    BY <1>9, <2>1
  <2>3. Plumbing'
    BY <1>1, <1>6, <2>1, <2>2 DEF BookInv, Plumbing
  <2>4. \A m : Drained(m)' = Drained(m)
    BY <1>1, <2>1, DrainedStays
  <2>5. BooksBehind'
    BY <1>1, <1>7, <2>4 DEF BooksBehind
  <2>6. TicksRight'
    <3>1. ASSUME NEW i \in DOMAIN pending'
          PROVE  /\ i = 1 /\ pending'[i].symbol = l
                 /\ TickRight(pending'[i].tick, Drained(l)', l, exchange, seen, added)
      <4>1. n = 2 /\ i = 1
        BY <1>3, <1>5
      <4> QED
        BY <1>8, <2>4, <4>1
    <3> QED
      BY <1>1, <3>1 DEF TicksRight
  <2>7. BooksExact'
    BY <2>2 DEF BooksExact
  <2> QED
    BY <2>3, <2>5, <2>6, <2>7 DEF BookInv
<1> QED
  BY <1>11, <1>12

LEMMA DispatchBooks ==
  ASSUME IInv, BookInv, NEW l \in Locates, Dispatch(l)
  PROVE  BookInv'
<1>1. /\ UNCHANGED <<pending, exchange, added, seen, target_stock_locates, ticks_dropped>>
      /\ queue[l] # << >>
  BY DEF Dispatch, fileVars
<1>2. queue \in [Locates -> Seq(Ticks)] /\ book = [m \in Locates |-> book[m]] /\ Routed(pending)
  BY DEF BookInv, Plumbing
<1>3. \A m \in Locates : Drained(m)' = Drained(m)
  BY DrainedDispatch DEF BookInv
<1>4. queue' \in [Locates -> Seq(Ticks)]
  <2>1. queue[l] \in Seq(Ticks) /\ queue' = [queue EXCEPT ![l] = Tail(queue[l])]
    BY <1>2 DEF Dispatch
  <2>2. Tail(queue[l]) \in Seq(Ticks)
    BY <1>1, <2>1
  <2> QED
    BY <1>2, <2>1, <2>2
<1>5. book' = [m \in Locates |-> book'[m]]
  <2>1. PICK b : b = Apply(book[l], Head(queue[l]))
    OBVIOUS
  <2>2. book' = [book EXCEPT ![l] = b]
    BY <2>1 DEF Dispatch
  <2> QED
    BY <1>2, <2>2
<1>6. Plumbing'
  BY <1>1, <1>4, <1>5 DEF BookInv, Plumbing
<1>7. BooksBehind'
  BY <1>1, <1>3 DEF BookInv, BooksBehind
<1>8. TicksRight'
  <2>1. \A i \in DOMAIN pending : pending[i].symbol \in Locates
    <3>1. \A i \in DOMAIN pending : pending[i] \in Parcels
      BY <1>2 DEF Routed
    <3> QED
      BY <3>1 DEF Parcels
  <2> QED
    BY <1>1, <1>3, <2>1 DEF BookInv, TicksRight
<1>9. BooksExact'
  BY <1>1, <1>3 DEF BookInv, BooksExact
<1> QED
  BY <1>6, <1>7, <1>8, <1>9 DEF BookInv

LEMMA BooksInit == Init => BookInv
<1> SUFFICES ASSUME Init PROVE BookInv
  OBVIOUS
<1>1. /\ pending = << >> /\ exchange = << >> /\ added = << >> /\ seen = {} /\ ticks_dropped = 0
      /\ queue = [l \in Locates |-> << >>] /\ book = [l \in Locates |-> << >>]
  BY DEF Init
<1>2. DOMAIN << >> = {}
  OBVIOUS
<1>3. Plumbing
  <2>1. << >> \in Seq(Ticks) /\ << >> \in Seq(Parcels) /\ Len(<< >>) = 0
    OBVIOUS
  <2>2. Routed(pending)
    BY <1>1, <2>1 DEF Routed
  <2>3. added \in [DOMAIN added -> Orders]
    BY <1>1, <1>2
  <2> QED
    BY <1>1, <2>1, <2>2, <2>3 DEF Plumbing
<1>4. ASSUME NEW l \in Locates PROVE Drained(l) = << >>
  <2>1. book[l] = << >> /\ queue[l] = << >>
    BY <1>1
  <2> QED
    BY <2>1, FoldEmpty DEF Drained
<1>5. ASSUME NEW l \in Locates
      PROVE  Over(<< >>, l, exchange, seen, added) /\ IsBook(<< >>, l, exchange, seen)
  <2>1. << >> \in [DOMAIN << >> -> Rests] /\ << >> = [id \in DOMAIN << >> |-> << >>[id]]
    BY <1>2
  <2> QED
    BY <1>1, <1>2, <2>1 DEF Over, IsBook, Due
<1>6. BooksBehind
  BY <1>4, <1>5 DEF BooksBehind
<1>7. TicksRight
  BY <1>1, <1>2 DEF TicksRight
<1>8. BooksExact
  <2>1. \A l \in Locates : Pended(Drained(l), l, pending) = << >>
    BY <1>1, <1>4 DEF Pended
  <2> QED
    BY <1>5, <2>1 DEF BooksExact
<1> QED
  BY <1>3, <1>6, <1>7, <1>8 DEF BookInv

LEMMA BooksStep == IInv /\ IInv' /\ BookInv /\ [Next]_vars => BookInv'
<1> SUFFICES ASSUME IInv, IInv', BookInv, [Next]_vars
             PROVE  BookInv'
  OBVIOUS
<1>1. CASE UNCHANGED vars
  <2>1. UNCHANGED <<queue, book, pending, ticks_dropped, target_stock_locates,
                    exchange, added, seen>>
    BY <1>1 DEF vars, fileVars
  <2>2. \A l : Drained(l)' = Drained(l)
    BY <2>1, DrainedStays
  <2> QED
    BY <2>1, <2>2 DEF BookInv, Plumbing, BooksBehind, TicksRight, BooksExact
<1>2. CASE PushTick
  BY <1>2, PushBooks
<1>3. ASSUME NEW l \in Locates, ReadDirectory(l) PROVE BookInv'
  BY <1>3, DirectoryBooks
<1>4. ASSUME NEW l \in Locates, Dispatch(l) PROVE BookInv'
  BY <1>4, DispatchBooks
<1>5. ASSUME NEW l \in Locates, NEW id \in OrderIds, ReadDelete(l, id) PROVE BookInv'
  BY <1>5, DeleteBooks
<1>6. ASSUME NEW l \in Locates, NEW id \in OrderIds, NEW q \in Quantities, ReadCancel(l, id, q)
      PROVE  BookInv'
  BY <1>6, CancelBooks
<1>7. ASSUME NEW l \in Locates, NEW id \in OrderIds, NEW q \in Quantities, NEW p \in Prices,
             ReadExecuted(l, id, q, p)
      PROVE  BookInv'
  BY <1>7, ExecutedBooks
<1>8. ASSUME NEW l \in Locates, NEW id \in OrderIds, NEW q \in Quantities, NEW p \in Prices,
             NEW new \in OrderIds, ReadReplace(l, id, new, p, q)
      PROVE  BookInv'
  BY <1>8, ReplaceBooks
<1>9. ASSUME NEW l \in Locates, NEW id \in OrderIds, NEW q \in Quantities, NEW p \in Prices,
             NEW s \in Sides, ReadAdd(l, id, s, p, q)
      PROVE  BookInv'
  BY <1>9, AddBooks
<1>10. ASSUME NEW l \in Locates, NEW id \in OrderIds, NEW q \in Quantities, NEW p \in Prices,
              NEW s \in Sides, ReadTrade(l, id, s, p, q)
       PROVE  BookInv'
  BY <1>10, TradeBooks
<1> QED
  BY <1>1, <1>2, <1>3, <1>4, <1>5, <1>6, <1>7, <1>8, <1>9, <1>10 DEF Next

LEMMA BookInvariance == Spec => [](IInv /\ BookInv)
<1>1. Init => IInv /\ BookInv
  BY InvariantInit, BooksInit
<1>2. (IInv /\ BookInv) /\ [Next]_vars => (IInv /\ BookInv)'
  BY InvariantStep, BooksStep
<1> QED
  BY <1>1, <1>2, PTL DEF Spec

(* As long as no tick was dropped, every engine's book is, up to the ticks *)
(* still under way, the file's book of its symbol: nothing is lost, kept   *)
(* too long or mixed up in parse_message, order_side_map, the ring and     *)
(* dispatch, in whatever order the reader and the engines take turns.      *)
THEOREM BooksFollowTheFile == Spec => []BookFollowsExchange
<1>1. IInv /\ BookInv => BookFollowsExchange
  <2> SUFFICES ASSUME IInv, BookInv, ticks_dropped = 0, NEW l \in Locates
               PROVE  Settled(l) = [id \in {i \in Seen(l) :
                                              ValidPrice(TickPrice(exchange[<<l, i>>].price))} |->
                                      AsTick(exchange[<<l, id>>])]
    BY DEF BookFollowsExchange
  <2>1. PICK o : o = Settled(l)
    OBVIOUS
  <2>2. IsBook(o, l, exchange, seen)
    BY <2>1, SettledIs DEF BookInv, BooksExact
  <2>3. \A id : Due(id, l, exchange, seen)
                <=> id \in {i \in Seen(l) : ValidPrice(TickPrice(exchange[<<l, i>>].price))}
    BY DEF Due, Seen
  <2>4. DOMAIN o = {i \in Seen(l) : ValidPrice(TickPrice(exchange[<<l, i>>].price))}
    BY <2>2, <2>3 DEF IsBook
  <2>5. o = [id \in DOMAIN o |-> AsTick(exchange[<<l, id>>])]
    BY <2>2 DEF IsBook
  <2> QED
    BY <2>1, <2>4, <2>5
<1> QED
  BY <1>1, BookInvariance, PTL

(* Whatever ticks a full ring loses, a book never holds an order of        *)
(* another symbol, at another side or price, with more than was added or   *)
(* with less than is left: push_with_backpressure only makes books         *)
(* overstate.                                                              *)
THEOREM DropsOverstate == Spec => []DropsOnlyOverstate
<1>1. IInv /\ BookInv => DropsOnlyOverstate
  <2> SUFFICES ASSUME IInv, BookInv, NEW l \in Locates
               PROVE  Over(Settled(l), l, exchange, seen, added)
    BY DEF DropsOnlyOverstate, Over
  <2>1. Settled(l) = Pended(Drained(l), l, pending)
    BY SettledIs DEF BookInv
  <2>2. /\ exchange \in [DOMAIN exchange -> Orders] /\ added \in [DOMAIN added -> Orders]
        /\ seen \subseteq DOMAIN added /\ Over(Drained(l), l, exchange, seen, added)
    BY DEF IInv, Types, HistoryGrows, BookInv, Plumbing, BooksBehind
  <2>3. CASE pending = << >> \/ (pending # << >> /\ pending[1].symbol # l)
    BY <2>1, <2>2, <2>3 DEF Pended
  <2>4. CASE pending # << >> /\ pending[1].symbol = l
    <3>1. PICK n, t, half : n = Len(pending) /\ t = pending[1].tick /\ half = Apply(Drained(l), t)
      OBVIOUS
    <3>2. pending \in Seq(Parcels) /\ n \in {1, 2} /\ DOMAIN pending = 1 .. n
      BY <2>4, <3>1 DEF BookInv, Plumbing, Routed
    <3>3. TickRight(t, Drained(l), l, exchange, seen, added)
      BY <2>4, <3>1, <3>2 DEF BookInv, TicksRight
    <3>4. Over(half, l, exchange, seen, added)
      BY <2>2, <3>1, <3>3, TickKeepsOver
    <3>5. CASE n = 1
      BY <2>1, <2>4, <3>1, <3>4, <3>5 DEF Pended
    <3>6. CASE n = 2
      <4>1. PICK u : u = pending[2].tick
        OBVIOUS
      <4>2. 2 \in DOMAIN pending /\ pending[2].symbol = l /\ u.order_type = "ADD"
        BY <2>4, <3>1, <3>2, <3>6, <4>1 DEF BookInv, Plumbing, Routed
      <4>3. TickRight(u, Drained(l), l, exchange, seen, added)
        BY <4>1, <4>2 DEF BookInv, TicksRight
      <4>4. TickRight(u, half, l, exchange, seen, added)
        BY <4>2, <4>3, AddStaysRight
      <4>5. Over(Apply(half, u), l, exchange, seen, added)
        BY <2>2, <3>4, <4>4, TickKeepsOver
      <4> QED
        BY <2>1, <2>4, <3>1, <3>6, <4>1, <4>5 DEF Pended
    <3> QED
      BY <3>2, <3>5, <3>6
  <2> QED
    BY <2>3, <2>4
<1> QED
  BY <1>1, BookInvariance, PTL
=============================================================================
