----------------------------- MODULE QueueProofs ----------------------------
(***************************************************************************)
(* What the shape of the book comes to: the orders of a level stand in one *)
(* line, from head to tail, and the level's total is their sum. From there *)
(* on sums say what a call does: what can_fully_fill counts is what the    *)
(* matching loop finds, and a reply accounts for its order.                *)
(***************************************************************************)
EXTENDS BookProofs

-----------------------------------------------------------------------------
(* Lists and sums, in any arena.                                           *)

(* A line of keys each of which links to the one after it is what a walk   *)
(* from its first key meets.                                               *)
Follows(a, head, n, w) ==
    /\ n \in Nat /\ w = [i \in 1 .. n |-> w[i]]
    /\ n > 0 => w[1] = head
    /\ \A i \in 1 .. n - 1 : w[i] # None /\ a[w[i]] # None /\ a[w[i]].next = w[i + 1]

LEMMA ChainIs ==
    ASSUME NEW a, NEW head, NEW n, NEW w, Follows(a, head, n, w)
    PROVE  Chain(a, head, n) = w
  <1> DEFINE At(f, i) == IF i = 1 THEN head
                         ELSE IF f[i - 1] = None \/ a[f[i - 1]] = None THEN None
                         ELSE a[f[i - 1]].next
             Meets(f) == f = [i \in 1 .. n |-> At(f, i)]
  <1> USE DEF Follows
  <1>1. Chain(a, head, n) = CHOOSE f : Meets(f)
    BY DEF Chain
  <1>2. ASSUME NEW i \in 1 .. n PROVE At(w, i) = w[i]
    <2>1. CASE i = 1
      BY <2>1
    <2>2. CASE i # 1
      <3>1. i - 1 \in 1 .. n - 1 /\ (i - 1) + 1 = i
        BY <2>2
      <3>2. w[i - 1] # None /\ a[w[i - 1]] # None /\ a[w[i - 1]].next = w[(i - 1) + 1]
        BY <3>1
      <3> QED
        BY <2>2, <3>1, <3>2
    <2> QED
      BY <2>1, <2>2
  <1>3. Meets(w)
    BY <1>2
  <1>4. PICK f : f = Chain(a, head, n) /\ Meets(f)
    BY <1>1, <1>3
  <1> DEFINE bad == {i \in 1 .. n : f[i] # w[i]}
  <1>5. bad = {}
    <2>1. SUFFICES ASSUME bad # {} PROVE FALSE
      OBVIOUS
    <2>2. PICK i \in bad : \A j \in bad : i <= j
      <3>1. bad \subseteq Nat
        OBVIOUS
      <3> HIDE DEF bad
      <3> QED
        BY <2>1, <3>1, LeastNatural
    <2>3. f[i] = At(f, i) /\ w[i] = At(w, i)
      BY <1>2, <1>4
    <2>4. i # 1 => f[i - 1] = w[i - 1]
      <3>1. i # 1 => i - 1 \in 1 .. n /\ ~(i <= i - 1)
        OBVIOUS
      <3> QED
        BY <2>2, <3>1
    <2> QED
      BY <2>2, <2>3, <2>4
  <1>6. f = [i \in 1 .. n |-> f[i]]
    BY <1>4
  <1>7. f = w
    BY <1>5, <1>6
  <1> QED
    BY <1>4, <1>7

(* What is left of the orders that an arena stores under the keys K.       *)
Left(a, K) == SumFunction([k \in K |-> a[k].order.remaining_qty])

Countable(a, K) == IsFiniteSet(K) /\ \A k \in K : a[k].order.remaining_qty \in Nat

LEMMA LeftIs ==
    ASSUME NEW a, NEW K, Countable(a, K), NEW f,
           \A k \in K : f[k] = a[k].order.remaining_qty
    PROVE  Left(a, K) = SumFunctionOnSet(f, K)
  <1> DEFINE g == [k \in K |-> a[k].order.remaining_qty]
  <1>1. Left(a, K) = SumFunctionOnSet(g, K)
    BY DEF Left, SumFunction
  <1>2. \A k \in K : g[k] \in Nat /\ g[k] = f[k]
    BY DEF Countable
  <1> HIDE DEF g
  <1> QED
    BY <1>1, <1>2, SumSame DEF Countable

LEMMA LeftNat ==
    ASSUME NEW a, NEW K, Countable(a, K)
    PROVE  Left(a, K) \in Nat
  <1> DEFINE g == [k \in K |-> a[k].order.remaining_qty]
  <1>1. Left(a, K) = SumFunctionOnSet(g, K) /\ \A k \in K : g[k] \in Nat
    BY DEF Left, SumFunction, Countable
  <1> HIDE DEF g
  <1> QED
    BY <1>1, SumNat DEF Countable

LEMMA LeftEmpty ==
    ASSUME NEW a
    PROVE  Left(a, {}) = 0
  BY SumEmpty DEF Left, SumFunction

LEMMA LeftUnion ==
    ASSUME NEW a, NEW K, NEW M, Countable(a, K \cup M), K \cap M = {}
    PROVE  /\ Left(a, K \cup M) = Left(a, K) + Left(a, M)
           /\ Left(a, K) \in Nat /\ Left(a, M) \in Nat
  <1>1. PICK f : f = [k \in K \cup M |-> a[k].order.remaining_qty]
    OBVIOUS
  <1>2. \A k \in K \cup M : f[k] = a[k].order.remaining_qty /\ f[k] \in Nat
    BY <1>1 DEF Countable
  <1>3. Countable(a, K) /\ Countable(a, M)
    BY FS_Subset DEF Countable
  <1>4. /\ Left(a, K \cup M) = SumFunctionOnSet(f, K \cup M)
        /\ Left(a, K) = SumFunctionOnSet(f, K)
        /\ Left(a, M) = SumFunctionOnSet(f, M)
    BY <1>2, <1>3, LeftIs
  <1>5. SumFunctionOnSet(f, K \cup M) = SumFunctionOnSet(f, K) + SumFunctionOnSet(f, M)
    BY <1>2, <1>3, SumUnion DEF Countable
  <1> QED
    BY <1>3, <1>4, <1>5, LeftNat

LEMMA LeftOne ==
    ASSUME NEW a, NEW k, a[k].order.remaining_qty \in Nat
    PROVE  Left(a, {k}) = a[k].order.remaining_qty /\ Countable(a, {k})
  <1>1. Countable(a, {k})
    BY FS_Singleton DEF Countable
  <1>2. PICK f : f = [j \in {k} |-> a[j].order.remaining_qty]
    OBVIOUS
  <1>3. Left(a, {k}) = SumFunctionOnSet(f, {k}) /\ f[k] = a[k].order.remaining_qty
    BY <1>1, <1>2, LeftIs
  <1>4. SumFunctionOnSet(f, {k}) = f[k] + SumFunctionOnSet(f, {k} \ {k})
    BY <1>1, <1>2, SumWithout DEF Countable
  <1>5. {k} \ {k} = {}
    OBVIOUS
  <1> QED
    BY <1>1, <1>3, <1>4, <1>5, SumEmpty

(* One order taken out of a sum, or put in.                                *)
LEMMA LeftWithout ==
    ASSUME NEW a, NEW K, Countable(a, K), NEW k \in K
    PROVE  /\ Left(a, K) = a[k].order.remaining_qty + Left(a, K \ {k})
           /\ Left(a, K \ {k}) \in Nat
  <1>1. (K \ {k}) \cup {k} = K /\ (K \ {k}) \cap {k} = {}
    OBVIOUS
  <1>2. Left(a, K) = Left(a, K \ {k}) + Left(a, {k}) /\ Left(a, K \ {k}) \in Nat
    BY <1>1, LeftUnion
  <1>3. a[k].order.remaining_qty \in Nat
    BY DEF Countable
  <1>4. Left(a, {k}) = a[k].order.remaining_qty
    BY <1>3, LeftOne
  <1> QED
    BY <1>2, <1>3, <1>4

(* The same orders add up to the same in another arena.                    *)
LEMMA LeftSame ==
    ASSUME NEW a, NEW b, NEW K, Countable(a, K),
           \A k \in K : b[k].order.remaining_qty = a[k].order.remaining_qty
    PROVE  Left(b, K) = Left(a, K)
  BY DEF Left

LEMMA LeftSubset ==
    ASSUME NEW a, NEW K, Countable(a, K), NEW M \in SUBSET K
    PROVE  Left(a, M) <= Left(a, K) /\ Left(a, M) \in Nat /\ Countable(a, M)
  <1>1. M \cup (K \ M) = K /\ M \cap (K \ M) = {}
    OBVIOUS
  <1>2. /\ Left(a, K) = Left(a, M) + Left(a, K \ M)
        /\ Left(a, M) \in Nat /\ Left(a, K \ M) \in Nat
    BY <1>1, LeftUnion
  <1>3. Countable(a, M)
    BY FS_Subset DEF Countable
  <1> QED
    BY <1>2, <1>3

-----------------------------------------------------------------------------
(* The orders of a level stand in one line.                                *)

(* The orders of k's level that are served before it.                      *)
Before(ahead, k) == {j \in NodeId : Live(j) /\ SameLevel(j, k) /\ ahead[j] < ahead[k]}

(* Stored orders can be added up.                                          *)
LEMMA LiveCountable ==
    ASSUME TypeInv, NEW K \in SUBSET Occupied(arena)
    PROVE  Countable(arena, K) /\ IsFiniteSet(K) /\ K \in SUBSET NodeId
  <1>1. K \in SUBSET NodeId
    BY DEF Occupied
  <1>2. IsFiniteSet(K)
    BY <1>1, SlabAssumption, FS_Subset
  <1>3. ASSUME NEW k \in K PROVE arena[k].order.remaining_qty \in Nat
    <2>1. arena[k] \in OrderNode
      BY DEF Occupied, TypeInv, TypeOK, BookTypeOK, Arena
    <2> QED
      BY <2>1, OrdersAssumption DEF OrderNode, Order, Word
  <1> QED
    BY <1>1, <1>2, <1>3 DEF Countable

LEMMA BeforeTypes ==
    ASSUME TypeInv, NEW ahead, NEW k \in NodeId
    PROVE  /\ Before(ahead, k) \in SUBSET Occupied(arena)
           /\ IsFiniteSet(Before(ahead, k))
           /\ Countable(arena, Before(ahead, k))
           /\ Cardinality(Before(ahead, k)) \in Nat
           /\ k \notin Before(ahead, k) \/ ahead[k] < ahead[k]
  <1>1. Before(ahead, k) \in SUBSET Occupied(arena)
    BY DEF Before, Occupied, Live
  <1> QED
    BY <1>1, LiveCountable, FS_CardinalityType DEF Before

(* Behind an order comes the one it links to, with nothing in between.     *)
LEMMA BeforeNext ==
    ASSUME TypeInv, NEW ahead, Shape(ahead), NEW k \in NodeId, Live(k),
           arena[k].next # None
    PROVE  /\ arena[k].next \in NodeId /\ Live(arena[k].next)
           /\ SameLevel(arena[k].next, k)
           /\ arena[arena[k].next].prev = k
           /\ ahead[arena[k].next] = ahead[k] + Rem(k)
           /\ Before(ahead, arena[k].next) = Before(ahead, k) \cup {k}
           /\ k \notin Before(ahead, k)
  <1>1. PICK j : j = arena[k].next
    OBVIOUS
  <1>2. j \in NodeId /\ Live(j) /\ SameLevel(j, k) /\ arena[j].prev = k
    BY <1>1, NodeTypes DEF Shape, Links
  <1>3. ahead[j] = ahead[k] + Rem(k)
    BY <1>2, PriceLevelAssumption DEF Shape, Measures
  <1>4. ahead[j] \in Nat /\ ahead[k] \in Nat /\ Rem(k) \in Nat /\ Rem(k) > 0
    BY <1>2, NodeTypes DEF Shape, Measures
  <1>5. \A i : SameLevel(i, j) <=> SameLevel(i, k)
    BY <1>2 DEF SameLevel, InLevel
  <1>6. ASSUME NEW i \in NodeId, Live(i), SameLevel(i, k), i # k
        PROVE  ahead[i] < ahead[j] <=> ahead[i] < ahead[k]
    <2>1. ahead[i] + Rem(i) <= ahead[k] \/ ahead[k] + Rem(k) <= ahead[i]
      BY <1>6, BeforeOrAfter
    <2>2. ahead[i] \in Nat /\ Rem(i) \in Nat /\ Rem(i) > 0
      BY <1>6, NodeTypes DEF Shape, Measures
    <2> QED
      BY <1>3, <1>4, <2>1, <2>2
  <1>7. SameLevel(k, k) /\ ahead[k] < ahead[j] /\ ~(ahead[k] < ahead[k])
    BY <1>3, <1>4 DEF SameLevel, InLevel
  <1>8. Before(ahead, j) = Before(ahead, k) \cup {k}
    BY <1>5, <1>6, <1>7 DEF Before
  <1> QED
    BY <1>1, <1>2, <1>3, <1>7, <1>8 DEF Before

(* What is queued ahead of an order is the sum of those before it.         *)
LEMMA AheadIsSum ==
    ASSUME TypeInv, NEW ahead, Shape(ahead), NEW k \in NodeId, Live(k)
    PROVE  Left(arena, Before(ahead, k)) = ahead[k]
  <1> DEFINE Right(j) == Left(arena, Before(ahead, j)) = ahead[j]
             bad == {ahead[j] : j \in {i \in NodeId : Live(i) /\ ~Right(i)}}
  <1>1. SUFFICES ASSUME bad # {} PROVE FALSE
    OBVIOUS
  <1>2. ahead \in [NodeId -> Nat]
    BY DEF Shape, Measures
  <1>3. PICK m \in bad : \A x \in bad : m <= x
    <2>1. bad \subseteq Nat
      BY <1>2
    <2> HIDE DEF bad
    <2> QED
      BY <1>1, <2>1, LeastNatural
  <1>4. PICK j \in NodeId : Live(j) /\ ~Right(j) /\ m = ahead[j]
    OBVIOUS
  <1>5. CASE arena[j].prev = None
    <2>1. ahead[j] = 0
      BY <1>4, <1>5 DEF Shape, Measures
    <2>2. Before(ahead, j) = {}
      BY <1>2, <2>1 DEF Before
    <2> QED
      BY <1>4, <2>1, <2>2, LeftEmpty
  <1>6. CASE arena[j].prev # None
    <2>1. PICK i : i = arena[j].prev
      OBVIOUS
    <2>2. i \in NodeId /\ Live(i) /\ arena[i].next = j /\ ahead[j] = ahead[i] + Rem(i)
      BY <1>4, <1>6, <2>1, NodeTypes DEF Shape, Links, Measures
    <2>3. Before(ahead, j) = Before(ahead, i) \cup {i} /\ i \notin Before(ahead, i)
      BY <2>2, BeforeNext, PriceLevelAssumption
    <2>4. Rem(i) \in Nat /\ Rem(i) > 0 /\ ahead[i] \in Nat
      BY <1>2, <2>2, NodeTypes DEF Shape
    <2>5. Right(i)
      <3>1. ahead[i] < m
        BY <1>4, <2>2, <2>4
      <3>2. ahead[i] \in bad => m <= ahead[i]
        BY <1>3
      <3>3. ~Right(i) => ahead[i] \in bad
        BY <2>2
      <3>4. m \in Nat
        BY <1>2, <1>4
      <3> HIDE DEF Right, bad
      <3> QED
        BY <2>4, <3>1, <3>2, <3>3, <3>4
    <2>6. Countable(arena, Before(ahead, j)) /\ i \in Before(ahead, j)
      BY <1>4, <2>3, BeforeTypes
    <2>7. Left(arena, Before(ahead, j))
            = arena[i].order.remaining_qty + Left(arena, Before(ahead, j) \ {i})
      BY <2>6, LeftWithout
    <2>8. Before(ahead, j) \ {i} = Before(ahead, i)
      BY <2>3
    <2>9. Left(arena, Before(ahead, j)) = Rem(i) + ahead[i]
      BY <2>5, <2>7, <2>8 DEF Rem
    <2> QED
      BY <1>4, <2>2, <2>4, <2>9
  <1> QED
    BY <1>5, <1>6

(* So the total of a level is the sum of its orders.                       *)
LEMMA ShapeTotals ==
    ASSUME TypeInv, ShapeInv
    PROVE  TotalQtyExact
  <1>0. PICK ahead : Shape(ahead)
    BY DEF ShapeInv
  <1> SUFFICES ASSUME NEW side \in Side, NEW p \in Price
               PROVE  LevelAt(side, p).total_qty = Outstanding(Members(side, p))
    BY DEF TotalQtyExact
  <1> DEFINE M == Members(side, p)
             level == levels[side][p]
  <1>1. Outstanding(M) = Left(arena, M)
    BY DEF Outstanding, Left
  <1>2. CASE level = None
    <2>1. M = {}
      BY <1>0, <1>2, ShapeLevels DEF LevelsExact, Members
    <2> QED
      BY <1>1, <1>2, <2>1, LeftEmpty DEF LevelAt, EmptyLevel
  <1>3. CASE level # None
    <2>1. PICK t : t = level.tail
      OBVIOUS
    <2>2. t \in NodeId /\ Live(t) /\ InLevel(t, side, p) /\ arena[t].next = None
      BY <1>0, <1>3, <2>1 DEF Shape, Ends
    <2>3. LevelOf(t) = level
      BY <2>2 DEF LevelOf, InLevel
    <2>4. ahead[t] + Rem(t) = level.total_qty /\ ahead[t] \in Nat
      BY <1>0, <2>2, <2>3 DEF Shape, Measures
    <2>5. Rem(t) \in Nat /\ Rem(t) > 0
      BY <1>0, <2>2, NodeTypes DEF Shape
    <2>6. \A j \in NodeId : InLevel(j, side, p) <=> SameLevel(j, t)
      BY <2>2 DEF SameLevel, InLevel
    <2>7. t \in M /\ M \in SUBSET Occupied(arena)
      BY <2>2 DEF Members, Occupied, Live, InLevel
    <2>8. M \ {t} = Before(ahead, t)
      <3>1. ASSUME NEW j \in NodeId, Live(j), SameLevel(j, t), j # t
            PROVE  ahead[j] < ahead[t]
        <4>1. ahead[j] + Rem(j) <= ahead[t] \/ ahead[t] + Rem(t) <= ahead[j]
          BY <1>0, <2>2, <3>1, BeforeOrAfter
        <4>2. ahead[j] + Rem(j) <= level.total_qty
          <5>1. LevelOf(j) = level
            BY <2>3, <3>1 DEF SameLevel, InLevel, LevelOf
          <5> QED
            BY <1>0, <3>1, <5>1 DEF Shape, Measures
        <4>3. ahead[j] \in Nat /\ Rem(j) \in Nat /\ Rem(j) > 0
          BY <1>0, <3>1, NodeTypes DEF Shape, Measures
        <4> QED
          BY <2>4, <2>5, <4>1, <4>2, <4>3
      <3>2. \A j : j \in M <=> j \in NodeId /\ Live(j) /\ SameLevel(j, t)
        BY <2>6 DEF Members, Occupied, Live, InLevel
      <3>3. t \notin Before(ahead, t)
        BY <2>4 DEF Before
      <3> HIDE DEF M
      <3> QED
        BY <3>1, <3>2, <3>3 DEF Before
    <2>9. Left(arena, M) = Rem(t) + ahead[t]
      <3>1. Left(arena, M) = arena[t].order.remaining_qty + Left(arena, M \ {t})
        BY <2>7, LiveCountable, LeftWithout
      <3> QED
        BY <1>0, <2>2, <2>8, <3>1, AheadIsSum DEF Rem
    <2> QED
      BY <1>1, <1>3, <2>4, <2>5, <2>9 DEF LevelAt
  <1> QED
    BY <1>2, <1>3

(* The place of an order in its line.                                      *)
Place(ahead, k) == Cardinality(Before(ahead, k)) + 1

(* Of two orders of a level one is served first, and has the lower place.  *)
LEMMA PlacesDiffer ==
    ASSUME TypeInv, NEW ahead, Shape(ahead), NEW j \in NodeId, NEW k \in NodeId,
           Live(j), Live(k), SameLevel(j, k), ahead[j] + Rem(j) <= ahead[k]
    PROVE  Place(ahead, j) < Place(ahead, k)
  <1>1. /\ ahead[j] \in Nat /\ ahead[k] \in Nat /\ Rem(j) \in Nat /\ Rem(j) > 0
    BY NodeTypes DEF Shape, Measures
  <1>2. ahead[j] < ahead[k] /\ ~(ahead[j] < ahead[j])
    BY <1>1
  <1>3. \A i \in NodeId : ahead[i] < ahead[j] => ahead[i] < ahead[k]
    BY <1>1, <1>2 DEF Shape, Measures
  <1>4. Before(ahead, j) \subseteq Before(ahead, k)
    <2>1. \A i : SameLevel(i, j) => SameLevel(i, k)
      BY DEF SameLevel, InLevel
    <2> QED
      BY <1>3, <2>1 DEF Before
  <1>5. j \in Before(ahead, k) /\ j \notin Before(ahead, j)
    BY <1>2 DEF Before
  <1>6. IsFiniteSet(Before(ahead, k)) /\ Cardinality(Before(ahead, k)) \in Nat
        /\ Cardinality(Before(ahead, j)) \in Nat
    BY BeforeTypes
  <1>7. /\ Cardinality(Before(ahead, j)) <= Cardinality(Before(ahead, k))
        /\ Cardinality(Before(ahead, j)) # Cardinality(Before(ahead, k))
    BY <1>4, <1>5, <1>6, FS_Subset
  <1> QED
    BY <1>6, <1>7 DEF Place

(* w is the line of the level at p: all its orders, each once, linked one   *)
(* to the next and back, from the head to the tail.                        *)
Line(w, side, p) ==
    LET n == Cardinality(Members(side, p))
        Nth(i) == IF i \in 1 .. n THEN w[i] ELSE None
    IN  /\ n \in Nat
        /\ w \in [1 .. n -> Members(side, p)]
        /\ \A i, j \in 1 .. n : w[i] = w[j] => i = j
        /\ \A k \in Members(side, p) : \E i \in 1 .. n : w[i] = k
        /\ LevelAt(side, p).head = Nth(1) /\ LevelAt(side, p).tail = Nth(n)
        /\ \A i \in 1 .. n :
                arena[w[i]].prev = Nth(i - 1) /\ arena[w[i]].next = Nth(i + 1)

(* The order with each place, in turn.                                     *)
LEMMA LineExists ==
    ASSUME TypeInv, ShapeInv, NEW side \in Side, NEW p \in Price,
           levels[side][p] # None
    PROVE  \E w : Line(w, side, p)
  <1>0. PICK ahead : Shape(ahead)
    BY DEF ShapeInv
  <1>1. PICK M, level, n : /\ M = Members(side, p) /\ level = levels[side][p]
                           /\ n = Cardinality(M)
    OBVIOUS
  <1>2. \A k : k \in M <=> k \in NodeId /\ Live(k) /\ InLevel(k, side, p)
    BY <1>1 DEF Members, Occupied, Live, InLevel
  <1>3. IsFiniteSet(M) /\ n \in Nat
    <2>1. M \in SUBSET Occupied(arena)
      BY <1>1 DEF Members
    <2> QED
      BY <1>1, <2>1, LiveCountable, FS_CardinalityType
  <1>4. /\ level.head \in M /\ arena[level.head].prev = None
        /\ level.tail \in M /\ arena[level.tail].next = None
    BY <1>0, <1>1, <1>2 DEF Shape, Ends
  <1>5. \A j, k \in M : SameLevel(j, k) /\ LevelOf(k) = level
    BY <1>1, <1>2 DEF SameLevel, InLevel, LevelOf
  <1>6. ASSUME NEW k \in M
        PROVE  /\ Before(ahead, k) \subseteq M \ {k}
               /\ Place(ahead, k) \in 1 .. n
    <2>1. Before(ahead, k) \subseteq M
      <3>1. \A j : SameLevel(j, k) => InLevel(j, side, p)
        BY <1>2 DEF SameLevel, InLevel
      <3> QED
        BY <1>2, <3>1 DEF Before
    <2>2. k \notin Before(ahead, k)
      <3>1. ahead[k] \in Nat
        BY <1>0, <1>2 DEF Shape, Measures
      <3> QED
        BY <3>1 DEF Before
    <2>3. IsFiniteSet(M \ {k}) /\ Cardinality(M \ {k}) = n - 1
      BY <1>1, <1>3, FS_RemoveElement
    <2>4. Cardinality(Before(ahead, k)) <= n - 1 /\ Cardinality(Before(ahead, k)) \in Nat
      BY <1>2, <2>1, <2>2, <2>3, FS_Subset, BeforeTypes
    <2> QED
      BY <1>3, <2>1, <2>2, <2>4 DEF Place
  <1>7. ASSUME NEW j \in M, NEW k \in M, j # k
        PROVE  /\ Place(ahead, j) # Place(ahead, k)
               /\ Place(ahead, j) < Place(ahead, k) <=> ahead[j] + Rem(j) <= ahead[k]
    <2>1. SameLevel(j, k) /\ SameLevel(k, j) /\ Live(j) /\ Live(k) /\ j \in NodeId /\ k \in NodeId
      BY <1>2, <1>5
    <2>2. ahead[j] + Rem(j) <= ahead[k] \/ ahead[k] + Rem(k) <= ahead[j]
      BY <1>0, <1>7, <2>1, BeforeOrAfter
    <2>3. /\ ahead[j] + Rem(j) <= ahead[k] => Place(ahead, j) < Place(ahead, k)
          /\ ahead[k] + Rem(k) <= ahead[j] => Place(ahead, k) < Place(ahead, j)
      BY <1>0, <2>1, PlacesDiffer
    <2>4. Place(ahead, j) \in Nat /\ Place(ahead, k) \in Nat
      BY <1>6
    <2> QED
      BY <2>2, <2>3, <2>4
  <1>8. PICK place : place = [k \in M |-> Place(ahead, k)]
    OBVIOUS
  <1>9. place \in Injection(M, 1 .. n) /\ place \in Surjection(M, 1 .. n)
    <2>1. place \in [M -> 1 .. n]
      BY <1>6, <1>8
    <2>2. place \in Injection(M, 1 .. n)
      BY <1>7, <1>8, <2>1 DEF Injection, IsInjective
    <2>3. IsFiniteSet(1 .. n) /\ Cardinality(1 .. n) = n
      BY <1>3, FS_Interval
    <2> QED
      BY <1>1, <2>2, <2>3, FS_Injection
  <1>10. \A i \in 1 .. n : \E k \in M : place[k] = i
    BY <1>9 DEF Surjection
  <1>11. PICK w : w = [i \in 1 .. n |-> CHOOSE k \in M : place[k] = i]
    OBVIOUS
  <1>12. \A i \in 1 .. n : w[i] \in M /\ Place(ahead, w[i]) = i
    BY <1>8, <1>10, <1>11
  <1>13. \A k \in M : Place(ahead, k) \in 1 .. n /\ w[Place(ahead, k)] = k
    BY <1>6, <1>7, <1>12
  <1>14. w \in [1 .. n -> M]
    BY <1>11, <1>12
  <1> DEFINE Nth(i) == IF i \in 1 .. n THEN w[i] ELSE None
  <1>15. Place(ahead, level.head) = 1
    <2>1. ahead[level.head] = 0
      BY <1>0, <1>2, <1>4 DEF Shape, Measures
    <2>2. Before(ahead, level.head) = {}
      BY <1>0, <2>1 DEF Before, Shape, Measures
    <2> QED
      BY <2>2, FS_EmptySet DEF Place
  <1>16. ASSUME NEW i \in 1 .. n
         PROVE  /\ i < n => arena[w[i]].next = w[i + 1] /\ arena[w[i + 1]].prev = w[i]
                /\ i = n => arena[w[i]].next = None
    <2>1. PICK k : k = w[i] /\ k \in NodeId /\ Live(k) /\ k \in M
      BY <1>2, <1>12
    <2>2. ASSUME arena[k].next # None
          PROVE  /\ Place(ahead, arena[k].next) = i + 1
                 /\ arena[k].next \in M /\ arena[arena[k].next].prev = k
      <3>1. /\ arena[k].next \in NodeId /\ Live(arena[k].next) /\ SameLevel(arena[k].next, k)
            /\ arena[arena[k].next].prev = k
            /\ Before(ahead, arena[k].next) = Before(ahead, k) \cup {k}
            /\ k \notin Before(ahead, k)
        BY <1>0, <2>1, <2>2, BeforeNext
      <3>2. arena[k].next \in M
        BY <1>2, <2>1, <3>1 DEF SameLevel, InLevel
      <3>3. Place(ahead, arena[k].next) = Place(ahead, k) + 1
        <4>1. IsFiniteSet(Before(ahead, k))
          BY <2>1, BeforeTypes
        <4> QED
          BY <3>1, <4>1, FS_AddElement DEF Place
      <3> QED
        BY <1>12, <2>1, <3>1, <3>2, <3>3
    <2>3. i = n => arena[k].next = None
      BY <1>3, <1>13, <2>2
    <2>4. i < n => arena[k].next # None
      <3>1. SUFFICES ASSUME i < n, arena[k].next = None PROVE FALSE
        OBVIOUS
      <3>2. PICK j : j = w[i + 1] /\ j \in M /\ Place(ahead, j) = i + 1
        BY <1>3, <1>12, <3>1
      <3>3. Place(ahead, k) < Place(ahead, j) /\ k # j
        BY <1>12, <2>1, <3>2
      <3>4. ahead[k] + Rem(k) <= ahead[j]
        BY <1>7, <2>1, <3>2, <3>3
      <3>5. ahead[k] + Rem(k) = level.total_qty
        BY <1>0, <1>5, <2>1, <3>1 DEF Shape, Measures
      <3>6. ahead[j] + Rem(j) <= level.total_qty
        BY <1>0, <1>2, <1>5, <3>2 DEF Shape, Measures
      <3>7. /\ Rem(j) \in Nat /\ Rem(j) > 0 /\ ahead[j] \in Nat
            /\ Rem(k) \in Nat /\ ahead[k] \in Nat
        BY <1>0, <1>2, <2>1, <3>2, NodeTypes DEF Shape, Measures
      <3> QED
        BY <3>4, <3>5, <3>6, <3>7
    <2> QED
      BY <1>3, <1>13, <2>1, <2>2, <2>3, <2>4
  <1>17. level.head = w[1] /\ level.tail = w[n] /\ n > 0
    <2>1. level.head = w[1] /\ n > 0
      <3>1. Place(ahead, level.head) \in 1 .. n /\ w[Place(ahead, level.head)] = level.head
        BY <1>4, <1>13
      <3>2. 1 \in 1 .. n /\ w[1] = level.head
        BY <1>15, <3>1
      <3> QED
        BY <1>3, <3>2
    <2>2. w[Place(ahead, level.tail)] = level.tail /\ Place(ahead, level.tail) \in 1 .. n
      BY <1>4, <1>13
    <2>3. ASSUME Place(ahead, level.tail) < n PROVE FALSE
      <3>1. arena[level.tail].next = w[Place(ahead, level.tail) + 1]
        BY <1>16, <2>2, <2>3
      <3>2. Place(ahead, level.tail) + 1 \in 1 .. n
        BY <1>3, <2>2, <2>3
      <3>3. w[Place(ahead, level.tail) + 1] \in NodeId
        BY <1>2, <1>12, <3>2
      <3> QED
        BY <1>4, <3>1, <3>3, PriceLevelAssumption
    <2> QED
      BY <1>3, <2>1, <2>2, <2>3
  <1>18. ASSUME NEW i \in 1 .. n
         PROVE  arena[w[i]].prev = Nth(i - 1) /\ arena[w[i]].next = Nth(i + 1)
    <2>1. arena[w[i]].next = Nth(i + 1)
      <3>1. i < n \/ i = n
        BY <1>3
      <3>2. i < n => i + 1 \in 1 .. n
        BY <1>3
      <3>3. i = n => i + 1 \notin 1 .. n
        BY <1>3
      <3> QED
        BY <1>16, <3>1, <3>2, <3>3
    <2>2. CASE i = 1
      <3>1. i - 1 \notin 1 .. n
        BY <2>2
      <3> QED
        BY <1>4, <1>17, <2>1, <2>2, <3>1
    <2>3. CASE i # 1
      <3>1. i - 1 \in 1 .. n /\ i - 1 < n /\ (i - 1) + 1 = i
        BY <1>3, <2>3
      <3>2. arena[w[(i - 1) + 1]].prev = w[i - 1]
        BY <1>16, <3>1
      <3> QED
        BY <2>1, <3>1, <3>2
    <2> QED
      BY <2>2, <2>3
  <1>19. /\ \A i, j \in 1 .. n : w[i] = w[j] => i = j
         /\ \A k \in M : \E i \in 1 .. n : w[i] = k
    BY <1>12, <1>13
  <1>20. LevelAt(side, p) = level
    BY <1>1 DEF LevelAt
  <1>21. level.head = Nth(1) /\ level.tail = Nth(n)
    BY <1>3, <1>17
  <1> HIDE DEF Nth
  <1>22. Line(w, side, p)
    BY <1>1, <1>3, <1>14, <1>18, <1>19, <1>20, <1>21 DEF Line, Nth
  <1> QED
    BY <1>22

(* The walk along a level is its line; a price without a level has none.   *)
LEMMA WalkIsLine ==
    ASSUME TypeInv, ShapeInv, NEW side \in Side, NEW p \in Price
    PROVE  Line(Walk(side, p), side, p)
  <1> DEFINE M == Members(side, p)
             n == Cardinality(M)
  <1>1. CASE levels[side][p] = None
    <2>1. M = {} /\ n = 0
      <3>1. M = {}
        BY <1>1, ShapeLevels DEF LevelsExact, Members
      <3> HIDE DEF M
      <3> QED
        BY <3>1, FS_EmptySet
    <2>2. LevelAt(side, p).head = None /\ LevelAt(side, p).tail = None
      BY <1>1 DEF LevelAt, EmptyLevel
    <2>3. PICK w : w = [i \in 1 .. 0 |-> 0]
      OBVIOUS
    <2>4. Chain(arena, None, 0) = w
      <3>1. PICK m \in Nat : m = 0
        OBVIOUS
      <3>2. w = [i \in 1 .. m |-> w[i]] /\ ~(m > 0) /\ \A i \in 1 .. m - 1 : FALSE
        BY <2>3, <3>1
      <3>3. Chain(arena, None, m) = w
        BY <3>2, ChainIs DEF Follows
      <3> QED
        BY <3>1, <3>3
    <2>5. Walk(side, p) \in [1 .. 0 -> {}]
      <3>1. w \in [1 .. 0 -> {}]
        BY <2>3
      <3> QED
        BY <2>1, <2>2, <2>4, <3>1 DEF Walk
    <2> QED
      BY <2>1, <2>2, <2>5 DEF Line
  <1>2. CASE levels[side][p] # None
    <2>1. PICK w : Line(w, side, p)
      BY <1>2, LineExists
    <2>2. n \in Nat /\ w \in [1 .. n -> M] /\ (n > 0 => w[1] = LevelAt(side, p).head)
      BY <2>1 DEF Line
    <2>3. ASSUME NEW i \in 1 .. n - 1
          PROVE  w[i] # None /\ arena[w[i]] # None /\ arena[w[i]].next = w[i + 1]
      <3>1. i \in 1 .. n /\ i + 1 \in 1 .. n
        BY <2>2
      <3>2. w[i] \in M
        BY <2>2, <3>1
      <3>3. w[i] # None /\ arena[w[i]] # None
        BY <3>2, PriceLevelAssumption DEF Members, Occupied
      <3>4. arena[w[i]].next = w[i + 1]
        BY <2>1, <3>1 DEF Line
      <3> QED
        BY <3>3, <3>4
    <2>4. Walk(side, p) = w
      <3> HIDE DEF n, M
      <3>1. Follows(arena, LevelAt(side, p).head, n, w)
        <4>1. w = [i \in 1 .. n |-> w[i]]
          BY <2>2
        <4> QED
          BY <2>2, <2>3, <4>1 DEF Follows
      <3>2. Chain(arena, LevelAt(side, p).head, n) = w
        BY <3>1, ChainIs
      <3> QED
        BY <3>2 DEF Walk, n, M
    <2> QED
      BY <2>1, <2>4
  <1> QED
    BY <1>1, <1>2

LEMMA ShapeQueues ==
    ASSUME TypeInv, ShapeInv
    PROVE  QueueExact
  <1> SUFFICES ASSUME NEW side \in Side, NEW p \in Price
               PROVE  LET w == Walk(side, p)
                          n == Cardinality(Members(side, p))
                          Nth(i) == IF i \in 1 .. n THEN w[i] ELSE None
                      IN  /\ Range(w) = Members(side, p)
                          /\ LevelAt(side, p).head = Nth(1) /\ LevelAt(side, p).tail = Nth(n)
                          /\ \A i \in 1 .. n :
                                arena[w[i]].prev = Nth(i - 1) /\ arena[w[i]].next = Nth(i + 1)
    BY DEF QueueExact
  <1>1. Line(Walk(side, p), side, p)
    BY WalkIsLine
  <1>2. Range(Walk(side, p)) = Members(side, p)
    BY <1>1 DEF Line, Range
  <1> QED
    BY <1>1, <1>2 DEF Line

(* Every level's queue is a well-formed doubly linked list of exactly the   *)
(* orders of its side and price, as long as no total wraps: whatever the    *)
(* sequence of fills, cancels in the middle and reused slots was.           *)
THEOREM QueuesStayExact == Spec /\ []TotalsFit => []QueueExact
  <1>1. BookInv => QueueExact
    BY ShapeQueues DEF BookInv
  <1> QED
    BY <1>1, BookInvInit, BookInvNext, PTL DEF Spec

(* The running total of every level is the sum over its orders, as long as  *)
(* no total wraps: checklist.md's invariant, with the premise it needs.     *)
THEOREM TotalsStayExact == Spec /\ []TotalsFit => []TotalQtyExact
  <1>1. BookInv => TotalQtyExact
    BY ShapeTotals DEF BookInv
  <1> QED
    BY <1>1, BookInvInit, BookInvNext, PTL DEF Spec

-----------------------------------------------------------------------------
(* What a turn of the matching loop does.                                  *)

(* The turn takes `fill` from the order under h, the head of the best level *)
(* of the other side, at price p.                                          *)
Takes(p, h, fill) ==
    LET side == OppositeSide(taker.side)
        rem == taker.remaining_qty
    IN  /\ taker \in Order /\ rem \in Nat /\ side \in Side
        /\ IsBest(side, p) /\ h = levels[side][p].head
        /\ taker.order_type = "Limit" => WithinLimit(taker.side, taker.price, p)
        /\ Live(h) /\ InLevel(h, side, p) /\ Rem(h) \in Nat /\ Rem(h) > 0
        /\ fill = Least(Rem(h), rem) /\ fill > 0 /\ fill \in Word
        /\ taker' = [taker EXCEPT !.remaining_qty = rem - fill]
        /\ events' = Append(events, Trade(arena[h].order.id, taker, p, fill))
        /\ Live(h)' <=> fill # Rem(h)
        /\ Live(h)' => /\ arena'[h].order =
                            [arena[h].order EXCEPT !.remaining_qty = Rem(h) - fill]
                       /\ arena'[h].next = arena[h].next
        /\ \A k \in NodeId \ {h} :
            /\ Live(k)' <=> Live(k)
            /\ Live(k) => arena'[k].order = arena[k].order /\ arena'[k].next = arena[k].next

LEMMA MatchTakes ==
    ASSUME TypeInv, ShapeInv, Match
    PROVE  \E p \in Price, h \in NodeId, fill \in Nat : Takes(p, h, fill)
  <1> USE DEF TypeInv
  <1>0. PICK ahead : Shape(ahead)
    BY DEF ShapeInv
  <1>1. PICK side, qty : side = OppositeSide(taker.side) /\ qty = taker.remaining_qty
    OBVIOUS
  <1>2. taker \in Order /\ side \in Side /\ qty \in Word /\ qty \in Nat /\ qty > 0
    BY <1>1, OrdersAssumption
    DEF Match, LoopContinues, TakerAdmissible, OppositeSide, Side, Order, Word
  <1>3. PICK p \in Price :
            /\ IsBest(side, p) /\ MatchAtBest(side, p, qty)
            /\ taker' = [taker EXCEPT !.remaining_qty =
                            @ - FillAmount(levels[side][p], arena, qty)]
            /\ events' = Append(events, Trade(Front(levels[side][p], arena).id, taker, p,
                                              FillAmount(levels[side][p], arena, qty)))
    BY <1>1 DEF Match
  <1>4. /\ levels[side][p] # None /\ HasFront(levels[side][p], arena)
        /\ taker.order_type = "Limit" => WithinLimit(taker.side, taker.price, p)
    <2>1. PICK q \in Price : IsBest(side, q) /\ HasFront(levels[side][q], arena)
      BY <1>1 DEF Match, LoopContinues, CanMatchAtBest
    <2>2. p = q
      BY <1>3, <2>1, BestUnique
    <2>3. PICK r \in Price :
            /\ IsBest(side, r)
            /\ taker.order_type = "Limit" => WithinLimit(taker.side, taker.price, r)
      BY <1>1 DEF Match, LoopContinues, Crosses
    <2>4. p = r
      BY <1>3, <2>3, BestUnique
    <2> QED
      BY <1>3, <2>1, <2>2, <2>3, <2>4 DEF IsBest, Present
  <1>5. PICK level, h : level = levels[side][p] /\ h = level.head
    OBVIOUS
  <1>6. /\ level \in Level /\ arena \in Arena /\ HasFront(level, arena)
        /\ h \in NodeId /\ Live(h) /\ InLevel(h, side, p)
    BY <1>0, <1>2, <1>4, <1>5, FrontType DEF Shape, Ends, TypeOK, BookTypeOK
  <1>7. /\ arena[h].order \in Order /\ Rem(h) \in Nat /\ Rem(h) \in Word /\ Rem(h) > 0
    BY <1>0, <1>6, NodeTypes DEF Shape
  <1>8. PICK fill : fill = FillAmount(level, arena, qty)
    OBVIOUS
  <1>9. fill = Least(Rem(h), qty) /\ fill \in Nat /\ fill > 0 /\ fill \in Word
    BY <1>2, <1>5, <1>7, <1>8 DEF FillAmount, Front, Least, Rem
  <1>10. UsesUpFront(level, arena, qty) <=> fill = Rem(h)
    BY <1>2, <1>5, <1>7, <1>9 DEF UsesUpFront, Least, Rem
  <1>11. arena' = ConsumeQty(level, arena, qty).arena
    BY <1>3, <1>5 DEF MatchAtBest
  <1>12. /\ arena'[h] = None <=> UsesUpFront(level, arena, qty)
         /\ ~UsesUpFront(level, arena, qty) =>
                /\ arena'[h].order = Reduced(arena[h].order, qty)
                /\ arena'[h].next = arena[h].next
         /\ \A k \in NodeId \ {h} :
                /\ arena'[k] = None <=> arena[k] = None
                /\ arena[k] # None => /\ arena'[k].order = arena[k].order
                                      /\ arena'[k].next = arena[k].next
    BY <1>2, <1>5, <1>6, <1>11, ConsumeNodes
  <1>13. ~UsesUpFront(level, arena, qty) =>
            arena'[h].order = [arena[h].order EXCEPT !.remaining_qty = Rem(h) - fill]
    <2>1. ~UsesUpFront(level, arena, qty) => fill = qty
      BY <1>2, <1>7, <1>9, <1>10 DEF Least
    <2> QED
      BY <1>7, <1>12, <2>1 DEF Reduced, Rem, Order
  <1>14. /\ taker' = [taker EXCEPT !.remaining_qty = qty - fill]
         /\ events' = Append(events, Trade(arena[h].order.id, taker, p, fill))
    BY <1>1, <1>2, <1>3, <1>5, <1>8 DEF Front, Order
  <1>15. Takes(p, h, fill)
    BY <1>1, <1>2, <1>3, <1>4, <1>5, <1>6, <1>7, <1>9, <1>10, <1>12, <1>13, <1>14
    DEF Takes, Live
  <1> QED
    BY <1>3, <1>6, <1>9, <1>15

-----------------------------------------------------------------------------
(* What a call relies on between its steps.                                *)

(* The orders of the other side at the levels that can_fully_fill has been  *)
(* to.                                                                     *)
Counted ==
    {k \in Occupied(arena) :
        /\ arena[k].order.side = OppositeSide(taker.side)
        /\ cursor # None
        /\ ~Better(OppositeSide(taker.side), cursor, arena[k].order.price)}

(* The orders that Reachable adds up.                                      *)
InReachOf(order) ==
    {k \in Occupied(arena) :
        /\ arena[k].order.side = OppositeSide(order.side)
        /\ order.price # None
             => WithinLimit(order.side, order.price, arena[k].order.price)}

(* Between calls nothing of a call is left.                                *)
AtRest ==
    /\ pc # "done" => reply = None
    /\ pc = "idle" => taker = None
    /\ pc \in {"idle", "done"} => accumulated = 0 /\ cursor = None /\ events = << >>

(* The scan has added up what rests at the levels behind it, all of them   *)
(* within the limit, and it was not enough.                                *)
Scanning ==
    pc = "scan" =>
        /\ taker \in NewOrder /\ taker.tif = "FOK"
        /\ accumulated < taker.remaining_qty
        /\ accumulated = Outstanding(Counted)
        /\ cursor # None /\ taker.price # None => WithinLimit(taker.side, taker.price, cursor)
        /\ events = <<Accepted(taker.id)>>

(* A fill-or-kill order in the loop can be filled, and what was traded has  *)
(* been reported.                                                          *)
Matching ==
    pc = "match" =>
        /\ taker.tif = "FOK" => taker.remaining_qty <= Reachable(taker)
        /\ events # << >> /\ events[1] = Accepted(taker.id)
        /\ Traded(events) + taker.remaining_qty = taker.qty
        /\ Rested(events) = 0

LEMMA ReachableIs ==
    ASSUME TypeInv, NEW order
    PROVE  /\ Reachable(order) = Left(arena, InReachOf(order))
           /\ InReachOf(order) \in SUBSET Occupied(arena)
           /\ Countable(arena, InReachOf(order))
  <1>1. Reachable(order) = Left(arena, InReachOf(order))
    BY DEF Reachable, Outstanding, Left, InReachOf
  <1>2. InReachOf(order) \in SUBSET Occupied(arena)
    BY DEF InReachOf
  <1> QED
    BY <1>1, <1>2, LiveCountable

(* Stored prices, and what serving them first to last means.               *)
LEMMA PricesOrdered ==
    ASSUME NEW side \in Side, NEW p \in Price, NEW q \in Price, ~Better(side, q, p)
    PROVE  /\ p \in Nat /\ q \in Nat
           /\ Better(side, p, q) \/ p = q
           /\ \A limit \in Price :
                WithinLimit(OppositeSide(side), limit, q) => WithinLimit(OppositeSide(side), limit, p)
           /\ \A r \in Price : Better(side, r, p) => Better(side, r, q)
  <1>1. Price \subseteq Nat
    BY OrdersAssumption
  <1> QED
    BY <1>1 DEF Better, WithinLimit, OppositeSide, Side

LEMMA Opposites ==
    ASSUME NEW side \in Side
    PROVE  OppositeSide(side) \in Side /\ OppositeSide(OppositeSide(side)) = side
  BY DEF OppositeSide, Side

LEMMA StoredOrder ==
    ASSUME TypeInv, ShapeInv, NEW k \in Occupied(arena)
    PROVE  /\ k \in NodeId /\ Live(k) /\ arena[k].order \in Order
           /\ arena[k].order.side \in Side /\ arena[k].order.price \in Price
           /\ arena[k].order.price \in Present(arena[k].order.side)
           /\ Rem(k) \in Nat /\ Rem(k) > 0 /\ Rem(k) \in Word
  <1>1. k \in NodeId /\ Live(k)
    BY DEF Occupied, Live
  <1>2. PICK ahead : Shape(ahead)
    BY DEF ShapeInv
  <1>3. /\ arena[k].order \in Order
        /\ arena[k].order.side \in Side /\ arena[k].order.price \in Price
        /\ Rem(k) \in Nat /\ Rem(k) > 0 /\ Rem(k) \in Word /\ LevelOf(k) # None
    BY <1>1, <1>2, NodeTypes DEF Shape
  <1> QED
    BY <1>1, <1>3 DEF LevelOf, Present

(* One more event.                                                         *)
LEMMA SumAppend ==
    ASSUME NEW n \in Nat, NEW f, NEW g, g[n + 1] \in Nat,
           \A i \in 1 .. n : f[i] \in Nat /\ g[i] = f[i]
    PROVE  /\ SumFunctionOnSet(g, 1 .. n + 1) = SumFunctionOnSet(f, 1 .. n) + g[n + 1]
           /\ SumFunctionOnSet(f, 1 .. n) \in Nat
  <1>1. IsFiniteSet(1 .. n)
    BY FS_Interval
  <1>2. (1 .. n) \cup {n + 1} = 1 .. n + 1 /\ n + 1 \notin 1 .. n
    OBVIOUS
  <1>3. \A i \in (1 .. n) \cup {n + 1} : g[i] \in Nat
    OBVIOUS
  <1>4. SumFunctionOnSet(g, (1 .. n) \cup {n + 1}) = g[n + 1] + SumFunctionOnSet(g, 1 .. n)
    BY <1>1, <1>2, <1>3, SumWith
  <1>5. SumFunctionOnSet(g, 1 .. n) = SumFunctionOnSet(f, 1 .. n)
    BY <1>1, SumSame
  <1>6. SumFunctionOnSet(f, 1 .. n) \in Nat
    BY <1>1, SumNat
  <1>7. SumFunctionOnSet(g, 1 .. n + 1) = g[n + 1] + SumFunctionOnSet(f, 1 .. n)
    BY <1>2, <1>4, <1>5, Zenon
  <1>8. PICK x \in Nat, y \in Nat : x = g[n + 1] /\ y = SumFunctionOnSet(f, 1 .. n)
    BY <1>6
  <1>9. x + y = y + x
    OBVIOUS
  <1> QED
    BY <1>7, <1>8, <1>9

LEMMA EventQuantities ==
    ASSUME NEW e \in BookEvent
    PROVE  /\ e.kind = "Trade" => e.qty \in Nat
           /\ e.kind = "RestingOnBook" => e.remaining_qty \in Nat
  <1>1. Word \subseteq Nat
    BY OrdersAssumption DEF Word
  <1>2. CASE e \in [kind : {"Accepted", "Cancelled"}, order_id : OrderId]
    BY <1>2
  <1>3. CASE e \in [kind : {"RestingOnBook"}, order_id : OrderId, price : Price,
                    remaining_qty : Word]
    BY <1>1, <1>3
  <1>4. CASE e \in [kind : {"Trade"}, maker_order_id : OrderId, taker_order_id : OrderId,
                    price : Price, qty : Word, timestamp : Timestamp]
    BY <1>1, <1>4
  <1> QED
    BY <1>2, <1>3, <1>4 DEF BookEvent

LEMMA EventAppended ==
    ASSUME NEW es \in Seq(BookEvent), NEW e \in BookEvent
    PROVE  /\ Traded(Append(es, e)) = Traded(es) + (IF e.kind = "Trade" THEN e.qty ELSE 0)
           /\ Rested(Append(es, e)) =
                Rested(es) + (IF e.kind = "RestingOnBook" THEN e.remaining_qty ELSE 0)
           /\ Traded(es) \in Nat /\ Rested(es) \in Nat
  <1> DEFINE t(x) == IF x.kind = "Trade" THEN x.qty ELSE 0
             r(x) == IF x.kind = "RestingOnBook" THEN x.remaining_qty ELSE 0
  <1>1. PICK n, more : n = Len(es) /\ more = Append(es, e) /\ n \in Nat
    <2>1. Len(es) \in Nat
      OBVIOUS
    <2> QED
      BY <2>1
  <1>2. /\ DOMAIN es = 1 .. n /\ DOMAIN more = 1 .. n + 1
        /\ more[n + 1] = e /\ \A i \in 1 .. n : more[i] = es[i] /\ es[i] \in BookEvent
    BY <1>1
  <1>3. \A x \in BookEvent : t(x) \in Nat /\ r(x) \in Nat
    BY EventQuantities
  <1>4. PICK ft, gt, fr, gr :
            /\ ft = [i \in 1 .. n |-> t(es[i])] /\ gt = [i \in 1 .. n + 1 |-> t(more[i])]
            /\ fr = [i \in 1 .. n |-> r(es[i])] /\ gr = [i \in 1 .. n + 1 |-> r(more[i])]
    OBVIOUS
  <1>5. /\ Traded(es) = SumFunctionOnSet(ft, 1 .. n)
        /\ Traded(more) = SumFunctionOnSet(gt, 1 .. n + 1)
        /\ Rested(es) = SumFunctionOnSet(fr, 1 .. n)
        /\ Rested(more) = SumFunctionOnSet(gr, 1 .. n + 1)
    BY <1>2, <1>4 DEF Traded, Rested, SumFunction
  <1> HIDE DEF t, r
  <1>6. /\ gt[n + 1] = t(e) /\ gr[n + 1] = r(e)
        /\ \A i \in 1 .. n : /\ ft[i] \in Nat /\ gt[i] = ft[i]
                             /\ fr[i] \in Nat /\ gr[i] = fr[i]
    BY <1>1, <1>2, <1>3, <1>4
  <1>7. /\ Traded(more) = Traded(es) + t(e) /\ Traded(es) \in Nat
        /\ Rested(more) = Rested(es) + r(e) /\ Rested(es) \in Nat
    <2>1. t(e) \in Nat /\ r(e) \in Nat
      BY <1>3
    <2>2. /\ SumFunctionOnSet(gt, 1 .. n + 1) = SumFunctionOnSet(ft, 1 .. n) + gt[n + 1]
          /\ SumFunctionOnSet(ft, 1 .. n) \in Nat
      BY <1>1, <1>6, <2>1, SumAppend
    <2>3. /\ SumFunctionOnSet(gr, 1 .. n + 1) = SumFunctionOnSet(fr, 1 .. n) + gr[n + 1]
          /\ SumFunctionOnSet(fr, 1 .. n) \in Nat
      BY <1>1, <1>6, <2>1, SumAppend
    <2> QED
      BY <1>5, <1>6, <2>2, <2>3
  <1> QED
    BY <1>1, <1>7 DEF t, r

(* The account of a call that has only been accepted.                      *)
LEMMA JustAccepted ==
    ASSUME NEW id \in OrderId
    PROVE  /\ Traded(<<Accepted(id)>>) = 0 /\ Rested(<<Accepted(id)>>) = 0
           /\ <<Accepted(id)>> # << >> /\ <<Accepted(id)>>[1] = Accepted(id)
           /\ <<Accepted(id)>> \in Seq(BookEvent)
  <1>1. Accepted(id) \in BookEvent /\ Accepted(id).kind = "Accepted"
    BY DEF Accepted, BookEvent
  <1>2. << >> \in Seq(BookEvent) /\ Append(<< >>, Accepted(id)) = <<Accepted(id)>>
    BY <1>1
  <1>3. Traded(<< >>) = 0 /\ Rested(<< >>) = 0
    <2>1. DOMAIN << >> = {}
      OBVIOUS
    <2> QED
      BY <2>1, SumEmpty DEF Traded, Rested, SumFunction
  <1>4. Traded(<<Accepted(id)>>) = 0 /\ Rested(<<Accepted(id)>>) = 0
    <2>1. PICK es, e : es = << >> /\ e = Accepted(id)
      OBVIOUS
    <2>2. /\ es \in Seq(BookEvent) /\ e \in BookEvent /\ Append(es, e) = <<Accepted(id)>>
          /\ e.kind = "Accepted" /\ Traded(es) = 0 /\ Rested(es) = 0
      BY <1>1, <1>2, <1>3, <2>1
    <2>3. /\ Traded(Append(es, e)) = Traded(es) + (IF e.kind = "Trade" THEN e.qty ELSE 0)
          /\ Rested(Append(es, e)) =
                Rested(es) + (IF e.kind = "RestingOnBook" THEN e.remaining_qty ELSE 0)
      BY <2>2, EventAppended
    <2> QED
      BY <2>2, <2>3
  <1> QED
    BY <1>1, <1>4

-----------------------------------------------------------------------------
(* The scan of can_fully_fill, and the fill it promises.                   *)

LEMMA NextLevelExists ==
    ASSUME NEW side \in Side, NEW q \in Present(side),
           cursor = None \/ Better(side, cursor, q)
    PROVE  \E p \in Price : IsNextLevel(side, cursor, p) /\ ~Better(side, q, p)
  <1>1. PICK P : P = {r \in Present(side) : cursor = None \/ Better(side, cursor, r)}
    OBVIOUS
  <1>2. q \in P /\ P \subseteq Price /\ P # {}
    BY <1>1 DEF Present
  <1>3. PICK p \in P : \A r \in P : ~Better(side, r, p)
    BY <1>2, FirstServed
  <1> QED
    BY <1>1, <1>2, <1>3 DEF IsNextLevel

(* The types of the order that is scanned for or matched.                  *)
LEMMA TakerTypes ==
    ASSUME TypeInv, pc \in {"scan", "match"}
    PROVE  /\ taker \in Order /\ taker # None /\ taker.id \in OrderId
           /\ taker.side \in Side /\ OppositeSide(taker.side) \in Side
           /\ taker.price \in Price \cup {None}
           /\ taker.qty \in Nat /\ taker.remaining_qty \in Nat
           /\ taker.order_type = "Limit" => taker.price \in Price
           /\ taker.tif = "GTC" => taker.order_type = "Limit"
           /\ accumulated \in Nat /\ events \in Seq(BookEvent)
           /\ arena \in Arena
  <1>1. taker \in Order
    BY DEF TypeInv, TakerAdmissible
  <1>2. taker # None
    BY <1>1, NoneAssumption
  <1> QED
    BY <1>1, <1>2, OrdersAssumption
    DEF TypeInv, TypeOK, TakerAdmissible, Order, Word, Side, OppositeSide, BookTypeOK

(* The next level holds what rests between it and the levels counted.      *)
LEMMA ScanReaches ==
    ASSUME TypeInv, ShapeInv, Scanning, pc = "scan",
           NEW p \in Price, CountsTowardFill(p),
           NEW K, K = {k \in Occupied(arena) :
                        /\ arena[k].order.side = OppositeSide(taker.side)
                        /\ ~Better(OppositeSide(taker.side), p, arena[k].order.price)}
    PROVE  /\ accumulated + levels[OppositeSide(taker.side)][p].total_qty = Left(arena, K)
           /\ K \in SUBSET Occupied(arena)
  <1>1. PICK side, opp : side = taker.side /\ opp = OppositeSide(side)
    OBVIOUS
  <1>2. /\ side \in Side /\ opp \in Side /\ side = OppositeSide(opp)
        /\ taker \in Order /\ accumulated \in Nat
    BY <1>1, TakerTypes, Opposites
  <1>3. IsNextLevel(opp, cursor, p) /\ p \in Present(opp)
    BY <1>1 DEF CountsTowardFill, IsNextLevel
  <1>4. cursor \in Price \cup {None} /\ Price \subseteq Nat
    BY OrdersAssumption DEF TypeInv, TypeOK
  <1>5. taker.price # None => WithinLimit(side, taker.price, p)
    BY <1>1 DEF CountsTowardFill
  <1>6. K = Counted \cup Members(opp, p) /\ Counted \cap Members(opp, p) = {}
    <2>1. ASSUME NEW k \in Occupied(arena), arena[k].order.side = opp
          PROVE  ~Better(opp, p, arena[k].order.price)
                    <=> k \in Counted \/ k \in Members(opp, p)
      <3>1. PICK q \in Present(opp) : q = arena[k].order.price
        BY <2>1, StoredOrder
      <3>2. q \in Price
        BY DEF Present
      <3>3. k \in Members(opp, p) <=> q = p
        BY <2>1, <3>1 DEF Members
      <3>4. k \in Counted <=> cursor # None /\ ~Better(opp, cursor, q)
        BY <1>1, <2>1, <3>1 DEF Counted
      <3>5. cursor = None \/ Better(opp, cursor, q) => ~Better(opp, q, p)
        BY <1>3 DEF IsNextLevel
      <3>6. cursor = None \/ Better(opp, cursor, p)
        BY <1>3 DEF IsNextLevel
      <3> QED
        BY <1>2, <1>4, <3>1, <3>2, <3>3, <3>4, <3>5, <3>6 DEF Better, Side
    <2>2. \A k \in Counted : k \in Occupied(arena) /\ arena[k].order.side = opp
      BY <1>1 DEF Counted
    <2>3. \A k \in Members(opp, p) : k \in Occupied(arena) /\ arena[k].order.side = opp
      BY DEF Members
    <2>4. \A k \in K : k \in Occupied(arena) /\ arena[k].order.side = opp
                        /\ ~Better(opp, p, arena[k].order.price)
      BY <1>1
    <2>5. K = Counted \cup Members(opp, p)
      BY <1>1, <2>1, <2>2, <2>3, <2>4
    <2>6. ASSUME NEW k \in Counted, k \in Members(opp, p) PROVE FALSE
      <3>1. cursor # None /\ ~Better(opp, cursor, p)
        BY <1>1, <2>6 DEF Counted, Members
      <3> QED
        BY <1>3, <3>1 DEF IsNextLevel
    <2> QED
      BY <2>5, <2>6
  <1>7. K \in SUBSET Occupied(arena)
    OBVIOUS
  <1>8. /\ Left(arena, K) = Left(arena, Counted) + Left(arena, Members(opp, p))
        /\ Left(arena, Counted) \in Nat /\ Left(arena, Members(opp, p)) \in Nat
    <2>1. Countable(arena, Counted \cup Members(opp, p))
      BY <1>6, <1>7, LiveCountable
    <2> QED
      BY <1>6, <2>1, LeftUnion
  <1>9. levels[opp][p].total_qty = Left(arena, Members(opp, p))
    <2>1. LevelAt(opp, p) = levels[opp][p]
      BY <1>3 DEF LevelAt, Present
    <2> QED
      BY <1>2, <2>1, ShapeTotals DEF TotalQtyExact, Outstanding, Left
  <1>10. accumulated = Left(arena, Counted)
    BY DEF Scanning, Outstanding, Left
  <1> QED
    BY <1>1, <1>6, <1>7, <1>8, <1>9, <1>10

(* A scan counts what rests at the next level.                             *)
LEMMA ScanCounts ==
    ASSUME TypeInv, ShapeInv, Scanning, ScanFits, pc = "scan",
           NEW p \in Price, CountsTowardFill(p),
           NEW sum, sum = Add64(accumulated, levels[OppositeSide(taker.side)][p].total_qty),
           NEW K, K = {k \in Occupied(arena) :
                        /\ arena[k].order.side = OppositeSide(taker.side)
                        /\ ~Better(OppositeSide(taker.side), p, arena[k].order.price)}
    PROVE  /\ sum = Left(arena, K)
           /\ sum <= Reachable(taker)
           /\ taker.price # None => WithinLimit(taker.side, taker.price, p)
  <1>1. PICK side, opp : side = taker.side /\ opp = OppositeSide(side)
    OBVIOUS
  <1>2. /\ side \in Side /\ opp \in Side /\ side = OppositeSide(opp) /\ taker \in Order
    BY <1>1, TakerTypes, Opposites
  <1>5. taker.price # None => WithinLimit(side, taker.price, p)
    BY <1>1 DEF CountsTowardFill
  <1>12. sum = Left(arena, K)
    <2>1. accumulated + levels[opp][p].total_qty = Left(arena, K)
      BY <1>1, ScanReaches
    <2>2. accumulated + levels[opp][p].total_qty < WordSize
      BY <1>1 DEF ScanFits
    <2> QED
      BY <1>1, <2>1, <2>2 DEF Add64
  <1>13. K \in SUBSET InReachOf(taker)
    <2>1. ASSUME NEW k \in K PROVE k \in InReachOf(taker)
      <3>1. k \in Occupied(arena) /\ arena[k].order.side = opp
            /\ ~Better(opp, p, arena[k].order.price)
        BY <1>1
      <3>2. arena[k].order.price \in Price
        BY <3>1, StoredOrder
      <3>3. taker.price # None => WithinLimit(side, taker.price, arena[k].order.price)
        <4>1. taker.price \in Price \cup {None}
          BY <1>2 DEF Order
        <4> QED
          BY <1>2, <1>5, <3>1, <3>2, <4>1, PricesOrdered
      <3> QED
        BY <1>1, <3>1, <3>3 DEF InReachOf
    <2> QED
      BY <2>1
  <1>14. sum <= Reachable(taker)
    BY <1>12, <1>13, ReachableIs, LeftSubset
  <1> QED
    BY <1>1, <1>5, <1>12, <1>14

(* A scan that finds no further level has counted everything in reach.     *)
LEMMA KillFalls ==
    ASSUME TypeInv, ShapeInv, Scanning, Kill
    PROVE  /\ Reachable(taker) < taker.qty
           /\ taker.remaining_qty = taker.qty
  <1>1. PICK side, opp : side = taker.side /\ opp = OppositeSide(side)
    OBVIOUS
  <1>2. /\ pc = "scan" /\ side \in Side /\ opp \in Side /\ side = OppositeSide(opp)
        /\ taker \in Order /\ taker.price \in Price \cup {None}
    BY <1>1, TakerTypes, Opposites DEF Kill
  <1>3. InReachOf(taker) \in SUBSET Counted
    <2>1. ASSUME NEW k \in InReachOf(taker), k \notin Counted PROVE FALSE
      <3>1. /\ k \in Occupied(arena) /\ arena[k].order.side = opp
            /\ taker.price # None => WithinLimit(side, taker.price, arena[k].order.price)
        BY <1>1 DEF InReachOf
      <3>2. PICK q \in Present(opp) : q = arena[k].order.price /\ q \in Price
        BY <3>1, StoredOrder
      <3>3. cursor = None \/ Better(opp, cursor, q)
        BY <1>1, <2>1, <3>1, <3>2 DEF Counted
      <3>4. PICK p \in Price : IsNextLevel(opp, cursor, p) /\ ~Better(opp, q, p)
        BY <1>2, <3>3, NextLevelExists
      <3>5. taker.price # None => WithinLimit(side, taker.price, p)
        BY <1>2, <3>1, <3>2, <3>4, PricesOrdered
      <3>6. CountsTowardFill(p)
        BY <1>1, <3>4, <3>5 DEF CountsTowardFill
      <3> QED
        BY <3>6 DEF Kill
    <2> QED
      BY <2>1
  <1>4. Reachable(taker) <= accumulated /\ accumulated \in Nat /\ Reachable(taker) \in Nat
    <2>1. Counted \in SUBSET Occupied(arena)
      BY DEF Counted
    <2>2. accumulated = Left(arena, Counted)
      BY <1>2 DEF Scanning, Outstanding, Left
    <2> QED
      BY <1>3, <2>1, <2>2, LiveCountable, ReachableIs, LeftSubset, LeftNat
  <1>5. taker.remaining_qty = taker.qty /\ accumulated < taker.remaining_qty
    BY <1>2 DEF Scanning, NewOrder
  <1> QED
    BY <1>2, <1>4, <1>5, TakerTypes

(* What a trade takes from an order it takes from every sum the order is   *)
(* in.                                                                     *)
LEMMA TakesLeft ==
    ASSUME TypeInv, NEW K \in SUBSET Occupied(arena), NEW h \in K,
           NEW fill \in Nat, Rem(h) \in Nat,
           \A k \in K \ {h} : arena'[k].order = arena[k].order,
           fill # Rem(h) => arena'[h].order.remaining_qty = Rem(h) - fill,
           fill <= Rem(h),
           NEW rest, rest = IF fill = Rem(h) THEN K \ {h} ELSE K
    PROVE  /\ Left(arena', rest) = Left(arena, K) - fill
           /\ Left(arena', rest) \in Nat /\ Left(arena, K) \in Nat
  <1>1. Countable(arena, K) /\ Countable(arena, K \ {h})
    BY LiveCountable, LeftSubset
  <1>2. Left(arena, K) = Rem(h) + Left(arena, K \ {h}) /\ Left(arena, K \ {h}) \in Nat
    BY <1>1, LeftWithout DEF Rem
  <1>3. Left(arena', K \ {h}) = Left(arena, K \ {h})
    BY <1>1, LeftSame
  <1>4. CASE fill = Rem(h)
    BY <1>2, <1>3, <1>4
  <1>5. CASE fill # Rem(h)
    <2>1. Rem(h) - fill \in Nat
      OBVIOUS
    <2>2. Countable(arena', K)
      <3>1. \A k \in K : arena'[k].order.remaining_qty \in Nat
        BY <1>1, <1>5, <2>1 DEF Countable
      <3> QED
        BY <1>1, <3>1 DEF Countable
    <2>3. Left(arena', K) = (Rem(h) - fill) + Left(arena', K \ {h})
      BY <1>5, <2>2, LeftWithout
    <2> QED
      BY <1>2, <1>3, <1>5, <2>1, <2>3
  <1> QED
    BY <1>4, <1>5

(* While something in reach is left, the best price is in reach, and the    *)
(* loop goes on.                                                           *)
LEMMA ReachIsBest ==
    ASSUME TypeInv, ShapeInv, pc = "match",
           taker.remaining_qty > 0, taker.remaining_qty <= Reachable(taker)
    PROVE  /\ LoopContinues
           /\ \A p \in Price : IsBest(OppositeSide(taker.side), p) =>
                (taker.price # None => WithinLimit(taker.side, taker.price, p))
  <1>1. PICK side, opp : side = taker.side /\ opp = OppositeSide(side)
    OBVIOUS
  <1>2. /\ side \in Side /\ opp \in Side /\ side = OppositeSide(opp)
        /\ taker \in Order /\ taker.price \in Price \cup {None}
        /\ taker.order_type = "Limit" => taker.price \in Price
        /\ taker.remaining_qty \in Nat
    BY <1>1, TakerTypes, Opposites
  <1>3. PICK k : k \in InReachOf(taker)
    <2>1. InReachOf(taker) # {}
      <3>1. InReachOf(taker) = {} => Reachable(taker) = 0
        BY ReachableIs, LeftEmpty
      <3> QED
        BY <1>2, <3>1
    <2> QED
      BY <2>1
  <1>4. /\ k \in Occupied(arena) /\ arena[k].order.side = opp
        /\ taker.price # None => WithinLimit(side, taker.price, arena[k].order.price)
    BY <1>1, <1>3 DEF InReachOf
  <1>5. PICK q \in Present(opp) : q = arena[k].order.price /\ q \in Price
    BY <1>4, StoredOrder
  <1>6. PICK p \in Price : IsBest(opp, p) /\ ~Better(opp, q, p)
    BY <1>2, BestExists
  <1>7. taker.price # None => WithinLimit(side, taker.price, p)
    BY <1>2, <1>4, <1>5, <1>6, PricesOrdered
  <1>8. \A r \in Price : IsBest(opp, r) => r = p
    BY <1>6, BestUnique
  <1>9. Crosses(taker)
    BY <1>1, <1>2, <1>6, <1>7, NoneAssumption, OrdersAssumption DEF Crosses
  <1>10. CanMatchAtBest(opp)
    BY <1>2, <1>6, BestHasFront DEF CanMatchAtBest
  <1> QED
    BY <1>1, <1>7, <1>8, <1>9, <1>10 DEF LoopContinues

(* A trade takes the same from the taker and from what it can reach.       *)
LEMMA MatchStaysCovered ==
    ASSUME TypeInv, ShapeInv, Match,
           taker.tif = "FOK" => taker.remaining_qty <= Reachable(taker)
    PROVE  taker'.tif = "FOK" => taker'.remaining_qty <= Reachable(taker)'
  <1>1. PICK p \in Price, h \in NodeId, fill \in Nat : Takes(p, h, fill)
    BY MatchTakes
  <1>2. PICK opp, rem : opp = OppositeSide(taker.side) /\ rem = taker.remaining_qty
    OBVIOUS
  <1>3. /\ taker \in Order /\ rem \in Nat /\ opp \in Side
        /\ IsBest(opp, p) /\ Live(h) /\ InLevel(h, opp, p)
        /\ Rem(h) \in Nat /\ Rem(h) > 0 /\ fill = Least(Rem(h), rem) /\ fill > 0
        /\ taker' = [taker EXCEPT !.remaining_qty = rem - fill]
        /\ Live(h)' <=> fill # Rem(h)
        /\ Live(h)' => arena'[h].order =
                            [arena[h].order EXCEPT !.remaining_qty = Rem(h) - fill]
        /\ \A k \in NodeId \ {h} :
            /\ Live(k)' <=> Live(k)
            /\ Live(k) => arena'[k].order = arena[k].order
    BY <1>1, <1>2 DEF Takes
  <1>4. /\ taker'.remaining_qty = rem - fill /\ taker'.tif = taker.tif
        /\ taker'.side = taker.side /\ taker'.price = taker.price
    BY <1>3 DEF Order
  <1>5. SUFFICES ASSUME taker.tif = "FOK" PROVE rem - fill <= Reachable(taker)'
    BY <1>4
  <1>6. fill <= Rem(h) /\ fill <= rem /\ rem > 0
    BY <1>3 DEF Least
  <1>7. PICK K : K = InReachOf(taker) /\ K \in SUBSET Occupied(arena)
    BY ReachableIs
  <1>8. h \in K
    <2>1. taker.price # None => WithinLimit(taker.side, taker.price, p)
      BY <1>2, <1>3, <1>5, <1>6, ReachIsBest DEF Match
    <2> QED
      BY <1>2, <1>3, <1>7, <2>1 DEF InReachOf, Occupied, Live, InLevel
  <1>9. arena[h].order \in Order
    BY <1>7, <1>8, StoredOrder
  <1>10. Live(h)' => /\ arena'[h].order.side = arena[h].order.side
                     /\ arena'[h].order.price = arena[h].order.price
                     /\ arena'[h].order.remaining_qty = Rem(h) - fill
    BY <1>3, <1>9 DEF Order
  <1>11. PICK L : L = IF fill = Rem(h) THEN K \ {h} ELSE K
    OBVIOUS
  <1>12. InReachOf(taker)' = L
    <2>1. \A k : k \in InReachOf(taker)' <=>
                    /\ k \in NodeId /\ Live(k)'
                    /\ arena'[k].order.side = opp
                    /\ taker.price # None
                        => WithinLimit(taker.side, taker.price, arena'[k].order.price)
      BY <1>2, <1>4 DEF InReachOf, Occupied, Live
    <2>2. \A k : k \in K <=>
                    /\ k \in NodeId /\ Live(k)
                    /\ arena[k].order.side = opp
                    /\ taker.price # None
                        => WithinLimit(taker.side, taker.price, arena[k].order.price)
      BY <1>2, <1>7 DEF InReachOf, Occupied, Live
    <2>3. \A k \in NodeId \ {h} : k \in InReachOf(taker)' <=> k \in K
      BY <1>3, <2>1, <2>2
    <2>4. h \in InReachOf(taker)' <=> fill # Rem(h)
      BY <1>3, <1>8, <1>10, <2>1, <2>2
    <2> QED
      BY <1>8, <1>11, <2>1, <2>2, <2>3, <2>4
  <1>13. Reachable(taker)' = Left(arena', InReachOf(taker)')
    BY DEF Reachable, Outstanding, Left, InReachOf
  <1>14. /\ Left(arena', L) = Left(arena, K) - fill
         /\ Left(arena', L) \in Nat /\ Left(arena, K) \in Nat
    <2>1. \A k \in K \ {h} : arena'[k].order = arena[k].order
      BY <1>3, <1>7 DEF Occupied, Live
    <2>2. fill # Rem(h) => arena'[h].order.remaining_qty = Rem(h) - fill
      BY <1>3, <1>10
    <2> QED
      BY <1>3, <1>6, <1>7, <1>8, <1>11, <2>1, <2>2, TakesLeft
  <1>15. rem <= Left(arena, K)
    BY <1>2, <1>5, <1>7, ReachableIs
  <1> QED
    BY <1>3, <1>12, <1>13, <1>14, <1>15

-----------------------------------------------------------------------------
(* What a call answers.                                                    *)

CallInv ==
    /\ BookInv /\ IndexInv
    /\ AtRest /\ Scanning /\ Matching
    /\ FokAllOrNothing /\ ReplyAccountsForOrder

(* What one step has to show beside the book and the index.                *)
Conduct ==
    AtRest /\ Scanning /\ Matching /\ FokAllOrNothing /\ ReplyAccountsForOrder

LEMMA CallInvInit == Init => CallInv
  <1> SUFFICES ASSUME Init PROVE AtRest /\ Scanning /\ Matching
                                    /\ FokAllOrNothing /\ ReplyAccountsForOrder
    BY BookInvInit, IndexInvInit DEF CallInv
  <1> QED
    BY DEF Init, AtRest, Scanning, Matching, FokAllOrNothing, ReplyAccountsForOrder

(* A step that ends in idle has nothing to answer for.                     *)
LEMMA ConductAtIdle ==
    ASSUME pc' = "idle", taker' = None, reply' = None,
           accumulated' = 0, cursor' = None, events' = << >>
    PROVE  Conduct'
  BY DEF Conduct, AtRest, Scanning, Matching, FokAllOrNothing, ReplyAccountsForOrder

(* Nor has a call that fails, if it does not speak of a fill.              *)
LEMMA ConductOfFailure ==
    ASSUME NEW e \in EngineError, Returns(ErrReply(e)), e # "FokNotFillable"
    PROVE  Conduct'
  BY DEF Conduct, AtRest, Scanning, Matching, FokAllOrNothing, ReplyAccountsForOrder,
         Returns, ErrReply

(* A call that has no taker answers for none.                              *)
LEMMA ConductOfCancel ==
    ASSUME NEW r, Returns(r), taker' = None
    PROVE  Conduct'
  BY DEF Conduct, AtRest, Scanning, Matching, FokAllOrNothing, ReplyAccountsForOrder, Returns

LEMMA ConductOfRefuse ==
    ASSUME NEW order \in NewOrder, Refuse(order)
    PROVE  Conduct'
  <1>1. Fault(order) \in EngineError /\ Fault(order) # "FokNotFillable"
    BY DEF Refuse, Fault, EngineError
  <1> QED
    BY <1>1, ConductOfFailure DEF Refuse

(* A call that begins has counted nothing and traded nothing.              *)
LEMMA ConductOfAdmit ==
    ASSUME CallInv, NEW order \in NewOrder, Admit(order)
    PROVE  Conduct'
  <1>1. /\ order \in Order /\ order.id \in OrderId /\ order.remaining_qty \in Nat
        /\ order.qty = order.remaining_qty /\ order.remaining_qty # 0
    <2>1. order \in Order
      BY NewOrderType
    <2>2. order.remaining_qty # 0
      BY DEF Admit, Fault
    <2>3. order.qty = order.remaining_qty
      BY DEF NewOrder
    <2> QED
      BY <2>1, <2>2, <2>3, OrdersAssumption DEF Order, Word
  <1>2. /\ taker' = order /\ events' = <<Accepted(order.id)>>
        /\ pc' = IF order.tif = "FOK" THEN "scan" ELSE "match"
        /\ accumulated' = 0 /\ cursor' = None /\ reply' = None
    BY DEF Admit, CallInv, AtRest
  <1>3. AtRest'
    BY <1>2 DEF AtRest
  <1>4. Scanning'
    <2>1. Outstanding(Counted)' = Left(arena', Counted')
      BY DEF Outstanding, Left
    <2>2. Counted' = {}
      BY <1>2 DEF Counted
    <2>3. Outstanding(Counted)' = 0
      BY <2>1, <2>2, LeftEmpty
    <2> QED
      BY <1>1, <1>2, <2>3 DEF Scanning
  <1>5. Matching'
    <2>1. /\ Traded(events') = 0 /\ Rested(events') = 0
          /\ events' # << >> /\ events'[1] = Accepted(order.id)
      BY <1>1, <1>2, JustAccepted
    <2>2. Traded(events)' = Traded(events') /\ Rested(events)' = Rested(events')
      BY DEF Traded, Rested
    <2> QED
      BY <1>1, <1>2, <2>1, <2>2 DEF Matching
  <1> QED
    BY <1>2, <1>3, <1>4, <1>5 DEF Conduct, FokAllOrNothing, ReplyAccountsForOrder

(* A scan that stops has counted enough within reach.                      *)
LEMMA ConductOfScan ==
    ASSUME CallInv, ScanFits, ScanLevel
    PROVE  Conduct'
  <1>1. /\ TypeInv /\ ShapeInv /\ Scanning /\ AtRest /\ pc = "scan"
        /\ taker' = taker /\ arena' = arena /\ events' = events /\ reply' = reply
    BY DEF CallInv, BookInv, ScanLevel, book
  <1>2. PICK p \in Price :
            /\ CountsTowardFill(p) /\ cursor' = p
            /\ accumulated' = Add64(accumulated, levels[OppositeSide(taker.side)][p].total_qty)
    BY DEF ScanLevel
  <1>3. PICK sum : sum = accumulated'
    OBVIOUS
  <1>4. PICK K : K = {k \in Occupied(arena) :
                        /\ arena[k].order.side = OppositeSide(taker.side)
                        /\ ~Better(OppositeSide(taker.side), p, arena[k].order.price)}
    OBVIOUS
  <1>5. /\ sum = Left(arena, K)
        /\ sum <= Reachable(taker)
        /\ taker.price # None => WithinLimit(taker.side, taker.price, p)
    BY <1>1, <1>2, <1>3, <1>4, ScanCounts
  <1>6. /\ taker \in NewOrder /\ taker.tif = "FOK" /\ taker.id \in OrderId
        /\ taker.remaining_qty \in Nat /\ taker.qty = taker.remaining_qty
        /\ events = <<Accepted(taker.id)>>
    <2>1. taker \in NewOrder /\ taker.tif = "FOK" /\ events = <<Accepted(taker.id)>>
      BY <1>1 DEF Scanning
    <2>2. taker.qty = taker.remaining_qty
      BY <2>1 DEF NewOrder
    <2> QED
      BY <1>1, <2>1, <2>2, TakerTypes
  <1>7. p # None
    BY <1>2, OrdersAssumption
  <1>8. pc' = IF sum >= taker.remaining_qty THEN "match" ELSE "scan"
    BY <1>3 DEF ScanLevel
  <1>9. sum \in Nat
    <2>1. K \in SUBSET Occupied(arena)
      BY <1>4
    <2> QED
      BY <1>1, <1>5, <2>1, LiveCountable, LeftNat
  <1>10. Reachable(taker)' = Reachable(taker)
    BY <1>1 DEF Reachable, Outstanding, Occupied
  <1>11. AtRest'
    BY <1>1, <1>8 DEF AtRest
  <1>12. Scanning'
    <2>1. Counted' = K
      BY <1>1, <1>2, <1>4, <1>7 DEF Counted, Occupied
    <2>2. Outstanding(Counted)' = Left(arena, K)
      BY <1>1, <2>1 DEF Outstanding, Left
    <2>3. pc' = "scan" => sum < taker.remaining_qty
      BY <1>6, <1>8, <1>9
    <2> QED
      BY <1>1, <1>2, <1>3, <1>5, <1>6, <2>2, <2>3 DEF Scanning
  <1>13. Matching'
    <2>1. /\ Traded(events) = 0 /\ Rested(events) = 0
          /\ events # << >> /\ events[1] = Accepted(taker.id)
      BY <1>6, JustAccepted
    <2>2. Traded(events)' = Traded(events) /\ Rested(events)' = Rested(events)
      BY <1>1 DEF Traded, Rested
    <2>3. pc' = "match" => taker.remaining_qty <= Reachable(taker)
      <3>1. Reachable(taker) \in Nat
        BY <1>1, ReachableIs, LeftNat
      <3> QED
        BY <1>5, <1>6, <1>8, <1>9, <3>1
    <2> QED
      BY <1>1, <1>6, <1>10, <2>1, <2>2, <2>3 DEF Matching
  <1> QED
    BY <1>8, <1>11, <1>12, <1>13 DEF Conduct, FokAllOrNothing, ReplyAccountsForOrder

(* A kill is pronounced over too little in reach, and before any trade.    *)
LEMMA ConductOfKill ==
    ASSUME CallInv, Kill
    PROVE  Conduct'
  <1>1. TypeInv /\ ShapeInv /\ Scanning /\ arena' = arena /\ taker' = taker
    BY DEF CallInv, BookInv, Kill, book
  <1>2. Reachable(taker) < taker.qty /\ taker.remaining_qty = taker.qty
    BY <1>1, KillFalls
  <1>3. Reachable(taker)' = Reachable(taker)
    BY <1>1 DEF Reachable, Outstanding, Occupied
  <1>4. pc' = "done" /\ reply'.ok = FALSE /\ accumulated' = 0 /\ cursor' = None /\ events' = << >>
    BY DEF Kill, Returns, ErrReply
  <1> QED
    BY <1>1, <1>2, <1>3, <1>4
    DEF Conduct, AtRest, Scanning, Matching, FokAllOrNothing, ReplyAccountsForOrder

(* A trade is reported for what it takes.                                  *)
LEMMA ConductOfMatch ==
    ASSUME CallInv, Match
    PROVE  Conduct'
  <1>1. /\ TypeInv /\ ShapeInv /\ Matching /\ AtRest
        /\ pc = "match" /\ pc' = "match" /\ reply' = reply
    BY DEF CallInv, BookInv, Match
  <1>2. PICK p \in Price, h \in NodeId, fill \in Nat : Takes(p, h, fill)
    BY <1>1, MatchTakes
  <1>3. PICK rem, e : rem = taker.remaining_qty /\ e = Trade(arena[h].order.id, taker, p, fill)
    OBVIOUS
  <1>4. /\ taker \in Order /\ rem \in Nat /\ Live(h) /\ fill \in Word
        /\ fill <= rem
        /\ taker' = [taker EXCEPT !.remaining_qty = rem - fill]
        /\ events' = Append(events, e)
    <2>1. /\ taker \in Order /\ rem \in Nat /\ Live(h) /\ fill \in Word
          /\ Rem(h) \in Nat /\ fill = Least(Rem(h), rem)
          /\ taker' = [taker EXCEPT !.remaining_qty = rem - fill]
          /\ events' = Append(events, e)
      BY <1>2, <1>3 DEF Takes
    <2> QED
      BY <2>1 DEF Least
  <1>5. /\ taker'.remaining_qty = rem - fill /\ taker'.tif = taker.tif
        /\ taker'.id = taker.id /\ taker'.qty = taker.qty
    BY <1>4 DEF Order
  <1>6. e \in BookEvent /\ e.kind = "Trade" /\ e.qty = fill
    <2>1. arena[h].order.id \in OrderId
      BY <1>1, <1>4 DEF TypeInv, TypeOK, BookTypeOK, Arena, OrderNode, Live, Order
    <2>2. e \in BookEvent
      BY <1>3, <1>4, <2>1, ReplyType
    <2> QED
      BY <1>3, <2>2 DEF Trade
  <1>7. events \in Seq(BookEvent) /\ events # << >> /\ events[1] = Accepted(taker.id)
    BY <1>1 DEF Matching, TypeInv, TypeOK
  <1>8. events' # << >> /\ events'[1] = events[1]
    BY <1>4, <1>6, <1>7
  <1>9. /\ Traded(events') = Traded(events) + fill /\ Traded(events) \in Nat
        /\ Rested(events') = Rested(events) + 0 /\ Rested(events) \in Nat
    <2>1. /\ Traded(Append(events, e)) =
                Traded(events) + (IF e.kind = "Trade" THEN e.qty ELSE 0)
          /\ Rested(Append(events, e)) =
                Rested(events) + (IF e.kind = "RestingOnBook" THEN e.remaining_qty ELSE 0)
          /\ Traded(events) \in Nat /\ Rested(events) \in Nat
      BY <1>6, <1>7, EventAppended
    <2> QED
      BY <1>4, <1>6, <2>1
  <1>10. Traded(events)' = Traded(events') /\ Rested(events)' = Rested(events')
    BY DEF Traded, Rested
  <1>11. Matching'
    <2>1. taker'.tif = "FOK" => taker'.remaining_qty <= Reachable(taker)'
      BY <1>1, MatchStaysCovered DEF Matching
    <2>2. Traded(events) + rem = taker.qty /\ Rested(events) = 0
      BY <1>1, <1>3 DEF Matching
    <2>3. Traded(events') + (rem - fill) = taker.qty /\ Rested(events') = 0
      BY <1>4, <1>9, <2>2
    <2> QED
      BY <1>5, <1>7, <1>8, <1>10, <2>1, <2>3 DEF Matching
  <1> QED
    BY <1>1, <1>11 DEF Conduct, AtRest, Scanning, FokAllOrNothing, ReplyAccountsForOrder

LEMMA ConductOfFilled ==
    ASSUME CallInv, Filled
    PROVE  Conduct'
  <1>1. /\ TypeInv /\ Matching /\ pc = "match" /\ taker' = taker /\ arena' = arena
        /\ order_index' = order_index /\ taker.remaining_qty = 0
    BY DEF CallInv, BookInv, Filled, book
  <1>2. pc' = "done" /\ accumulated' = 0 /\ cursor' = None /\ events' = << >>
    BY DEF Filled, Returns
  <1>3. reply'.ok = TRUE /\ reply'.events = events /\ reply'.error = "none"
    BY DEF Filled, Returns, OkReply
  <1>4. AtRest' /\ Scanning' /\ Matching' /\ FokAllOrNothing'
    BY <1>1, <1>2, <1>3 DEF AtRest, Scanning, Matching, FokAllOrNothing
  <1>5. ReplyAccountsForOrder'
    <2>1. /\ events[1] = Accepted(taker.id) /\ Rested(events) = 0
          /\ Traded(events) + taker.remaining_qty = taker.qty
      BY <1>1 DEF Matching
    <2>2. ~IsResting(taker.id)
      BY <1>1 DEF IsResting, CallInv, IndexInv, TakerUnindexed
    <2>3. IsResting(taker.id)' <=> IsResting(taker.id)
      BY <1>1 DEF IsResting
    <2>4. Traded(events) \in Nat
      <3>1. events \in Seq(BookEvent) /\ taker.id \in OrderId
        BY <1>1, TakerTypes
      <3> QED
        BY <3>1, ReplyType, EventAppended
    <2>5. taker.qty - Traded(events) = 0
      BY <1>1, <2>1, <2>4
    <2>6. /\ Traded(reply.events)' = Traded(events) /\ Rested(reply.events)' = Rested(events)
      BY <1>3 DEF Traded, Rested
    <2> QED
      BY <1>1, <1>3, <2>1, <2>2, <2>3, <2>5, <2>6 DEF ReplyAccountsForOrder
  <1> QED
    BY <1>4, <1>5 DEF Conduct

(* What does not trade any more rests, and is announced as resting.        *)
LEMMA ConductOfRest ==
    ASSUME CallInv, TotalsFit, Rest
    PROVE  Conduct'
  <1>1. /\ TypeInv /\ Matching /\ pc = "match" /\ taker' = taker
        /\ taker.remaining_qty > 0 /\ taker.tif = "GTC"
    BY DEF CallInv, BookInv, Rest
  <1>2. pc' = "done" /\ accumulated' = 0 /\ cursor' = None /\ events' = << >>
    BY DEF Rest, Returns
  <1>3. PICK e, es : e = RestingOnBook(taker.id, taker.price, taker.remaining_qty) /\ es = events
    OBVIOUS
  <1>4. reply'.ok = TRUE /\ reply'.events = Append(es, e) /\ reply'.error = "none"
    BY <1>3 DEF Rest, Returns, OkReply
  <1>5. AtRest' /\ Scanning' /\ Matching' /\ FokAllOrNothing'
    BY <1>1, <1>2, <1>4 DEF AtRest, Scanning, Matching, FokAllOrNothing
  <1>6. PICK key \in NodeId :
            Adds(key, taker) /\ order_index' = [order_index EXCEPT ![taker.id] = key]
    BY <1>1, RestAdds
  <1>7. /\ taker.id \in OrderId /\ taker.price \in Price /\ taker.remaining_qty \in Word
        /\ taker.remaining_qty \in Nat /\ taker.qty \in Nat /\ es \in Seq(BookEvent)
    <2>1. taker \in Order /\ taker.price \in Price
      BY <1>1, RestAdds
    <2> QED
      BY <1>1, <1>3, <2>1, TakerTypes DEF Order
  <1>8. e \in BookEvent /\ e.kind = "RestingOnBook" /\ e.remaining_qty = taker.remaining_qty
    BY <1>3, <1>7, ReplyType DEF RestingOnBook
  <1>9. es[1] = Accepted(taker.id) /\ es # << >>
        /\ Rested(es) = 0 /\ Traded(es) + taker.remaining_qty = taker.qty
    BY <1>1, <1>3 DEF Matching
  <1>10. /\ Traded(Append(es, e)) = Traded(es) + 0 /\ Traded(es) \in Nat
         /\ Rested(Append(es, e)) = Rested(es) + taker.remaining_qty
    <2>1. /\ Traded(Append(es, e)) = Traded(es) + (IF e.kind = "Trade" THEN e.qty ELSE 0)
          /\ Rested(Append(es, e)) =
                Rested(es) + (IF e.kind = "RestingOnBook" THEN e.remaining_qty ELSE 0)
          /\ Traded(es) \in Nat /\ Rested(es) \in Nat
      BY <1>7, <1>8, EventAppended
    <2> QED
      BY <1>8, <2>1
  <1>11. IsResting(taker.id)'
    <2>1. order_index'[taker.id] = key /\ arena'[key] # None /\ key # None
      BY <1>6, <1>7, PriceLevelAssumption DEF CallInv, BookInv, TypeInv, TypeOK, BookTypeOK, Adds, Live
    <2> QED
      BY <1>1, <2>1 DEF IsResting
  <1>12. ReplyAccountsForOrder'
    <2>1. Append(es, e)[1] = Accepted(taker.id)
      BY <1>7, <1>8, <1>9
    <2>2. /\ taker.qty - Traded(Append(es, e)) = taker.remaining_qty
          /\ Rested(Append(es, e)) = taker.remaining_qty
      BY <1>7, <1>9, <1>10
    <2>3. /\ Traded(reply.events)' = Traded(Append(es, e))
          /\ Rested(reply.events)' = Rested(Append(es, e))
      BY <1>4 DEF Traded, Rested
    <2> QED
      BY <1>1, <1>4, <1>11, <2>1, <2>2, <2>3 DEF ReplyAccountsForOrder
  <1> QED
    BY <1>5, <1>12 DEF Conduct

(* Only an IOC order comes to have something given back: a fill-or-kill    *)
(* order in the loop is never left with a remainder.                       *)
LEMMA ConductOfDiscard ==
    ASSUME CallInv, Discard
    PROVE  Conduct'
  <1>1. /\ TypeInv /\ ShapeInv /\ Matching /\ pc = "match" /\ taker' = taker /\ arena' = arena
        /\ order_index' = order_index
        /\ taker.remaining_qty > 0 /\ taker.tif # "GTC" /\ ~LoopContinues
    BY DEF CallInv, BookInv, Discard, book
  <1>2. pc' = "done" /\ accumulated' = 0 /\ cursor' = None /\ events' = << >>
    BY DEF Discard, Returns
  <1>3. PICK e, es : e = Cancelled(taker.id) /\ es = events
    OBVIOUS
  <1>4. taker.tif = "IOC"
    <2>1. taker.tif # "FOK"
      BY <1>1, ReachIsBest DEF Matching
    <2>2. taker.tif \in TimeInForce
      BY <1>1, TakerTypes DEF Order
    <2> QED
      BY <1>1, <2>1, <2>2 DEF TimeInForce
  <1>5. reply'.ok = TRUE /\ reply'.events = Append(es, e) /\ reply'.error = "none"
    BY <1>3, <1>4 DEF Discard, Returns, OkReply
  <1>6. AtRest' /\ Scanning' /\ Matching' /\ FokAllOrNothing'
    BY <1>1, <1>2, <1>4 DEF AtRest, Scanning, Matching, FokAllOrNothing
  <1>7. /\ taker.id \in OrderId
        /\ taker.remaining_qty \in Nat /\ taker.qty \in Nat /\ es \in Seq(BookEvent)
    BY <1>1, <1>3, TakerTypes
  <1>8. e \in BookEvent /\ e.kind = "Cancelled"
    BY <1>3, <1>7, ReplyType DEF Cancelled
  <1>9. es[1] = Accepted(taker.id) /\ es # << >>
        /\ Rested(es) = 0 /\ Traded(es) + taker.remaining_qty = taker.qty
    BY <1>1, <1>3 DEF Matching
  <1>10. /\ Traded(Append(es, e)) = Traded(es) + 0 /\ Traded(es) \in Nat
         /\ Rested(Append(es, e)) = 0
    <2>1. /\ Traded(Append(es, e)) = Traded(es) + (IF e.kind = "Trade" THEN e.qty ELSE 0)
          /\ Rested(Append(es, e)) =
                Rested(es) + (IF e.kind = "RestingOnBook" THEN e.remaining_qty ELSE 0)
          /\ Traded(es) \in Nat /\ Rested(es) \in Nat
      BY <1>7, <1>8, EventAppended
    <2> QED
      BY <1>8, <1>9, <2>1
  <1>11. ~IsResting(taker.id)'
    <2>1. ~IsResting(taker.id)
      BY <1>1 DEF IsResting, CallInv, IndexInv, TakerUnindexed
    <2> QED
      BY <1>1, <2>1 DEF IsResting
  <1>12. ReplyAccountsForOrder'
    <2>1. /\ Append(es, e)[1] = Accepted(taker.id)
          /\ Append(es, e)[Len(Append(es, e))] = Cancelled(taker.id)
      BY <1>3, <1>7, <1>8, <1>9
    <2>2. /\ taker.qty - Traded(Append(es, e)) = taker.remaining_qty
          /\ Rested(Append(es, e)) = 0
      BY <1>7, <1>9, <1>10
    <2>3. /\ Traded(reply.events)' = Traded(Append(es, e))
          /\ Rested(reply.events)' = Rested(Append(es, e))
      BY <1>5 DEF Traded, Rested
    <2> QED
      BY <1>1, <1>5, <1>11, <2>1, <2>2, <2>3 DEF ReplyAccountsForOrder
  <1> QED
    BY <1>6, <1>12 DEF Conduct

LEMMA CallInvNext == CallInv /\ TotalsFit /\ ScanFits /\ [Next]_vars => CallInv'
  <1> SUFFICES ASSUME CallInv, TotalsFit, ScanFits, [Next]_vars
               PROVE  Conduct'
    BY BookInvNext, IndexInvNext DEF CallInv, Conduct
  <1>1. ASSUME NEW order \in NewOrder, Refuse(order) \/ Admit(order) PROVE Conduct'
    BY <1>1, ConductOfRefuse, ConductOfAdmit
  <1>2. CASE ScanLevel \/ Kill
    BY <1>2, ConductOfScan, ConductOfKill
  <1>3. CASE Match
    BY <1>3, ConductOfMatch
  <1>4. CASE Filled \/ Rest \/ Discard
    BY <1>4, ConductOfFilled, ConductOfRest, ConductOfDiscard
  <1>5. ASSUME NEW id \in OrderId, Cancel(id) \/ CancelUnknown(id) PROVE Conduct'
    <2>1. taker' = None
      BY <1>5 DEF Cancel, CancelUnknown, CallInv, AtRest
    <2>2. \E r : Returns(r)
      BY <1>5 DEF Cancel, CancelUnknown
    <2> QED
      BY <2>1, <2>2, ConductOfCancel
  <1>6. ASSUME NEW id \in OrderId PROVE ~CancelPanics(id)
    BY ShapeNoPanic DEF CancelPanics, CallInv, BookInv
  <1>7. CASE TakeReply
    BY <1>7, ConductAtIdle DEF TakeReply, CallInv, AtRest
  <1>8. CASE UNCHANGED vars
    <2>1. /\ arena' = arena /\ order_index' = order_index /\ pc' = pc /\ taker' = taker
          /\ accumulated' = accumulated /\ cursor' = cursor /\ events' = events /\ reply' = reply
      BY <1>8 DEF vars
    <2>2. /\ Reachable(taker)' = Reachable(taker)
          /\ Outstanding(Counted)' = Outstanding(Counted)
          /\ Traded(events)' = Traded(events) /\ Rested(events)' = Rested(events)
          /\ Traded(reply.events)' = Traded(reply.events)
          /\ Rested(reply.events)' = Rested(reply.events)
          /\ IsResting(taker.id)' <=> IsResting(taker.id)
      BY <2>1 DEF Reachable, Outstanding, Occupied, Counted, Traded, Rested, IsResting
    <2>3. AtRest' /\ Scanning' /\ Matching'
      BY <2>1, <2>2 DEF CallInv, AtRest, Scanning, Matching
    <2>4. FokAllOrNothing' /\ ReplyAccountsForOrder'
      BY <2>1, <2>2 DEF CallInv, FokAllOrNothing, ReplyAccountsForOrder
    <2> QED
      BY <2>3, <2>4 DEF Conduct
  <1> QED
    BY <1>1, <1>2, <1>3, <1>4, <1>5, <1>6, <1>7, <1>8 DEF Next, Submit, Work, CancelOrder

(* can_fully_fill's promise is kept: a fill-or-kill order that is accepted  *)
(* is filled to the last unit, and one that is killed has traded nothing   *)
(* and could not have been filled from what its price reaches. The sums of *)
(* the scan and of the levels must each fit a word.                        *)
THEOREM FillOrKill == Spec /\ []TotalsFit /\ []ScanFits => []FokAllOrNothing
  <1>1. CallInv => FokAllOrNothing
    BY DEF CallInv
  <1> QED
    BY <1>1, CallInvInit, CallInvNext, PTL DEF Spec

(* submit_order's reply accounts for every unit of the order: traded,      *)
(* resting under its id, or given back by Cancelled.                       *)
THEOREM RepliesAccount == Spec /\ []TotalsFit /\ []ScanFits => []ReplyAccountsForOrder
  <1>1. CallInv => ReplyAccountsForOrder
    BY DEF CallInv
  <1> QED
    BY <1>1, CallInvInit, CallInvNext, PTL DEF Spec

-----------------------------------------------------------------------------
(* When sums fit. Every order asks for at most `most`, and as much for each *)
(* of the slab's keys and for the incoming order is less than a word.      *)
Ample(most) ==
    /\ \A q \in Qty : q <= most
    /\ most * (Cardinality(NodeId) + 1) < WordSize

Modest(most) ==
    /\ \A k \in Occupied(arena) : Rem(k) <= most
    /\ pc \in {"scan", "match"} => taker.remaining_qty <= most

LEMMA ModestSums ==
    ASSUME TypeInv, NEW most \in Nat, Modest(most), NEW K \in SUBSET Occupied(arena)
    PROVE  /\ Left(arena, K) \in Nat
           /\ Left(arena, K) <= most * Cardinality(NodeId)
           /\ most * (Cardinality(NodeId) + 1) = most * Cardinality(NodeId) + most
  <1>1. PICK f : f = [k \in K |-> arena[k].order.remaining_qty]
    OBVIOUS
  <1>2. /\ IsFiniteSet(K) /\ Countable(arena, K) /\ K \in SUBSET NodeId
        /\ \A k \in K : f[k] \in Nat /\ f[k] <= most
    <2>1. IsFiniteSet(K) /\ Countable(arena, K) /\ K \in SUBSET NodeId
      BY LiveCountable
    <2> QED
      BY <1>1, <2>1 DEF Countable, Modest, Rem
  <1>3. Left(arena, K) = SumFunctionOnSet(f, K)
    BY <1>1, <1>2, LeftIs
  <1>4. Left(arena, K) <= most * Cardinality(K) /\ Left(arena, K) \in Nat
    BY <1>2, <1>3, SumAtMost, LeftNat
  <1>5. PICK c \in Nat, n \in Nat : c = Cardinality(K) /\ n = Cardinality(NodeId) /\ c <= n
    BY <1>2, SlabAssumption, FS_Subset, FS_CardinalityType
  <1>6. most * c <= most * n /\ most * c \in Nat /\ most * n \in Nat
        /\ most * (n + 1) = most * n + most
    <2>1. PICK d \in Nat : n = c + d
      <3>1. n - c \in Nat /\ n = c + (n - c)
        BY <1>5
      <3> QED
        BY <3>1
    <2>2. most * (c + d) = most * c + most * d /\ most * d \in Nat /\ most * c \in Nat
      OBVIOUS
    <2> QED
      BY <2>1, <2>2
  <1> QED
    BY <1>4, <1>5, <1>6

LEMMA ModestFits ==
    ASSUME CallInv, NEW most \in Nat, Ample(most), Modest(most)
    PROVE  TotalsFit /\ ScanFits
  <1> USE DEF CallInv, BookInv
  <1>1. PICK room \in Nat : room = most * Cardinality(NodeId) /\ room + most < WordSize
    <2>1. Cardinality(NodeId) \in Nat
      BY SlabAssumption, FS_CardinalityType
    <2>2. most * Cardinality(NodeId) \in Nat
          /\ most * (Cardinality(NodeId) + 1) = most * Cardinality(NodeId) + most
      BY <2>1
    <2> QED
      BY <2>2 DEF Ample
  <1>2. \A K \in SUBSET Occupied(arena) : Left(arena, K) \in Nat /\ Left(arena, K) <= room
    BY <1>1, ModestSums
  <1>3. TotalsFit
    <2>1. SUFFICES ASSUME pc = "match", taker.tif = "GTC"
                   PROVE  LevelAt(taker.side, taker.price).total_qty + taker.remaining_qty
                            < WordSize
      BY DEF TotalsFit
    <2>2. /\ taker.side \in Side /\ taker.price \in Price
          /\ taker.remaining_qty \in Nat /\ taker.remaining_qty <= most
      BY <2>1, TakerTypes DEF Modest
    <2>3. LevelAt(taker.side, taker.price).total_qty
            = Left(arena, Members(taker.side, taker.price))
      BY <2>2, ShapeTotals DEF TotalQtyExact, Outstanding, Left
    <2>4. Members(taker.side, taker.price) \in SUBSET Occupied(arena)
      BY DEF Members
    <2>5. PICK total \in Nat : total = LevelAt(taker.side, taker.price).total_qty /\ total <= room
      BY <1>2, <2>3, <2>4
    <2> QED
      BY <1>1, <2>2, <2>5, OrdersAssumption
  <1>4. ScanFits
    <2>1. SUFFICES ASSUME pc = "scan", NEW p \in Price, CountsTowardFill(p)
                   PROVE  accumulated + levels[OppositeSide(taker.side)][p].total_qty < WordSize
      BY DEF ScanFits
    <2>2. PICK K : K = {k \in Occupied(arena) :
                        /\ arena[k].order.side = OppositeSide(taker.side)
                        /\ ~Better(OppositeSide(taker.side), p, arena[k].order.price)}
      OBVIOUS
    <2>3. /\ accumulated + levels[OppositeSide(taker.side)][p].total_qty = Left(arena, K)
          /\ K \in SUBSET Occupied(arena)
      BY <2>1, <2>2, ScanReaches
    <2>4. PICK total \in Nat : total = Left(arena, K) /\ total <= room
      BY <1>2, <2>3
    <2>5. total < WordSize
      BY <1>1, <2>4, OrdersAssumption
    <2> QED
      BY <2>3, <2>4, <2>5
  <1> QED
    BY <1>3, <1>4

(* Orders are never topped up: quantities only shrink as they trade.       *)
LEMMA ModestNext ==
    ASSUME CallInv, TotalsFit, [Next]_vars, NEW most \in Nat, Ample(most), Modest(most)
    PROVE  Modest(most)'
  <1> USE DEF CallInv, BookInv
  <1>0. ASSUME UNCHANGED arena PROVE \A k \in Occupied(arena)' : Rem(k)' <= most
    BY <1>0 DEF Occupied, Rem, Modest
  <1>1. ASSUME NEW order \in NewOrder, Refuse(order) \/ Admit(order) PROVE Modest(most)'
    <2>1. order.remaining_qty <= most
      BY DEF NewOrder, Ample
    <2> QED
      BY <1>0, <1>1, <2>1 DEF Refuse, Admit, Returns, book, Modest
  <1>2. CASE ScanLevel \/ Kill \/ Filled \/ Discard \/ TakeReply
    BY <1>0, <1>2 DEF ScanLevel, Kill, Filled, Discard, TakeReply, Returns, book, Modest
  <1>3. CASE Match
    <2>1. PICK p \in Price, h \in NodeId, fill \in Nat : Takes(p, h, fill)
      BY <1>3, MatchTakes
    <2>2. PICK rem : rem = taker.remaining_qty
      OBVIOUS
    <2>3. /\ taker \in Order /\ rem \in Nat /\ Live(h) /\ Rem(h) \in Nat
          /\ taker' = [taker EXCEPT !.remaining_qty = rem - fill]
          /\ fill = Least(Rem(h), rem)
          /\ Live(h)' => arena'[h].order = [arena[h].order EXCEPT !.remaining_qty = Rem(h) - fill]
          /\ \A k \in NodeId \ {h} :
                /\ Live(k)' <=> Live(k)
                /\ Live(k) => arena'[k].order = arena[k].order
      BY <2>1, <2>2 DEF Takes
    <2>4. fill <= rem /\ fill <= Rem(h)
      BY <2>3 DEF Least
    <2>5. taker'.remaining_qty = rem - fill /\ rem <= most
      BY <1>3, <2>2, <2>3 DEF Order, Modest, Match
    <2>6. ASSUME NEW k \in NodeId, Live(k)' PROVE Rem(k)' <= most
      <3>1. CASE k = h
        <4>1. arena[h].order \in Order
          BY <2>3 DEF TypeInv, TypeOK, BookTypeOK, Arena, OrderNode, Live
        <4>2. arena'[h].order.remaining_qty = Rem(h) - fill
          BY <2>3, <2>6, <3>1, <4>1 DEF Order
        <4>3. Rem(h) <= most
          BY <2>3 DEF Modest, Occupied, Live
        <4> QED
          BY <2>3, <2>4, <3>1, <4>2, <4>3 DEF Rem
      <3>2. CASE k # h
        BY <2>3, <2>6, <3>2 DEF Modest, Occupied, Live, Rem
      <3> QED
        BY <3>1, <3>2
    <2>7. taker'.remaining_qty <= most
      BY <2>3, <2>4, <2>5
    <2> QED
      BY <2>6, <2>7 DEF Modest, Occupied, Live
  <1>4. CASE Rest
    <2>1. PICK key \in NodeId : Adds(key, taker)
      BY <1>4, RestAdds
    <2>2. taker.remaining_qty <= most
      BY <1>4 DEF Modest, Rest
    <2>3. ASSUME NEW k \in NodeId, Live(k)' PROVE Rem(k)' <= most
      BY <2>1, <2>2, <2>3 DEF Adds, Modest, Occupied, Live, Rem
    <2> QED
      BY <1>4, <2>3 DEF Rest, Returns, Modest, Occupied, Live
  <1>5. ASSUME NEW id \in OrderId, Cancel(id) PROVE Modest(most)'
    <2>1. PICK key \in NodeId : Unlinks(key)
      BY <1>5, CancelUnlinks
    <2>2. ASSUME NEW k \in NodeId, Live(k)' PROVE Rem(k)' <= most
      BY <2>1, <2>2 DEF Unlinks, Modest, Occupied, Live, Rem
    <2> QED
      BY <1>5, <2>2 DEF Cancel, Returns, Modest, Occupied, Live
  <1>6. ASSUME NEW id \in OrderId, CancelUnknown(id) \/ CancelPanics(id) PROVE Modest(most)'
    BY <1>0, <1>6 DEF CancelUnknown, CancelPanics, Returns, book, Modest
  <1>7. CASE UNCHANGED vars
    BY <1>0, <1>7 DEF vars, Modest
  <1> QED
    BY <1>1, <1>2, <1>3, <1>4, <1>5, <1>6, <1>7 DEF Next, Submit, Work, CancelOrder

(* A book of honest quantities never comes near the size of a word: the    *)
(* additions of push_back and can_fully_fill, which nothing in the code    *)
(* checks, do not wrap, and every theorem that supposes so holds of it.    *)
THEOREM AmpleWordsSuffice ==
    ASSUME NEW most \in Nat, Ample(most)
    PROVE  Spec => [](TotalsFit /\ ScanFits)
  <1>1. Init => CallInv /\ Modest(most)
    BY CallInvInit DEF Init, BookInit, EmptyArena, Occupied, Modest
  <1>2. CallInv /\ Modest(most) => TotalsFit /\ ScanFits
    BY ModestFits
  <1>3. CallInv /\ Modest(most) /\ [Next]_vars => CallInv' /\ Modest(most)'
    BY <1>2, CallInvNext, ModestNext
  <1> QED
    BY <1>1, <1>2, <1>3, PTL DEF Spec
=============================================================================
