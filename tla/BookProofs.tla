----------------------------- MODULE BookProofs -----------------------------
(***************************************************************************)
(* The shape of the book, for every value of the constants, as long as no  *)
(* level's total wraps. A level knows only its two ends and a sum, so that *)
(* an empty total means an empty level is a fact about all the orders of   *)
(* the list. It is made local by a witness: for each stored order, the     *)
(* quantity queued ahead of it in its level.                               *)
(***************************************************************************)
EXTENDS EngineProofs, FiniteSums

Live(k) == arena[k] # None
Rem(k) == arena[k].order.remaining_qty
InLevel(k, s, p) == arena[k].order.side = s /\ arena[k].order.price = p
LevelOf(k) == levels[arena[k].order.side][arena[k].order.price]
SameLevel(j, k) == InLevel(j, arena[k].order.side, arena[k].order.price)

(* Every stored order has something left and a level to be in.             *)
Filed ==
    \A k \in NodeId : Live(k) =>
        arena[k].order.price \in Price /\ LevelOf(k) # None /\ Rem(k) > 0

(* The ends of a level are orders of that level.                           *)
Ends ==
    \A s \in Side, p \in Price : levels[s][p] # None =>
        /\ levels[s][p].head \in NodeId /\ Live(levels[s][p].head)
        /\ InLevel(levels[s][p].head, s, p) /\ arena[levels[s][p].head].prev = None
        /\ levels[s][p].tail \in NodeId /\ Live(levels[s][p].tail)
        /\ InLevel(levels[s][p].tail, s, p) /\ arena[levels[s][p].tail].next = None

(* Neighbours link to each other, and an order without one is an end.      *)
Links ==
    \A k \in NodeId : Live(k) =>
        /\ arena[k].prev = None => LevelOf(k).head = k
        /\ arena[k].prev # None =>
            LET j == arena[k].prev
            IN  Live(j) /\ SameLevel(j, k) /\ arena[j].next = k
        /\ arena[k].next = None => LevelOf(k).tail = k
        /\ arena[k].next # None =>
            LET j == arena[k].next
            IN  Live(j) /\ SameLevel(j, k) /\ arena[j].prev = k

(* ahead[k] is what is queued before k: none at the head, each link adds   *)
(* one order's quantity, the tail reaches the level's total, and the       *)
(* stretches of two orders of a level do not overlap.                      *)
Measures(ahead) ==
    /\ ahead \in [NodeId -> Nat]
    /\ \A k \in NodeId : Live(k) =>
        /\ arena[k].prev = None => ahead[k] = 0
        /\ arena[k].prev # None => ahead[k] = ahead[arena[k].prev] + Rem(arena[k].prev)
        /\ arena[k].next = None => ahead[k] + Rem(k) = LevelOf(k).total_qty
        /\ ahead[k] + Rem(k) <= LevelOf(k).total_qty
    /\ \A j, k \in NodeId :
        Live(j) /\ Live(k) /\ j # k /\ SameLevel(j, k) =>
            ahead[j] + Rem(j) <= ahead[k] \/ ahead[k] + Rem(k) <= ahead[j]

Shape(ahead) == Filed /\ Ends /\ Links /\ Measures(ahead)

ShapeInv == \E ahead : Shape(ahead)

-----------------------------------------------------------------------------
(* Unlinking an order, by a cancel or because a trade used it up.          *)

(* The level of k without the order stored under k.                        *)
Without(level, a, k) ==
    [head |-> IF a[k].prev = None THEN a[k].next ELSE level.head,
     tail |-> IF a[k].next = None THEN a[k].prev ELSE level.tail,
     total_qty |-> level.total_qty - a[k].order.remaining_qty]

Unlinks(k) ==
    LET s == arena[k].order.side
        p == arena[k].order.price
        rest == Without(levels[s][p], arena, k)
    IN  /\ ~Live(k)'
        /\ \A j \in NodeId \ {k} :
            /\ Live(j)' <=> Live(j)
            /\ Live(j) =>
                /\ arena'[j].order = arena[j].order
                /\ arena'[j].next = IF j = arena[k].prev THEN arena[k].next ELSE arena[j].next
                /\ arena'[j].prev = IF j = arena[k].next THEN arena[k].prev ELSE arena[j].prev
        /\ levels' = [levels EXCEPT ![s][p] = IF rest.total_qty = 0 THEN None ELSE rest]

(* The types of what one stored order leads to.                            *)
LEMMA NodeTypes ==
    ASSUME TypeInv, Filed, NEW k \in NodeId, Live(k)
    PROVE  /\ arena[k].order \in Order
           /\ arena[k].order.side \in Side /\ arena[k].order.price \in Price
           /\ arena[k].prev \in NodeId \cup {None} /\ arena[k].next \in NodeId \cup {None}
           /\ Rem(k) \in Nat /\ Rem(k) \in Word /\ Rem(k) > 0
           /\ LevelOf(k) \in Level /\ LevelOf(k) # None
           /\ LevelOf(k).total_qty \in Nat /\ LevelOf(k).total_qty \in Word
           /\ LevelOf(k).head \in NodeId \cup {None} /\ LevelOf(k).tail \in NodeId \cup {None}
  <1>1. arena[k] \in OrderNode
    BY DEF TypeInv, TypeOK, BookTypeOK, Arena, Live
  <1>2. /\ arena[k].order \in Order
        /\ arena[k].prev \in NodeId \cup {None} /\ arena[k].next \in NodeId \cup {None}
    BY <1>1 DEF OrderNode
  <1>3. arena[k].order.side \in Side /\ Rem(k) \in Word
    BY <1>2 DEF Order, Rem
  <1>4. arena[k].order.price \in Price /\ LevelOf(k) # None /\ Rem(k) > 0
    BY DEF Filed
  <1>5. LevelOf(k) \in Level
    BY <1>3, <1>4 DEF LevelOf, TypeInv, TypeOK, BookTypeOK
  <1>6. /\ LevelOf(k).total_qty \in Word
        /\ LevelOf(k).head \in NodeId \cup {None} /\ LevelOf(k).tail \in NodeId \cup {None}
    BY <1>5 DEF Level
  <1>7. Rem(k) \in Nat /\ LevelOf(k).total_qty \in Nat
    BY <1>3, <1>6, OrdersAssumption DEF Word
  <1> QED
    BY <1>2, <1>3, <1>4, <1>5, <1>6, <1>7

(* An order of the level lies wholly before or wholly after another, and   *)
(* an order that is all of its level's total is alone in it.               *)
LEMMA BeforeOrAfter ==
    ASSUME TypeInv, NEW ahead, Shape(ahead), NEW k \in NodeId, Live(k),
           NEW j \in NodeId, Live(j), j # k, SameLevel(j, k)
    PROVE  /\ ahead[j] + Rem(j) <= ahead[k] \/ ahead[k] + Rem(k) <= ahead[j]
           /\ LevelOf(j) = LevelOf(k)
           /\ LevelOf(k).total_qty # Rem(k)
           /\ ahead[j] \in Nat /\ ahead[k] \in Nat
  <1>1. ahead[j] + Rem(j) <= ahead[k] \/ ahead[k] + Rem(k) <= ahead[j]
    BY DEF Shape, Measures
  <1>2. LevelOf(j) = LevelOf(k)
    BY DEF SameLevel, InLevel, LevelOf
  <1>3. ahead[k] + Rem(k) <= LevelOf(k).total_qty /\ ahead[j] + Rem(j) <= LevelOf(j).total_qty
    BY DEF Shape, Measures
  <1>4. ahead[j] \in Nat /\ ahead[k] \in Nat
    BY DEF Shape, Measures
  <1>5. Rem(k) \in Nat /\ Rem(j) \in Nat /\ Rem(k) > 0 /\ Rem(j) > 0
        /\ LevelOf(k).total_qty \in Nat
    BY NodeTypes DEF Shape
  <1> QED
    BY <1>1, <1>2, <1>3, <1>4, <1>5

(* The quantity ahead of each order once the one under k has gone.         *)
LEMMA UnlinkShape ==
    ASSUME TypeInv, NEW ahead, Shape(ahead), NEW k \in NodeId, Live(k), Unlinks(k)
    PROVE  ShapeInv'
  <1>0. PICK s, p : s = arena[k].order.side /\ p = arena[k].order.price
    OBVIOUS
  <1> DEFINE level == levels[s][p]
             rest == Without(level, arena, k)
             r == Rem(k)
             prv == arena[k].prev
             nxt == arena[k].next
             Mine(j) == InLevel(j, s, p)
  <1>1. /\ s \in Side /\ p \in Price /\ level \in Level /\ LevelOf(k) = level
        /\ prv \in NodeId \cup {None} /\ nxt \in NodeId \cup {None}
        /\ r \in Nat /\ r > 0 /\ level.total_qty \in Nat
    BY <1>0, NodeTypes DEF Shape, LevelOf
  <1>2. ~Live(k)'
    BY DEF Unlinks
  <1>3. ASSUME NEW j \in NodeId, j # k
        PROVE  /\ Live(j)' <=> Live(j)
               /\ Live(j) =>
                    /\ arena'[j].order = arena[j].order
                    /\ arena'[j].next = IF j = prv THEN nxt ELSE arena[j].next
                    /\ arena'[j].prev = IF j = nxt THEN prv ELSE arena[j].prev
    BY <1>3 DEF Unlinks
  <1>4. levels' = [levels EXCEPT ![s][p] = IF rest.total_qty = 0 THEN None ELSE rest]
    BY <1>0 DEF Unlinks
  <1>5. /\ rest.head = IF prv = None THEN nxt ELSE level.head
        /\ rest.tail = IF nxt = None THEN prv ELSE level.tail
        /\ rest.total_qty = level.total_qty - r
    BY DEF Without, Rem
  <1>6. ahead \in [NodeId -> Nat] /\ ahead[k] + r <= level.total_qty
    BY <1>1 DEF Shape, Measures
  <1>7. rest \in Level /\ rest # None
    <2>1. level.total_qty - r \in Word
      <3>1. level.total_qty \in Word
        BY <1>1 DEF Level
      <3> QED
        BY <1>1, <1>6, <3>1, OrdersAssumption DEF Word
    <2>2. level.head \in NodeId \cup {None} /\ level.tail \in NodeId \cup {None}
      BY <1>1 DEF Level
    <2>3. rest \in Level
      BY <1>1, <2>1, <2>2 DEF Without, Level, Rem
    <2> QED
      BY <2>3, PriceLevelAssumption
  <1>8. /\ \A s2 \in Side, p2 \in Price :
                s2 # s \/ p2 # p => levels'[s2][p2] = levels[s2][p2]
        /\ levels'[s][p] = IF level.total_qty = r THEN None ELSE rest
    <2>1. levels \in [Side -> [Price -> Level \cup {None}]]
      BY DEF TypeInv, TypeOK, BookTypeOK
    <2>2. rest.total_qty = 0 <=> level.total_qty = r
      BY <1>1, <1>5
    <2> HIDE DEF rest, level, r
    <2> QED
      BY <1>1, <1>4, <2>1, <2>2 DEF level
  <1>9. InLevel(k, s, p)
    BY <1>0 DEF InLevel
  <1>10. /\ prv = None => level.head = k /\ ahead[k] = 0
         /\ prv # None =>
                /\ prv \in NodeId /\ Live(prv) /\ Mine(prv) /\ arena[prv].next = k
                /\ ahead[k] = ahead[prv] + Rem(prv)
         /\ nxt = None => level.tail = k /\ ahead[k] + r = level.total_qty
         /\ nxt # None =>
                /\ nxt \in NodeId /\ Live(nxt) /\ Mine(nxt) /\ arena[nxt].prev = k
                /\ ahead[nxt] = ahead[k] + r
    <2>1. /\ prv = None => level.head = k /\ ahead[k] = 0
          /\ prv # None =>
                /\ prv \in NodeId /\ Live(prv) /\ Mine(prv) /\ arena[prv].next = k
                /\ ahead[k] = ahead[prv] + Rem(prv)
      BY <1>0, <1>1 DEF Shape, Links, Measures, SameLevel
    <2>2. /\ nxt = None => level.tail = k /\ ahead[k] + r = level.total_qty
          /\ nxt # None =>
                nxt \in NodeId /\ Live(nxt) /\ Mine(nxt) /\ arena[nxt].prev = k
      BY <1>0, <1>1 DEF Shape, Links, Measures, SameLevel
    <2>3. nxt # None => ahead[nxt] = ahead[k] + r
      BY <2>2, PriceLevelAssumption DEF Shape, Measures
    <2> QED
      BY <2>1, <2>2, <2>3
  <1>11. ASSUME NEW j \in NodeId, j # k, Live(j)
         PROVE  /\ ahead[j] \in Nat /\ Rem(j) \in Nat /\ Rem(j) > 0
                /\ Mine(j) =>
                     /\ ahead[j] + Rem(j) <= ahead[k] \/ ahead[k] + r <= ahead[j]
                     /\ level.total_qty # r
                     /\ LevelOf(j) = level
                     /\ ahead[j] + Rem(j) <= level.total_qty
    <2>1. ahead[j] \in Nat /\ Rem(j) \in Nat /\ Rem(j) > 0
      BY <1>6, <1>11, NodeTypes DEF Shape
    <2>2. ahead[j] + Rem(j) <= LevelOf(j).total_qty
      BY <1>11 DEF Shape, Measures
    <2>3. Mine(j) => SameLevel(j, k)
      BY <1>0 DEF SameLevel
    <2>4. Mine(j) =>
            /\ ahead[j] + Rem(j) <= ahead[k] \/ ahead[k] + r <= ahead[j]
            /\ level.total_qty # r
            /\ LevelOf(j) = level
      BY <1>1, <1>11, <2>3, BeforeOrAfter
    <2> QED
      BY <2>1, <2>2, <2>4
  <1>12. /\ prv # k /\ nxt # k
         /\ prv # None => prv # nxt
    <2>1. None # k
      BY PriceLevelAssumption
    <2>2. prv # k
      <3>1. prv = k => ahead[k] = ahead[k] + r
        BY <1>10, <2>1
      <3> QED
        BY <1>1, <1>6, <3>1
    <2>3. nxt # k
      <3>1. nxt = k => ahead[k] = ahead[k] + r
        BY <1>10, <2>1
      <3> QED
        BY <1>1, <1>6, <3>1
    <2>4. prv # None => prv # nxt
      <3>1. prv # None => Rem(prv) \in Nat /\ ahead[prv] \in Nat
        BY <1>6, <1>10, <1>11, <2>2
      <3>2. prv # None /\ prv = nxt => ahead[prv] = ahead[prv] + Rem(prv) + r
        BY <1>10
      <3> QED
        BY <1>1, <3>1, <3>2
    <2> QED
      BY <2>2, <2>3, <2>4
  <1>13. ASSUME NEW j \in NodeId, j # k, Live(j)
         PROVE  /\ \A s2, p2 : InLevel(j, s2, p2)' <=> InLevel(j, s2, p2)
                /\ Rem(j)' = Rem(j) /\ arena'[j].order = arena[j].order
                /\ arena[j].order.side \in Side /\ arena[j].order.price \in Price
                /\ Mine(j) => LevelOf(j)' = rest
                /\ ~Mine(j) => LevelOf(j)' = LevelOf(j)
    <2>1. arena'[j].order = arena[j].order
      BY <1>3, <1>13
    <2>2. /\ \A s2, p2 : InLevel(j, s2, p2)' <=> InLevel(j, s2, p2)
          /\ Rem(j)' = Rem(j)
      BY <2>1 DEF InLevel, Rem
    <2>3. arena[j].order.side \in Side /\ arena[j].order.price \in Price
      BY <1>13, NodeTypes DEF Shape
    <2>4. LevelOf(j)' = levels'[arena[j].order.side][arena[j].order.price]
      BY <2>1 DEF LevelOf
    <2>5. Mine(j) => LevelOf(j)' = rest
      <3>1. Mine(j) => level.total_qty # r
        BY <1>11, <1>13
      <3>2. Mine(j) => arena[j].order.side = s /\ arena[j].order.price = p
        BY DEF InLevel
      <3> HIDE DEF level, rest, r, Mine
      <3> QED
        BY <1>8, <2>4, <3>1, <3>2
    <2>6. ~Mine(j) => LevelOf(j)' = LevelOf(j)
      <3>1. ~Mine(j) => arena[j].order.side # s \/ arena[j].order.price # p
        BY DEF InLevel
      <3> HIDE DEF level, rest, r, Mine
      <3> QED
        BY <1>8, <2>3, <2>4, <3>1 DEF LevelOf
    <2> QED
      BY <2>1, <2>2, <2>3, <2>5, <2>6
  <1>14. level.total_qty # r => prv # None \/ nxt # None
    BY <1>1, <1>6, <1>10
  <1>15. ASSUME NEW j \in NodeId, Live(j)
         PROVE  /\ arena[j].prev \in NodeId \cup {None} /\ arena[j].next \in NodeId \cup {None}
                /\ arena[j].prev = None => LevelOf(j).head = j /\ ahead[j] = 0
                /\ arena[j].prev # None =>
                        /\ Live(arena[j].prev) /\ SameLevel(arena[j].prev, j)
                        /\ arena[arena[j].prev].next = j
                        /\ ahead[j] = ahead[arena[j].prev] + Rem(arena[j].prev)
                /\ arena[j].next = None =>
                        LevelOf(j).tail = j /\ ahead[j] + Rem(j) = LevelOf(j).total_qty
                /\ arena[j].next # None =>
                        /\ Live(arena[j].next) /\ SameLevel(arena[j].next, j)
                        /\ arena[arena[j].next].prev = j
                /\ ahead[j] + Rem(j) <= LevelOf(j).total_qty
    <2>1. arena[j].prev \in NodeId \cup {None} /\ arena[j].next \in NodeId \cup {None}
      BY <1>15, NodeTypes DEF Shape
    <2>2. /\ arena[j].prev = None => LevelOf(j).head = j
          /\ arena[j].prev # None =>
                        /\ Live(arena[j].prev) /\ SameLevel(arena[j].prev, j)
                        /\ arena[arena[j].prev].next = j
          /\ arena[j].next = None => LevelOf(j).tail = j
          /\ arena[j].next # None =>
                        /\ Live(arena[j].next) /\ SameLevel(arena[j].next, j)
                        /\ arena[arena[j].next].prev = j
      BY <1>15 DEF Shape, Links
    <2>3. /\ arena[j].prev = None => ahead[j] = 0
          /\ arena[j].prev # None => ahead[j] = ahead[arena[j].prev] + Rem(arena[j].prev)
          /\ arena[j].next = None => ahead[j] + Rem(j) = LevelOf(j).total_qty
          /\ ahead[j] + Rem(j) <= LevelOf(j).total_qty
      BY <1>15 DEF Shape, Measures
    <2> QED
      BY <2>1, <2>2, <2>3
  <1>16. \A i, j \in NodeId : SameLevel(i, j) => (Mine(i) <=> Mine(j))
    BY DEF SameLevel, InLevel
  <1>17. ASSUME NEW j \in NodeId, Mine(j), Live(j), j # k
         PROVE  LevelOf(j) = level
    BY <1>11, <1>17
  <1> HIDE DEF level, rest, r, prv, nxt, Mine
  <1>20. Filed'
    <2> SUFFICES ASSUME NEW j \in NodeId, Live(j)'
                 PROVE  (arena'[j].order.price \in Price /\ LevelOf(j)' # None /\ Rem(j)' > 0)
      BY DEF Filed
    <2>1. j # k /\ Live(j)
      BY <1>2, <1>3
    <2>2. LevelOf(j) # None /\ Rem(j) > 0
      BY <2>1 DEF Shape, Filed
    <2> QED
      BY <1>7, <1>13, <2>1, <2>2
  <1>21. Links'
    <2> SUFFICES ASSUME NEW j \in NodeId, Live(j)',
                        NEW x, x = arena'[j].prev, NEW y, y = arena'[j].next
                 PROVE  /\ x = None => LevelOf(j)'.head = j
                        /\ x # None => Live(x)' /\ SameLevel(x, j)' /\ arena'[x].next = j
                        /\ y = None => LevelOf(j)'.tail = j
                        /\ y # None => Live(y)' /\ SameLevel(y, j)' /\ arena'[y].prev = j
      BY DEF Links
    <2>1. j # k /\ Live(j) /\ j # None
      BY <1>2, <1>3, PriceLevelAssumption
    <2>2. ASSUME NEW i \in NodeId, i # k, Live(i), SameLevel(i, j)
          PROVE  Live(i)' /\ SameLevel(i, j)'
      BY <1>3, <1>13, <2>1, <2>2 DEF SameLevel, InLevel
    <2>3. x = None => LevelOf(j)'.head = j
      <3>1. CASE j = nxt
        BY <1>3, <1>5, <1>10, <1>13, <2>1, <3>1
      <3>2. CASE j # nxt
        <4>1. arena'[j].prev = arena[j].prev
          BY <1>3, <2>1, <3>2
        <4>2. x = None => LevelOf(j).head = j
          BY <1>15, <2>1, <4>1
        <4>3. CASE Mine(j)
          BY <1>5, <1>10, <1>13, <1>17, <2>1, <4>2, <4>3
        <4>4. CASE ~Mine(j)
          BY <1>13, <2>1, <4>2, <4>4
        <4> QED
          BY <4>3, <4>4
      <3> QED
        BY <3>1, <3>2
    <2>4. x # None => Live(x)' /\ SameLevel(x, j)' /\ arena'[x].next = j
      <3> SUFFICES ASSUME x # None PROVE Live(x)' /\ SameLevel(x, j)' /\ arena'[x].next = j
        OBVIOUS
      <3>1. CASE j = nxt
        <4>1. x = prv
          BY <1>3, <2>1, <3>1
        <4>2. x \in NodeId /\ x # k /\ Live(x) /\ SameLevel(x, j)
          BY <1>10, <1>12, <2>1, <3>1, <4>1 DEF Mine, SameLevel, InLevel
        <4> QED
          BY <1>3, <2>2, <3>1, <4>1, <4>2
      <3>2. CASE j # nxt
        <4>1. x = arena[j].prev
          BY <1>3, <2>1, <3>2
        <4>2. /\ x \in NodeId /\ Live(x) /\ SameLevel(x, j) /\ arena[x].next = j
          BY <1>15, <2>1, <4>1
        <4>3. x # k
          BY <3>2, <4>2 DEF nxt
        <4>4. x # prv
          BY <1>10, <2>1, <4>2
        <4> QED
          BY <1>3, <2>2, <4>2, <4>3, <4>4
      <3> QED
        BY <3>1, <3>2
    <2>5. y = None => LevelOf(j)'.tail = j
      <3>1. CASE j = prv
        BY <1>3, <1>5, <1>10, <1>13, <2>1, <3>1
      <3>2. CASE j # prv
        <4>1. arena'[j].next = arena[j].next
          BY <1>3, <2>1, <3>2
        <4>2. y = None => LevelOf(j).tail = j
          BY <1>15, <2>1, <4>1
        <4>3. CASE Mine(j)
          BY <1>5, <1>10, <1>13, <1>17, <2>1, <4>2, <4>3
        <4>4. CASE ~Mine(j)
          BY <1>13, <2>1, <4>2, <4>4
        <4> QED
          BY <4>3, <4>4
      <3> QED
        BY <3>1, <3>2
    <2>6. y # None => Live(y)' /\ SameLevel(y, j)' /\ arena'[y].prev = j
      <3> SUFFICES ASSUME y # None PROVE Live(y)' /\ SameLevel(y, j)' /\ arena'[y].prev = j
        OBVIOUS
      <3>1. CASE j = prv
        <4>1. y = nxt
          BY <1>3, <2>1, <3>1
        <4>2. y \in NodeId /\ y # k /\ Live(y) /\ SameLevel(y, j)
          BY <1>10, <1>12, <2>1, <3>1, <4>1 DEF Mine, SameLevel, InLevel
        <4> QED
          BY <1>3, <2>2, <3>1, <4>1, <4>2
      <3>2. CASE j # prv
        <4>1. y = arena[j].next
          BY <1>3, <2>1, <3>2
        <4>2. /\ y \in NodeId /\ Live(y) /\ SameLevel(y, j) /\ arena[y].prev = j
          BY <1>15, <2>1, <4>1
        <4>3. y # k
          BY <3>2, <4>2 DEF prv
        <4>4. y # nxt
          BY <1>10, <2>1, <4>2
        <4> QED
          BY <1>3, <2>2, <4>2, <4>3, <4>4
      <3> QED
        BY <3>1, <3>2
    <2> QED
      BY <2>3, <2>4, <2>5, <2>6
  <1>22. Ends'
    <2> SUFFICES ASSUME NEW s2 \in Side, NEW p2 \in Price, NEW lv,
                        lv = levels'[s2][p2], lv # None
                 PROVE  /\ lv.head \in NodeId /\ Live(lv.head)'
                        /\ InLevel(lv.head, s2, p2)' /\ arena'[lv.head].prev = None
                        /\ lv.tail \in NodeId /\ Live(lv.tail)'
                        /\ InLevel(lv.tail, s2, p2)' /\ arena'[lv.tail].next = None
      BY DEF Ends
    <2>1. ASSUME NEW h \in NodeId, h # k, Live(h), InLevel(h, s2, p2)
          PROVE  Live(h)' /\ InLevel(h, s2, p2)'
      BY <1>3, <1>13, <2>1
    <2>2. CASE s2 # s \/ p2 # p
      <3>1. lv = levels[s2][p2]
        BY <1>8, <2>2
      <3>2. /\ lv.head \in NodeId /\ Live(lv.head)
            /\ InLevel(lv.head, s2, p2) /\ arena[lv.head].prev = None
            /\ lv.tail \in NodeId /\ Live(lv.tail)
            /\ InLevel(lv.tail, s2, p2) /\ arena[lv.tail].next = None
        BY <3>1 DEF Shape, Ends
      <3>3. \A j \in NodeId : InLevel(j, s2, p2) =>
                j # k /\ (nxt # None => j # nxt) /\ (prv # None => j # prv)
        BY <1>9, <1>10, <2>2 DEF InLevel, Mine
      <3>4. lv.head # None /\ lv.tail # None
        BY <3>2, PriceLevelAssumption
      <3>5. lv.head # nxt /\ lv.tail # prv /\ lv.head # k /\ lv.tail # k
        BY <3>2, <3>3, <3>4
      <3> QED
        BY <1>3, <2>1, <3>2, <3>5
    <2>3. CASE s2 = s /\ p2 = p
      <3>1. lv = rest /\ level.total_qty # r
        BY <1>8, <2>3
      <3>2. level # None
        BY <1>1, PriceLevelAssumption
      <3>3. /\ level.head \in NodeId /\ Live(level.head)
            /\ InLevel(level.head, s, p) /\ arena[level.head].prev = None
            /\ level.tail \in NodeId /\ Live(level.tail)
            /\ InLevel(level.tail, s, p) /\ arena[level.tail].next = None
        BY <1>1, <3>2 DEF Shape, Ends, level
      <3>4. k # None
        BY PriceLevelAssumption
      <3>5. /\ lv.head \in NodeId /\ Live(lv.head)'
            /\ InLevel(lv.head, s2, p2)' /\ arena'[lv.head].prev = None
        <4>1. CASE prv = None
          <5>1. nxt # None /\ lv.head = nxt
            BY <1>5, <1>14, <3>1, <4>1
          <5>2. nxt \in NodeId /\ nxt # k /\ Live(nxt) /\ InLevel(nxt, s2, p2)
            BY <1>10, <1>12, <2>3, <5>1 DEF Mine
          <5> QED
            BY <1>3, <2>1, <4>1, <5>1, <5>2
        <4>2. CASE prv # None
          <5>1. lv.head = level.head
            BY <1>5, <3>1, <4>2
          <5>2. level.head # k
            BY <3>3, <4>2 DEF prv
          <5>3. level.head # nxt
            BY <1>10, <3>3, <3>4, PriceLevelAssumption
          <5> QED
            BY <1>3, <2>1, <2>3, <3>3, <5>1, <5>2, <5>3
        <4> QED
          BY <4>1, <4>2
      <3>6. /\ lv.tail \in NodeId /\ Live(lv.tail)'
            /\ InLevel(lv.tail, s2, p2)' /\ arena'[lv.tail].next = None
        <4>1. CASE nxt = None
          <5>1. prv # None /\ lv.tail = prv
            BY <1>5, <1>14, <3>1, <4>1
          <5>2. prv \in NodeId /\ prv # k /\ Live(prv) /\ InLevel(prv, s2, p2)
            BY <1>10, <1>12, <2>3, <5>1 DEF Mine
          <5> QED
            BY <1>3, <2>1, <4>1, <5>1, <5>2
        <4>2. CASE nxt # None
          <5>1. lv.tail = level.tail
            BY <1>5, <3>1, <4>2
          <5>2. level.tail # k
            BY <3>3, <4>2 DEF nxt
          <5>3. level.tail # prv
            BY <1>10, <3>3, <3>4, PriceLevelAssumption
          <5> QED
            BY <1>3, <2>1, <2>3, <3>3, <5>1, <5>2, <5>3
        <4> QED
          BY <4>1, <4>2
      <3> QED
        BY <3>5, <3>6
    <2> QED
      BY <2>2, <2>3
  <1>30. PICK f : f = [j \in NodeId |-> IF Live(j) /\ Mine(j) /\ ahead[j] > ahead[k]
                                        THEN ahead[j] - r ELSE ahead[j]]
    OBVIOUS
  <1>31. ASSUME NEW j \in NodeId, j # k, Live(j)
         PROVE  /\ f[j] \in Nat
                /\ ~Mine(j) => f[j] = ahead[j]
                /\ Mine(j) /\ ahead[j] + Rem(j) <= ahead[k] => f[j] = ahead[j]
                /\ Mine(j) /\ ahead[k] + r <= ahead[j] => f[j] = ahead[j] - r
    <2>1. f[j] = IF Mine(j) /\ ahead[j] > ahead[k] THEN ahead[j] - r ELSE ahead[j]
      BY <1>30, <1>31
    <2>2. ahead[k] \in Nat
      BY <1>6
    <2> QED
      BY <1>1, <1>11, <1>31, <2>1, <2>2
  <1>32. f \in [NodeId -> Nat]
    <2>1. \A j \in NodeId : f[j] \in Nat
      <3> TAKE j \in NodeId
      <3>1. CASE Live(j) /\ j # k
        BY <1>31, <3>1
      <3>2. CASE ~Live(j) \/ j = k
        <4>1. f[j] = ahead[j]
          BY <1>6, <1>30, <3>2
        <4> QED
          BY <1>6, <4>1
      <3> QED
        BY <3>1, <3>2
    <2> QED
      BY <1>30, <2>1
  <1>33. Measures(f)'
    <2>1. ASSUME NEW j \in NodeId, Live(j)', NEW x, x = arena'[j].prev,
                 NEW y, y = arena'[j].next
          PROVE  /\ x = None => f[j] = 0
                 /\ x # None => f[j] = f[x] + Rem(x)'
                 /\ y = None => f[j] + Rem(j)' = LevelOf(j)'.total_qty
                 /\ f[j] + Rem(j)' <= LevelOf(j)'.total_qty
      <3>1. j # k /\ Live(j) /\ Rem(j)' = Rem(j)
        BY <1>2, <1>3, <1>13, <2>1
      <3>2. /\ ahead[j] \in Nat /\ Rem(j) \in Nat /\ Rem(j) > 0
            /\ ahead[k] \in Nat /\ level.total_qty \in Nat
        BY <1>1, <1>6, <1>11, <3>1
      <3>3. Mine(j) => ahead[j] + Rem(j) <= ahead[k] \/ ahead[k] + r <= ahead[j]
        BY <1>11, <3>1
      <3>4. x = None => f[j] = 0
        <4>1. CASE j = nxt
          <5>1. Mine(j) /\ ahead[j] = ahead[k] + r /\ (x = None => ahead[k] = 0)
            BY <1>3, <1>10, <2>1, <3>1, <4>1, PriceLevelAssumption
          <5>2. f[j] = ahead[j] - r
            BY <1>1, <1>31, <3>1, <3>2, <5>1
          <5> QED
            BY <1>1, <3>2, <5>1, <5>2
        <4>2. CASE j # nxt
          <5>1. x = None => ahead[j] = 0
            BY <1>3, <1>15, <2>1, <3>1, <4>2
          <5> QED
            BY <1>1, <1>31, <3>1, <3>2, <3>3, <5>1
        <4> QED
          BY <4>1, <4>2
      <3>5. x # None => f[j] = f[x] + Rem(x)'
        <4> SUFFICES ASSUME x # None PROVE f[j] = f[x] + Rem(x)'
          OBVIOUS
        <4>1. CASE j = nxt
          <5>1. x = prv
            BY <1>3, <2>1, <3>1, <4>1
          <5>2. /\ x \in NodeId /\ x # k /\ Live(x) /\ Mine(x)
                /\ ahead[k] = ahead[x] + Rem(x)
            BY <1>10, <1>12, <5>1
          <5>3. f[x] = ahead[x] /\ Rem(x)' = Rem(x)
            BY <1>6, <1>11, <1>13, <1>31, <5>2
          <5>4. Mine(j) /\ ahead[j] = ahead[k] + r
            BY <1>10, <4>1, PriceLevelAssumption
          <5>5. f[j] = ahead[j] - r
            BY <1>1, <1>31, <3>1, <3>2, <5>4
          <5> QED
            BY <1>1, <3>2, <5>2, <5>3, <5>4, <5>5
        <4>2. CASE j # nxt
          <5>1. x = arena[j].prev
            BY <1>3, <2>1, <3>1, <4>2
          <5>2. /\ x \in NodeId /\ Live(x) /\ SameLevel(x, j) /\ arena[x].next = j
                /\ ahead[j] = ahead[x] + Rem(x)
            BY <1>15, <3>1, <5>1
          <5>3. x # k
            BY <4>2, <5>2 DEF nxt
          <5>4. Rem(x)' = Rem(x) /\ ahead[x] \in Nat /\ Rem(x) \in Nat /\ Rem(x) > 0
            BY <1>11, <1>13, <5>2, <5>3
          <5>5. Mine(x) <=> Mine(j)
            BY <1>16, <5>2
          <5>6. CASE ~Mine(j)
            BY <1>31, <3>1, <5>2, <5>3, <5>4, <5>5, <5>6
          <5>7. CASE Mine(j)
            <6>1. ahead[x] + Rem(x) <= ahead[k] \/ ahead[k] + r <= ahead[x]
              BY <1>11, <5>2, <5>3, <5>5, <5>7
            <6>2. CASE ahead[k] + r <= ahead[x]
              <7>1. ahead[k] + r <= ahead[j]
                BY <1>1, <3>2, <5>2, <5>4, <6>2
              <7>2. f[j] = ahead[j] - r /\ f[x] = ahead[x] - r
                BY <1>31, <3>1, <5>2, <5>3, <5>5, <5>7, <6>2, <7>1
              <7> QED
                BY <1>1, <3>2, <5>2, <5>4, <7>2
            <6>3. CASE ahead[x] + Rem(x) <= ahead[k]
              <7>1. ahead[j] + Rem(j) <= ahead[k]
                BY <1>1, <3>2, <3>3, <5>2, <5>7, <6>3
              <7>2. f[j] = ahead[j] /\ f[x] = ahead[x]
                BY <1>31, <3>1, <5>2, <5>3, <5>5, <5>7, <6>3, <7>1
              <7> QED
                BY <5>2, <5>4, <7>2
            <6> QED
              BY <6>1, <6>2, <6>3
          <5> QED
            BY <5>6, <5>7
        <4> QED
          BY <4>1, <4>2
      <3>6. CASE ~Mine(j)
        <4>1. LevelOf(j)' = LevelOf(j) /\ f[j] = ahead[j]
          BY <1>13, <1>31, <3>1, <3>6
        <4>2. j # prv
          BY <1>10, <3>6, PriceLevelAssumption
        <4>3. y = arena[j].next
          BY <1>3, <2>1, <3>1, <4>2
        <4>4. /\ y = None => ahead[j] + Rem(j) = LevelOf(j).total_qty
              /\ ahead[j] + Rem(j) <= LevelOf(j).total_qty
          BY <1>15, <3>1, <4>3
        <4> QED
          BY <3>1, <3>4, <3>5, <4>1, <4>4
      <3>7. CASE Mine(j)
        <4>1. LevelOf(j)'.total_qty = level.total_qty - r
          BY <1>5, <1>13, <3>1, <3>7
        <4>2. ahead[j] + Rem(j) <= level.total_qty /\ LevelOf(j) = level
          BY <1>11, <3>1, <3>7
        <4>3. f[j] + Rem(j) <= level.total_qty - r
          <5>1. CASE ahead[j] + Rem(j) <= ahead[k]
            <6>1. f[j] = ahead[j]
              BY <1>31, <3>1, <3>7, <5>1
            <6> QED
              BY <1>1, <1>6, <3>2, <5>1, <6>1
          <5>2. CASE ahead[k] + r <= ahead[j]
            <6>1. f[j] = ahead[j] - r
              BY <1>31, <3>1, <3>7, <5>2
            <6> QED
              BY <1>1, <3>2, <4>2, <6>1
          <5> QED
            BY <3>3, <3>7, <5>1, <5>2
        <4>4. y = None => f[j] + Rem(j) = level.total_qty - r
          <5> SUFFICES ASSUME y = None PROVE f[j] + Rem(j) = level.total_qty - r
            OBVIOUS
          <5>1. CASE j = prv
            <6>1. nxt = None
              BY <1>3, <2>1, <3>1, <5>1
            <6>2. ahead[k] + r = level.total_qty /\ ahead[k] = ahead[j] + Rem(j)
              BY <1>10, <5>1, <6>1, PriceLevelAssumption
            <6>3. f[j] = ahead[j]
              BY <1>31, <3>1, <3>2, <3>7, <6>2
            <6> QED
              BY <1>1, <3>2, <6>2, <6>3
          <5>2. CASE j # prv
            <6>1. ahead[j] + Rem(j) = level.total_qty
              BY <1>3, <1>15, <2>1, <3>1, <4>2, <5>2
            <6>2. ahead[k] + r <= ahead[j]
              BY <1>1, <1>6, <3>2, <3>3, <3>7, <6>1
            <6>3. f[j] = ahead[j] - r
              BY <1>31, <3>1, <3>7, <6>2
            <6> QED
              BY <1>1, <3>2, <6>1, <6>3
          <5> QED
            BY <5>1, <5>2
        <4> QED
          BY <3>1, <3>4, <3>5, <4>1, <4>3, <4>4
      <3> QED
        BY <3>6, <3>7
    <2>2. ASSUME NEW i \in NodeId, NEW j \in NodeId, Live(i)', Live(j)', i # j, SameLevel(i, j)'
          PROVE  f[i] + Rem(i)' <= f[j] \/ f[j] + Rem(j)' <= f[i]
      <3>1. /\ i # k /\ Live(i) /\ Rem(i)' = Rem(i)
            /\ j # k /\ Live(j) /\ Rem(j)' = Rem(j)
        BY <1>2, <1>3, <1>13, <2>2
      <3>2. SameLevel(i, j)
        BY <1>13, <2>2, <3>1 DEF SameLevel, InLevel
      <3>3. ahead[i] + Rem(i) <= ahead[j] \/ ahead[j] + Rem(j) <= ahead[i]
        BY <2>2, <3>1, <3>2 DEF Shape, Measures
      <3>4. /\ ahead[i] \in Nat /\ Rem(i) \in Nat /\ Rem(i) > 0
            /\ ahead[j] \in Nat /\ Rem(j) \in Nat /\ Rem(j) > 0 /\ ahead[k] \in Nat
        BY <1>6, <1>11, <3>1
      <3>5. CASE ~Mine(i)
        <4>1. ~Mine(j)
          BY <1>16, <3>2, <3>5
        <4>2. f[i] = ahead[i] /\ f[j] = ahead[j]
          BY <1>31, <3>1, <3>5, <4>1
        <4> QED
          BY <3>1, <3>3, <4>2
      <3>6. CASE Mine(i)
        <4>1. Mine(j)
          BY <1>16, <3>2, <3>6
        <4>2. \/ ahead[i] + Rem(i) <= ahead[k] /\ f[i] = ahead[i]
              \/ ahead[k] + r <= ahead[i] /\ f[i] = ahead[i] - r
          BY <1>11, <1>31, <3>1, <3>6
        <4>3. \/ ahead[j] + Rem(j) <= ahead[k] /\ f[j] = ahead[j]
              \/ ahead[k] + r <= ahead[j] /\ f[j] = ahead[j] - r
          BY <1>11, <1>31, <3>1, <4>1
        <4>4. f[i] + Rem(i) <= f[j] \/ f[j] + Rem(j) <= f[i]
          BY <1>1, <3>3, <3>4, <4>2, <4>3
        <4> QED
          BY <3>1, <4>4
      <3> QED
        BY <3>5, <3>6
    <2> QED
      BY <1>32, <2>1, <2>2 DEF Measures
  <1> QED
    BY <1>20, <1>21, <1>22, <1>33 DEF ShapeInv, Shape
-----------------------------------------------------------------------------
(* Lowering the front order, by a trade that leaves something of it.       *)

Lowered(level, qty) ==
    [head |-> level.head, tail |-> level.tail, total_qty |-> level.total_qty - qty]

Lowers(k, qty) ==
    LET s == arena[k].order.side
        p == arena[k].order.price
    IN  /\ arena[k].prev = None
        /\ qty < Rem(k)
        /\ \A j \in NodeId :
            /\ Live(j)' <=> Live(j)
            /\ Live(j) =>
                /\ \A s2, p2 : InLevel(j, s2, p2)' <=> InLevel(j, s2, p2)
                /\ arena'[j].next = arena[j].next
                /\ arena'[j].prev = arena[j].prev
                /\ Rem(j)' = IF j = k THEN Rem(j) - qty ELSE Rem(j)
        /\ levels' = [levels EXCEPT ![s][p] = Lowered(levels[s][p], qty)]

(* Every other order of the level moves up by the quantity traded.         *)
LEMMA LowerShape ==
    ASSUME TypeInv, NEW ahead, Shape(ahead), NEW k \in NodeId, Live(k),
           NEW qty \in Nat, Lowers(k, qty)
    PROVE  ShapeInv'
  <1>0. PICK s, p : s = arena[k].order.side /\ p = arena[k].order.price
    OBVIOUS
  <1> DEFINE level == levels[s][p]
             low == Lowered(level, qty)
             r == Rem(k)
             Mine(j) == InLevel(j, s, p)
  <1>1. /\ s \in Side /\ p \in Price /\ level \in Level /\ LevelOf(k) = level
        /\ r \in Nat /\ r > qty /\ level.total_qty \in Nat /\ level.total_qty \in Word
        /\ Mine(k)
    BY <1>0, NodeTypes DEF Shape, LevelOf, Lowers, InLevel
  <1>2. ASSUME NEW j \in NodeId
        PROVE  /\ Live(j)' <=> Live(j)
               /\ Live(j) =>
                    /\ \A s2, p2 : InLevel(j, s2, p2)' <=> InLevel(j, s2, p2)
                    /\ arena'[j].next = arena[j].next
                    /\ arena'[j].prev = arena[j].prev
                    /\ Rem(j)' = IF j = k THEN Rem(j) - qty ELSE Rem(j)
    BY DEF Lowers
  <1>3. ahead \in [NodeId -> Nat] /\ ahead[k] = 0 /\ r <= level.total_qty
    <2>1. ahead \in [NodeId -> Nat] /\ ahead[k] = 0 /\ ahead[k] + r <= level.total_qty
      BY <1>1 DEF Shape, Measures, Lowers
    <2> QED
      BY <1>1, <2>1
  <1>4. low.head = level.head /\ low.tail = level.tail /\ low.total_qty = level.total_qty - qty
    BY DEF Lowered
  <1>5. low # None /\ level # None
    <2>1. level.total_qty - qty \in Word
      BY <1>1, <1>3, OrdersAssumption DEF Word
    <2>2. level.head \in NodeId \cup {None} /\ level.tail \in NodeId \cup {None}
      BY <1>1 DEF Level
    <2>3. low \in Level
      BY <2>1, <2>2 DEF Lowered, Level
    <2> QED
      BY <1>1, <2>3, PriceLevelAssumption
  <1>6. /\ \A s2 \in Side, p2 \in Price :
                s2 # s \/ p2 # p => levels'[s2][p2] = levels[s2][p2]
        /\ levels'[s][p] = low
    <2>1. levels \in [Side -> [Price -> Level \cup {None}]]
      BY DEF TypeInv, TypeOK, BookTypeOK
    <2>2. levels' = [levels EXCEPT ![s][p] = low]
      BY <1>0 DEF Lowers
    <2> HIDE DEF low, level
    <2> QED
      BY <1>1, <2>1, <2>2 DEF level
  <1>7. ASSUME NEW s2 \in Side, NEW p2 \in Price
        PROVE  /\ levels'[s2][p2] = None <=> levels[s2][p2] = None
               /\ levels'[s2][p2] # None =>
                    /\ levels'[s2][p2].head = levels[s2][p2].head
                    /\ levels'[s2][p2].tail = levels[s2][p2].tail
    <2>1. CASE s2 # s \/ p2 # p
      BY <1>6, <2>1
    <2>2. CASE s2 = s /\ p2 = p
      BY <1>4, <1>5, <1>6, <2>2
    <2> QED
      BY <2>1, <2>2
  <1>8. ASSUME NEW j \in NodeId, Live(j)
        PROVE  /\ arena'[j].order.side = arena[j].order.side
               /\ arena'[j].order.price = arena[j].order.price
               /\ arena[j].order.side \in Side /\ arena[j].order.price \in Price
               /\ Mine(j) => LevelOf(j)' = low /\ LevelOf(j) = level
               /\ ~Mine(j) => LevelOf(j)' = LevelOf(j)
               /\ LevelOf(j)' # None
               /\ LevelOf(j)'.head = LevelOf(j).head
               /\ LevelOf(j)'.tail = LevelOf(j).tail
    <2>1. arena'[j].order.side = arena[j].order.side
          /\ arena'[j].order.price = arena[j].order.price
      BY <1>2, <1>8 DEF InLevel
    <2>2. arena[j].order.side \in Side /\ arena[j].order.price \in Price
      BY <1>8, NodeTypes DEF Shape
    <2>3. LevelOf(j)' = levels'[arena[j].order.side][arena[j].order.price]
      BY <2>1 DEF LevelOf
    <2>4. LevelOf(j) # None
      BY <1>8 DEF Shape, Filed
    <2>5. Mine(j) <=> (arena[j].order.side = s /\ arena[j].order.price = p)
      BY DEF InLevel
    <2> HIDE DEF low, level, Mine
    <2> QED
      BY <1>6, <1>7, <2>1, <2>2, <2>3, <2>4, <2>5 DEF LevelOf, level
  <1>9. ASSUME NEW j \in NodeId, Live(j)
        PROVE  /\ ahead[j] \in Nat /\ Rem(j) \in Nat /\ Rem(j) > 0
               /\ Mine(j) /\ j # k => r <= ahead[j]
    <2>1. ahead[j] \in Nat /\ Rem(j) \in Nat /\ Rem(j) > 0
      BY <1>3, <1>9, NodeTypes DEF Shape
    <2>2. Mine(j) => SameLevel(j, k)
      BY <1>0 DEF SameLevel
    <2>3. Mine(j) /\ j # k => ahead[j] + Rem(j) <= ahead[k] \/ ahead[k] + r <= ahead[j]
      BY <1>9, <2>2, BeforeOrAfter
    <2> QED
      BY <1>1, <1>3, <2>1, <2>3
  <1>10. \A i, j \in NodeId : SameLevel(i, j) => (Mine(i) <=> Mine(j))
    BY DEF SameLevel, InLevel
  <1>11. ASSUME NEW i \in NodeId, NEW j \in NodeId, Live(i), Live(j)
         PROVE  SameLevel(i, j)' <=> SameLevel(i, j)
    BY <1>2, <1>8, <1>11 DEF SameLevel
  <1> HIDE DEF level, low, r, Mine
  <1>20. Filed'
    <2> SUFFICES ASSUME NEW j \in NodeId, Live(j)'
                 PROVE  (arena'[j].order.price \in Price /\ LevelOf(j)' # None /\ Rem(j)' > 0)
      BY DEF Filed
    <2>1. Live(j)
      BY <1>2
    <2>2. Rem(j)' > 0
      BY <1>1, <1>2, <1>9, <2>1 DEF r
    <2> QED
      BY <1>8, <2>1, <2>2
  <1>21. Ends'
    <2> SUFFICES ASSUME NEW s2 \in Side, NEW p2 \in Price, NEW lv,
                        lv = levels'[s2][p2], lv # None
                 PROVE  /\ lv.head \in NodeId /\ Live(lv.head)'
                        /\ InLevel(lv.head, s2, p2)' /\ arena'[lv.head].prev = None
                        /\ lv.tail \in NodeId /\ Live(lv.tail)'
                        /\ InLevel(lv.tail, s2, p2)' /\ arena'[lv.tail].next = None
      BY DEF Ends
    <2>1. lv.head = levels[s2][p2].head /\ lv.tail = levels[s2][p2].tail
          /\ levels[s2][p2] # None
      BY <1>7
    <2>2. /\ lv.head \in NodeId /\ Live(lv.head)
          /\ InLevel(lv.head, s2, p2) /\ arena[lv.head].prev = None
          /\ lv.tail \in NodeId /\ Live(lv.tail)
          /\ InLevel(lv.tail, s2, p2) /\ arena[lv.tail].next = None
      BY <2>1 DEF Shape, Ends
    <2> QED
      BY <1>2, <2>2
  <1>22. Links'
    <2> SUFFICES ASSUME NEW j \in NodeId, Live(j)',
                        NEW x, x = arena'[j].prev, NEW y, y = arena'[j].next
                 PROVE  /\ x = None => LevelOf(j)'.head = j
                        /\ x # None => Live(x)' /\ SameLevel(x, j)' /\ arena'[x].next = j
                        /\ y = None => LevelOf(j)'.tail = j
                        /\ y # None => Live(y)' /\ SameLevel(y, j)' /\ arena'[y].prev = j
      BY DEF Links
    <2>1. Live(j) /\ x = arena[j].prev /\ y = arena[j].next
      BY <1>2
    <2>2. x \in NodeId \cup {None} /\ y \in NodeId \cup {None}
      BY <2>1, NodeTypes DEF Shape
    <2>3. /\ x = None => LevelOf(j).head = j
          /\ x # None => Live(x) /\ SameLevel(x, j) /\ arena[x].next = j
          /\ y = None => LevelOf(j).tail = j
          /\ y # None => Live(y) /\ SameLevel(y, j) /\ arena[y].prev = j
      BY <2>1 DEF Shape, Links
    <2> QED
      BY <1>2, <1>8, <1>11, <2>1, <2>2, <2>3
  <1>30. PICK f : f = [j \in NodeId |-> IF Live(j) /\ Mine(j) /\ j # k
                                        THEN ahead[j] - qty ELSE ahead[j]]
    OBVIOUS
  <1>31. ASSUME NEW j \in NodeId, Live(j)
         PROVE  /\ f[j] \in Nat
                /\ f[j] = IF Mine(j) /\ j # k THEN ahead[j] - qty ELSE ahead[j]
    BY <1>1, <1>9, <1>30, <1>31
  <1>32. f \in [NodeId -> Nat]
    <2>1. \A j \in NodeId : f[j] \in Nat
      <3> TAKE j \in NodeId
      <3>1. CASE Live(j)
        BY <1>31, <3>1
      <3>2. CASE ~Live(j)
        <4>1. f[j] = ahead[j]
          BY <1>30, <3>2
        <4> QED
          BY <1>3, <4>1
      <3> QED
        BY <3>1, <3>2
    <2> QED
      BY <1>30, <2>1
  <1>33. Measures(f)'
    <2>1. ASSUME NEW j \in NodeId, Live(j)', NEW x, x = arena'[j].prev,
                 NEW y, y = arena'[j].next
          PROVE  /\ x = None => f[j] = 0
                 /\ x # None => f[j] = f[x] + Rem(x)'
                 /\ y = None => f[j] + Rem(j)' = LevelOf(j)'.total_qty
                 /\ f[j] + Rem(j)' <= LevelOf(j)'.total_qty
      <3>1. Live(j) /\ x = arena[j].prev /\ y = arena[j].next
        BY <1>2, <2>1
      <3>2. /\ x \in NodeId \cup {None}
            /\ ahead[j] \in Nat /\ Rem(j) \in Nat /\ Rem(j) > 0
        BY <1>9, <3>1, NodeTypes DEF Shape
      <3>3. /\ x = None => ahead[j] = 0
            /\ x # None => /\ ahead[j] = ahead[x] + Rem(x)
                           /\ Live(x) /\ SameLevel(x, j)
            /\ y = None => ahead[j] + Rem(j) = LevelOf(j).total_qty
            /\ ahead[j] + Rem(j) <= LevelOf(j).total_qty
        BY <3>1 DEF Shape, Links, Measures
      <3>4. CASE ~Mine(j)
        <4>1. f[j] = ahead[j] /\ Rem(j)' = Rem(j) /\ LevelOf(j)' = LevelOf(j)
          BY <1>1, <1>2, <1>8, <1>31, <3>1, <3>4
        <4>2. x # None => f[x] = ahead[x] /\ Rem(x)' = Rem(x)
          BY <1>1, <1>2, <1>10, <1>31, <3>2, <3>3, <3>4
        <4> QED
          BY <3>3, <4>1, <4>2
      <3>5. CASE Mine(j)
        <4>1. LevelOf(j)'.total_qty = level.total_qty - qty /\ LevelOf(j) = level
          BY <1>4, <1>8, <3>1, <3>5
        <4>2. f[j] + Rem(j)' = ahead[j] + Rem(j) - qty
          BY <1>2, <1>31, <3>1, <3>2, <3>5
        <4>3. x = None => f[j] = 0
          <5>1. x = None => j = k
            BY <1>1, <1>9, <3>1, <3>3, <3>5
          <5> QED
            BY <1>31, <3>1, <3>3, <5>1
        <4>4. x # None => f[j] = f[x] + Rem(x)'
          <5> SUFFICES ASSUME x # None PROVE f[j] = f[x] + Rem(x)'
            OBVIOUS
          <5>1. x \in NodeId /\ Live(x) /\ Mine(x) /\ ahead[j] = ahead[x] + Rem(x)
            BY <1>10, <3>2, <3>3, <3>5
          <5>2. ahead[x] \in Nat /\ Rem(x) \in Nat
            BY <1>9, <5>1
          <5>3. j # k
            BY <3>1 DEF Lowers
          <5>4. f[j] = ahead[j] - qty
            BY <1>31, <3>1, <3>5, <5>3
          <5>5. f[x] + Rem(x)' = ahead[x] + Rem(x) - qty
            BY <1>2, <1>31, <5>1, <5>2
          <5> QED
            BY <5>1, <5>2, <5>4, <5>5
        <4> QED
          BY <1>1, <3>2, <3>3, <4>1, <4>2, <4>3, <4>4
      <3> QED
        BY <3>4, <3>5
    <2>2. ASSUME NEW i \in NodeId, NEW j \in NodeId, Live(i)', Live(j)', i # j, SameLevel(i, j)'
          PROVE  f[i] + Rem(i)' <= f[j] \/ f[j] + Rem(j)' <= f[i]
      <3>1. Live(i) /\ Live(j) /\ SameLevel(i, j)
        BY <1>2, <1>11, <2>2
      <3>2. ahead[i] + Rem(i) <= ahead[j] \/ ahead[j] + Rem(j) <= ahead[i]
        BY <2>2, <3>1 DEF Shape, Measures
      <3>3. /\ ahead[i] \in Nat /\ Rem(i) \in Nat /\ Rem(i) > 0
            /\ ahead[j] \in Nat /\ Rem(j) \in Nat /\ Rem(j) > 0
        BY <1>9, <3>1
      <3>4. CASE ~Mine(i)
        <4>1. ~Mine(j)
          BY <1>10, <3>1, <3>4
        <4>2. f[i] = ahead[i] /\ f[j] = ahead[j] /\ Rem(i)' = Rem(i) /\ Rem(j)' = Rem(j)
          BY <1>1, <1>2, <1>31, <3>1, <3>4, <4>1
        <4> QED
          BY <3>2, <4>2
      <3>5. CASE Mine(i)
        <4>1. Mine(j)
          BY <1>10, <3>1, <3>5
        <4>2. /\ i # k => f[i] = ahead[i] - qty /\ Rem(i)' = Rem(i) /\ r <= ahead[i]
              /\ i = k => f[i] = 0 /\ Rem(i)' = r - qty /\ ahead[i] = 0 /\ Rem(i) = r
          BY <1>2, <1>3, <1>9, <1>31, <3>1, <3>5 DEF r
        <4>3. /\ j # k => f[j] = ahead[j] - qty /\ Rem(j)' = Rem(j) /\ r <= ahead[j]
              /\ j = k => f[j] = 0 /\ Rem(j)' = r - qty /\ ahead[j] = 0 /\ Rem(j) = r
          BY <1>2, <1>3, <1>9, <1>31, <3>1, <4>1 DEF r
        <4>4. i # k \/ j # k
          BY <2>2
        <4> QED
          BY <1>1, <3>2, <3>3, <4>2, <4>3, <4>4
      <3> QED
        BY <3>4, <3>5
    <2> QED
      BY <1>32, <2>1, <2>2 DEF Measures
  <1> QED
    BY <1>20, <1>21, <1>22, <1>33 DEF ShapeInv, Shape
-----------------------------------------------------------------------------
(* Adding an order behind the last one of its level.                       *)

Longer(level, order, key) ==
    [head |-> IF level.tail = None THEN key ELSE level.head,
     tail |-> key,
     total_qty |-> level.total_qty + order.remaining_qty]

Adds(key, order) ==
    LET s == order.side
        p == order.price
        level == LevelAt(s, p)
    IN  /\ ~Live(key) /\ Live(key)'
        /\ arena'[key].order = order
        /\ arena'[key].prev = level.tail
        /\ level.tail # key => arena'[key].next = None
        /\ \A j \in NodeId \ {key} :
            /\ Live(j)' <=> Live(j)
            /\ Live(j) =>
                /\ arena'[j].order = arena[j].order
                /\ arena'[j].prev = arena[j].prev
                /\ arena'[j].next = IF j = level.tail THEN key ELSE arena[j].next
        /\ levels' = [levels EXCEPT ![s][p] = Longer(level, order, key)]

(* What was the level's total is now queued ahead of the new order.        *)
LEMMA AddShape ==
    ASSUME TypeInv, NEW ahead, Shape(ahead), NEW key \in NodeId,
           NEW order \in Order, order.price \in Price, order.remaining_qty > 0,
           Adds(key, order),
           LevelAt(order.side, order.price).total_qty + order.remaining_qty < WordSize
    PROVE  ShapeInv'
  <1>0. PICK s, p, r : s = order.side /\ p = order.price /\ r = order.remaining_qty
    OBVIOUS
  <1> DEFINE level == LevelAt(s, p)
             longer == Longer(level, order, key)
             T == level.total_qty
             tail == level.tail
             Mine(j) == InLevel(j, s, p)
  <1>1. /\ s \in Side /\ p \in Price /\ r \in Nat /\ r > 0
        /\ ~Live(key) /\ Live(key)' /\ key # None
        /\ arena'[key].order = order /\ arena'[key].prev = tail
        /\ tail # key => arena'[key].next = None
    BY <1>0, OrdersAssumption, PriceLevelAssumption DEF Order, Word, Adds
  <1>2. ASSUME NEW j \in NodeId, j # key
        PROVE  /\ Live(j)' <=> Live(j)
               /\ Live(j) =>
                    /\ arena'[j].order = arena[j].order
                    /\ arena'[j].prev = arena[j].prev
                    /\ arena'[j].next = IF j = tail THEN key ELSE arena[j].next
    BY <1>0, <1>2 DEF Adds
  <1>3. levels[s][p] # None => level = levels[s][p]
    BY DEF LevelAt
  <1>4. levels[s][p] = None => tail = None /\ T = 0
    BY DEF LevelAt, EmptyLevel
  <1>5. level \in Level /\ T \in Nat /\ T \in Word /\ T + r < WordSize
    <2>1. EmptyLevel \in Level
      BY OrdersAssumption DEF EmptyLevel, Level, Word
    <2>2. level \in Level
      BY <1>1, <2>1 DEF LevelAt, TypeInv, TypeOK, BookTypeOK
    <2>3. T \in Word
      BY <2>2 DEF Level
    <2> QED
      BY <1>0, <2>2, <2>3, OrdersAssumption DEF Word
  <1>6. ASSUME NEW j \in NodeId, Live(j)
        PROVE  /\ ahead[j] \in Nat /\ Rem(j) \in Nat /\ Rem(j) > 0
               /\ arena[j].order.side \in Side /\ arena[j].order.price \in Price
               /\ arena[j].prev \in NodeId \cup {None} /\ arena[j].next \in NodeId \cup {None}
               /\ LevelOf(j) # None
               /\ Mine(j) => LevelOf(j) = level /\ ahead[j] + Rem(j) <= T
                             /\ levels[s][p] # None
    <2>1. /\ ahead[j] \in Nat /\ ahead[j] + Rem(j) <= LevelOf(j).total_qty
      BY <1>6 DEF Shape, Measures
    <2>2. Mine(j) => LevelOf(j) = levels[s][p]
      BY DEF InLevel, LevelOf
    <2>3. /\ Rem(j) \in Nat /\ Rem(j) > 0
          /\ arena[j].order.side \in Side /\ arena[j].order.price \in Price
          /\ arena[j].prev \in NodeId \cup {None} /\ arena[j].next \in NodeId \cup {None}
          /\ LevelOf(j) # None
      BY <1>6, NodeTypes DEF Shape
    <2> QED
      BY <1>3, <2>1, <2>2, <2>3
  <1>7. \/ tail = None /\ levels[s][p] = None
        \/ /\ tail \in NodeId /\ Live(tail) /\ Mine(tail) /\ arena[tail].next = None
           /\ ahead[tail] + Rem(tail) = T /\ tail # key /\ tail # None
    <2>1. CASE levels[s][p] = None
      BY <1>4, <2>1
    <2>2. CASE levels[s][p] # None
      <3>1. tail \in NodeId /\ Live(tail) /\ Mine(tail) /\ arena[tail].next = None
        BY <1>1, <1>3, <2>2 DEF Shape, Ends
      <3>2. ahead[tail] + Rem(tail) = LevelOf(tail).total_qty
        BY <3>1 DEF Shape, Measures
      <3> QED
        BY <1>1, <1>6, <3>1, <3>2, PriceLevelAssumption
    <2> QED
      BY <2>1, <2>2
  <1>8. /\ longer.head = IF tail = None THEN key ELSE level.head
        /\ longer.tail = key
        /\ longer.total_qty = T + r
        /\ longer # None
    <2>1. T + r \in Word
      BY <1>1, <1>5, OrdersAssumption DEF Word
    <2>2. level.head \in NodeId \cup {None}
      BY <1>5 DEF Level
    <2>3. longer \in Level
      BY <1>0, <2>1, <2>2 DEF Longer, Level
    <2> QED
      BY <1>0, <2>3, PriceLevelAssumption DEF Longer
  <1>9. /\ \A s2 \in Side, p2 \in Price :
                s2 # s \/ p2 # p => levels'[s2][p2] = levels[s2][p2]
        /\ levels'[s][p] = longer
    <2>1. levels \in [Side -> [Price -> Level \cup {None}]]
      BY DEF TypeInv, TypeOK, BookTypeOK
    <2>2. levels' = [levels EXCEPT ![s][p] = longer]
      BY <1>0 DEF Adds
    <2> HIDE DEF longer, level
    <2> QED
      BY <1>1, <2>1, <2>2
  <1>10. ASSUME NEW j \in NodeId, j # key, Live(j)
         PROVE  /\ \A s2, p2 : InLevel(j, s2, p2)' <=> InLevel(j, s2, p2)
                /\ Rem(j)' = Rem(j) /\ arena'[j].order = arena[j].order
                /\ Mine(j) => LevelOf(j)' = longer
                /\ ~Mine(j) => LevelOf(j)' = LevelOf(j)
    <2>1. arena'[j].order = arena[j].order
      BY <1>2, <1>10
    <2>2. /\ \A s2, p2 : InLevel(j, s2, p2)' <=> InLevel(j, s2, p2)
          /\ Rem(j)' = Rem(j)
      BY <2>1 DEF InLevel, Rem
    <2>3. LevelOf(j)' = levels'[arena[j].order.side][arena[j].order.price]
      BY <2>1 DEF LevelOf
    <2>4. arena[j].order.side \in Side /\ arena[j].order.price \in Price
      BY <1>6, <1>10
    <2>5. Mine(j) <=> (arena[j].order.side = s /\ arena[j].order.price = p)
      BY DEF InLevel
    <2> HIDE DEF longer, level, Mine
    <2> QED
      BY <1>9, <2>1, <2>2, <2>3, <2>4, <2>5 DEF LevelOf
  <1>11. /\ InLevel(key, s, p)' /\ Rem(key)' = r /\ LevelOf(key)' = longer
         /\ \A s2, p2 : InLevel(key, s2, p2)' => s2 = s /\ p2 = p
         /\ arena'[key].order.price \in Price
    BY <1>0, <1>1, <1>9 DEF InLevel, Rem, LevelOf
  <1>12. ASSUME NEW i \in NodeId, NEW j \in NodeId, i # key, j # key, Live(i), Live(j)
         PROVE  SameLevel(i, j)' <=> SameLevel(i, j)
    BY <1>10, <1>12 DEF SameLevel
  <1>13. ASSUME NEW j \in NodeId, j # key, Live(j), Mine(j)
         PROVE  SameLevel(j, key)' /\ SameLevel(key, j)'
    BY <1>10, <1>11, <1>13 DEF SameLevel, InLevel
  <1>14. ASSUME NEW j \in NodeId, j # key, Live(j),
                SameLevel(j, key)' \/ SameLevel(key, j)'
         PROVE  Mine(j)
    BY <1>10, <1>11, <1>14 DEF SameLevel, InLevel
  <1> HIDE DEF level, longer, T, tail, Mine
  <1>20. Filed'
    <2> SUFFICES ASSUME NEW j \in NodeId, Live(j)'
                 PROVE  (arena'[j].order.price \in Price /\ LevelOf(j)' # None /\ Rem(j)' > 0)
      BY DEF Filed
    <2>1. CASE j = key
      BY <1>1, <1>8, <1>11, <2>1
    <2>2. CASE j # key
      BY <1>2, <1>6, <1>8, <1>10, <2>2
    <2> QED
      BY <2>1, <2>2
  <1>21. Ends'
    <2> SUFFICES ASSUME NEW s2 \in Side, NEW p2 \in Price, NEW lv,
                        lv = levels'[s2][p2], lv # None
                 PROVE  /\ lv.head \in NodeId /\ Live(lv.head)'
                        /\ InLevel(lv.head, s2, p2)' /\ arena'[lv.head].prev = None
                        /\ lv.tail \in NodeId /\ Live(lv.tail)'
                        /\ InLevel(lv.tail, s2, p2)' /\ arena'[lv.tail].next = None
      BY DEF Ends
    <2>1. ASSUME NEW old, old = levels[s2][p2], old # None
          PROVE  /\ old.head \in NodeId /\ old.head # key /\ Live(old.head)'
                 /\ InLevel(old.head, s2, p2)' /\ arena'[old.head].prev = None
                 /\ old.tail \in NodeId /\ old.tail # key /\ Live(old.tail)'
                 /\ InLevel(old.tail, s2, p2)' /\ InLevel(old.tail, s2, p2)
                 /\ Live(old.tail) /\ arena[old.tail].next = None
      <3>1. /\ old.head \in NodeId /\ Live(old.head)
            /\ InLevel(old.head, s2, p2) /\ arena[old.head].prev = None
            /\ old.tail \in NodeId /\ Live(old.tail)
            /\ InLevel(old.tail, s2, p2) /\ arena[old.tail].next = None
        BY <2>1 DEF Shape, Ends
      <3>2. old.head # key /\ old.tail # key
        BY <1>1, <3>1
      <3> QED
        BY <1>2, <1>10, <3>1, <3>2
    <2>2. CASE s2 # s \/ p2 # p
      <3>1. lv = levels[s2][p2]
        BY <1>9, <2>2
      <3>2. lv.tail # tail
        <4>1. tail \in NodeId => Mine(tail)
          BY <1>7, PriceLevelAssumption
        <4>2. lv.tail \in NodeId /\ ~Mine(lv.tail)
          BY <2>1, <2>2, <3>1 DEF Mine, InLevel
        <4> QED
          BY <4>1, <4>2
      <3> QED
        BY <1>2, <2>1, <3>1, <3>2
    <2>3. CASE s2 = s /\ p2 = p
      <3>1. lv = longer
        BY <1>9, <2>3
      <3>2. /\ lv.tail \in NodeId /\ Live(lv.tail)'
            /\ InLevel(lv.tail, s2, p2)' /\ arena'[lv.tail].next = None
        BY <1>1, <1>7, <1>8, <1>11, <2>3, <3>1
      <3>3. /\ lv.head \in NodeId /\ Live(lv.head)'
            /\ InLevel(lv.head, s2, p2)' /\ arena'[lv.head].prev = None
        <4>1. CASE tail = None
          BY <1>1, <1>8, <1>11, <2>3, <3>1, <4>1
        <4>2. CASE tail # None
          <5>1. level = levels[s2][p2] /\ level # None /\ lv.head = level.head
            BY <1>3, <1>4, <1>8, <2>3, <3>1, <4>2
          <5>2. PICK old : old = level
            OBVIOUS
          <5> QED
            BY <2>1, <5>1, <5>2
        <4> QED
          BY <4>1, <4>2
      <3> QED
        BY <3>2, <3>3
    <2> QED
      BY <2>2, <2>3
  <1>22. Links'
    <2> SUFFICES ASSUME NEW j \in NodeId, Live(j)',
                        NEW x, x = arena'[j].prev, NEW y, y = arena'[j].next
                 PROVE  /\ x = None => LevelOf(j)'.head = j
                        /\ x # None => Live(x)' /\ SameLevel(x, j)' /\ arena'[x].next = j
                        /\ y = None => LevelOf(j)'.tail = j
                        /\ y # None => Live(y)' /\ SameLevel(y, j)' /\ arena'[y].prev = j
      BY DEF Links
    <2>1. CASE j = key
      <3>1. x = tail /\ y = None
        BY <1>1, <1>7, <2>1
      <3>2. x # None => Live(x)' /\ SameLevel(x, j)' /\ arena'[x].next = j
        BY <1>2, <1>7, <1>13, <2>1, <3>1
      <3> QED
        BY <1>8, <1>11, <2>1, <3>1, <3>2
    <2>2. CASE j # key
      <3>1. Live(j) /\ x = arena[j].prev /\ y = IF j = tail THEN key ELSE arena[j].next
        BY <1>2, <2>2
      <3>2. /\ x \in NodeId \cup {None} /\ arena[j].next \in NodeId \cup {None}
        BY <1>6, <3>1
      <3>3. /\ x = None => LevelOf(j).head = j
            /\ x # None => Live(x) /\ SameLevel(x, j) /\ arena[x].next = j
            /\ arena[j].next = None => LevelOf(j).tail = j
            /\ arena[j].next # None =>
                    /\ Live(arena[j].next) /\ SameLevel(arena[j].next, j)
                    /\ arena[arena[j].next].prev = j
        BY <3>1 DEF Shape, Links
      <3>4. x = None => LevelOf(j)'.head = j
        <4>1. Mine(j) => tail # None /\ LevelOf(j) = level
          BY <1>6, <1>7, <3>1
        <4> QED
          BY <1>8, <1>10, <2>2, <3>1, <3>3, <4>1
      <3>5. x # None => Live(x)' /\ SameLevel(x, j)' /\ arena'[x].next = j
        <4> SUFFICES ASSUME x # None PROVE Live(x)' /\ SameLevel(x, j)' /\ arena'[x].next = j
          OBVIOUS
        <4>1. x \in NodeId /\ Live(x) /\ x # key /\ arena[x].next = j
          BY <1>1, <3>2, <3>3
        <4>2. x # tail
          <5>1. j # None
            BY PriceLevelAssumption
          <5> QED
            BY <1>7, <4>1, <5>1, PriceLevelAssumption
        <4> QED
          BY <1>2, <1>12, <2>2, <3>1, <3>3, <4>1, <4>2
      <3>6. CASE j = tail
        <4>1. y = key /\ Mine(j)
          BY <1>7, <3>1, <3>6, PriceLevelAssumption
        <4> QED
          BY <1>1, <1>13, <2>2, <3>1, <3>4, <3>5, <3>6, <4>1
      <3>7. CASE j # tail
        <4>1. y = arena[j].next
          BY <3>1, <3>7
        <4>2. y = None => LevelOf(j)'.tail = j
          <5>1. y = None => ~Mine(j)
            <6>1. Mine(j) => LevelOf(j).tail = tail
              BY <1>6, <3>1 DEF tail
            <6> QED
              BY <3>3, <3>7, <4>1, <6>1
          <5> QED
            BY <1>10, <2>2, <3>1, <3>3, <4>1, <5>1
        <4>3. y # None => Live(y)' /\ SameLevel(y, j)' /\ arena'[y].prev = j
          BY <1>1, <1>2, <1>12, <2>2, <3>1, <3>2, <3>3, <4>1
        <4> QED
          BY <3>4, <3>5, <4>2, <4>3
      <3> QED
        BY <3>6, <3>7
    <2> QED
      BY <2>1, <2>2
  <1>30. PICK f : f = [ahead EXCEPT ![key] = T]
    OBVIOUS
  <1>31. /\ f \in [NodeId -> Nat] /\ f[key] = T
         /\ \A j \in NodeId \ {key} : f[j] = ahead[j]
    <2>1. ahead \in [NodeId -> Nat]
      BY DEF Shape, Measures
    <2> QED
      BY <1>5, <1>30, <2>1
  <1>32. Measures(f)'
    <2>1. ASSUME NEW j \in NodeId, Live(j)', NEW x, x = arena'[j].prev,
                 NEW y, y = arena'[j].next
          PROVE  /\ x = None => f[j] = 0
                 /\ x # None => f[j] = f[x] + Rem(x)'
                 /\ y = None => f[j] + Rem(j)' = LevelOf(j)'.total_qty
                 /\ f[j] + Rem(j)' <= LevelOf(j)'.total_qty
      <3>1. CASE j = key
        <4>1. x = tail /\ f[j] = T /\ Rem(j)' = r /\ LevelOf(j)'.total_qty = T + r
          BY <1>1, <1>8, <1>11, <1>31, <2>1, <3>1
        <4>2. x = None => T = 0
          BY <1>4, <1>7, <4>1 DEF T, tail
        <4>3. x # None => f[x] + Rem(x)' = T
          BY <1>7, <1>10, <1>31, <4>1
        <4> QED
          BY <1>1, <1>5, <4>1, <4>2, <4>3
      <3>2. CASE j # key
        <4>1. /\ Live(j) /\ x = arena[j].prev /\ f[j] = ahead[j] /\ Rem(j)' = Rem(j)
              /\ y = IF j = tail THEN key ELSE arena[j].next
          BY <1>2, <1>10, <1>31, <2>1, <3>2
        <4>2. /\ x \in NodeId \cup {None} /\ ahead[j] \in Nat /\ Rem(j) \in Nat
          BY <1>6, <4>1
        <4>3. /\ x = None => ahead[j] = 0
              /\ x # None => ahead[j] = ahead[x] + Rem(x) /\ Live(x)
              /\ arena[j].next = None => /\ ahead[j] + Rem(j) = LevelOf(j).total_qty
                                         /\ LevelOf(j).tail = j
              /\ ahead[j] + Rem(j) <= LevelOf(j).total_qty
          BY <4>1 DEF Shape, Links, Measures
        <4>4. x # None => f[j] = f[x] + Rem(x)'
          BY <1>1, <1>10, <1>31, <4>1, <4>2, <4>3
        <4>5. CASE Mine(j)
          <5>1. LevelOf(j)'.total_qty = T + r /\ LevelOf(j) = level
            BY <1>6, <1>8, <1>10, <3>2, <4>1, <4>5
          <5>2. y # None
            <6>1. y = None => j # tail /\ arena[j].next = None
              BY <1>1, <4>1
            <6> QED
              BY <4>3, <5>1, <6>1 DEF tail
          <5>3. ahead[j] + Rem(j) <= T
            BY <1>6, <4>1, <4>5
          <5> QED
            BY <1>1, <1>5, <4>1, <4>2, <4>3, <4>4, <5>1, <5>2, <5>3
        <4>6. CASE ~Mine(j)
          <5>1. LevelOf(j)' = LevelOf(j) /\ j # tail
            BY <1>7, <1>10, <3>2, <4>1, <4>6, PriceLevelAssumption
          <5> QED
            BY <4>1, <4>3, <4>4, <5>1
        <4> QED
          BY <4>5, <4>6
      <3> QED
        BY <3>1, <3>2
    <2>2. ASSUME NEW i \in NodeId, NEW j \in NodeId, Live(i)', Live(j)', i # j, SameLevel(i, j)'
          PROVE  f[i] + Rem(i)' <= f[j] \/ f[j] + Rem(j)' <= f[i]
      <3>1. CASE i = key
        <4>1. j # key /\ Live(j)
          BY <1>2, <2>2, <3>1
        <4>2. Mine(j)
          BY <1>14, <2>2, <3>1, <4>1
        <4> QED
          BY <1>6, <1>10, <1>31, <3>1, <4>1, <4>2
      <3>2. CASE j = key
        <4>1. i # key /\ Live(i)
          BY <1>2, <2>2, <3>2
        <4>2. Mine(i)
          BY <1>14, <2>2, <3>2, <4>1
        <4> QED
          BY <1>6, <1>10, <1>31, <3>2, <4>1, <4>2
      <3>3. CASE i # key /\ j # key
        <4>1. Live(i) /\ Live(j) /\ SameLevel(i, j)
          BY <1>2, <1>12, <2>2, <3>3
        <4>2. ahead[i] + Rem(i) <= ahead[j] \/ ahead[j] + Rem(j) <= ahead[i]
          BY <2>2, <4>1 DEF Shape, Measures
        <4> QED
          BY <1>10, <1>31, <3>3, <4>1, <4>2
      <3> QED
        BY <3>1, <3>2, <3>3
    <2> QED
      BY <1>31, <2>1, <2>2 DEF Measures
  <1> QED
    BY <1>20, <1>21, <1>22, <1>32 DEF ShapeInv, Shape
-----------------------------------------------------------------------------
(* The engine's steps are of these three kinds.                            *)

(* Without wrapping, consume_qty either takes the front order out of its   *)
(* level or lowers it.                                                     *)
LEMMA ConsumeLevel ==
    ASSUME NEW level \in Level, NEW a \in Arena, NEW qty \in Word,
           HasFront(level, a), a[level.head].prev = None,
           a[level.head].order.remaining_qty <= level.total_qty
    PROVE  ConsumeQty(level, a, qty).level =
              IF UsesUpFront(level, a, qty) THEN Without(level, a, level.head)
                                            ELSE Lowered(level, qty)
  <1> DEFINE h == level.head
             full == UsesUpFront(level, a, qty)
             fill == FillAmount(level, a, qty)
             left == Front(level, a).remaining_qty - fill
             arena1 == [a EXCEPT ![h].order.remaining_qty = left]
             level1 == [level EXCEPT !.total_qty = Sub64(level.total_qty, fill)]
             r == a[h].order.remaining_qty
             T == level.total_qty
  <1>1. h \in NodeId /\ a[h] \in OrderNode
    BY DEF HasFront, Level, Arena
  <1>2. a[h].order \in Order /\ r \in Nat /\ T \in Nat /\ qty \in Nat /\ r <= T
    BY <1>1, OrdersAssumption DEF OrderNode, Order, Level, Word
  <1>3. fill = IF full THEN r ELSE qty
    BY DEF FillAmount, Front, Least, UsesUpFront
  <1>4. /\ left = IF full THEN 0 ELSE r - qty
        /\ left = 0 <=> full
        /\ Sub64(T, fill) = IF full THEN T - r ELSE T - qty
        /\ Sub64(Sub64(T, fill), 0) = Sub64(T, fill)
    BY <1>2, <1>3 DEF Front, UsesUpFront, Sub64
  <1>5. level1 = [head |-> level.head, tail |-> level.tail, total_qty |-> Sub64(T, fill)]
    BY DEF Level
  <1>6. arena1[h].next = a[h].next /\ arena1[h].order.remaining_qty = left
    BY <1>1, <1>2 DEF Arena, OrderNode, Order
  <1>7. ConsumeQty(level, a, qty) =
            IF left = 0 THEN PopFront(level1, arena1)
                        ELSE [level |-> level1, arena |-> arena1]
    BY DEF ConsumeQty
  <1> HIDE DEF arena1, level1, fill, left, full, r, T
  <1>8. CASE full
    <2>1. ConsumeQty(level, a, qty).level =
            [head |-> a[h].next,
             tail |-> IF a[h].next = None THEN None ELSE level.tail,
             total_qty |-> T - r]
      BY <1>4, <1>5, <1>6, <1>7, <1>8 DEF PopFront
    <2> QED
      BY <1>8, <2>1 DEF Without, r, T, full
  <1>9. CASE ~full
    <2>1. ConsumeQty(level, a, qty).level = level1
      BY <1>4, <1>7, <1>9
    <2>2. level1 = [head |-> level.head, tail |-> level.tail, total_qty |-> T - qty]
      BY <1>4, <1>5, <1>9
    <2> QED
      BY <1>9, <2>1, <2>2 DEF Lowered, T, full
  <1> QED
    BY <1>8, <1>9

(* A trade unlinks the head of the best level or takes all that is asked    *)
(* for off it.                                                             *)
LEMMA MatchMoves ==
    ASSUME TypeInv, ShapeInv, Match
    PROVE  \E p \in Price, h \in NodeId :
            /\ IsBest(OppositeSide(taker.side), p)
            /\ h = levels[OppositeSide(taker.side)][p].head /\ Live(h)
            /\ taker.remaining_qty \in Nat
            /\ Unlinks(h) \/ Lowers(h, taker.remaining_qty)
  <1> USE DEF TypeInv
  <1>0. PICK ahead : Shape(ahead)
    BY DEF ShapeInv
  <1>1. PICK side, qty : side = OppositeSide(taker.side) /\ qty = taker.remaining_qty
    OBVIOUS
  <1>2. side \in Side /\ qty \in Word /\ qty \in Nat
    BY <1>1, OrdersAssumption
    DEF Match, TakerAdmissible, OppositeSide, Side, Order, Word
  <1>3. PICK p \in Price : IsBest(side, p) /\ MatchAtBest(side, p, qty)
    BY <1>1 DEF Match
  <1>4. levels[side][p] # None /\ HasFront(levels[side][p], arena)
    <2>1. PICK q \in Price : IsBest(side, q) /\ HasFront(levels[side][q], arena)
      BY <1>1 DEF Match, LoopContinues, CanMatchAtBest
    <2>2. p = q
      BY <1>3, <2>1, BestUnique
    <2> QED
      BY <1>3, <2>1, <2>2 DEF IsBest, Present
  <1>5. PICK level, h : level = levels[side][p] /\ h = level.head
    OBVIOUS
  <1>6. /\ level \in Level /\ level # None /\ arena \in Arena /\ HasFront(level, arena)
        /\ h \in NodeId /\ Live(h)
        /\ arena[h].order.side = side /\ arena[h].order.price = p /\ arena[h].prev = None
    BY <1>0, <1>2, <1>4, <1>5, FrontType DEF Shape, Ends, InLevel, TypeOK, BookTypeOK
  <1>7. arena[h].order.remaining_qty <= level.total_qty
    <2>1. ahead[h] + Rem(h) <= LevelOf(h).total_qty /\ ahead[h] \in Nat
      BY <1>0, <1>6 DEF Shape, Measures
    <2>2. Rem(h) \in Nat /\ LevelOf(h).total_qty \in Nat /\ LevelOf(h) = level
      BY <1>0, <1>5, <1>6, NodeTypes DEF Shape, LevelOf
    <2> QED
      BY <2>1, <2>2 DEF Rem
  <1>8. PICK consumed : consumed = ConsumeQty(level, arena, qty)
    OBVIOUS
  <1>9. /\ arena' = consumed.arena
        /\ levels' = [levels EXCEPT ![side][p] = Pruned(consumed.level)]
    BY <1>3, <1>5, <1>8 DEF MatchAtBest
  <1>10. consumed.level = IF UsesUpFront(level, arena, qty) THEN Without(level, arena, h)
                                                            ELSE Lowered(level, qty)
    BY <1>2, <1>5, <1>6, <1>7, <1>8, ConsumeLevel
  <1>11. /\ arena'[h] = None <=> UsesUpFront(level, arena, qty)
         /\ ~UsesUpFront(level, arena, qty) =>
                /\ arena'[h].order = Reduced(arena[h].order, qty)
                /\ arena'[h].next = arena[h].next
                /\ arena'[h].prev = arena[h].prev
         /\ \A k \in NodeId \ {h} :
                /\ arena'[k] = None <=> arena[k] = None
                /\ arena[k] # None =>
                    /\ arena'[k].order = arena[k].order
                    /\ arena'[k].next = arena[k].next
                    /\ arena'[k].prev = IF UsesUpFront(level, arena, qty) /\ k = arena[h].next
                                        THEN None ELSE arena[k].prev
    BY <1>2, <1>5, <1>6, <1>8, <1>9, ConsumeNodes
  <1>12. CASE UsesUpFront(level, arena, qty)
    <2>1. consumed.level = Without(level, arena, h)
      BY <1>10, <1>12
    <2>2. ~Live(h)'
      BY <1>11, <1>12 DEF Live
    <2>3. ASSUME NEW j \in NodeId \ {h}
          PROVE  /\ Live(j)' <=> Live(j)
                 /\ Live(j) =>
                    /\ arena'[j].order = arena[j].order
                    /\ arena'[j].next = IF j = arena[h].prev THEN arena[h].next ELSE arena[j].next
                    /\ arena'[j].prev = IF j = arena[h].next THEN arena[h].prev ELSE arena[j].prev
      BY <1>6, <1>11, <1>12, PriceLevelAssumption DEF Live
    <2>4. Unlinks(h)
      BY <1>5, <1>6, <1>9, <2>1, <2>2, <2>3 DEF Unlinks, Pruned, IsEmpty
    <2> QED
      BY <1>1, <1>2, <1>3, <1>5, <1>6, <2>4
  <1>13. CASE ~UsesUpFront(level, arena, qty)
    <2>1. consumed.level = Lowered(level, qty)
      BY <1>10, <1>13
    <2>2. /\ arena[h].order \in Order /\ Rem(h) \in Nat /\ qty < Rem(h)
      BY <1>0, <1>2, <1>5, <1>6, <1>13, NodeTypes DEF Shape, UsesUpFront, Rem
    <2>3. /\ Live(h)' /\ Rem(h)' = Rem(h) - qty
          /\ \A s2, p2 : InLevel(h, s2, p2)' <=> InLevel(h, s2, p2)
      BY <1>11, <1>13, <2>2 DEF Live, Rem, InLevel, Reduced, Order
    <2>4. ASSUME NEW j \in NodeId \ {h}
          PROVE  /\ Live(j)' <=> Live(j)
                 /\ Live(j) =>
                      /\ \A s2, p2 : InLevel(j, s2, p2)' <=> InLevel(j, s2, p2)
                      /\ arena'[j].next = arena[j].next
                      /\ arena'[j].prev = arena[j].prev
                      /\ Rem(j)' = Rem(j)
      BY <1>11, <1>13 DEF Live, Rem, InLevel
    <2>5. levels' = [levels EXCEPT ![side][p] = Lowered(level, qty)]
      <3>1. level.total_qty - qty # 0
        BY <1>2, <1>6, <1>7, <2>2, OrdersAssumption DEF Level, Word, Rem
      <3> QED
        BY <1>9, <2>1, <3>1 DEF Pruned, IsEmpty, Lowered
    <2>6. Lowers(h, qty)
      BY <1>5, <1>6, <1>11, <1>13, <2>2, <2>3, <2>4, <2>5 DEF Lowers
    <2> QED
      BY <1>1, <1>2, <1>3, <1>5, <1>6, <2>6
  <1> QED
    BY <1>12, <1>13

(* A trade keeps the shape.                                                *)
LEMMA MatchShape ==
    ASSUME TypeInv, ShapeInv, Match
    PROVE  ShapeInv'
  <1>1. PICK ahead : Shape(ahead)
    BY DEF ShapeInv
  <1>2. PICK h \in NodeId :
            /\ Live(h) /\ taker.remaining_qty \in Nat
            /\ Unlinks(h) \/ Lowers(h, taker.remaining_qty)
    BY MatchMoves
  <1> QED
    BY <1>1, <1>2, UnlinkShape, LowerShape

(* A cancel unlinks the order that its id leads to.                        *)
LEMMA CancelUnlinks ==
    ASSUME TypeInv, ShapeInv, NEW id \in OrderId, Cancel(id)
    PROVE  /\ order_index[id] \in NodeId /\ Live(order_index[id])
           /\ Unlinks(order_index[id])
  <1>0. PICK ahead : Shape(ahead)
    BY DEF ShapeInv
  <1>1. PICK key : key = order_index[id]
    OBVIOUS
  <1>2. key \in NodeId /\ Live(key)
    BY <1>1 DEF Cancel, RemovalOutcome, IsResting, TypeInv, TypeOK, BookTypeOK, Live
  <1>3. PICK s, p : s = arena[key].order.side /\ p = arena[key].order.price
    OBVIOUS
  <1>4. PICK level : level = levels[s][p]
    OBVIOUS
  <1>5. /\ level \in Level /\ arena \in Arena
        /\ arena[key].order.remaining_qty \in Nat /\ level.total_qty \in Nat
    BY <1>0, <1>2, <1>3, <1>4, NodeTypes DEF Shape, LevelOf, Rem, TypeInv, TypeOK, BookTypeOK
  <1>6. PICK removed : removed = Remove(level, arena, key)
    OBVIOUS
  <1>7. /\ arena' = removed.arena
        /\ levels' = [levels EXCEPT ![s][p] = Pruned(removed.level)]
    BY <1>1, <1>3, <1>4, <1>6 DEF Cancel, RemoveOrder
  <1>8. arena[key].order.remaining_qty <= level.total_qty
    <2>1. ahead[key] + Rem(key) <= LevelOf(key).total_qty /\ ahead[key] \in Nat
      BY <1>0, <1>2 DEF Shape, Measures
    <2>2. LevelOf(key) = level
      BY <1>3, <1>4 DEF LevelOf
    <2> QED
      BY <1>5, <2>1, <2>2 DEF Rem
  <1>9. removed.level = Without(level, arena, key)
    BY <1>5, <1>6, <1>8 DEF Remove, Without, Sub64
  <1>10. /\ arena'[key] = None
         /\ \A k \in NodeId \ {key} :
                /\ arena'[k] = None <=> arena[k] = None
                /\ arena[k] # None =>
                    /\ arena'[k].order = arena[k].order
                    /\ arena'[k].next = IF k = arena[key].prev THEN arena[key].next ELSE arena[k].next
                    /\ arena'[k].prev = IF k = arena[key].next THEN arena[key].prev ELSE arena[k].prev
    BY <1>2, <1>5, <1>6, <1>7, RemoveNodes DEF Live
  <1>11. Unlinks(key)
    BY <1>3, <1>4, <1>7, <1>9, <1>10 DEF Unlinks, Live, Pruned, IsEmpty
  <1> QED
    BY <1>1, <1>2, <1>11

LEMMA CancelShape ==
    ASSUME TypeInv, ShapeInv, NEW id \in OrderId, Cancel(id)
    PROVE  ShapeInv'
  BY CancelUnlinks, UnlinkShape DEF ShapeInv

(* Resting adds the taker's order behind the tail of its level, whose total *)
(* does not wrap.                                                          *)
LEMMA RestAdds ==
    ASSUME TypeInv, TotalsFit, Rest
    PROVE  /\ taker \in Order /\ taker.price \in Price /\ taker.remaining_qty > 0
           /\ LevelAt(taker.side, taker.price).total_qty + taker.remaining_qty < WordSize
           /\ \E key \in NodeId :
                /\ Adds(key, taker)
                /\ order_index' = [order_index EXCEPT ![taker.id] = key]
  <1>1. PICK order, level : order = taker /\ level = LevelAt(order.side, order.price)
    OBVIOUS
  <1>2. /\ order \in Order /\ order.price \in Price /\ order.remaining_qty > 0
        /\ order.side \in Side /\ order.remaining_qty \in Word
    BY <1>1 DEF Rest, TypeInv, TakerAdmissible, Order
  <1>3. level \in Level /\ level.total_qty \in Word
    <2>1. EmptyLevel \in Level
      BY OrdersAssumption DEF EmptyLevel, Level, Word
    <2>2. level \in Level
      BY <1>1, <1>2, <2>1 DEF LevelAt, TypeInv, TypeOK, BookTypeOK
    <2> QED
      BY <2>2 DEF Level
  <1>4. level.total_qty + order.remaining_qty < WordSize
    BY <1>1 DEF TotalsFit, Rest
  <1>5. PICK key \in Vacant(arena) :
            /\ arena' = PushBack(level, arena, order, key).arena
            /\ levels' = [levels EXCEPT ![order.side][order.price] =
                                PushBack(level, arena, order, key).level]
            /\ order_index' = [order_index EXCEPT ![order.id] = key]
    BY <1>1 DEF Rest, InsertResting
  <1>6. key \in NodeId /\ ~Live(key) /\ arena \in Arena
    BY DEF Vacant, Occupied, Live, TypeInv, TypeOK, BookTypeOK
  <1>7. PushBack(level, arena, order, key).level = Longer(level, order, key)
    BY <1>2, <1>3, <1>4, OrdersAssumption DEF PushBack, Longer, Add64, Word
  <1>8. /\ arena'[key] # None /\ arena'[key].order = order /\ arena'[key].prev = level.tail
        /\ level.tail # key => arena'[key].next = None
        /\ \A k \in NodeId \ {key} :
                /\ arena'[k] = None <=> arena[k] = None
                /\ arena[k] # None =>
                    /\ arena'[k].order = arena[k].order
                    /\ arena'[k].prev = arena[k].prev
                    /\ arena'[k].next = IF k = level.tail THEN key ELSE arena[k].next
    BY <1>2, <1>3, <1>5, <1>6, PushBackNodes
  <1>9. Adds(key, order)
    BY <1>1, <1>5, <1>6, <1>7, <1>8 DEF Adds, Live
  <1> QED
    BY <1>1, <1>2, <1>4, <1>5, <1>6, <1>9

(* Resting an order keeps the shape when its level's total does not wrap.  *)
LEMMA RestShape ==
    ASSUME TypeInv, ShapeInv, TotalsFit, Rest
    PROVE  ShapeInv'
  BY RestAdds, AddShape DEF ShapeInv
-----------------------------------------------------------------------------
(* What the shape means for the rest of the book.                          *)

(* Prices are bounded, so of any that are there one is served first.       *)
LEMMA FirstServed ==
    ASSUME NEW side \in Side, NEW P, P \subseteq Price, P # {}
    PROVE  \E p \in P : \A q \in P : ~Better(side, q, p)
  <1> DEFINE top == {WordSize - 1 - x : x \in P}
  <1>1. P \subseteq 0 .. WordSize - 1 /\ WordSize \in Nat
    BY OrdersAssumption
  <1>2. CASE side = "Buy"
    <2>1. top \subseteq Nat /\ top # {}
      BY <1>1
    <2>2. PICK t \in top : \A y \in top : t <= y
      BY <2>1, LeastNatural
    <2>3. PICK p \in P : t = WordSize - 1 - p
      OBVIOUS
    <2>4. \A x \in P : x <= p
      <3> TAKE x \in P
      <3>1. WordSize - 1 - x \in top
        OBVIOUS
      <3>2. WordSize - 1 - p <= WordSize - 1 - x
        BY <2>2, <2>3, <3>1
      <3>3. x \in Nat /\ p \in Nat
        BY <1>1
      <3> QED
        BY <1>1, <3>2, <3>3
    <2>5. \A x \in P : x \in Nat
      BY <1>1
    <2> QED
      BY <1>1, <1>2, <2>3, <2>4, <2>5 DEF Better
  <1>3. CASE side = "Sell"
    <2>1. P \subseteq Nat
      BY <1>1
    <2>2. PICK p \in P : \A y \in P : p <= y
      BY <2>1, LeastNatural
    <2>3. \A x \in P : x \in Nat
      BY <1>1
    <2> QED
      BY <1>1, <1>3, <2>2, <2>3 DEF Better
  <1> QED
    BY <1>2, <1>3 DEF Side

(* A side that has levels has a best one.                                  *)
LEMMA BestExists ==
    ASSUME NEW side \in Side, NEW q \in Present(side)
    PROVE  \E p \in Price : IsBest(side, p) /\ ~Better(side, q, p)
  <1>1. PICK P : P = Present(side) /\ P \subseteq Price /\ P # {}
    BY DEF Present
  <1>2. PICK p \in P : \A r \in P : ~Better(side, r, p)
    BY <1>1, FirstServed
  <1> QED
    BY <1>1, <1>2 DEF IsBest

(* A level is in its map exactly while it has orders.                      *)
LEMMA ShapeLevels ==
    ASSUME TypeInv, ShapeInv
    PROVE  LevelsExact
  <1>0. PICK ahead : Shape(ahead)
    BY DEF ShapeInv
  <1> SUFFICES ASSUME NEW side \in Side, NEW p \in Price
               PROVE  levels[side][p] # None
                        <=> \E k \in Occupied(arena) :
                              arena[k].order.side = side /\ arena[k].order.price = p
    BY DEF LevelsExact
  <1>1. ASSUME levels[side][p] # None
        PROVE  \E k \in Occupied(arena) :
                 arena[k].order.side = side /\ arena[k].order.price = p
    <2>1. PICK h : h = levels[side][p].head
      OBVIOUS
    <2>2. h \in NodeId /\ Live(h) /\ InLevel(h, side, p)
      BY <1>0, <1>1, <2>1 DEF Shape, Ends
    <2> QED
      BY <2>2 DEF Live, InLevel, Occupied
  <1>2. ASSUME NEW k \in Occupied(arena),
               arena[k].order.side = side, arena[k].order.price = p
        PROVE  levels[side][p] # None
    BY <1>0, <1>2 DEF Shape, Filed, Live, LevelOf, Occupied
  <1> QED
    BY <1>1, <1>2

(* remove_order finds the level of every order it finds, and the level has *)
(* at least the quantity of that order.                                    *)
LEMMA ShapeNoPanic ==
    ASSUME TypeInv, ShapeInv, NEW id \in OrderId
    PROVE  RemovalOutcome(id) # "panic"
  <1>0. PICK ahead : Shape(ahead)
    BY DEF ShapeInv
  <1> SUFFICES ASSUME IsResting(id) PROVE RemovalOutcome(id) # "panic"
    BY DEF RemovalOutcome
  <1>1. PICK key : key = order_index[id]
    OBVIOUS
  <1>2. key \in NodeId /\ Live(key)
    BY <1>1 DEF IsResting, TypeInv, TypeOK, BookTypeOK, Live
  <1>3. LevelOf(key) # None
    BY <1>0, <1>2 DEF Shape, Filed
  <1>4. ~(LevelOf(key).total_qty < Rem(key))
    <2>1. ahead[key] + Rem(key) <= LevelOf(key).total_qty /\ ahead[key] \in Nat
      BY <1>0, <1>2 DEF Shape, Measures
    <2>2. Rem(key) \in Nat /\ LevelOf(key).total_qty \in Nat
      BY <1>0, <1>2, NodeTypes DEF Shape
    <2> QED
      BY <2>1, <2>2
  <1> QED
    BY <1>1, <1>3, <1>4 DEF RemovalOutcome, LevelOf, Rem, Remove

(* The loop of match_against_book stops for want of a price, never for     *)
(* want of an order at the best price.                                     *)
LEMMA BestHasFront ==
    ASSUME TypeInv, ShapeInv, NEW side \in Side, NEW p \in Price, IsBest(side, p)
    PROVE  HasFront(levels[side][p], arena)
  <1>0. PICK ahead : Shape(ahead)
    BY DEF ShapeInv
  <1>1. PICK h : h = levels[side][p].head
    OBVIOUS
  <1>2. h \in NodeId /\ Live(h)
    BY <1>0, <1>1 DEF Shape, Ends, IsBest, Present
  <1> QED
    BY <1>1, <1>2, PriceLevelAssumption DEF HasFront, Live

BookInv == TypeInv /\ ShapeInv /\ Uncrossed /\ NoPanic

(* Only resting an order adds a price, and it is one that the other side   *)
(* does not reach.                                                         *)
LEMMA RestUncrossed ==
    ASSUME BookInv, Rest
    PROVE  Uncrossed'
  <1> USE DEF BookInv
  <1>1. PICK order : order = taker
    OBVIOUS
  <1>2. /\ order \in Order /\ order.price \in Price /\ order.side \in Side
        /\ order.order_type = "Limit" /\ order.remaining_qty > 0
    BY <1>1 DEF Rest, TypeInv, TakerAdmissible, Order
  <1>3. PICK opp : opp = OppositeSide(order.side) /\ opp \in Side
    BY DEF OppositeSide, Side
  <1>4. ~Crosses(order)
    <2>1. Crosses(order) => CanMatchAtBest(opp)
      BY <1>3, BestHasFront DEF Crosses, CanMatchAtBest
    <2> QED
      BY <1>1, <1>2, <1>3, <2>1 DEF Rest, LoopContinues
  <1>5. ASSUME NEW q \in Present(opp)
        PROVE  IF order.side = "Buy" THEN order.price < q ELSE q < order.price
    <2>1. PICK p \in Price : IsBest(opp, p) /\ ~Better(opp, q, p)
      BY <1>3, <1>5, BestExists
    <2>2. ~WithinLimit(order.side, order.price, p)
      BY <1>2, <1>3, <1>4, <2>1 DEF Crosses
    <2>3. p \in Nat /\ q \in Nat /\ order.price \in Nat
      <3>1. Price \subseteq Nat
        BY OrdersAssumption
      <3> QED
        BY <1>2, <1>5, <2>1, <3>1 DEF Present
    <2> QED
      BY <1>2, <1>3, <2>1, <2>2, <2>3 DEF WithinLimit, Better, OppositeSide, Side
  <1>6. PICK s, p, new : s = order.side /\ p = order.price
                          /\ levels' = [levels EXCEPT ![s][p] = new]
    <2>1. \E new : levels' = [levels EXCEPT ![order.side][order.price] = new]
      BY <1>1 DEF Rest, InsertResting
    <2> QED
      BY <2>1
  <1>7. \A s2 \in Side, q \in Price : s2 # s \/ q # p => levels'[s2][q] = levels[s2][q]
    BY <1>2, <1>6 DEF TypeInv, TypeOK, BookTypeOK
  <1>8. ASSUME NEW b \in Price, levels'["Buy"][b] # None,
               NEW a \in Price, levels'["Sell"][a] # None
        PROVE  b < a
    <2>1. CASE s = "Buy" /\ b = p
      <3>1. a \in Present(opp)
        BY <1>3, <1>6, <1>7, <1>8, <2>1 DEF Present, OppositeSide, Side
      <3> QED
        BY <1>5, <1>6, <2>1, <3>1
    <2>2. CASE s = "Sell" /\ a = p
      <3>1. b \in Present(opp)
        BY <1>3, <1>6, <1>7, <1>8, <2>2 DEF Present, OppositeSide, Side
      <3> QED
        BY <1>5, <1>6, <2>2, <3>1
    <2>3. CASE ~(s = "Buy" /\ b = p) /\ ~(s = "Sell" /\ a = p)
      <3>1. b \in Present("Buy") /\ a \in Present("Sell")
        BY <1>7, <1>8, <2>3 DEF Present, Side
      <3> QED
        BY <3>1 DEF Uncrossed
    <2> QED
      BY <2>1, <2>2, <2>3
  <1> QED
    BY <1>8 DEF Uncrossed, Present

(* A trade or a cancel rewrites a level that is there.                     *)
LEMMA FewerPrices ==
    ASSUME TypeInv, Uncrossed, NEW s \in Side, NEW p \in Price, levels[s][p] # None,
           NEW new, levels' = [levels EXCEPT ![s][p] = new]
    PROVE  Uncrossed'
  <1>1. \A s2 \in Side, q \in Price : levels'[s2][q] # None => levels[s2][q] # None
    BY DEF TypeInv, TypeOK, BookTypeOK
  <1> QED
    BY <1>1 DEF Uncrossed, Present, Side

(* The book starts empty.                                                  *)
LEMMA BookInvInit == Init => BookInv
  <1> SUFFICES ASSUME Init PROVE BookInv
    OBVIOUS
  <1>1. \A k \in NodeId : ~Live(k)
    BY DEF Init, BookInit, EmptyArena, Live
  <1>2. \A s \in Side, p \in Price : levels[s][p] = None
    BY DEF Init, BookInit
  <1>3. PICK ahead : ahead = [k \in NodeId |-> 0]
    OBVIOUS
  <1>4. ahead \in [NodeId -> Nat]
    BY <1>3
  <1>5. Shape(ahead)
    BY <1>1, <1>2, <1>4 DEF Shape, Filed, Ends, Links, Measures
  <1>6. Uncrossed /\ NoPanic
    BY <1>2 DEF Uncrossed, Present, Side, NoPanic, Init
  <1> QED
    BY <1>5, <1>6, TypeInvInit DEF BookInv, ShapeInv

(* Every step keeps the shape, the sides apart and the engine alive.       *)
LEMMA BookInvNext == BookInv /\ TotalsFit /\ [Next]_vars => BookInv'
  <1> SUFFICES ASSUME BookInv, TotalsFit, [Next]_vars
               PROVE  ShapeInv' /\ Uncrossed' /\ NoPanic'
    BY TypeInvNext DEF BookInv
  <1>0. ASSUME UNCHANGED book PROVE ShapeInv' /\ Uncrossed'
    <2>1. Uncrossed'
      BY <1>0 DEF BookInv, Uncrossed, Present, book
    <2>2. PICK ahead : Shape(ahead)
      BY DEF BookInv, ShapeInv
    <2>3. Shape(ahead)'
      BY <1>0, <2>2
      DEF book, Shape, Filed, Ends, Links, Measures, Live, Rem, InLevel, LevelOf, SameLevel
    <2> QED
      BY <2>1, <2>3 DEF ShapeInv
  <1>1. ASSUME NEW order \in NewOrder, Refuse(order) \/ Admit(order)
        PROVE  ShapeInv' /\ Uncrossed' /\ NoPanic'
    BY <1>0, <1>1 DEF Refuse, Admit, Returns, NoPanic
  <1>2. CASE ScanLevel \/ Kill \/ Filled \/ Discard \/ TakeReply
    BY <1>0, <1>2 DEF ScanLevel, Kill, Filled, Discard, TakeReply, Returns, NoPanic
  <1>3. CASE Match
    <2>0. PICK side : side = OppositeSide(taker.side)
      OBVIOUS
    <2>1. PICK p \in Price : /\ IsBest(side, p)
                             /\ \E new : levels' = [levels EXCEPT ![side][p] = new]
      BY <1>3, <2>0 DEF Match, MatchAtBest
    <2>2. Uncrossed'
      BY <2>0, <2>1, FewerPrices DEF BookInv, IsBest, Present, OppositeSide, Side
    <2> QED
      BY <1>3, <2>2, MatchShape DEF BookInv, Match, NoPanic
  <1>4. CASE Rest
    BY <1>4, RestShape, RestUncrossed DEF BookInv, Rest, Returns, NoPanic
  <1>5. ASSUME NEW id \in OrderId, Cancel(id) PROVE ShapeInv' /\ Uncrossed' /\ NoPanic'
    <2>1. PICK key, s, p : /\ key = order_index[id] /\ s = arena[key].order.side
                           /\ p = arena[key].order.price
      OBVIOUS
    <2>2. arena[key] # None /\ key \in NodeId /\ p # None /\ levels[s][p] # None
      BY <1>5, <2>1
      DEF Cancel, RemovalOutcome, IsResting, BookInv, TypeInv, TypeOK, BookTypeOK
    <2>3. s \in Side /\ p \in Price
      BY <2>1, <2>2 DEF BookInv, TypeInv, TypeOK, BookTypeOK, Arena, OrderNode, Order
    <2>4. PICK new : levels' = [levels EXCEPT ![s][p] = new]
      BY <1>5, <2>1 DEF Cancel, RemoveOrder
    <2>5. Uncrossed'
      BY <2>2, <2>3, <2>4, FewerPrices DEF BookInv
    <2> QED
      BY <1>5, <2>5, CancelShape DEF BookInv, Cancel, Returns, NoPanic
  <1>6. ASSUME NEW id \in OrderId, CancelUnknown(id) PROVE ShapeInv' /\ Uncrossed' /\ NoPanic'
    BY <1>0, <1>6 DEF CancelUnknown, Returns, NoPanic
  <1>7. ASSUME NEW id \in OrderId PROVE ~CancelPanics(id)
    BY ShapeNoPanic DEF CancelPanics, BookInv
  <1>8. CASE UNCHANGED vars
    BY <1>0, <1>8 DEF vars, book, BookInv, NoPanic
  <1> QED
    BY <1>1, <1>2, <1>3, <1>4, <1>5, <1>6, <1>7, <1>8 DEF Next, Submit, Work, CancelOrder

-----------------------------------------------------------------------------
(* A price is a key of bids or asks exactly while an order rests there, in *)
(* every behaviour in which no level's total wraps.                        *)
THEOREM LevelsStayExact == Spec /\ []TotalsFit => []LevelsExact
  <1>1. BookInv => LevelsExact
    BY ShapeLevels DEF BookInv
  <1> QED
    BY <1>1, BookInvInit, BookInvNext, PTL DEF Spec

(* Bids stay below asks: the guarantee that insert_resting relies on and   *)
(* does not check.                                                         *)
THEOREM BookStaysUncrossed == Spec /\ []TotalsFit => []Uncrossed
  <1>1. BookInv => Uncrossed
    BY DEF BookInv
  <1> QED
    BY <1>1, BookInvInit, BookInvNext, PTL DEF Spec

(* The unwrap of a missing ask level and the expect on a level's total, in *)
(* remove_order and remove, never fail.                                    *)
THEOREM CancelNeverPanics == Spec /\ []TotalsFit => []NoPanic
  <1>1. BookInv => NoPanic
    BY DEF BookInv
  <1> QED
    BY <1>1, BookInvInit, BookInvNext, PTL DEF Spec
=============================================================================
