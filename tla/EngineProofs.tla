---------------------------- MODULE EngineProofs ----------------------------
(***************************************************************************)
(* Theorems about Engine, for every value of its constants: every set of   *)
(* ids, prices and quantities, every slab size and every word size. They   *)
(* hold whether or not a sum wraps.                                        *)
(***************************************************************************)
EXTENDS BookShape, TLAPS

-----------------------------------------------------------------------------
(* The operations on one level keep levels levels and arenas arenas.       *)

(* Wrapped sums and differences of words are words.                        *)
LEMMA WordArithmetic ==
    ASSUME NEW a \in Word, NEW b \in Word
    PROVE  /\ Add64(a, b) \in Word
           /\ Sub64(a, b) \in Word
           /\ Least(a, b) \in Word
           /\ Least(a, b) <= a /\ Least(a, b) <= b
           /\ a - Least(a, b) \in Word
  BY OrdersAssumption DEF Word, Add64, Sub64, Least

(* Writing a link, or losing the write, yields an arena.                   *)
LEMMA LinkType ==
    ASSUME NEW a \in Arena, NEW slot, NEW link \in NodeId \cup {None}
    PROVE  WithNext(a, slot, link) \in Arena /\ WithPrev(a, slot, link) \in Arena
  BY PriceLevelAssumption DEF Arena, OrderNode, WithNext, WithPrev

(* push_back yields a level and an arena.                                  *)
LEMMA PushBackType ==
    ASSUME NEW level \in Level, NEW a \in Arena, NEW order \in Order,
           NEW key \in NodeId
    PROVE  /\ PushBack(level, a, order, key).level \in Level
           /\ PushBack(level, a, order, key).arena \in Arena
  <1> DEFINE node == [order |-> order, prev |-> level.tail, next |-> None]
  <1>1. order.remaining_qty \in Word /\ level.total_qty \in Word
    BY DEF Order, Level
  <1>2. Add64(level.total_qty, order.remaining_qty) \in Word
    BY <1>1, WordArithmetic
  <1>3. node \in OrderNode
    BY DEF OrderNode, Level
  <1>4. [a EXCEPT ![key] = node] \in Arena
    BY <1>3 DEF Arena
  <1>5. WithNext([a EXCEPT ![key] = node], level.tail, key) \in Arena
    BY <1>4, LinkType
  <1> QED
    BY <1>2, <1>5 DEF PushBack, Level

(* pop_front yields a level and an arena.                                  *)
LEMMA PopFrontType ==
    ASSUME NEW level \in Level, NEW a \in Arena, HasFront(level, a)
    PROVE  /\ PopFront(level, a).level \in Level
           /\ PopFront(level, a).arena \in Arena
  <1> DEFINE node == a[level.head]
  <1>1. level.head \in NodeId /\ node \in OrderNode
    BY DEF HasFront, Level, Arena
  <1>2. node.order.remaining_qty \in Word /\ level.total_qty \in Word
    BY <1>1 DEF OrderNode, Order, Level
  <1>3. Sub64(level.total_qty, node.order.remaining_qty) \in Word
    BY <1>2, WordArithmetic
  <1>4. [a EXCEPT ![level.head] = None] \in Arena
    BY DEF Arena
  <1>5. WithPrev([a EXCEPT ![level.head] = None], node.next, None) \in Arena
    BY <1>4, LinkType
  <1>6. node.next \in NodeId \cup {None} /\ level.tail \in NodeId \cup {None}
    BY <1>1 DEF OrderNode, Level
  <1> QED
    BY <1>3, <1>5, <1>6 DEF PopFront, Level

(* remove yields a level and an arena.                                     *)
LEMMA RemoveType ==
    ASSUME NEW level \in Level, NEW a \in Arena, NEW key \in NodeId, a[key] # None
    PROVE  /\ Remove(level, a, key).level \in Level
           /\ Remove(level, a, key).arena \in Arena
  <1> DEFINE node == a[key]
             freed == [a EXCEPT ![key] = None]
  <1>1. node \in OrderNode
    BY DEF Arena
  <1>2. node.order.remaining_qty \in Word /\ level.total_qty \in Word
    BY <1>1 DEF OrderNode, Order, Level
  <1>3. Sub64(level.total_qty, node.order.remaining_qty) \in Word
    BY <1>2, WordArithmetic
  <1>4. /\ node.next \in NodeId \cup {None} /\ node.prev \in NodeId \cup {None}
        /\ level.head \in NodeId \cup {None} /\ level.tail \in NodeId \cup {None}
    BY <1>1 DEF OrderNode, Level
  <1>5. freed \in Arena
    BY DEF Arena
  <1>6. WithNext(freed, node.prev, node.next) \in Arena
    BY <1>4, <1>5, LinkType
  <1>7. WithPrev(WithNext(freed, node.prev, node.next), node.next, node.prev) \in Arena
    BY <1>4, <1>6, LinkType
  <1> QED
    BY <1>3, <1>4, <1>7 DEF Remove, Level

(* consume_qty yields a level and an arena, and fills no more than the     *)
(* front order has and no more than was asked.                             *)
LEMMA ConsumeType ==
    ASSUME NEW level \in Level, NEW a \in Arena, NEW qty \in Word,
           HasFront(level, a)
    PROVE  /\ ConsumeQty(level, a, qty).level \in Level
           /\ ConsumeQty(level, a, qty).arena \in Arena
           /\ FillAmount(level, a, qty) \in Word
           /\ qty - FillAmount(level, a, qty) \in Word
  <1> DEFINE fill == FillAmount(level, a, qty)
             left == Front(level, a).remaining_qty - fill
             arena1 == [a EXCEPT ![level.head].order.remaining_qty = left]
             level1 == [level EXCEPT !.total_qty = Sub64(level.total_qty, fill)]
  <1>1. level.head \in NodeId /\ a[level.head] \in OrderNode
    BY DEF HasFront, Level, Arena
  <1>2. Front(level, a) \in Order /\ level.total_qty \in Word
    BY <1>1 DEF Front, OrderNode, Level
  <1>3. fill \in Word /\ qty - fill \in Word /\ left \in Word
    <2>1. Front(level, a).remaining_qty \in Word
      BY <1>2 DEF Order
    <2>2. fill = Least(Front(level, a).remaining_qty, qty)
      BY DEF FillAmount
    <2>3. fill \in Word /\ left \in Word /\ fill <= qty
      BY <2>1, <2>2, WordArithmetic
    <2> QED
      BY <2>3, OrdersAssumption DEF Word
  <1>4. level1 \in Level
    <2>1. Sub64(level.total_qty, fill) \in Word
      BY <1>2, <1>3, WordArithmetic
    <2> QED
      BY <2>1 DEF Level
  <1>5. arena1 \in Arena /\ arena1[level.head] \in OrderNode
    <2>1. [a[level.head].order EXCEPT !.remaining_qty = left] \in Order
      BY <1>1, <1>3 DEF OrderNode, Order
    <2>2. [a[level.head] EXCEPT !.order.remaining_qty = left] \in OrderNode
      BY <1>1, <2>1 DEF OrderNode
    <2>3. arena1 = [a EXCEPT ![level.head] =
                        [a[level.head] EXCEPT !.order.remaining_qty = left]]
      BY <1>1 DEF Arena
    <2> QED
      BY <1>1, <2>2, <2>3 DEF Arena
  <1>6. HasFront(level1, arena1)
    <2>1. level1.head = level.head
      BY DEF Level
    <2> QED
      BY <1>1, <1>5, <2>1, PriceLevelAssumption DEF HasFront
  <1>7. /\ PopFront(level1, arena1).level \in Level
        /\ PopFront(level1, arena1).arena \in Arena
    BY <1>4, <1>5, <1>6, PopFrontType
  <1>8. ConsumeQty(level, a, qty) =
            IF left = 0 THEN PopFront(level1, arena1)
                        ELSE [level |-> level1, arena |-> arena1]
    BY DEF ConsumeQty
  <1> QED
    BY <1>3, <1>4, <1>5, <1>7, <1>8

-----------------------------------------------------------------------------
(* Type correctness.                                                       *)

(* What validate has established of an order that is being worked on.      *)
TakerAdmissible ==
    pc \in {"scan", "match"} =>
        /\ taker \in Order
        /\ taker.order_type = "Limit" => taker.price \in Price
        /\ taker.tif = "GTC" => taker.order_type = "Limit"

(* A call that is over has left its caller something to take.              *)
Answered == pc = "done" => reply # None

TypeInv == TypeOK /\ TakerAdmissible /\ Answered

(* The best price of a side is one price.                                  *)
LEMMA BestUnique ==
    ASSUME NEW side, NEW p, NEW q, IsBest(side, p), IsBest(side, q)
    PROVE  p = q
  BY OrdersAssumption DEF IsBest, Present, Better

(* The orders a caller builds are orders.                                  *)
LEMMA NewOrderType ==
    ASSUME NEW order \in NewOrder
    PROVE  order \in Order
  BY OrdersAssumption DEF NewOrder, Order, Word

(* What a call returns with is a reply.                                    *)
LEMMA ReplyType ==
    /\ \A e \in EngineError : ErrReply(e) \in Reply
    /\ \A es \in Seq(BookEvent) : OkReply(es) \in Reply
    /\ \A id \in OrderId : Accepted(id) \in BookEvent /\ Cancelled(id) \in BookEvent
    /\ \A id \in OrderId, p \in Price, q \in Word : RestingOnBook(id, p, q) \in BookEvent
    /\ \A id \in OrderId, t \in Order, p \in Price, q \in Word :
            Trade(id, t, p, q) \in BookEvent
  <1>1. \A e \in EngineError : ErrReply(e) \in Reply
    BY DEF ErrReply, Reply
  <1>2. \A es \in Seq(BookEvent) : OkReply(es) \in Reply
    BY DEF OkReply, Reply
  <1>3. \A id \in OrderId : Accepted(id) \in BookEvent /\ Cancelled(id) \in BookEvent
    BY DEF Accepted, Cancelled, BookEvent
  <1>4. \A id \in OrderId, p \in Price, q \in Word : RestingOnBook(id, p, q) \in BookEvent
    BY DEF RestingOnBook, BookEvent
  <1>5. \A id \in OrderId, t \in Order, p \in Price, q \in Word :
            Trade(id, t, p, q) \in BookEvent
    BY DEF Trade, BookEvent, Order
  <1> QED
    BY <1>1, <1>2, <1>3, <1>4, <1>5

(* A call that returns leaves variables of their types and no taker to     *)
(* work on.                                                                *)
LEMMA ReturnsType ==
    ASSUME TypeInv, NEW r \in Reply, Returns(r), BookTypeOK',
           taker' \in Order \cup {None}
    PROVE  TypeInv'
  <1>1. << >> \in Seq(BookEvent) /\ 0 \in Word
    BY OrdersAssumption DEF Word
  <1> QED
    BY <1>1, NoneAssumption DEF Returns, TypeInv, TypeOK, TakerAdmissible, Answered, PC

(* The level a fill is taken from, and who is at its front.                *)
LEMMA FrontType ==
    ASSUME BookTypeOK, NEW side \in Side, NEW p \in Price,
           levels[side][p] # None, HasFront(levels[side][p], arena)
    PROVE  /\ levels[side][p] \in Level
           /\ levels[side][p].head \in NodeId
           /\ arena[levels[side][p].head] \in OrderNode
           /\ Front(levels[side][p], arena) \in Order
  BY DEF BookTypeOK, HasFront, Level, Arena, OrderNode, Front

(* match_at_best keeps the book's types.                                   *)
LEMMA MatchAtBestType ==
    ASSUME BookTypeOK, NEW side \in Side, NEW p \in Price, NEW qty \in Word,
           levels[side][p] # None, HasFront(levels[side][p], arena),
           MatchAtBest(side, p, qty)
    PROVE  BookTypeOK'
  <1> DEFINE consumed == ConsumeQty(levels[side][p], arena, qty)
  <1>1. consumed.level \in Level /\ consumed.arena \in Arena
    BY FrontType, ConsumeType DEF BookTypeOK
  <1>2. Pruned(consumed.level) \in Level \cup {None}
    BY <1>1 DEF Pruned
  <1>3. arena' \in Arena
    BY <1>1 DEF MatchAtBest
  <1>4. levels' \in [Side -> [Price -> Level \cup {None}]]
    BY <1>2 DEF MatchAtBest, BookTypeOK
  <1>5. order_index' \in [OrderId -> NodeId \cup {None}]
    BY DEF MatchAtBest, BookTypeOK
  <1> QED
    BY <1>3, <1>4, <1>5 DEF BookTypeOK

(* insert_resting keeps the book's types.                                  *)
LEMMA InsertRestingType ==
    ASSUME BookTypeOK, NEW order \in Order, order.price \in Price,
           InsertResting(order)
    PROVE  BookTypeOK'
  <1> DEFINE level == LevelAt(order.side, order.price)
  <1>1. PICK key \in Vacant(arena) :
            /\ arena' = PushBack(level, arena, order, key).arena
            /\ levels' = [levels EXCEPT ![order.side][order.price] =
                            PushBack(level, arena, order, key).level]
            /\ order_index' = [order_index EXCEPT ![order.id] = key]
    BY DEF InsertResting
  <1>2. order.side \in Side /\ order.id \in OrderId
    BY DEF Order
  <1>3. level \in Level
    <2>1. EmptyLevel \in Level
      BY OrdersAssumption DEF EmptyLevel, Level, Word
    <2> QED
      BY <1>2, <2>1 DEF LevelAt, BookTypeOK
  <1>4. key \in NodeId
    BY DEF Vacant
  <1>5. /\ PushBack(level, arena, order, key).level \in Level
        /\ PushBack(level, arena, order, key).arena \in Arena
    BY <1>3, <1>4, PushBackType DEF BookTypeOK
  <1> HIDE DEF level
  <1> QED
    BY <1>1, <1>2, <1>4, <1>5 DEF BookTypeOK

(* remove_order keeps the book's types, in the case that it removes.       *)
LEMMA RemoveOrderType ==
    ASSUME BookTypeOK, NEW id \in OrderId, RemovalOutcome(id) = "removed",
           RemoveOrder(id)
    PROVE  BookTypeOK'
  <1> DEFINE key == order_index[id]
             order == arena[key].order
             removed == Remove(levels[order.side][order.price], arena, key)
  <1>1. key \in NodeId /\ arena[key] # None
    BY DEF RemovalOutcome, IsResting, BookTypeOK
  <1>2. order \in Order
    BY <1>1 DEF BookTypeOK, Arena, OrderNode
  <1>3. order.side \in Side /\ order.price \in Price
        /\ levels[order.side][order.price] # None
    BY <1>2 DEF RemovalOutcome, Order
  <1>4. levels[order.side][order.price] \in Level
    BY <1>3 DEF BookTypeOK
  <1>5. removed.level \in Level /\ removed.arena \in Arena
    BY <1>1, <1>4, RemoveType DEF BookTypeOK
  <1>6. Pruned(removed.level) \in Level \cup {None}
    BY <1>5 DEF Pruned
  <1>7. arena' \in Arena
    BY <1>5 DEF RemoveOrder
  <1>8. levels' \in [Side -> [Price -> Level \cup {None}]]
    BY <1>3, <1>6 DEF RemoveOrder, BookTypeOK
  <1>9. order_index' \in [OrderId -> NodeId \cup {None}]
    BY DEF RemoveOrder, BookTypeOK
  <1> QED
    BY <1>7, <1>8, <1>9 DEF BookTypeOK

(* A new engine is of the right types.                                     *)
LEMMA TypeInvInit == Init => TypeInv
  <1> SUFFICES ASSUME Init PROVE TypeInv
    OBVIOUS
  <1>1. BookTypeOK
    BY DEF Init, BookInit, BookTypeOK, EmptyArena, Arena
  <1>2. << >> \in Seq(BookEvent) /\ 0 \in Word
    BY OrdersAssumption DEF Word
  <1> QED
    BY <1>1, <1>2 DEF Init, TypeInv, TypeOK, TakerAdmissible, Answered, PC

(* Every step of a call keeps the types, and keeps working on an order     *)
(* that validate let through.                                              *)
LEMMA TypeInvNext == TypeInv /\ [Next]_vars => TypeInv'
  <1> SUFFICES ASSUME TypeInv, [Next]_vars PROVE TypeInv'
    OBVIOUS
  <1> USE DEF TypeInv
  <1>0. BookTypeOK /\ UNCHANGED book => BookTypeOK'
    BY DEF book, BookTypeOK
  <1>1. ASSUME NEW order \in NewOrder, Refuse(order) PROVE TypeInv'
    <2>1. Fault(order) \in EngineError
      BY <1>1 DEF Refuse, Fault, EngineError
    <2>2. ErrReply(Fault(order)) \in Reply
      BY <2>1, ReplyType
    <2>3. Returns(ErrReply(Fault(order))) /\ BookTypeOK' /\ taker' \in Order \cup {None}
      BY <1>0, <1>1, NewOrderType DEF Refuse, TypeOK
    <2> QED
      BY <2>2, <2>3, ReturnsType
  <1>2. ASSUME NEW order \in NewOrder, Admit(order) PROVE TypeInv'
    <2>1. order \in Order
      BY NewOrderType
    <2>2. /\ order.order_type = "Limit" => order.price \in Price
          /\ order.tif = "GTC" => order.order_type = "Limit"
      <3>1. order.order_type = "Limit" => order.price # None
        BY <1>2 DEF Admit, Fault
      <3>2. order.tif = "GTC" => order.order_type # "Market"
        BY <1>2 DEF Admit, Fault
      <3> QED
        BY <2>1, <3>1, <3>2 DEF Order, OrderType
    <2>3. <<Accepted(order.id)>> \in Seq(BookEvent)
      <3>1. Accepted(order.id) \in BookEvent
        BY <2>1, ReplyType DEF Order
      <3> QED
        BY <3>1
    <2> QED
      BY <1>0, <1>2, <2>1, <2>2, <2>3 DEF Admit, TypeOK, TakerAdmissible, Answered, PC
  <1>3. CASE ScanLevel
    <2> DEFINE side == OppositeSide(taker.side)
    <2>1. taker \in Order /\ side \in Side
      BY <1>3 DEF ScanLevel, TakerAdmissible, OppositeSide, Side
    <2>2. PICK p \in Price :
            /\ CountsTowardFill(p)
            /\ cursor' = p
            /\ accumulated' = Add64(accumulated, levels[side][p].total_qty)
      BY <1>3 DEF ScanLevel
    <2>3. levels[side][p] \in Level
      BY <2>1, <2>2 DEF CountsTowardFill, IsNextLevel, Present, TypeOK, BookTypeOK
    <2>4. levels[side][p].total_qty \in Word
      BY <2>3 DEF Level
    <2>5. accumulated' \in Word
      BY <2>2, <2>4, WordArithmetic DEF TypeOK
    <2>6. BookTypeOK' /\ taker' = taker /\ events' = events /\ reply' = reply
      BY <1>0, <1>3 DEF ScanLevel, TypeOK
    <2>7. pc' \in {"scan", "match"} /\ pc = "scan"
      BY <1>3 DEF ScanLevel
    <2> QED
      BY <2>2, <2>5, <2>6, <2>7 DEF TypeOK, TakerAdmissible, Answered, PC
  <1>4. CASE Kill
    <2>1. ErrReply("FokNotFillable") \in Reply
      BY ReplyType DEF EngineError
    <2>2. /\ Returns(ErrReply("FokNotFillable"))
          /\ BookTypeOK' /\ taker' \in Order \cup {None}
      BY <1>0, <1>4 DEF Kill, TypeOK
    <2> QED
      BY <2>1, <2>2, ReturnsType
  <1>5. CASE Match
    <2> DEFINE side == OppositeSide(taker.side)
    <2>1. taker \in Order /\ side \in Side /\ taker.remaining_qty \in Word
      BY <1>5 DEF Match, TakerAdmissible, OppositeSide, Side, Order
    <2>2. PICK p \in Price :
            /\ IsBest(side, p)
            /\ MatchAtBest(side, p, taker.remaining_qty)
            /\ taker' = [taker EXCEPT !.remaining_qty =
                            @ - FillAmount(levels[side][p], arena, taker.remaining_qty)]
            /\ events' = Append(events, Trade(Front(levels[side][p], arena).id, taker, p,
                            FillAmount(levels[side][p], arena, taker.remaining_qty)))
      BY <1>5 DEF Match
    <2>3. levels[side][p] # None /\ HasFront(levels[side][p], arena)
      <3>1. PICK q \in Price : IsBest(side, q) /\ HasFront(levels[side][q], arena)
        BY <1>5 DEF Match, LoopContinues, CanMatchAtBest
      <3>2. p = q
        BY <2>2, <3>1, BestUnique
      <3> QED
        BY <2>2, <3>1, <3>2 DEF IsBest, Present
    <2> DEFINE fill == FillAmount(levels[side][p], arena, taker.remaining_qty)
    <2>4. levels[side][p] \in Level /\ Front(levels[side][p], arena).id \in OrderId
      BY <2>1, <2>3, FrontType DEF TypeOK, Order
    <2>5. fill \in Word /\ taker.remaining_qty - fill \in Word
      BY <2>1, <2>3, <2>4, ConsumeType DEF TypeOK, BookTypeOK
    <2>6. BookTypeOK'
      BY <2>1, <2>2, <2>3, MatchAtBestType DEF TypeOK
    <2>7. Trade(Front(levels[side][p], arena).id, taker, p, fill) \in BookEvent
      BY <2>1, <2>4, <2>5, ReplyType
    <2>8. events' \in Seq(BookEvent)
      BY <2>2, <2>7 DEF TypeOK
    <2>9. /\ taker' \in Order /\ taker'.order_type = taker.order_type
          /\ taker'.price = taker.price /\ taker'.tif = taker.tif
      <3> HIDE DEF fill
      <3>1. taker' = [taker EXCEPT !.remaining_qty = taker.remaining_qty - fill]
        BY <2>2 DEF fill
      <3> QED
        BY <2>1, <2>5, <3>1 DEF Order
    <2>10. pc = "match" /\ UNCHANGED <<pc, accumulated, cursor, reply>>
      BY <1>5 DEF Match
    <2> QED
      BY <2>6, <2>8, <2>9, <2>10 DEF TypeOK, TakerAdmissible, Answered
  <1>6. CASE Filled
    <2>1. OkReply(events) \in Reply
      BY ReplyType DEF TypeOK
    <2>2. Returns(OkReply(events)) /\ BookTypeOK' /\ taker' \in Order \cup {None}
      BY <1>0, <1>6 DEF Filled, TypeOK
    <2> QED
      BY <2>1, <2>2, ReturnsType
  <1>7. CASE Rest
    <2> DEFINE e == RestingOnBook(taker.id, taker.price, taker.remaining_qty)
    <2>1. taker \in Order /\ taker.price \in Price
      BY <1>7 DEF Rest, TakerAdmissible
    <2>2. e \in BookEvent
      BY <2>1, ReplyType DEF Order
    <2>3. Append(events, e) \in Seq(BookEvent)
      BY <2>2 DEF TypeOK
    <2>4. OkReply(Append(events, e)) \in Reply
      BY <2>3, ReplyType
    <2>5. BookTypeOK'
      BY <1>7, <2>1, InsertRestingType DEF Rest, TypeOK
    <2>6. Returns(OkReply(Append(events, e))) /\ taker' \in Order \cup {None}
      BY <1>7 DEF Rest, TypeOK
    <2> QED
      BY <2>4, <2>5, <2>6, ReturnsType
  <1>8. CASE Discard
    <2> DEFINE es == IF taker.tif = "IOC" THEN Append(events, Cancelled(taker.id))
                                          ELSE events
    <2>1. Cancelled(taker.id) \in BookEvent
      BY <1>8, ReplyType DEF Discard, TakerAdmissible, Order
    <2>2. OkReply(es) \in Reply
      <3>1. es \in Seq(BookEvent)
        BY <2>1 DEF TypeOK
      <3> QED
        BY <3>1, ReplyType
    <2>3. Returns(OkReply(es)) /\ BookTypeOK' /\ taker' \in Order \cup {None}
      BY <1>0, <1>8 DEF Discard, TypeOK
    <2> QED
      BY <2>2, <2>3, ReturnsType
  <1>9. ASSUME NEW id \in OrderId, Cancel(id) PROVE TypeInv'
    <2>1. <<Cancelled(id)>> \in Seq(BookEvent)
      <3>1. Cancelled(id) \in BookEvent
        BY ReplyType
      <3> QED
        BY <3>1
    <2>2. OkReply(<<Cancelled(id)>>) \in Reply
      BY <2>1, ReplyType
    <2>3. BookTypeOK'
      BY <1>9, RemoveOrderType DEF Cancel, TypeOK
    <2>4. Returns(OkReply(<<Cancelled(id)>>)) /\ taker' \in Order \cup {None}
      BY <1>9 DEF Cancel, TypeOK
    <2> QED
      BY <2>2, <2>3, <2>4, ReturnsType
  <1>10. ASSUME NEW id \in OrderId, CancelUnknown(id) PROVE TypeInv'
    <2>1. ErrReply("OrderNotFound") \in Reply
      BY ReplyType DEF EngineError
    <2>2. /\ Returns(ErrReply("OrderNotFound"))
          /\ BookTypeOK' /\ taker' \in Order \cup {None}
      BY <1>0, <1>10 DEF CancelUnknown, TypeOK
    <2> QED
      BY <2>1, <2>2, ReturnsType
  <1>11. ASSUME NEW id \in OrderId, CancelPanics(id) PROVE TypeInv'
    BY <1>0, <1>11 DEF CancelPanics, TypeOK, TakerAdmissible, Answered, PC
  <1>12. CASE TakeReply
    BY <1>0, <1>12 DEF TakeReply, TypeOK, TakerAdmissible, Answered, PC
  <1>13. CASE UNCHANGED vars
    BY <1>13 DEF vars, TypeOK, BookTypeOK, TakerAdmissible, Answered
  <1> QED
    BY <1>1, <1>2, <1>3, <1>4, <1>5, <1>6, <1>7, <1>8, <1>9, <1>10, <1>11, <1>12, <1>13
    DEF Next, Submit, Work, CancelOrder

(* Every variable of the engine keeps its type: prices and quantities stay *)
(* machine words, links stay slab keys, and what a call returns is a list  *)
(* of events or an error.                                                  *)
THEOREM TypeCorrect == Spec => []TypeOK
  <1>1. TypeInv => TypeOK
    BY DEF TypeInv
  <1> QED
    BY <1>1, TypeInvInit, TypeInvNext, PTL DEF Spec

-----------------------------------------------------------------------------
(* What each operation does to each node of the arena.                     *)

(* Writing a link touches that link of that node and nothing else.         *)
LEMMA LinkNodes ==
    ASSUME NEW a \in Arena, NEW slot, NEW link \in NodeId \cup {None},
           NEW k \in NodeId
    PROVE  /\ WithNext(a, slot, link)[k] = None <=> a[k] = None
           /\ WithPrev(a, slot, link)[k] = None <=> a[k] = None
           /\ a[k] # None =>
                /\ WithNext(a, slot, link)[k].order = a[k].order
                /\ WithNext(a, slot, link)[k].prev = a[k].prev
                /\ WithNext(a, slot, link)[k].next = IF k = slot THEN link ELSE a[k].next
                /\ WithPrev(a, slot, link)[k].order = a[k].order
                /\ WithPrev(a, slot, link)[k].next = a[k].next
                /\ WithPrev(a, slot, link)[k].prev = IF k = slot THEN link ELSE a[k].prev
  <1>1. CASE a[k] = None
    BY <1>1 DEF WithNext, WithPrev
  <1>2. CASE a[k] # None
    <2>1. a[k] \in OrderNode
      BY <1>2 DEF Arena
    <2>2. [a[k] EXCEPT !.next = link] \in OrderNode /\ [a[k] EXCEPT !.prev = link] \in OrderNode
      BY <2>1 DEF OrderNode
    <2>3. [a[k] EXCEPT !.next = link] # None /\ [a[k] EXCEPT !.prev = link] # None
      BY <2>2, PriceLevelAssumption
    <2>4. WithNext(a, slot, link)[k] =
            IF k = slot THEN [a[k] EXCEPT !.next = link] ELSE a[k]
      BY <1>2 DEF WithNext
    <2>5. WithPrev(a, slot, link)[k] =
            IF k = slot THEN [a[k] EXCEPT !.prev = link] ELSE a[k]
      BY <1>2 DEF WithPrev
    <2> QED
      BY <1>2, <2>1, <2>3, <2>4, <2>5 DEF OrderNode
  <1> QED
    BY <1>1, <1>2

(* push_back stores the order and links it behind the old tail.            *)
LEMMA PushBackNodes ==
    ASSUME NEW level \in Level, NEW a \in Arena, NEW order \in Order,
           NEW key \in NodeId, NEW b, b = PushBack(level, a, order, key).arena
    PROVE  /\ b[key] # None /\ b[key].order = order /\ b[key].prev = level.tail
           /\ level.tail # key => b[key].next = None
           /\ \A k \in NodeId \ {key} :
                /\ b[k] = None <=> a[k] = None
                /\ a[k] # None =>
                    /\ b[k].order = a[k].order
                    /\ b[k].prev = a[k].prev
                    /\ b[k].next = IF k = level.tail THEN key ELSE a[k].next
  <1> DEFINE node == [order |-> order, prev |-> level.tail, next |-> None]
             stored == [a EXCEPT ![key] = node]
  <1>1. node \in OrderNode /\ node # None
    <2>1. node \in OrderNode
      BY DEF OrderNode, Level
    <2> QED
      BY <2>1, PriceLevelAssumption
  <1>2. stored \in Arena /\ stored[key] = node
    BY <1>1 DEF Arena
  <1>3. \A k \in NodeId \ {key} : stored[k] = a[k]
    BY DEF Arena
  <1>4. b = WithNext(stored, level.tail, key)
    BY DEF PushBack
  <1> HIDE DEF stored
  <1>5. /\ b[key] # None /\ b[key].order = node.order /\ b[key].prev = node.prev
        /\ b[key].next = IF key = level.tail THEN key ELSE node.next
    BY <1>1, <1>2, <1>4, LinkNodes
  <1>6. ASSUME NEW k \in NodeId \ {key}
        PROVE  /\ b[k] = None <=> a[k] = None
               /\ a[k] # None =>
                    /\ b[k].order = a[k].order
                    /\ b[k].prev = a[k].prev
                    /\ b[k].next = IF k = level.tail THEN key ELSE a[k].next
    BY <1>2, <1>3, <1>4, LinkNodes
  <1> QED
    BY <1>5, <1>6

(* remove frees one slot and links its two neighbours to each other.       *)
LEMMA RemoveNodes ==
    ASSUME NEW level \in Level, NEW a \in Arena, NEW key \in NodeId, a[key] # None,
           NEW b, b = Remove(level, a, key).arena
    PROVE  /\ b[key] = None
           /\ \A k \in NodeId \ {key} :
                /\ b[k] = None <=> a[k] = None
                /\ a[k] # None =>
                    /\ b[k].order = a[k].order
                    /\ b[k].next = IF k = a[key].prev THEN a[key].next ELSE a[k].next
                    /\ b[k].prev = IF k = a[key].next THEN a[key].prev ELSE a[k].prev
  <1> DEFINE freed == [a EXCEPT ![key] = None]
             once == WithNext(freed, a[key].prev, a[key].next)
  <1>1. a[key].prev \in NodeId \cup {None} /\ a[key].next \in NodeId \cup {None}
    BY DEF Arena, OrderNode
  <1>2. freed \in Arena /\ freed[key] = None /\ \A k \in NodeId \ {key} : freed[k] = a[k]
    BY DEF Arena
  <1> HIDE DEF freed
  <1>3. once \in Arena
    BY <1>1, <1>2, LinkType
  <1>4. b = WithPrev(once, a[key].next, a[key].prev)
    BY DEF Remove, freed
  <1>5. b[key] = None
    <2>1. once[key] = None
      BY <1>1, <1>2, LinkNodes
    <2> HIDE DEF once
    <2> QED
      BY <1>1, <1>3, <1>4, <2>1, LinkNodes
  <1>6. ASSUME NEW k \in NodeId \ {key}
        PROVE  /\ b[k] = None <=> a[k] = None
               /\ a[k] # None =>
                    /\ b[k].order = a[k].order
                    /\ b[k].next = IF k = a[key].prev THEN a[key].next ELSE a[k].next
                    /\ b[k].prev = IF k = a[key].next THEN a[key].prev ELSE a[k].prev
    <2>1. freed[k] = a[k]
      BY <1>2
    <2>2. /\ once[k] = None <=> a[k] = None
          /\ a[k] # None =>
                /\ once[k].order = a[k].order
                /\ once[k].prev = a[k].prev
                /\ once[k].next = IF k = a[key].prev THEN a[key].next ELSE a[k].next
      BY <1>1, <1>2, <2>1, LinkNodes
    <2> HIDE DEF once
    <2> QED
      BY <1>1, <1>3, <1>4, <2>2, LinkNodes
  <1> QED
    BY <1>5, <1>6

(* consume_qty(qty) leaves nothing of the front order.                     *)
UsesUpFront(level, a, qty) == a[level.head].order.remaining_qty <= qty

(* What is left of an order after a partial fill.                          *)
Reduced(order, qty) == [order EXCEPT !.remaining_qty = @ - qty]

(* consume_qty takes the quantity off the front order, and unlinks it when *)
(* nothing is left of it.                                                  *)
LEMMA ConsumeNodes ==
    ASSUME NEW level \in Level, NEW a \in Arena, NEW qty \in Word,
           HasFront(level, a),
           NEW b, b = ConsumeQty(level, a, qty).arena
    PROVE  /\ level.head \in NodeId /\ a[level.head] # None
           /\ b[level.head] = None <=> UsesUpFront(level, a, qty)
           /\ ~UsesUpFront(level, a, qty) =>
                /\ b[level.head].order = Reduced(a[level.head].order, qty)
                /\ b[level.head].next = a[level.head].next
                /\ b[level.head].prev = a[level.head].prev
           /\ \A k \in NodeId \ {level.head} :
                /\ b[k] = None <=> a[k] = None
                /\ a[k] # None =>
                    /\ b[k].order = a[k].order
                    /\ b[k].next = a[k].next
                    /\ b[k].prev = IF UsesUpFront(level, a, qty) /\ k = a[level.head].next
                                   THEN None ELSE a[k].prev
  <1> DEFINE h == level.head
             full == UsesUpFront(level, a, qty)
             fill == FillAmount(level, a, qty)
             left == Front(level, a).remaining_qty - fill
             node1 == [a[h] EXCEPT !.order.remaining_qty = left]
             arena1 == [a EXCEPT ![h].order.remaining_qty = left]
             level1 == [level EXCEPT !.total_qty = Sub64(level.total_qty, fill)]
  <1>1. h \in NodeId /\ a[h] # None /\ a[h] \in OrderNode
    BY DEF HasFront, Level, Arena
  <1>2. a[h].order \in Order /\ a[h].order.remaining_qty \in Word /\ a[h].next \in NodeId \cup {None}
    BY <1>1 DEF OrderNode, Order
  <1>3. fill = IF full THEN a[h].order.remaining_qty ELSE qty
    BY DEF FillAmount, Front, Least, UsesUpFront
  <1>4. /\ left \in Word
        /\ left = 0 <=> full
        /\ ~full => left = a[h].order.remaining_qty - qty
    BY <1>2, <1>3, OrdersAssumption DEF Front, Word, UsesUpFront
  <1>5. /\ arena1 \in Arena /\ arena1[h] = node1 /\ node1 # None
        /\ \A k \in NodeId \ {h} : arena1[k] = a[k]
    <2>1. arena1[h] = node1 /\ \A k \in NodeId \ {h} : arena1[k] = a[k]
      BY <1>1 DEF Arena
    <2>2. node1 \in OrderNode
      <3>1. [a[h].order EXCEPT !.remaining_qty = left] \in Order
        BY <1>2, <1>4 DEF Order
      <3> QED
        BY <1>1, <3>1 DEF OrderNode
    <2>3. arena1 \in Arena
      <3>1. arena1 = [a EXCEPT ![h] = node1]
        BY <1>1 DEF Arena
      <3> QED
        BY <1>1, <2>2, <3>1 DEF Arena
    <2> QED
      BY <2>1, <2>2, <2>3, PriceLevelAssumption
  <1>6. level1.head = h
    BY DEF Level
  <1>7. node1.order = [a[h].order EXCEPT !.remaining_qty = left]
        /\ node1.next = a[h].next /\ node1.prev = a[h].prev
    BY <1>1 DEF OrderNode
  <1>8. ConsumeQty(level, a, qty) =
            IF left = 0 THEN PopFront(level1, arena1)
                        ELSE [level |-> level1, arena |-> arena1]
    BY DEF ConsumeQty
  <1> HIDE DEF arena1, level1, fill, left, node1
  <1>9. CASE full
    <2> DEFINE freed == [arena1 EXCEPT ![h] = None]
    <2>1. b = WithPrev(freed, a[h].next, None)
      BY <1>4, <1>5, <1>6, <1>7, <1>8, <1>9 DEF PopFront
    <2>2. freed \in Arena /\ freed[h] = None /\ \A k \in NodeId \ {h} : freed[k] = a[k]
      BY <1>1, <1>5 DEF Arena
    <2> HIDE DEF freed
    <2>3. b[h] = None
      BY <1>1, <2>1, <2>2, LinkNodes
    <2>4. ASSUME NEW k \in NodeId \ {h}
          PROVE  /\ b[k] = None <=> a[k] = None
                 /\ a[k] # None =>
                      /\ b[k].order = a[k].order
                      /\ b[k].next = a[k].next
                      /\ b[k].prev = IF k = a[h].next THEN None ELSE a[k].prev
      BY <2>1, <2>2, LinkNodes
    <2> QED
      BY <1>1, <1>9, <2>3, <2>4
  <1>10. CASE ~full
    <2>1. b = arena1
      BY <1>4, <1>8, <1>10
    <2>2. node1.order = Reduced(a[h].order, qty)
      BY <1>4, <1>7, <1>10 DEF Reduced
    <2> QED
      BY <1>1, <1>5, <1>7, <1>10, <2>1, <2>2
  <1> QED
    BY <1>9, <1>10

-----------------------------------------------------------------------------
(* The index.                                                              *)

(* The order being worked on is not a resting one, so resting it cannot    *)
(* take another order's entry in order_index.                              *)
TakerUnindexed == pc \in {"scan", "match"} => order_index[taker.id] = None

IndexInv == TypeInv /\ IndexExact /\ TakerUnindexed

(* A new engine has an empty arena and an empty index.                     *)
LEMMA IndexInvInit == Init => IndexInv
  <1> SUFFICES ASSUME Init PROVE IndexInv
    OBVIOUS
  <1>1. \A k \in NodeId : arena[k] = None
    BY DEF Init, BookInit, EmptyArena
  <1>2. \A id \in OrderId : order_index[id] = None
    BY DEF Init, BookInit
  <1> QED
    BY <1>1, <1>2, TypeInvInit DEF IndexInv, IndexExact, Occupied, TakerUnindexed, Init

(* The index survives a trade: an order that is used up leaves it together *)
(* with its slot, any other keeps both.                                    *)
LEMMA MatchIndex ==
    ASSUME IndexInv, Match
    PROVE  /\ IndexExact'
           /\ \A id \in OrderId : order_index[id] = None => order_index'[id] = None
           /\ taker'.id = taker.id
  <1> USE DEF IndexInv, TypeInv
  <1> DEFINE side == OppositeSide(taker.side)
  <1>1. taker \in Order /\ side \in Side /\ taker.remaining_qty \in Word
    BY DEF Match, TakerAdmissible, OppositeSide, Side, Order
  <1>2. PICK p \in Price :
            /\ IsBest(side, p)
            /\ MatchAtBest(side, p, taker.remaining_qty)
            /\ taker' = [taker EXCEPT !.remaining_qty =
                            @ - FillAmount(levels[side][p], arena, taker.remaining_qty)]
    BY DEF Match
  <1>3. levels[side][p] # None /\ HasFront(levels[side][p], arena)
    <2>1. PICK q \in Price : IsBest(side, q) /\ HasFront(levels[side][q], arena)
      BY DEF Match, LoopContinues, CanMatchAtBest
    <2>2. p = q
      BY <1>2, <2>1, BestUnique
    <2> QED
      BY <1>2, <2>1, <2>2 DEF IsBest, Present
  <1> DEFINE level == levels[side][p]
             h == level.head
             qty == taker.remaining_qty
             full == UsesUpFront(level, arena, qty)
  <1>4. /\ level \in Level /\ arena \in Arena /\ HasFront(level, arena)
        /\ qty \in Word /\ order_index \in [OrderId -> NodeId \cup {None}]
    BY <1>1, <1>3, FrontType DEF TypeOK, BookTypeOK
  <1>5. arena' = ConsumeQty(level, arena, qty).arena
    BY <1>2 DEF MatchAtBest
  <1>6. order_index' = IF full THEN [order_index EXCEPT ![arena[h].order.id] = None]
                               ELSE order_index
    BY <1>2 DEF MatchAtBest, Front, UsesUpFront
  <1>7. h \in NodeId /\ arena[h] # None /\ arena[h].order \in Order
    BY <1>1, <1>3, FrontType DEF TypeOK, HasFront, Front
  <1>8. taker'.id = taker.id
    BY <1>1, <1>2 DEF Order
  <1> HIDE DEF level, qty
  <1>9. ASSUME NEW k \in NodeId \ {h}
        PROVE  /\ arena'[k] = None <=> arena[k] = None
               /\ arena[k] # None => arena'[k].order = arena[k].order
    BY <1>4, <1>5, ConsumeNodes
  <1>10. /\ arena'[h] = None <=> full
         /\ ~full => arena'[h].order = Reduced(arena[h].order, qty)
    BY <1>4, <1>5, ConsumeNodes
  <1>11. ~full => arena'[h].order.id = arena[h].order.id
    BY <1>7, <1>10 DEF Order, Reduced
  <1> HIDE DEF h, full
  <1>12. order_index[arena[h].order.id] = h /\ arena[h].order.id \in OrderId
    BY <1>7 DEF IndexExact, Occupied, Order
  <1>13. ASSUME NEW id \in OrderId, order_index'[id] # None
         PROVE  arena'[order_index'[id]] # None /\ arena'[order_index'[id]].order.id = id
    <2>1. order_index'[id] = order_index[id] /\ order_index[id] \in NodeId
          /\ (full => id # arena[h].order.id)
      BY <1>4, <1>6, <1>12, <1>13
    <2>2. arena[order_index[id]] # None /\ arena[order_index[id]].order.id = id
      BY <1>13, <2>1 DEF IndexExact
    <2>3. CASE order_index[id] = h
      BY <1>10, <1>11, <2>1, <2>2, <2>3
    <2>4. CASE order_index[id] # h
      BY <1>9, <2>1, <2>2, <2>4
    <2> QED
      BY <2>3, <2>4
  <1>14. ASSUME NEW k \in NodeId, arena'[k] # None
         PROVE  order_index'[arena'[k].order.id] = k
    <2>1. arena[k] # None /\ arena'[k].order.id = arena[k].order.id
      BY <1>7, <1>9, <1>10, <1>11, <1>14
    <2>2. order_index[arena[k].order.id] = k
      BY <2>1 DEF IndexExact, Occupied
    <2>3. full => k # h
      BY <1>10, <1>14
    <2>4. full => arena[k].order.id # arena[h].order.id
      BY <1>12, <2>2, <2>3
    <2>5. arena[k].order.id \in OrderId
      BY <1>4, <2>1 DEF Arena, OrderNode, Order
    <2> QED
      BY <1>4, <1>6, <2>1, <2>2, <2>4, <2>5
  <1>15. \A id \in OrderId : order_index[id] = None => order_index'[id] = None
    BY <1>4, <1>6
  <1> QED
    BY <1>8, <1>13, <1>14, <1>15 DEF IndexExact, Occupied

(* Resting an order gives it a slot nobody has.                            *)
LEMMA RestIndex ==
    ASSUME IndexInv, Rest
    PROVE  IndexExact'
  <1> USE DEF IndexInv, TypeInv
  <1> DEFINE level == LevelAt(taker.side, taker.price)
  <1>1. taker \in Order /\ taker.price \in Price /\ order_index[taker.id] = None
    BY DEF Rest, TakerAdmissible, TakerUnindexed
  <1>2. PICK key \in Vacant(arena) :
            /\ arena' = PushBack(level, arena, taker, key).arena
            /\ order_index' = [order_index EXCEPT ![taker.id] = key]
    BY DEF Rest, InsertResting
  <1>3. /\ key \in NodeId /\ arena[key] = None
        /\ taker.id \in OrderId /\ taker.side \in Side
    BY <1>1 DEF Vacant, Occupied, Order
  <1>4. level \in Level
    <2>1. EmptyLevel \in Level
      BY OrdersAssumption DEF EmptyLevel, Level, Word
    <2> QED
      BY <1>1, <1>3, <2>1 DEF LevelAt, TypeOK, BookTypeOK
  <1> HIDE DEF level
  <1>5. arena \in Arena /\ order_index \in [OrderId -> NodeId \cup {None}]
    BY DEF TypeOK, BookTypeOK
  <1>6. /\ arena'[key] # None /\ arena'[key].order = taker
        /\ \A k \in NodeId \ {key} :
                /\ arena'[k] = None <=> arena[k] = None
                /\ arena[k] # None => arena'[k].order = arena[k].order
    BY <1>1, <1>2, <1>3, <1>4, <1>5, PushBackNodes
  <1>7. ASSUME NEW id \in OrderId, order_index'[id] # None
        PROVE  arena'[order_index'[id]] # None /\ arena'[order_index'[id]].order.id = id
    <2>1. CASE id = taker.id
      BY <1>2, <1>3, <1>5, <1>6, <2>1
    <2>2. CASE id # taker.id
      <3>1. order_index'[id] = order_index[id] /\ order_index[id] \in NodeId
        BY <1>2, <1>5, <1>7, <2>2
      <3>2. arena[order_index[id]] # None /\ arena[order_index[id]].order.id = id
        BY <1>7, <3>1 DEF IndexExact
      <3> QED
        BY <1>3, <1>6, <3>1, <3>2
    <2> QED
      BY <2>1, <2>2
  <1>8. ASSUME NEW k \in NodeId, arena'[k] # None
        PROVE  order_index'[arena'[k].order.id] = k
    <2>1. CASE k = key
      BY <1>2, <1>3, <1>5, <1>6, <2>1
    <2>2. CASE k # key
      <3>1. arena[k] # None /\ arena'[k].order = arena[k].order
        BY <1>6, <1>8, <2>2
      <3>2. order_index[arena[k].order.id] = k /\ arena[k].order.id \in OrderId
        BY <1>5, <3>1 DEF IndexExact, Occupied, Arena, OrderNode, Order
      <3>3. arena[k].order.id # taker.id
        BY <1>1, <3>2, PriceLevelAssumption
      <3> QED
        BY <1>2, <1>5, <3>1, <3>2, <3>3
    <2> QED
      BY <2>1, <2>2
  <1> QED
    BY <1>7, <1>8 DEF IndexExact, Occupied

(* A cancel frees the slot and the entry of one order.                     *)
LEMMA CancelIndex ==
    ASSUME IndexInv, NEW id \in OrderId, Cancel(id)
    PROVE  IndexExact'
  <1> USE DEF IndexInv, TypeInv
  <1> DEFINE key == order_index[id]
             order == arena[key].order
             level == levels[order.side][order.price]
  <1>1. arena \in Arena /\ order_index \in [OrderId -> NodeId \cup {None}]
    BY DEF TypeOK, BookTypeOK
  <1>2. key \in NodeId /\ arena[key] # None /\ order.id = id
    BY <1>1 DEF Cancel, RemovalOutcome, IsResting, IndexExact
  <1>3. level \in Level
    <2>1. order \in Order
      BY <1>1, <1>2 DEF Arena, OrderNode
    <2>2. order.side \in Side /\ order.price \in Price /\ level # None
      BY <2>1 DEF Cancel, RemovalOutcome, Order
    <2> QED
      BY <2>2 DEF TypeOK, BookTypeOK
  <1>4. /\ arena' = Remove(level, arena, key).arena
        /\ order_index' = [order_index EXCEPT ![id] = None]
    BY DEF Cancel, RemoveOrder
  <1> HIDE DEF key, order, level
  <1>5. /\ arena'[key] = None
        /\ \A k \in NodeId \ {key} :
                /\ arena'[k] = None <=> arena[k] = None
                /\ arena[k] # None => arena'[k].order = arena[k].order
    BY <1>1, <1>2, <1>3, <1>4, RemoveNodes
  <1>6. ASSUME NEW i \in OrderId, order_index'[i] # None
        PROVE  arena'[order_index'[i]] # None /\ arena'[order_index'[i]].order.id = i
    <2>1. i # id /\ order_index'[i] = order_index[i] /\ order_index[i] \in NodeId
      BY <1>1, <1>4, <1>6
    <2>2. arena[order_index[i]] # None /\ arena[order_index[i]].order.id = i
      BY <1>6, <2>1 DEF IndexExact
    <2>3. order_index[i] # key
      BY <1>2, <2>1, <2>2 DEF order
    <2> QED
      BY <1>5, <2>1, <2>2, <2>3
  <1>7. ASSUME NEW k \in NodeId, arena'[k] # None
        PROVE  order_index'[arena'[k].order.id] = k
    <2>1. k # key /\ arena[k] # None /\ arena'[k].order = arena[k].order
      BY <1>5, <1>7
    <2>2. order_index[arena[k].order.id] = k /\ arena[k].order.id \in OrderId
      BY <1>1, <2>1 DEF IndexExact, Occupied, Arena, OrderNode, Order
    <2>3. arena[k].order.id # id
      BY <2>1, <2>2 DEF key
    <2> QED
      BY <1>1, <1>4, <2>1, <2>2, <2>3
  <1> QED
    BY <1>6, <1>7 DEF IndexExact, Occupied

(* Every step keeps index and arena in agreement.                          *)
LEMMA IndexInvNext == IndexInv /\ [Next]_vars => IndexInv'
  <1> SUFFICES ASSUME IndexInv, [Next]_vars PROVE IndexExact' /\ TakerUnindexed'
    BY TypeInvNext DEF IndexInv
  <1>0. UNCHANGED book => IndexExact'
    BY DEF IndexInv, IndexExact, Occupied, book
  <1>1. ASSUME NEW order \in NewOrder, Refuse(order) PROVE IndexExact' /\ TakerUnindexed'
    BY <1>0, <1>1 DEF Refuse, Returns, TakerUnindexed
  <1>2. ASSUME NEW order \in NewOrder, Admit(order) PROVE IndexExact' /\ TakerUnindexed'
    <2>1. ~IsResting(order.id)
      BY <1>2 DEF Admit, Fault
    <2>2. order.id \in OrderId
      BY NewOrderType DEF Order
    <2>3. order_index[order.id] = None
      BY <2>1, <2>2 DEF IsResting, IndexInv, IndexExact
    <2> QED
      BY <1>0, <1>2, <2>3 DEF Admit, TakerUnindexed, book
  <1>3. CASE ScanLevel
    BY <1>0, <1>3 DEF ScanLevel, IndexInv, TakerUnindexed, book
  <1>4. CASE Kill
    BY <1>0, <1>4 DEF Kill, Returns, TakerUnindexed
  <1>5. CASE Match
    <2>1. taker.id \in OrderId /\ order_index[taker.id] = None
      BY <1>5 DEF Match, IndexInv, TypeInv, TakerAdmissible, TakerUnindexed, Order
    <2> QED
      BY <1>5, <2>1, MatchIndex DEF TakerUnindexed
  <1>6. CASE Filled
    BY <1>0, <1>6 DEF Filled, Returns, TakerUnindexed
  <1>7. CASE Rest
    BY <1>7, RestIndex DEF Rest, Returns, TakerUnindexed
  <1>8. CASE Discard
    BY <1>0, <1>8 DEF Discard, Returns, TakerUnindexed
  <1>9. ASSUME NEW id \in OrderId, Cancel(id) PROVE IndexExact' /\ TakerUnindexed'
    BY <1>9, CancelIndex DEF Cancel, Returns, TakerUnindexed
  <1>10. ASSUME NEW id \in OrderId, CancelUnknown(id) PROVE IndexExact' /\ TakerUnindexed'
    BY <1>0, <1>10 DEF CancelUnknown, Returns, TakerUnindexed
  <1>11. ASSUME NEW id \in OrderId, CancelPanics(id) PROVE IndexExact' /\ TakerUnindexed'
    BY <1>0, <1>11 DEF CancelPanics, TakerUnindexed
  <1>12. CASE TakeReply
    BY <1>0, <1>12 DEF TakeReply, TakerUnindexed
  <1>13. CASE UNCHANGED vars
    BY <1>0, <1>13 DEF vars, book, IndexInv, TakerUnindexed
  <1> QED
    BY <1>1, <1>2, <1>3, <1>4, <1>5, <1>6, <1>7, <1>8, <1>9, <1>10, <1>11, <1>12, <1>13
    DEF Next, Submit, Work, CancelOrder

(* order_index and the arena name each other's orders in every reachable   *)
(* state, whatever the quantities, even where a level's total has wrapped: *)
(* a cancel reaches the order it names or none, never the order that was   *)
(* given a freed slot.                                                     *)
THEOREM IndexAlwaysExact == Spec => []IndexExact
  <1>1. IndexInv => IndexExact
    BY DEF IndexInv
  <1> QED
    BY <1>1, IndexInvInit, IndexInvNext, PTL DEF Spec

-----------------------------------------------------------------------------
(* Which orders rest.                                                      *)

(* No more is left of the order being worked on than was asked.            *)
TakerWithin == pc \in {"scan", "match"} => taker.remaining_qty <= taker.qty

RestingInv == TypeInv /\ OnlyGtcLimitRests /\ TakerWithin

(* An order that may rest.                                                 *)
MayRest(o) == o.order_type = "Limit" /\ o.tif = "GTC" /\ o.remaining_qty \in 1 .. o.qty

(* A new book has no orders.                                               *)
LEMMA RestingInit == Init => RestingInv
  <1> SUFFICES ASSUME Init PROVE RestingInv
    OBVIOUS
  <1>1. \A k \in NodeId : arena[k] = None
    BY DEF Init, BookInit, EmptyArena
  <1> QED
    BY <1>1, TypeInvInit DEF RestingInv, OnlyGtcLimitRests, Occupied, TakerWithin, Init

(* An arena whose orders are all among those of an older one keeps them fit *)
(* to rest.                                                                *)
LEMMA FewerRest ==
    ASSUME OnlyGtcLimitRests,
           \A k \in NodeId : arena'[k] # None =>
                \/ arena[k] # None /\ arena'[k].order = arena[k].order
                \/ MayRest(arena'[k].order)
    PROVE  OnlyGtcLimitRests'
  BY DEF OnlyGtcLimitRests, Occupied, MayRest

(* A trade takes from the front order less than it has, or frees its slot;  *)
(* from the taker, no more than it has.                                    *)
LEMMA MatchResting ==
    ASSUME RestingInv, Match
    PROVE  OnlyGtcLimitRests' /\ TakerWithin'
  <1> USE DEF RestingInv, TypeInv
  <1> DEFINE side == OppositeSide(taker.side)
  <1>1. /\ taker \in Order /\ side \in Side
        /\ taker.remaining_qty \in Word /\ taker.remaining_qty <= taker.qty
    BY DEF Match, TakerAdmissible, TakerWithin, OppositeSide, Side, Order
  <1>2. PICK p \in Price :
            /\ IsBest(side, p)
            /\ MatchAtBest(side, p, taker.remaining_qty)
            /\ taker' = [taker EXCEPT !.remaining_qty =
                            @ - FillAmount(levels[side][p], arena, taker.remaining_qty)]
    BY DEF Match
  <1>3. levels[side][p] # None /\ HasFront(levels[side][p], arena)
    <2>1. PICK q \in Price : IsBest(side, q) /\ HasFront(levels[side][q], arena)
      BY DEF Match, LoopContinues, CanMatchAtBest
    <2>2. p = q
      BY <1>2, <2>1, BestUnique
    <2> QED
      BY <1>2, <2>1, <2>2 DEF IsBest, Present
  <1> DEFINE level == levels[side][p]
             h == level.head
             qty == taker.remaining_qty
             fill == FillAmount(level, arena, qty)
  <1>4. level \in Level /\ arena \in Arena /\ HasFront(level, arena) /\ qty \in Word
    BY <1>1, <1>3, FrontType DEF TypeOK, BookTypeOK
  <1>5. arena' = ConsumeQty(level, arena, qty).arena
    BY <1>2 DEF MatchAtBest
  <1>6. fill \in Word /\ qty - fill \in Word
    BY <1>4, ConsumeType
  <1>7. taker'.remaining_qty = qty - fill /\ taker'.qty = taker.qty
    BY <1>1, <1>2 DEF Order
  <1>8. taker'.remaining_qty <= taker'.qty
    <2>1. taker.qty \in Nat /\ qty \in Nat /\ fill \in Nat
      BY <1>1, <1>4, <1>6, OrdersAssumption DEF Word, Order
    <2> HIDE DEF fill, qty
    <2>2. qty <= taker.qty
      BY <1>1 DEF qty
    <2> QED
      BY <1>7, <2>1, <2>2
  <1>9. h \in NodeId /\ arena[h] # None /\ arena[h].order \in Order
    BY <1>1, <1>3, FrontType DEF TypeOK, HasFront, Front
  <1>10. MayRest(arena[h].order)
    BY <1>9 DEF OnlyGtcLimitRests, Occupied, MayRest
  <1> HIDE DEF level, qty
  <1>11. ASSUME NEW k \in NodeId \ {h}, arena'[k] # None
         PROVE  arena[k] # None /\ arena'[k].order = arena[k].order
    BY <1>4, <1>5, <1>11, ConsumeNodes
  <1>12. ASSUME arena'[h] # None PROVE MayRest(arena'[h].order)
    <2>1. /\ ~UsesUpFront(level, arena, qty)
          /\ arena'[h].order = Reduced(arena[h].order, qty)
      BY <1>4, <1>5, <1>12, ConsumeNodes
    <2>2. ~(arena[h].order.remaining_qty <= qty)
      BY <2>1 DEF UsesUpFront
    <2> DEFINE o == arena[h].order
    <2>3. /\ arena'[h].order.order_type = o.order_type
          /\ arena'[h].order.tif = o.tif
          /\ arena'[h].order.qty = o.qty
          /\ arena'[h].order.remaining_qty = o.remaining_qty - qty
      BY <1>9, <2>1 DEF Reduced, Order
    <2>4. o.remaining_qty \in Nat /\ o.qty \in Nat /\ qty \in Nat
      BY <1>4, <1>9, OrdersAssumption DEF Order, Word
    <2> HIDE DEF o
    <2>5. o.remaining_qty \in 1 .. o.qty /\ o.order_type = "Limit" /\ o.tif = "GTC"
      BY <1>10 DEF MayRest, o
    <2>6. ~(o.remaining_qty <= qty)
      BY <2>2 DEF o
    <2>7. o.remaining_qty - qty \in 1 .. o.qty
      BY <2>4, <2>5, <2>6
    <2> QED
      BY <2>3, <2>5, <2>7 DEF MayRest
  <1> HIDE DEF h
  <1>13. OnlyGtcLimitRests'
    BY <1>11, <1>12, FewerRest
  <1> QED
    BY <1>8, <1>13 DEF TakerWithin

(* What rests is the remainder of the order being worked on, which validate *)
(* has seen to be a limit order when it is good till cancelled.            *)
LEMMA RestResting ==
    ASSUME RestingInv, Rest
    PROVE  OnlyGtcLimitRests'
  <1> USE DEF RestingInv, TypeInv
  <1> DEFINE level == LevelAt(taker.side, taker.price)
  <1>1. taker \in Order /\ taker.price \in Price
    BY DEF Rest, TakerAdmissible
  <1>2. MayRest(taker)
    <2>1. /\ taker.order_type = "Limit" /\ taker.tif = "GTC"
          /\ taker.remaining_qty > 0 /\ taker.remaining_qty <= taker.qty
      BY DEF Rest, TakerAdmissible, TakerWithin
    <2>2. taker.remaining_qty \in Nat /\ taker.qty \in Nat
      BY <1>1, OrdersAssumption DEF Order, Word
    <2> QED
      BY <2>1, <2>2 DEF MayRest
  <1>3. PICK key \in Vacant(arena) : arena' = PushBack(level, arena, taker, key).arena
    BY DEF Rest, InsertResting
  <1>4. key \in NodeId
    BY DEF Vacant
  <1>5. level \in Level
    <2>1. EmptyLevel \in Level
      BY OrdersAssumption DEF EmptyLevel, Level, Word
    <2> QED
      BY <1>1, <2>1 DEF LevelAt, TypeOK, BookTypeOK, Order
  <1> HIDE DEF level
  <1>6. /\ arena'[key].order = taker
        /\ \A k \in NodeId \ {key} :
                /\ arena'[k] = None <=> arena[k] = None
                /\ arena[k] # None => arena'[k].order = arena[k].order
    BY <1>1, <1>3, <1>4, <1>5, PushBackNodes DEF TypeOK, BookTypeOK
  <1> QED
    BY <1>2, <1>6, FewerRest

(* A cancel leaves all other orders as they are.                           *)
LEMMA CancelResting ==
    ASSUME RestingInv, NEW id \in OrderId, Cancel(id)
    PROVE  OnlyGtcLimitRests'
  <1> USE DEF RestingInv, TypeInv
  <1> DEFINE key == order_index[id]
             order == arena[key].order
             level == levels[order.side][order.price]
  <1>1. arena \in Arena /\ key \in NodeId /\ arena[key] # None
    BY DEF TypeOK, BookTypeOK, Cancel, RemovalOutcome, IsResting
  <1>2. level \in Level
    <2>1. order \in Order
      BY <1>1 DEF Arena, OrderNode
    <2>2. order.side \in Side /\ order.price \in Price /\ level # None
      BY <2>1 DEF Cancel, RemovalOutcome, Order
    <2> QED
      BY <2>2 DEF TypeOK, BookTypeOK
  <1>3. arena' = Remove(level, arena, key).arena
    BY DEF Cancel, RemoveOrder
  <1> HIDE DEF key, level
  <1>4. /\ arena'[key] = None
        /\ \A k \in NodeId \ {key} :
                /\ arena'[k] = None <=> arena[k] = None
                /\ arena[k] # None => arena'[k].order = arena[k].order
    BY <1>1, <1>2, <1>3, RemoveNodes
  <1> QED
    BY <1>4, FewerRest

(* Every step keeps what rests fit to rest.                                *)
LEMMA RestingNext == RestingInv /\ [Next]_vars => RestingInv'
  <1> SUFFICES ASSUME RestingInv, [Next]_vars PROVE OnlyGtcLimitRests' /\ TakerWithin'
    BY TypeInvNext DEF RestingInv
  <1>0. UNCHANGED book => OnlyGtcLimitRests'
    BY DEF RestingInv, OnlyGtcLimitRests, Occupied, book
  <1>1. ASSUME NEW order \in NewOrder, Refuse(order)
        PROVE  OnlyGtcLimitRests' /\ TakerWithin'
    BY <1>0, <1>1 DEF Refuse, Returns, TakerWithin
  <1>2. ASSUME NEW order \in NewOrder, Admit(order)
        PROVE  OnlyGtcLimitRests' /\ TakerWithin'
    <2>1. order.remaining_qty = order.qty /\ order.qty \in Nat
      BY OrdersAssumption DEF NewOrder
    <2> QED
      BY <1>0, <1>2, <2>1 DEF Admit, TakerWithin
  <1>3. CASE ScanLevel
    BY <1>0, <1>3 DEF ScanLevel, RestingInv, TakerWithin
  <1>4. CASE Kill
    BY <1>0, <1>4 DEF Kill, Returns, TakerWithin
  <1>5. CASE Match
    BY <1>5, MatchResting
  <1>6. CASE Filled
    BY <1>0, <1>6 DEF Filled, Returns, TakerWithin
  <1>7. CASE Rest
    BY <1>7, RestResting DEF Rest, Returns, TakerWithin
  <1>8. CASE Discard
    BY <1>0, <1>8 DEF Discard, Returns, TakerWithin
  <1>9. ASSUME NEW id \in OrderId, Cancel(id) PROVE OnlyGtcLimitRests' /\ TakerWithin'
    BY <1>9, CancelResting DEF Cancel, Returns, TakerWithin
  <1>10. ASSUME NEW id \in OrderId, CancelUnknown(id)
         PROVE  OnlyGtcLimitRests' /\ TakerWithin'
    BY <1>0, <1>10 DEF CancelUnknown, Returns, TakerWithin
  <1>11. ASSUME NEW id \in OrderId, CancelPanics(id)
         PROVE  OnlyGtcLimitRests' /\ TakerWithin'
    BY <1>0, <1>11 DEF CancelPanics, TakerWithin
  <1>12. CASE TakeReply
    BY <1>0, <1>12 DEF TakeReply, TakerWithin
  <1>13. CASE UNCHANGED vars
    BY <1>0, <1>13 DEF vars, book, RestingInv, TakerWithin
  <1> QED
    BY <1>1, <1>2, <1>3, <1>4, <1>5, <1>6, <1>7, <1>8, <1>9, <1>10, <1>11, <1>12, <1>13
    DEF Next, Submit, Work, CancelOrder

(* Whatever is submitted and cancelled, and even where a level's total has  *)
(* wrapped, only good-till-cancelled limit orders rest in the book, each    *)
(* with something left of it and no more than was asked.                   *)
THEOREM OnlyRemaindersRest == Spec => []OnlyGtcLimitRests
  <1>1. RestingInv => OnlyGtcLimitRests
    BY DEF RestingInv
  <1> QED
    BY <1>1, RestingInit, RestingNext, PTL DEF Spec
=============================================================================
