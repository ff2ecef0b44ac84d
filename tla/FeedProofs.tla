----------------------------- MODULE FeedProofs -----------------------------
(***************************************************************************)
(* What the events of a reply tell a consumer, for every value of the      *)
(* constants, as long as no level's total wraps. A recursive definition is *)
(* reached by a witness that the steps build: the beliefs held after each  *)
(* of the events so far.                                                   *)
(***************************************************************************)
EXTENDS EventFeed, QueueProofs

-----------------------------------------------------------------------------
(* A train of beliefs.                                                     *)

(* What TradesNameKnownMakers asks of an event that finds the beliefs k.   *)
Honest(k, e) ==
    e.kind = "Trade" =>
        /\ k[e.maker_order_id] # None
        /\ e.price = k[e.maker_order_id].price
        /\ e.qty \in 1 .. k[e.maker_order_id].left

(* t is what is believed after each of the events, from k to `last`, and   *)
(* every trade among them names what was known.                            *)
Tells(t, k, es, last) ==
    /\ t = [i \in 0 .. Len(es) |-> t[i]]
    /\ t[0] = k /\ t[Len(es)] = last
    /\ \A i \in 1 .. Len(es) : t[i] = AfterEvent(t[i - 1], es[i]) /\ Honest(t[i - 1], es[i])

LEMMA BelievedIs ==
    ASSUME NEW t, NEW k, NEW es, NEW last, Len(es) \in Nat, Tells(t, k, es, last)
    PROVE  Believed(k, es) = t
  <1> DEFINE n == Len(es)
             At(f, i) == IF i = 0 THEN k ELSE AfterEvent(f[i - 1], es[i])
             Meets(f) == f = [i \in 0 .. n |-> At(f, i)]
  <1>1. Believed(k, es) = CHOOSE f : Meets(f)
    BY DEF Believed
  <1>2. t = [i \in 0 .. n |-> t[i]] /\ t[0] = k /\ n \in Nat
        /\ \A i \in 1 .. n : t[i] = AfterEvent(t[i - 1], es[i])
    BY DEF Tells
  <1> HIDE DEF n
  <1>3. ASSUME NEW i \in 0 .. n PROVE At(t, i) = t[i]
    <2>1. i = 0 \/ i \in 1 .. n
      BY <1>2
    <2> QED
      BY <1>2, <2>1
  <1>4. Meets(t)
    BY <1>2, <1>3
  <1>5. PICK f : f = Believed(k, es) /\ Meets(f)
    BY <1>1, <1>4
  <1> DEFINE bad == {i \in 0 .. n : f[i] # t[i]}
  <1>6. bad = {}
    <2>1. SUFFICES ASSUME bad # {} PROVE FALSE
      OBVIOUS
    <2>2. PICK i \in bad : \A j \in bad : i <= j
      <3>1. bad \subseteq Nat
        OBVIOUS
      <3> HIDE DEF bad
      <3> QED
        BY <2>1, <3>1, LeastNatural
    <2>3. f[i] = At(f, i) /\ t[i] = At(t, i)
      BY <1>3, <1>5
    <2>4. i # 0 => f[i - 1] = t[i - 1]
      <3>1. i # 0 => i - 1 \in 0 .. n /\ ~(i <= i - 1)
        BY <1>2
      <3> QED
        BY <2>2, <3>1
    <2> QED
      BY <2>2, <2>3, <2>4
  <1>7. f = [i \in 0 .. n |-> f[i]]
    BY <1>5
  <1>8. f = t
    BY <1>2, <1>6, <1>7
  <1> QED
    BY <1>5, <1>8

LEMMA TellsNothing ==
    ASSUME NEW k
    PROVE  \E t : Tells(t, k, << >>, k)
  <1>1. PICK t : t = [i \in 0 .. 0 |-> k]
    OBVIOUS
  <1>2. Len(<< >>) = 0 /\ t[0] = k /\ t = [i \in 0 .. 0 |-> t[i]] /\ 1 .. 0 = {}
    BY <1>1
  <1> QED
    BY <1>2 DEF Tells

(* One more event, and what is believed after it.                          *)
LEMMA TellsMore ==
    ASSUME NEW k, NEW es \in Seq(BookEvent), NEW last, NEW e \in BookEvent,
           \E t : Tells(t, k, es, last), Honest(last, e),
           NEW next, next = AfterEvent(last, e)
    PROVE  \E t : Tells(t, k, Append(es, e), next)
  <1>0. PICK t : Tells(t, k, es, last)
    OBVIOUS
  <1>1. PICK n : Tells(t, k, es, last) /\ n = Len(es) /\ n \in Nat
    BY <1>0
  <1>2. PICK more : /\ more = Append(es, e) /\ Len(more) = n + 1
                    /\ more[n + 1] = e /\ \A i \in 1 .. n : more[i] = es[i]
    <2>1. PICK more : more = Append(es, e)
      OBVIOUS
    <2> QED
      BY <1>1, <2>1
  <1>3. PICK u : u = [i \in 0 .. n + 1 |-> IF i = n + 1 THEN next ELSE t[i]]
    OBVIOUS
  <1>4. /\ u[0] = t[0] /\ u[n + 1] = next /\ u = [i \in 0 .. n + 1 |-> u[i]]
        /\ \A i \in 0 .. n : u[i] = t[i]
    BY <1>1, <1>3
  <1>5. ASSUME NEW i \in 1 .. n + 1
        PROVE  u[i] = AfterEvent(u[i - 1], more[i]) /\ Honest(u[i - 1], more[i])
    <2>1. CASE i = n + 1
      <3>1. u[i - 1] = last
        <4>1. i - 1 = n /\ n \in 0 .. n
          BY <1>1, <2>1
        <4> QED
          BY <1>1, <1>4, <4>1 DEF Tells
      <3> QED
        BY <1>2, <1>4, <2>1, <3>1
    <2>2. CASE i # n + 1
      <3>1. i \in 1 .. n /\ i \in 0 .. n /\ i - 1 \in 0 .. n
        BY <1>1, <2>2
      <3>2. u[i] = t[i] /\ u[i - 1] = t[i - 1] /\ more[i] = es[i]
        BY <1>2, <1>4, <3>1
      <3> QED
        BY <1>1, <3>1, <3>2 DEF Tells
    <2> QED
      BY <2>1, <2>2
  <1>6. Tells(u, k, more, next)
    BY <1>1, <1>2, <1>4, <1>5 DEF Tells
  <1> QED
    BY <1>2, <1>6

-----------------------------------------------------------------------------
(* The book, as a consumer could know it.                                  *)

PictureOf(a, index) ==
    [id \in OrderId |->
        IF index[id] = None \/ a[index[id]] = None THEN None
        ELSE [price |-> a[index[id]].order.price,
              left |-> a[index[id]].order.remaining_qty]]

Picture == PictureOf(arena, order_index)

(* IndexExact, of any arena and any index.                                 *)
Indexed(a, index) ==
    /\ a \in Arena /\ index \in [OrderId -> NodeId \cup {None}]
    /\ \A id \in OrderId : index[id] # None => a[index[id]] # None
    /\ \A id \in OrderId : index[id] # None => a[index[id]].order.id = id
    /\ \A k \in NodeId : a[k] # None => index[a[k].order.id] = k

(* The orders of a and b other than the one with that id are the same.     *)
SameButFor(a, b, id) ==
    /\ \A k \in NodeId : a[k] # None /\ a[k].order.id # id =>
            b[k] # None /\ b[k].order = a[k].order
    /\ \A k \in NodeId : b[k] # None /\ b[k].order.id # id =>
            a[k] # None /\ b[k].order = a[k].order

LEMMA IndexedNow ==
    ASSUME IndexInv
    PROVE  Indexed(arena, order_index)
  BY DEF IndexInv, IndexExact, Indexed, TypeInv, TypeOK, BookTypeOK, Occupied

(* What a stored order looks like, and an id under which none is stored.   *)
LEMMA PictureAt ==
    ASSUME NEW a, NEW index, Indexed(a, index)
    PROVE  /\ \A k \in NodeId : a[k] # None =>
                /\ a[k].order.id \in OrderId
                /\ PictureOf(a, index)[a[k].order.id] =
                        [price |-> a[k].order.price, left |-> a[k].order.remaining_qty]
           /\ \A id \in OrderId :
                (\A k \in NodeId : a[k] # None => a[k].order.id # id)
                    => PictureOf(a, index)[id] = None
  <1>1. ASSUME NEW k \in NodeId, a[k] # None
        PROVE  /\ a[k].order.id \in OrderId
               /\ PictureOf(a, index)[a[k].order.id] =
                        [price |-> a[k].order.price, left |-> a[k].order.remaining_qty]
    <2>1. a[k].order \in Order
      BY <1>1 DEF Indexed, Arena, OrderNode
    <2>2. PICK id : id = a[k].order.id /\ id \in OrderId /\ index[id] = k
      BY <1>1, <2>1 DEF Indexed, Order
    <2>3. k # None
      BY PriceLevelAssumption
    <2> QED
      BY <1>1, <2>2, <2>3 DEF PictureOf
  <1>2. ASSUME NEW id \in OrderId, \A k \in NodeId : a[k] # None => a[k].order.id # id
        PROVE  PictureOf(a, index)[id] = None
    <2>1. index[id] = None
      BY <1>2 DEF Indexed
    <2> QED
      BY <2>1 DEF PictureOf
  <1> QED
    BY <1>1, <1>2

LEMMA PictureChanges ==
    ASSUME NEW a, NEW b, NEW ia, NEW ib, Indexed(a, ia), Indexed(b, ib),
           NEW id \in OrderId, SameButFor(a, b, id),
           NEW seen, seen = PictureOf(b, ib)[id]
    PROVE  PictureOf(b, ib) = [PictureOf(a, ia) EXCEPT ![id] = seen]
  <1>1. PICK x, y : x = PictureOf(a, ia) /\ y = PictureOf(b, ib)
    OBVIOUS
  <1>2. x = [j \in OrderId |-> x[j]] /\ y = [j \in OrderId |-> y[j]]
    BY <1>1 DEF PictureOf
  <1>3. ASSUME NEW j \in OrderId, j # id
        PROVE  y[j] = x[j]
    <2>1. CASE \E k \in NodeId : a[k] # None /\ a[k].order.id = j
      <3>1. PICK k \in NodeId : a[k] # None /\ a[k].order.id = j
        BY <2>1
      <3>2. b[k] # None /\ b[k].order = a[k].order
        BY <1>3, <3>1 DEF SameButFor
      <3>3. x[j] = [price |-> a[k].order.price, left |-> a[k].order.remaining_qty]
        BY <1>1, <3>1, PictureAt
      <3>4. y[j] = [price |-> b[k].order.price, left |-> b[k].order.remaining_qty]
        BY <1>1, <3>1, <3>2, PictureAt
      <3> QED
        BY <3>2, <3>3, <3>4
    <2>2. CASE \A k \in NodeId : a[k] # None => a[k].order.id # j
      <3>1. \A k \in NodeId : b[k] # None => b[k].order.id # j
        BY <1>3, <2>2 DEF SameButFor
      <3>2. x[j] = None
        BY <1>1, <2>2, PictureAt
      <3>3. y[j] = None
        BY <1>1, <3>1, PictureAt
      <3> QED
        BY <3>2, <3>3
    <2> QED
      BY <2>1, <2>2
  <1>4. y[id] = seen
    BY <1>1
  <1>5. y = [x EXCEPT ![id] = seen]
    BY <1>2, <1>3, <1>4
  <1> QED
    BY <1>1, <1>5

-----------------------------------------------------------------------------
(* What a consumer has heard at each point of a call.                      *)

(* The events of the call so far lead from what is believed to the book.   *)
Heard ==
    /\ pc \in {"idle", "scan"} => known = Picture
    /\ pc = "scan" => events = <<Accepted(taker.id)>>
    /\ pc = "match" => \E t : Tells(t, known, events, Picture)
    /\ pc = "done" => /\ reply.events \in Seq(BookEvent)
                      /\ \E t : Tells(t, known, reply.events, Picture)

FeedInv == BookInv /\ IndexInv /\ FeedTypeOK /\ Heard

LEMMA PictureTyped ==
    ASSUME TypeInv, ShapeInv
    PROVE  Picture \in [OrderId -> Belief \cup {None}]
  <1>1. ASSUME NEW id \in OrderId
        PROVE  Picture[id] \in Belief \cup {None}
    <2>1. CASE order_index[id] = None \/ arena[order_index[id]] = None
      BY <2>1 DEF Picture, PictureOf
    <2>2. CASE order_index[id] # None /\ arena[order_index[id]] # None
      <3>1. PICK k : k = order_index[id] /\ k \in Occupied(arena)
        BY <2>2 DEF TypeInv, TypeOK, BookTypeOK, Occupied
      <3>2. /\ arena[k].order.price \in Price /\ arena[k].order.remaining_qty > 0
            /\ arena[k].order.remaining_qty \in Word
        BY <3>1, StoredOrder DEF Rem
      <3>3. arena[k].order.remaining_qty \in Word \ {0}
        BY <3>2
      <3>4. Picture[id] = [price |-> arena[k].order.price,
                           left |-> arena[k].order.remaining_qty]
        BY <2>2, <3>1 DEF Picture, PictureOf
      <3> QED
        BY <3>2, <3>3, <3>4 DEF Belief
    <2> QED
      BY <2>1, <2>2
  <1> QED
    BY <1>1 DEF Picture, PictureOf

LEMMA SamePicture ==
    ASSUME UNCHANGED book
    PROVE  Picture' = Picture
  BY DEF book, Picture, PictureOf

(* An acceptance changes no belief.                                        *)
LEMMA AcceptedTells ==
    ASSUME NEW k, NEW id \in OrderId
    PROVE  \E t : Tells(t, k, <<Accepted(id)>>, k)
  <1>1. PICK es, e : es = << >> /\ e = Accepted(id)
    OBVIOUS
  <1>2. es \in Seq(BookEvent) /\ e \in BookEvent /\ Append(es, e) = <<Accepted(id)>>
    BY <1>1, ReplyType
  <1>3. Honest(k, e) /\ k = AfterEvent(k, e)
    BY <1>1 DEF Honest, AfterEvent, Accepted
  <1>4. \E t : Tells(t, k, es, k)
    BY <1>1, TellsNothing
  <1>5. \E t : Tells(t, k, Append(es, e), k)
    BY <1>2, <1>3, <1>4, TellsMore
  <1> QED
    BY <1>2, <1>5

(* A call that fails says nothing and has changed nothing.                 *)
LEMMA FailureHeard ==
    ASSUME Heard, pc \in {"idle", "scan"}, known' = known, UNCHANGED book,
           NEW e, Returns(ErrReply(e))
    PROVE  Heard'
  <1>1. pc' = "done" /\ reply'.events = << >>
    BY DEF Returns, ErrReply
  <1>2. known' = Picture'
    BY SamePicture DEF Heard
  <1>3. PICK es, k, last : es = reply'.events /\ k = known' /\ last = Picture'
    OBVIOUS
  <1>4. \E t : Tells(t, k, es, last)
    BY <1>1, <1>2, <1>3, TellsNothing
  <1>5. es \in Seq(BookEvent)
    BY <1>1, <1>3
  <1> QED
    BY <1>1, <1>3, <1>4, <1>5 DEF Heard

(* A call that is under way or done has led from what was believed to      *)
(* what the book now is.                                                   *)
LEMMA HeardInMatch ==
    ASSUME NEW es, NEW k, NEW last, pc' = "match", es = events', k = known', last = Picture',
           \E t : Tells(t, k, es, last)
    PROVE  Heard'
  BY DEF Heard

LEMMA HeardAtDone ==
    ASSUME NEW es \in Seq(BookEvent), NEW k, NEW last, Returns(OkReply(es)),
           k = known', last = Picture', \E t : Tells(t, k, es, last)
    PROVE  Heard'
  <1>1. pc' = "done" /\ reply'.events = es
    BY DEF Returns, OkReply
  <1> QED
    BY <1>1 DEF Heard

LEMMA AdmitHeard ==
    ASSUME FeedInv, known' = known, NEW order \in NewOrder, Admit(order)
    PROVE  Heard'
  <1>1. /\ pc = "idle" /\ taker' = order /\ events' = <<Accepted(order.id)>>
        /\ pc' \in {"scan", "match"} /\ UNCHANGED book
    BY DEF Admit
  <1>2. known' = Picture'
    BY <1>1, SamePicture DEF FeedInv, Heard
  <1>3. order.id \in OrderId
    BY DEF NewOrder
  <1>4. CASE pc' = "scan"
    BY <1>1, <1>2, <1>4 DEF Heard
  <1>5. CASE pc' = "match"
    <2>1. PICK es, k, last : es = events' /\ k = known' /\ last = Picture'
      OBVIOUS
    <2>2. \E t : Tells(t, k, es, last)
      BY <1>1, <1>2, <1>3, <2>1, AcceptedTells
    <2> QED
      BY <1>5, <2>1, <2>2, HeardInMatch
  <1> QED
    BY <1>1, <1>4, <1>5

LEMMA ScanHeard ==
    ASSUME FeedInv, known' = known, ScanLevel
    PROVE  Heard'
  <1>1. /\ pc = "scan" /\ taker' = taker /\ events' = events
        /\ pc' \in {"scan", "match"} /\ UNCHANGED book
    BY DEF ScanLevel
  <1>2. known' = Picture' /\ events' = <<Accepted(taker.id)>>
    BY <1>1, SamePicture DEF FeedInv, Heard
  <1>3. taker.id \in OrderId
    BY <1>1, TakerTypes DEF FeedInv, BookInv
  <1>4. CASE pc' = "scan"
    BY <1>1, <1>2, <1>4 DEF Heard
  <1>5. CASE pc' = "match"
    <2>1. PICK es, k, last : es = events' /\ k = known' /\ last = Picture'
      OBVIOUS
    <2>2. \E t : Tells(t, k, es, last)
      BY <1>2, <1>3, <2>1, AcceptedTells
    <2> QED
      BY <1>5, <2>1, <2>2, HeardInMatch
  <1> QED
    BY <1>1, <1>4, <1>5

(* A trade takes from what is believed of its maker what it takes from the  *)
(* maker's order.                                                          *)
LEMMA MatchHeard ==
    ASSUME FeedInv, IndexInv', known' = known, Match
    PROVE  Heard'
  <1>1. PICK p \in Price, h \in NodeId, fill \in Nat : Takes(p, h, fill)
    BY MatchTakes DEF FeedInv, BookInv
  <1>2. PICK id, e, side : /\ id = arena[h].order.id /\ e = Trade(id, taker, p, fill)
                           /\ side = OppositeSide(taker.side)
    OBVIOUS
  <1>3. /\ taker \in Order /\ Live(h) /\ InLevel(h, side, p) /\ Rem(h) \in Nat /\ Rem(h) > 0
        /\ fill > 0 /\ fill \in Word /\ fill <= Rem(h) /\ taker.remaining_qty \in Nat
        /\ events' = Append(events, e)
        /\ Live(h)' <=> fill # Rem(h)
        /\ Live(h)' => arena'[h].order =
                            [arena[h].order EXCEPT !.remaining_qty = Rem(h) - fill]
        /\ \A k \in NodeId \ {h} :
            /\ Live(k)' <=> Live(k)
            /\ Live(k) => arena'[k].order = arena[k].order
    <2>1. fill = Least(Rem(h), taker.remaining_qty)
          /\ Rem(h) \in Nat /\ taker.remaining_qty \in Nat
      BY <1>1 DEF Takes
    <2>2. fill <= Rem(h)
      BY <2>1 DEF Least
    <2> QED
      BY <1>1, <1>2, <2>1, <2>2 DEF Takes
  <1>4. pc = "match" /\ pc' = "match" /\ events \in Seq(BookEvent)
    BY TakerTypes DEF Match, FeedInv, BookInv
  <1>5. PICK a, b, ia, ib : /\ a = arena /\ b = arena' /\ ia = order_index /\ ib = order_index'
    OBVIOUS
  <1>6. Indexed(a, ia) /\ Indexed(b, ib)
    <2>1. Indexed(arena, order_index)
      BY IndexedNow DEF FeedInv
    <2>2. Indexed(arena', order_index')
      BY DEF IndexInv, IndexExact, Indexed, TypeInv, TypeOK, BookTypeOK, Occupied
    <2> QED
      BY <1>5, <2>1, <2>2
  <1>7. /\ a[h] # None /\ a[h].order.id = id /\ a[h].order.price = p
        /\ a[h].order.remaining_qty = Rem(h)
        /\ b[h] # None <=> fill # Rem(h)
        /\ b[h] # None => b[h].order = [a[h].order EXCEPT !.remaining_qty = Rem(h) - fill]
        /\ \A k \in NodeId \ {h} :
            /\ b[k] # None <=> a[k] # None
            /\ a[k] # None => b[k].order = a[k].order
    BY <1>2, <1>3, <1>5 DEF Live, InLevel, Rem
  <1>8. a[h].order \in Order /\ id \in OrderId
    <2>1. h \in Occupied(arena)
      BY <1>3 DEF Live, Occupied
    <2> QED
      BY <1>2, <1>5, <2>1, StoredOrder DEF FeedInv, BookInv, Order
  <1>9. b[h] # None => /\ b[h].order.id = id /\ b[h].order.price = p
                       /\ b[h].order.remaining_qty = Rem(h) - fill
    BY <1>7, <1>8 DEF Order
  <1>10. SameButFor(a, b, id)
    BY <1>7, <1>9 DEF SameButFor
  <1>11. PICK x, y, seen : x = PictureOf(a, ia) /\ y = PictureOf(b, ib) /\ seen = y[id]
    OBVIOUS
  <1>12. y = [x EXCEPT ![id] = seen]
    BY <1>6, <1>8, <1>10, <1>11, PictureChanges
  <1>13. x[id] = [price |-> p, left |-> Rem(h)]
    BY <1>6, <1>7, <1>11, PictureAt
  <1>14. seen = IF fill = Rem(h) THEN None ELSE [price |-> p, left |-> Rem(h) - fill]
    <2>1. CASE fill = Rem(h)
      <3>1. \A k \in NodeId : a[k] # None /\ a[k].order.id = id => k = h
        BY <1>6, <1>7 DEF Indexed
      <3>2. \A k \in NodeId : b[k] # None => b[k].order.id # id
        BY <1>7, <2>1, <3>1
      <3> QED
        BY <1>6, <1>8, <1>11, <2>1, <3>2, PictureAt
    <2>2. CASE fill # Rem(h)
      BY <1>6, <1>7, <1>9, <1>11, <2>2, PictureAt
    <2> QED
      BY <2>1, <2>2
  <1>15. x[id] \in Belief /\ x[id] # None
    <2>1. Rem(h) \in Word \ {0}
      <3>1. h \in Occupied(arena)
        BY <1>3 DEF Live, Occupied
      <3> QED
        BY <1>3, <3>1, StoredOrder DEF FeedInv, BookInv
    <2> QED
      BY <1>13, <2>1, FeedAssumption DEF Belief
  <1>16. Honest(x, e)
    BY <1>2, <1>3, <1>13, <1>15 DEF Honest, Trade
  <1>17. y = AfterEvent(x, e)
    <2>1. e.kind = "Trade" /\ e.maker_order_id = id /\ e.qty = fill
      BY <1>2 DEF Trade
    <2>2. e.kind # "RestingOnBook" /\ e.kind # "Cancelled"
      BY <2>1
    <2>3. PICK r : r = Rem(h) /\ r \in Nat /\ fill <= r
      BY <1>3
    <2>4. AfterTrade(x[id], fill) = seen
      <3>1. CASE fill = r
        BY <1>13, <1>14, <2>3, <3>1 DEF AfterTrade
      <3>2. CASE fill # r
        <4>1. ~(r <= fill) /\ x[id].left = r
          BY <1>13, <2>3, <3>2
        <4>2. [x[id] EXCEPT !.left = x[id].left - fill] = [price |-> p, left |-> r - fill]
          BY <1>13, <2>3
        <4> QED
          BY <1>14, <2>3, <3>2, <4>1, <4>2 DEF AfterTrade
      <3> QED
        BY <3>1, <3>2
    <2>5. y = [x EXCEPT ![id] = AfterTrade(x[id], fill)]
      BY <1>12, <2>4
    <2> QED
      BY <1>15, <2>1, <2>2, <2>5 DEF AfterEvent
  <1>18. e \in BookEvent
    BY <1>2, <1>3, <1>8, ReplyType
  <1>19. x = Picture /\ y = Picture'
    BY <1>5, <1>11 DEF Picture
  <1>20. \E t : Tells(t, known, events, x)
    BY <1>4, <1>19 DEF FeedInv, Heard
  <1>21. \E t : Tells(t, known, Append(events, e), y)
    BY <1>4, <1>16, <1>17, <1>18, <1>20, TellsMore
  <1>22. PICK es, k, last : es = events' /\ k = known' /\ last = Picture'
    OBVIOUS
  <1>23. \E t : Tells(t, k, es, last)
    BY <1>3, <1>19, <1>21, <1>22
  <1> QED
    BY <1>4, <1>22, <1>23, HeardInMatch

(* Nothing of the order is left: the call returns what it has said.        *)
LEMMA FilledHeard ==
    ASSUME FeedInv, known' = known, Filled
    PROVE  Heard'
  <1>1. pc = "match" /\ UNCHANGED book /\ events \in Seq(BookEvent) /\ Returns(OkReply(events))
    BY TakerTypes DEF Filled, FeedInv, BookInv
  <1>2. PICK es, k, last : es = events /\ k = known' /\ last = Picture'
    OBVIOUS
  <1>3. \E t : Tells(t, k, es, last)
    BY <1>1, <1>2, SamePicture DEF FeedInv, Heard
  <1> QED
    BY <1>1, <1>2, <1>3, HeardAtDone

(* The order being worked on does not rest yet, so no belief about it is   *)
(* there to be withdrawn.                                                  *)
LEMMA DiscardHeard ==
    ASSUME FeedInv, known' = known, Discard
    PROVE  Heard'
  <1>1. pc = "match" /\ UNCHANGED book /\ events \in Seq(BookEvent) /\ taker.id \in OrderId
    BY TakerTypes DEF Discard, FeedInv, BookInv
  <1>2. PICK es, e, k, x : es = events /\ e = Cancelled(taker.id) /\ k = known' /\ x = Picture'
    OBVIOUS
  <1>3. x = Picture /\ \E t : Tells(t, k, es, x)
    BY <1>1, <1>2, SamePicture DEF FeedInv, Heard
  <1>4. CASE taker.tif = "IOC"
    <2>1. x[taker.id] = None
      <3>1. order_index[taker.id] = None
        BY <1>1 DEF FeedInv, IndexInv, TakerUnindexed
      <3> QED
        BY <1>1, <1>3, <3>1 DEF Picture, PictureOf
    <2>2. x = [j \in OrderId |-> x[j]]
      BY <1>3 DEF Picture, PictureOf
    <2>3. e.kind = "Cancelled" /\ e.order_id = taker.id /\ e \in BookEvent
      BY <1>1, <1>2, ReplyType DEF Cancelled
    <2>4. x = [x EXCEPT ![taker.id] = None]
      BY <2>1, <2>2
    <2>5. e.kind # "RestingOnBook" /\ e.kind # "Trade"
      BY <2>3
    <2>6. x = AfterEvent(x, e) /\ Honest(x, e)
      BY <2>3, <2>4, <2>5 DEF AfterEvent, Honest
    <2>7. \E t : Tells(t, k, Append(es, e), x)
      BY <1>1, <1>2, <1>3, <2>3, <2>6, TellsMore
    <2>8. Append(es, e) \in Seq(BookEvent) /\ Returns(OkReply(Append(es, e)))
      BY <1>1, <1>2, <1>4, <2>3 DEF Discard
    <2> QED
      BY <1>2, <2>7, <2>8, HeardAtDone
  <1>5. CASE taker.tif # "IOC"
    <2>1. es \in Seq(BookEvent) /\ Returns(OkReply(es))
      BY <1>1, <1>2, <1>5 DEF Discard
    <2> QED
      BY <1>2, <1>3, <2>1, HeardAtDone
  <1> QED
    BY <1>4, <1>5

(* A remainder that rests is announced with its price and its quantity.    *)
LEMMA RestHeard ==
    ASSUME FeedInv, IndexInv', TotalsFit, known' = known, Rest
    PROVE  Heard'
  <1>1. /\ pc = "match" /\ events \in Seq(BookEvent) /\ taker.id \in OrderId
        /\ taker.remaining_qty \in Word
    <2>1. pc = "match" /\ taker \in Order
      BY TakerTypes DEF Rest, FeedInv, BookInv
    <2> QED
      BY <2>1, TakerTypes DEF FeedInv, BookInv, Order
  <1>2. PICK key \in NodeId :
            Adds(key, taker) /\ order_index' = [order_index EXCEPT ![taker.id] = key]
    BY RestAdds DEF FeedInv, BookInv
  <1>3. taker.price \in Price
    BY RestAdds DEF FeedInv, BookInv
  <1>4. PICK o, e, id : /\ o = taker /\ id = o.id
                        /\ e = RestingOnBook(o.id, o.price, o.remaining_qty)
    OBVIOUS
  <1>5. PICK a, b, ia, ib : /\ a = arena /\ b = arena' /\ ia = order_index /\ ib = order_index'
    OBVIOUS
  <1>6. Indexed(a, ia) /\ Indexed(b, ib)
    <2>1. Indexed(arena, order_index)
      BY IndexedNow DEF FeedInv
    <2>2. Indexed(arena', order_index')
      BY DEF IndexInv, IndexExact, Indexed, TypeInv, TypeOK, BookTypeOK, Occupied
    <2> QED
      BY <1>5, <2>1, <2>2
  <1>7. /\ a[key] = None /\ b[key] # None /\ b[key].order = o
        /\ \A j \in NodeId \ {key} :
            /\ b[j] # None <=> a[j] # None
            /\ a[j] # None => b[j].order = a[j].order
    BY <1>2, <1>4, <1>5 DEF Adds, Live
  <1>8. SameButFor(a, b, id)
    BY <1>4, <1>7 DEF SameButFor
  <1>9. PICK x, y, seen : x = PictureOf(a, ia) /\ y = PictureOf(b, ib) /\ seen = y[id]
    OBVIOUS
  <1>10. id \in OrderId
    BY <1>1, <1>4
  <1>11. y = [x EXCEPT ![id] = seen]
    BY <1>6, <1>8, <1>9, <1>10, PictureChanges
  <1>12. seen = [price |-> o.price, left |-> o.remaining_qty]
    BY <1>4, <1>6, <1>7, <1>9, PictureAt
  <1>13. /\ e.kind = "RestingOnBook" /\ e.order_id = id /\ e.price = o.price
         /\ e.remaining_qty = o.remaining_qty /\ e \in BookEvent
    BY <1>1, <1>3, <1>4, ReplyType DEF RestingOnBook
  <1>14. e.kind # "Trade"
    BY <1>13
  <1>15. y = AfterEvent(x, e) /\ Honest(x, e)
    BY <1>11, <1>12, <1>13, <1>14 DEF AfterEvent, Honest
  <1>16. x = Picture /\ y = Picture'
    BY <1>5, <1>9 DEF Picture
  <1>17. PICK es, k : es = events /\ k = known'
    OBVIOUS
  <1>18. \E t : Tells(t, k, es, x)
    BY <1>1, <1>16, <1>17 DEF FeedInv, Heard
  <1>19. \E t : Tells(t, k, Append(es, e), y)
    BY <1>1, <1>13, <1>15, <1>17, <1>18, TellsMore
  <1>20. Append(es, e) \in Seq(BookEvent) /\ Returns(OkReply(Append(es, e)))
    BY <1>1, <1>4, <1>13, <1>17 DEF Rest
  <1> QED
    BY <1>16, <1>17, <1>19, <1>20, HeardAtDone

(* A cancel withdraws the one belief that is no longer true.               *)
LEMMA CancelHeard ==
    ASSUME FeedInv, IndexInv', known' = known, NEW id \in OrderId, Cancel(id)
    PROVE  Heard'
  <1>1. PICK key : key = order_index[id]
    OBVIOUS
  <1>2. key \in NodeId /\ Live(key) /\ Unlinks(key)
    BY <1>1, CancelUnlinks DEF FeedInv, BookInv
  <1>3. PICK e : e = Cancelled(id)
    OBVIOUS
  <1>4. PICK a, b, ia, ib : /\ a = arena /\ b = arena' /\ ia = order_index /\ ib = order_index'
    OBVIOUS
  <1>5. Indexed(a, ia) /\ Indexed(b, ib)
    <2>1. Indexed(arena, order_index)
      BY IndexedNow DEF FeedInv
    <2>2. Indexed(arena', order_index')
      BY DEF IndexInv, IndexExact, Indexed, TypeInv, TypeOK, BookTypeOK, Occupied
    <2> QED
      BY <1>4, <2>1, <2>2
  <1>6. /\ a[key] # None /\ b[key] = None /\ ia[id] = key /\ key # None
        /\ \A j \in NodeId \ {key} :
            /\ b[j] # None <=> a[j] # None
            /\ a[j] # None => b[j].order = a[j].order
    BY <1>1, <1>2, <1>4, PriceLevelAssumption DEF Unlinks, Live
  <1>7. a[key].order.id = id /\ \A j \in NodeId : a[j] # None /\ a[j].order.id = id => j = key
    BY <1>5, <1>6 DEF Indexed
  <1>8. SameButFor(a, b, id)
    BY <1>6, <1>7 DEF SameButFor
  <1>9. PICK x, y, seen : x = PictureOf(a, ia) /\ y = PictureOf(b, ib) /\ seen = y[id]
    OBVIOUS
  <1>10. y = [x EXCEPT ![id] = seen]
    BY <1>5, <1>8, <1>9, PictureChanges
  <1>11. seen = None
    <2>1. \A j \in NodeId : b[j] # None => b[j].order.id # id
      BY <1>6, <1>7
    <2> QED
      BY <1>5, <1>9, <2>1, PictureAt
  <1>12. e.kind = "Cancelled" /\ e.order_id = id /\ e \in BookEvent
    BY <1>3, ReplyType DEF Cancelled
  <1>13. e.kind # "Trade" /\ e.kind # "RestingOnBook"
    BY <1>12
  <1>14. y = AfterEvent(x, e) /\ Honest(x, e)
    BY <1>10, <1>11, <1>12, <1>13 DEF AfterEvent, Honest
  <1>15. PICK none : none = << >>
    OBVIOUS
  <1>16. none \in Seq(BookEvent) /\ <<e>> \in Seq(BookEvent) /\ Append(none, e) = <<e>>
    BY <1>12, <1>15
  <1>17. \E t : Tells(t, x, none, x)
    BY <1>15, TellsNothing
  <1>18. \E t : Tells(t, x, Append(none, e), y)
    BY <1>12, <1>14, <1>16, <1>17, TellsMore
  <1>19. x = known' /\ y = Picture'
    BY <1>4, <1>9 DEF Picture, FeedInv, Heard, Cancel
  <1>20. Returns(OkReply(<<e>>))
    BY <1>3 DEF Cancel
  <1> QED
    BY <1>16, <1>18, <1>19, <1>20, HeardAtDone

(* A caller who takes the reply has heard everything the call did.         *)
LEMMA TakenHeard ==
    ASSUME FeedInv, TakeReply, known' = Believed(known, reply.events)[Len(reply.events)]
    PROVE  FeedTypeOK' /\ Heard'
  <1>1. pc = "done" /\ pc' = "idle" /\ UNCHANGED book
    BY DEF TakeReply
  <1>2. PICK es, k, x : es = reply.events /\ k = known /\ x = Picture
    OBVIOUS
  <1>3. PICK t : Tells(t, k, es, x)
    BY <1>1, <1>2 DEF FeedInv, Heard
  <1>4. Len(es) \in Nat
    BY <1>1, <1>2 DEF FeedInv, Heard
  <1>5. Believed(k, es) = t
    BY <1>3, <1>4, BelievedIs
  <1>6. known' = x
    BY <1>2, <1>3, <1>5 DEF Tells
  <1>7. Picture' = x
    BY <1>1, <1>2, SamePicture
  <1>8. x \in [OrderId -> Belief \cup {None}]
    BY <1>2, PictureTyped DEF FeedInv, BookInv
  <1> QED
    BY <1>1, <1>6, <1>7, <1>8 DEF FeedTypeOK, Heard

LEMMA FeedInvInit == FeedInit => FeedInv
  <1> SUFFICES ASSUME FeedInit PROVE FeedInv
    OBVIOUS
  <1>1. BookInv /\ IndexInv
    BY BookInvInit, IndexInvInit DEF FeedInit
  <1>2. known = [id \in OrderId |-> None] /\ pc = "idle" /\ order_index = [id \in OrderId |-> None]
    BY DEF FeedInit, Init, BookInit
  <1>3. known \in [OrderId -> Belief \cup {None}]
    BY <1>2
  <1>4. \A id \in OrderId : Picture[id] = None
    BY <1>2 DEF Picture, PictureOf
  <1>5. Picture = [id \in OrderId |-> Picture[id]]
    BY DEF Picture, PictureOf
  <1>6. known = Picture
    BY <1>2, <1>4, <1>5
  <1> QED
    BY <1>1, <1>2, <1>3, <1>6 DEF FeedInv, FeedTypeOK, Heard

LEMMA FeedInvNext == FeedInv /\ TotalsFit /\ [FeedNext]_feedVars => FeedInv'
  <1> SUFFICES ASSUME FeedInv, TotalsFit, [FeedNext]_feedVars
               PROVE  FeedInv'
    OBVIOUS
  <1>1. [Next]_vars
    BY DEF FeedNext, Next, feedVars
  <1>2. BookInv' /\ IndexInv'
    BY <1>1, BookInvNext, IndexInvNext DEF FeedInv
  <1>3. known' = known => FeedTypeOK'
    BY DEF FeedInv, FeedTypeOK
  <1>4. CASE Submit /\ known' = known
    <2>1. PICK order \in NewOrder : Refuse(order) \/ Admit(order)
      BY <1>4 DEF Submit
    <2>2. ASSUME Refuse(order) PROVE Heard'
      BY <1>4, <2>2, FailureHeard DEF Refuse, FeedInv
    <2>3. ASSUME Admit(order) PROVE Heard'
      BY <1>4, <2>3, AdmitHeard
    <2> QED
      BY <1>2, <1>3, <1>4, <2>1, <2>2, <2>3 DEF FeedInv
  <1>5. CASE Work /\ known' = known
    <2>1. ASSUME Kill PROVE Heard'
      BY <1>5, <2>1, FailureHeard DEF Kill, FeedInv
    <2>2. ASSUME ScanLevel \/ Match PROVE Heard'
      BY <1>2, <1>5, <2>2, ScanHeard, MatchHeard
    <2>3. ASSUME Filled \/ Rest \/ Discard PROVE Heard'
      BY <1>2, <1>5, <2>3, FilledHeard, RestHeard, DiscardHeard
    <2> QED
      BY <1>2, <1>3, <1>5, <2>1, <2>2, <2>3 DEF FeedInv, Work
  <1>6. CASE CancelOrder /\ known' = known
    <2>1. PICK id \in OrderId : Cancel(id) \/ CancelUnknown(id) \/ CancelPanics(id)
      BY <1>6 DEF CancelOrder
    <2>2. ~CancelPanics(id)
      BY ShapeNoPanic DEF CancelPanics, FeedInv, BookInv
    <2>3. ASSUME Cancel(id) PROVE Heard'
      BY <1>2, <1>6, <2>3, CancelHeard
    <2>4. ASSUME CancelUnknown(id) PROVE Heard'
      BY <1>6, <2>4, FailureHeard DEF CancelUnknown, FeedInv
    <2> QED
      BY <1>2, <1>3, <1>6, <2>1, <2>2, <2>3, <2>4 DEF FeedInv
  <1>7. CASE TakeReply /\ known' = Believed(known, reply.events)[Len(reply.events)]
    BY <1>2, <1>7, TakenHeard DEF FeedInv
  <1>8. CASE UNCHANGED feedVars
    <2>1. pc' = pc /\ taker' = taker /\ events' = events /\ reply' = reply /\ known' = known
      BY <1>8 DEF feedVars, vars
    <2>2. Picture' = Picture
      BY <1>8, SamePicture DEF feedVars, vars, book
    <2>3. Heard'
      BY <2>1, <2>2 DEF FeedInv, Heard
    <2> QED
      BY <1>2, <1>3, <2>1, <2>3 DEF FeedInv
  <1> QED
    BY <1>4, <1>5, <1>6, <1>7, <1>8 DEF FeedNext

-----------------------------------------------------------------------------
(* The events of each reply, applied in their order, keep a consumer's     *)
(* picture equal to the resting orders: submit_order and cancel_order say  *)
(* everything they do to the book and nothing else.                        *)
THEOREM EventsTellBook == FeedSpec /\ []TotalsFit => []FeedReconstructsBook
  <1>1. FeedInv => FeedReconstructsBook
    BY DEF FeedInv, Heard, FeedReconstructsBook, Picture, PictureOf, IsResting
  <1> QED
    BY <1>1, FeedInvInit, FeedInvNext, PTL DEF FeedSpec

(* Each Trade names a maker that the earlier events had announced and not  *)
(* withdrawn, at the price announced, for no more than is left of it.      *)
THEOREM TradesNameAnnouncedMakers == FeedSpec /\ []TotalsFit => []TradesNameKnownMakers
  <1>1. FeedInv => TradesNameKnownMakers
    <2> SUFFICES ASSUME FeedInv, pc = "done", NEW i \in DOMAIN reply.events,
                        reply.events[i].kind = "Trade"
                 PROVE  LET e == reply.events[i]
                            before == Believed(known, reply.events)[i - 1]
                        IN  /\ before[e.maker_order_id] # None
                            /\ e.price = before[e.maker_order_id].price
                            /\ e.qty \in 1 .. before[e.maker_order_id].left
      BY DEF TradesNameKnownMakers
    <2>1. PICK es, k, x : es = reply.events /\ k = known /\ x = Picture
      OBVIOUS
    <2>2. PICK t : Tells(t, k, es, x)
      BY <2>1 DEF FeedInv, Heard
    <2>3. Len(es) \in Nat /\ i \in 1 .. Len(es)
      BY <2>1 DEF FeedInv, Heard
    <2>4. Believed(k, es) = t
      BY <2>2, <2>3, BelievedIs
    <2>5. Honest(t[i - 1], es[i])
      BY <2>2, <2>3 DEF Tells
    <2> QED
      BY <2>1, <2>4, <2>5 DEF Honest
  <1> QED
    BY <1>1, FeedInvInit, FeedInvNext, PTL DEF FeedSpec

(* What a consumer believes of an order is a price and a quantity above    *)
(* zero, or nothing: no reply announces an order of which nothing is left. *)
THEOREM BeliefsTyped == FeedSpec /\ []TotalsFit => []FeedTypeOK
  <1>1. FeedInv => FeedTypeOK
    BY DEF FeedInv
  <1> QED
    BY <1>1, FeedInvInit, FeedInvNext, PTL DEF FeedSpec

(* With words ample for what is ordered nothing is presumed of the run: the *)
(* events of each call tell the book, name makers they had announced, and  *)
(* are of the types the consumer expects.                                  *)
THEOREM AmpleEventsTellBook ==
    ASSUME NEW most \in Nat, Ample(most)
    PROVE  FeedSpec => [](FeedReconstructsBook /\ TradesNameKnownMakers /\ FeedTypeOK)
  <1>1. FeedInit => Init
    BY DEF FeedInit
  <1>2. [FeedNext]_feedVars => [Next]_vars
    BY DEF FeedNext, Next, feedVars
  <1>3. FeedSpec => Spec
    BY <1>1, <1>2, PTL DEF FeedSpec, Spec
  <1>4. Spec => [](TotalsFit /\ ScanFits)
    BY AmpleWordsSuffice
  <1> QED
    BY <1>3, <1>4, EventsTellBook, TradesNameAnnouncedMakers, BeliefsTyped, PTL
=============================================================================
