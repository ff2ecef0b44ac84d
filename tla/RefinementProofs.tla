-------------------------- MODULE RefinementProofs --------------------------
(***************************************************************************)
(* The engine implements the price-time book, for every value of the       *)
(* constants, as long as no sum wraps.                                     *)
(***************************************************************************)
EXTENDS EngineRefinement, QueueProofs

(* What the variables of the price-time book are mapped to.                *)
Queues == [s \in Side |-> [p \in Price |-> QueueAt(s, p)]]
Incoming == IF pc = "match" THEN taker ELSE None
Told == IF pc = "match" THEN events ELSE << >>
Subject == IF pc = "done" THEN taker ELSE None

(* What is known of the engine in each of its states.                      *)
Known == CallInv /\ LevelsExact

Entry(k) == [id |-> arena[k].order.id, left |-> arena[k].order.remaining_qty]

-----------------------------------------------------------------------------
(* Reading the mapped book.                                                *)

LEMMA QueueIs ==
    ASSUME Known, NEW side \in Side, NEW p \in Price,
           NEW w, w = Walk(side, p), NEW n, n = Cardinality(Members(side, p))
    PROVE  /\ n \in Nat /\ w \in [1 .. n -> Members(side, p)]
           /\ \A i, j \in 1 .. n : w[i] = w[j] => i = j
           /\ \A k \in Members(side, p) : \E i \in 1 .. n : w[i] = k
           /\ Queues[side][p] = [i \in 1 .. n |-> Entry(w[i])]
  <1>1. Line(w, side, p)
    BY WalkIsLine DEF Known, CallInv, BookInv
  <1>2. /\ n \in Nat /\ w \in [1 .. n -> Members(side, p)]
        /\ \A i, j \in 1 .. n : w[i] = w[j] => i = j
        /\ \A k \in Members(side, p) : \E i \in 1 .. n : w[i] = k
    BY <1>1 DEF Line
  <1>3. QueueAt(side, p) = [i \in DOMAIN w |-> Entry(w[i])]
    BY DEF QueueAt, Entry
  <1>4. DOMAIN w = 1 .. n
    BY <1>2
  <1> QED
    BY <1>2, <1>3, <1>4 DEF Queues

(* The links of a level, as the walk along it meets them.                  *)
LEMMA WalkLinks ==
    ASSUME Known, NEW side \in Side, NEW p \in Price,
           NEW w, w = Walk(side, p), NEW n, n = Cardinality(Members(side, p))
    PROVE  /\ n > 0 => LevelAt(side, p).head = w[1] /\ LevelAt(side, p).tail = w[n]
           /\ n = 0 => LevelAt(side, p).head = None /\ LevelAt(side, p).tail = None
           /\ \A i \in 1 .. n :
                /\ arena[w[i]].prev = IF i > 1 THEN w[i - 1] ELSE None
                /\ arena[w[i]].next = IF i < n THEN w[i + 1] ELSE None
  <1> DEFINE Nth(i) == IF i \in 1 .. n THEN w[i] ELSE None
  <1>1. Line(w, side, p)
    BY WalkIsLine DEF Known, CallInv, BookInv
  <1>2. /\ n \in Nat /\ LevelAt(side, p).head = Nth(1) /\ LevelAt(side, p).tail = Nth(n)
        /\ \A i \in 1 .. n : arena[w[i]].prev = Nth(i - 1) /\ arena[w[i]].next = Nth(i + 1)
    BY <1>1 DEF Line
  <1>3. /\ n > 0 => Nth(1) = w[1] /\ Nth(n) = w[n]
        /\ n = 0 => Nth(1) = None /\ Nth(n) = None
    BY <1>2
  <1>4. ASSUME NEW i \in 1 .. n
        PROVE  /\ Nth(i - 1) = IF i > 1 THEN w[i - 1] ELSE None
               /\ Nth(i + 1) = IF i < n THEN w[i + 1] ELSE None
    <2>1. (i - 1 \in 1 .. n <=> i > 1) /\ (i + 1 \in 1 .. n <=> i < n)
      BY <1>2
    <2> QED
      BY <2>1
  <1> HIDE DEF Nth
  <1> QED
    BY <1>2, <1>3, <1>4

(* An order is booked while it rests under its id.                         *)
LEMMA BookedIsResting ==
    ASSUME Known, NEW id \in OrderId
    PROVE  Promise!IsBooked(id) <=> IsResting(id)
  <1>1. Promise!IsBooked(id) <=>
            \E side \in Side, p \in Price :
                \E i \in DOMAIN Queues[side][p] : Queues[side][p][i].id = id
    BY Zenon DEF Promise!IsBooked, Queues, Promise!Side, Side
  <1>2. ASSUME NEW side \in Side, NEW p \in Price,
               NEW i \in DOMAIN Queues[side][p], Queues[side][p][i].id = id
        PROVE  IsResting(id)
    <2>1. PICK w, n : w = Walk(side, p) /\ n = Cardinality(Members(side, p))
      OBVIOUS
    <2>2. /\ w \in [1 .. n -> Members(side, p)]
          /\ Queues[side][p] = [j \in 1 .. n |-> Entry(w[j])]
      BY <2>1, QueueIs
    <2>3. w[i] \in Members(side, p) /\ Entry(w[i]).id = id
      BY <1>2, <2>2
    <2>4. w[i] \in Occupied(arena) /\ arena[w[i]].order.id = id
      BY <2>3 DEF Members, Entry
    <2>5. order_index[id] = w[i] /\ w[i] # None /\ arena[w[i]] # None
      BY <2>4, PriceLevelAssumption DEF Known, CallInv, IndexInv, IndexExact, Occupied
    <2> QED
      BY <2>5 DEF IsResting
  <1>3. ASSUME IsResting(id)
        PROVE  \E side \in Side, p \in Price :
                    \E i \in DOMAIN Queues[side][p] : Queues[side][p][i].id = id
    <2>1. PICK k : k = order_index[id] /\ k \in Occupied(arena) /\ arena[k].order.id = id
      BY <1>3
      DEF IsResting, Known, CallInv, IndexInv, IndexExact, TypeInv, TypeOK, BookTypeOK, Occupied
    <2>2. PICK side \in Side, p \in Price :
                side = arena[k].order.side /\ p = arena[k].order.price
      BY <2>1, StoredOrder DEF Known, CallInv, BookInv
    <2>3. k \in Members(side, p)
      BY <2>1, <2>2 DEF Members
    <2>4. PICK w, n : w = Walk(side, p) /\ n = Cardinality(Members(side, p))
      OBVIOUS
    <2>5. /\ \A j \in Members(side, p) : \E i \in 1 .. n : w[i] = j
          /\ Queues[side][p] = [j \in 1 .. n |-> Entry(w[j])]
      BY <2>4, QueueIs
    <2>6. PICK i \in 1 .. n : w[i] = k
      BY <2>3, <2>5
    <2>7. i \in DOMAIN Queues[side][p] /\ Queues[side][p][i].id = id
      BY <2>1, <2>5, <2>6 DEF Entry
    <2> QED
      BY <2>7
  <1> QED
    BY <1>1, <1>2, <1>3

(* The first price of the mapped book is the best price.                   *)
LEMMA FirstIsBest ==
    ASSUME Known, NEW side \in Side, NEW p \in Price
    PROVE  Promise!IsFirst(side, p) <=> IsBest(side, p)
  <1>1. ASSUME NEW q \in Price
        PROVE  Queues[side][q] # << >> <=> levels[side][q] # None
    <2>1. PICK M, w, n : M = Members(side, q) /\ w = Walk(side, q) /\ n = Cardinality(M)
      OBVIOUS
    <2>2. /\ n \in Nat /\ w \in [1 .. n -> M] /\ Queues[side][q] = [i \in 1 .. n |-> Entry(w[i])]
          /\ \A k \in M : \E i \in 1 .. n : w[i] = k
      BY <2>1, QueueIs
    <2>3. Queues[side][q] = << >> <=> n = 0
      BY <2>2
    <2>4. M = {} <=> n = 0
      BY <2>2
    <2>5. levels[side][q] # None <=> M # {}
      BY <2>1 DEF Known, LevelsExact, Members
    <2> QED
      BY <2>3, <2>4, <2>5
  <1>2. Promise!Served(side) = {q \in Price : Queues[side][q] # << >>}
    BY DEF Promise!Served, Queues
  <1>3. Promise!Served(side) = Present(side)
    BY <1>1, <1>2 DEF Present
  <1> QED
    BY <1>3 DEF Promise!IsFirst, IsBest, Promise!Better, Better

-----------------------------------------------------------------------------
(* Steps that leave the book as it is.                                     *)

LEMMA UnchangedQueues ==
    ASSUME UNCHANGED book
    PROVE  Queues' = Queues
  <1>1. arena' = arena /\ levels' = levels
    BY DEF book
  <1> QED
    BY <1>1 DEF Queues, QueueAt, Walk, Members, LevelAt, Occupied

LEMMA TakeReplyRefines ==
    ASSUME Known, TakeReply
    PROVE  Promise!Collected
  <1>1. Queues' = Queues
    BY UnchangedQueues DEF TakeReply
  <1>2. reply' = None /\ Incoming' = Incoming /\ Told' = Told /\ Subject' = None
    BY DEF TakeReply, Incoming, Told, Subject
  <1>3. reply # None
    BY DEF Known, CallInv, BookInv, TypeInv, Answered, TakeReply
  <1> QED
    BY <1>1, <1>2, <1>3
    DEF Promise!Collected, Queues, Incoming, Told, Subject

-----------------------------------------------------------------------------
(* What the mapped book can supply.                                        *)

LEMMA PromiseSum ==
    ASSUME NEW f
    PROVE  Promise!SumFunction(f) = SumFunction(f)
  BY DEF Promise!SumFunction, Promise!SumFunctionOnSet, Promise!FoldFunctionOnSet,
         Promise!MapThenFoldSet, SumFunction, SumFunctionOnSet, FoldFunctionOnSet, MapThenFoldSet

LEMMA LiquidityIs ==
    ASSUME Known, NEW side \in Side, NEW p \in Price
    PROVE  /\ Promise!Liquidity(side, p) = Left(arena, Members(side, p))
           /\ Promise!Liquidity(side, p) \in Nat
  <1>1. PICK M, w, n : M = Members(side, p) /\ w = Walk(side, p) /\ n = Cardinality(M)
    OBVIOUS
  <1>2. PICK q : q = Queues[side][p]
    OBVIOUS
  <1>3. /\ n \in Nat /\ w \in [1 .. n -> M]
        /\ \A i, j \in 1 .. n : w[i] = w[j] => i = j
        /\ \A k \in M : \E i \in 1 .. n : w[i] = k
        /\ q = [i \in 1 .. n |-> Entry(w[i])]
    BY <1>1, <1>2, QueueIs
  <1>4. PICK f, g : /\ f = [i \in 1 .. n |-> Entry(w[i]).left]
                    /\ g = [k \in M |-> arena[k].order.remaining_qty]
    OBVIOUS
  <1>5. Promise!Liquidity(side, p) = SumFunctionOnSet(f, 1 .. n)
    <2>1. Promise!Liquidity(side, p) = Promise!SumFunction([i \in DOMAIN q |-> q[i].left])
      BY <1>2 DEF Promise!Liquidity, Queues
    <2>2. [i \in DOMAIN q |-> q[i].left] = f
      BY <1>3, <1>4
    <2>3. Promise!Liquidity(side, p) = SumFunction(f)
      BY <2>1, <2>2, PromiseSum
    <2> QED
      BY <1>4, <2>3 DEF SumFunction
  <1>6. Left(arena, M) = SumFunctionOnSet(g, M)
    BY <1>4 DEF Left, SumFunction
  <1>7. M \in SUBSET Occupied(arena) /\ Countable(arena, M)
    <2>1. M \in SUBSET Occupied(arena)
      BY <1>1 DEF Members
    <2> QED
      BY <2>1, LiveCountable DEF Known, CallInv, BookInv
  <1>8. \A i \in 1 .. n : f[i] \in Nat /\ g[w[i]] = f[i]
    BY <1>3, <1>4, <1>7 DEF Countable, Entry
  <1>9. IsFiniteSet(1 .. n)
    BY <1>3, FS_Interval
  <1>10. SumFunctionOnSet(f, 1 .. n) = SumFunctionOnSet(g, M)
    BY <1>3, <1>8, <1>9, SumRenamed
  <1> QED
    BY <1>1, <1>5, <1>6, <1>7, <1>10, LeftNat

(* What the prices P of a side hold between them.                          *)
Holding(side, P) ==
    {k \in Occupied(arena) : arena[k].order.side = side /\ arena[k].order.price \in P}

LEMMA PricesHold ==
    ASSUME Known, NEW side \in Side, NEW P \in SUBSET Price, NEW f,
           \A p \in P : f[p] = Promise!Liquidity(side, p)
    PROVE  SumFunctionOnSet(f, P) = Left(arena, Holding(side, P))
  <1>1. IsFiniteSet(P)
    <2>1. IsFiniteSet(0 .. WordSize - 1)
      BY OrdersAssumption, FS_Interval
    <2> QED
      BY <2>1, OrdersAssumption, FS_Subset
  <1> DEFINE F == {s \in SUBSET P : SumFunctionOnSet(f, s) # Left(arena, Holding(side, s))}
  <1>2. SUFFICES ASSUME F # {} PROVE FALSE
    OBVIOUS
  <1>3. PICK s \in F : \A p \in s : s \ {p} \notin F
    BY <1>1, <1>2, SmallestSet
  <1>4. /\ s \in SUBSET P /\ IsFiniteSet(s)
        /\ SumFunctionOnSet(f, s) # Left(arena, Holding(side, s))
    BY <1>1, <1>3, FS_Subset
  <1>5. CASE s = {}
    <2>1. Holding(side, s) = {}
      BY <1>5 DEF Holding
    <2> HIDE DEF F
    <2> QED
      BY <1>4, <1>5, <2>1, SumEmpty, LeftEmpty
  <1>6. CASE s # {}
    <2>1. PICK p \in s : p \in Price
      BY <1>4, <1>6
    <2>2. SumFunctionOnSet(f, s \ {p}) = Left(arena, Holding(side, s \ {p}))
      BY <1>3, <1>4
    <2> HIDE DEF F
    <2>3. SumFunctionOnSet(f, s) = f[p] + SumFunctionOnSet(f, s \ {p})
      <3>1. \A x \in s : f[x] \in Nat
        BY <1>4, LiquidityIs
      <3> QED
        BY <1>4, <3>1, SumWithout
    <2>4. f[p] = Left(arena, Members(side, p))
      BY <1>4, <2>1, LiquidityIs
    <2>5. PICK M, H : M = Members(side, p) /\ H = Holding(side, s \ {p})
      OBVIOUS
    <2>6. Holding(side, s) = M \cup H /\ M \cap H = {} /\ M \cup H \in SUBSET Occupied(arena)
      BY <2>5 DEF Holding, Members
    <2>7. Countable(arena, M \cup H)
      BY <2>6, LiveCountable DEF Known, CallInv, BookInv
    <2>8. Left(arena, M \cup H) = Left(arena, M) + Left(arena, H)
      BY <2>6, <2>7, LeftUnion
    <2> QED
      BY <1>4, <2>2, <2>3, <2>4, <2>5, <2>6, <2>8
  <1> QED
    BY <1>5, <1>6

(* What a fill-or-kill order can be covered by is what it can reach.       *)
LEMMA CoverableIsReachable ==
    ASSUME Known, NEW order \in Order
    PROVE  Promise!Coverable(order) <=> Reachable(order) >= order.qty
  <1>1. PICK side, R : /\ side = OppositeSide(order.side)
                       /\ R = {p \in Price : order.price = None
                                    \/ WithinLimit(order.side, order.price, p)}
    OBVIOUS
  <1>2. PICK f : f = [p \in R |-> Promise!Liquidity(side, p)]
    OBVIOUS
  <1>3. side \in Side /\ R \in SUBSET Price
    BY <1>1, Opposites DEF Order
  <1>4. Promise!Coverable(order) <=> SumFunctionOnSet(f, R) >= order.qty
    <2>1. Promise!OppositeSide(order.side) = side
      BY <1>1 DEF Promise!OppositeSide, OppositeSide
    <2>2. {p \in Price : Promise!InReach(order, p)} = R
      BY <1>1 DEF Promise!InReach, Promise!WithinLimit, WithinLimit
    <2>3. Promise!Coverable(order) <=> Promise!SumFunction(f) >= order.qty
      BY <1>2, <2>1, <2>2 DEF Promise!Coverable
    <2>4. Promise!SumFunction(f) = SumFunctionOnSet(f, R)
      BY <1>2, PromiseSum DEF SumFunction
    <2> QED
      BY <2>3, <2>4
  <1>5. SumFunctionOnSet(f, R) = Left(arena, Holding(side, R))
    BY <1>2, <1>3, PricesHold
  <1>6. Holding(side, R) = InReachOf(order)
    <2>1. \A k \in Occupied(arena) : arena[k].order.price \in Price
      BY StoredOrder DEF Known, CallInv, BookInv
    <2> QED
      BY <1>1, <2>1 DEF Holding, InReachOf
  <1>7. Reachable(order) = Left(arena, InReachOf(order))
    BY ReachableIs DEF Known, CallInv, BookInv
  <1> QED
    BY <1>4, <1>5, <1>6, <1>7

-----------------------------------------------------------------------------
(* How the queues of the mapped book change.                               *)

(* A walk in the next state: any chain of next links from the head of the  *)
(* level that is as long as the level has orders.                          *)
LEMMA NewWalk ==
    ASSUME NEW side \in Side, NEW p \in Price, NEW n \in Nat, NEW w \in [1 .. n -> NodeId],
           n = Cardinality(Members(side, p)'),
           n > 0 => LevelAt(side, p)'.head = w[1],
           \A i \in 1 .. n - 1 : arena'[w[i]] # None /\ arena'[w[i]].next = w[i + 1]
    PROVE  QueueAt(side, p)' = [i \in 1 .. n |-> Entry(w[i])']
  <1>1. PICK a, head : a = arena' /\ head = LevelAt(side, p)'.head
    OBVIOUS
  <1>2. n > 0 => w[1] = head
    BY <1>1
  <1>3. \A i \in 1 .. n - 1 : w[i] # None /\ a[w[i]] # None /\ a[w[i]].next = w[i + 1]
    BY <1>1, PriceLevelAssumption
  <1>4. Chain(a, head, n) = w
    <2>1. w = [i \in 1 .. n |-> w[i]]
      OBVIOUS
    <2>2. Follows(a, head, n, w)
      BY <1>2, <1>3, <2>1 DEF Follows
    <2> QED
      BY <2>2, ChainIs
  <1>5. Walk(side, p)' = w
    BY <1>1, <1>4 DEF Walk
  <1>6. DOMAIN w = 1 .. n
    OBVIOUS
  <1>7. QueueAt(side, p)' = [i \in DOMAIN w |-> Entry(w[i])']
    BY <1>5 DEF QueueAt, Entry
  <1> QED
    BY <1>6, <1>7

LEMMA QueueStays ==
    ASSUME Known, NEW side \in Side, NEW p \in Price,
           Members(side, p)' = Members(side, p),
           Members(side, p) # {} => LevelAt(side, p)'.head = LevelAt(side, p).head,
           \A k \in Members(side, p) :
                arena'[k] # None /\ arena'[k].next = arena[k].next,
           NEW w, w = Walk(side, p), NEW n, n = Cardinality(Members(side, p))
    PROVE  QueueAt(side, p)' = [i \in 1 .. n |-> Entry(w[i])']
  <1>1. PICK M : M = Members(side, p) /\ w = Walk(side, p) /\ n = Cardinality(M)
    OBVIOUS
  <1>2. n \in Nat /\ w \in [1 .. n -> M] /\ w \in [1 .. n -> NodeId]
    <2>1. n \in Nat /\ w \in [1 .. n -> M]
      BY <1>1, QueueIs
    <2>2. M \subseteq NodeId
      BY <1>1 DEF Members, Occupied
    <2> QED
      BY <2>1, <2>2
  <1>3. n > 0 => LevelAt(side, p)'.head = w[1]
    <2>1. n > 0 => M # {} /\ LevelAt(side, p).head = w[1]
      BY <1>1, <1>2, WalkLinks
    <2> QED
      BY <1>1, <2>1
  <1>4. ASSUME NEW i \in 1 .. n - 1
        PROVE  arena'[w[i]] # None /\ arena'[w[i]].next = w[i + 1]
    <2>1. i \in 1 .. n /\ i < n /\ w[i] \in M
      BY <1>2
    <2>2. arena[w[i]].next = w[i + 1]
      BY <1>1, <2>1, WalkLinks
    <2> QED
      BY <1>1, <2>1, <2>2
  <1>5. n = Cardinality(Members(side, p)')
    BY <1>1
  <1> QED
    BY <1>2, <1>3, <1>4, <1>5, NewWalk

(* Nothing at a price changes for its queue.                               *)
LEMMA SameQueue ==
    ASSUME Known, NEW side \in Side, NEW p \in Price,
           Members(side, p)' = Members(side, p),
           Members(side, p) # {} => LevelAt(side, p)'.head = LevelAt(side, p).head,
           \A k \in Members(side, p) :
                arena'[k] # None /\ arena'[k].next = arena[k].next /\ Entry(k)' = Entry(k)
    PROVE  QueueAt(side, p)' = Queues[side][p]
  <1>1. PICK M, w, n : M = Members(side, p) /\ w = Walk(side, p) /\ n = Cardinality(M)
    OBVIOUS
  <1>2. QueueAt(side, p)' = [i \in 1 .. n |-> Entry(w[i])']
    BY <1>1, QueueStays
  <1>3. w \in [1 .. n -> M] /\ Queues[side][p] = [i \in 1 .. n |-> Entry(w[i])]
    BY <1>1, QueueIs
  <1>4. \A i \in 1 .. n : Entry(w[i])' = Entry(w[i])
    BY <1>1, <1>3
  <1> QED
    BY <1>2, <1>3, <1>4

(* One queue changes, all the others stay.                                 *)
LEMMA OneQueue ==
    ASSUME NEW side \in Side, NEW p \in Price, NEW q, QueueAt(side, p)' = q,
           \A s \in Side, r \in Price :
                (s # side \/ r # p) => QueueAt(s, r)' = Queues[s][r]
    PROVE  Queues' = [Queues EXCEPT ![side][p] = q]
  <1>1. Queues' = [s \in Side |-> [r \in Price |-> QueueAt(s, r)']]
    BY DEF Queues
  <1>2. Queues = [s \in Side |-> [r \in Price |-> Queues[s][r]]]
    BY DEF Queues
  <1> QED
    BY <1>1, <1>2

(* A sequence less its j-th element.                                       *)
LEMMA SeqWithout ==
    ASSUME NEW n \in Nat, NEW X, NEW q \in [1 .. n -> X], NEW j \in 1 .. n
    PROVE  SubSeq(q, 1, j - 1) \o SubSeq(q, j + 1, Len(q)) =
                [i \in 1 .. n - 1 |-> IF i < j THEN q[i] ELSE q[i + 1]]
  <1>1. q \in Seq(X) /\ Len(q) = n
    OBVIOUS
  <1>2. PICK a, b : a = SubSeq(q, 1, j - 1) /\ b = SubSeq(q, j + 1, n)
    OBVIOUS
  <1>3. /\ a \in Seq(X) /\ Len(a) = j - 1 /\ \A i \in 1 .. j - 1 : a[i] = q[i]
        /\ b \in Seq(X) /\ Len(b) = n - j /\ \A i \in 1 .. n - j : b[i] = q[i + j]
    BY <1>1, <1>2
  <1>4. /\ a \o b \in Seq(X) /\ Len(a \o b) = n - 1
        /\ \A i \in 1 .. n - 1 : (a \o b)[i] = IF i < j THEN q[i] ELSE q[i + 1]
    <2>1. a \o b \in Seq(X) /\ Len(a \o b) = n - 1
      <3>1. Len(a \o b) = Len(a) + Len(b) /\ a \o b \in Seq(X)
        BY <1>3
      <3>2. (j - 1) + (n - j) = n - 1
        OBVIOUS
      <3> QED
        BY <1>3, <3>1, <3>2
    <2>2. ASSUME NEW i \in 1 .. n - 1
          PROVE  (a \o b)[i] = IF i < j THEN q[i] ELSE q[i + 1]
      <3>1. CASE i < j
        BY <1>3, <2>1, <3>1
      <3>2. CASE ~(i < j)
        <4>1. (a \o b)[i] = b[i - (j - 1)] /\ i - (j - 1) \in 1 .. n - j
          BY <1>3, <2>1, <3>2
        <4>2. i - (j - 1) + j = i + 1
          OBVIOUS
        <4> QED
          BY <1>3, <3>2, <4>1, <4>2
      <3> QED
        BY <3>1, <3>2
    <2> QED
      BY <2>1, <2>2
  <1>5. PICK c : c = a \o b
    OBVIOUS
  <1>6. c \in Seq(X) /\ Len(c) = n - 1 /\ DOMAIN c = 1 .. n - 1
    BY <1>4, <1>5
  <1>7. PICK d : d = [i \in 1 .. n - 1 |-> IF i < j THEN q[i] ELSE q[i + 1]]
    OBVIOUS
  <1>8. \A i \in 1 .. n - 1 : c[i] = d[i]
    BY <1>4, <1>5, <1>7
  <1>9. c = [i \in 1 .. n - 1 |-> c[i]]
    BY <1>6
  <1>10. d = [i \in 1 .. n - 1 |-> d[i]]
    BY <1>7
  <1>11. c = d
    BY <1>8, <1>9, <1>10
  <1> QED
    BY <1>1, <1>2, <1>5, <1>7, <1>11

(* The order stored under k is the j-th of its queue and leaves it.        *)
LeavesQueue(k, side, p, j) ==
    LET q == Queues[side][p]
    IN  /\ InLevel(k, side, p)
        /\ j \in 1 .. Len(q) /\ q[j] = Entry(k)
        /\ LevelAt(side, p).head = k => j = 1
        /\ Queues' = [Queues EXCEPT ![side][p] =
                        SubSeq(q, 1, j - 1) \o SubSeq(q, j + 1, Len(q))]

(* An order unlinked leaves its queue, where the others keep their places. *)
LEMMA UnlinkQueues ==
    ASSUME Known, LevelsExact', NEW k \in NodeId, Live(k), Unlinks(k)
    PROVE  \E side \in Side, p \in Price, j \in Nat : LeavesQueue(k, side, p, j)
  <1>1. PICK side \in Side, p \in Price : InLevel(k, side, p) /\ k \in Members(side, p)
    <2>1. k \in Occupied(arena)
      BY DEF Live, Occupied
    <2>2. arena[k].order.side \in Side /\ arena[k].order.price \in Price
      BY <2>1, StoredOrder DEF Known, CallInv, BookInv
    <2> QED
      BY <2>1, <2>2 DEF InLevel, Members
  <1>2. PICK M, w, n, q : /\ M = Members(side, p) /\ w = Walk(side, p) /\ n = Cardinality(M)
                          /\ q = Queues[side][p]
    OBVIOUS
  <1>3. /\ n \in Nat /\ w \in [1 .. n -> M] /\ M \subseteq NodeId
        /\ \A i, j \in 1 .. n : w[i] = w[j] => i = j
        /\ \A x \in M : \E i \in 1 .. n : w[i] = x
        /\ q = [i \in 1 .. n |-> Entry(w[i])]
    <2>1. /\ n \in Nat /\ w \in [1 .. n -> M]
          /\ \A i, j \in 1 .. n : w[i] = w[j] => i = j
          /\ \A x \in M : \E i \in 1 .. n : w[i] = x
          /\ q = [i \in 1 .. n |-> Entry(w[i])]
      BY <1>2, QueueIs
    <2>2. M \subseteq NodeId
      BY <1>2 DEF Members, Occupied
    <2> QED
      BY <2>1, <2>2
  <1>4. /\ n > 0 => LevelAt(side, p).head = w[1]
        /\ \A i \in 1 .. n :
            /\ arena[w[i]].prev = IF i > 1 THEN w[i - 1] ELSE None
            /\ arena[w[i]].next = IF i < n THEN w[i + 1] ELSE None
    BY <1>2, WalkLinks
  <1>5. PICK j \in 1 .. n : w[j] = k
    BY <1>1, <1>2, <1>3
  <1>6. /\ ~Live(k)'
        /\ \A x \in NodeId \ {k} :
            /\ Live(x)' <=> Live(x)
            /\ Live(x) =>
                /\ arena'[x].order = arena[x].order
                /\ arena'[x].next = IF x = arena[k].prev THEN arena[k].next ELSE arena[x].next
    BY DEF Unlinks
  <1>7. \A s \in Side, r \in Price : Members(s, r)' = Members(s, r) \ {k}
    BY <1>6 DEF Members, Occupied, Live
  <1>8. PICK v : v = [i \in 1 .. n - 1 |-> IF i < j THEN w[i] ELSE w[i + 1]]
    OBVIOUS
  <1>9. /\ n - 1 \in Nat /\ v \in [1 .. n - 1 -> M \ {k}] /\ v \in [1 .. n - 1 -> NodeId]
        /\ \A i \in 1 .. n - 1 : v[i] = IF i < j THEN w[i] ELSE w[i + 1]
    <2>1. n - 1 \in Nat
      BY <1>3, <1>5
    <2>2. ASSUME NEW i \in 1 .. n - 1
          PROVE  (IF i < j THEN w[i] ELSE w[i + 1]) \in M \ {k}
      <3>1. i \in 1 .. n /\ i + 1 \in 1 .. n /\ (i < j => i # j) /\ (~(i < j) => i + 1 # j)
        BY <1>3, <1>5
      <3> QED
        BY <1>3, <1>5, <3>1
    <2> QED
      BY <1>3, <1>8, <2>1, <2>2
  <1>10. n - 1 = Cardinality(Members(side, p)')
    <2>1. IsFiniteSet(M)
      <3>1. M \in SUBSET Occupied(arena)
        BY <1>2 DEF Members
      <3> QED
        BY <3>1, LiveCountable DEF Known, CallInv, BookInv
    <2>2. Cardinality(M \ {k}) = n - 1
      BY <1>1, <1>2, <2>1, FS_RemoveElement
    <2> QED
      BY <1>2, <1>7, <2>2
  <1>11. n - 1 > 0 => LevelAt(side, p)'.head = v[1]
    <2>1. SUFFICES ASSUME n > 1 PROVE LevelAt(side, p)'.head = v[1]
      BY <1>3
    <2>2. PICK level, rest : level = levels[side][p] /\ rest = Without(level, arena, k)
      OBVIOUS
    <2>3. levels' = [levels EXCEPT ![side][p] = IF rest.total_qty = 0 THEN None ELSE rest]
      BY <1>1, <2>2 DEF Unlinks, InLevel
    <2>4. levels'[side][p] # None
      <3>1. v[1] \in Members(side, p)'
        <4>1. 1 \in 1 .. n - 1
          BY <1>3, <2>1
        <4> QED
          BY <1>2, <1>7, <1>9, <4>1
      <3> QED
        BY <3>1 DEF LevelsExact, Members
    <2>5. levels \in [Side -> [Price -> Level \cup {None}]]
      BY DEF Known, CallInv, BookInv, TypeInv, TypeOK, BookTypeOK
    <2>6. levels'[side][p] = IF rest.total_qty = 0 THEN None ELSE rest
      BY <2>3, <2>5
    <2>7. LevelAt(side, p)' = rest
      BY <2>4, <2>6 DEF LevelAt
    <2>8. rest.head = IF arena[k].prev = None THEN arena[k].next ELSE level.head
      BY <2>2 DEF Without
    <2>9. LevelAt(side, p) = level
      BY <1>1, <2>2 DEF LevelAt, Known, LevelsExact, Members
    <2>10. CASE j = 1
      <3>1. arena[k].prev = None /\ arena[k].next = w[2]
        BY <1>4, <1>5, <2>1, <2>10
      <3>2. v[1] = w[2]
        <4>1. 1 \in 1 .. n - 1 /\ ~(1 < j) /\ 1 + 1 = 2
          BY <1>3, <2>1, <2>10
        <4> QED
          BY <1>9, <4>1
      <3> QED
        BY <2>7, <2>8, <3>1, <3>2
    <2>11. CASE j # 1
      <3>1. j > 1 /\ j - 1 \in 1 .. n
        BY <1>3, <1>5, <2>11
      <3>2. arena[k].prev = w[j - 1] /\ w[j - 1] \in NodeId
        BY <1>3, <1>4, <1>5, <3>1
      <3>3. v[1] = w[1] /\ level.head = w[1]
        BY <1>3, <1>4, <1>9, <2>1, <2>9, <3>1
      <3> QED
        BY <2>7, <2>8, <3>2, <3>3, PriceLevelAssumption
    <2> QED
      BY <2>10, <2>11
  <1>12. ASSUME NEW i \in 1 .. (n - 1) - 1
         PROVE  arena'[v[i]] # None /\ arena'[v[i]].next = v[i + 1]
    <2>1. i \in 1 .. n - 1 /\ i + 1 \in 1 .. n - 1 /\ i \in 1 .. n /\ i + 1 \in 1 .. n /\ i + 2 \in 1 .. n
          /\ (i + 1) + 1 = i + 2 /\ i < n /\ i + 1 < n
      BY <1>3
    <2>2. v[i] \in M \ {k} /\ v[i] \in NodeId
      BY <1>9, <2>1
    <2>3. Live(v[i])
      BY <1>2, <2>2 DEF Members, Occupied, Live
    <2>4. /\ Live(v[i])'
          /\ arena'[v[i]].next = IF v[i] = arena[k].prev THEN arena[k].next ELSE arena[v[i]].next
      BY <1>6, <2>2, <2>3
    <2>5. j > 1 => arena[k].prev = w[j - 1] /\ j - 1 \in 1 .. n
      <3>1. j > 1 => j - 1 \in 1 .. n
        BY <1>3, <1>5
      <3>2. arena[k].prev = IF j > 1 THEN w[j - 1] ELSE None
        BY <1>4, <1>5
      <3> QED
        BY <3>1, <3>2
    <2>6. j = 1 => arena[k].prev = None
      BY <1>4, <1>5
    <2>7. arena[k].next = IF j < n THEN w[j + 1] ELSE None
      BY <1>4, <1>5
    <2>8. CASE i < j - 1
      <3>1. v[i] = w[i] /\ v[i + 1] = w[i + 1]
        BY <1>5, <1>9, <2>1, <2>8
      <3>2. w[i] # w[j - 1]
        BY <1>3, <2>1, <2>5, <2>8
      <3>3. arena[w[i]].next = w[i + 1]
        BY <1>4, <2>1
      <3>4. j > 1
        BY <1>5, <2>8
      <3> QED
        BY <2>4, <2>5, <3>1, <3>2, <3>3, <3>4 DEF Live
    <2>9. CASE i = j - 1
      <3>1. v[i] = w[j - 1] /\ v[i + 1] = w[j + 1] /\ j > 1 /\ j < n
        <4>1. i < j /\ ~(i + 1 < j) /\ (i + 1) + 1 = j + 1 /\ j > 1 /\ j < n
          BY <1>5, <2>1, <2>9
        <4> QED
          BY <1>9, <2>1, <2>9, <4>1
      <3> QED
        BY <2>4, <2>5, <2>7, <3>1 DEF Live
    <2>10. CASE i >= j
      <3>1. v[i] = w[i + 1] /\ v[i + 1] = w[i + 2]
        <4>1. ~(i < j) /\ ~(i + 1 < j)
          BY <1>5, <2>10
        <4> QED
          BY <1>9, <2>1, <4>1
      <3>2. v[i] # arena[k].prev
        <4>1. CASE j = 1
          BY <2>2, <2>6, <4>1, PriceLevelAssumption
        <4>2. CASE j # 1
          <5>1. j > 1 /\ j - 1 # i + 1
            BY <1>5, <2>1, <2>10, <4>2
          <5> QED
            BY <1>3, <2>1, <2>5, <3>1, <5>1
        <4> QED
          BY <4>1, <4>2
      <3>3. arena[w[i + 1]].next = w[i + 2]
        BY <1>4, <2>1
      <3> QED
        BY <2>4, <3>1, <3>2, <3>3 DEF Live
    <2> QED
      BY <1>5, <2>8, <2>9, <2>10
  <1>13. QueueAt(side, p)' = [i \in 1 .. n - 1 |-> Entry(v[i])']
    BY <1>9, <1>10, <1>11, <1>12, NewWalk
  <1>14. PICK less : less = SubSeq(q, 1, j - 1) \o SubSeq(q, j + 1, Len(q))
    OBVIOUS
  <1>15. less = [i \in 1 .. n - 1 |-> IF i < j THEN q[i] ELSE q[i + 1]]
    <2>1. PICK X : X = {q[i] : i \in 1 .. n}
      OBVIOUS
    <2>2. n \in Nat /\ q \in [1 .. n -> X] /\ j \in 1 .. n
      BY <1>3, <1>5, <2>1
    <2>3. SubSeq(q, 1, j - 1) \o SubSeq(q, j + 1, Len(q)) =
                [i \in 1 .. n - 1 |-> IF i < j THEN q[i] ELSE q[i + 1]]
      BY <2>2, SeqWithout
    <2> QED
      BY <1>14, <2>3
  <1>16. QueueAt(side, p)' = less
    <2>1. ASSUME NEW i \in 1 .. n - 1
          PROVE  Entry(v[i])' = IF i < j THEN q[i] ELSE q[i + 1]
      <3>1. v[i] \in M \ {k} /\ v[i] \in NodeId
        BY <1>9
      <3>2. Live(v[i])
        BY <1>2, <3>1 DEF Members, Occupied, Live
      <3>3. Entry(v[i])' = Entry(v[i])
        BY <1>6, <3>1, <3>2 DEF Entry
      <3>4. i \in 1 .. n /\ i + 1 \in 1 .. n
        BY <1>3
      <3>5. q[i] = Entry(w[i]) /\ q[i + 1] = Entry(w[i + 1])
        BY <1>3, <3>4
      <3>6. v[i] = IF i < j THEN w[i] ELSE w[i + 1]
        BY <1>9
      <3>7. CASE i < j
        BY <3>3, <3>5, <3>6, <3>7
      <3>8. CASE ~(i < j)
        BY <3>3, <3>5, <3>6, <3>8
      <3> QED
        BY <3>7, <3>8
    <2> QED
      BY <1>13, <1>15, <2>1
  <1>17. ASSUME NEW s \in Side, NEW r \in Price, s # side \/ r # p
         PROVE  QueueAt(s, r)' = Queues[s][r]
    <2>1. k \notin Members(s, r) /\ Members(s, r)' = Members(s, r)
      BY <1>1, <1>7, <1>17 DEF InLevel, Members
    <2>2. LevelAt(s, r)' = LevelAt(s, r)
      <3>1. levels \in [Side -> [Price -> Level \cup {None}]]
        BY DEF Known, CallInv, BookInv, TypeInv, TypeOK, BookTypeOK
      <3>2. \E new : levels' = [levels EXCEPT ![side][p] = new]
        BY <1>1 DEF Unlinks, InLevel
      <3>3. levels'[s][r] = levels[s][r]
        BY <1>17, <3>1, <3>2
      <3> QED
        BY <3>3 DEF LevelAt
    <2>3. ASSUME NEW x \in Members(s, r)
          PROVE  arena'[x] # None /\ arena'[x].next = arena[x].next /\ Entry(x)' = Entry(x)
      <3>1. x \in NodeId \ {k} /\ Live(x) /\ x \notin M
        BY <1>2, <1>17, <2>1 DEF Members, Occupied, Live
      <3>2. arena[k].prev = None \/ arena[k].prev \in M
        <4>1. j > 1 => j - 1 \in 1 .. n
          BY <1>3
        <4> QED
          BY <1>3, <1>4, <1>5, <4>1
      <3>3. x # arena[k].prev
        BY <3>1, <3>2, PriceLevelAssumption
      <3> QED
        BY <1>6, <3>1, <3>3 DEF Live, Entry
    <2> QED
      BY <2>1, <2>2, <2>3, SameQueue
  <1>18. Queues' = [Queues EXCEPT ![side][p] = less]
    BY <1>16, <1>17, OneQueue
  <1>19. q[j] = Entry(k) /\ Len(q) = n
    BY <1>3, <1>5
  <1>20. LevelAt(side, p).head = k => j = 1
    BY <1>3, <1>4, <1>5
  <1>21. j \in 1 .. Len(q) /\ j \in Nat
    BY <1>3, <1>5, <1>19
  <1>22. LeavesQueue(k, side, p, j)
    BY <1>1, <1>2, <1>14, <1>18, <1>19, <1>20, <1>21 DEF LeavesQueue
  <1> QED
    BY <1>21, <1>22

(* The first order of the level at p keeps its slot, with `fill` less.     *)
GivesPart(k, side, p, fill) ==
    /\ Live(k) /\ InLevel(k, side, p) /\ LevelAt(side, p).head = k
    /\ Live(k)' /\ arena'[k].next = arena[k].next
    /\ arena'[k].order = [arena[k].order EXCEPT !.remaining_qty = Rem(k) - fill]
    /\ \A j \in NodeId \ {k} :
        /\ Live(j)' <=> Live(j)
        /\ Live(j) => arena'[j].order = arena[j].order /\ arena'[j].next = arena[j].next
    /\ \A s \in Side, r \in Price : LevelAt(s, r)'.head = LevelAt(s, r).head

(* A fill that leaves something of the first order lowers it where it is.  *)
LEMMA LowerQueues ==
    ASSUME Known, NEW side \in Side, NEW p \in Price, NEW k \in NodeId, NEW fill \in Nat,
           GivesPart(k, side, p, fill), NEW q, q = Queues[side][p]
    PROVE  /\ q # << >> /\ q[1] = Entry(k) /\ Head(q) = q[1]
           /\ Queues' = [Queues EXCEPT ![side][p] = [q EXCEPT ![1].left = @ - fill]]
  <1> USE DEF GivesPart
  <1>1. PICK M, w, n : M = Members(side, p) /\ w = Walk(side, p) /\ n = Cardinality(M)
    OBVIOUS
  <1>2. /\ n \in Nat /\ w \in [1 .. n -> M]
        /\ \A i, j \in 1 .. n : w[i] = w[j] => i = j
        /\ \A x \in M : \E i \in 1 .. n : w[i] = x
        /\ q = [i \in 1 .. n |-> Entry(w[i])]
    BY <1>1, QueueIs
  <1>3. k \in M /\ M \subseteq NodeId
    BY <1>1 DEF InLevel, Members, Occupied, Live
  <1>4. 1 \in 1 .. n /\ w[1] = k
    <2>1. 1 \in 1 .. n /\ n > 0
      BY <1>2, <1>3
    <2> QED
      BY <1>1, <2>1, WalkLinks
  <1>5. arena[k].order \in Order
    <2>1. k \in Occupied(arena)
      BY DEF Live, Occupied
    <2> QED
      BY <2>1, StoredOrder DEF Known, CallInv, BookInv
  <1>6. /\ arena'[k].order.side = arena[k].order.side
        /\ arena'[k].order.price = arena[k].order.price
        /\ arena'[k].order.id = arena[k].order.id
        /\ arena'[k].order.remaining_qty = arena[k].order.remaining_qty - fill
    BY <1>5 DEF Order, Rem
  <1>7. \A s \in Side, r \in Price : Members(s, r)' = Members(s, r)
    <2>1. Occupied(arena)' = Occupied(arena)
      BY DEF Occupied, Live
    <2>2. \A x \in Occupied(arena) : /\ arena'[x].order.side = arena[x].order.side
                                     /\ arena'[x].order.price = arena[x].order.price
      BY <1>6 DEF Occupied, Live
    <2> QED
      BY <2>1, <2>2 DEF Members
  <1>8. \A x \in NodeId : Live(x) => arena'[x] # None /\ arena'[x].next = arena[x].next
    BY DEF Live
  <1>9. QueueAt(side, p)' = [i \in 1 .. n |-> Entry(w[i])']
    <2>1. \A x \in M : arena'[x] # None /\ arena'[x].next = arena[x].next
      BY <1>1, <1>8 DEF Members, Occupied, Live
    <2> QED
      BY <1>1, <1>7, <2>1, QueueStays
  <1>10. PICK less : less = [q EXCEPT ![1].left = @ - fill]
    OBVIOUS
  <1>11. QueueAt(side, p)' = less
    <2>1. q[1] = Entry(k)
      BY <1>2, <1>4
    <2>2. less = [i \in 1 .. n |-> IF i = 1 THEN [q[1] EXCEPT !.left = q[1].left - fill] ELSE q[i]]
      <3>1. PICK e : e = [q[1] EXCEPT !.left = q[1].left - fill]
        OBVIOUS
      <3>2. less = [q EXCEPT ![1] = e]
        BY <1>10, <3>1
      <3>3. less = [i \in 1 .. n |-> IF i = 1 THEN e ELSE q[i]]
        BY <1>2, <3>2
      <3> QED
        BY <3>1, <3>3
    <2>3. Entry(k)' = [Entry(k) EXCEPT !.left = Entry(k).left - fill]
      BY <1>6 DEF Entry
    <2>4. ASSUME NEW i \in 1 .. n, i # 1
          PROVE  Entry(w[i])' = q[i]
      <3>1. w[i] \in NodeId \ {k} /\ w[i] \in M
        BY <1>2, <1>3, <1>4, <2>4
      <3>2. Live(w[i])
        BY <1>1, <3>1 DEF Members, Occupied, Live
      <3>3. Entry(w[i])' = Entry(w[i])
        BY <3>1, <3>2 DEF Entry
      <3> QED
        BY <1>2, <3>3
    <2>5. ASSUME NEW i \in 1 .. n
          PROVE  Entry(w[i])' = less[i]
      <3>1. CASE i = 1
        BY <1>4, <2>1, <2>2, <2>3, <3>1
      <3>2. CASE i # 1
        BY <2>2, <2>4, <3>2
      <3> QED
        BY <3>1, <3>2
    <2>6. less = [i \in 1 .. n |-> less[i]]
      BY <2>2
    <2> QED
      BY <1>9, <2>5, <2>6
  <1>12. ASSUME NEW s \in Side, NEW r \in Price, s # side \/ r # p
         PROVE  QueueAt(s, r)' = Queues[s][r]
    <2>1. k \notin Members(s, r)
      BY <1>1, <1>3, <1>12 DEF Members
    <2>2. ASSUME NEW x \in Members(s, r)
          PROVE  arena'[x] # None /\ arena'[x].next = arena[x].next /\ Entry(x)' = Entry(x)
      <3>1. x \in NodeId \ {k} /\ Live(x)
        BY <2>1, <2>2 DEF Members, Occupied, Live
      <3> QED
        BY <1>8, <3>1 DEF Live, Entry
    <2> QED
      BY <1>7, <2>2, SameQueue
  <1>13. Queues' = [Queues EXCEPT ![side][p] = less]
    BY <1>11, <1>12, OneQueue
  <1>14. q # << >> /\ q[1] = Entry(k) /\ Head(q) = q[1]
    BY <1>2, <1>4
  <1> QED
    BY <1>10, <1>13, <1>14

(* An order that comes to rest joins the end of its queue.                 *)
LEMMA AddQueues ==
    ASSUME Known, NEW key \in NodeId, NEW order \in Order, order.price \in Price,
           Adds(key, order), LevelsExact'
    PROVE  Queues' = [Queues EXCEPT ![order.side][order.price] =
                        Append(@, [id |-> order.id, left |-> order.remaining_qty])]
  <1>1. PICK side, p : side = order.side /\ p = order.price /\ side \in Side /\ p \in Price
    BY DEF Order
  <1>2. PICK M, w, n, q : /\ M = Members(side, p) /\ w = Walk(side, p) /\ n = Cardinality(M)
                          /\ q = Queues[side][p]
    OBVIOUS
  <1>3. /\ n \in Nat /\ w \in [1 .. n -> M]
        /\ \A i, j \in 1 .. n : w[i] = w[j] => i = j
        /\ q = [i \in 1 .. n |-> Entry(w[i])]
    BY <1>1, <1>2, QueueIs
  <1>4. M \subseteq NodeId /\ key \notin M /\ \A x \in M : Live(x)
    BY <1>2 DEF Members, Occupied, Live, Adds
  <1>5. PICK level : level = LevelAt(side, p)
    OBVIOUS
  <1>6. /\ ~Live(key) /\ Live(key)' /\ arena'[key].order = order
        /\ \A x \in NodeId \ {key} :
            /\ Live(x)' <=> Live(x)
            /\ Live(x) =>
                /\ arena'[x].order = arena[x].order
                /\ arena'[x].next = IF x = level.tail THEN key ELSE arena[x].next
        /\ levels' = [levels EXCEPT ![side][p] = Longer(level, order, key)]
    BY <1>1, <1>5 DEF Adds
  <1>7. Members(side, p)' = M \cup {key}
    BY <1>1, <1>2, <1>6 DEF Members, Occupied, Live
  <1>8. \A s \in Side, r \in Price : s # side \/ r # p => Members(s, r)' = Members(s, r)
    BY <1>1, <1>6 DEF Members, Occupied, Live
  <1>9. n + 1 = Cardinality(Members(side, p)')
    <2>1. IsFiniteSet(M)
      <3>1. M \in SUBSET Occupied(arena)
        BY <1>2 DEF Members
      <3> QED
        BY <3>1, LiveCountable DEF Known, CallInv, BookInv
    <2>2. Cardinality(M \cup {key}) = n + 1
      BY <1>2, <1>4, <2>1, FS_AddElement
    <2> QED
      BY <1>7, <2>2
  <1>10. /\ n > 0 => level.head = w[1] /\ level.tail = w[n]
         /\ n = 0 => level.tail = None
         /\ \A i \in 1 .. n : arena[w[i]].next = IF i < n THEN w[i + 1] ELSE None
    BY <1>1, <1>2, <1>5, WalkLinks
  <1>11. PICK v : v = [i \in 1 .. n + 1 |-> IF i <= n THEN w[i] ELSE key]
    OBVIOUS
  <1>12. /\ n + 1 \in Nat /\ v \in [1 .. n + 1 -> NodeId] /\ v[n + 1] = key
         /\ \A i \in 1 .. n : v[i] = w[i] /\ w[i] \in M /\ w[i] \in NodeId \ {key}
    <2>1. \A i \in 1 .. n + 1 : i \in 1 .. n \/ (i = n + 1 /\ ~(i <= n))
      BY <1>3
    <2>2. n + 1 \in 1 .. n + 1 /\ 1 .. n \subseteq 1 .. n + 1
      BY <1>3
    <2> QED
      BY <1>3, <1>4, <1>11, <2>1, <2>2
  <1>13. levels \in [Side -> [Price -> Level \cup {None}]]
    BY DEF Known, CallInv, BookInv, TypeInv, TypeOK, BookTypeOK
  <1>14. n + 1 > 0 => LevelAt(side, p)'.head = v[1]
    <2>1. PICK longer : longer = Longer(level, order, key)
      OBVIOUS
    <2>2. levels'[side][p] = longer
      BY <1>1, <1>6, <1>13, <2>1
    <2>3. LevelAt(side, p)'.head = longer.head
      <3>1. longer.head = IF level.tail = None THEN key ELSE level.head
        BY <2>1 DEF Longer
      <3>2. LevelAt(side, p)' = IF longer = None THEN EmptyLevel ELSE longer
        BY <2>2 DEF LevelAt, EmptyLevel
      <3>3. levels'[side][p] # None
        BY <1>1, <1>6 DEF LevelsExact, Occupied, Live
      <3> QED
        BY <2>2, <3>2, <3>3
    <2>4. longer.head = IF level.tail = None THEN key ELSE level.head
      BY <2>1 DEF Longer
    <2>5. CASE n = 0
      <3>1. v[1] = key
        BY <1>12, <2>5
      <3> QED
        BY <1>10, <2>3, <2>4, <2>5, <3>1
    <2>6. CASE n > 0
      <3>1. 1 \in 1 .. n /\ n \in 1 .. n
        BY <1>3, <2>6
      <3> QED
        BY <1>3, <1>4, <1>10, <1>12, <2>3, <2>4, <2>6, <3>1, PriceLevelAssumption
    <2> QED
      BY <1>3, <2>5, <2>6
  <1>15. ASSUME NEW i \in 1 .. (n + 1) - 1
         PROVE  arena'[v[i]] # None /\ arena'[v[i]].next = v[i + 1]
    <2>1. i \in 1 .. n
      BY <1>3
    <2>2. /\ Live(w[i])'
          /\ arena'[w[i]].next = IF w[i] = level.tail THEN key ELSE arena[w[i]].next
      BY <1>4, <1>6, <1>12, <2>1
    <2>3. CASE i = n
      BY <1>10, <1>12, <2>1, <2>2, <2>3 DEF Live
    <2>4. CASE i # n
      <3>1. i < n /\ i + 1 \in 1 .. n /\ n \in 1 .. n /\ n > 0
        BY <1>3, <2>1, <2>4
      <3>2. w[i] # level.tail
        BY <1>3, <1>10, <2>1, <2>4, <3>1
      <3> QED
        BY <1>10, <1>12, <2>1, <2>2, <3>1, <3>2 DEF Live
    <2> QED
      BY <2>3, <2>4
  <1>16. QueueAt(side, p)' = [i \in 1 .. n + 1 |-> Entry(v[i])']
    <2>1. PICK m : m = n + 1
      OBVIOUS
    <2>2. /\ m \in Nat /\ v \in [1 .. m -> NodeId]
          /\ m = Cardinality(Members(side, p)')
          /\ m > 0 => LevelAt(side, p)'.head = v[1]
          /\ \A i \in 1 .. m - 1 : arena'[v[i]] # None /\ arena'[v[i]].next = v[i + 1]
      BY <1>9, <1>12, <1>14, <1>15, <2>1
    <2>3. QueueAt(side, p)' = [i \in 1 .. m |-> Entry(v[i])']
      <3>1. side \in Side /\ p \in Price
        BY <1>1
      <3> QED
        BY <2>2, <3>1, NewWalk
    <2> QED
      BY <2>1, <2>3
  <1>17. PICK e, more : e = [id |-> order.id, left |-> order.remaining_qty] /\ more = Append(q, e)
    OBVIOUS
  <1>18. QueueAt(side, p)' = more
    <2>1. more = [i \in 1 .. n + 1 |-> IF i = n + 1 THEN e ELSE q[i]]
      BY <1>3, <1>17
    <2>2. Entry(key)' = e
      BY <1>6, <1>17 DEF Entry
    <2>3. ASSUME NEW i \in 1 .. n
          PROVE  Entry(w[i])' = q[i]
      <3>1. Entry(w[i])' = Entry(w[i])
        BY <1>4, <1>6, <1>12 DEF Entry
      <3> QED
        BY <1>3, <3>1
    <2>4. ASSUME NEW i \in 1 .. n + 1
          PROVE  Entry(v[i])' = more[i]
      <3>1. CASE i = n + 1
        BY <1>12, <2>1, <2>2, <3>1
      <3>2. CASE i # n + 1
        <4>1. i \in 1 .. n
          BY <1>3, <3>2
        <4> QED
          BY <1>12, <2>1, <2>3, <3>2, <4>1
      <3> QED
        BY <3>1, <3>2
    <2>5. more = [i \in 1 .. n + 1 |-> more[i]]
      BY <2>1
    <2> QED
      BY <1>16, <2>4, <2>5
  <1>19. ASSUME NEW s \in Side, NEW r \in Price, s # side \/ r # p
         PROVE  QueueAt(s, r)' = Queues[s][r]
    <2>1. LevelAt(s, r)' = LevelAt(s, r)
      <3>1. levels'[s][r] = levels[s][r]
        BY <1>1, <1>6, <1>13, <1>19
      <3> QED
        BY <3>1 DEF LevelAt
    <2>2. ASSUME NEW x \in Members(s, r)
          PROVE  arena'[x] # None /\ arena'[x].next = arena[x].next /\ Entry(x)' = Entry(x)
      <3>1. x \in NodeId \ {key} /\ Live(x)
        BY <1>6, <2>2 DEF Members, Occupied, Live
      <3>2. x # level.tail
        <4>1. n > 0 => n \in 1 .. n /\ w[n] \in M
          BY <1>3
        <4>2. x \notin M
          BY <1>2, <1>19, <2>2 DEF Members
        <4>3. CASE n = 0
          BY <1>10, <3>1, <4>3, PriceLevelAssumption
        <4>4. CASE n > 0
          BY <1>10, <4>1, <4>2, <4>4
        <4> QED
          BY <1>3, <4>3, <4>4
      <3> QED
        BY <1>6, <3>1, <3>2 DEF Live, Entry
    <2> QED
      BY <1>8, <1>19, <2>1, <2>2, SameQueue
  <1>20. Queues' = [Queues EXCEPT ![side][p] = more]
    BY <1>1, <1>18, <1>19, OneQueue
  <1> QED
    BY <1>1, <1>2, <1>17, <1>20

-----------------------------------------------------------------------------
(* Both books speak of orders, events and replies in the same words.       *)

LEMMA SameWords ==
    /\ Promise!NewOrder = NewOrder /\ Promise!EngineError = EngineError
    /\ Promise!Side = Side
    /\ \A e : Promise!ErrReply(e) = ErrReply(e)
    /\ \A es : Promise!OkReply(es) = OkReply(es)
    /\ \A id : Promise!Accepted(id) = Accepted(id) /\ Promise!Cancelled(id) = Cancelled(id)
    /\ \A id, p, q : Promise!RestingOnBook(id, p, q) = RestingOnBook(id, p, q)
    /\ \A m, t, p, q : Promise!Trade(m, t, p, q) = Trade(m, t, p, q)
    /\ \A s : Promise!OppositeSide(s) = OppositeSide(s)
    /\ \A s, limit, p : Promise!WithinLimit(s, limit, p) <=> WithinLimit(s, limit, p)
    /\ \A a, b : Promise!Least(a, b) = Least(a, b)
  <1>1. Promise!NewOrder = NewOrder
    BY DEF Promise!NewOrder, NewOrder, Promise!Side, Side, Promise!OrderType, OrderType,
           Promise!TimeInForce, TimeInForce
  <1>2. Promise!EngineError = EngineError /\ Promise!Side = Side
    BY DEF Promise!EngineError, EngineError, Promise!Side, Side
  <1>3. /\ \A e : Promise!ErrReply(e) = ErrReply(e)
        /\ \A es : Promise!OkReply(es) = OkReply(es)
    BY DEF Promise!ErrReply, ErrReply, Promise!OkReply, OkReply
  <1>4. /\ \A id : Promise!Accepted(id) = Accepted(id) /\ Promise!Cancelled(id) = Cancelled(id)
        /\ \A id, p, q : Promise!RestingOnBook(id, p, q) = RestingOnBook(id, p, q)
        /\ \A m, t, p, q : Promise!Trade(m, t, p, q) = Trade(m, t, p, q)
    BY DEF Promise!Accepted, Accepted, Promise!Cancelled, Cancelled,
           Promise!RestingOnBook, RestingOnBook, Promise!Trade, Trade
  <1>5. /\ \A s : Promise!OppositeSide(s) = OppositeSide(s)
        /\ \A s, limit, p : Promise!WithinLimit(s, limit, p) <=> WithinLimit(s, limit, p)
        /\ \A a, b : Promise!Least(a, b) = Least(a, b)
    BY DEF Promise!OppositeSide, OppositeSide, Promise!WithinLimit, WithinLimit,
           Promise!Least, Least
  <1> QED
    BY <1>1, <1>2, <1>3, <1>4, <1>5

(* A call that returns answers the order it was given, and has no incoming *)
(* order any more.                                                         *)
LEMMA ReturnAnswers ==
    ASSUME NEW r, Returns(r), NEW order, taker' = order
    PROVE  Promise!Answer(order, r)
  <1>1. pc' = "done" /\ reply' = r
    BY DEF Returns
  <1> QED
    BY <1>1 DEF Promise!Answer

-----------------------------------------------------------------------------
(* Requests that are refused, and orders that are taken on.                *)

LEMMA RefuseRefines ==
    ASSUME Known, NEW order \in NewOrder, Refuse(order)
    PROVE  Promise!Refused(order)
  <1>1. order \in Order /\ order.remaining_qty = order.qty /\ order.id \in OrderId
    BY NewOrderType DEF NewOrder
  <1>2. PICK e : e = Fault(order) /\ e # "none"
    BY DEF Refuse
  <1>3. e \in EngineError /\ Promise!HasFault(order, e)
    <2>1. CASE order.remaining_qty = 0
      BY <1>1, <1>2, <2>1 DEF Fault, EngineError, Promise!HasFault
    <2>2. CASE order.remaining_qty # 0 /\ order.order_type = "Limit" /\ order.price = None
      <3>1. e = "MissingPrice"
        BY <1>2, <2>2 DEF Fault
      <3> QED
        BY <2>2, <3>1 DEF EngineError, Promise!HasFault
    <2>3. CASE order.remaining_qty # 0 /\ order.order_type = "Market" /\ order.tif = "GTC"
      <3>1. e = "InvalidTifForMarket"
        BY <1>2, <2>3 DEF Fault
      <3> QED
        BY <2>3, <3>1 DEF EngineError, Promise!HasFault
    <2>4. CASE /\ order.remaining_qty # 0
               /\ ~(order.order_type = "Limit" /\ order.price = None)
               /\ ~(order.order_type = "Market" /\ order.tif = "GTC")
      <3>1. e = "DuplicateOrderId" /\ IsResting(order.id)
        BY <1>2, <2>4 DEF Fault
      <3>2. Promise!IsBooked(order.id)
        BY <1>1, <3>1, BookedIsResting
      <3> QED
        BY <3>1, <3>2 DEF EngineError, Promise!HasFault
    <2> QED
      BY <2>1, <2>2, <2>3, <2>4
  <1>4. Promise!Answer(order, Promise!ErrReply(e))
    BY <1>2, ReturnAnswers, SameWords DEF Refuse
  <1>5. Queues' = Queues
    BY UnchangedQueues DEF Refuse
  <1> QED
    BY <1>3, <1>4, <1>5, SameWords DEF Promise!Refused, Queues

LEMMA KillRefines ==
    ASSUME Known, Kill
    PROVE  taker \in NewOrder /\ Promise!Refused(taker)
  <1>1. taker \in NewOrder /\ taker \in Order /\ taker.tif = "FOK"
    BY NewOrderType DEF Known, CallInv, Scanning, Kill
  <1>2. ~Promise!Coverable(taker)
    <2>1. Reachable(taker) < taker.qty
      BY KillFalls DEF Known, CallInv, BookInv
    <2>2. Promise!Coverable(taker) <=> Reachable(taker) >= taker.qty
      BY <1>1, CoverableIsReachable
    <2>3. Reachable(taker) \in Nat /\ taker.qty \in Nat
      BY <1>1, ReachableIs, LeftNat, OrdersAssumption DEF Known, CallInv, BookInv, Order, Word
    <2> QED
      BY <2>1, <2>2, <2>3
  <1>3. PICK e : e = "FokNotFillable"
    OBVIOUS
  <1>4. e \in EngineError /\ Promise!HasFault(taker, e)
    BY <1>1, <1>2, <1>3 DEF EngineError, Promise!HasFault
  <1>5. Promise!Answer(taker, Promise!ErrReply(e))
    BY <1>3, ReturnAnswers, SameWords DEF Kill
  <1>6. Queues' = Queues
    BY UnchangedQueues DEF Kill
  <1> QED
    BY <1>1, <1>4, <1>5, <1>6, SameWords DEF Promise!Refused, Queues

(* An order with no fault that goes to the matching loop is taken on.      *)
LEMMA TakesOn ==
    ASSUME Known, NEW order \in NewOrder, pc # "match", pc # "done",
           order.qty # 0,
           ~(order.order_type = "Limit" /\ order.price = None),
           ~(order.order_type = "Market" /\ order.tif = "GTC"),
           ~IsResting(order.id),
           order.tif = "FOK" => Reachable(order) >= order.qty,
           pc' = "match", taker' = order, events' = <<Accepted(order.id)>>,
           reply' = reply, UNCHANGED book
    PROVE  Promise!TakenOn(order)
  <1>1. order \in Order /\ order.id \in OrderId
    BY NewOrderType DEF NewOrder
  <1>2. ~Promise!IsBooked(order.id)
    BY <1>1, BookedIsResting
  <1>3. order.tif = "FOK" => Promise!Coverable(order)
    BY <1>1, CoverableIsReachable
  <1>4. \A e \in Promise!EngineError : ~Promise!HasFault(order, e)
    BY <1>2, <1>3 DEF Promise!HasFault
  <1>5. Queues' = Queues
    BY UnchangedQueues
  <1>6. Promise!Accepted(order.id) = Accepted(order.id)
    BY SameWords
  <1> QED
    BY <1>4, <1>5, <1>6 DEF Promise!TakenOn, Queues

LEMMA AdmitRefines ==
    ASSUME Known, NEW order \in NewOrder, Admit(order)
    PROVE  Promise!TakenOn(order) \/ UNCHANGED Promise!pvars
  <1>1. /\ pc = "idle" /\ Fault(order) = "none" /\ taker' = order
        /\ events' = <<Accepted(order.id)>> /\ reply' = reply /\ UNCHANGED book
        /\ pc' = IF order.tif = "FOK" THEN "scan" ELSE "match"
    BY DEF Admit
  <1>2. CASE order.tif = "FOK"
    <2>1. Queues' = Queues /\ pc \notin {"match", "done"} /\ pc' \notin {"match", "done"}
      BY <1>1, <1>2, UnchangedQueues
    <2> QED
      BY <1>1, <2>1 DEF Promise!pvars, Queues
  <1>3. CASE order.tif # "FOK"
    <2>1. order.remaining_qty = order.qty
      BY DEF NewOrder
    <2>2. /\ order.qty # 0
          /\ ~(order.order_type = "Limit" /\ order.price = None)
          /\ ~(order.order_type = "Market" /\ order.tif = "GTC")
          /\ ~IsResting(order.id)
      BY <1>1, <2>1 DEF Fault
    <2> QED
      BY <1>1, <1>3, <2>2, TakesOn
  <1> QED
    BY <1>2, <1>3

(* A level that is counted is a step of the engine's own until it covers   *)
(* the order.                                                              *)
LEMMA ScanRefines ==
    ASSUME Known, ScanFits, ScanLevel
    PROVE  Promise!TakenOn(taker) \/ UNCHANGED Promise!pvars
  <1>1. /\ pc = "scan" /\ taker' = taker /\ events' = events /\ reply' = reply
        /\ UNCHANGED book
        /\ pc' = IF accumulated' >= taker.remaining_qty THEN "match" ELSE "scan"
    BY DEF ScanLevel
  <1>2. /\ taker \in NewOrder /\ taker.tif = "FOK" /\ events = <<Accepted(taker.id)>>
        /\ accumulated < taker.remaining_qty
    BY <1>1 DEF Known, CallInv, Scanning
  <1>3. /\ taker.remaining_qty = taker.qty /\ taker.remaining_qty \in Nat
        /\ taker.id \in OrderId /\ accumulated \in Nat /\ None \notin Price
        /\ taker.order_type = "Limit" => taker.price \in Price
    BY <1>1, <1>2, TakerTypes, OrdersAssumption DEF NewOrder, Known, CallInv, BookInv
  <1>4. CASE pc' # "match"
    <2>1. Queues' = Queues
      BY <1>1, UnchangedQueues
    <2> QED
      BY <1>1, <1>4, <2>1 DEF Promise!pvars, Queues
  <1>5. CASE pc' = "match"
    <2>1. accumulated' >= taker.remaining_qty
      BY <1>1, <1>5
    <2>2. PICK p \in Price :
            /\ CountsTowardFill(p)
            /\ accumulated' = Add64(accumulated, levels[OppositeSide(taker.side)][p].total_qty)
      BY DEF ScanLevel
    <2>3. PICK K, sum :
            /\ K = {k \in Occupied(arena) :
                        /\ arena[k].order.side = OppositeSide(taker.side)
                        /\ ~Better(OppositeSide(taker.side), p, arena[k].order.price)}
            /\ sum = Add64(accumulated, levels[OppositeSide(taker.side)][p].total_qty)
      OBVIOUS
    <2>4. sum = Left(arena, K) /\ sum <= Reachable(taker)
      BY <1>1, <2>2, <2>3, ScanCounts DEF Known, CallInv, BookInv
    <2>5. sum \in Nat /\ Reachable(taker) \in Nat
      <3>1. K \in SUBSET Occupied(arena)
        BY <2>3
      <3>2. Countable(arena, K)
        BY <3>1, LiveCountable DEF Known, CallInv, BookInv
      <3> QED
        BY <2>4, <3>2, LeftNat, ReachableIs DEF Known, CallInv, BookInv
    <2>6. Reachable(taker) >= taker.qty
      BY <1>3, <2>1, <2>2, <2>3, <2>4, <2>5
    <2>7. ~IsResting(taker.id)
      BY <1>1 DEF Known, CallInv, IndexInv, TakerUnindexed, IsResting
    <2>8. taker.qty # 0
      BY <1>2, <1>3
    <2> QED
      BY <1>1, <1>2, <1>3, <1>5, <2>6, <2>7, <2>8, TakesOn
  <1> QED
    BY <1>4, <1>5

-----------------------------------------------------------------------------
(* Execution.                                                              *)

(* The incoming order may trade at p as long as the loop would.            *)
LEMMA ExecutableIs ==
    ASSUME Known, pc = "match", NEW p \in Price
    PROVE  Promise!Executable(p) <=>
                /\ IsBest(OppositeSide(taker.side), p)
                /\ taker.order_type = "Limit" => WithinLimit(taker.side, taker.price, p)
  <1>1. OppositeSide(taker.side) \in Side /\ taker.order_type \in {"Limit", "Market"}
    BY TakerTypes DEF Known, CallInv, BookInv, Order, OrderType
  <1>2. Promise!IsFirst(OppositeSide(taker.side), p) <=> IsBest(OppositeSide(taker.side), p)
    BY <1>1, FirstIsBest
  <1>3. Promise!Executable(p) <=>
            /\ Promise!IsFirst(OppositeSide(taker.side), p)
            /\ \/ taker.order_type = "Market"
               \/ WithinLimit(taker.side, taker.price, p)
    BY SameWords DEF Promise!Executable
  <1> QED
    BY <1>1, <1>2, <1>3

(* The first order of the queue q is that stored under h, and gives `fill`. *)
TakesFirst(side, p, q, h, fill) ==
    /\ q # << >> /\ q[1] = Entry(h) /\ Head(q) = q[1]
    /\ Queues' = [Queues EXCEPT ![side][p] =
                    IF fill = Rem(h) THEN Tail(q) ELSE [q EXCEPT ![1].left = @ - fill]]

(* A trade is with the first order of the best queue.                      *)
LEMMA MatchQueues ==
    ASSUME Known, LevelsExact', Match,
           NEW p \in Price, NEW h \in NodeId, NEW fill \in Nat, Takes(p, h, fill),
           NEW side, side = OppositeSide(taker.side), NEW q, q = Queues[side][p]
    PROVE  TakesFirst(side, p, q, h, fill)
  <1>1. /\ side \in Side /\ IsBest(side, p) /\ h = levels[side][p].head
        /\ Live(h) /\ InLevel(h, side, p)
        /\ Live(h)' <=> fill # Rem(h)
        /\ Live(h)' => /\ arena'[h].order =
                            [arena[h].order EXCEPT !.remaining_qty = Rem(h) - fill]
                       /\ arena'[h].next = arena[h].next
        /\ \A k \in NodeId \ {h} :
            /\ Live(k)' <=> Live(k)
            /\ Live(k) => arena'[k].order = arena[k].order /\ arena'[k].next = arena[k].next
    BY DEF Takes
  <1>2. LevelAt(side, p) = levels[side][p] /\ LevelAt(side, p).head = h
    BY <1>1 DEF IsBest, Present, LevelAt
  <1>3. Unlinks(h) \/ Lowers(h, taker.remaining_qty)
    <2>1. PICK r \in Price, g \in NodeId :
            /\ IsBest(side, r) /\ g = levels[side][r].head
            /\ Unlinks(g) \/ Lowers(g, taker.remaining_qty)
      BY MatchMoves DEF Known, CallInv, BookInv
    <2>2. r = p
      BY <1>1, <2>1, BestUnique
    <2> QED
      BY <1>1, <2>1, <2>2
  <1>4. PICK n : /\ n \in Nat /\ q = [i \in 1 .. n |-> q[i]]
    <2>1. PICK w, n : w = Walk(side, p) /\ n = Cardinality(Members(side, p))
      OBVIOUS
    <2>2. n \in Nat /\ q = [i \in 1 .. n |-> Entry(w[i])]
      BY <1>1, <2>1, QueueIs
    <2> QED
      BY <2>2
  <1>5. CASE fill = Rem(h)
    <2>1. Unlinks(h)
      BY <1>1, <1>3, <1>5 DEF Lowers
    <2>2. PICK s \in Side, r \in Price, j \in Nat : LeavesQueue(h, s, r, j)
      BY <1>1, <2>1, UnlinkQueues
    <2>3. s = side /\ r = p /\ j = 1
      BY <1>1, <1>2, <2>2 DEF InLevel, LeavesQueue
    <2>4. /\ 1 \in 1 .. Len(q) /\ q[1] = Entry(h)
          /\ Queues' = [Queues EXCEPT ![side][p] =
                            SubSeq(q, 1, 1 - 1) \o SubSeq(q, 1 + 1, Len(q))]
      BY <2>2, <2>3 DEF LeavesQueue
    <2>5. Len(q) = n /\ 1 \in 1 .. n /\ q # << >> /\ Head(q) = q[1]
      BY <1>4, <2>4
    <2>6. SubSeq(q, 1, 1 - 1) \o SubSeq(q, 1 + 1, Len(q)) = Tail(q)
      <3>1. PICK X : X = {q[i] : i \in 1 .. n}
        OBVIOUS
      <3>2. q \in [1 .. n -> X] /\ 1 \in 1 .. n /\ n \in Nat
        BY <1>4, <2>5, <3>1
      <3>3. SubSeq(q, 1, 1 - 1) \o SubSeq(q, 1 + 1, Len(q)) =
                [i \in 1 .. n - 1 |-> IF i < 1 THEN q[i] ELSE q[i + 1]]
        BY <3>2, SeqWithout
      <3>4. Tail(q) = [i \in 1 .. n - 1 |-> q[i + 1]]
        BY <2>5
      <3>5. [i \in 1 .. n - 1 |-> IF i < 1 THEN q[i] ELSE q[i + 1]] =
                [i \in 1 .. n - 1 |-> q[i + 1]]
        BY <3>2
      <3> QED
        BY <3>3, <3>4, <3>5
    <2>7. Queues' = [Queues EXCEPT ![side][p] = Tail(q)]
      BY <2>4, <2>6
    <2> QED
      BY <1>5, <2>4, <2>5, <2>7 DEF TakesFirst
  <1>6. CASE fill # Rem(h)
    <2>1. Live(h)'
      BY <1>1, <1>6
    <2>2. Lowers(h, taker.remaining_qty)
      BY <1>3, <2>1 DEF Unlinks
    <2>3. levels' = [levels EXCEPT ![side][p] =
                        Lowered(levels[side][p], taker.remaining_qty)]
      BY <1>1, <2>2 DEF Lowers, InLevel
    <2>4. levels \in [Side -> [Price -> Level \cup {None}]]
      BY DEF Known, CallInv, BookInv, TypeInv, TypeOK, BookTypeOK
    <2>5. levels'[side][p] # None
      <3>1. h \in Occupied(arena)'
        BY <2>1 DEF Occupied, Live
      <3>2. arena'[h].order.side = side /\ arena'[h].order.price = p
        <4>1. h \in Occupied(arena)
          BY <1>1 DEF Occupied, Live
        <4>2. arena[h].order \in Order
          BY <4>1, StoredOrder DEF Known, CallInv, BookInv
        <4> QED
          BY <1>1, <2>1, <4>2 DEF InLevel, Order
      <3> QED
        BY <1>1, <3>1, <3>2 DEF LevelsExact
    <2>6. ASSUME NEW s \in Side, NEW r \in Price
          PROVE  LevelAt(s, r)'.head = LevelAt(s, r).head
      <3>1. CASE s = side /\ r = p
        <4>1. levels'[side][p] = Lowered(levels[side][p], taker.remaining_qty)
          BY <1>1, <2>3, <2>4
        <4>2. LevelAt(side, p)' = Lowered(levels[side][p], taker.remaining_qty)
          BY <2>5, <4>1 DEF LevelAt
        <4> QED
          BY <1>2, <3>1, <4>2 DEF Lowered
      <3>2. CASE s # side \/ r # p
        <4>1. levels'[s][r] = levels[s][r]
          BY <1>1, <2>3, <2>4, <3>2
        <4> QED
          BY <4>1 DEF LevelAt
      <3> QED
        BY <3>1, <3>2
    <2>7. GivesPart(h, side, p, fill)
      BY <1>1, <1>2, <2>1, <2>6 DEF GivesPart
    <2>8. /\ q # << >> /\ q[1] = Entry(h) /\ Head(q) = q[1]
          /\ Queues' = [Queues EXCEPT ![side][p] = [q EXCEPT ![1].left = @ - fill]]
      BY <1>1, <2>7, LowerQueues
    <2> QED
      BY <1>6, <2>8, Zenon DEF TakesFirst
  <1> QED
    BY <1>5, <1>6

LEMMA MatchRefines ==
    ASSUME Known, LevelsExact', Match
    PROVE  Promise!Executed
  <1>1. PICK p \in Price, h \in NodeId, fill \in Nat : Takes(p, h, fill)
    BY MatchTakes DEF Known, CallInv, BookInv
  <1>2. PICK side, q : side = OppositeSide(taker.side) /\ q = Queues[side][p]
    OBVIOUS
  <1>3. TakesFirst(side, p, q, h, fill)
    BY <1>1, <1>2, MatchQueues
  <1>4. /\ pc = "match" /\ pc' = "match" /\ reply' = reply
        /\ taker.remaining_qty > 0
    BY DEF Match, LoopContinues
  <1>5. taker # None
    BY <1>4, TakerTypes DEF Known, CallInv, BookInv
  <1>6. /\ side \in Side /\ Promise!Executable(p)
        /\ fill = Least(Rem(h), taker.remaining_qty)
        /\ taker' = [taker EXCEPT !.remaining_qty = @ - fill]
        /\ events' = Append(events, Trade(arena[h].order.id, taker, p, fill))
    BY <1>1, <1>2, <1>4, ExecutableIs DEF Takes
  <1>7. Head(q) = Entry(h)
    BY <1>3 DEF TakesFirst
  <1>8. Head(q).left = Rem(h) /\ Head(q).id = arena[h].order.id
    BY <1>7 DEF Entry, Rem
  <1>9. /\ Incoming = taker /\ Incoming' = taker' /\ Told = events /\ Told' = events'
        /\ Subject' = Subject
    BY <1>4 DEF Incoming, Told, Subject
  <1>10. Promise!Executed <=>
            /\ Incoming # None /\ Incoming.remaining_qty > 0
            /\ \E r \in Price :
                /\ Promise!Executable(r)
                /\ LET s == OppositeSide(Incoming.side)
                       maker == Head(Queues[s][r])
                       amount == Least(maker.left, Incoming.remaining_qty)
                       rest == IF amount = maker.left THEN Tail(Queues[s][r])
                               ELSE [Queues[s][r] EXCEPT ![1].left = @ - amount]
                   IN  /\ Queues' = [Queues EXCEPT ![s][r] = rest]
                       /\ Incoming' = [Incoming EXCEPT !.remaining_qty = @ - amount]
                       /\ Told' = Append(Told, Trade(maker.id, Incoming, r, amount))
            /\ reply' = reply /\ Subject' = Subject
    BY Zenon
    DEF Promise!Executed, Promise!OppositeSide, OppositeSide, Promise!Least, Least,
        Promise!Trade, Trade, Queues, Incoming, Told, Subject
  <1>11. LET maker == Head(Queues[side][p])
             amount == Least(maker.left, taker.remaining_qty)
             rest == IF amount = maker.left THEN Tail(Queues[side][p])
                     ELSE [Queues[side][p] EXCEPT ![1].left = @ - amount]
         IN  /\ Queues' = [Queues EXCEPT ![side][p] = rest]
             /\ taker' = [taker EXCEPT !.remaining_qty = @ - amount]
             /\ events' = Append(events, Trade(maker.id, taker, p, amount))
    BY <1>2, <1>3, <1>6, <1>8, Zenon DEF TakesFirst
  <1> QED
    BY <1>2, <1>4, <1>5, <1>6, <1>9, <1>10, <1>11

-----------------------------------------------------------------------------
(* What becomes of the remainder.                                          *)

(* A loop that has stopped has nothing left to trade at.                   *)
LEMMA NothingExecutable ==
    ASSUME Known, pc = "match", taker.remaining_qty > 0, ~LoopContinues
    PROVE  ~ \E p \in Price : Promise!Executable(p)
  <1> SUFFICES ASSUME NEW p \in Price, Promise!Executable(p) PROVE FALSE
    OBVIOUS
  <1>1. PICK side : side = OppositeSide(taker.side) /\ side \in Side
    BY TakerTypes DEF Known, CallInv, BookInv
  <1>2. /\ IsBest(side, p)
        /\ taker.order_type = "Limit" => WithinLimit(taker.side, taker.price, p)
    BY <1>1, ExecutableIs
  <1>3. HasFront(levels[side][p], arena)
    BY <1>1, <1>2, BestHasFront DEF Known, CallInv, BookInv
  <1>4. Crosses(taker) /\ CanMatchAtBest(side)
    BY <1>1, <1>2, <1>3 DEF Crosses, CanMatchAtBest
  <1> QED
    BY <1>1, <1>4 DEF LoopContinues

(* What the price-time book says of the end of an order, in the engine's   *)
(* words.                                                                  *)
LEMMA SettledIs ==
    ASSUME Known, pc = "match"
    PROVE  Promise!Settled <=>
            /\ taker.remaining_qty = 0 \/ ~ \E p \in Price : Promise!Executable(p)
            /\ \/ /\ taker.remaining_qty = 0
                  /\ Promise!Answer(taker, OkReply(events))
                  /\ Queues' = Queues
               \/ /\ taker.remaining_qty > 0 /\ taker.tif = "GTC"
                  /\ Queues' = [Queues EXCEPT ![taker.side][taker.price] =
                        Append(@, [id |-> taker.id, left |-> taker.remaining_qty])]
                  /\ Promise!Answer(taker, OkReply(Append(events,
                        RestingOnBook(taker.id, taker.price, taker.remaining_qty))))
               \/ /\ taker.remaining_qty > 0 /\ taker.tif = "IOC"
                  /\ Promise!Answer(taker, OkReply(Append(events, Cancelled(taker.id))))
                  /\ Queues' = Queues
  <1>1. taker # None
    BY TakerTypes DEF Known, CallInv, BookInv
  <1>2. Incoming = taker /\ Told = events
    BY DEF Incoming, Told
  <1>3. Promise!Settled <=>
            /\ Incoming # None
            /\ Incoming.remaining_qty = 0 \/ ~ \E p \in Price : Promise!Executable(p)
            /\ \/ /\ Incoming.remaining_qty = 0
                  /\ Promise!Answer(Incoming, OkReply(Told))
                  /\ Queues' = Queues
               \/ /\ Incoming.remaining_qty > 0 /\ Incoming.tif = "GTC"
                  /\ Queues' = [Queues EXCEPT ![Incoming.side][Incoming.price] =
                        Append(@, [id |-> Incoming.id, left |-> Incoming.remaining_qty])]
                  /\ Promise!Answer(Incoming, OkReply(Append(Told,
                        RestingOnBook(Incoming.id, Incoming.price, Incoming.remaining_qty))))
               \/ /\ Incoming.remaining_qty > 0 /\ Incoming.tif = "IOC"
                  /\ Promise!Answer(Incoming, OkReply(Append(Told, Cancelled(Incoming.id))))
                  /\ Queues' = Queues
    BY Zenon
    DEF Promise!Settled, Promise!OkReply, OkReply, Promise!RestingOnBook, RestingOnBook,
        Promise!Cancelled, Cancelled, Queues, Incoming, Told
  <1> QED
    BY <1>1, <1>2, <1>3, Zenon

LEMMA FilledRefines ==
    ASSUME Known, Filled
    PROVE  Promise!Settled
  <1>1. /\ pc = "match" /\ taker.remaining_qty = 0 /\ taker' = taker
        /\ Returns(OkReply(events)) /\ UNCHANGED book
    BY DEF Filled
  <1>2. Queues' = Queues
    BY <1>1, UnchangedQueues
  <1>3. Promise!Answer(taker, OkReply(events))
    BY <1>1, ReturnAnswers
  <1> QED
    BY <1>1, <1>2, <1>3, SettledIs

LEMMA RestRefines ==
    ASSUME Known, LevelsExact', TotalsFit, Rest
    PROVE  Promise!Settled
  <1>1. /\ pc = "match" /\ taker.remaining_qty > 0 /\ ~LoopContinues /\ taker.tif = "GTC"
        /\ taker' = taker
        /\ Returns(OkReply(Append(events,
                RestingOnBook(taker.id, taker.price, taker.remaining_qty))))
    BY DEF Rest
  <1>2. Promise!Answer(taker, OkReply(Append(events,
                RestingOnBook(taker.id, taker.price, taker.remaining_qty))))
    BY <1>1, ReturnAnswers
  <1>3. Queues' = [Queues EXCEPT ![taker.side][taker.price] =
                        Append(@, [id |-> taker.id, left |-> taker.remaining_qty])]
    <2>1. taker \in Order /\ taker.price \in Price
      BY RestAdds DEF Known, CallInv, BookInv
    <2>2. PICK key \in NodeId : Adds(key, taker)
      BY RestAdds DEF Known, CallInv, BookInv
    <2> QED
      BY <2>1, <2>2, AddQueues
  <1>4. ~ \E p \in Price : Promise!Executable(p)
    BY <1>1, NothingExecutable
  <1> QED
    BY <1>1, <1>2, <1>3, <1>4, SettledIs, Zenon

(* A fill-or-kill order never comes to this: the loop goes on for it.      *)
LEMMA DiscardRefines ==
    ASSUME Known, Discard
    PROVE  Promise!Settled
  <1>1. /\ pc = "match" /\ taker.remaining_qty > 0 /\ ~LoopContinues /\ taker.tif # "GTC"
        /\ Returns(OkReply(IF taker.tif = "IOC" THEN Append(events, Cancelled(taker.id))
                                                ELSE events))
        /\ UNCHANGED book /\ taker' = taker
    BY DEF Discard
  <1>2. taker.tif = "IOC"
    <2>1. taker.tif \in {"GTC", "IOC", "FOK"}
      BY <1>1, TakerTypes DEF Known, CallInv, BookInv, Order, TimeInForce
    <2>2. taker.tif # "FOK"
      <3>1. taker.tif = "FOK" => taker.remaining_qty <= Reachable(taker)
        BY <1>1 DEF Known, CallInv, Matching
      <3> QED
        BY <1>1, <3>1, ReachIsBest DEF Known, CallInv, BookInv
    <2> QED
      BY <1>1, <2>1, <2>2
  <1>3. Promise!Answer(taker, OkReply(Append(events, Cancelled(taker.id))))
    BY <1>1, <1>2, ReturnAnswers
  <1>4. Queues' = Queues
    BY <1>1, UnchangedQueues
  <1>5. ~ \E p \in Price : Promise!Executable(p)
    BY <1>1, NothingExecutable
  <1> QED
    BY <1>1, <1>2, <1>3, <1>4, <1>5, SettledIs, Zenon

-----------------------------------------------------------------------------
(* Cancels.                                                                *)

LEMMA CancelRefines ==
    ASSUME Known, LevelsExact', NEW id \in OrderId, Cancel(id)
    PROVE  Promise!Withdrawn(id)
  <1>1. PICK k : k = order_index[id]
    OBVIOUS
  <1>2. k \in NodeId /\ Live(k) /\ Unlinks(k)
    BY <1>1, CancelUnlinks DEF Known, CallInv, BookInv
  <1>3. arena[k].order.id = id
    BY <1>1, <1>2, PriceLevelAssumption DEF Known, CallInv, IndexInv, IndexExact
  <1>4. PICK side \in Side, p \in Price, j \in Nat : LeavesQueue(k, side, p, j)
    BY <1>2, UnlinkQueues
  <1>5. PICK q : q = Queues[side][p]
    OBVIOUS
  <1>6. /\ j \in DOMAIN q /\ q[j].id = id
        /\ Queues' = [Queues EXCEPT ![side][p] =
                        SubSeq(q, 1, j - 1) \o SubSeq(q, j + 1, Len(q))]
    <2>1. /\ j \in 1 .. Len(q) /\ q[j] = Entry(k)
          /\ Queues' = [Queues EXCEPT ![side][p] =
                        SubSeq(q, 1, j - 1) \o SubSeq(q, j + 1, Len(q))]
      BY <1>4, <1>5 DEF LeavesQueue
    <2>2. DOMAIN q = 1 .. Len(q)
      <3>1. PICK w, n : w = Walk(side, p) /\ n = Cardinality(Members(side, p))
        OBVIOUS
      <3>2. n \in Nat /\ q = [i \in 1 .. n |-> Entry(w[i])]
        BY <1>5, <3>1, QueueIs
      <3> QED
        BY <3>2
    <2>3. q[j].id = id
      BY <1>3, <2>1 DEF Entry
    <2> QED
      BY <2>1, <2>2, <2>3
  <1>7. Promise!Answer(None, Promise!OkReply(<<Promise!Cancelled(id)>>))
    BY ReturnAnswers, SameWords DEF Cancel, Known, CallInv, AtRest
  <1>8. Promise!Withdrawn(id) <=>
            /\ Promise!Answer(None, Promise!OkReply(<<Promise!Cancelled(id)>>))
            /\ \E s \in Side, r \in Price :
                LET l == Queues[s][r]
                IN  \E i \in DOMAIN l :
                        /\ l[i].id = id
                        /\ Queues' = [Queues EXCEPT ![s][r] =
                                        SubSeq(l, 1, i - 1) \o SubSeq(l, i + 1, Len(l))]
    BY Zenon DEF Promise!Withdrawn, Promise!Side, Side, Queues
  <1> QED
    BY <1>5, <1>6, <1>7, <1>8

LEMMA CancelUnknownRefines ==
    ASSUME Known, NEW id \in OrderId, CancelUnknown(id)
    PROVE  Promise!NotBooked(id)
  <1>1. ~IsResting(id)
    <2> SUFFICES ASSUME IsResting(id) PROVE FALSE
      OBVIOUS
    <2>1. PICK key, order : key = order_index[id] /\ order = arena[key].order
      OBVIOUS
    <2>2. key \in Occupied(arena)
      BY <2>1 DEF IsResting, Occupied, Known, CallInv, BookInv, TypeInv, TypeOK, BookTypeOK
    <2>3. order.price \in Price /\ order.price \in Present(order.side)
      BY <2>1, <2>2, StoredOrder DEF Known, CallInv, BookInv
    <2>4. order.price # None /\ levels[order.side][order.price] # None
      BY <2>3, OrdersAssumption DEF Present
    <2> QED
      BY <2>1, <2>4 DEF CancelUnknown, RemovalOutcome
  <1>2. ~Promise!IsBooked(id)
    BY <1>1, BookedIsResting
  <1>3. Promise!Answer(None, Promise!ErrReply("OrderNotFound"))
    BY ReturnAnswers, SameWords DEF CancelUnknown, Known, CallInv, AtRest
  <1>4. Queues' = Queues
    BY UnchangedQueues DEF CancelUnknown
  <1> QED
    BY <1>2, <1>3, <1>4 DEF Promise!NotBooked, Queues

-----------------------------------------------------------------------------
(* The refinement.                                                         *)

LEMMA InitRefines ==
    ASSUME Init, Known
    PROVE  Promise!PInit
  <1>1. ASSUME NEW side \in Side, NEW p \in Price
        PROVE  QueueAt(side, p) = << >>
    <2>1. PICK w, n : w = Walk(side, p) /\ n = Cardinality(Members(side, p))
      OBVIOUS
    <2>2. /\ n \in Nat /\ w \in [1 .. n -> Members(side, p)]
          /\ Queues[side][p] = [i \in 1 .. n |-> Entry(w[i])]
      BY <2>1, QueueIs
    <2>3. Members(side, p) = {}
      BY DEF Init, BookInit, EmptyArena, Members, Occupied
    <2>4. n = 0
      BY <2>1, <2>3, FS_EmptySet
    <2> QED
      BY <2>2, <2>4 DEF Queues
  <1>2. pc = "idle" /\ reply = None
    BY DEF Init
  <1> QED
    BY <1>1, <1>2 DEF Promise!PInit, Promise!Side, Side

(* No call is being served in the price-time book while the engine is idle *)
(* or only counting.                                                       *)
LEMMA QuietIs ==
    ASSUME Known, pc \in {"idle", "scan"}
    PROVE  Promise!Quiet
  BY DEF Promise!Quiet, Known, CallInv, AtRest

LEMMA NextRefines ==
    ASSUME Known, LevelsExact', TotalsFit, ScanFits, [Next]_vars
    PROVE  [Promise!PNext]_(Promise!pvars)
  <1>1. ASSUME NEW order \in NewOrder, Refuse(order) \/ Admit(order)
        PROVE  [Promise!PNext]_(Promise!pvars)
    <2>1. Promise!Quiet
      BY <1>1, QuietIs DEF Refuse, Admit
    <2>2. Promise!Refused(order) \/ Promise!TakenOn(order) \/ UNCHANGED Promise!pvars
      BY <1>1, RefuseRefines, AdmitRefines
    <2> QED
      BY <2>1, <2>2, SameWords DEF Promise!PNext
  <1>2. CASE ScanLevel
    <2>1. Promise!Quiet /\ taker \in NewOrder
      BY <1>2, QuietIs DEF ScanLevel, Known, CallInv, Scanning
    <2>2. Promise!TakenOn(taker) \/ UNCHANGED Promise!pvars
      BY <1>2, ScanRefines
    <2> QED
      BY <2>1, <2>2, SameWords DEF Promise!PNext
  <1>3. CASE Kill
    <2>1. Promise!Quiet
      BY <1>3, QuietIs DEF Kill
    <2> QED
      BY <1>3, <2>1, KillRefines, SameWords DEF Promise!PNext
  <1>4. CASE Match
    BY <1>4, MatchRefines DEF Promise!PNext
  <1>5. CASE Filled \/ Rest \/ Discard
    BY <1>5, FilledRefines, RestRefines, DiscardRefines DEF Promise!PNext
  <1>6. ASSUME NEW id \in OrderId, Cancel(id) \/ CancelUnknown(id)
        PROVE  [Promise!PNext]_(Promise!pvars)
    <2>1. Promise!Quiet
      BY <1>6, QuietIs DEF Cancel, CancelUnknown
    <2>2. Promise!Withdrawn(id) \/ Promise!NotBooked(id)
      BY <1>6, CancelRefines, CancelUnknownRefines
    <2> QED
      BY <2>1, <2>2 DEF Promise!PNext
  <1>7. ASSUME NEW id \in OrderId PROVE ~CancelPanics(id)
    BY ShapeNoPanic DEF CancelPanics, Known, CallInv, BookInv
  <1>8. CASE TakeReply
    BY <1>8, TakeReplyRefines DEF Promise!PNext
  <1>9. CASE UNCHANGED vars
    <2>1. UNCHANGED book /\ pc' = pc /\ taker' = taker /\ events' = events /\ reply' = reply
      BY <1>9 DEF vars, book
    <2>2. Queues' = Queues
      BY <2>1, UnchangedQueues
    <2> QED
      BY <2>1, <2>2 DEF Promise!pvars, Queues
  <1> QED
    BY <1>1, <1>2, <1>3, <1>4, <1>5, <1>6, <1>7, <1>8, <1>9
    DEF Next, Submit, Work, CancelOrder

(* The engine of engine.rs and book.rs is a price-time book: every call    *)
(* answers as one would that has no arena, links, totals or index, as long *)
(* as no level's total and no scan's sum wraps.                            *)
THEOREM EngineImplementsPriceTime ==
    Spec /\ []TotalsFit /\ []ScanFits => ImplementsPriceTime
  <1>1. CallInv => Known
    BY ShapeLevels DEF Known, CallInv, BookInv
  <1>2. Known => LevelsExact
    BY DEF Known
  <1>3. Init /\ Known => Promise!PInit
    BY InitRefines
  <1>4. Known /\ LevelsExact' /\ TotalsFit /\ ScanFits /\ [Next]_vars
            => [Promise!PNext]_(Promise!pvars)
    BY NextRefines
  <1> QED
    BY <1>1, <1>2, <1>3, <1>4, CallInvInit, CallInvNext, PTL
    DEF Spec, ImplementsPriceTime, Promise!PriceTimeSpec

(* With words ample for the quantities asked for, it does so always.       *)
THEOREM AmpleEngineImplementsPriceTime ==
    ASSUME NEW most \in Nat, Ample(most)
    PROVE  Spec => ImplementsPriceTime
  <1>1. Spec => [](TotalsFit /\ ScanFits)
    BY AmpleWordsSuffice
  <1> QED
    BY <1>1, EngineImplementsPriceTime, PTL
=============================================================================
