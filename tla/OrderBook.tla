----------------------------- MODULE OrderBook ------------------------------
(***************************************************************************)
(* ordust-core/src/book.rs: the two sides of the book, the arena their     *)
(* price levels share and the index from order ids to arena keys.          *)
(*                                                                         *)
(* levels["Buy"] is the map `bids` and levels["Sell"] the map `asks`; a    *)
(* price that is not a key of the map has None. The operations are actions *)
(* on the three variables, for the engine to take part in.                 *)
(***************************************************************************)
EXTENDS PriceLevel

VARIABLES
    arena,          \* Slab<OrderNode>
    levels,         \* bids and asks
    order_index     \* HashMap<OrderId, NodeId>

book == <<arena, levels, order_index>>

BookTypeOK ==
    /\ arena \in Arena
    /\ levels \in [Side -> [Price -> Level \cup {None}]]
    /\ order_index \in [OrderId -> NodeId \cup {None}]

BookInit ==
    /\ arena = EmptyArena
    /\ levels = [s \in Side |-> [p \in Price |-> None]]
    /\ order_index = [i \in OrderId |-> None]

-----------------------------------------------------------------------------
(* Reading the book.                                                       *)

(* get_order returns Some.                                                 *)
IsResting(id) == order_index[id] # None /\ arena[order_index[id]] # None

Present(side) == {p \in Price : levels[side][p] # None}

(* p is the first key of the map: best_bid, best_ask, and the level that   *)
(* iter_mut().next() yields.                                               *)
IsBest(side, p) ==
    p \in Present(side) /\ \A q \in Present(side) : ~Better(side, q, p)

(* p is the level that iter_side yields after the level at `cursor`        *)
(* (None: it has yielded none yet).                                        *)
IsNextLevel(side, cursor, p) ==
    LET ahead == {q \in Present(side) : cursor = None \/ Better(side, cursor, q)}
    IN  p \in ahead /\ \A q \in ahead : ~Better(side, q, p)

-----------------------------------------------------------------------------
(* Changing the book.                                                      *)

LevelAt(side, p) == IF levels[side][p] = None THEN EmptyLevel ELSE levels[side][p]

(* Mutant: an emptied level stays in its map.                              *)
NotPruned(level) == level

(* The level as it is stored back: dropped from its map when empty.        *)
Pruned(level) == IF IsEmpty(level) THEN None ELSE level

InsertResting(order) ==
    \E key \in Vacant(arena) :
        LET pushed == PushBack(LevelAt(order.side, order.price), arena, order, key)
        IN  /\ arena' = pushed.arena
            /\ levels' = [levels EXCEPT ![order.side][order.price] = pushed.level]
            /\ order_index' = [order_index EXCEPT ![order.id] = key]

(* match_at_best returns Some.                                             *)
CanMatchAtBest(side) ==
    \E p \in Price : IsBest(side, p) /\ HasFront(levels[side][p], arena)

(* Mutant: the order used up by a fill keeps its entry in order_index.     *)
MatchKeepingIndex(side, p, qty) ==
    LET consumed == ConsumeQty(levels[side][p], arena, qty)
    IN  /\ arena' = consumed.arena
        /\ levels' = [levels EXCEPT ![side][p] = Pruned(consumed.level)]
        /\ UNCHANGED order_index

(* One fill against the front order of the level at p, the best of `side`. *)
MatchAtBest(side, p, qty) ==
    LET maker == Front(levels[side][p], arena)
        consumed == ConsumeQty(levels[side][p], arena, qty)
    IN  /\ arena' = consumed.arena
        /\ levels' = [levels EXCEPT ![side][p] = Pruned(consumed.level)]
        /\ order_index' = IF maker.remaining_qty <= qty
                          THEN [order_index EXCEPT ![maker.id] = None]
                          ELSE order_index

(* What remove_order(id) comes to: "missing" where one of its `?` returns  *)
(* None, "panic" where `unwrap` or `expect` fails, else "removed".         *)
RemovalOutcome(id) ==
    IF ~IsResting(id) THEN "missing"
    ELSE LET key == order_index[id]
             order == arena[key].order
         IN  IF order.price = None THEN "missing"
             ELSE IF levels[order.side][order.price] = None
                  THEN IF order.side = "Buy" THEN "missing" ELSE "panic"
             ELSE IF Remove(levels[order.side][order.price], arena, key).underflow
                  THEN "panic" ELSE "removed"

(* Mutant: the order cancelled keeps its entry in order_index.             *)
RemoveKeepingIndex(id) ==
    LET order == arena[order_index[id]].order
        removed == Remove(levels[order.side][order.price], arena, order_index[id])
    IN  /\ arena' = removed.arena
        /\ levels' = [levels EXCEPT ![order.side][order.price] = Pruned(removed.level)]
        /\ UNCHANGED order_index

RemoveOrder(id) ==
    LET key == order_index[id]
        order == arena[key].order
        removed == Remove(levels[order.side][order.price], arena, key)
    IN  /\ arena' = removed.arena
        /\ levels' = [levels EXCEPT ![order.side][order.price] = Pruned(removed.level)]
        /\ order_index' = [order_index EXCEPT ![id] = None]

-----------------------------------------------------------------------------
(* The index and the arena agree: an id leads to the node of its own order, *)
(* and every stored order is found by its id. A slot freed by a fill or a   *)
(* cancel is given to the next order, so an entry left behind in            *)
(* order_index would make a later cancel remove somebody else's order.      *)
IndexExact ==
    /\ \A id \in OrderId : order_index[id] # None => arena[order_index[id]] # None
    /\ \A id \in OrderId : order_index[id] # None => arena[order_index[id]].order.id = id
    /\ \A k \in Occupied(arena) : order_index[arena[k].order.id] = k

(* A price is a key of bids or asks exactly while an order rests there. An  *)
(* empty level left in its map would be the best price and stop matching; a *)
(* level dropped too early would strand its orders.                         *)
LevelsExact ==
    \A side \in Side, p \in Price :
        levels[side][p] # None
          <=> \E k \in Occupied(arena) :
                arena[k].order.side = side /\ arena[k].order.price = p

(* book.rs: "Insert a resting order. Caller (engine) guarantees it doesn't  *)
(* cross." The best bid stays below the best ask, so spread() is defined.   *)
Uncrossed ==
    \A b \in Present("Buy"), a \in Present("Sell") : b < a
=============================================================================
