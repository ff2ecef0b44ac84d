----------------------------- MODULE PriceLevel -----------------------------
(***************************************************************************)
(* ordust-core/src/price_level.rs: the FIFO queue of one price level, kept *)
(* as a doubly linked list threaded through a slab ("arena") that all      *)
(* levels share.                                                           *)
(*                                                                         *)
(* A slab is a function from its keys to the node stored there, None where *)
(* the entry is vacant. Every operation is given the level and the arena   *)
(* and yields a record with both as the operation leaves them. What the    *)
(* code does when a key it holds is vacant (`if let Some(..)`, `?`) is     *)
(* kept: such a write is lost, such a read returns None.                   *)
(***************************************************************************)
EXTENDS Orders, FiniteSets

CONSTANT NodeId     \* slab keys

OrderNode == [order : Order, prev : NodeId \cup {None}, next : NodeId \cup {None}]
Level == [head : NodeId \cup {None}, tail : NodeId \cup {None}, total_qty : Word]
Arena == [NodeId -> OrderNode \cup {None}]

(* Nor is it a key, a node or a level.                                     *)
ASSUME PriceLevelAssumption ==
    /\ None \notin NodeId
    /\ None \notin OrderNode
    /\ None \notin Level

(* Slab keys are usize.                                                    *)
ASSUME SlabAssumption == IsFiniteSet(NodeId)

EmptyArena == [k \in NodeId |-> None]
EmptyLevel == [head |-> None, tail |-> None, total_qty |-> 0]

Occupied(arena) == {k \in NodeId : arena[k] # None}
Vacant(arena) == NodeId \ Occupied(arena)

(* arena.get_mut(slot) followed by an assignment to one link; slot may be  *)
(* None or vacant, and then nothing is written.                            *)
WithNext(arena, slot, link) ==
    [k \in NodeId |-> IF k = slot /\ arena[k] # None
                      THEN [arena[k] EXCEPT !.next = link]
                      ELSE arena[k]]
WithPrev(arena, slot, link) ==
    [k \in NodeId |-> IF k = slot /\ arena[k] # None
                      THEN [arena[k] EXCEPT !.prev = link]
                      ELSE arena[k]]

(* Mutant: the order goes to the front of the queue.                       *)
PushFront(level, arena, order, key) ==
    LET node == [order |-> order, prev |-> None, next |-> level.head]
    IN  [level |-> [head |-> key,
                    tail |-> IF level.tail = None THEN key ELSE level.tail,
                    total_qty |-> Add64(level.total_qty, order.remaining_qty)],
         arena |-> WithPrev([arena EXCEPT ![key] = node], level.head, key)]
(* Mutant: the order is not counted in the level's total.                  *)
PushBackUncounted(level, arena, order, key) ==
    LET node == [order |-> order, prev |-> level.tail, next |-> None]
    IN  [level |-> [head |-> IF level.tail = None THEN key ELSE level.head,
                    tail |-> key, total_qty |-> level.total_qty],
         arena |-> WithNext([arena EXCEPT ![key] = node], level.tail, key)]

(* The slab chooses the key; here it is a parameter, any vacant one.       *)
PushBack(level, arena, order, key) ==
    LET node == [order |-> order, prev |-> level.tail, next |-> None]
    IN  [level |-> [head |-> IF level.tail = None THEN key ELSE level.head,
                    tail |-> key,
                    total_qty |-> Add64(level.total_qty, order.remaining_qty)],
         arena |-> WithNext([arena EXCEPT ![key] = node], level.tail, key)]

(* `front` and the guard of `consume_qty`: the head's node, if there is one. *)
HasFront(level, arena) == level.head # None /\ arena[level.head] # None
Front(level, arena) == arena[level.head].order

(* Called with a front order only.                                         *)
PopFront(level, arena) ==
    LET node == arena[level.head]
    IN  [level |-> [head |-> node.next,
                    tail |-> IF node.next = None THEN None ELSE level.tail,
                    total_qty |-> Sub64(level.total_qty, node.order.remaining_qty)],
         arena |-> WithPrev([arena EXCEPT ![level.head] = None], node.next, None)]

(* Mutant: the next order keeps its link to the one removed.               *)
RemoveOneWay(level, arena, key) ==
    LET node == arena[key]
    IN  [underflow |-> level.total_qty < node.order.remaining_qty,
         level |-> [head |-> IF node.prev = None THEN node.next ELSE level.head,
                    tail |-> IF node.next = None THEN node.prev ELSE level.tail,
                    total_qty |-> Sub64(level.total_qty, node.order.remaining_qty)],
         arena |-> WithNext([arena EXCEPT ![key] = None], node.prev, node.next)]

(* Unlinks the order stored under `key`, wherever it stands in the queue.  *)
(* `underflow` is the case in which checked_sub yields None and `expect`   *)
(* panics.                                                                 *)
Remove(level, arena, key) ==
    LET node == arena[key]
        freed == [arena EXCEPT ![key] = None]
    IN  [underflow |-> level.total_qty < node.order.remaining_qty,
         level |-> [head |-> IF node.prev = None THEN node.next ELSE level.head,
                    tail |-> IF node.next = None THEN node.prev ELSE level.tail,
                    total_qty |-> Sub64(level.total_qty, node.order.remaining_qty)],
         arena |-> WithPrev(WithNext(freed, node.prev, node.next),
                            node.next, node.prev)]

IsEmpty(level) == level.total_qty = 0

(* Consumes up to `qty` of the front order and pops it when nothing of it  *)
(* remains. Called with a front order only.                                *)
FillAmount(level, arena, qty) ==
    Least(Front(level, arena).remaining_qty, qty)

(* Mutant: a partial fill leaves the level's total alone.                  *)
ConsumeUncounted(level, arena, qty) ==
    LET fill == FillAmount(level, arena, qty)
        left == Front(level, arena).remaining_qty - fill
    IN  IF left = 0 THEN PopFront(level, arena)
        ELSE [level |-> level,
              arena |-> [arena EXCEPT ![level.head].order.remaining_qty = left]]

ConsumeQty(level, arena, qty) ==
    LET fill == FillAmount(level, arena, qty)
        left == Front(level, arena).remaining_qty - fill
        arena1 == [arena EXCEPT ![level.head].order.remaining_qty = left]
        level1 == [level EXCEPT !.total_qty = Sub64(level.total_qty, fill)]
    IN  IF left = 0 THEN PopFront(level1, arena1)
                    ELSE [level |-> level1, arena |-> arena1]
=============================================================================
