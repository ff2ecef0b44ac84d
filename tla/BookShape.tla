------------------------------ MODULE BookShape -----------------------------
(***************************************************************************)
(* What the linked lists, the levels, the index and the running totals of  *)
(* an engine's book have to agree on. The structures are redundant: each   *)
(* is updated by hand in push_back, pop_front, remove, consume_qty and the *)
(* methods of OrderBook, and a call that touched one and forgot another    *)
(* would go unnoticed until a much later call.                             *)
(***************************************************************************)
EXTENDS Engine, Functions

(* The keys of the orders that belong in the level at p.                   *)
Members(side, p) ==
    {k \in Occupied(arena) : arena[k].order.side = side /\ arena[k].order.price = p}

(* The first n keys met when a list is walked from its head by the `next`  *)
(* links, None beyond its end.                                             *)
Chain(a, head, n) ==
    LET at[i \in 1 .. n] ==
            IF i = 1 THEN head
            ELSE IF at[i - 1] = None \/ a[at[i - 1]] = None THEN None
            ELSE a[at[i - 1]].next
    IN  at

(* The walk along the level at p, of as many steps as it has orders.       *)
Walk(side, p) == Chain(arena, LevelAt(side, p).head, Cardinality(Members(side, p)))

(* What is left of the orders stored under the keys K.                     *)
Outstanding(K) == SumFunction([k \in K |-> arena[k].order.remaining_qty])

-----------------------------------------------------------------------------
(* The queue of every level is a well-formed doubly linked list: the walk  *)
(* from the head visits each order of that side and price exactly once,    *)
(* ends at the tail, and the `prev` links retrace it. This is what the     *)
(* three splice cases of remove (head, middle, tail) and the slot reuse of *)
(* the slab put at risk.                                                   *)
QueueExact ==
    \A side \in Side, p \in Price :
        LET w == Walk(side, p)
            n == Cardinality(Members(side, p))
            Nth(i) == IF i \in 1 .. n THEN w[i] ELSE None
        IN  /\ Range(w) = Members(side, p)
            /\ LevelAt(side, p).head = Nth(1) /\ LevelAt(side, p).tail = Nth(n)
            /\ \A i \in 1 .. n :
                  arena[w[i]].prev = Nth(i - 1) /\ arena[w[i]].next = Nth(i + 1)

(* checklist.md: "`Level.total_qty` invariant holds after every operation". *)
(* The running sum of a level is the sum over its orders; pruning, depth()  *)
(* and can_fully_fill all trust it.                                         *)
TotalQtyExact ==
    \A side \in Side, p \in Price :
        LevelAt(side, p).total_qty = Outstanding(Members(side, p))

(* checklist.md: "FOK: insufficient liquidity -> zero state change, Err     *)
(* returned" and "sufficient liquidity -> fills completely". The promise of *)
(* can_fully_fill, made on the levels' totals, is kept by the matching loop *)
(* that follows, and a kill is never pronounced over liquidity the order's  *)
(* price could reach.                                                       *)
Reachable(order) ==
    LET side == OppositeSide(order.side)
    IN  Outstanding(
            {k \in Occupied(arena) :
                /\ arena[k].order.side = side
                /\ order.price # None
                     => WithinLimit(order.side, order.price, arena[k].order.price)})

FokAllOrNothing ==
    (pc = "done" /\ taker # None /\ taker.tif = "FOK") =>
        /\ reply.ok => taker.remaining_qty = 0
        /\ reply.error = "FokNotFillable"
             => /\ taker.remaining_qty = taker.qty
                /\ Reachable(taker) < taker.qty

(* Every unit a submission asked for is accounted for in its reply: traded, *)
(* resting under its id, or given back by Cancelled; and nothing else is    *)
(* reported. match_against_book and apply_tif_to_remainder each write part  *)
(* of that account.                                                         *)
Traded(es) ==
    SumFunction([i \in DOMAIN es |-> IF es[i].kind = "Trade" THEN es[i].qty ELSE 0])

Rested(es) ==
    SumFunction([i \in DOMAIN es |->
                    IF es[i].kind = "RestingOnBook" THEN es[i].remaining_qty ELSE 0])

ReplyAccountsForOrder ==
    (pc = "done" /\ taker # None /\ reply.ok) =>
        LET es == reply.events
            rest == taker.qty - Traded(es)
        IN  /\ es[1] = Accepted(taker.id)
            /\ rest = taker.remaining_qty
            /\ \/ rest = Rested(es)
               \/ rest > 0 /\ Rested(es) = 0 /\ es[Len(es)] = Cancelled(taker.id)
            /\ IsResting(taker.id) <=> Rested(es) > 0

(* Only the remainder of a GTC limit order may rest, in whole units.        *)
OnlyGtcLimitRests ==
    \A k \in Occupied(arena) :
        LET o == arena[k].order
        IN  o.order_type = "Limit" /\ o.tif = "GTC" /\ o.remaining_qty \in 1 .. o.qty
=============================================================================
