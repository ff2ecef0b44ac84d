-------------------------- MODULE EngineRefinement --------------------------
(***************************************************************************)
(* The engine implements the price-time book. A level's queue is what a    *)
(* walk along its list meets; an order is incoming once it has passed      *)
(* validation and, if it is fill-or-kill, the liquidity scan.              *)
(***************************************************************************)
EXTENDS BookShape

QueueAt(side, p) ==
    LET w == Walk(side, p)
    IN  [i \in DOMAIN w |-> [id |-> arena[w[i]].order.id, left |-> arena[w[i]].order.remaining_qty]]

Promise == INSTANCE PriceTimeBook WITH
    queues <- [s \in Side |-> [p \in Price |-> QueueAt(s, p)]],
    incoming <- IF pc = "match" THEN taker ELSE None,
    told <- IF pc = "match" THEN events ELSE << >>,
    answer <- reply,
    subject <- IF pc = "done" THEN taker ELSE None

(* Price-time priority, all-or-nothing FOK, trades at the maker's price,    *)
(* remainders and cancels: every call of the engine answers the order it    *)
(* was given as the price-time book would.                                  *)
ImplementsPriceTime == Promise!PriceTimeSpec
=============================================================================
