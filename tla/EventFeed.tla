------------------------------ MODULE EventFeed -----------------------------
(***************************************************************************)
(* The engine together with a consumer that knows the book only from the   *)
(* BookEvents it is handed (types.rs: the market-making bot's fill         *)
(* tracking, "filled 60 of 100"). The consumer is not in the repository:   *)
(* it applies each event in the way the event's fields allow. That the     *)
(* result is the book is a property of what the engine emits.              *)
(***************************************************************************)
EXTENDS BookShape

(* What may be believed of an order that rests; None is no such belief.    *)
Belief == [price : Price, left : Word \ {0}]

ASSUME FeedAssumption == None \notin Belief

VARIABLE known      \* per order id, the price and quantity believed to rest

feedVars == <<vars, known>>

FeedTypeOK ==
    known \in [OrderId -> Belief \cup {None}]

FeedInit == Init /\ known = [id \in OrderId |-> None]

(* A trade of a resting order takes its quantity off what was believed to  *)
(* rest; the order is gone when nothing is left.                           *)
AfterTrade(belief, qty) ==
    IF belief.left <= qty THEN None ELSE [belief EXCEPT !.left = @ - qty]

AfterEvent(k, e) ==
    CASE e.kind = "RestingOnBook" ->
            [k EXCEPT ![e.order_id] = [price |-> e.price, left |-> e.remaining_qty]]
      [] e.kind = "Cancelled" -> [k EXCEPT ![e.order_id] = None]
      [] e.kind = "Trade" /\ k[e.maker_order_id] # None ->
            [k EXCEPT ![e.maker_order_id] = AfterTrade(@, e.qty)]
      [] OTHER -> k

(* What is believed after each of the events `es`, and before the first.   *)
Believed(k, es) ==
    LET after[i \in 0 .. Len(es)] ==
            IF i = 0 THEN k ELSE AfterEvent(after[i - 1], es[i])
    IN  after

FeedNext ==
    \/ (Submit \/ Work \/ CancelOrder) /\ UNCHANGED known
    \/ TakeReply /\ known' = Believed(known, reply.events)[Len(reply.events)]

FeedSpec == FeedInit /\ [][FeedNext]_feedVars

-----------------------------------------------------------------------------
(* Between calls the consumer's picture is the book: the events of a reply, *)
(* applied in their order, say everything the call did to the resting       *)
(* orders and nothing it did not do.                                        *)
FeedReconstructsBook ==
    pc = "idle" =>
        \A id \in OrderId :
            known[id] = IF ~IsResting(id) THEN None
                        ELSE LET o == arena[order_index[id]].order
                             IN  [price |-> o.price, left |-> o.remaining_qty]

(* "filled 60 of 100": what is left of a resting order and what has been    *)
(* reported of it as traded never exceed what was asked for, so no call     *)
(* hands out more of an order than there is. Each trade names a maker that  *)
(* was known to rest, at the price it was known to rest at.                 *)
TradesNameKnownMakers ==
    (pc = "done" /\ reply.ok) =>
        \A i \in DOMAIN reply.events :
            LET e == reply.events[i]
                before == Believed(known, reply.events)[i - 1]
            IN  e.kind = "Trade" =>
                    /\ before[e.maker_order_id] # None
                    /\ e.price = before[e.maker_order_id].price
                    /\ e.qty \in 1 .. before[e.maker_order_id].left
=============================================================================
