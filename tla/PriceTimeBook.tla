---------------------------- MODULE PriceTimeBook ---------------------------
(***************************************************************************)
(* What the engine promises its callers, with no arena, links, totals or   *)
(* index: for each side and price a queue of orders in order of arrival; a *)
(* fill-or-kill order is taken on exactly when what its limit can reach    *)
(* covers it; every trade is with the first order of the best price, at    *)
(* that price; a remainder joins the end of its queue or is given back.    *)
(***************************************************************************)
EXTENDS Orders, Functions

VARIABLES
    queues,     \* per side and price, the resting orders, oldest first
    incoming,   \* the order being executed, None between submissions
    told,       \* what its submitter will be told
    answer,     \* the answer to the last request, None once it is taken
    subject     \* the order that answer is about, None if it is to a cancel

pvars == <<queues, incoming, told, answer, subject>>

(* No request is being served; what follows is a request.                  *)
Quiet == incoming = None /\ answer = None

IsBooked(id) ==
    \E side \in Side, p \in Price :
        \E i \in DOMAIN queues[side][p] : queues[side][p][i].id = id

Served(side) == {p \in Price : queues[side][p] # << >>}

IsFirst(side, p) == p \in Served(side) /\ \A q \in Served(side) : ~Better(side, q, p)

(* What rests on `side` at price p.                                        *)
Liquidity(side, p) ==
    LET q == queues[side][p]
    IN  SumFunction([i \in DOMAIN q |-> q[i].left])

InReach(order, p) ==
    order.price = None \/ WithinLimit(order.side, order.price, p)

Coverable(order) ==
    LET side == OppositeSide(order.side)
        reach == {p \in Price : InReach(order, p)}
    IN  SumFunction([p \in reach |-> Liquidity(side, p)]) >= order.qty

(* What may be wrong with an order; the answer names one such error.       *)
HasFault(order, e) ==
    \/ e = "ZeroQty" /\ order.qty = 0
    \/ e = "MissingPrice" /\ order.order_type = "Limit" /\ order.price = None
    \/ e = "InvalidTifForMarket" /\ order.order_type = "Market" /\ order.tif = "GTC"
    \/ e = "DuplicateOrderId" /\ IsBooked(order.id)
    \/ e = "FokNotFillable" /\ order.tif = "FOK" /\ ~Coverable(order)

-----------------------------------------------------------------------------
PInit ==
    /\ queues = [s \in Side |-> [p \in Price |-> << >>]]
    /\ incoming = None
    /\ told = << >>
    /\ answer = None
    /\ subject = None

Answer(order, r) ==
    /\ incoming' = None
    /\ told' = << >>
    /\ answer' = r
    /\ subject' = order

(* The error names a fault of the very order that is refused.              *)
Refused(order) ==
    /\ \E e \in EngineError : Answer(order, ErrReply(e)) /\ HasFault(order, e)
    /\ UNCHANGED queues

TakenOn(order) ==
    /\ incoming' = order
    /\ told' = <<Accepted(order.id)>>
    /\ \A e \in EngineError : ~HasFault(order, e)
    /\ UNCHANGED <<queues, answer, subject>>

(* The incoming order may trade at the best price p of the other side.     *)
Executable(p) ==
    /\ IsFirst(OppositeSide(incoming.side), p)
    /\ incoming.order_type = "Market"
         \/ WithinLimit(incoming.side, incoming.price, p)

Executed ==
    /\ incoming # None /\ incoming.remaining_qty > 0
    /\ \E p \in Price :
        /\ Executable(p)
        /\ LET side == OppositeSide(incoming.side)
               maker == Head(queues[side][p])
               fill == Least(maker.left, incoming.remaining_qty)
               rest == IF fill = maker.left
                       THEN Tail(queues[side][p])
                       ELSE [queues[side][p] EXCEPT ![1].left = @ - fill]
           IN  /\ queues' = [queues EXCEPT ![side][p] = rest]
               /\ incoming' = [incoming EXCEPT !.remaining_qty = @ - fill]
               /\ told' = Append(told, Trade(maker.id, incoming, p, fill))
    /\ UNCHANGED <<answer, subject>>

Settled ==
    LET left == incoming.remaining_qty
    IN  /\ incoming # None
        /\ left = 0 \/ ~ \E p \in Price : Executable(p)
        /\ \/ /\ left = 0
              /\ Answer(incoming, OkReply(told))
              /\ UNCHANGED queues
           \/ /\ left > 0 /\ incoming.tif = "GTC"
              /\ queues' = [queues EXCEPT ![incoming.side][incoming.price] =
                                Append(@, [id |-> incoming.id, left |-> left])]
              /\ Answer(incoming, OkReply(Append(told,
                    RestingOnBook(incoming.id, incoming.price, left))))
           \/ /\ left > 0 /\ incoming.tif = "IOC"
              /\ Answer(incoming, OkReply(Append(told, Cancelled(incoming.id))))
              /\ UNCHANGED queues

Withdrawn(id) ==
    /\ Answer(None, OkReply(<<Cancelled(id)>>))
    /\ \E side \in Side, p \in Price :
        LET q == queues[side][p]
        IN  \E i \in DOMAIN q :
                /\ q[i].id = id
                /\ queues' = [queues EXCEPT ![side][p] =
                                SubSeq(q, 1, i - 1) \o SubSeq(q, i + 1, Len(q))]

NotBooked(id) ==
    /\ Answer(None, ErrReply("OrderNotFound"))
    /\ ~IsBooked(id)
    /\ UNCHANGED queues

Collected ==
    /\ answer # None
    /\ answer' = None
    /\ subject' = None
    /\ UNCHANGED <<queues, incoming, told>>

PNext ==
    \/ Executed \/ Settled \/ Collected
    \/ /\ Quiet
       /\ \/ \E order \in NewOrder : Refused(order) \/ TakenOn(order)
          \/ \E id \in OrderId : Withdrawn(id) \/ NotBooked(id)

PriceTimeSpec == PInit /\ [][PNext]_pvars
=============================================================================
