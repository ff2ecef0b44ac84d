------------------------------- MODULE Orders -------------------------------
(***************************************************************************)
(* The vocabulary of ordust-core/src/types.rs: orders, the events and      *)
(* errors the engine answers with, the two sides of a book and the order   *)
(* in which their prices are served, and the unsigned machine arithmetic   *)
(* on quantities.                                                          *)
(***************************************************************************)
EXTENDS Naturals, Sequences

CONSTANTS
    OrderId,        \* identifiers a caller gives its orders
    Price,          \* integer ticks
    Qty,            \* quantities a caller may ask for (0 is one of them)
    Timestamp,      \* caller-supplied nanoseconds
    WordSize,       \* 2^64 in the program
    None            \* Option::None, wherever the code has an Option

(* Prices, quantities and timestamps are u64 newtypes.                     *)
ASSUME OrdersAssumption ==
    /\ WordSize \in Nat \ {0}
    /\ Price \subseteq 0 .. WordSize - 1
    /\ Qty \subseteq 0 .. WordSize - 1
    /\ Timestamp \subseteq 0 .. WordSize - 1
    /\ None \notin Price
    /\ None \notin OrderId

Word == 0 .. WordSize - 1

(* `+` and `-` on u64 as the release profile compiles them: the carry and  *)
(* the borrow are dropped. Both operands are words.                        *)
Add64(a, b) == IF a + b < WordSize THEN a + b ELSE a + b - WordSize
Sub64(a, b) == IF b <= a THEN a - b ELSE a + WordSize - b

Least(a, b) == IF a <= b THEN a ELSE b

-----------------------------------------------------------------------------

Side == {"Buy", "Sell"}
OrderType == {"Limit", "Market"}
TimeInForce == {"GTC", "IOC", "FOK"}

Order ==
    [id : OrderId, side : Side, order_type : OrderType, tif : TimeInForce,
     price : Price \cup {None}, qty : Word, remaining_qty : Word,
     timestamp : Timestamp]

(* The orders a caller builds: nothing of them is filled yet.              *)
NewOrder ==
    {[id |-> i, side |-> s, order_type |-> t, tif |-> f, price |-> p,
      qty |-> q, remaining_qty |-> q, timestamp |-> ts] :
        i \in OrderId, s \in Side, t \in OrderType, f \in TimeInForce,
        p \in Price \cup {None}, q \in Qty, ts \in Timestamp}

OppositeSide(side) == IF side = "Buy" THEN "Sell" ELSE "Buy"

(* BTreeMap<Reverse<Price>, _> serves the highest bid first,               *)
(* BTreeMap<Price, _> the lowest ask.                                      *)
Better(side, p, q) == IF side = "Buy" THEN p > q ELSE p < q

(* An incoming order of `side` limited to `limit` may trade at price p.    *)
WithinLimit(side, limit, p) == IF side = "Buy" THEN p <= limit ELSE p >= limit

-----------------------------------------------------------------------------

Accepted(id) == [kind |-> "Accepted", order_id |-> id]
Cancelled(id) == [kind |-> "Cancelled", order_id |-> id]
RestingOnBook(id, p, q) ==
    [kind |-> "RestingOnBook", order_id |-> id, price |-> p, remaining_qty |-> q]
(* Mutant: the price a trade reports is the taker's limit.                 *)
TradeAtLimit(maker, taker, p, q) ==
    [kind |-> "Trade", maker_order_id |-> maker, taker_order_id |-> taker.id,
     price |-> taker.price, qty |-> q, timestamp |-> taker.timestamp]
(* Mutant: maker and taker change places.                                  *)
TradeSwapped(maker, taker, p, q) ==
    [kind |-> "Trade", maker_order_id |-> taker.id, taker_order_id |-> maker,
     price |-> p, qty |-> q, timestamp |-> taker.timestamp]

Trade(maker, taker, p, q) ==
    [kind |-> "Trade", maker_order_id |-> maker, taker_order_id |-> taker.id,
     price |-> p, qty |-> q, timestamp |-> taker.timestamp]

BookEvent ==
    [kind : {"Accepted", "Cancelled"}, order_id : OrderId]
      \cup [kind : {"RestingOnBook"}, order_id : OrderId, price : Price,
            remaining_qty : Word]
      \cup [kind : {"Trade"}, maker_order_id : OrderId, taker_order_id : OrderId,
            price : Price, qty : Word, timestamp : Timestamp]

EngineError ==
    {"OrderNotFound", "MissingPrice", "ZeroQty", "FokNotFillable",
     "DuplicateOrderId", "InvalidTifForMarket"}

(* Result<Vec<BookEvent>, EngineError>                                     *)
OkReply(events) == [ok |-> TRUE, events |-> events, error |-> "none"]
ErrReply(error) == [ok |-> FALSE, events |-> << >>, error |-> error]
Reply == [ok : BOOLEAN, events : Seq(BookEvent), error : EngineError \cup {"none"}]

(* None is not one of the things it stands for the absence of.             *)
ASSUME NoneAssumption == None \notin Order /\ None \notin Reply
=============================================================================
