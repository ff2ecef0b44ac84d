------------------------------- MODULE Engine -------------------------------
(***************************************************************************)
(* ordust-core/src/engine.rs: one matching engine and the caller it serves. *)
(*                                                                         *)
(* The methods take `&mut self`, so one call is under way at a time. A     *)
(* call is a sequence of steps: validation, the walk of can_fully_fill one *)
(* level at a time (FOK only), the loop of match_against_book one trade at *)
(* a time, then the time-in-force rule for what is left. `pc` says where   *)
(* the call stands:                                                        *)
(*                                                                         *)
(*    idle      no call is under way                                       *)
(*    scan      in can_fully_fill                                          *)
(*    match     at the head of the loop of match_against_book              *)
(*    done      the call has returned, its caller holds the reply          *)
(*    panicked  the call unwound; its engine is never used again           *)
(***************************************************************************)
EXTENDS OrderBook

VARIABLES
    pc,
    taker,          \* the order being submitted, kept until the reply is taken
    accumulated,    \* can_fully_fill: liquidity counted so far
    cursor,         \* can_fully_fill: price of the last level counted
    events,         \* the events of the call under way
    reply           \* what the call returned

call == <<pc, taker, accumulated, cursor, events, reply>>
vars == <<arena, levels, order_index, pc, taker, accumulated, cursor, events, reply>>

PC == {"idle", "scan", "match", "done", "panicked"}

TypeOK ==
    /\ BookTypeOK
    /\ pc \in PC
    /\ taker \in Order \cup {None}
    /\ accumulated \in Word
    /\ cursor \in Price \cup {None}
    /\ events \in Seq(BookEvent)
    /\ reply \in Reply \cup {None}

Init ==
    /\ BookInit
    /\ pc = "idle"
    /\ taker = None
    /\ accumulated = 0
    /\ cursor = None
    /\ events = << >>
    /\ reply = None

-----------------------------------------------------------------------------
(* The call returns `r`.                                                   *)
Returns(r) ==
    /\ pc' = "done"
    /\ reply' = r
    /\ events' = << >>
    /\ accumulated' = 0
    /\ cursor' = None

(* The error `validate` returns, "none" when the order is admissible.      *)
Fault(order) ==
    CASE order.remaining_qty = 0 -> "ZeroQty"
      [] order.remaining_qty # 0 /\ order.order_type = "Limit" /\ order.price = None
            -> "MissingPrice"
      [] order.remaining_qty # 0 /\ order.order_type = "Market" /\ order.tif = "GTC"
            -> "InvalidTifForMarket"
      [] OTHER -> IF IsResting(order.id) THEN "DuplicateOrderId" ELSE "none"

(* submit_order up to the first thing it does with the book.               *)
Refuse(order) ==
    /\ pc = "idle"
    /\ Fault(order) # "none"
    /\ taker' = order
    /\ Returns(ErrReply(Fault(order)))
    /\ UNCHANGED book

Admit(order) ==
    /\ pc = "idle"
    /\ Fault(order) = "none"
    /\ taker' = order
    /\ events' = <<Accepted(order.id)>>
    /\ pc' = IF order.tif = "FOK" THEN "scan" ELSE "match"
    /\ UNCHANGED <<book, accumulated, cursor, reply>>

-----------------------------------------------------------------------------
(* Mutant: the scan counts levels beyond the limit.                        *)
CountsAnyPrice(p) == IsNextLevel(OppositeSide(taker.side), cursor, p)

(* can_fully_fill: the limit applies to any order that carries a price, a  *)
(* Market order included.                                                  *)
CountsTowardFill(p) ==
    /\ IsNextLevel(OppositeSide(taker.side), cursor, p)
    /\ taker.price # None => WithinLimit(taker.side, taker.price, p)

ScanLevel ==
    /\ pc = "scan"
    /\ \E p \in Price :
        /\ CountsTowardFill(p)
        /\ cursor' = p
        /\ accumulated' = Add64(accumulated,
                                levels[OppositeSide(taker.side)][p].total_qty)
    /\ pc' = IF accumulated' >= taker.remaining_qty THEN "match" ELSE "scan"
    /\ UNCHANGED <<book, taker, events, reply>>

Kill ==
    /\ pc = "scan"
    /\ ~ \E p \in Price : CountsTowardFill(p)
    /\ Returns(ErrReply("FokNotFillable"))
    /\ UNCHANGED <<book, taker>>

-----------------------------------------------------------------------------
(* Mutant: equal prices do not cross.                                      *)
CrossesStrictly(order) ==
    \E p \in Price :
        /\ IsBest(OppositeSide(order.side), p)
        /\ order.order_type = "Limit" => Better(order.side, order.price, p)

(* crosses                                                                 *)
Crosses(order) ==
    \E p \in Price :
        /\ IsBest(OppositeSide(order.side), p)
        /\ order.order_type = "Limit" => WithinLimit(order.side, order.price, p)

LoopContinues ==
    /\ taker.remaining_qty > 0
    /\ Crosses(taker)
    /\ CanMatchAtBest(OppositeSide(taker.side))

(* One turn of the loop of match_against_book.                             *)
Match ==
    /\ pc = "match"
    /\ LoopContinues
    /\ LET side == OppositeSide(taker.side)
       IN  \E p \in Price :
            /\ IsBest(side, p)
            /\ LET maker == Front(levels[side][p], arena)
                   fill == FillAmount(levels[side][p], arena, taker.remaining_qty)
               IN  /\ MatchAtBest(side, p, taker.remaining_qty)
                   /\ taker' = [taker EXCEPT !.remaining_qty = @ - fill]
                   /\ events' = Append(events, Trade(maker.id, taker, p, fill))
    /\ UNCHANGED <<pc, accumulated, cursor, reply>>

-----------------------------------------------------------------------------
(* Mutant: a filled limit order is announced as resting.                   *)
FilledAndResting ==
    /\ pc = "match"
    /\ taker.remaining_qty = 0
    /\ Returns(OkReply(IF taker.order_type = "Limit"
                       THEN Append(events, RestingOnBook(taker.id, taker.price, 0))
                       ELSE events))
    /\ UNCHANGED <<book, taker>>
(* Mutant: RestingOnBook reports the quantity the order started with.      *)
RestReportingQty ==
    /\ pc = "match"
    /\ taker.remaining_qty > 0 /\ ~LoopContinues
    /\ taker.tif = "GTC"
    /\ InsertResting(taker)
    /\ Returns(OkReply(Append(events,
            RestingOnBook(taker.id, taker.price, taker.qty))))
    /\ UNCHANGED taker
(* Mutant: an immediate-or-cancel limit order rests.                       *)
RestIoc ==
    /\ pc = "match"
    /\ taker.remaining_qty > 0 /\ ~LoopContinues
    /\ taker.order_type = "Limit" /\ taker.tif # "FOK"
    /\ InsertResting(taker)
    /\ Returns(OkReply(Append(events,
            RestingOnBook(taker.id, taker.price, taker.remaining_qty))))
    /\ UNCHANGED taker

(* apply_tif_to_remainder, and the return of submit_order.                 *)
Filled ==
    /\ pc = "match"
    /\ taker.remaining_qty = 0
    /\ Returns(OkReply(events))
    /\ UNCHANGED <<book, taker>>

Rest ==
    /\ pc = "match"
    /\ taker.remaining_qty > 0 /\ ~LoopContinues
    /\ taker.tif = "GTC"
    /\ InsertResting(taker)
    /\ Returns(OkReply(Append(events,
            RestingOnBook(taker.id, taker.price, taker.remaining_qty))))
    /\ UNCHANGED taker

(* An IOC remainder is cancelled; the FOK arm is `vec![]`.                 *)
Discard ==
    /\ pc = "match"
    /\ taker.remaining_qty > 0 /\ ~LoopContinues
    /\ taker.tif # "GTC"
    /\ Returns(OkReply(IF taker.tif = "IOC" THEN Append(events, Cancelled(taker.id))
                                            ELSE events))
    /\ UNCHANGED <<book, taker>>

-----------------------------------------------------------------------------
(* Mutant: a cancel is answered with no event.                             *)
CancelSilently(id) ==
    /\ pc = "idle"
    /\ RemovalOutcome(id) = "removed"
    /\ RemoveOrder(id)
    /\ Returns(OkReply(<< >>))
    /\ UNCHANGED taker

(* cancel_order                                                            *)
Cancel(id) ==
    /\ pc = "idle"
    /\ RemovalOutcome(id) = "removed"
    /\ RemoveOrder(id)
    /\ Returns(OkReply(<<Cancelled(id)>>))
    /\ UNCHANGED taker

CancelUnknown(id) ==
    /\ pc = "idle"
    /\ RemovalOutcome(id) = "missing"
    /\ Returns(ErrReply("OrderNotFound"))
    /\ UNCHANGED <<book, taker>>

(* The unwinding stops the program: what the book is left as is never seen. *)
CancelPanics(id) ==
    /\ pc = "idle"
    /\ RemovalOutcome(id) = "panic"
    /\ pc' = "panicked"
    /\ UNCHANGED <<book, taker, accumulated, cursor, events, reply>>

(* The caller takes the reply.                                             *)
TakeReply ==
    /\ pc = "done"
    /\ pc' = "idle"
    /\ taker' = None
    /\ reply' = None
    /\ UNCHANGED <<book, accumulated, cursor, events>>

-----------------------------------------------------------------------------
Submit == \E order \in NewOrder : Refuse(order) \/ Admit(order)
Work == ScanLevel \/ Kill \/ Match \/ Filled \/ Rest \/ Discard
CancelOrder ==
    \E id \in OrderId : Cancel(id) \/ CancelUnknown(id) \/ CancelPanics(id)

Next == Submit \/ Work \/ CancelOrder \/ TakeReply

Spec == Init /\ [][Next]_vars

-----------------------------------------------------------------------------
(* The quantity about to rest fits its level's total: what a word of 64     *)
(* bits grants any book of honest quantities. Where it fails, push_back     *)
(* wraps total_qty.                                                         *)
TotalsFit ==
    (pc = "match" /\ taker.tif = "GTC") =>
        LevelAt(taker.side, taker.price).total_qty + taker.remaining_qty < WordSize

(* What can_fully_fill counts fits a word likewise. Where it does not, the  *)
(* scan wraps.                                                             *)
ScanFits ==
    pc = "scan" => \A p \in Price :
        CountsTowardFill(p) =>
            accumulated + levels[OppositeSide(taker.side)][p].total_qty < WordSize

(* No unwrap or expect of remove_order fails.                               *)
NoPanic == pc # "panicked"
=============================================================================
