---------------------------- MODULE EngineClaims ----------------------------
(***************************************************************************)
(* What comments and the checklist of the repository say of the engine and *)
(* the engine does not do. Each is violated; the README and PROJECT.json   *)
(* ("findings") quote the line.                                            *)
(***************************************************************************)
EXTENDS BookShape, TLC

Symmetry == Permutations(OrderId) \cup Permutations(NodeId)

(* types.rs, `timestamp`: "If two orders sit at the exact same price level, *)
(* the matching engine uses this timestamp to execute the older order       *)
(* first". The engine executes the order that arrived first, whatever its   *)
(* timestamp.                                                               *)
OldestTimestampFirst ==
    (pc = "match" /\ LoopContinues) =>
        \E p \in Price :
            LET side == OppositeSide(taker.side)
            IN  /\ IsBest(side, p)
                /\ \A k \in Members(side, p) :
                        Front(levels[side][p], arena).timestamp <= arena[k].order.timestamp

(* checklist.md: "FOK: sufficient liquidity -> fills completely", and       *)
(* engine.rs, `crosses`: "Market has no price to compare". A Market FOK     *)
(* order that carries a price is killed by that price.                      *)
MarketFokIgnoresPrice ==
    (pc = "done" /\ taker # None /\ reply.error = "FokNotFillable"
        /\ taker.order_type = "Market") =>
        Outstanding(
            {k \in Occupied(arena) : arena[k].order.side # taker.side}) < taker.qty

(* engine.rs, `apply_tif_to_remainder`: "IOC: if remaining_qty > 0, DISCARD *)
(* it (no book insert), emit nothing extra". It emits Cancelled.            *)
IocRemainderIsSilent ==
    (pc = "done" /\ taker # None /\ reply.ok /\ taker.tif = "IOC") =>
        \A i \in DOMAIN reply.events : reply.events[i].kind \in {"Accepted", "Trade"}
=============================================================================
