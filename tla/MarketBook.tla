----------------------------- MODULE MarketBook -----------------------------
(***************************************************************************)
(* ordust-market-data/src/marketbook/marketbook.rs and types.rs: a copy of *)
(* an exchange's book, one quantity per side and price, changed only by    *)
(* whole snapshots and by numbered updates.                                *)
(***************************************************************************)
EXTENDS Naturals

CONSTANTS
    Price,
    Qty,
    None            \* a price that is not in a map, or not in a message

ASSUME MarketBookAssumption == Qty \subseteq Nat /\ None \notin Nat

Side == {"Buy", "Sell"}

(* The maps `bids` and `asks`; and what a message lists, where quantity 0   *)
(* means that nothing is left at the price.                                *)
Depth == [Side -> [Price -> (Qty \ {0}) \cup {None}]]
Listing == [Side -> [Price -> Qty \cup {0, None}]]

Book == [levels : Depth, last_update_id : Nat]
Snapshot == [levels : Listing, last_update_id : Nat]
DepthUpdate == [levels : Listing, first_update_id : Nat, final_update_id : Nat]

NoDepth == [s \in Side |-> [p \in Price |-> None]]
EmptyBook == [levels |-> NoDepth, last_update_id |-> 0]

(* Both maps are cleared first, so the book it is applied to leaves no trace. *)
ApplySnapshot(snapshot) ==
    [levels |-> [s \in Side |-> [p \in Price |->
                    IF snapshot.levels[s][p] = 0 THEN None ELSE snapshot.levels[s][p]]],
     last_update_id |-> snapshot.last_update_id]

(* Mutant: a quantity of 0 is stored instead of removing its level.        *)
ApplyDiffKeepingZero(book, update) ==
    [levels |-> [s \in Side |-> [p \in Price |->
                    IF update.levels[s][p] = None THEN book.levels[s][p]
                                                  ELSE update.levels[s][p]]],
     last_update_id |-> update.final_update_id]

ApplyDiff(book, update) ==
    [levels |-> [s \in Side |-> [p \in Price |->
                    CASE update.levels[s][p] = None -> book.levels[s][p]
                      [] update.levels[s][p] = 0 -> None
                      [] OTHER -> update.levels[s][p]]],
     last_update_id |-> update.final_update_id]
=============================================================================
