-------------------------------- MODULE Ladder ------------------------------
(***************************************************************************)
(* render_frame in ordust-terminal/src/tui.rs: the table a view is drawn   *)
(* as, from the highest ask down to the lowest bid, with the spread in     *)
(* between. Amounts are in stored units and exact; digits and colours are  *)
(* left out.                                                               *)
(***************************************************************************)
EXTENDS Terminal, Integers, SequencesExt

CONSTANTS
    BarWidth,       \* bar_max_width
    LeastDepth      \* the depth of 1e-6 that a bar is at least scaled to

(* Prices are u64, and render_frame takes 0 for the best price of no level. *)
ASSUME LadderAssumption ==
    /\ BarWidth \in Nat
    /\ LeastDepth \in Nat \ {0}
    /\ IsFiniteSet(Price) /\ Price \subseteq Nat \ {0}

(* The vectors `bids` and `asks` of a view, from the best price on.        *)
Levels(v, s) ==
    LET listed == {p \in Price : v.levels[s][p] # None}
        Nth(i) == CHOOSE p \in listed : Cardinality({q \in listed : Better(s, q, p)}) = i - 1
    IN  [i \in 1 .. Cardinality(listed) |-> [price |-> Nth(i), size |-> v.levels[s][Nth(i)]]]

Best(v, s) == IF Levels(v, s) = << >> THEN 0 ELSE Levels(v, s)[1].price

Spread(v) ==
    IF Best(v, "Sell") > 0 /\ Best(v, "Buy") > 0 THEN Best(v, "Sell") - Best(v, "Buy") ELSE 0

(* ask_cum and bid_cum                                                     *)
WithTotals(levels) ==
    LET total[i \in 0 .. Len(levels)] == IF i = 0 THEN 0 ELSE total[i - 1] + levels[i].size
    IN  [i \in DOMAIN levels |-> [price |-> levels[i].price, size |-> levels[i].size,
                                  total |-> total[i]]]

Deepest(rows) == IF rows = << >> THEN 0 ELSE Last(rows).total

MaxDepth(v) ==
    Max({Deepest(WithTotals(Levels(v, s))) : s \in Side} \cup {LeastDepth})

(* make_depth_bar, of a ratio that is at most 1: halves are rounded up.    *)
BarLength(total, depth) == (2 * total * BarWidth + depth) \div (2 * depth)

(* Mutant: the asks are turned round before they are added up.             *)
SideRowsReversedFirst(v, s) ==
    WithTotals(IF s = "Sell" THEN Reverse(Levels(v, s)) ELSE Levels(v, s))

(* The rows of a side as they stand, from top to bottom.                   *)
SideRows(v, s) ==
    LET rows == WithTotals(Levels(v, s)) IN IF s = "Sell" THEN Reverse(rows) ELSE rows

(* table_rows, but for the spread's row, which stands below the asks.      *)
TableRows(v) ==
    LET rows == SideRows(v, "Sell") \o SideRows(v, "Buy")
        depth == MaxDepth(v)
    IN  [i \in DOMAIN rows |->
            [price |-> rows[i].price, size |-> rows[i].size, total |-> rows[i].total,
             bar |-> BarLength(rows[i].total, depth)]]

-----------------------------------------------------------------------------
(* What the exchange offers on a side down to a price, as far as readable. *)
Readable(n, s, p) ==
    IF ParseLevel(BookAt[n][s][p]) = None THEN 0 ELSE ParseLevel(BookAt[n][s][p])

OnOffer(n, s, p) ==
    SumFunction([q \in {b \in Price : b = p \/ Better(s, b, p)} |-> Readable(n, s, q)])

(* No bid on the screen meets an ask.                                      *)
Parted(v) ==
    \A b, a \in Price : v.levels["Buy"][b] # None /\ v.levels["Sell"][a] # None => b < a

(* The table on the screen reads as one ladder: prices fall from its top to *)
(* its bottom, the spread is the gap in the middle, the total of a row is   *)
(* what the exchange offered down to that price, a longer bar means more,  *)
(* and the bar of the deepest row is full. A book that was crossed or       *)
(* locked when it was sent is not one ladder.                              *)
TableReadsTrue ==
    \A n \in 1 .. now :
        LET rows == TableRows(drawn)
            asks == Len(SideRows(drawn, "Sell"))
            SideOf(i) == IF i <= asks THEN "Sell" ELSE "Buy"
        IN  drawn.last_update_id = Nanos(n) =>
                /\ \A i, j \in DOMAIN rows :
                    /\ i < j /\ Parted(drawn) => rows[i].price > rows[j].price
                    /\ rows[i].total > rows[j].total => rows[i].bar >= rows[j].bar
                /\ \A i \in DOMAIN rows :
                    /\ rows[i].total = OnOffer(n, SideOf(i), rows[i].price)
                    /\ rows[i].total = MaxDepth(drawn) => rows[i].bar = BarWidth
                /\ asks \in 1 .. Len(rows) - 1 =>
                    Spread(drawn) = rows[asks].price - rows[asks + 1].price
=============================================================================
