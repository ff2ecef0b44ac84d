------------------------------ MODULE MCTerminal ----------------------------
(***************************************************************************)
(* A small instance of the terminal for TLC.                               *)
(***************************************************************************)
EXTENDS Ladder

(* Two books of five prices. With Scale = 3, a size of 1 rounds to 0, one   *)
(* of 2 to 4 is a unit and one of 5 or 6 is two. From the first to the second a level appears,       *)
(* vanishes, changes, rounds to nothing and cannot be read; the first has  *)
(* more bids, the second more asks than a view of two has room for.        *)
Books ==
    << [Buy  |-> <<3, 5, 4, None, None>>,
        Sell |-> <<None, None, None, 2, 6>>],
       [Buy  |-> <<6, Garbled, None, None, None>>,
        Sell |-> <<None, 1, 5, 3, 6>>] >>

Batches == { << >>, <<3>>, <<Garbled, 3>> }
=============================================================================
