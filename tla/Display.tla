------------------------------- MODULE Display ------------------------------
(***************************************************************************)
(* What the terminal promises: it shows nothing, then books the exchange   *)
(* sent, each as it was and newer than the one before. It may skip some.   *)
(***************************************************************************)
EXTENDS Naturals

CONSTANTS
    Blank,          \* the view before the first book
    ViewOf(_),      \* the view of the book sent at a time
    Stamp(_)        \* the id a view bears

VARIABLES
    sent,           \* the time of the latest book sent
    shown

Init == sent = 0 /\ shown = Blank

Publish == sent' = sent + 1 /\ UNCHANGED shown

Show ==
    /\ Stamp(shown) < Stamp(shown')
    /\ \E n \in 1 .. sent : shown' = ViewOf(n)
    /\ UNCHANGED sent

Spec == Init /\ [][Publish \/ Show]_<<sent, shown>>
=============================================================================
