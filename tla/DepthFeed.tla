------------------------------ MODULE DepthFeed -----------------------------
(***************************************************************************)
(* A reconciler, the exchange it copies and the network between them.      *)
(* Neither of the latter is in the repository. The exchange numbers its    *)
(* updates; a diff carries, for a range of them, the quantity at the end   *)
(* of the range of each level they touched; a snapshot carries the book    *)
(* after one of them. The network delivers any diff and any snapshot at    *)
(* any time, any number of times or never: it loses, repeats, delays and   *)
(* reorders, and cuts the updates into diffs anew on every delivery.       *)
(***************************************************************************)
EXTENDS Reconciler

CONSTANTS
    MaxUpdate,      \* bounds the exchange's history
    MaxBuffer       \* bounds the reconciler's buffer

ASSUME DepthFeedAssumption == MaxUpdate \in Nat /\ MaxBuffer \in Nat

VARIABLES
    now,            \* the exchange's last update
    hist,           \* its book after each update
    tail            \* the last id of the diff delivered last; None when a
                    \* snapshot has since been taken with no diff buffered

vars == <<status, buffer, book, outcome, now, hist, tail>>

FeedTypeOK ==
    /\ status \in Status
    /\ buffer \in Seq(DepthUpdate)
    /\ book \in Book
    /\ outcome \in Outcome
    /\ now \in 0 .. MaxUpdate
    /\ hist \in [0 .. now -> Depth]
    /\ tail \in 0 .. now \cup {None}

Init ==
    /\ ReconcilerInit
    /\ now = 0
    /\ hist = [n \in {0} |-> NoDepth]
    /\ tail = None

-----------------------------------------------------------------------------
(* Update now + 1 changes one level.                                       *)
Publish ==
    /\ now < MaxUpdate
    /\ now' = now + 1
    /\ \E s \in Side, p \in Price, q \in (Qty \ {0}) \cup {None} :
        /\ hist[now][s][p] # q
        /\ hist' = [n \in 0 .. now + 1 |->
                        IF n <= now THEN hist[n] ELSE [hist[now] EXCEPT ![s][p] = q]]
    /\ UNCHANGED <<rvars, tail>>

Touched(first, final, s, p) ==
    \E n \in first .. final : hist[n][s][p] # hist[n - 1][s][p]

Diff(first, final) ==
    [first_update_id |-> first, final_update_id |-> final,
     levels |-> [s \in Side |-> [p \in Price |->
                    IF ~Touched(first, final, s, p) THEN None
                    ELSE IF hist[final][s][p] = None THEN 0
                    ELSE hist[final][s][p]]]]

(* `absent` is how an empty level is listed: with quantity 0, or not at all. *)
SnapshotAt(n, absent) ==
    [last_update_id |-> n,
     levels |-> [s \in Side |-> [p \in Price |->
                    IF hist[n][s][p] = None THEN absent ELSE hist[n][s][p]]]]

DeliverDiff ==
    \E first \in 1 .. now : \E final \in first .. now :
        /\ status = "Buffering" => Len(buffer) < MaxBuffer
        /\ OnDiff(Diff(first, final))
        /\ tail' = final
        /\ UNCHANGED <<now, hist>>

DeliverSnapshot ==
    \E n \in 0 .. now, absent \in {0, None} :
        /\ OnSnapshot(SnapshotAt(n, absent))
        /\ tail' = IF buffer = << >> THEN None ELSE tail
        /\ UNCHANGED <<now, hist>>

Next ==
    \/ Publish \/ DeliverDiff \/ DeliverSnapshot
    \/ Bridge /\ UNCHANGED <<now, hist, tail>>

Spec == Init /\ [][Next]_vars

-----------------------------------------------------------------------------
(* A book that is shown is a book the exchange had: the one after the       *)
(* update the book says it is at. Whatever the network does, on_diff and    *)
(* on_snapshot never mix the levels of two moments.                         *)
MirrorsExchange ==
    status = "Synced" => book.levels = hist[book.last_update_id]

(* A book built from a snapshot and buffered diffs stands at the end of the *)
(* stream of diffs: as long as the stream has no hole and no snapshot       *)
(* intervenes, no diff is taken for a gap.                                  *)
StandsAtTail ==
    (status = "Synced" /\ tail # None) => book.last_update_id = tail

(* reconciler.rs, tests: "State must remain Buffering on error", "Ensure    *)
(* state reset wiped the book". An error leaves nothing behind that the     *)
(* next snapshot could fail on.                                             *)
ErrorsStartAfresh ==
    outcome # "Ok" =>
        status = "Buffering" /\ buffer = << >> /\ book = EmptyBook

-----------------------------------------------------------------------------
(* reconciler.rs, ReconcileError: "snapshot too old". Violated: a snapshot  *)
(* newer than every buffered diff is refused as too old as well.            *)
RefusedSnapshotsAreOld ==
    [][\A n \in 0 .. now :
        RefuseSnapshot(SnapshotAt(n, None)) =>
            \E i \in DOMAIN buffer : n < buffer[i].first_update_id]_vars
=============================================================================
