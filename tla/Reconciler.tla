----------------------------- MODULE Reconciler -----------------------------
(***************************************************************************)
(* ordust-market-data/src/marketbook/reconciler.rs: diffs are buffered     *)
(* until a snapshot arrives to apply them to; from then on each diff has   *)
(* to start where the book stands.                                         *)
(*                                                                         *)
(* The methods take `&mut self`. on_diff is one step; on_snapshot is one   *)
(* step, or a first one and one for each turn of its loop over the         *)
(* buffered diffs ("Bridging"), during which no other call can start.      *)
(***************************************************************************)
EXTENDS MarketBook, Sequences

VARIABLES
    status,         \* SyncState, or the loop of on_snapshot
    buffer,         \* Buffering: the diffs kept; Bridging: those to apply yet
    book,           \* Synced: the book; Bridging: the local one being built
    outcome         \* what the last call returned

rvars == <<status, buffer, book, outcome>>

Status == {"Buffering", "Bridging", "Synced"}
Outcome == {"Ok", "GapDetected", "SnapshotTooOld"}

ReconcilerInit ==
    /\ status = "Buffering"
    /\ buffer = << >>
    /\ book = EmptyBook
    /\ outcome = "Ok"

Expected == book.last_update_id + 1

(* The state is dropped for an empty buffer, and the call fails.           *)
StartOver(error) ==
    /\ status' = "Buffering"
    /\ buffer' = << >>
    /\ book' = EmptyBook
    /\ outcome' = error

-----------------------------------------------------------------------------
(* on_diff                                                                 *)
BufferDiff(update) ==
    /\ status = "Buffering"
    /\ buffer' = Append(buffer, update)
    /\ outcome' = "Ok"
    /\ UNCHANGED <<status, book>>

ApplyLive(update) ==
    /\ status = "Synced"
    /\ update.first_update_id = Expected
    /\ book' = ApplyDiff(book, update)
    /\ outcome' = "Ok"
    /\ UNCHANGED <<status, buffer>>

LiveGap(update) ==
    /\ status = "Synced"
    /\ update.first_update_id # Expected
    /\ StartOver("GapDetected")

OnDiff(update) == BufferDiff(update) \/ ApplyLive(update) \/ LiveGap(update)

-----------------------------------------------------------------------------
(* Mutant: the end of a diff's range is not looked at.                     *)
StartsBy(update, id) == update.first_update_id <= id

(* `update` takes a book across id.                                        *)
Straddles(update, id) ==
    update.first_update_id <= id /\ id <= update.final_update_id

(* on_snapshot                                                             *)
ReplaceBook(snapshot) ==
    /\ status = "Synced"
    /\ book' = ApplySnapshot(snapshot)
    /\ outcome' = "Ok"
    /\ UNCHANGED <<status, buffer>>

SyncDirectly(snapshot) ==
    /\ status = "Buffering"
    /\ buffer = << >>
    /\ status' = "Synced"
    /\ book' = ApplySnapshot(snapshot)
    /\ outcome' = "Ok"
    /\ UNCHANGED buffer

StraddlesAt(i, snapshot) ==
    /\ Straddles(buffer[i], snapshot.last_update_id + 1)
    /\ \A j \in 1 .. i - 1 : ~Straddles(buffer[j], snapshot.last_update_id + 1)

(* Mutant: the buffer survives a snapshot that is refused.                 *)
RefuseKeepingBuffer(snapshot) ==
    /\ status = "Buffering"
    /\ buffer # << >>
    /\ ~ \E i \in DOMAIN buffer : StraddlesAt(i, snapshot)
    /\ outcome' = "SnapshotTooOld"
    /\ UNCHANGED <<status, buffer, book>>

RefuseSnapshot(snapshot) ==
    /\ status = "Buffering"
    /\ buffer # << >>
    /\ ~ \E i \in DOMAIN buffer : StraddlesAt(i, snapshot)
    /\ StartOver("SnapshotTooOld")

(* Mutant: only the straddling diff is applied.                            *)
BridgeOneDiff(snapshot) ==
    /\ status = "Buffering"
    /\ \E i \in DOMAIN buffer :
        /\ StraddlesAt(i, snapshot)
        /\ buffer' = <<buffer[i]>>
    /\ status' = "Bridging"
    /\ book' = ApplySnapshot(snapshot)
    /\ UNCHANGED outcome

StartBridge(snapshot) ==
    /\ status = "Buffering"
    /\ \E i \in DOMAIN buffer :
        /\ StraddlesAt(i, snapshot)
        /\ buffer' = SubSeq(buffer, i, Len(buffer))
    /\ status' = "Bridging"
    /\ book' = ApplySnapshot(snapshot)
    /\ UNCHANGED outcome

OnSnapshot(snapshot) ==
    ReplaceBook(snapshot) \/ SyncDirectly(snapshot)
        \/ RefuseSnapshot(snapshot) \/ StartBridge(snapshot)

(* The loop over the buffered diffs.                                       *)
BridgeDiff ==
    /\ status = "Bridging"
    /\ buffer # << >>
    /\ Straddles(Head(buffer), Expected)
    /\ book' = ApplyDiff(book, Head(buffer))
    /\ buffer' = Tail(buffer)
    /\ UNCHANGED <<status, outcome>>

BridgeGap ==
    /\ status = "Bridging"
    /\ buffer # << >>
    /\ ~Straddles(Head(buffer), Expected)
    /\ StartOver("GapDetected")

BridgeDone ==
    /\ status = "Bridging"
    /\ buffer = << >>
    /\ status' = "Synced"
    /\ outcome' = "Ok"
    /\ UNCHANGED <<buffer, book>>

Bridge == BridgeDiff \/ BridgeGap \/ BridgeDone
=============================================================================
