----------------------------- MODULE DepthProofs ----------------------------
(***************************************************************************)
(* Theorems about DepthFeed, for every set of prices and quantities, every *)
(* length of the exchange's history and every size of the buffer: whatever *)
(* the network delivers, a synced book is one the exchange had.            *)
(***************************************************************************)
EXTENDS DepthFeed, TLAPS, WellFoundedInduction

(* A diff carries what the exchange did in its range.                      *)
Honest(d) == \E first \in 1 .. now : \E final \in first .. now : d = Diff(first, final)

BufferHonest == \A i \in 1 .. Len(buffer) : Honest(buffer[i])

(* The book being built is one the exchange had as well.                   *)
BookHonest ==
    status # "Buffering" =>
        /\ book.last_update_id \in 0 .. now
        /\ book.levels = hist[book.last_update_id]

(* The last diff held is the last one delivered, and a book that has no     *)
(* diff left to apply stands where that one ended.                         *)
TailHeld ==
    /\ buffer # << >> => tail = buffer[Len(buffer)].final_update_id
    /\ status = "Bridging" => tail # None
    /\ (status # "Buffering" /\ buffer = << >> /\ tail # None)
            => book.last_update_id = tail

(* What each state leaves empty.                                           *)
NothingLeft ==
    /\ status = "Synced" => buffer = << >>
    /\ status = "Buffering" => book = EmptyBook
    /\ outcome # "Ok" => status = "Buffering" /\ buffer = << >>

FeedInv == FeedTypeOK /\ BufferHonest /\ BookHonest /\ TailHeld /\ NothingLeft

-----------------------------------------------------------------------------
(* Any set of natural numbers has a least one.                             *)
LEMMA LeastNumber ==
    ASSUME NEW T, T \subseteq Nat, T # {}
    PROVE  \E x \in T : \A y \in T : x <= y
  <1>1. PICK R : R = OpToRel(<, Nat)
    OBVIOUS
  <1>2. IsWellFoundedOn(R, Nat)
    BY <1>1, NatLessThanWellFounded
  <1>3. PICK x \in T : \A y \in T : ~ (<<y, x>> \in R)
    BY <1>2, WFMin
  <1>4. \A y \in T : x <= y
    <2> TAKE y \in T
    <2>1. x \in Nat /\ y \in Nat
      OBVIOUS
    <2>2. y < x => <<y, x>> \in R
      BY <1>1, <2>1 DEF OpToRel
    <2> QED
      BY <1>3, <2>1, <2>2
  <1> QED
    BY <1>4

(* A level that no update of a range touched has one quantity all along.   *)
LEMMA UntouchedLevel ==
    ASSUME FeedTypeOK,
           NEW first \in 1 .. now, NEW final \in first .. now,
           NEW n \in 0 .. now, first <= n + 1, n <= final,
           NEW s \in Side, NEW p \in Price, ~Touched(first, final, s, p)
    PROVE  hist[final][s][p] = hist[n][s][p]
  <1>1. now \in Nat
    BY DepthFeedAssumption DEF FeedTypeOK
  <1> DEFINE T == {m \in n .. final : hist[m][s][p] # hist[n][s][p]}
  <1>2. SUFFICES ASSUME T # {} PROVE FALSE
    <2>1. final \in n .. final
      BY <1>1
    <2> QED
      BY <1>2, <2>1
  <1>3. T \subseteq Nat
    BY <1>1
  <1>4. PICK m \in T : \A y \in T : m <= y
    <2> HIDE DEF T
    <2> QED
      BY <1>2, <1>3, LeastNumber
  <1>5. m \in n .. final /\ hist[m][s][p] # hist[n][s][p] /\ m \in Nat
    BY <1>3, <1>4
  <1>6. m # n
    BY <1>5
  <1>7. m - 1 \in n .. final /\ ~ (m <= m - 1) /\ m \in first .. final
    BY <1>1, <1>5, <1>6
  <1>8. m - 1 \notin T
    BY <1>4, <1>7
  <1>9. hist[m - 1][s][p] = hist[n][s][p]
    BY <1>7, <1>8
  <1>10. hist[m][s][p] = hist[m - 1][s][p]
    BY <1>7 DEF Touched
  <1> QED
    BY <1>5, <1>9, <1>10

(* The exchange's levels: a positive quantity or none.                     *)
LEMMA HistoryType ==
    ASSUME FeedTypeOK, NEW n \in 0 .. now, NEW s \in Side, NEW p \in Price
    PROVE  /\ hist[n] \in Depth
           /\ hist[n][s][p] \in (Qty \ {0}) \cup {None}
           /\ hist[n][s][p] # 0 /\ None # 0
  <1>1. hist[n] \in Depth
    BY DEF FeedTypeOK
  <1> QED
    BY <1>1, MarketBookAssumption DEF Depth

(* What the exchange sends is typed.                                       *)
LEMMA DiffType ==
    ASSUME FeedTypeOK, NEW first \in 1 .. now, NEW final \in first .. now
    PROVE  Diff(first, final) \in DepthUpdate
  <1>1. first \in Nat /\ final \in Nat /\ final \in 0 .. now
    BY DepthFeedAssumption DEF FeedTypeOK
  <1>2. \A s \in Side, p \in Price :
            hist[final][s][p] \in (Qty \ {0}) \cup {None}
    BY <1>1, HistoryType
  <1>3. Diff(first, final).levels \in Listing
    BY <1>2 DEF Diff, Listing
  <1> QED
    BY <1>1, <1>3 DEF Diff, DepthUpdate

(* An honest diff takes the book from any update of its range, or from the  *)
(* one before it, to the update the range ends with.                       *)
LEMMA DiffAdvances ==
    ASSUME FeedTypeOK, NEW first \in 1 .. now, NEW final \in first .. now,
           book.last_update_id \in 0 .. now,
           book.levels = hist[book.last_update_id],
           Straddles(Diff(first, final), Expected)
    PROVE  /\ ApplyDiff(book, Diff(first, final)) \in Book
           /\ ApplyDiff(book, Diff(first, final)).levels = hist[final]
           /\ ApplyDiff(book, Diff(first, final)).last_update_id = final
  <1> DEFINE n == book.last_update_id
             d == Diff(first, final)
             after == ApplyDiff(book, d)
  <1>1. now \in Nat
    BY DepthFeedAssumption DEF FeedTypeOK
  <1>2. /\ first \in Nat /\ final \in 0 .. now /\ final \in Nat /\ n \in Nat
        /\ d.first_update_id = first /\ d.final_update_id = final
    BY <1>1 DEF Diff
  <1>3. first <= n + 1 /\ n <= final
    <2>1. first <= n + 1 /\ n + 1 <= final
      BY <1>2 DEF Straddles, Expected
    <2> QED
      BY <1>2, <2>1
  <1>4. ASSUME NEW s \in Side, NEW p \in Price
        PROVE  after.levels[s][p] = hist[final][s][p]
    <2>1. d.levels[s][p] = IF ~Touched(first, final, s, p) THEN None
                           ELSE IF hist[final][s][p] = None THEN 0
                           ELSE hist[final][s][p]
      BY DEF Diff
    <2>2. /\ d.levels[s][p] = None => after.levels[s][p] = book.levels[s][p]
          /\ d.levels[s][p] # None /\ d.levels[s][p] = 0 => after.levels[s][p] = None
          /\ d.levels[s][p] # None /\ d.levels[s][p] # 0
                => after.levels[s][p] = d.levels[s][p]
      <3> HIDE DEF d
      <3> QED
        BY MarketBookAssumption DEF ApplyDiff
    <2>3. hist[final][s][p] # 0 /\ None # 0
      BY <1>2, HistoryType
    <2>4. CASE ~Touched(first, final, s, p)
      <3>1. hist[final][s][p] = hist[n][s][p]
        BY <1>3, <2>4, UntouchedLevel
      <3>2. d.levels[s][p] = None
        BY <2>1, <2>4
      <3>3. after.levels[s][p] = book.levels[s][p]
        <4> HIDE DEF after, d
        <4> QED
          BY <2>2, <3>2
      <3> QED
        BY <3>1, <3>3
    <2>5. CASE Touched(first, final, s, p) /\ hist[final][s][p] = None
      BY <2>1, <2>2, <2>3, <2>5
    <2>6. CASE Touched(first, final, s, p) /\ hist[final][s][p] # None
      BY <2>1, <2>2, <2>3, <2>6
    <2> QED
      BY <2>4, <2>5, <2>6
  <1>5. hist[final] \in Depth
    BY <1>2 DEF FeedTypeOK
  <1>6. after.levels = [s \in Side |-> [p \in Price |-> after.levels[s][p]]]
    BY DEF ApplyDiff
  <1>7. hist[final] = [s \in Side |-> [p \in Price |-> hist[final][s][p]]]
    BY <1>5 DEF Depth
  <1>8. after.levels = hist[final]
    <2> HIDE DEF after, d
    <2> QED
      BY <1>4, <1>6, <1>7
  <1>9. after.last_update_id = final
    BY <1>2 DEF ApplyDiff
  <1>10. after = [levels |-> after.levels, last_update_id |-> after.last_update_id]
    BY DEF ApplyDiff
  <1>11. after \in Book
    <2> HIDE DEF after, d
    <2> QED
      BY <1>2, <1>5, <1>8, <1>9, <1>10 DEF Book
  <1> QED
    BY <1>8, <1>9, <1>11

(* A snapshot's book is the exchange's at its update.                      *)
LEMMA SnapshotIsHistory ==
    ASSUME FeedTypeOK, NEW n \in 0 .. now, NEW absent \in {0, None}
    PROVE  /\ ApplySnapshot(SnapshotAt(n, absent)) \in Book
           /\ ApplySnapshot(SnapshotAt(n, absent)).levels = hist[n]
           /\ ApplySnapshot(SnapshotAt(n, absent)).last_update_id = n
           /\ SnapshotAt(n, absent).last_update_id = n
  <1> DEFINE after == ApplySnapshot(SnapshotAt(n, absent))
  <1>1. n \in Nat /\ SnapshotAt(n, absent).last_update_id = n
    BY DepthFeedAssumption DEF FeedTypeOK, SnapshotAt
  <1>2. ASSUME NEW s \in Side, NEW p \in Price
        PROVE  after.levels[s][p] = hist[n][s][p]
    BY HistoryType DEF ApplySnapshot, SnapshotAt
  <1>3. hist[n] \in Depth
    BY DEF FeedTypeOK
  <1>4. after.levels = [s \in Side |-> [p \in Price |-> after.levels[s][p]]]
    BY DEF ApplySnapshot
  <1>5. hist[n] = [s \in Side |-> [p \in Price |-> hist[n][s][p]]]
    BY <1>3 DEF Depth
  <1>6. after.last_update_id = n
    BY <1>1 DEF ApplySnapshot
  <1>7. after = [levels |-> after.levels, last_update_id |-> after.last_update_id]
    BY DEF ApplySnapshot
  <1>8. after.levels = hist[n]
    <2> HIDE DEF after
    <2> QED
      BY <1>2, <1>4, <1>5
  <1>9. after \in Book
    <2> HIDE DEF after
    <2> QED
      BY <1>1, <1>3, <1>6, <1>7, <1>8 DEF Book
  <1> QED
    BY <1>1, <1>6, <1>8, <1>9
-----------------------------------------------------------------------------
(* The invariant.                                                          *)

LEMMA FeedInvInit == Init => FeedInv
  <1> SUFFICES ASSUME Init PROVE FeedInv
    OBVIOUS
  <1> USE DEF Init, ReconcilerInit
  <1>1. NoDepth \in Depth
    BY DEF NoDepth, Depth
  <1>2. EmptyBook \in Book
    BY <1>1 DEF EmptyBook, Book
  <1>3. now \in 0 .. MaxUpdate /\ hist \in [0 .. now -> Depth]
    BY <1>1, DepthFeedAssumption
  <1>4. FeedTypeOK
    BY <1>2, <1>3 DEF FeedTypeOK, Status, Outcome
  <1>5. Len(buffer) = 0
    OBVIOUS
  <1> QED
    BY <1>4, <1>5 DEF FeedInv, BufferHonest, BookHonest, TailHeld, NothingLeft

(* A diff depends on the history up to its end only.                       *)
LEMMA SameHistory ==
    ASSUME now \in Nat, \A n \in 0 .. now : hist'[n] = hist[n],
           NEW first \in 1 .. now, NEW final \in first .. now
    PROVE  Diff(first, final)' = Diff(first, final)
  <1>1. final \in 0 .. now
    OBVIOUS
  <1>2. \A n \in first .. final : n \in 0 .. now /\ n - 1 \in 0 .. now
    OBVIOUS
  <1>3. hist'[final] = hist[final]
    BY <1>1
  <1>4. \A n \in first .. final : hist'[n] = hist[n] /\ hist'[n - 1] = hist[n - 1]
    BY <1>2
  <1>5. \A s \in Side, p \in Price :
            Touched(first, final, s, p)' <=> Touched(first, final, s, p)
    BY <1>4 DEF Touched
  <1> QED
    BY <1>3, <1>5 DEF Diff

(* The exchange's next update leaves the ones before it as they were.      *)
LEMMA PublishKeeps == FeedInv /\ Publish => FeedInv'
  <1> SUFFICES ASSUME FeedInv, Publish PROVE FeedInv'
    OBVIOUS
  <1> USE DEF FeedInv
  <1>1. now \in Nat /\ now' = now + 1 /\ now' \in 0 .. MaxUpdate
    BY DepthFeedAssumption DEF FeedTypeOK, Publish
  <1>2. PICK s \in Side, p \in Price, q \in (Qty \ {0}) \cup {None} :
            hist' = [n \in 0 .. now + 1 |->
                        IF n <= now THEN hist[n] ELSE [hist[now] EXCEPT ![s][p] = q]]
    BY DEF Publish
  <1>3. hist' \in [0 .. now' -> Depth]
    <2>1. \A n \in 0 .. now : hist[n] \in Depth
      BY DEF FeedTypeOK
    <2>2. now \in 0 .. now
      BY <1>1
    <2>3. [hist[now] EXCEPT ![s][p] = q] \in Depth
      BY <2>1, <2>2 DEF Depth
    <2>4. \A n \in 0 .. now + 1 : n <= now => n \in 0 .. now
      BY <1>1
    <2> QED
      BY <1>1, <1>2, <2>1, <2>3, <2>4
  <1>4. \A n \in 0 .. now : hist'[n] = hist[n]
    BY <1>1, <1>2
  <1>5. UNCHANGED <<status, buffer, book, outcome, tail>>
    BY DEF Publish, rvars
  <1>6. FeedTypeOK'
    <2>1. tail \in 0 .. now' \cup {None}
      BY <1>1 DEF FeedTypeOK
    <2> QED
      BY <1>1, <1>3, <1>5, <2>1 DEF FeedTypeOK
  <1>7. BufferHonest'
    <2> SUFFICES ASSUME NEW i \in 1 .. Len(buffer) PROVE Honest(buffer[i])'
      BY <1>5 DEF BufferHonest
    <2>1. PICK first \in 1 .. now : \E final \in first .. now : buffer[i] = Diff(first, final)
      BY DEF BufferHonest, Honest
    <2>2. PICK final \in first .. now : buffer[i] = Diff(first, final)
      BY <2>1
    <2>3. first \in 1 .. now' /\ final \in first .. now'
      BY <1>1
    <2>4. Diff(first, final)' = Diff(first, final)
      BY <1>1, <1>4, SameHistory
    <2> QED
      BY <1>5, <2>2, <2>3, <2>4 DEF Honest
  <1>8. BookHonest'
    BY <1>1, <1>4, <1>5 DEF BookHonest
  <1>9. TailHeld' /\ NothingLeft'
    BY <1>5 DEF TailHeld, NothingLeft
  <1> QED
    BY <1>6, <1>7, <1>8, <1>9

(* A reconciler that starts over keeps nothing.                            *)
LEMMA StartOverKeeps ==
    ASSUME FeedInv, StartOver("GapDetected") \/ StartOver("SnapshotTooOld"),
           UNCHANGED <<now, hist>>, tail' \in 0 .. now \cup {None}
    PROVE  FeedInv'
  <1>1. /\ status' = "Buffering" /\ buffer' = << >> /\ book' = EmptyBook
        /\ outcome' \in Outcome
    BY DEF StartOver, Outcome
  <1>2. EmptyBook \in Book
    BY DEF EmptyBook, Book, NoDepth, Depth
  <1>3. FeedTypeOK'
    BY <1>1, <1>2 DEF FeedInv, FeedTypeOK, Status
  <1>4. Len(buffer') = 0
    BY <1>1
  <1> QED
    BY <1>1, <1>3, <1>4 DEF FeedInv, BufferHonest, BookHonest, TailHeld, NothingLeft

(* on_diff                                                                 *)
LEMMA DiffKeeps == FeedInv /\ DeliverDiff => FeedInv'
  <1> SUFFICES ASSUME FeedInv, DeliverDiff PROVE FeedInv'
    OBVIOUS
  <1>1. PICK first \in 1 .. now : \E final \in first .. now :
            OnDiff(Diff(first, final)) /\ tail' = final /\ UNCHANGED <<now, hist>>
    BY DEF DeliverDiff
  <1>2. PICK final \in first .. now :
            OnDiff(Diff(first, final)) /\ tail' = final /\ UNCHANGED <<now, hist>>
    BY <1>1
  <1> DEFINE d == Diff(first, final)
  <1>3. FeedTypeOK /\ now \in Nat
    BY DepthFeedAssumption DEF FeedInv, FeedTypeOK
  <1>4. final \in 0 .. now /\ tail' \in 0 .. now \cup {None} /\ tail' # None
    BY <1>2, <1>3, MarketBookAssumption
  <1>5. d \in DepthUpdate /\ d.first_update_id = first /\ d.final_update_id = final
    BY <1>3, DiffType DEF Diff
  <1>6. \A f \in 1 .. now : \A l \in f .. now : Diff(f, l)' = Diff(f, l)
    BY <1>2, <1>3, SameHistory
  <1>7. CASE BufferDiff(d)
    <2>1. /\ status = "Buffering" /\ buffer' = Append(buffer, d) /\ outcome' = "Ok"
          /\ UNCHANGED <<status, book>>
      BY <1>7 DEF BufferDiff
    <2>2. buffer' \in Seq(DepthUpdate) /\ Len(buffer') = Len(buffer) + 1
      BY <1>3, <1>5, <2>1 DEF FeedTypeOK
    <2>3. BufferHonest'
      <3> SUFFICES ASSUME NEW i \in 1 .. Len(buffer') PROVE Honest(buffer[i])'
        BY DEF BufferHonest
      <3>1. CASE i = Len(buffer) + 1
        <4>1. buffer'[i] = d
          BY <1>3, <2>1, <3>1 DEF FeedTypeOK
        <4> QED
          BY <1>2, <1>6, <4>1 DEF Honest
      <3>2. CASE i # Len(buffer) + 1
        <4>1. i \in 1 .. Len(buffer) /\ buffer'[i] = buffer[i]
          BY <1>3, <2>1, <2>2, <3>2 DEF FeedTypeOK
        <4>2. Honest(buffer[i])
          BY <4>1 DEF FeedInv, BufferHonest
        <4> QED
          BY <1>2, <1>6, <4>1, <4>2 DEF Honest
      <3> QED
        BY <3>1, <3>2
    <2>4. buffer'[Len(buffer')] = d /\ buffer' # << >>
      BY <1>3, <1>5, <2>1, <2>2 DEF FeedTypeOK
    <2>5. FeedTypeOK'
      BY <1>2, <1>3, <1>4, <2>1, <2>2 DEF FeedTypeOK, Outcome
    <2>6. TailHeld'
      BY <1>2, <1>5, <2>1, <2>4 DEF TailHeld
    <2> QED
      BY <2>1, <2>3, <2>5, <2>6 DEF FeedInv, BookHonest, NothingLeft
  <1>8. CASE ApplyLive(d)
    <2>1. /\ status = "Synced" /\ first = Expected /\ book' = ApplyDiff(book, d)
          /\ outcome' = "Ok" /\ UNCHANGED <<status, buffer>>
      BY <1>5, <1>8 DEF ApplyLive
    <2>2. book.last_update_id \in 0 .. now /\ book.levels = hist[book.last_update_id]
      BY <2>1 DEF FeedInv, BookHonest
    <2>3. Straddles(d, Expected)
      BY <1>3, <1>5, <2>1, <2>2 DEF Straddles
    <2>4. book' \in Book /\ book'.levels = hist[final] /\ book'.last_update_id = final
      BY <1>3, <2>1, <2>2, <2>3, DiffAdvances
    <2>5. buffer' = << >>
      BY <2>1 DEF FeedInv, NothingLeft
    <2>6. FeedTypeOK'
      BY <1>2, <1>3, <1>4, <2>1, <2>4 DEF FeedTypeOK, Outcome
    <2>7. BookHonest'
      BY <1>2, <1>4, <2>4 DEF BookHonest
    <2>8. TailHeld'
      BY <1>2, <2>1, <2>4, <2>5 DEF TailHeld
    <2>9. BufferHonest'
      <3>1. Len(buffer') = 0
        BY <2>5
      <3> QED
        BY <3>1 DEF BufferHonest
    <2> QED
      BY <2>1, <2>5, <2>6, <2>7, <2>8, <2>9 DEF FeedInv, NothingLeft
  <1>9. CASE LiveGap(d)
    BY <1>2, <1>4, <1>9, StartOverKeeps DEF LiveGap
  <1> QED
    BY <1>2, <1>7, <1>8, <1>9 DEF OnDiff

(* on_snapshot, up to its loop                                             *)
LEMMA SnapshotKeeps == FeedInv /\ DeliverSnapshot => FeedInv'
  <1> SUFFICES ASSUME FeedInv, DeliverSnapshot PROVE FeedInv'
    OBVIOUS
  <1>1. PICK n \in 0 .. now, absent \in {0, None} :
            /\ OnSnapshot(SnapshotAt(n, absent))
            /\ tail' = IF buffer = << >> THEN None ELSE tail
            /\ UNCHANGED <<now, hist>>
    BY DEF DeliverSnapshot
  <1> DEFINE shot == SnapshotAt(n, absent)
             fresh == ApplySnapshot(shot)
  <1>2. FeedTypeOK
    BY DEF FeedInv
  <1>3. /\ fresh \in Book /\ fresh.levels = hist[n] /\ fresh.last_update_id = n
        /\ shot.last_update_id = n
    BY <1>2, SnapshotIsHistory
  <1>4. tail' \in 0 .. now \cup {None}
    BY <1>1, <1>2 DEF FeedTypeOK
  <1>10. \A f \in 1 .. now : \A l \in f .. now : Diff(f, l)' = Diff(f, l)
    BY <1>1, <1>2, SameHistory, DepthFeedAssumption DEF FeedTypeOK
  <1> HIDE DEF fresh, shot
  <1>5. ASSUME buffer = << >>, buffer' = << >>, status' = "Synced", book' = fresh,
               outcome' = "Ok"
        PROVE  FeedInv'
    <2>1. FeedTypeOK'
      BY <1>1, <1>2, <1>3, <1>4, <1>5 DEF FeedTypeOK, Status, Outcome
    <2>2. BookHonest'
      BY <1>1, <1>3, <1>5 DEF BookHonest
    <2>3. TailHeld' /\ NothingLeft'
      BY <1>1, <1>5 DEF TailHeld, NothingLeft
    <2>4. BufferHonest'
      BY <1>5 DEF BufferHonest
    <2> QED
      BY <2>1, <2>2, <2>3, <2>4 DEF FeedInv
  <1>6. CASE ReplaceBook(shot)
    <2>1. status = "Synced" /\ buffer = << >>
      BY <1>6 DEF ReplaceBook, FeedInv, NothingLeft
    <2> QED
      BY <1>5, <1>6, <2>1 DEF ReplaceBook, fresh
  <1>7. CASE SyncDirectly(shot)
    BY <1>5, <1>7 DEF SyncDirectly, fresh
  <1>8. CASE RefuseSnapshot(shot)
    BY <1>1, <1>4, <1>8, StartOverKeeps DEF RefuseSnapshot
  <1>9. CASE StartBridge(shot)
    <2>1. PICK i \in 1 .. Len(buffer) : buffer' = SubSeq(buffer, i, Len(buffer))
      BY <1>2, <1>9 DEF StartBridge, FeedTypeOK
    <2>2. /\ status = "Buffering" /\ status' = "Bridging" /\ book' = fresh
          /\ outcome' = outcome
      BY <1>9 DEF StartBridge, fresh
    <2>3. buffer \in Seq(DepthUpdate) /\ Len(buffer) \in Nat /\ buffer # << >>
      BY <1>2, <2>1 DEF FeedTypeOK
    <2>4. /\ buffer' \in Seq(DepthUpdate) /\ Len(buffer') = Len(buffer) - i + 1
          /\ \A j \in 1 .. Len(buffer') : buffer'[j] = buffer[j + i - 1]
      BY <2>1, <2>3
    <2>5. \A j \in 1 .. Len(buffer') : j + i - 1 \in 1 .. Len(buffer)
      BY <2>3, <2>4
    <2>6. /\ buffer' # << >> /\ Len(buffer') \in 1 .. Len(buffer')
          /\ buffer'[Len(buffer')] = buffer[Len(buffer)]
      BY <2>3, <2>4
    <2>7. FeedTypeOK'
      BY <1>1, <1>2, <1>3, <1>4, <2>2, <2>4 DEF FeedTypeOK, Status
    <2>8. BufferHonest'
      <3> SUFFICES ASSUME NEW j \in 1 .. Len(buffer') PROVE Honest(buffer[j])'
        BY DEF BufferHonest
      <3>1. Honest(buffer'[j])
        BY <2>4, <2>5 DEF FeedInv, BufferHonest
      <3> QED
        BY <1>1, <1>10, <3>1 DEF Honest
    <2>9. BookHonest'
      BY <1>1, <1>3, <2>2 DEF BookHonest
    <2>10. tail' = buffer[Len(buffer)].final_update_id /\ tail' \in Nat
      <3>1. tail' = tail /\ tail = buffer[Len(buffer)].final_update_id
        BY <1>1, <2>3 DEF FeedInv, TailHeld
      <3>2. buffer[Len(buffer)] \in DepthUpdate
        BY <2>1, <2>3
      <3> QED
        BY <3>1, <3>2 DEF DepthUpdate
    <2>11. TailHeld'
      BY <2>2, <2>6, <2>10, MarketBookAssumption DEF TailHeld
    <2>12. NothingLeft'
      BY <2>2, <2>3 DEF FeedInv, NothingLeft
    <2> QED
      BY <2>7, <2>8, <2>9, <2>11, <2>12 DEF FeedInv
  <1> QED
    BY <1>1, <1>6, <1>7, <1>8, <1>9 DEF OnSnapshot, shot

(* The loop of on_snapshot.                                                *)
LEMMA BridgeKeeps == FeedInv /\ Bridge /\ UNCHANGED <<now, hist, tail>> => FeedInv'
  <1> SUFFICES ASSUME FeedInv, Bridge, UNCHANGED <<now, hist, tail>> PROVE FeedInv'
    OBVIOUS
  <1>1. FeedTypeOK /\ buffer \in Seq(DepthUpdate) /\ tail \in 0 .. now \cup {None}
    BY DEF FeedInv, FeedTypeOK
  <1>5. \A f \in 1 .. now : \A l \in f .. now : Diff(f, l)' = Diff(f, l)
    BY <1>1, SameHistory, DepthFeedAssumption DEF FeedTypeOK
  <1>2. CASE BridgeDiff
    <2> DEFINE d == Head(buffer)
    <2>1. /\ status = "Bridging" /\ status' = "Bridging" /\ buffer # << >>
          /\ Straddles(d, Expected) /\ book' = ApplyDiff(book, d)
          /\ buffer' = Tail(buffer) /\ outcome' = outcome
      BY <1>2 DEF BridgeDiff
    <2>2. 1 \in 1 .. Len(buffer) /\ d = buffer[1] /\ Len(buffer) \in Nat
      BY <1>1, <2>1
    <2>12. PICK first \in 1 .. now : \E final \in first .. now : d = Diff(first, final)
      BY <2>2 DEF FeedInv, BufferHonest, Honest
    <2>3. PICK final \in first .. now : d = Diff(first, final)
      BY <2>12
    <2>13. d.final_update_id = final
      BY <2>3 DEF Diff
    <2>4. book.last_update_id \in 0 .. now /\ book.levels = hist[book.last_update_id]
      BY <2>1 DEF FeedInv, BookHonest
    <2>5. book' \in Book /\ book'.levels = hist[final] /\ book'.last_update_id = final
      <3> HIDE DEF d
      <3> QED
        BY <1>1, <2>1, <2>3, <2>4, DiffAdvances
    <2>6. /\ buffer' \in Seq(DepthUpdate) /\ Len(buffer') = Len(buffer) - 1
          /\ \A j \in 1 .. Len(buffer') : buffer'[j] = buffer[j + 1]
      BY <1>1, <2>1
    <2>7. FeedTypeOK'
      BY <1>1, <2>1, <2>5, <2>6 DEF FeedTypeOK
    <2>8. BufferHonest'
      <3> SUFFICES ASSUME NEW j \in 1 .. Len(buffer') PROVE Honest(buffer[j])'
        BY DEF BufferHonest
      <3>1. j + 1 \in 1 .. Len(buffer) /\ buffer'[j] = buffer[j + 1]
        BY <2>2, <2>6
      <3>2. Honest(buffer'[j])
        BY <3>1 DEF FeedInv, BufferHonest
      <3> QED
        BY <1>5, <3>2 DEF Honest
    <2>9. BookHonest'
      <3>1. final \in 0 .. now
        BY <1>1, <2>3, DepthFeedAssumption DEF FeedTypeOK
      <3> QED
        BY <2>5, <3>1 DEF BookHonest
    <2>10. TailHeld'
      <3>1. tail = buffer[Len(buffer)].final_update_id /\ tail # None
        BY <2>1 DEF FeedInv, TailHeld
      <3>2. CASE buffer' = << >>
        <4>1. Len(buffer) = 1
          BY <2>2, <2>6, <3>2
        <4> QED
          BY <2>1, <2>2, <2>5, <2>13, <3>1, <3>2, <4>1 DEF TailHeld
      <3>3. CASE buffer' # << >>
        <4>1. Len(buffer') \in 1 .. Len(buffer') /\ Len(buffer') + 1 = Len(buffer)
          BY <2>2, <2>6, <3>3
        <4>2. buffer'[Len(buffer')] = buffer[Len(buffer)]
          BY <2>6, <4>1
        <4> QED
          BY <3>1, <3>3, <4>2 DEF TailHeld
      <3> QED
        BY <3>2, <3>3
    <2>11. NothingLeft'
      BY <2>1 DEF FeedInv, NothingLeft
    <2> QED
      BY <2>7, <2>8, <2>9, <2>10, <2>11 DEF FeedInv
  <1>3. CASE BridgeGap
    BY <1>1, <1>3, StartOverKeeps DEF BridgeGap
  <1>4. CASE BridgeDone
    <2>1. /\ status = "Bridging" /\ status' = "Synced" /\ buffer = << >>
          /\ outcome' = "Ok" /\ UNCHANGED <<buffer, book>>
      BY <1>4 DEF BridgeDone
    <2>2. FeedTypeOK'
      BY <1>1, <2>1 DEF FeedTypeOK, Status, Outcome
    <2>3. BufferHonest'
      BY <2>1 DEF BufferHonest
    <2> QED
      BY <2>1, <2>2, <2>3 DEF FeedInv, BookHonest, TailHeld, NothingLeft
  <1> QED
    BY <1>2, <1>3, <1>4 DEF Bridge

LEMMA FeedInvNext == FeedInv /\ [Next]_vars => FeedInv'
  <1> SUFFICES ASSUME FeedInv, [Next]_vars PROVE FeedInv'
    OBVIOUS
  <1>1. CASE Publish
    BY <1>1, PublishKeeps
  <1>2. CASE DeliverDiff
    BY <1>2, DiffKeeps
  <1>3. CASE DeliverSnapshot
    BY <1>3, SnapshotKeeps
  <1>4. CASE Bridge /\ UNCHANGED <<now, hist, tail>>
    BY <1>4, BridgeKeeps
  <1>5. CASE UNCHANGED vars
    <2>1. \A f \in 1 .. now : \A l \in f .. now : Diff(f, l)' = Diff(f, l)
      BY <1>5, SameHistory, DepthFeedAssumption DEF vars, FeedInv, FeedTypeOK
    <2>2. BufferHonest'
      BY <1>5, <2>1 DEF vars, FeedInv, BufferHonest, Honest
    <2> QED
      BY <1>5, <2>2 DEF vars, FeedInv, FeedTypeOK, BookHonest, TailHeld, NothingLeft
  <1> QED
    BY <1>1, <1>2, <1>3, <1>4, <1>5 DEF Next

LEMMA FeedInvAlways == Spec => []FeedInv
  BY FeedInvInit, FeedInvNext, PTL DEF Spec

(* reconciler.rs keeps its state, and marketbook.rs its maps, well typed:   *)
(* no level of quantity 0 is ever stored.                                  *)
THEOREM FeedTypeCorrect == Spec => []FeedTypeOK
  <1>1. FeedInv => FeedTypeOK
    BY DEF FeedInv
  <1> QED
    BY <1>1, FeedInvAlways, PTL

(* on_diff and on_snapshot never show a book the exchange did not have,     *)
(* whatever is lost, repeated, delayed or reordered on the way.            *)
THEOREM AlwaysMirrors == Spec => []MirrorsExchange
  <1>1. FeedInv => MirrorsExchange
    BY DEF FeedInv, BookHonest, MirrorsExchange
  <1> QED
    BY <1>1, FeedInvAlways, PTL

(* on_snapshot applies every buffered diff, so that the book it bridges     *)
(* stands where the stream of diffs stands.                                *)
THEOREM AlwaysAtTail == Spec => []StandsAtTail
  <1>1. FeedInv => StandsAtTail
    BY DEF FeedInv, TailHeld, NothingLeft, StandsAtTail
  <1> QED
    BY <1>1, FeedInvAlways, PTL

(* Each error path of on_diff and on_snapshot leaves an empty buffer and no *)
(* book.                                                                   *)
THEOREM ErrorsAlwaysStartAfresh == Spec => []ErrorsStartAfresh
  <1>1. FeedInv => ErrorsStartAfresh
    BY DEF FeedInv, NothingLeft, ErrorsStartAfresh
  <1> QED
    BY <1>1, FeedInvAlways, PTL
=============================================================================
