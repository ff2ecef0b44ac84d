---------------------------- MODULE TerminalProofs --------------------------
(***************************************************************************)
(* Theorems about Terminal and Ladder, for every capacity, backoff, history *)
(* of the exchange, depth of the view and width of a bar.                  *)
(***************************************************************************)
EXTENDS Ladder, TLAPS, SequenceTheorems, FiniteSums

(* A later time has a later id.                                            *)
LEMMA NanosOrder ==
    ASSUME NEW a \in Nat, NEW b \in Nat
    PROVE  /\ Nanos(a) \in Nat
           /\ a <= b => Nanos(a) <= Nanos(b)
           /\ a < b => Nanos(a) < Nanos(b)
           /\ Nanos(a) = Nanos(b) => a = b
  <1>1. NanosPerMilli \in Nat /\ NanosPerMilli >= 1
    BY AdapterAssumption
  <1>2. a < b => Nanos(a) < Nanos(b)
    <2>1. SUFFICES ASSUME a < b PROVE a * NanosPerMilli < b * NanosPerMilli
      BY DEF Nanos
    <2>2. (b - a) * NanosPerMilli >= 1
      BY <1>1, <2>1
    <2>3. b * NanosPerMilli = a * NanosPerMilli + (b - a) * NanosPerMilli
      BY <1>1
    <2> QED
      BY <1>1, <2>2, <2>3
  <1>3. ASSUME b < a PROVE Nanos(b) < Nanos(a)
    <2>2. (a - b) * NanosPerMilli >= 1
      BY <1>1, <1>3
    <2>3. a * NanosPerMilli = b * NanosPerMilli + (a - b) * NanosPerMilli
      BY <1>1
    <2> QED
      BY <1>1, <2>2, <2>3 DEF Nanos
  <1>4. Nanos(a) \in Nat /\ Nanos(b) \in Nat
    BY <1>1 DEF Nanos
  <1> QED
    BY <1>2, <1>3, <1>4

-----------------------------------------------------------------------------
(* What a text of the exchange becomes                                     *)
LEMMA ParsedLevel ==
    ASSUME NEW text \in Text
    PROVE  ParseLevel(text) \in Qty \cup {0, None}
  BY DEF ParseLevel, Text

(* The book of a time as the receive task gets it, as the reconciler keeps  *)
(* it and as it is viewed.                                                 *)
LEMMA BookOfTime ==
    ASSUME NEW n \in 1 .. MaxTime
    PROVE  /\ BookMessage(n).kind = "Diff"
           /\ BookMessage(n).update.final_update_id = Nanos(n)
           /\ ParseMessage(L2Book(n, BookAt[n])) = BookMessage(n)
           /\ ApplySnapshot(SnapshotOf(BookMessage(n).update)) \in Book
           /\ ApplySnapshot(SnapshotOf(BookMessage(n).update)).last_update_id = Nanos(n)
  <1>1. n \in Nat /\ Nanos(n) \in Nat
    BY NanosOrder, ClientAssumption
  <1>2. BookAt[n] \in Quote
    BY ClientAssumption
  <1> DEFINE message == BookMessage(n)
             parsed == [s \in Side |-> [p \in Price |-> ParseLevel(BookAt[n][s][p])]]
  <1>3. /\ message.kind = "Diff"
        /\ message.update.final_update_id = Nanos(n)
        /\ message.update.levels = parsed
    BY DEF BookMessage, ParseBook, RawDiff
  <1>4. ParseMessage(L2Book(n, BookAt[n])) = message
    BY DEF ParseMessage, L2Book, BookMessage
  <1>5. \A s \in Side, p \in Price : parsed[s][p] \in Qty \cup {0, None}
    BY <1>2, ParsedLevel DEF Quote
  <1> DEFINE kept == [s \in Side |-> [p \in Price |->
                        IF parsed[s][p] = 0 THEN None ELSE parsed[s][p]]]
  <1>6. kept \in Depth
    <2> HIDE DEF parsed
    <2> QED
      BY <1>5 DEF Depth
  <1>7. ApplySnapshot(SnapshotOf(message.update))
            = [levels |-> kept, last_update_id |-> Nanos(n)]
    BY <1>3 DEF ApplySnapshot, SnapshotOf
  <1> QED
    BY <1>1, <1>3, <1>4, <1>6, <1>7 DEF Book

(* A view lists some of the levels it is made from.                        *)
LEMMA ViewTyped ==
    ASSUME NEW id, NEW levels \in Depth
    PROVE  /\ SyncedView(id, levels).levels \in Depth
           /\ SyncedView(id, levels).last_update_id = id
           /\ SyncedView(id, levels).is_synced = TRUE
           /\ SyncedView(id, levels)
                = [is_synced |-> TRUE, last_update_id |-> id,
                   levels |-> SyncedView(id, levels).levels]
  BY DEF SyncedView, BestLevels, Depth

LEMMA ViewOfTimeTyped ==
    ASSUME NEW n \in 1 .. MaxTime
    PROVE  /\ ViewOfTime(n).last_update_id = Nanos(n)
           /\ ViewOfTime(n).levels \in Depth
           /\ ViewOfTime(n) = [is_synced |-> TRUE, last_update_id |-> Nanos(n),
                               levels |-> ViewOfTime(n).levels]
  <1>1. ApplySnapshot(SnapshotOf(BookMessage(n).update)).levels \in Depth
    BY BookOfTime DEF Book
  <1> QED
    BY <1>1, ViewTyped DEF ViewOfTime

LEMMA BlankTyped ==
    /\ BlankView = [is_synced |-> FALSE, last_update_id |-> 0, levels |-> NoDepth]
    /\ NoDepth \in Depth
    /\ EmptyBook \in Book
    /\ EmptyBook.last_update_id = 0
  BY DEF BlankView, NoDepth, Depth, EmptyBook, Book

-----------------------------------------------------------------------------
(* Payloads that carry a book, messages that do, and the ids they bear.    *)
Carries(payload) == payload.channel = "l2Book"
IsBook(message) == message.kind = "Diff"
IdOf(message) == message.update.final_update_id

LEMMA MessageIs ==
    ASSUME now \in 0 .. MaxTime, NEW m \in Message
    PROVE  /\ IsMessage(m) /\ m # Nothing
           /\ IsBook(m) => \E n \in 1 .. now : m = BookMessage(n)
  <1>1. ASSUME NEW n \in 1 .. now, m = BookMessage(n)
        PROVE  IsMessage(m) /\ m # Nothing
    <2>1. m.kind = "Diff"
      BY <1>1, BookOfTime, ClientAssumption
    <2> QED
      BY <2>1 DEF IsMessage, Nothing
  <1>2. ASSUME NEW n \in 0 .. now, m = RawTrade(n)
        PROVE  IsMessage(m) /\ m # Nothing /\ ~IsBook(m)
    BY <1>2 DEF IsMessage, Nothing, RawTrade, IsBook
  <1> QED
    BY <1>1, <1>2 DEF Message

LEMMA PayloadIs ==
    ASSUME now \in 0 .. MaxTime, NEW x \in Payload
    PROVE  /\ Carries(x) => /\ x.time \in 1 .. now
                            /\ x = L2Book(x.time, BookAt[x.time])
                            /\ ParseMessage(x) = BookMessage(x.time)
                            /\ IsMessage(ParseMessage(x))
                            /\ IdOf(ParseMessage(x)) = Nanos(x.time)
           /\ ~Carries(x) => ~IsBook(ParseMessage(x))
           /\ IsMessage(ParseMessage(x)) => ParseMessage(x) \in Message
  <1>1. ASSUME NEW n \in 1 .. now, x = L2Book(n, BookAt[n])
        PROVE  /\ x.time = n /\ x.time \in 1 .. now
               /\ x = L2Book(x.time, BookAt[x.time])
               /\ ParseMessage(x) = BookMessage(n)
               /\ IsMessage(ParseMessage(x))
               /\ IdOf(ParseMessage(x)) = Nanos(n)
               /\ Carries(x) /\ ParseMessage(x) \in Message
    <2>1. n \in 1 .. MaxTime
      BY ClientAssumption
    <2>2. x.time = n /\ Carries(x)
      BY <1>1 DEF L2Book, Carries
    <2>3. ParseMessage(x) = BookMessage(n)
      BY <1>1, <2>1, BookOfTime
    <2>4. BookMessage(n).kind = "Diff" /\ IdOf(BookMessage(n)) = Nanos(n)
      BY <2>1, BookOfTime DEF IdOf
    <2>5. BookMessage(n) \in Message
      BY DEF Message
    <2> QED
      BY <1>1, <2>2, <2>3, <2>4, <2>5 DEF IsMessage
  <1>2. ASSUME x \in {Noise, Malformed}
        PROVE  ~Carries(x) /\ ~IsMessage(ParseMessage(x)) /\ ~IsBook(ParseMessage(x))
    <2>1. CASE x = Noise
      <3>1. x.channel = "noise"
        BY <2>1 DEF Noise
      <3>2. ParseMessage(x) = Nothing
        BY <3>1 DEF ParseMessage
      <3> QED
        BY <3>1, <3>2 DEF Carries, IsMessage, IsBook, Nothing
    <2>2. CASE x = Malformed
      <3>1. x.channel = "malformed"
        BY <2>2 DEF Malformed
      <3>2. ParseMessage(x) = ParseError
        BY <3>1 DEF ParseMessage
      <3> QED
        BY <3>1, <3>2 DEF Carries, IsMessage, IsBook, ParseError
    <2> QED
      BY <1>2, <2>1, <2>2
  <1>3. ASSUME NEW n \in 0 .. now, NEW d \in TradeBatches, x = Trades(n, d)
        PROVE  /\ ~Carries(x) /\ ~IsBook(ParseMessage(x))
               /\ IsMessage(ParseMessage(x)) => ParseMessage(x) \in Message
    <2>1. x.channel = "trades" /\ x.time = n /\ x.data = d
      BY <1>3 DEF Trades
    <2>2. ParseMessage(x) = ParseTrades(n, d)
      BY <2>1 DEF ParseMessage
    <2>3. ParseTrades(n, d) \in {Nothing, ParseError, RawTrade(n)}
      BY DEF ParseTrades
    <2>4. RawTrade(n) \in Message
      BY DEF Message
    <2> QED
      BY <2>1, <2>2, <2>3, <2>4
      DEF Carries, IsMessage, IsBook, Nothing, ParseError, RawTrade
  <1> QED
    BY <1>1, <1>2, <1>3 DEF Payload

-----------------------------------------------------------------------------
(* Types; and what the composition makes of the parts: the client holds a   *)
(* message only while it sends it, and the reconciler, which is only given *)
(* snapshots, never buffers.                                               *)
TypeInv ==
    /\ TerminalTypeOK
    /\ task = "sending" => pending \in Message
    /\ task # "sending" => pending = Nothing
    /\ buffer = << >>
    /\ status \in {"Buffering", "Synced"}

(* Book and view are those of one time, and the screen is not ahead.       *)
ShownInv ==
    /\ status = "Buffering" => book = EmptyBook /\ view = BlankView
    /\ status = "Synced" =>
        \E n \in 1 .. now :
            /\ book = ApplySnapshot(SnapshotOf(BookMessage(n).update))
            /\ view = ViewOfTime(n)
    /\ drawn = BlankView \/ \E n \in 1 .. now : drawn = ViewOfTime(n)
    /\ drawn.last_update_id <= view.last_update_id

(* From the reconciler back to the exchange, books are never older: in the  *)
(* channel, in the hands of the client and on the connection.              *)
ChannelInOrder ==
    /\ \A i, j \in DOMAIN channel :
        (i < j /\ IsBook(channel[i]) /\ IsBook(channel[j])) => IdOf(channel[i]) <= IdOf(channel[j])
    /\ \A i \in DOMAIN channel :
        IsBook(channel[i]) => book.last_update_id <= IdOf(channel[i])

PendingInOrder ==
    IsBook(pending) =>
        /\ book.last_update_id <= IdOf(pending)
        /\ \A i \in DOMAIN channel : IsBook(channel[i]) => IdOf(channel[i]) <= IdOf(pending)

WireInOrder ==
    /\ \A i, j \in DOMAIN wire :
        (i < j /\ Carries(wire[i]) /\ Carries(wire[j])) => wire[i].time <= wire[j].time
    /\ \A j \in DOMAIN wire :
        Carries(wire[j]) =>
            /\ book.last_update_id <= Nanos(wire[j].time)
            /\ IsBook(pending) => IdOf(pending) <= Nanos(wire[j].time)
            /\ \A i \in DOMAIN channel :
                IsBook(channel[i]) => IdOf(channel[i]) <= Nanos(wire[j].time)

OrderInv == ChannelInOrder /\ PendingInOrder /\ WireInOrder

(* What is left to undo, and how often something failed.                   *)
ScreenInv ==
    /\ main \in {"init", "running", "failed", "cleanup"} => faults = 0
    /\ main = "running" => call = "raw"
    /\ main \in Cleaning =>
        /\ call \in {"raw", "alternate", "cursor"}
        /\ call # "raw" => raw = FALSE
        /\ call = "cursor" => alternate = FALSE
    /\ (main = "drop" /\ faults = 0) => screen = <<FALSE, FALSE, FALSE>>
    /\ Restored

-----------------------------------------------------------------------------
(* The wait stays within its bounds.                                       *)
LEMMA NextBackoffFits ==
    ASSUME NEW b \in MinBackoff .. MaxBackoff
    PROVE  NextBackoff(b) \in MinBackoff .. MaxBackoff
  <1>1. /\ MinBackoff \in Nat /\ MaxBackoff \in Nat /\ MinBackoff <= MaxBackoff
        /\ Multiplier \in Nat /\ Multiplier >= 1
    BY ClientAssumption
  <1>2. b \in Nat /\ Multiplier - 1 \in Nat
    BY <1>1
  <1>3. b * (Multiplier - 1) \in Nat
    BY <1>2
  <1>4. b * Multiplier = b + b * (Multiplier - 1)
    BY <1>1, <1>2
  <1>5. b * Multiplier \in Nat /\ b * Multiplier >= b
    BY <1>2, <1>3, <1>4
  <1> HIDE DEF NextBackoff
  <1>6. NextBackoff(b) \in {b * Multiplier, MaxBackoff} /\ NextBackoff(b) <= MaxBackoff
    BY <1>1, <1>5 DEF NextBackoff
  <1> QED
    BY <1>1, <1>2, <1>5, <1>6

LEMMA DelayInit == Init => DelayFits
  BY ClientAssumption DEF Init, ClientInit, DelayFits

LEMMA DelayStep == DelayFits /\ [Next]_vars => DelayFits'
  <1> SUFFICES ASSUME DelayFits, [Next]_vars PROVE DelayFits'
    OBVIOUS
  <1> USE DEF DelayFits
  <1>1. MinBackoff \in MinBackoff .. MaxBackoff
    BY ClientAssumption
  <1>2. CASE Subscribed
    BY <1>1, <1>2 DEF Subscribed
  <1>3. CASE Retry
    BY <1>3, NextBackoffFits DEF Retry
  <1>4. CASE Connected \/ ConnectFailed \/ SubscribeFailed \/ StreamEnds
    BY <1>4 DEF Connected, ConnectFailed, SubscribeFailed, StreamEnds
  <1>5. CASE ReadMessage \/ ReadNothing \/ Send
    BY <1>5 DEF ReadMessage, ReadNothing, Send, cvars
  <1>6. CASE ClientEnds
    BY <1>6 DEF ClientEnds
  <1>7. CASE UNCHANGED <<task, backoff>>
    BY <1>7
  <1>8. NetworkStep => UNCHANGED <<task, backoff>>
    BY DEF NetworkStep, PushBook, PushOther, HangUp, cvars
  <1>9. ReceiveStep => UNCHANGED <<task, backoff>>
    BY DEF ReceiveStep, ReceiveDiff, ReceiveTrade
  <1>10. DropReceiveTask \/ Exit => UNCHANGED <<task, backoff>>
    BY DEF DropReceiveTask, Exit, cvars
  <1> QED
    BY <1>2, <1>3, <1>4, <1>5, <1>6, <1>7, <1>8, <1>9, <1>10
    DEF Next, ClientStep, SendFails, RuntimeStep, DropClientTask, Exited, vars, cvars

(* However often connecting fails, however long connections last.          *)
THEOREM DelayBounded == Spec => []DelayFits
  <1> QED
    BY DelayInit, DelayStep, PTL DEF Spec

-----------------------------------------------------------------------------
(* Only steps of the main task and its end touch the terminal.             *)
LEMMA ScreenInit == Init => ScreenInv
  BY DEF Init, ScreenInv, Cleaning, Restored

LEMMA OtherStepsLeaveScreen ==
    ASSUME \/ (ClientStep \/ NetworkStep) /\ UNCHANGED <<rvars, uvars>>
           \/ ReceiveStep \/ DropReceiveTask \/ DropClientTask
    PROVE  UNCHANGED <<main, call, screen, faults>>
  BY DEF uvars, ReceiveStep, ReceiveDiff, ReceiveTrade, DropReceiveTask, DropClientTask

LEMMA ScreenStep == faults \in Nat /\ ScreenInv /\ [Next]_vars => ScreenInv'
  <1> SUFFICES ASSUME faults \in Nat, ScreenInv, [Next]_vars PROVE ScreenInv'
    OBVIOUS
  <1> USE DEF ScreenInv, Restored, Cleaning, screen
  <1>1. CASE UNCHANGED <<main, call, screen, faults>>
    BY <1>1
  <1>2. CASE InitStep
    BY <1>2 DEF InitStep, EnableRaw, EnterAlternate, NewTerminal, InitFails
  <1>3. CASE Draw
    BY <1>3 DEF Draw
  <1>4. Fault => faults' # 0 /\ (faults' <= 1 => faults = 0)
    BY TerminalAssumption DEF Fault
  <1>5. CASE DrawFails
    BY <1>4, <1>5 DEF DrawFails
  <1>6. CASE Quit
    BY <1>6 DEF Quit
  <1>7. CASE DisableRaw
    BY <1>7 DEF DisableRaw
  <1>8. CASE LeaveAlternate
    BY <1>8 DEF LeaveAlternate
  <1>9. CASE ShowCursor
    BY <1>9 DEF ShowCursor, CleanupReturns
  <1>10. CASE CleanupFails
    <2>1. CASE main = "cleanup"
      BY <1>4, <1>10, <2>1 DEF CleanupFails, CleanupReturns
    <2>2. CASE main = "drop"
      BY <1>4, <1>10, <2>2 DEF CleanupFails, CleanupReturns
    <2> QED
      BY <1>10, <2>1, <2>2 DEF CleanupFails
  <1>11. CASE Exit
    BY <1>11 DEF Exit, ShutDown
  <1> QED
    BY <1>1, <1>2, <1>3, <1>5, <1>6, <1>7, <1>8, <1>9, <1>10, <1>11, OtherStepsLeaveScreen
    DEF Next, MainStep, CleanupStep, RuntimeStep, Exited, vars, uvars

-----------------------------------------------------------------------------
(* Types, of what is on its way and of what has arrived.                   *)
OnTheWayTyped ==
    /\ task \in Task /\ backoff \in Nat /\ receiver \in BOOLEAN /\ link \in BOOLEAN
    /\ task = "sending" => pending \in Message
    /\ task # "sending" => pending = Nothing
    /\ channel \in Seq(Message) /\ Len(channel) <= Capacity
    /\ wire \in Seq(Payload)
    /\ now \in 0 .. MaxTime /\ lost \in SUBSET (1 .. now)

ArrivedTyped ==
    /\ buffer = << >> /\ status \in {"Buffering", "Synced"}
    /\ book \in Book
    /\ view \in View /\ drawn \in View
    /\ main \in Main /\ call \in {"raw", "alternate", "new", "cursor"}
    /\ raw \in BOOLEAN /\ alternate \in BOOLEAN /\ hidden \in BOOLEAN
    /\ faults \in 0 .. MaxFaults

LEMMA TypeInvSplits == TypeInv <=> OnTheWayTyped /\ ArrivedTyped
  BY DEF TypeInv, TerminalTypeOK, OnTheWayTyped, ArrivedTyped

LEMMA TypeInvSplitsNext == TypeInv' <=> OnTheWayTyped' /\ ArrivedTyped'
  BY DEF TypeInv, TerminalTypeOK, OnTheWayTyped, ArrivedTyped

LEMMA TypeInit == Init => TypeInv
  <1> SUFFICES ASSUME Init PROVE OnTheWayTyped /\ ArrivedTyped
    BY TypeInvSplits
  <1>1. OnTheWayTyped
    <2>1. << >> \in Seq(Message) /\ << >> \in Seq(Payload) /\ Len(<< >>) = 0
      BY EmptySeq
    <2>2. /\ task = "connecting" /\ backoff = MinBackoff /\ pending = Nothing
          /\ channel = << >> /\ receiver = TRUE /\ link = FALSE
          /\ wire = << >> /\ now = 0 /\ lost = {}
      BY DEF Init, ClientInit
    <2>3. receiver \in BOOLEAN /\ link \in BOOLEAN
      BY <2>2
    <2>4. task \in Task /\ task # "sending"
      BY <2>2 DEF Task
    <2>5. backoff \in Nat /\ now \in 0 .. MaxTime /\ Len(channel) <= Capacity
      BY <2>1, <2>2, ClientAssumption
    <2> QED
      BY <2>1, <2>2, <2>3, <2>4, <2>5 DEF OnTheWayTyped
  <1>2. BlankView \in View
    BY BlankTyped DEF View
  <1>3. ArrivedTyped
    <2>1. raw \in BOOLEAN /\ alternate \in BOOLEAN /\ hidden \in BOOLEAN
      BY DEF Init
    <2>2. faults \in 0 .. MaxFaults
      BY TerminalAssumption DEF Init
    <2>3. main \in Main /\ call \in {"raw", "alternate", "new", "cursor"}
      BY DEF Init, Main
    <2>4. view \in View /\ drawn \in View
      BY <1>2 DEF Init
    <2>5. buffer = << >> /\ status \in {"Buffering", "Synced"} /\ book \in Book
      BY BlankTyped DEF Init, ReconcilerInit
    <2> QED
      BY <2>1, <2>2, <2>3, <2>4, <2>5 DEF ArrivedTyped
  <1> QED
    BY <1>1, <1>3

(* The exchange's clock only moves on, and nothing typed goes out of type.  *)
LEMMA TimeMovesOn ==
    ASSUME now \in 0 .. MaxTime, [Next]_vars
    PROVE  now' \in 0 .. MaxTime /\ now <= now'
  <1>1. PushBook => now' \in 0 .. MaxTime /\ now <= now'
    BY ClientAssumption DEF PushBook
  <1>2. now \in Nat
    BY ClientAssumption
  <1>3. UNCHANGED now => now' \in 0 .. MaxTime /\ now <= now'
    BY <1>2
  <1>4. ClientStep => UNCHANGED now
    BY DEF ClientStep, Connected, ConnectFailed, Subscribed, SubscribeFailed, Retry,
           ReadMessage, ReadNothing, StreamEnds, Send, SendFails, ClientEnds, nvars
  <1>5. PushOther \/ HangUp \/ ReceiveStep \/ RuntimeStep => UNCHANGED now
    BY DEF PushOther, HangUp, ReceiveStep, ReceiveDiff, ReceiveTrade, RuntimeStep,
           DropReceiveTask, DropClientTask, ClientEnds, Exit, nvars
  <1> QED
    BY <1>1, <1>3, <1>4, <1>5 DEF Next, NetworkStep, Exited, vars, nvars

LEMMA TypesGrow ==
    ASSUME now \in 0 .. MaxTime, now' \in 0 .. MaxTime, now <= now'
    PROVE  /\ Message \subseteq Message' /\ Payload \subseteq Payload' /\ View \subseteq View'
           /\ Seq(Message) \subseteq Seq(Message') /\ Seq(Payload) \subseteq Seq(Payload')
           /\ SUBSET (1 .. now) \subseteq SUBSET (1 .. now')
  <1>1. 1 .. now \subseteq 1 .. now' /\ 0 .. now \subseteq 0 .. now'
    BY ClientAssumption
  <1>2. Message \subseteq Message'
    BY <1>1 DEF Message
  <1>3. Payload \subseteq Payload'
    BY <1>1 DEF Payload
  <1>4. View \subseteq View'
    BY <1>1 DEF View
  <1>5. ASSUME NEW S, NEW T, S \subseteq T PROVE Seq(S) \subseteq Seq(T)
    BY <1>5, SeqMonotonic
  <1> HIDE DEF Message, Payload
  <1> QED
    BY <1>1, <1>2, <1>3, <1>4, <1>5

(* What the receive task gets, and what becomes of it.                     *)
LEMMA Receives ==
    ASSUME TypeInv, ReceiveDiff
    PROVE  \E n \in 1 .. now :
               /\ Head(channel) = BookMessage(n)
               /\ book' = ApplySnapshot(SnapshotOf(BookMessage(n).update))
               /\ status' = "Synced" /\ buffer' = buffer
               /\ view' = ViewOfTime(n)
  <1>1. Head(channel) \in Message
    BY HeadTailProperties DEF TypeInv, TerminalTypeOK, ReceiveDiff
  <1>2. PICK n \in 1 .. now : Head(channel) = BookMessage(n)
    BY <1>1, MessageIs DEF TypeInv, TerminalTypeOK, ReceiveDiff, IsBook
  <1>3. n \in 1 .. MaxTime
    BY ClientAssumption DEF TypeInv, TerminalTypeOK
  <1> DEFINE snapshot == SnapshotOf(BookMessage(n).update)
  <1>4. OnSnapshot(snapshot)
    BY <1>2 DEF ReceiveDiff
  <1>5. DOMAIN buffer = {}
    BY DEF TypeInv
  <1>6. ~RefuseSnapshot(snapshot) /\ ~StartBridge(snapshot)
    BY <1>5 DEF TypeInv, RefuseSnapshot, StartBridge
  <1>7. book' = ApplySnapshot(snapshot) /\ status' = "Synced" /\ buffer' = buffer
    BY <1>4, <1>6 DEF OnSnapshot, ReplaceBook, SyncDirectly
  <1>8. view' = ViewOfTime(n)
    <2>1. view' = SyncedView(book'.last_update_id, book'.levels)
      BY <1>7 DEF ReceiveDiff, PublishView
    <2>2. book'.last_update_id = Nanos(n)
      BY <1>3, <1>7, BookOfTime
    <2> QED
      BY <1>7, <2>1, <2>2 DEF ViewOfTime
  <1> QED
    BY <1>2, <1>7, <1>8

LEMMA TypeStepOnTheWay ==
    ASSUME TypeInv, [Next]_vars
    PROVE  OnTheWayTyped'
  <1>1. OnTheWayTyped
    BY TypeInvSplits
  <1>2. now \in 0 .. MaxTime /\ now' \in 0 .. MaxTime /\ now <= now'
    BY <1>1, TimeMovesOn DEF OnTheWayTyped
  <1>3. /\ Message \subseteq Message' /\ Payload \subseteq Payload'
        /\ Seq(Message) \subseteq Seq(Message') /\ Seq(Payload) \subseteq Seq(Payload')
        /\ SUBSET (1 .. now) \subseteq SUBSET (1 .. now')
    BY <1>2, TypesGrow
  <1>4. CASE UNCHANGED <<cvars, nvars>>
    BY <1>1, <1>4 DEF OnTheWayTyped, cvars, nvars, Message, Payload
  <1>5. ASSUME UNCHANGED <<pending, channel, receiver, wire, now, lost>>,
               task # "sending", task' \in Task \ {"sending"}, backoff' \in Nat, link' \in BOOLEAN
        PROVE  OnTheWayTyped'
    BY <1>1, <1>5 DEF OnTheWayTyped, Message, Payload
  <1>6. CASE Connected \/ ConnectFailed \/ SubscribeFailed \/ StreamEnds
    BY <1>1, <1>5, <1>6
    DEF Connected, ConnectFailed, SubscribeFailed, StreamEnds, OnTheWayTyped, Task, nvars
  <1>7. CASE Subscribed
    BY <1>1, <1>5, <1>7, ClientAssumption DEF Subscribed, OnTheWayTyped, Task
  <1>8. CASE Retry
    <2>1. NextBackoff(backoff) \in Nat
      <3>1. backoff * Multiplier \in Nat
        BY <1>1, ClientAssumption DEF OnTheWayTyped
      <3> QED
        BY <3>1, ClientAssumption DEF NextBackoff
    <2> QED
      BY <1>1, <1>5, <1>8, <2>1 DEF Retry, OnTheWayTyped, Task, nvars
  <1>9. CASE ReadMessage
    <2>1. Head(wire) \in Payload /\ Tail(wire) \in Seq(Payload)
      BY <1>1, <1>9, HeadTailProperties DEF ReadMessage, OnTheWayTyped
    <2>2. ParseMessage(Head(wire)) \in Message
      BY <1>2, <1>9, <2>1, PayloadIs DEF ReadMessage
    <2>3. task' = "sending" /\ pending' \in Message' /\ wire' \in Seq(Payload')
      BY <1>3, <1>9, <2>1, <2>2 DEF ReadMessage
    <2> QED
      BY <1>1, <1>3, <1>9, <2>3 DEF ReadMessage, OnTheWayTyped, Task
  <1>10. CASE ReadNothing
    <2>1. wire' \in Seq(Payload')
      BY <1>1, <1>3, <1>10, HeadTailProperties DEF ReadNothing, OnTheWayTyped
    <2> QED
      BY <1>1, <1>3, <1>10, <2>1 DEF ReadNothing, OnTheWayTyped, cvars
  <1>11. CASE Send
    <2>1. Append(channel, pending) \in Seq(Message) /\ Len(Append(channel, pending)) = Len(channel) + 1
      BY <1>1, <1>11, AppendProperties DEF Send, OnTheWayTyped
    <2>2. Len(channel) \in Nat
      BY <1>1, LenProperties DEF OnTheWayTyped
    <2>3. channel' \in Seq(Message') /\ Len(channel') <= Capacity
      BY <1>3, <1>11, <2>1, <2>2, ClientAssumption DEF Send
    <2>4. task' = "reading" /\ task' \in Task /\ task' # "sending"
      BY <1>11 DEF Send, Task
    <2> QED
      BY <1>1, <1>3, <1>11, <2>3, <2>4 DEF Send, OnTheWayTyped, nvars
  <1>12. CASE ClientEnds
    <2>1. wire' \in Seq(Payload')
      BY <1>12, EmptySeq DEF ClientEnds
    <2>2. task' \in Task /\ task' # "sending" /\ link' \in BOOLEAN
      BY <1>12 DEF ClientEnds, Task
    <2> QED
      BY <1>1, <1>3, <1>12, <2>1, <2>2 DEF ClientEnds, OnTheWayTyped
  <1>13. CASE PushBook
    <2>1. PICK n \in {now, now + 1} \cap (1 .. MaxTime) :
            now' = n /\ wire' = Append(wire, L2Book(n, BookAt[n]))
      BY <1>13 DEF PushBook
    <2>2. n \in 1 .. now'
      BY <2>1, ClientAssumption
    <2>3. L2Book(n, BookAt[n]) \in Payload'
      BY <2>2 DEF Payload
    <2>4. wire \in Seq(Payload')
      BY <1>1, <1>3 DEF OnTheWayTyped
    <2>5. wire' \in Seq(Payload')
      BY <2>1, <2>3, <2>4, AppendProperties
    <2> QED
      BY <1>1, <1>2, <1>3, <1>13, <2>5 DEF PushBook, OnTheWayTyped, cvars
  <1>14. CASE PushOther
    <2>1. PICK x \in {Noise, Malformed} \cup {Trades(now, d) : d \in TradeBatches} :
            wire' = Append(wire, x)
      BY <1>14 DEF PushOther
    <2>2. now \in 0 .. now
      BY <1>2, ClientAssumption
    <2>3. x \in Payload
      BY <2>1, <2>2 DEF Payload
    <2>4. wire' \in Seq(Payload')
      BY <1>1, <1>3, <2>1, <2>3, AppendProperties DEF OnTheWayTyped
    <2> QED
      BY <1>1, <1>3, <1>14, <2>4 DEF PushOther, OnTheWayTyped, cvars
  <1>15. CASE HangUp
    <2>1. PICK arriving \in 0 .. Len(wire) :
            /\ wire' = SubSeq(wire, 1, arriving)
            /\ lost' = lost \cup BookTimes(SubSeq(wire, arriving + 1, Len(wire)))
      BY <1>15 DEF HangUp
    <2>2. Len(wire) \in Nat /\ \A i \in 1 .. Len(wire) : wire[i] \in Payload
      BY <1>1, LenProperties, ElementOfSeq DEF OnTheWayTyped
    <2>3. \A i \in 1 .. arriving : wire[i] \in Payload
      BY <2>2
    <2>4. SubSeq(wire, 1, arriving) \in Seq(Payload)
      BY <2>2, <2>3, SubSeqProperties
    <2>5. \A i \in arriving + 1 .. Len(wire) : wire[i] \in Payload
      BY <2>2
    <2>6. SubSeq(wire, arriving + 1, Len(wire)) \in Seq(Payload)
      BY <2>2, <2>5, SubSeqProperties
    <2>7. ASSUME NEW w \in Seq(Payload) PROVE BookTimes(w) \subseteq 1 .. now
      <3>1. \A i \in DOMAIN w : w[i] \in Payload
        BY <2>7, ElementOfSeq, LenProperties
      <3>2. \A i \in DOMAIN w : w[i].channel = "l2Book" => w[i].time \in 1 .. now
        BY <1>2, <3>1, PayloadIs DEF Carries
      <3> QED
        BY <3>2 DEF BookTimes
    <2>8. lost' \in SUBSET (1 .. now')
      BY <1>1, <1>3, <2>1, <2>6, <2>7 DEF OnTheWayTyped
    <2>9. wire' \in Seq(Payload') /\ link' \in BOOLEAN
      BY <1>3, <1>15, <2>1, <2>4 DEF HangUp
    <2> QED
      BY <1>1, <1>2, <1>3, <1>15, <2>8, <2>9 DEF HangUp, OnTheWayTyped, cvars
  <1>16. CASE ReceiveStep
    <2>1. /\ channel # << >> /\ channel' = Tail(channel)
          /\ UNCHANGED <<task, backoff, pending, receiver, nvars>>
      BY <1>16 DEF ReceiveStep, ReceiveDiff, ReceiveTrade
    <2>2. Tail(channel) \in Seq(Message) /\ Len(Tail(channel)) = Len(channel) - 1
      BY <1>1, <2>1, HeadTailProperties DEF OnTheWayTyped
    <2>3. Len(channel) \in Nat
      BY <1>1, LenProperties DEF OnTheWayTyped
    <2>4. channel' \in Seq(Message') /\ Len(channel') <= Capacity
      BY <1>1, <1>3, <2>1, <2>2, <2>3, ClientAssumption DEF OnTheWayTyped
    <2> QED
      BY <1>1, <1>3, <2>1, <2>4 DEF OnTheWayTyped, nvars
  <1>17. CASE DropReceiveTask
    <2>1. channel' = << >> /\ receiver' = FALSE
      BY <1>17 DEF DropReceiveTask
    <2>2. << >> \in Seq(Message)
      BY EmptySeq
    <2>3. channel' \in Seq(Message') /\ Len(channel') <= Capacity /\ receiver' \in BOOLEAN
      <3>1. Len(channel') = 0 /\ 0 <= Capacity
        BY <2>1, ClientAssumption
      <3> QED
        BY <1>3, <2>1, <2>2, <3>1
    <2> QED
      BY <1>1, <1>3, <1>17, <2>3 DEF DropReceiveTask, OnTheWayTyped, nvars
  <1>18. (MainStep /\ UNCHANGED <<cvars, nvars, rvars>>) \/ Exit \/ UNCHANGED vars
            => UNCHANGED <<cvars, nvars>>
    BY DEF Exit, vars
  <1> QED
    BY <1>4, <1>6, <1>7, <1>8, <1>9, <1>10, <1>11, <1>12, <1>13, <1>14, <1>15, <1>16,
       <1>17, <1>18
    DEF Next, ClientStep, SendFails, NetworkStep, RuntimeStep, DropClientTask, Exited

LEMMA TypeStepArrived ==
    ASSUME TypeInv, [Next]_vars
    PROVE  ArrivedTyped'
  <1>1. ArrivedTyped /\ now \in 0 .. MaxTime
    BY TypeInvSplits DEF OnTheWayTyped
  <1>2. now' \in 0 .. MaxTime /\ now <= now'
    BY <1>1, TimeMovesOn
  <1>3. View \subseteq View'
    BY <1>1, <1>2, TypesGrow
  <1>4. CASE UNCHANGED <<rvars, uvars>>
    BY <1>1, <1>3, <1>4 DEF ArrivedTyped, rvars, uvars, screen
  <1>5. CASE ReceiveDiff
    <2>1. PICK n \in 1 .. now :
            /\ book' = ApplySnapshot(SnapshotOf(BookMessage(n).update))
            /\ status' = "Synced" /\ buffer' = buffer
            /\ view' = ViewOfTime(n)
      BY <1>5, Receives
    <2>2. n \in 1 .. MaxTime /\ n \in 1 .. now'
      BY <1>1, <1>2, ClientAssumption
    <2>3. book' \in Book
      BY <2>1, <2>2, BookOfTime
    <2>4. view' \in View'
      <3>1. PICK levels \in Depth :
                view' = [is_synced |-> TRUE, last_update_id |-> Nanos(n), levels |-> levels]
        BY <2>1, <2>2, ViewOfTimeTyped
      <3>2. Nanos(n) \in {0} \cup {Nanos(m) : m \in 1 .. now'}
        BY <2>2
      <3> QED
        BY <3>1, <3>2 DEF View
    <2> QED
      BY <1>1, <1>3, <1>5, <2>1, <2>3, <2>4 DEF ReceiveDiff, ArrivedTyped, screen
  <1>6. CASE MainStep /\ UNCHANGED <<cvars, nvars, rvars>>
    <2>1. UNCHANGED <<buffer, status, book, view>> /\ drawn' \in {drawn, view}
      BY <1>6 DEF MainStep, InitStep, EnableRaw, EnterAlternate, NewTerminal, InitFails, Draw,
                  DrawFails, Quit, CleanupStep, DisableRaw, LeaveAlternate, ShowCursor,
                  CleanupFails, rvars
    <2>2. /\ main' \in Main \cup {main}
          /\ call' \in {"raw", "alternate", "new", "cursor", call}
      BY <1>6 DEF MainStep, InitStep, EnableRaw, EnterAlternate, NewTerminal, InitFails, Draw,
                  DrawFails, Quit, CleanupStep, DisableRaw, LeaveAlternate, ShowCursor,
                  CleanupFails, CleanupReturns, Main, Cleaning
    <2>3. raw' \in {TRUE, FALSE, raw} /\ alternate' \in {TRUE, FALSE, alternate}
              /\ hidden' \in {TRUE, FALSE, hidden}
      BY <1>6 DEF MainStep, InitStep, EnableRaw, EnterAlternate, NewTerminal, InitFails, Draw,
                  DrawFails, Quit, CleanupStep, DisableRaw, LeaveAlternate, ShowCursor,
                  CleanupFails, screen
    <2>4. Fault \/ UNCHANGED faults
      BY <1>6 DEF MainStep, InitStep, EnableRaw, EnterAlternate, NewTerminal, InitFails, Draw,
                  DrawFails, Quit, CleanupStep, DisableRaw, LeaveAlternate, ShowCursor,
                  CleanupFails
    <2>5. faults' \in 0 .. MaxFaults
      BY <1>1, <2>4, TerminalAssumption DEF Fault, ArrivedTyped
    <2>6. raw' \in BOOLEAN /\ alternate' \in BOOLEAN /\ hidden' \in BOOLEAN
      BY <1>1, <2>3 DEF ArrivedTyped
    <2>7. view' \in View' /\ drawn' \in View'
      BY <1>1, <1>3, <2>1 DEF ArrivedTyped
    <2> QED
      BY <1>1, <2>1, <2>2, <2>5, <2>6, <2>7 DEF ArrivedTyped
  <1>7. CASE Exit
    BY <1>1, <1>3, <1>7 DEF Exit, ArrivedTyped, Main, rvars, screen
  <1> QED
    BY <1>4, <1>5, <1>6, <1>7
    DEF Next, ReceiveStep, ReceiveTrade, RuntimeStep, DropReceiveTask, DropClientTask, Exited, vars

LEMMA TypeStep == TypeInv /\ [Next]_vars => TypeInv'
  BY TypeStepOnTheWay, TypeStepArrived, TypeInvSplitsNext

(* Everything the program holds, sends and shows keeps its type; the        *)
(* channel never holds more than its capacity, and the reconciler, which    *)
(* only gets snapshots, never buffers.                                     *)
THEOREM TerminalTyped == Spec => []TerminalTypeOK
  <1>1. TypeInv => TerminalTypeOK
    BY DEF TypeInv
  <1> QED
    BY <1>1, TypeInit, TypeStep, PTL DEF Spec

(* One failing call of the terminal never leaves it other than it was      *)
(* found, wherever main was when it failed.                                *)
THEOREM TerminalRestored == Spec => []Restored
  <1>1. TypeInv => faults \in Nat
    BY TerminalAssumption DEF TypeInv, TerminalTypeOK
  <1>2. ScreenInv => Restored
    BY DEF ScreenInv
  <1> QED
    BY <1>1, <1>2, TypeInit, TypeStep, ScreenInit, ScreenStep, PTL DEF Spec

-----------------------------------------------------------------------------
(* The receive task moves on to a book that is not older than its own.     *)
LEMMA ReceivesNewer ==
    ASSUME TypeInv, OrderInv, ReceiveDiff
    PROVE  \E n \in 1 .. now :
               /\ Head(channel) = BookMessage(n) /\ IsBook(Head(channel))
               /\ IdOf(Head(channel)) = Nanos(n)
               /\ book' = ApplySnapshot(SnapshotOf(BookMessage(n).update))
               /\ book'.last_update_id = Nanos(n)
               /\ book.last_update_id <= book'.last_update_id
               /\ status' = "Synced" /\ view' = ViewOfTime(n)
  <1>1. PICK n \in 1 .. now :
            /\ Head(channel) = BookMessage(n)
            /\ book' = ApplySnapshot(SnapshotOf(BookMessage(n).update))
            /\ status' = "Synced" /\ view' = ViewOfTime(n)
    BY Receives
  <1>2. n \in 1 .. MaxTime
    BY ClientAssumption DEF TypeInv, TerminalTypeOK
  <1>3. IsBook(Head(channel)) /\ IdOf(Head(channel)) = Nanos(n)
    BY <1>1, <1>2, BookOfTime DEF IsBook, IdOf
  <1>4. book'.last_update_id = Nanos(n)
    BY <1>1, <1>2, BookOfTime
  <1>5. 1 \in DOMAIN channel /\ Head(channel) = channel[1]
    <2>1. channel \in Seq(Message) /\ channel # << >>
      BY DEF TypeInv, TerminalTypeOK, ReceiveDiff
    <2>2. DOMAIN channel = 1 .. Len(channel) /\ Len(channel) \in Nat /\ Len(channel) # 0
      BY <2>1, LenProperties, EmptySeq
    <2> QED
      BY <2>1, <2>2
  <1>6. book.last_update_id <= Nanos(n)
    BY <1>3, <1>5 DEF OrderInv, ChannelInOrder
  <1> QED
    BY <1>1, <1>3, <1>4, <1>6

LEMMA ShownInit == Init => ShownInv
  <1> SUFFICES ASSUME Init PROVE ShownInv
    OBVIOUS
  <1>1. status = "Buffering" /\ book = EmptyBook /\ view = BlankView /\ drawn = BlankView
    BY DEF Init, ReconcilerInit
  <1>2. BlankView.last_update_id = 0
    BY BlankTyped
  <1> QED
    BY <1>1, <1>2 DEF ShownInv

(* Book and view bear the same id.                                         *)
LEMMA ViewBearsBookId ==
    ASSUME TypeInv, ShownInv
    PROVE  view.last_update_id = book.last_update_id /\ book.last_update_id \in Nat
  <1>1. CASE status = "Buffering"
    BY <1>1, BlankTyped DEF ShownInv
  <1>2. CASE status = "Synced"
    <2>1. PICK n \in 1 .. now :
            book = ApplySnapshot(SnapshotOf(BookMessage(n).update)) /\ view = ViewOfTime(n)
      BY <1>2 DEF ShownInv
    <2>2. n \in 1 .. MaxTime /\ n \in Nat
      BY ClientAssumption DEF TypeInv, TerminalTypeOK
    <2> QED
      BY <2>1, <2>2, BookOfTime, ViewOfTimeTyped, NanosOrder
  <1> QED
    BY <1>1, <1>2 DEF TypeInv

LEMMA DrawnBearsId ==
    ASSUME TypeInv, ShownInv
    PROVE  drawn.last_update_id \in Nat
  <1>1. ASSUME NEW n \in 1 .. now, drawn = ViewOfTime(n)
        PROVE  drawn.last_update_id \in Nat
    <2>1. n \in 1 .. MaxTime /\ n \in Nat
      BY ClientAssumption DEF TypeInv, TerminalTypeOK
    <2> QED
      BY <1>1, <2>1, ViewOfTimeTyped, NanosOrder
  <1> QED
    BY <1>1, BlankTyped DEF ShownInv

LEMMA ShownStep == TypeInv /\ OrderInv /\ ShownInv /\ [Next]_vars => ShownInv'
  <1> SUFFICES ASSUME TypeInv, OrderInv, ShownInv, [Next]_vars PROVE ShownInv'
    OBVIOUS
  <1>1. now \in 0 .. MaxTime
    BY DEF TypeInv, TerminalTypeOK
  <1>2. now' \in 0 .. MaxTime /\ now <= now'
    BY <1>1, TimeMovesOn
  <1>3. 1 .. now \subseteq 1 .. now'
    BY <1>1, <1>2, ClientAssumption
  <1>4. CASE UNCHANGED <<status, book, view, drawn>>
    BY <1>3, <1>4 DEF ShownInv
  <1>5. CASE ReceiveDiff
    <2>1. PICK n \in 1 .. now :
            /\ book' = ApplySnapshot(SnapshotOf(BookMessage(n).update))
            /\ book'.last_update_id = Nanos(n)
            /\ book.last_update_id <= book'.last_update_id
            /\ status' = "Synced" /\ view' = ViewOfTime(n)
      BY <1>5, ReceivesNewer
    <2>2. drawn' = drawn
      BY <1>5 DEF ReceiveDiff
    <2>3. n \in 1 .. now' /\ n \in 1 .. MaxTime /\ n \in Nat
      BY <1>1, <1>3, ClientAssumption
    <2>4. view'.last_update_id = Nanos(n) /\ Nanos(n) \in Nat
      BY <2>1, <2>3, ViewOfTimeTyped, NanosOrder
    <2>5. drawn.last_update_id <= view'.last_update_id
      BY <2>1, <2>4, ViewBearsBookId, DrawnBearsId DEF ShownInv
    <2>6. drawn' = BlankView \/ \E m \in 1 .. now' : drawn' = ViewOfTime(m)
      BY <1>3, <2>2 DEF ShownInv
    <2> QED
      BY <2>1, <2>2, <2>3, <2>5, <2>6 DEF ShownInv
  <1>6. CASE Draw /\ UNCHANGED <<cvars, nvars, rvars>>
    <2>1. drawn' = view /\ UNCHANGED <<status, book, view>>
      BY <1>6 DEF Draw, rvars
    <2>2. view = BlankView \/ \E m \in 1 .. now' : view = ViewOfTime(m)
      BY <1>3 DEF ShownInv, TypeInv
    <2>3. drawn'.last_update_id <= view'.last_update_id
      BY <2>1, ViewBearsBookId
    <2> QED
      BY <1>3, <2>1, <2>2, <2>3 DEF ShownInv
  <1>7. MainStep /\ UNCHANGED <<cvars, nvars, rvars>> =>
            \/ Draw /\ UNCHANGED <<cvars, nvars, rvars>>
            \/ UNCHANGED <<status, book, view, drawn>>
    BY DEF MainStep, InitStep, EnableRaw, EnterAlternate, NewTerminal, InitFails, DrawFails, Quit,
           CleanupStep, DisableRaw, LeaveAlternate, ShowCursor, CleanupFails, rvars
  <1>8. ReceiveTrade \/ RuntimeStep \/ UNCHANGED vars
            \/ UNCHANGED <<rvars, uvars>> => UNCHANGED <<status, book, view, drawn>>
    BY DEF ReceiveTrade, RuntimeStep, DropReceiveTask, DropClientTask, Exit, vars, rvars, uvars
  <1> QED
    BY <1>4, <1>5, <1>6, <1>7, <1>8 DEF Next, ReceiveStep, Exited

-----------------------------------------------------------------------------
(* The ids of what is on its way are numbers, none ahead of the exchange.  *)
LEMMA IdsTyped ==
    ASSUME TypeInv
    PROVE  /\ now \in Nat /\ Nanos(now) \in Nat
           /\ \A m \in Message :
                IsBook(m) => IdOf(m) \in Nat /\ IdOf(m) <= Nanos(now)
           /\ \A x \in Payload :
                Carries(x) => /\ x.time \in Nat /\ x.time <= now
                              /\ Nanos(x.time) \in Nat /\ Nanos(x.time) <= Nanos(now)
           /\ ~IsBook(Nothing)
  <1>1. now \in 0 .. MaxTime /\ now \in Nat /\ 1 .. now \subseteq 1 .. MaxTime
    BY ClientAssumption DEF TypeInv, TerminalTypeOK
  <1>2. ASSUME NEW n \in 1 .. now
        PROVE  n \in Nat /\ n <= now /\ Nanos(n) \in Nat /\ Nanos(n) <= Nanos(now)
    BY <1>1, NanosOrder
  <1>3. ASSUME NEW m \in Message, IsBook(m)
        PROVE  IdOf(m) \in Nat /\ IdOf(m) <= Nanos(now)
    <2>1. PICK n \in 1 .. now : m = BookMessage(n)
      BY <1>1, <1>3, MessageIs
    <2> QED
      BY <1>1, <1>2, <2>1, BookOfTime DEF IdOf
  <1>4. ASSUME NEW x \in Payload, Carries(x)
        PROVE  x.time \in 1 .. now
    BY <1>1, <1>4, PayloadIs
  <1> QED
    BY <1>1, <1>2, <1>3, <1>4, NanosOrder DEF IsBook, Nothing

(* What the sequences hold, by their positions.                            *)
LEMMA ElementsTyped ==
    ASSUME TypeInv
    PROVE  /\ DOMAIN channel = 1 .. Len(channel) /\ Len(channel) \in Nat
           /\ DOMAIN wire = 1 .. Len(wire) /\ Len(wire) \in Nat
           /\ \A i \in DOMAIN channel : channel[i] \in Message
           /\ \A i \in DOMAIN wire : wire[i] \in Payload
           /\ pending \in Message \cup {Nothing}
  <1>1. channel \in Seq(Message) /\ wire \in Seq(Payload)
    BY DEF TypeInv, TerminalTypeOK
  <1>2. pending \in Message \cup {Nothing}
    BY DEF TypeInv, TerminalTypeOK
  <1> QED
    BY <1>1, <1>2, LenProperties, ElementOfSeq

LEMMA TailByPosition ==
    ASSUME NEW S, NEW s \in Seq(S), s # << >>
    PROVE  /\ 1 \in DOMAIN s /\ Head(s) = s[1]
           /\ \A i \in DOMAIN Tail(s) : /\ i \in Nat \ {0} /\ i + 1 \in DOMAIN s
                                        /\ Tail(s)[i] = s[i + 1]
           /\ \A i \in DOMAIN s : i = 1 \/ (i - 1 \in DOMAIN Tail(s) /\ s[i] = Tail(s)[i - 1])
  <1>1. DOMAIN s = 1 .. Len(s) /\ Len(s) \in Nat /\ Len(s) # 0
    BY LenProperties, EmptySeq
  <1>2. /\ Tail(s) \in Seq(S) /\ Len(Tail(s)) = Len(s) - 1
        /\ \A i \in 1 .. Len(Tail(s)) : Tail(s)[i] = s[i + 1]
    BY HeadTailProperties
  <1>3. DOMAIN Tail(s) = 1 .. Len(s) - 1
    BY <1>2, LenProperties
  <1>4. ASSUME NEW i \in DOMAIN s, i # 1
        PROVE  i - 1 \in DOMAIN Tail(s) /\ s[i] = Tail(s)[i - 1]
    <2>1. i - 1 \in 1 .. Len(Tail(s)) /\ (i - 1) + 1 = i
      BY <1>1, <1>2, <1>4
    <2>2. Tail(s)[i - 1] = s[(i - 1) + 1]
      BY <1>2, <2>1
    <2> QED
      BY <1>2, <1>3, <2>1, <2>2
  <1>5. 1 \in DOMAIN s /\ Head(s) = s[1]
    BY <1>1
  <1>6. \A i \in DOMAIN Tail(s) : i \in Nat \ {0} /\ i + 1 \in DOMAIN s /\ Tail(s)[i] = s[i + 1]
    BY <1>1, <1>2, <1>3
  <1> QED
    BY <1>4, <1>5, <1>6

LEMMA AppendByPosition ==
    ASSUME NEW S, NEW s \in Seq(S), NEW e \in S
    PROVE  /\ DOMAIN s = 1 .. Len(s) /\ Len(s) \in Nat
           /\ DOMAIN Append(s, e) = 1 .. Len(s) + 1
           /\ \A i \in DOMAIN Append(s, e) :
                \/ i \in DOMAIN s /\ Append(s, e)[i] = s[i]
                \/ i = Len(s) + 1 /\ Append(s, e)[i] = e
           /\ \A i \in DOMAIN s : i \in DOMAIN Append(s, e) /\ Append(s, e)[i] = s[i]
           /\ Append(s, e)[Len(s) + 1] = e
  <1>1. DOMAIN s = 1 .. Len(s) /\ Len(s) \in Nat
    BY LenProperties
  <1>2. /\ Append(s, e) \in Seq(S) /\ Len(Append(s, e)) = Len(s) + 1
        /\ \A i \in 1 .. Len(s) : Append(s, e)[i] = s[i]
        /\ Append(s, e)[Len(s) + 1] = e
    BY AppendProperties
  <1>3. DOMAIN Append(s, e) = 1 .. Len(s) + 1
    BY <1>2, LenProperties
  <1> QED
    BY <1>1, <1>2, <1>3

LEMMA OrderInit == Init => OrderInv
  <1> SUFFICES ASSUME Init PROVE OrderInv
    OBVIOUS
  <1>1. channel = << >> /\ wire = << >> /\ ~IsBook(pending)
    BY DEF Init, ClientInit, IsBook, Nothing
  <1>2. DOMAIN channel = {} /\ DOMAIN wire = {}
    <2>1. Len(<< >>) = 0 /\ << >> \in Seq({})
      BY EmptySeq
    <2>2. DOMAIN << >> = 1 .. 0
      BY <2>1, LenProperties
    <2>3. 1 .. 0 = {}
      OBVIOUS
    <2> QED
      BY <1>1, <2>2, <2>3
  <1> QED
    BY <1>1, <1>2 DEF OrderInv, ChannelInOrder, PendingInOrder, WireInOrder

(* Reading takes the first of the connection; what comes of it is not newer *)
(* than what is behind it.                                                 *)
LEMMA ReadKeepsOrder ==
    ASSUME TypeInv, OrderInv, ReadMessage \/ ReadNothing, book' = book
    PROVE  OrderInv'
  <1>1. wire \in Seq(Payload) /\ wire # << >> /\ wire' = Tail(wire) /\ channel' = channel
    BY DEF TypeInv, TerminalTypeOK, ReadMessage, ReadNothing, cvars
  <1>2. /\ 1 \in DOMAIN wire /\ Head(wire) = wire[1]
        /\ \A i \in DOMAIN wire' : i \in Nat \ {0} /\ i + 1 \in DOMAIN wire /\ wire'[i] = wire[i + 1]
    BY <1>1, TailByPosition
  <1>3. wire[1] \in Payload
    BY <1>2, ElementsTyped
  <1>4. IsBook(pending') =>
            \/ IsBook(pending) /\ pending' = pending
            \/ Carries(wire[1]) /\ IdOf(pending') = Nanos(wire[1].time)
    <2>1. CASE ReadNothing
      BY <2>1 DEF ReadNothing, cvars
    <2>2. CASE ReadMessage
      BY <1>2, <1>3, <2>2, PayloadIs DEF ReadMessage, TypeInv, TerminalTypeOK
    <2> QED
      BY <2>1, <2>2
  <1>5. ChannelInOrder'
    BY <1>1 DEF OrderInv, ChannelInOrder
  <1>6. PendingInOrder'
    BY <1>1, <1>2, <1>4 DEF OrderInv, PendingInOrder, WireInOrder
  <1>7. \A j \in DOMAIN wire :
            (j # 1 /\ Carries(wire[1]) /\ Carries(wire[j])) =>
                Nanos(wire[1].time) <= Nanos(wire[j].time)
    <2> TAKE j \in DOMAIN wire
    <2> HAVE j # 1 /\ Carries(wire[1]) /\ Carries(wire[j])
    <2>1. 1 < j
      BY ElementsTyped
    <2>2. wire[1].time <= wire[j].time
      BY <1>2, <2>1 DEF OrderInv, WireInOrder
    <2>3. wire[1].time \in Nat /\ wire[j].time \in Nat
      BY <1>3, ElementsTyped, IdsTyped
    <2> QED
      BY <2>2, <2>3, NanosOrder
  <1>8. \A i \in DOMAIN wire' : i + 1 # 1
    BY <1>2
  <1>9. WireInOrder'
    <2>1. ASSUME NEW i \in DOMAIN wire', NEW j \in DOMAIN wire',
                 i < j, Carries(wire'[i]), Carries(wire'[j])
          PROVE  wire'[i].time <= wire'[j].time
      <3>1. i + 1 < j + 1
        BY <1>2, <2>1
      <3> QED
        BY <1>2, <2>1, <3>1 DEF OrderInv, WireInOrder
    <2>2. ASSUME NEW j \in DOMAIN wire', Carries(wire'[j])
          PROVE  /\ book'.last_update_id <= Nanos(wire'[j].time)
                 /\ IsBook(pending') => IdOf(pending') <= Nanos(wire'[j].time)
                 /\ \A i \in DOMAIN channel' :
                     IsBook(channel'[i]) => IdOf(channel'[i]) <= Nanos(wire'[j].time)
      BY <1>1, <1>2, <1>4, <1>7, <1>8, <2>2 DEF OrderInv, WireInOrder
    <2> QED
      BY <2>1, <2>2 DEF WireInOrder
  <1> QED
    BY <1>5, <1>6, <1>9 DEF OrderInv

(* Sending puts what the client held behind everything in the channel.     *)
LEMMA SendKeepsOrder ==
    ASSUME TypeInv, OrderInv, Send, book' = book
    PROVE  OrderInv'
  <1>1. /\ channel \in Seq(Message) /\ pending \in Message
        /\ channel' = Append(channel, pending) /\ pending' = Nothing /\ wire' = wire
    BY DEF TypeInv, TerminalTypeOK, Send, nvars
  <1>2. /\ DOMAIN channel = 1 .. Len(channel) /\ Len(channel) \in Nat
        /\ DOMAIN channel' = 1 .. Len(channel) + 1
        /\ \A i \in DOMAIN channel' :
            \/ i \in DOMAIN channel /\ channel'[i] = channel[i]
            \/ i = Len(channel) + 1 /\ channel'[i] = pending
    BY <1>1, AppendByPosition
  <1>3. ~IsBook(pending')
    BY <1>1, IdsTyped
  <1>4. ChannelInOrder'
    <2>1. ASSUME NEW i \in DOMAIN channel', NEW j \in DOMAIN channel',
                 i < j, IsBook(channel'[i]), IsBook(channel'[j])
          PROVE  IdOf(channel'[i]) <= IdOf(channel'[j])
      <3>1. i \in DOMAIN channel /\ channel'[i] = channel[i]
        BY <1>2, <2>1
      <3> QED
        BY <1>2, <2>1, <3>1 DEF OrderInv, ChannelInOrder, PendingInOrder
    <2>2. ASSUME NEW i \in DOMAIN channel', IsBook(channel'[i])
          PROVE  book'.last_update_id <= IdOf(channel'[i])
      BY <1>2, <2>2 DEF OrderInv, ChannelInOrder, PendingInOrder
    <2> QED
      BY <2>1, <2>2 DEF ChannelInOrder
  <1>5. PendingInOrder'
    BY <1>3 DEF PendingInOrder
  <1>6. WireInOrder'
    BY <1>1, <1>2, <1>3 DEF OrderInv, WireInOrder
  <1> QED
    BY <1>4, <1>5, <1>6 DEF OrderInv

(* The exchange sends nothing older than what it sent before.              *)
LEMMA PushKeepsOrder ==
    ASSUME TypeInv, OrderInv, book.last_update_id <= Nanos(now), [Next]_vars,
           PushBook \/ PushOther, book' = book
    PROVE  OrderInv'
  <1>1. PICK x \in Payload' :
            wire' = Append(wire, x) /\ (Carries(x) => now <= x.time /\ x.time \in Nat)
    <2>1. CASE PushBook
      <3>1. PICK n \in {now, now + 1} \cap (1 .. MaxTime) :
                now' = n /\ wire' = Append(wire, L2Book(n, BookAt[n]))
        BY <2>1 DEF PushBook
      <3>2. n \in 1 .. now' /\ now <= n
        BY <3>1, IdsTyped
      <3>3. L2Book(n, BookAt[n]) \in Payload'
        BY <3>2 DEF Payload
      <3>4. L2Book(n, BookAt[n]).time = n
        BY DEF L2Book
      <3> QED
        BY <3>1, <3>2, <3>3, <3>4
    <2>2. CASE PushOther
      <3>1. PICK x \in {Noise, Malformed} \cup {Trades(now, d) : d \in TradeBatches} :
                wire' = Append(wire, x)
        BY <2>2 DEF PushOther
      <3>2. now' = now /\ now \in 0 .. now
        BY <2>2, IdsTyped DEF PushOther
      <3>3. x \in Payload'
        BY <3>1, <3>2 DEF Payload
      <3>4. ~Carries(x)
        BY <3>1 DEF Carries, Noise, Malformed, Trades
      <3> QED
        BY <3>1, <3>3, <3>4
    <2> QED
      BY <2>1, <2>2
  <1>2. wire \in Seq(Payload') /\ UNCHANGED <<channel, pending>>
    <2>1. now \in 0 .. MaxTime /\ wire \in Seq(Payload)
      BY DEF TypeInv, TerminalTypeOK
    <2> QED
      BY <2>1, TimeMovesOn, TypesGrow DEF PushBook, PushOther, cvars
  <1>3. /\ DOMAIN wire = 1 .. Len(wire) /\ Len(wire) \in Nat
        /\ DOMAIN wire' = 1 .. Len(wire) + 1
        /\ \A i \in DOMAIN wire' :
            \/ i \in DOMAIN wire /\ wire'[i] = wire[i]
            \/ i = Len(wire) + 1 /\ wire'[i] = x
    BY <1>1, <1>2, AppendByPosition
  <1>4. Carries(x) => Nanos(now) <= Nanos(x.time) /\ Nanos(x.time) \in Nat
    BY <1>1, IdsTyped, NanosOrder
  <1>5. ChannelInOrder' /\ PendingInOrder'
    BY <1>2 DEF OrderInv, ChannelInOrder, PendingInOrder
  <1>6. ASSUME NEW i \in DOMAIN wire', NEW j \in DOMAIN wire',
               i < j, Carries(wire'[i]), Carries(wire'[j])
        PROVE  wire'[i].time <= wire'[j].time
    <2>1. i \in DOMAIN wire /\ wire'[i] = wire[i]
      BY <1>3, <1>6
    <2>2. wire[i].time \in Nat /\ wire[i].time <= now
      BY <1>6, <2>1, ElementsTyped, IdsTyped
    <2>3. CASE j \in DOMAIN wire /\ wire'[j] = wire[j]
      BY <1>6, <2>1, <2>3 DEF OrderInv, WireInOrder
    <2>4. CASE wire'[j] = x
      BY <1>1, <1>6, <2>1, <2>2, <2>4, IdsTyped
    <2> QED
      BY <1>3, <2>3, <2>4
  <1>7. ASSUME NEW j \in DOMAIN wire', Carries(wire'[j])
        PROVE  /\ book'.last_update_id <= Nanos(wire'[j].time)
               /\ IsBook(pending') => IdOf(pending') <= Nanos(wire'[j].time)
               /\ \A i \in DOMAIN channel' :
                   IsBook(channel'[i]) => IdOf(channel'[i]) <= Nanos(wire'[j].time)
    <2>1. CASE j \in DOMAIN wire /\ wire'[j] = wire[j]
      BY <1>2, <1>7, <2>1 DEF OrderInv, WireInOrder
    <2>2. CASE wire'[j] = x
      <3>1. Nanos(now) <= Nanos(x.time) /\ Nanos(x.time) \in Nat /\ Nanos(now) \in Nat
        BY <1>4, <1>7, <2>2, IdsTyped
      <3>2. IsBook(pending) => IdOf(pending) \in Nat /\ IdOf(pending) <= Nanos(now)
        BY ElementsTyped, IdsTyped
      <3>3. \A i \in DOMAIN channel :
                IsBook(channel[i]) => IdOf(channel[i]) \in Nat /\ IdOf(channel[i]) <= Nanos(now)
        BY ElementsTyped, IdsTyped
      <3>4. book.last_update_id \in Nat
        BY DEF TypeInv, TerminalTypeOK, Book
      <3> QED
        BY <1>2, <2>2, <3>1, <3>2, <3>3, <3>4
    <2> QED
      BY <1>3, <2>1, <2>2
  <1> QED
    BY <1>5, <1>6, <1>7 DEF OrderInv, WireInOrder

(* A connection that ends keeps its first part or nothing.                 *)
LEMMA HangUpKeepsOrder ==
    ASSUME TypeInv, OrderInv, HangUp, book' = book
    PROVE  OrderInv'
  <1>1. PICK arriving \in 0 .. Len(wire) : wire' = SubSeq(wire, 1, arriving)
    BY DEF HangUp
  <1>2. UNCHANGED <<channel, pending>>
    BY DEF HangUp, cvars
  <1>3. \A i \in DOMAIN wire' : i \in DOMAIN wire /\ wire'[i] = wire[i]
    <2>1. /\ arriving \in Nat /\ arriving <= Len(wire)
          /\ \A i \in 1 .. arriving : i \in DOMAIN wire /\ wire[i] \in Payload
      BY ElementsTyped
    <2>2. SubSeq(wire, 1, arriving) = [i \in 1 .. arriving |-> wire[i]]
      BY <2>1, ElementsTyped
    <2> QED
      BY <1>1, <2>1, <2>2
  <1>4. ChannelInOrder' /\ PendingInOrder'
    BY <1>2 DEF OrderInv, ChannelInOrder, PendingInOrder
  <1>5. WireInOrder'
    BY <1>2, <1>3 DEF OrderInv, WireInOrder
  <1> QED
    BY <1>4, <1>5 DEF OrderInv

(* What is received leaves behind it what is at least as new.              *)
LEMMA ReceiveKeepsOrder ==
    ASSUME TypeInv, OrderInv, ReceiveStep
    PROVE  OrderInv'
  <1>1. /\ channel \in Seq(Message) /\ channel # << >> /\ channel' = Tail(channel)
        /\ UNCHANGED <<pending, wire>>
    BY DEF TypeInv, TerminalTypeOK, ReceiveStep, ReceiveDiff, ReceiveTrade, nvars
  <1>2. /\ 1 \in DOMAIN channel /\ Head(channel) = channel[1]
        /\ \A i \in DOMAIN channel' :
            i \in Nat \ {0} /\ i + 1 \in DOMAIN channel /\ channel'[i] = channel[i + 1]
    BY <1>1, TailByPosition
  <1>3. \/ book' = book
        \/ IsBook(channel[1]) /\ book'.last_update_id = IdOf(channel[1])
    <2>1. ReceiveTrade => book' = book
      BY DEF ReceiveTrade, rvars
    <2>2. ReceiveDiff => IsBook(channel[1]) /\ book'.last_update_id = IdOf(channel[1])
      BY <1>2, ReceivesNewer
    <2> QED
      BY <2>1, <2>2 DEF ReceiveStep
  <1>4. \A i, j \in DOMAIN channel' : i < j => i + 1 < j + 1 /\ 1 < i + 1
    BY <1>2
  <1>5. \A i \in DOMAIN channel' : 1 < i + 1
    BY <1>2
  <1>6. ChannelInOrder'
    BY <1>2, <1>3, <1>4, <1>5 DEF OrderInv, ChannelInOrder
  <1>7. PendingInOrder'
    BY <1>1, <1>2, <1>3 DEF OrderInv, PendingInOrder
  <1>8. WireInOrder'
    BY <1>1, <1>2, <1>3 DEF OrderInv, WireInOrder
  <1> QED
    BY <1>6, <1>7, <1>8 DEF OrderInv

(* Nothing is ahead of the exchange.                                       *)
LEMMA BookNotAhead ==
    ASSUME TypeInv, ShownInv
    PROVE  book.last_update_id <= Nanos(now)
  <1>1. CASE status = "Buffering"
    BY <1>1, BlankTyped, IdsTyped DEF ShownInv
  <1>2. CASE status = "Synced"
    <2>1. PICK n \in 1 .. now : book = ApplySnapshot(SnapshotOf(BookMessage(n).update))
      BY <1>2 DEF ShownInv
    <2>2. n \in 1 .. MaxTime /\ n \in Nat /\ n <= now
      BY ClientAssumption DEF TypeInv, TerminalTypeOK
    <2> QED
      BY <2>1, <2>2, BookOfTime, NanosOrder, IdsTyped
  <1> QED
    BY <1>1, <1>2 DEF TypeInv

LEMMA OrderStep == TypeInv /\ ShownInv /\ OrderInv /\ [Next]_vars => OrderInv'
  <1> SUFFICES ASSUME TypeInv, ShownInv, OrderInv, [Next]_vars PROVE OrderInv'
    OBVIOUS
  <1>1. CASE UNCHANGED <<book, channel, pending, wire>>
    BY <1>1 DEF OrderInv, ChannelInOrder, PendingInOrder, WireInOrder
  <1>2. CASE ClientStep /\ UNCHANGED <<rvars, uvars>>
    <2>1. book' = book
      BY <1>2 DEF rvars
    <2>2. Connected \/ ConnectFailed \/ Subscribed \/ SubscribeFailed \/ Retry \/ StreamEnds
              => UNCHANGED <<channel, pending, wire>>
      BY DEF Connected, ConnectFailed, Subscribed, SubscribeFailed, Retry, StreamEnds, nvars
    <2>3. CASE SendFails
      <3>1. channel' = channel /\ ~IsBook(pending') /\ wire' = << >>
        BY <2>3, IdsTyped DEF SendFails, ClientEnds
      <3>2. DOMAIN wire' = {}
        BY <3>1, EmptySeq
      <3> QED
        BY <2>1, <3>1, <3>2 DEF OrderInv, ChannelInOrder, PendingInOrder, WireInOrder
    <2> QED
      BY <1>1, <1>2, <2>1, <2>2, <2>3, ReadKeepsOrder, SendKeepsOrder DEF ClientStep
  <1>3. CASE NetworkStep /\ UNCHANGED <<rvars, uvars>>
    <2>1. book' = book
      BY <1>3 DEF rvars
    <2> QED
      BY <1>3, <2>1, PushKeepsOrder, HangUpKeepsOrder, BookNotAhead DEF NetworkStep
  <1>4. CASE ReceiveStep
    BY <1>4, ReceiveKeepsOrder
  <1>5. CASE DropReceiveTask
    <2>1. channel' = << >> /\ UNCHANGED <<book, pending, wire>>
      BY <1>5 DEF DropReceiveTask, nvars, rvars
    <2>2. DOMAIN channel' = {}
      BY <2>1, EmptySeq
    <2> QED
      BY <2>1, <2>2 DEF OrderInv, ChannelInOrder, PendingInOrder, WireInOrder
  <1>6. CASE DropClientTask
    <2>1. UNCHANGED <<book, channel>> /\ ~IsBook(pending') /\ wire' = << >>
      BY <1>6, IdsTyped DEF DropClientTask, ClientEnds, rvars
    <2>2. DOMAIN wire' = {}
      BY <2>1, EmptySeq
    <2> QED
      BY <2>1, <2>2 DEF OrderInv, ChannelInOrder, PendingInOrder, WireInOrder
  <1>7. (MainStep /\ UNCHANGED <<cvars, nvars, rvars>>) \/ Exit \/ UNCHANGED vars
            => UNCHANGED <<book, channel, pending, wire>>
    BY DEF Exit, vars, cvars, nvars, rvars
  <1> QED
    BY <1>1, <1>2, <1>3, <1>4, <1>5, <1>6, <1>7 DEF Next, RuntimeStep, Exited

-----------------------------------------------------------------------------
(* Where the book of a time is kept after a step.                          *)
Kept(n) == InFlight(n) \/ Nanos(n) <= book.last_update_id \/ n \in lost

LEMMA MovesKeep ==
    ASSUME TypeInv, UNCHANGED <<book, lost>>, NEW n \in 1 .. now, Kept(n),
           \/ Subscribed \/ ReadMessage \/ ReadNothing \/ Send \/ PushBook \/ PushOther
           \/ UNCHANGED <<pending, channel, wire>>
    PROVE  Kept(n)'
  <1> USE DEF Kept, InFlight
  <1>1. CASE Subscribed \/ UNCHANGED <<pending, channel, wire>>
    BY <1>1 DEF Subscribed
  <1>2. n \in 1 .. MaxTime /\ now \in 0 .. MaxTime
    BY ClientAssumption DEF TypeInv, TerminalTypeOK
  <1>3. BookMessage(n) # Nothing
    BY <1>2, BookOfTime DEF Nothing
  <1>4. channel \in Seq(Message) /\ wire \in Seq(Payload)
    BY DEF TypeInv, TerminalTypeOK
  <1>5. CASE ReadMessage \/ ReadNothing
    <2>1. wire # << >> /\ wire' = Tail(wire) /\ channel' = channel
      BY <1>5 DEF ReadMessage, ReadNothing, cvars
    <2>2. pending # BookMessage(n)
      BY <1>3, <1>5 DEF ReadMessage, ReadNothing, TypeInv
    <2>3. ASSUME NEW i \in DOMAIN wire, wire[i] = L2Book(n, BookAt[n])
          PROVE  Kept(n)'
      <3>1. CASE i = 1
        <4>1. Head(wire) = L2Book(n, BookAt[n])
          BY <1>4, <2>1, <2>3, <3>1, TailByPosition
        <4>2. ParseMessage(Head(wire)) = BookMessage(n) /\ IsMessage(BookMessage(n))
          BY <1>2, <4>1, BookOfTime DEF IsMessage
        <4>3. pending' = BookMessage(n)
          BY <1>5, <4>2 DEF ReadMessage, ReadNothing
        <4> QED
          BY <4>3
      <3>2. CASE i # 1
        <4>1. i - 1 \in DOMAIN wire' /\ wire'[i - 1] = wire[i]
          BY <1>4, <2>1, <3>2, TailByPosition
        <4> QED
          BY <2>3, <4>1
      <3> QED
        BY <3>1, <3>2
    <2> QED
      BY <2>1, <2>2, <2>3
  <1>6. CASE Send
    <2>1. pending \in Message /\ channel' = Append(channel, pending) /\ wire' = wire
      BY <1>6 DEF Send, TypeInv, nvars
    <2>2. /\ \A i \in DOMAIN channel : i \in DOMAIN channel' /\ channel'[i] = channel[i]
          /\ Len(channel) + 1 \in DOMAIN channel' /\ channel'[Len(channel) + 1] = pending
      BY <1>4, <2>1, AppendByPosition
    <2> QED
      BY <2>1, <2>2
  <1>7. CASE PushBook \/ PushOther
    <2>1. PICK x : wire' = Append(wire, x)
      BY <1>7 DEF PushBook, PushOther
    <2>2. UNCHANGED <<pending, channel>>
      BY <1>7 DEF PushBook, PushOther, cvars
    <2>3. wire \in Seq(Payload \cup {x})
      BY <1>4, SeqMonotonic
    <2>4. \A i \in DOMAIN wire : i \in DOMAIN wire' /\ wire'[i] = wire[i]
      BY <2>1, <2>3, AppendByPosition
    <2> QED
      BY <2>2, <2>4
  <1> QED
    BY <1>1, <1>5, <1>6, <1>7

LEMMA HangUpKeeps ==
    ASSUME TypeInv, HangUp, book' = book, NEW n \in 1 .. now, Kept(n)
    PROVE  Kept(n)'
  <1> USE DEF Kept, InFlight
  <1>1. PICK arriving \in 0 .. Len(wire) :
            /\ wire' = SubSeq(wire, 1, arriving)
            /\ lost' = lost \cup BookTimes(SubSeq(wire, arriving + 1, Len(wire)))
    BY DEF HangUp
  <1>2. UNCHANGED <<channel, pending>>
    BY DEF HangUp, cvars
  <1> DEFINE rest == SubSeq(wire, arriving + 1, Len(wire))
  <1>3. arriving \in Nat /\ Len(wire) \in Nat /\ arriving <= Len(wire)
    BY ElementsTyped
  <1>4. rest = [k \in 1 .. Len(wire) - arriving |-> wire[arriving + k]]
    <2>1. Len(wire) - (arriving + 1) + 1 = Len(wire) - arriving
      BY <1>3
    <2>2. \A k \in 1 .. Len(wire) - arriving : (arriving + 1) + k - 1 = arriving + k
      BY <1>3
    <2> QED
      BY <1>3, <2>1, <2>2
  <1>5. SubSeq(wire, 1, arriving) = [k \in 1 .. arriving |-> wire[k]]
    BY <1>3
  <1>6. ASSUME NEW i \in DOMAIN wire, wire[i] = L2Book(n, BookAt[n])
        PROVE  Kept(n)'
    <2>1. i \in 1 .. Len(wire)
      BY ElementsTyped
    <2>2. CASE i <= arriving
      <3>1. i \in DOMAIN wire' /\ wire'[i] = wire[i]
        BY <1>1, <1>3, <1>5, <2>1, <2>2
      <3> QED
        BY <1>6, <3>1
    <2>3. CASE i > arriving
      <3>1. i - arriving \in 1 .. Len(wire) - arriving /\ arriving + (i - arriving) = i
        BY <1>3, <2>1, <2>3
      <3>2. i - arriving \in DOMAIN rest /\ rest[i - arriving] = wire[i]
        BY <1>4, <3>1
      <3>3. wire[i].channel = "l2Book" /\ wire[i].time = n
        BY <1>6 DEF L2Book
      <3>4. n \in BookTimes(rest)
        <4> HIDE DEF rest
        <4> QED
          BY <3>2, <3>3 DEF BookTimes
      <3> QED
        BY <1>1, <3>4
    <2> QED
      BY <1>3, <2>1, <2>2, <2>3
  <1> QED
    BY <1>1, <1>2, <1>6

LEMMA ReceiveKeeps ==
    ASSUME TypeInv, ShownInv, OrderInv, ReceiveStep, NEW n \in 1 .. now, Kept(n)
    PROVE  Kept(n)'
  <1> USE DEF Kept, InFlight
  <1>1. /\ channel \in Seq(Message) /\ channel # << >> /\ channel' = Tail(channel)
        /\ UNCHANGED <<pending, wire, lost>>
    BY DEF TypeInv, TerminalTypeOK, ReceiveStep, ReceiveDiff, ReceiveTrade, nvars
  <1>2. n \in 1 .. MaxTime /\ n \in Nat /\ Nanos(n) \in Nat
    BY ClientAssumption, NanosOrder DEF TypeInv, TerminalTypeOK
  <1>3. book' = book \/ (ReceiveDiff /\ book.last_update_id <= book'.last_update_id
                            /\ book.last_update_id \in Nat /\ book'.last_update_id \in Nat)
    <2>1. ReceiveTrade => book' = book
      BY DEF ReceiveTrade, rvars
    <2>2. ASSUME ReceiveDiff
          PROVE  /\ book.last_update_id <= book'.last_update_id
                 /\ book.last_update_id \in Nat /\ book'.last_update_id \in Nat
      <3>1. PICK m \in 1 .. now :
                book'.last_update_id = Nanos(m) /\ book.last_update_id <= book'.last_update_id
        BY <2>2, ReceivesNewer
      <3>2. m \in Nat
        BY ClientAssumption DEF TypeInv, TerminalTypeOK
      <3> QED
        BY <3>1, <3>2, NanosOrder, ViewBearsBookId
    <2> QED
      BY <2>1, <2>2 DEF ReceiveStep
  <1>4. Nanos(n) <= book.last_update_id => Nanos(n) <= book'.last_update_id
    BY <1>2, <1>3
  <1>5. ASSUME NEW i \in DOMAIN channel, channel[i] = BookMessage(n)
        PROVE  Kept(n)'
    <2>1. CASE i = 1
      <3>1. Head(channel) = BookMessage(n)
        BY <1>1, <1>5, <2>1, TailByPosition
      <3>2. BookMessage(n).kind = "Diff" /\ IdOf(BookMessage(n)) = Nanos(n)
        BY <1>2, BookOfTime DEF IdOf
      <3>3. ReceiveDiff
        BY <3>1, <3>2 DEF ReceiveStep, ReceiveTrade
      <3>4. book'.last_update_id = Nanos(n)
        BY <3>1, <3>2, <3>3, ReceivesNewer
      <3> QED
        BY <1>2, <3>4
    <2>2. CASE i # 1
      <3>1. i - 1 \in DOMAIN channel' /\ channel'[i - 1] = channel[i]
        BY <1>1, <2>2, TailByPosition
      <3> QED
        BY <1>5, <3>1
    <2> QED
      BY <2>1, <2>2
  <1> QED
    BY <1>1, <1>4, <1>5

LEMMA DropStep ==
    TypeInv /\ ShownInv /\ OrderInv /\ NothingDropped /\ [Next]_vars => NothingDropped'
  <1> SUFFICES ASSUME TypeInv, ShownInv, OrderInv, NothingDropped, [Next]_vars,
                      receiver', task' # "stopped", NEW n \in 1 .. now'
               PROVE  Kept(n)'
    BY DEF NothingDropped, Kept
  <1>1. receiver /\ task # "stopped"
    BY DEF Next, ClientStep, Connected, ConnectFailed, Subscribed, SubscribeFailed, Retry,
           ReadMessage, ReadNothing, StreamEnds, Send, SendFails, ClientEnds, NetworkStep,
           PushBook, PushOther, HangUp, ReceiveStep, ReceiveDiff, ReceiveTrade, RuntimeStep,
           DropReceiveTask, DropClientTask, Exit, Exited, vars, cvars
  <1>2. \A m \in 1 .. now : Kept(m)
    BY <1>1 DEF NothingDropped, Kept
  <1>3. CASE n \in 1 .. now
    <2>1. Kept(n)
      BY <1>2, <1>3
    <2>2. ~ClientEnds
      BY DEF ClientEnds
    <2>3. ~DropReceiveTask
      BY DEF DropReceiveTask
    <2>4. CASE (ClientStep \/ PushBook \/ PushOther) /\ UNCHANGED <<rvars, uvars>>
      <3>1. UNCHANGED <<book, lost>>
        BY <2>2, <2>4
        DEF ClientStep, Connected, ConnectFailed, Subscribed, SubscribeFailed, Retry, ReadMessage,
            ReadNothing, StreamEnds, Send, SendFails, PushBook, PushOther, nvars, rvars
      <3>2. \/ Subscribed \/ ReadMessage \/ ReadNothing \/ Send \/ PushBook \/ PushOther
            \/ UNCHANGED <<pending, channel, wire>>
        BY <2>2, <2>4
        DEF ClientStep, Connected, ConnectFailed, SubscribeFailed, Retry, StreamEnds, SendFails, nvars
      <3> QED
        BY <1>3, <2>1, <3>1, <3>2, MovesKeep
    <2>5. CASE HangUp /\ UNCHANGED <<rvars, uvars>>
      BY <1>3, <2>1, <2>5, HangUpKeeps DEF rvars
    <2>6. CASE ReceiveStep
      BY <1>3, <2>1, <2>6, ReceiveKeeps
    <2>7. CASE UNCHANGED <<cvars, nvars, rvars>>
      BY <1>3, <2>1, <2>7, MovesKeep DEF cvars, nvars, rvars
    <2> QED
      BY <2>2, <2>3, <2>4, <2>5, <2>6, <2>7
      DEF Next, NetworkStep, RuntimeStep, DropClientTask, Exit, Exited, vars
  <1>4. CASE n \notin 1 .. now
    <2>1. now' # now
      BY <1>4
    <2>2. PushBook
      BY <2>1
      DEF Next, ClientStep, Connected, ConnectFailed, Subscribed, SubscribeFailed, Retry,
          ReadMessage, ReadNothing, StreamEnds, Send, SendFails, ClientEnds, NetworkStep,
          PushOther, HangUp, ReceiveStep, ReceiveDiff, ReceiveTrade, RuntimeStep,
          DropReceiveTask, DropClientTask, Exit, Exited, vars, nvars
    <2>3. PICK m \in {now, now + 1} \cap (1 .. MaxTime) :
            now' = m /\ wire' = Append(wire, L2Book(m, BookAt[m]))
      BY <2>2 DEF PushBook
    <2>4. n = m
      BY <1>4, <2>3, IdsTyped
    <2>5. wire \in Seq(Payload \cup {L2Book(m, BookAt[m])})
      BY SeqMonotonic DEF TypeInv, TerminalTypeOK
    <2>6. Len(wire) + 1 \in DOMAIN wire' /\ wire'[Len(wire) + 1] = L2Book(m, BookAt[m])
      BY <2>3, <2>5, AppendByPosition
    <2> QED
      BY <2>4, <2>6 DEF Kept, InFlight
  <1> QED
    BY <1>3, <1>4

LEMMA DropInit == Init => NothingDropped
  <1> SUFFICES ASSUME Init PROVE now = 0
    BY DEF NothingDropped
  <1> QED
    BY DEF Init, ClientInit

(* What the theorems below rest on. The parts need each other: books reach  *)
(* the screen in order because they are on their way in order, and what is *)
(* on its way is typed.                                                    *)
TerminalInv == TypeInv /\ ShownInv /\ OrderInv /\ NothingDropped

LEMMA TerminalInvHolds == Spec => []TerminalInv
  <1>1. Init => TerminalInv
    BY TypeInit, ShownInit, OrderInit, DropInit DEF TerminalInv
  <1>2. TerminalInv /\ [Next]_vars => TerminalInv'
    BY TypeStep, ShownStep, OrderStep, DropStep DEF TerminalInv
  <1> QED
    BY <1>1, <1>2, PTL DEF Spec

(* However small the channel and however slow the receive task, a book that *)
(* was sent is on its way, superseded or lost with its connection.         *)
THEOREM NoBookDropped == Spec => []NothingDropped
  <1>1. TerminalInv => NothingDropped
    BY DEF TerminalInv
  <1> QED
    BY <1>1, TerminalInvHolds, PTL

-----------------------------------------------------------------------------
(* A tick shows a newer book than the one before, or the same once more.   *)
LEMMA DrawShows ==
    ASSUME TypeInv, ShownInv, Draw, now' = now
    PROVE  Shows!Show \/ UNCHANGED <<now, drawn>>
  <1>1. drawn' = view
    BY DEF Draw
  <1>2. \A n \in 1 .. now : /\ n \in Nat /\ n # 0 /\ Nanos(n) \in Nat /\ Nanos(n) # 0
                             /\ ViewOfTime(n).last_update_id = Nanos(n)
    <2> TAKE n \in 1 .. now
    <2>1. n \in 1 .. MaxTime /\ n \in Nat /\ 0 \in Nat /\ 0 < n
      BY ClientAssumption DEF TypeInv, TerminalTypeOK
    <2>2. Nanos(0) < Nanos(n) /\ Nanos(0) \in Nat /\ Nanos(n) \in Nat
      BY <2>1, NanosOrder
    <2> QED
      BY <2>1, <2>2, ViewOfTimeTyped
  <1>3. BlankView.last_update_id = 0
    BY BlankTyped
  <1>4. drawn.last_update_id <= view.last_update_id /\ drawn.last_update_id \in Nat
    BY DrawnBearsId DEF ShownInv
  <1>5. CASE view = BlankView
    <2>1. drawn = BlankView
      BY <1>2, <1>3, <1>4, <1>5 DEF ShownInv
    <2> QED
      BY <1>1, <1>5, <2>1
  <1>6. ASSUME NEW n \in 1 .. now, view = ViewOfTime(n)
        PROVE  Shows!Show \/ UNCHANGED <<now, drawn>>
    <2>1. CASE drawn.last_update_id < view.last_update_id
      BY <1>1, <1>6, <2>1 DEF Shows!Show, StampOf
    <2>2. CASE drawn.last_update_id = view.last_update_id
      <3>1. PICK m \in 1 .. now : drawn = ViewOfTime(m)
        BY <1>2, <1>3, <1>6, <2>2 DEF ShownInv
      <3>2. m = n
        BY <1>2, <1>6, <2>2, <3>1, NanosOrder
      <3> QED
        BY <1>1, <1>6, <3>1, <3>2
    <2>3. view.last_update_id \in Nat
      BY <1>2, <1>6
    <2> QED
      BY <1>4, <2>1, <2>2, <2>3
  <1> QED
    BY <1>5, <1>6 DEF ShownInv, TypeInv

LEMMA StepShows ==
    TerminalInv /\ [Next]_vars => [Shows!Publish \/ Shows!Show]_<<now, drawn>>
  <1> SUFFICES ASSUME TerminalInv, [Next]_vars
               PROVE  Shows!Publish \/ Shows!Show \/ UNCHANGED <<now, drawn>>
    OBVIOUS
  <1>1. CASE PushBook /\ UNCHANGED <<rvars, uvars>>
    <2>1. now' = now \/ now' = now + 1
      BY <1>1 DEF PushBook
    <2>2. drawn' = drawn
      BY <1>1 DEF uvars
    <2> QED
      BY <2>1, <2>2 DEF Shows!Publish
  <1>2. CASE Draw /\ UNCHANGED <<cvars, nvars, rvars>>
    BY <1>2, DrawShows DEF TerminalInv, nvars
  <1>3. (ClientStep \/ PushOther \/ HangUp) /\ UNCHANGED <<rvars, uvars>> => UNCHANGED <<now, drawn>>
    BY DEF ClientStep, Connected, ConnectFailed, Subscribed, SubscribeFailed, Retry, ReadMessage,
           ReadNothing, StreamEnds, Send, SendFails, ClientEnds, PushOther, HangUp, nvars, uvars
  <1>4. ReceiveStep \/ RuntimeStep \/ UNCHANGED vars => UNCHANGED <<now, drawn>>
    BY DEF ReceiveStep, ReceiveDiff, ReceiveTrade, RuntimeStep, DropReceiveTask, DropClientTask,
           ClientEnds, Exit, vars, nvars, uvars
  <1>5. MainStep /\ UNCHANGED <<cvars, nvars, rvars>> =>
            \/ Draw /\ UNCHANGED <<cvars, nvars, rvars>>
            \/ UNCHANGED <<now, drawn>>
    BY DEF MainStep, InitStep, EnableRaw, EnterAlternate, NewTerminal, InitFails, DrawFails, Quit,
           CleanupStep, DisableRaw, LeaveAlternate, ShowCursor, CleanupFails, nvars
  <1> QED
    BY <1>1, <1>2, <1>3, <1>4, <1>5 DEF Next, NetworkStep, Exited

(* The screen shows nothing, then books the exchange sent, whole and never  *)
(* an older one after a newer one: through every reconnect, for every      *)
(* channel and every pace of the three tasks.                              *)
THEOREM ScreenShowsTheExchange == Spec => ImplementsDisplay
  <1>1. Init => Shows!Init
    BY DEF Init, ClientInit, Shows!Init
  <1> QED
    BY <1>1, StepShows, TerminalInvHolds, PTL DEF Spec, ImplementsDisplay, Shows!Spec
-----------------------------------------------------------------------------
(* The levels of a view, from the best price on                            *)
Ahead(s, S, p) == {q \in S : Better(s, q, p)}

(* One price is ahead of another just when fewer are ahead of it.          *)
LEMMA AheadGrows ==
    ASSUME NEW s \in Side, NEW S \in SUBSET Price, NEW p \in S, NEW q \in S, Better(s, p, q)
    PROVE  Cardinality(Ahead(s, S, p)) < Cardinality(Ahead(s, S, q))
  <1>1. IsFiniteSet(S) /\ \A x \in S : x \in Nat
    BY LadderAssumption, FS_Subset
  <1>2. Ahead(s, S, p) \subseteq Ahead(s, S, q)
    BY <1>1 DEF Ahead, Better
  <1>3. p \in Ahead(s, S, q) /\ p \notin Ahead(s, S, p)
    BY <1>1 DEF Ahead, Better
  <1>4. IsFiniteSet(Ahead(s, S, q)) /\ IsFiniteSet(Ahead(s, S, p))
    <2>1. Ahead(s, S, q) \subseteq S /\ Ahead(s, S, p) \subseteq S
      BY DEF Ahead
    <2> QED
      BY <1>1, <2>1, FS_Subset
  <1>5. /\ Cardinality(Ahead(s, S, p)) <= Cardinality(Ahead(s, S, q))
        /\ Cardinality(Ahead(s, S, p)) # Cardinality(Ahead(s, S, q))
    BY <1>2, <1>3, <1>4, FS_Subset
  <1>6. Cardinality(Ahead(s, S, p)) \in Nat /\ Cardinality(Ahead(s, S, q)) \in Nat
    BY <1>4, FS_CardinalityType
  <1> QED
    BY <1>5, <1>6

(* Each rank is held by one price.                                         *)
LEMMA Ranks ==
    ASSUME NEW s \in Side, NEW S \in SUBSET Price
    PROVE  /\ Cardinality(S) \in Nat
           /\ \A p \in S : Cardinality(Ahead(s, S, p)) + 1 \in 1 .. Cardinality(S)
           /\ \A i \in 1 .. Cardinality(S) : \E p \in S : Cardinality(Ahead(s, S, p)) = i - 1
  <1>1. IsFiniteSet(S) /\ \A x \in S : x \in Nat
    BY LadderAssumption, FS_Subset
  <1>2. PICK n : n = Cardinality(S) /\ n \in Nat
    BY <1>1, FS_CardinalityType
  <1>3. ASSUME NEW p \in S
        PROVE  Cardinality(Ahead(s, S, p)) + 1 \in 1 .. n /\ Cardinality(Ahead(s, S, p)) \in Nat
    <2>1. Ahead(s, S, p) \subseteq S \ {p}
      BY <1>1 DEF Ahead, Better
    <2>2. IsFiniteSet(S \ {p}) /\ Cardinality(S \ {p}) = n - 1
      BY <1>1, <1>2, FS_RemoveElement
    <2>3. Cardinality(Ahead(s, S, p)) <= n - 1 /\ IsFiniteSet(Ahead(s, S, p))
      BY <2>1, <2>2, FS_Subset
    <2>4. Cardinality(Ahead(s, S, p)) \in Nat
      BY <2>3, FS_CardinalityType
    <2> QED
      BY <1>2, <2>3, <2>4
  <1>4. PICK rank : rank = [p \in S |-> Cardinality(Ahead(s, S, p)) + 1]
    OBVIOUS
  <1>5. \A p, q \in S : rank[p] = rank[q] => p = q
    <2> TAKE p, q \in S
    <2>1. p # q => Better(s, p, q) \/ Better(s, q, p)
      BY <1>1 DEF Better
    <2>2. p # q => \/ Cardinality(Ahead(s, S, p)) < Cardinality(Ahead(s, S, q))
                   \/ Cardinality(Ahead(s, S, q)) < Cardinality(Ahead(s, S, p))
      BY <2>1, AheadGrows
    <2>3. Cardinality(Ahead(s, S, p)) \in Nat /\ Cardinality(Ahead(s, S, q)) \in Nat
      BY <1>3
    <2> QED
      BY <1>4, <2>2, <2>3
  <1>6. rank \in Surjection(S, 1 .. n)
    <2>1. rank \in [S -> 1 .. n]
      BY <1>3, <1>4
    <2>2. rank \in Injection(S, 1 .. n)
      BY <1>5, <2>1 DEF Injection, IsInjective
    <2>3. IsFiniteSet(1 .. n) /\ Cardinality(1 .. n) = n
      BY <1>2, FS_Interval
    <2> QED
      BY <1>2, <2>2, <2>3, FS_Injection
  <1>7. \A i \in 1 .. n : \E p \in S : Cardinality(Ahead(s, S, p)) = i - 1
    <2> TAKE i \in 1 .. n
    <2>1. PICK p \in S : rank[p] = i
      BY <1>6 DEF Surjection
    <2>2. Cardinality(Ahead(s, S, p)) + 1 = i /\ Cardinality(Ahead(s, S, p)) \in Nat /\ i \in Nat
      BY <1>3, <1>4, <2>1
    <2>3. Cardinality(Ahead(s, S, p)) = i - 1
      BY <2>2
    <2> QED
      BY <2>3
  <1> QED
    BY <1>2, <1>3, <1>7

Listed(v, s) == {p \in Price : v.levels[s][p] # None}

(* L holds the listed levels of the side, from the best price on.          *)
InOrder(v, s, L) ==
    /\ Len(L) \in Nat /\ L = [i \in 1 .. Len(L) |-> L[i]]
    /\ \A i \in 1 .. Len(L) :
        L[i].price \in Listed(v, s) /\ L[i].size = v.levels[s][L[i].price]
    /\ \A i, j \in 1 .. Len(L) : i < j => Better(s, L[i].price, L[j].price)
    /\ \A p \in Listed(v, s) : \E i \in 1 .. Len(L) : L[i].price = p

(* Levels lists each level of the side once, the best first.               *)
LEMMA LevelsAre ==
    ASSUME NEW v, NEW s \in Side
    PROVE  InOrder(v, s, Levels(v, s))
  <1>1. PICK S : S = Listed(v, s) /\ S \in SUBSET Price
    BY DEF Listed
  <1>2. PICK n : n = Cardinality(S) /\ n \in Nat
    BY <1>1, Ranks
  <1> DEFINE Nth(i) == CHOOSE p \in S : Cardinality(Ahead(s, S, p)) = i - 1
  <1>3. Levels(v, s) = [i \in 1 .. n |-> [price |-> Nth(i), size |-> v.levels[s][Nth(i)]]]
    BY <1>1, <1>2 DEF Levels, Listed, Ahead
  <1>4. \A i \in 1 .. n : Nth(i) \in S /\ Cardinality(Ahead(s, S, Nth(i))) = i - 1
    BY <1>1, <1>2, Ranks
  <1>5. PICK nth : nth = [i \in 1 .. n |-> Nth(i)]
    OBVIOUS
  <1>6. PICK L : L = Levels(v, s) /\ L = [i \in 1 .. n |-> [price |-> nth[i], size |-> v.levels[s][nth[i]]]]
    BY <1>3, <1>5
  <1>7. \A i \in 1 .. n : nth[i] \in S /\ Cardinality(Ahead(s, S, nth[i])) = i - 1
    BY <1>4, <1>5
  <1> HIDE DEF Nth
  <1>8. Len(L) = n /\ L = [i \in 1 .. n |-> L[i]]
    BY <1>2, <1>6
  <1>9. \A i \in 1 .. n : L[i].price = nth[i] /\ L[i].size = v.levels[s][nth[i]]
    BY <1>6
  <1>10. ASSUME NEW i \in 1 .. n, NEW j \in 1 .. n, i < j
         PROVE  Better(s, nth[i], nth[j])
    <2>1. nth[i] \in S /\ nth[j] \in S /\ nth[i] \in Nat /\ nth[j] \in Nat
      BY <1>1, <1>7, LadderAssumption
    <2>2. i - 1 < j - 1 /\ i - 1 \in Nat /\ j - 1 \in Nat
      BY <1>2, <1>10
    <2>3. ~Better(s, nth[j], nth[i])
      <3>1. ~(j - 1 < i - 1)
        BY <2>2
      <3> QED
        BY <1>1, <1>7, <2>1, <3>1, AheadGrows
    <2>4. nth[i] # nth[j]
      BY <1>7, <2>2
    <2> QED
      BY <2>1, <2>3, <2>4 DEF Better
  <1>11. ASSUME NEW p \in S PROVE \E i \in 1 .. n : nth[i] = p
    <2>1. PICK i : i = Cardinality(Ahead(s, S, p)) + 1 /\ i \in 1 .. n
      BY <1>1, <1>2, Ranks
    <2>2. Cardinality(Ahead(s, S, p)) = i - 1
      <3>1. IsFiniteSet(Ahead(s, S, p))
        <4>1. Ahead(s, S, p) \subseteq Price
          BY <1>1 DEF Ahead
        <4> QED
          BY <4>1, LadderAssumption, FS_Subset
      <3>2. Cardinality(Ahead(s, S, p)) \in Nat
        BY <3>1, FS_CardinalityType
      <3> QED
        BY <2>1, <3>2
    <2>3. nth[i] = p
      <3>1. nth[i] \in S /\ Cardinality(Ahead(s, S, nth[i])) = i - 1 /\ nth[i] \in Nat /\ p \in Nat
        BY <1>1, <1>7, <2>1, LadderAssumption
      <3>2. ~Better(s, nth[i], p) /\ ~Better(s, p, nth[i])
        <4>1. i - 1 \in Nat /\ ~(i - 1 < i - 1)
          BY <1>2, <2>1
        <4> QED
          BY <1>1, <2>2, <3>1, <4>1, AheadGrows
      <3> QED
        BY <3>1, <3>2 DEF Better
    <2> QED
      BY <2>1, <2>3
  <1> QED
    BY <1>1, <1>2, <1>6, <1>8, <1>9, <1>7, <1>10, <1>11 DEF InOrder

-----------------------------------------------------------------------------
DownTo(v, s, p) == {q \in Listed(v, s) : q = p \/ Better(s, q, p)}

(* W also says of each level what the side offers down to it.              *)
Totalled(v, s, W) ==
    \A i \in 1 .. Len(W) : W[i].total = SumFunctionOnSet(v.levels[s], DownTo(v, s, W[i].price))

RunningTotal(L, n, t) == t = [i \in 0 .. n |-> IF i = 0 THEN 0 ELSE t[i - 1] + L[i].size]

(* A running total is the only one.                                        *)
LEMMA OneTotal ==
    ASSUME NEW n \in Nat, NEW L, NEW t, NEW u, RunningTotal(L, n, t), RunningTotal(L, n, u)
    PROVE  t = u
  <1> DEFINE bad == {i \in 0 .. n : t[i] # u[i]}
  <1>1. \A i \in 0 .. n : /\ t[i] = IF i = 0 THEN 0 ELSE t[i - 1] + L[i].size
                          /\ u[i] = IF i = 0 THEN 0 ELSE u[i - 1] + L[i].size
    BY DEF RunningTotal
  <1>2. bad = {}
    <2>1. SUFFICES ASSUME bad # {} PROVE FALSE
      OBVIOUS
    <2>2. PICK i \in bad : \A j \in bad : i <= j
      <3>1. bad \subseteq Nat
        OBVIOUS
      <3> HIDE DEF bad
      <3> QED
        BY <2>1, <3>1, LeastNatural
    <2>3. i # 0 => t[i - 1] = u[i - 1]
      <3>1. i # 0 => i - 1 \in 0 .. n /\ ~(i <= i - 1)
        OBVIOUS
      <3> QED
        BY <2>2, <3>1
    <2> QED
      BY <1>1, <2>2, <2>3
  <1>3. t = [i \in 0 .. n |-> t[i]] /\ u = [i \in 0 .. n |-> u[i]]
    BY DEF RunningTotal
  <1> QED
    BY <1>2, <1>3

(* Listed levels are finitely many and have sizes.                         *)
LEMMA ListedSizes ==
    ASSUME NEW v, v.levels \in Depth, NEW s \in Side
    PROVE  /\ IsFiniteSet(Listed(v, s)) /\ Listed(v, s) \subseteq Price
           /\ \A p \in Listed(v, s) : v.levels[s][p] \in Nat
  <1>1. Listed(v, s) \subseteq Price
    BY DEF Listed
  <1>2. IsFiniteSet(Listed(v, s))
    BY <1>1, LadderAssumption, FS_Subset
  <1>3. \A p \in Listed(v, s) : v.levels[s][p] \in Nat
    BY MarketBookAssumption DEF Listed, Depth
  <1> QED
    BY <1>1, <1>2, <1>3

(* A running total is the sum of the sizes down to its price.              *)
LEMMA TotalsAre ==
    ASSUME NEW v, v.levels \in Depth, NEW s \in Side
    PROVE  /\ InOrder(v, s, WithTotals(Levels(v, s)))
           /\ Totalled(v, s, WithTotals(Levels(v, s)))
           /\ Len(WithTotals(Levels(v, s))) = Len(Levels(v, s))
           /\ \A i \in 1 .. Len(Levels(v, s)) :
                WithTotals(Levels(v, s))[i].price = Levels(v, s)[i].price
  <1>1. PICK L : L = Levels(v, s) /\ InOrder(v, s, L)
    BY LevelsAre
  <1>2. PICK n : n = Len(L) /\ n \in Nat /\ DOMAIN L = 1 .. n
    BY <1>1 DEF InOrder
  <1>3. PICK f : f = v.levels[s]
    OBVIOUS
  <1>4. /\ \A i \in 1 .. n : L[i].price \in Listed(v, s) /\ L[i].size = f[L[i].price]
        /\ \A i, j \in 1 .. n : i < j => Better(s, L[i].price, L[j].price)
        /\ \A p \in Listed(v, s) : \E i \in 1 .. n : L[i].price = p
    BY <1>1, <1>2, <1>3 DEF InOrder
  <1>5. /\ IsFiniteSet(Listed(v, s)) /\ \A p \in Listed(v, s) : f[p] \in Nat
        /\ \A p \in Listed(v, s) : p \in Nat
    BY <1>3, ListedSizes, LadderAssumption
  <1> DEFINE Upto(i) == {L[j].price : j \in 1 .. i}
  <1>6. ASSUME NEW i \in 1 .. n
        PROVE  /\ Upto(i) = Upto(i - 1) \cup {L[i].price}
               /\ L[i].price \notin Upto(i - 1)
               /\ Upto(i) = DownTo(v, s, L[i].price)
    <2>1. 1 .. i = (1 .. i - 1) \cup {i} /\ i \in 1 .. i
      BY <1>2
    <2>2. \A j \in 1 .. i - 1 : j \in 1 .. n /\ j < i
      BY <1>2
    <2>3. \A j \in 1 .. i - 1 : Better(s, L[j].price, L[i].price)
      BY <1>4, <2>2
    <2>4. L[i].price \notin Upto(i - 1)
      <3>1. \A p \in Nat : ~Better(s, p, p)
        BY DEF Better
      <3> QED
        BY <1>4, <1>5, <2>3, <3>1
    <2>5. Upto(i) \subseteq DownTo(v, s, L[i].price)
      BY <1>4, <2>1, <2>2, <2>3 DEF DownTo
    <2>6. ASSUME NEW q \in Listed(v, s), Better(s, q, L[i].price)
          PROVE  q \in Upto(i)
      <3>1. PICK j \in 1 .. n : L[j].price = q
        BY <1>4
      <3>2. ~(i < j)
        <4>1. q \in Nat /\ L[i].price \in Nat
          BY <1>4, <1>5
        <4> QED
          BY <1>4, <2>6, <3>1, <4>1 DEF Better
      <3>3. j \in 1 .. i
        BY <1>2, <3>2
      <3> QED
        BY <3>1, <3>3
    <2>7. L[i].price \in Upto(i)
      BY <2>1
    <2>8. DownTo(v, s, L[i].price) \subseteq Upto(i)
      BY <2>6, <2>7 DEF DownTo
    <2> QED
      BY <2>1, <2>4, <2>5, <2>8
  <1>7. \A i \in 0 .. n : Upto(i) \subseteq Listed(v, s)
    <2> TAKE i \in 0 .. n
    <2>1. 1 .. i \subseteq 1 .. n
      BY <1>2
    <2> QED
      BY <1>4, <2>1
  <1>8. PICK t : t = [i \in 0 .. n |-> SumFunctionOnSet(f, Upto(i))]
    OBVIOUS
  <1>9. ASSUME NEW i \in 0 .. n
        PROVE  t[i] = IF i = 0 THEN 0 ELSE t[i - 1] + L[i].size
    <2>1. CASE i = 0
      <3>1. 1 .. 0 = {} /\ Upto(0) = {}
        OBVIOUS
      <3> HIDE DEF Upto
      <3> QED
        BY <1>8, <2>1, <3>1, SumEmpty
    <2>2. CASE i # 0
      <3>1. i \in 1 .. n /\ i - 1 \in 0 .. n
        BY <1>2, <2>2
      <3>2. /\ Upto(i) = Upto(i - 1) \cup {L[i].price} /\ L[i].price \notin Upto(i - 1)
            /\ Upto(i - 1) \subseteq Listed(v, s) /\ L[i].price \in Listed(v, s)
        BY <1>4, <1>6, <1>7, <3>1
      <3> HIDE DEF Upto
      <3>3. IsFiniteSet(Upto(i - 1)) /\ \A p \in Upto(i - 1) \cup {L[i].price} : f[p] \in Nat
        BY <1>5, <3>2, FS_Subset
      <3>4. SumFunctionOnSet(f, Upto(i - 1) \cup {L[i].price})
                = f[L[i].price] + SumFunctionOnSet(f, Upto(i - 1))
        BY <3>2, <3>3, SumWith
      <3>5. SumFunctionOnSet(f, Upto(i - 1)) \in Nat /\ f[L[i].price] \in Nat
        BY <3>3, SumNat
      <3>6. t[i] = SumFunctionOnSet(f, Upto(i)) /\ t[i - 1] = SumFunctionOnSet(f, Upto(i - 1))
        BY <1>8, <3>1
      <3>7. L[i].size = f[L[i].price]
        BY <1>4, <3>1
      <3> QED
        BY <2>2, <3>2, <3>4, <3>5, <3>6, <3>7
    <2> QED
      BY <2>1, <2>2
  <1>10. RunningTotal(L, n, t)
    <2> HIDE DEF Upto
    <2>1. t = [i \in 0 .. n |-> t[i]]
      BY <1>8
    <2> QED
      BY <1>9, <2>1 DEF RunningTotal
  <1>11. \A i \in 1 .. n : t[i] = SumFunctionOnSet(f, DownTo(v, s, L[i].price))
    <2> TAKE i \in 1 .. n
    <2>1. i \in 0 .. n /\ Upto(i) = DownTo(v, s, L[i].price)
      BY <1>2, <1>6
    <2> HIDE DEF Upto
    <2> QED
      BY <1>8, <2>1
  <1> HIDE DEF Upto
  <1>12. t = CHOOSE u : RunningTotal(L, n, u)
    <2>1. \E u : RunningTotal(L, n, u)
      BY <1>10
    <2>2. RunningTotal(L, n, CHOOSE u : RunningTotal(L, n, u))
      BY <2>1
    <2> QED
      BY <1>2, <1>10, <2>2, OneTotal
  <1>13. WithTotals(L) = [i \in 1 .. n |-> [price |-> L[i].price, size |-> L[i].size,
                                             total |-> t[i]]]
    BY <1>2, <1>12 DEF WithTotals, RunningTotal
  <1>14. PICK W : W = WithTotals(Levels(v, s)) /\ W = [i \in 1 .. n |->
                [price |-> L[i].price, size |-> L[i].size, total |-> t[i]]]
    BY <1>1, <1>13
  <1>15. /\ Len(W) = n /\ W = [i \in 1 .. n |-> W[i]]
         /\ \A i \in 1 .. n : W[i].price = L[i].price /\ W[i].size = L[i].size /\ W[i].total = t[i]
    BY <1>2, <1>14
  <1>16. InOrder(v, s, W)
    BY <1>2, <1>3, <1>4, <1>15 DEF InOrder
  <1>17. Totalled(v, s, W)
    BY <1>3, <1>11, <1>15 DEF Totalled
  <1> QED
    BY <1>1, <1>2, <1>14, <1>15, <1>16, <1>17

ViewKeeps(n, s, p) == IF Readable(n, s, p) = 0 THEN None ELSE Readable(n, s, p)

(* A level is among the n best when fewer than n are better.               *)
LEMMA BestOf ==
    ASSUME NEW levels, NEW n, NEW s \in Side, NEW p \in Price
    PROVE  BestLevels(levels, n)[s][p] =
                IF Cardinality({b \in Price : levels[s][b] # None /\ Better(s, b, p)}) < n
                THEN levels[s][p] ELSE None
  BY DEF BestLevels

(* What is viewed of a time is what could be read of it, but for what is    *)
(* behind more levels than a view has room for.                            *)
LEMMA ViewIs ==
    ASSUME NEW n \in 1 .. MaxTime, NEW s \in Side, NEW p \in Price
    PROVE  /\ ViewOfTime(n).levels[s][p] =
                IF Cardinality({b \in Price : ViewKeeps(n, s, b) # None /\ Better(s, b, p)}) < ViewDepth
                THEN ViewKeeps(n, s, p) ELSE None
           /\ Readable(n, s, p) \in Nat
  <1>1. n \in Nat /\ BookAt[n] \in Quote
    BY ClientAssumption
  <1>2. \A q \in Price : ParseLevel(BookAt[n][s][q]) \in Nat \cup {None}
    <2>0. BookAt[n] \in [Side -> [Price -> Text]]
      BY <1>1 DEF Quote
    <2> TAKE q \in Price
    <2>1. BookAt[n][s][q] \in Text
      BY <2>0
    <2>2. ParseLevel(BookAt[n][s][q]) \in Qty \cup {0, None}
      BY <2>1, ParsedLevel
    <2>3. \A x \in Qty \cup {0, None} : x \in Nat \cup {None}
      BY MarketBookAssumption
    <2> QED
      BY <2>2, <2>3
  <1>3. \A q \in Price : Readable(n, s, q) \in Nat
    BY <1>2 DEF Readable
  <1> DEFINE parsed == [t \in Side |-> [q \in Price |-> ParseLevel(BookAt[n][t][q])]]
             kept == ApplySnapshot(SnapshotOf(BookMessage(n).update)).levels
  <1>4. BookMessage(n).update.levels = parsed
    BY DEF BookMessage, ParseBook, RawDiff
  <1>5. kept = [t \in Side |-> [q \in Price |->
                    IF parsed[t][q] = 0 THEN None ELSE parsed[t][q]]]
    BY <1>4 DEF ApplySnapshot, SnapshotOf
  <1>6. ASSUME NEW q \in Price PROVE kept[s][q] = ViewKeeps(n, s, q)
    <2>1. parsed[s][q] = ParseLevel(BookAt[n][s][q])
      OBVIOUS
    <2>2. kept[s][q] = IF parsed[s][q] = 0 THEN None ELSE parsed[s][q]
      <3> HIDE DEF kept, parsed
      <3> QED
        BY <1>5
    <2> HIDE DEF kept, parsed
    <2> QED
      BY <1>2, <2>1, <2>2, MarketBookAssumption DEF ViewKeeps, Readable
  <1>7. ViewOfTime(n).levels = BestLevels(kept, ViewDepth)
    BY DEF ViewOfTime, SyncedView
  <1> HIDE DEF kept
  <1>8. ViewOfTime(n).levels[s][p] =
            IF Cardinality({b \in Price : kept[s][b] # None /\ Better(s, b, p)}) < ViewDepth
            THEN kept[s][p] ELSE None
    <2>1. BestLevels(kept, ViewDepth)[s][p] =
            IF Cardinality({b \in Price : kept[s][b] # None /\ Better(s, b, p)}) < ViewDepth
            THEN kept[s][p] ELSE None
      BY BestOf
    <2> QED
      BY <1>7, <2>1, Zenon
  <1>9. {b \in Price : kept[s][b] # None /\ Better(s, b, p)}
            = {b \in Price : ViewKeeps(n, s, b) # None /\ Better(s, b, p)}
    BY <1>6
  <1> QED
    BY <1>3, <1>6, <1>8, <1>9

(* A level of the view has everything better than it in the view.          *)
LEMMA ViewHasBest ==
    ASSUME NEW n \in 1 .. MaxTime, NEW s \in Side, NEW p \in Listed(ViewOfTime(n), s),
           NEW q \in Price, q = p \/ Better(s, q, p)
    PROVE  IF q \in Listed(ViewOfTime(n), s)
           THEN Readable(n, s, q) = ViewOfTime(n).levels[s][q]
           ELSE Readable(n, s, q) = 0
  <1> DEFINE Before(x) == {b \in Price : ViewKeeps(n, s, b) # None /\ Better(s, b, x)}
  <1>1. p \in Price /\ p \in Nat /\ q \in Nat /\ \A b \in Price : b \in Nat
    BY LadderAssumption DEF Listed
  <1>2. Before(q) \subseteq Before(p)
    <2>1. \A b \in Price : Better(s, b, q) => Better(s, b, p)
      BY <1>1 DEF Better
    <2> QED
      BY <2>1
  <1>3. IsFiniteSet(Before(p)) /\ IsFiniteSet(Before(q))
    BY LadderAssumption, FS_Subset
  <1>4. Cardinality(Before(q)) <= Cardinality(Before(p))
        /\ Cardinality(Before(q)) \in Nat /\ Cardinality(Before(p)) \in Nat
    <2> HIDE DEF Before
    <2> QED
      BY <1>2, <1>3, FS_Subset, FS_CardinalityType
  <1>5. Cardinality(Before(p)) < ViewDepth
    BY <1>1, ViewIs DEF Listed
  <1>6. Cardinality(Before(q)) < ViewDepth
    <2> HIDE DEF Before
    <2> QED
      BY <1>4, <1>5, TerminalAssumption
  <1>7. ViewOfTime(n).levels[s][q] = ViewKeeps(n, s, q) /\ Readable(n, s, q) \in Nat
    BY <1>6, ViewIs
  <1> QED
    BY <1>7, MarketBookAssumption DEF ViewKeeps, Listed

(* So a total of the view is what is offered down to its price.            *)
LEMMA OfferIs ==
    ASSUME NEW n \in 1 .. MaxTime, NEW s \in Side, NEW p \in Listed(ViewOfTime(n), s)
    PROVE  OnOffer(n, s, p)
               = SumFunctionOnSet(ViewOfTime(n).levels[s], DownTo(ViewOfTime(n), s, p))
  <1>1. PICK v : v = ViewOfTime(n) /\ v.levels \in Depth
    BY ViewOfTimeTyped
  <1>2. PICK S : S = {b \in Price : b = p \/ Better(s, b, p)}
    OBVIOUS
  <1>3. PICK r : r = [q \in S |-> Readable(n, s, q)]
    OBVIOUS
  <1>4. OnOffer(n, s, p) = SumFunctionOnSet(r, S)
    BY <1>2, <1>3 DEF OnOffer, SumFunction
  <1>5. PICK D : D = DownTo(v, s, p)
    OBVIOUS
  <1>6. D \subseteq S /\ D = S \cap Listed(v, s)
    BY <1>2, <1>5 DEF DownTo, Listed
  <1>7. IsFiniteSet(S) /\ IsFiniteSet(D) /\ IsFiniteSet(S \ D)
    <2>1. S \subseteq Price /\ D \subseteq Price /\ S \ D \subseteq Price
      BY <1>2, <1>6
    <2> QED
      BY <2>1, LadderAssumption, FS_Subset
  <1>8. \A q \in S : r[q] \in Nat
    BY <1>2, <1>3, ViewIs
  <1>9. \A q \in D : r[q] = v.levels[s][q]
    BY <1>1, <1>2, <1>3, <1>6, ViewHasBest
  <1>10. \A q \in S \ D : r[q] = 0
    BY <1>1, <1>2, <1>3, <1>6, ViewHasBest
  <1>11. SumFunctionOnSet(r, S \ D) = 0
    <2>1. \A q \in S \ D : r[q] \in Nat /\ r[q] <= 0
      BY <1>10
    <2>2. SumFunctionOnSet(r, S \ D) <= 0 * Cardinality(S \ D)
      BY <1>7, <2>1, SumAtMost
    <2>3. SumFunctionOnSet(r, S \ D) \in Nat
      BY <1>7, <2>1, SumNat
    <2>4. Cardinality(S \ D) \in Nat
      BY <1>7, FS_CardinalityType
    <2> QED
      BY <2>2, <2>3, <2>4
  <1>12. SumFunctionOnSet(r, S) = SumFunctionOnSet(r, D) + SumFunctionOnSet(r, S \ D)
    <2>1. S = D \cup (S \ D) /\ D \cap (S \ D) = {}
      BY <1>6
    <2>2. \A q \in D \cup (S \ D) : r[q] \in Nat
      BY <1>8, <2>1
    <2>3. SumFunctionOnSet(r, D \cup (S \ D)) = SumFunctionOnSet(r, D) + SumFunctionOnSet(r, S \ D)
      BY <1>7, <2>1, <2>2, SumUnion
    <2> QED
      BY <2>1, <2>3
  <1>13. SumFunctionOnSet(r, D) = SumFunctionOnSet(v.levels[s], D)
    BY <1>6, <1>7, <1>8, <1>9, SumSame
  <1>14. SumFunctionOnSet(r, D) \in Nat
    BY <1>6, <1>7, <1>8, SumNat
  <1> QED
    BY <1>1, <1>4, <1>5, <1>11, <1>12, <1>13, <1>14

-----------------------------------------------------------------------------
(* Rounding                                                                *)
LEMMA Quotient ==
    ASSUME NEW a \in Nat, NEW c \in Nat \ {0}
    PROVE  /\ a \div c \in Nat
           /\ c * (a \div c) <= a
           /\ a < c * (a \div c) + c
  OBVIOUS

(* The next multiple is at least one divisor away.                         *)
LEMMA TimesOneMore ==
    ASSUME NEW c \in Nat \ {0}, NEW p \in Nat, NEW q \in Nat, p < q
    PROVE  c * p + c <= c * q
  <1>1. PICK d \in Nat : q = p + 1 + d
    <2>1. q - p - 1 \in Nat /\ q = p + 1 + (q - p - 1)
      OBVIOUS
    <2> QED
      BY <2>1
  <1>2. c * q = c * p + c + c * d
    BY <1>1
  <1>3. c * d \in Nat /\ c * p \in Nat
    BY <1>1
  <1> QED
    BY <1>2, <1>3

(* Division by the same number keeps the order.                            *)
LEMMA QuotientGrows ==
    ASSUME NEW a \in Nat, NEW b \in Nat, NEW c \in Nat \ {0}, a <= b
    PROVE  a \div c <= b \div c
  <1>1. PICK p, q : p = a \div c /\ q = b \div c
    OBVIOUS
  <1>2. p \in Nat /\ q \in Nat /\ c * p <= a /\ b < c * q + c
    BY <1>1, Quotient
  <1>3. ~(q < p)
    <2>1. SUFFICES ASSUME q < p PROVE FALSE
      OBVIOUS
    <2>2. c * q + c <= c * p /\ c * q \in Nat /\ c * p \in Nat
      BY <1>2, <2>1, TimesOneMore
    <2> QED
      BY <1>2, <2>2
  <1> QED
    BY <1>1, <1>2, <1>3

(* A quotient is known by the two multiples around the dividend.           *)
LEMMA QuotientIs ==
    ASSUME NEW a \in Nat, NEW c \in Nat \ {0}, NEW p \in Nat, c * p <= a, a < c * p + c
    PROVE  a \div c = p
  <1>1. PICK q : q = a \div c
    OBVIOUS
  <1>2. q \in Nat /\ c * q <= a /\ a < c * q + c /\ c * q \in Nat /\ c * p \in Nat
    BY <1>1, Quotient
  <1>3. ~(q < p)
    <2>1. SUFFICES ASSUME q < p PROVE FALSE
      OBVIOUS
    <2>2. c * q + c <= c * p
      BY <1>2, <2>1, TimesOneMore
    <2> QED
      BY <1>2, <2>2
  <1>4. ~(p < q)
    <2>1. SUFFICES ASSUME p < q PROVE FALSE
      OBVIOUS
    <2>2. c * p + c <= c * q
      BY <1>2, <2>1, TimesOneMore
    <2> QED
      BY <1>2, <2>2
  <1> QED
    BY <1>1, <1>2, <1>3, <1>4

(* A longer bar means more, and that of everything is full.                *)
LEMMA BarsAre ==
    ASSUME NEW d \in Nat \ {0}
    PROVE  /\ \A t, u \in Nat : t > u => BarLength(t, d) >= BarLength(u, d)
           /\ BarLength(d, d) = BarWidth
  <1>1. PICK w : w = BarWidth /\ w \in Nat
    BY LadderAssumption
  <1>2. 2 * d \in Nat \ {0}
    OBVIOUS
  <1>3. \A t \in Nat : 2 * t * w + d \in Nat
    <2> TAKE t \in Nat
    <2>1. 2 * t \in Nat
      OBVIOUS
    <2>2. 2 * t * w \in Nat
      BY <1>1, <2>1
    <2> QED
      BY <2>2
  <1>4. ASSUME NEW t \in Nat, NEW u \in Nat, t > u
        PROVE  BarLength(t, d) >= BarLength(u, d)
    <2>1. 2 * u * w + d <= 2 * t * w + d
      <3>1. PICK x \in Nat : t = u + x
        <4>1. t - u \in Nat /\ t = u + (t - u)
          BY <1>4
        <4> QED
          BY <4>1
      <3>2. 2 * t * w = 2 * u * w + 2 * x * w
        BY <1>1, <3>1
      <3>3. 2 * x * w \in Nat /\ 2 * u * w \in Nat /\ 2 * t * w \in Nat
        <4>1. 2 * x \in Nat /\ 2 * u \in Nat /\ 2 * t \in Nat
          OBVIOUS
        <4> QED
          BY <1>1, <4>1
      <3> QED
        BY <3>2, <3>3
    <2>2. (2 * u * w + d) \div (2 * d) <= (2 * t * w + d) \div (2 * d)
      BY <1>2, <1>3, <2>1, QuotientGrows
    <2>3. /\ (2 * u * w + d) \div (2 * d) \in Nat
          /\ (2 * t * w + d) \div (2 * d) \in Nat
      BY <1>2, <1>3, Quotient
    <2> QED
      BY <1>1, <2>2, <2>3 DEF BarLength
  <1>5. BarLength(d, d) = w
    <2>1. 2 * d * w + d \in Nat /\ (2 * d) * w \in Nat
      BY <1>1, <1>2, <1>3
    <2>2. (2 * d) * w <= 2 * d * w + d /\ 2 * d * w + d < (2 * d) * w + 2 * d
      BY <2>1
    <2>3. (2 * d * w + d) \div (2 * d) = w
      BY <1>1, <1>2, <2>1, <2>2, QuotientIs
    <2> QED
      BY <1>1, <2>3 DEF BarLength
  <1> QED
    BY <1>1, <1>4, <1>5

(* The scale of the bars is one of three numbers, and not 0.               *)
LEMMA LargestOfThree ==
    ASSUME NEW x \in Nat, NEW y \in Nat, NEW z \in Nat \ {0}
    PROVE  Max({x, y} \cup {z}) \in Nat \ {0}
  <1> DEFINE S == {x, y} \cup {z}
             IsMax(m) == m \in S /\ \A k \in S : m >= k
  <1>1. \E m : IsMax(m)
    <2>1. CASE x >= y /\ x >= z
      <3>1. IsMax(x)
        BY <2>1
      <3> QED
        BY <3>1
    <2>2. CASE y >= x /\ y >= z
      <3>1. IsMax(y)
        BY <2>2
      <3> QED
        BY <3>1
    <2>3. CASE z >= x /\ z >= y
      <3>1. IsMax(z)
        BY <2>3
      <3> QED
        BY <3>1
    <2> QED
      BY <2>1, <2>2, <2>3
  <1>2. Max(S) = CHOOSE m \in S : \A k \in S : m >= k
    BY DEF Max
  <1>3. Max(S) \in S /\ \A k \in S : Max(S) >= k
    BY <1>1, <1>2
  <1>4. Max(S) \in Nat /\ Max(S) >= z
    BY <1>3
  <1> QED
    BY <1>4

-----------------------------------------------------------------------------
(* The table: Ws are the asks and Wb the bids, best first.                  *)
TableOf(v, R, Ws, Wb) ==
    /\ InOrder(v, "Sell", Ws) /\ Totalled(v, "Sell", Ws)
    /\ InOrder(v, "Buy", Wb) /\ Totalled(v, "Buy", Wb)
    /\ Len(R) = Len(Ws) + Len(Wb) /\ DOMAIN R = 1 .. Len(Ws) + Len(Wb)
    /\ \A i \in 1 .. Len(Ws) :
        LET w == Ws[Len(Ws) - i + 1] IN R[i].price = w.price /\ R[i].total = w.total
    /\ \A i \in 1 .. Len(Wb) :
        LET r == R[Len(Ws) + i] IN r.price = Wb[i].price /\ r.total = Wb[i].total
    /\ \A i \in DOMAIN R : R[i].bar = BarLength(R[i].total, MaxDepth(v))

(* Bars are scaled to a positive depth.                                    *)
LEMMA DepthPositive ==
    ASSUME NEW v, v.levels \in Depth
    PROVE  MaxDepth(v) \in Nat \ {0}
  <1>1. ASSUME NEW s \in Side PROVE Deepest(WithTotals(Levels(v, s))) \in Nat
    <2>1. PICK W : W = WithTotals(Levels(v, s)) /\ InOrder(v, s, W) /\ Totalled(v, s, W)
      BY TotalsAre
    <2>2. CASE W = << >>
      BY <2>1, <2>2 DEF Deepest
    <2>3. CASE W # << >>
      <3>1. PICK n : n = Len(W) /\ n \in Nat /\ W = [i \in 1 .. n |-> W[i]]
        BY <2>1 DEF InOrder
      <3>2. n # 0
        <4>1. SUFFICES ASSUME n = 0 PROVE W = << >>
          BY <2>3
        <4>2. Len(W) = 0 /\ W \in Seq({W[i] : i \in 1 .. n})
          BY <3>1, <4>1, SeqDef
        <4> QED
          BY <4>2, EmptySeq
      <3>3. n \in 1 .. n
        BY <3>1, <3>2
      <3>4. W[n].total = SumFunctionOnSet(v.levels[s], DownTo(v, s, W[n].price))
        BY <2>1, <3>1, <3>3 DEF Totalled
      <3>5. PICK D : D = DownTo(v, s, W[n].price) /\ D \subseteq Listed(v, s)
        BY DEF DownTo
      <3>6. IsFiniteSet(D) /\ \A p \in D : v.levels[s][p] \in Nat
        BY <3>5, ListedSizes, FS_Subset
      <3>7. SumFunctionOnSet(v.levels[s], D) \in Nat
        BY <3>6, SumNat
      <3>8. Deepest(W) = W[n].total
        BY <2>3, <3>1 DEF Deepest, Last
      <3> QED
        BY <2>1, <3>4, <3>5, <3>7, <3>8
    <2> QED
      BY <2>2, <2>3
  <1>2. PICK x, y : x = Deepest(WithTotals(Levels(v, "Sell"))) /\ y = Deepest(WithTotals(Levels(v, "Buy")))
    OBVIOUS
  <1>3. x \in Nat /\ y \in Nat
    BY <1>1, <1>2 DEF Side
  <1>4. {Deepest(WithTotals(Levels(v, s))) : s \in Side} = {x, y}
    BY <1>2 DEF Side
  <1>5. MaxDepth(v) = Max({x, y} \cup {LeastDepth})
    BY <1>4 DEF MaxDepth
  <1> QED
    BY <1>3, <1>5, LargestOfThree, LadderAssumption

(* TableRows puts the reversed asks above the bids.                        *)
LEMMA TableIs ==
    ASSUME NEW v, v.levels \in Depth
    PROVE  TableOf(v, TableRows(v), WithTotals(Levels(v, "Sell")), WithTotals(Levels(v, "Buy")))
           /\ Len(SideRows(v, "Sell")) = Len(WithTotals(Levels(v, "Sell")))
  <1>1. PICK Ws : /\ Ws = WithTotals(Levels(v, "Sell"))
                  /\ InOrder(v, "Sell", Ws) /\ Totalled(v, "Sell", Ws)
    BY TotalsAre DEF Side
  <1>2. PICK Wb : /\ Wb = WithTotals(Levels(v, "Buy"))
                  /\ InOrder(v, "Buy", Wb) /\ Totalled(v, "Buy", Wb)
    BY TotalsAre DEF Side
  <1>3. PICK a, b : a = Len(Ws) /\ a \in Nat /\ b = Len(Wb) /\ b \in Nat
    BY <1>1, <1>2 DEF InOrder
  <1>4. PICK S : S = {Ws[i] : i \in 1 .. a} \cup {Wb[i] : i \in 1 .. b}
    OBVIOUS
  <1>5. PICK A : A = Reverse(Ws) /\ A = [i \in 1 .. a |-> Ws[(a - i) + 1]]
    BY <1>3 DEF Reverse
  <1>6. A \in Seq(S) /\ Len(A) = a
    <2>1. \A i \in 1 .. a : (a - i) + 1 \in 1 .. a
      BY <1>3
    <2>2. A \in [1 .. a -> S]
      BY <1>4, <1>5, <2>1
    <2> QED
      BY <1>3, <2>2, SeqDef
  <1>7. Wb \in Seq(S)
    <2>1. Wb = [i \in 1 .. b |-> Wb[i]]
      BY <1>2, <1>3 DEF InOrder
    <2>2. Wb \in [1 .. b -> S]
      BY <1>4, <2>1
    <2> QED
      BY <1>3, <2>2, SeqDef
  <1>8. SideRows(v, "Sell") = A /\ SideRows(v, "Buy") = Wb
    BY <1>1, <1>2, <1>5 DEF SideRows
  <1>9. PICK rows : rows = SideRows(v, "Sell") \o SideRows(v, "Buy") /\ rows = A \o Wb
    BY <1>8
  <1>10. /\ Len(rows) = a + b /\ DOMAIN rows = 1 .. a + b
         /\ \A i \in 1 .. a + b : rows[i] = IF i <= a THEN A[i] ELSE Wb[i - a]
    <2>1. /\ rows \in Seq(S) /\ Len(rows) = Len(A) + Len(Wb)
          /\ \A i \in 1 .. Len(A) + Len(Wb) : rows[i] = IF i <= Len(A) THEN A[i] ELSE Wb[i - Len(A)]
      BY <1>6, <1>7, <1>9, ConcatProperties
    <2>2. DOMAIN rows = 1 .. Len(rows)
      BY <2>1, LenProperties
    <2> QED
      BY <1>3, <1>6, <2>1, <2>2
  <1>11. PICK d : d = MaxDepth(v)
    OBVIOUS
  <1>12. PICK R : /\ R = TableRows(v)
                  /\ R = [i \in 1 .. a + b |->
                            [price |-> rows[i].price, size |-> rows[i].size, total |-> rows[i].total,
                             bar |-> BarLength(rows[i].total, d)]]
    BY <1>9, <1>10, <1>11 DEF TableRows
  <1>13. /\ Len(R) = a + b /\ DOMAIN R = 1 .. a + b
         /\ \A i \in 1 .. a + b : /\ R[i].price = rows[i].price /\ R[i].total = rows[i].total
                                  /\ R[i].bar = BarLength(R[i].total, d)
    <2>1. a + b \in Nat
      BY <1>3
    <2> QED
      BY <1>12, <2>1
  <1>14. \A i \in 1 .. a : /\ R[i].price = Ws[a - i + 1].price
                           /\ R[i].total = Ws[a - i + 1].total
    <2> TAKE i \in 1 .. a
    <2>1. i \in 1 .. a + b /\ i <= a
      BY <1>3
    <2>2. rows[i] = Ws[a - i + 1]
      BY <1>5, <1>10, <2>1
    <2> QED
      BY <1>13, <2>1, <2>2
  <1>15. \A i \in 1 .. b : R[a + i].price = Wb[i].price /\ R[a + i].total = Wb[i].total
    <2> TAKE i \in 1 .. b
    <2>0. PICK k : k = a + i
      OBVIOUS
    <2>1. k \in 1 .. a + b /\ ~(k <= a) /\ k - a = i
      BY <1>3, <2>0
    <2>2. rows[k] = Wb[i]
      BY <1>10, <2>1
    <2> QED
      BY <1>13, <2>0, <2>1, <2>2
  <1>16. TableOf(v, R, Ws, Wb)
    BY <1>1, <1>2, <1>3, <1>11, <1>13, <1>14, <1>15 DEF TableOf
  <1> QED
    BY <1>1, <1>2, <1>3, <1>6, <1>8, <1>12, <1>16

(* Which row of which side a row of the table is.                          *)
LEMMA RowIs ==
    ASSUME NEW v, NEW R, NEW Ws, NEW Wb, TableOf(v, R, Ws, Wb), NEW i \in DOMAIN R
    PROVE  /\ Len(Ws) \in Nat /\ Len(Wb) \in Nat /\ i \in Nat
           /\ i <= Len(Ws) => \E k \in 1 .. Len(Ws) :
                k = Len(Ws) - i + 1 /\ R[i].price = Ws[k].price /\ R[i].total = Ws[k].total
           /\ i > Len(Ws) => \E k \in 1 .. Len(Wb) :
                k = i - Len(Ws) /\ R[i].price = Wb[k].price /\ R[i].total = Wb[k].total
  <1>1. PICK a, b : a = Len(Ws) /\ b = Len(Wb)
    OBVIOUS
  <1>2. a \in Nat /\ b \in Nat /\ i \in 1 .. a + b
    BY <1>1 DEF TableOf, InOrder
  <1>3. ASSUME i <= a
        PROVE  \E k \in 1 .. a : k = a - i + 1 /\ R[i].price = Ws[k].price /\ R[i].total = Ws[k].total
    <2>1. i \in 1 .. a /\ a - i + 1 \in 1 .. a
      BY <1>2, <1>3
    <2> QED
      BY <1>1, <2>1 DEF TableOf
  <1>4. ASSUME i > a
        PROVE  \E k \in 1 .. b : k = i - a /\ R[i].price = Wb[k].price /\ R[i].total = Wb[k].total
    <2>1. PICK k : k = i - a
      OBVIOUS
    <2>2. k \in 1 .. b /\ a + k = i
      BY <1>2, <1>4, <2>1
    <2>3. R[a + k].price = Wb[k].price /\ R[a + k].total = Wb[k].total
      BY <1>1, <2>2 DEF TableOf
    <2> QED
      BY <2>1, <2>2, <2>3
  <1> QED
    BY <1>1, <1>2, <1>3, <1>4

(* Prices fall.                                                            *)
LEMMA PricesFall ==
    ASSUME NEW v, NEW R, NEW Ws, NEW Wb, TableOf(v, R, Ws, Wb), Parted(v),
           NEW i \in DOMAIN R, NEW j \in DOMAIN R, i < j
    PROVE  R[i].price > R[j].price
  <1>1. PICK a, b : a = Len(Ws) /\ b = Len(Wb)
    OBVIOUS
  <1>2. a \in Nat /\ b \in Nat /\ i \in Nat /\ j \in Nat
    BY <1>1, RowIs
  <1>3. /\ \A k \in 1 .. a : Ws[k].price \in Listed(v, "Sell")
        /\ \A k \in 1 .. b : Wb[k].price \in Listed(v, "Buy")
        /\ \A k, l \in 1 .. a : k < l => Better("Sell", Ws[k].price, Ws[l].price)
        /\ \A k, l \in 1 .. b : k < l => Better("Buy", Wb[k].price, Wb[l].price)
    BY <1>1 DEF TableOf, InOrder
  <1>4. \A s \in Side : Listed(v, s) \subseteq Nat
    BY LadderAssumption DEF Listed
  <1>5. CASE j <= a
    <2>1. PICK k \in 1 .. a : k = a - i + 1 /\ R[i].price = Ws[k].price
      BY <1>1, <1>2, <1>5, RowIs
    <2>2. PICK l \in 1 .. a : l = a - j + 1 /\ R[j].price = Ws[l].price
      BY <1>1, <1>5, RowIs
    <2>3. l < k
      BY <1>2, <2>1, <2>2
    <2>4. Better("Sell", Ws[l].price, Ws[k].price) /\ Ws[l].price \in Nat /\ Ws[k].price \in Nat
      BY <1>3, <1>4, <2>3 DEF Side
    <2> QED
      BY <2>1, <2>2, <2>4 DEF Better
  <1>6. CASE i <= a /\ j > a
    <2>1. PICK k \in 1 .. a : R[i].price = Ws[k].price
      BY <1>1, <1>6, RowIs
    <2>2. PICK l \in 1 .. b : R[j].price = Wb[l].price
      BY <1>1, <1>6, RowIs
    <2>3. Ws[k].price \in Listed(v, "Sell") /\ Wb[l].price \in Listed(v, "Buy")
      BY <1>3
    <2>4. Wb[l].price < Ws[k].price
      BY <2>3 DEF Parted, Listed
    <2>5. Wb[l].price \in Nat /\ Ws[k].price \in Nat
      BY <1>4, <2>3 DEF Side
    <2> QED
      BY <2>1, <2>2, <2>4, <2>5
  <1>7. CASE i > a
    <2>1. PICK k \in 1 .. b : k = i - a /\ R[i].price = Wb[k].price
      BY <1>1, <1>7, RowIs
    <2>2. PICK l \in 1 .. b : l = j - a /\ R[j].price = Wb[l].price
      <3>1. j > a
        BY <1>2, <1>7
      <3> QED
        BY <1>1, <3>1, RowIs
    <2>3. k < l
      BY <1>2, <2>1, <2>2
    <2>4. Better("Buy", Wb[k].price, Wb[l].price) /\ Wb[l].price \in Nat /\ Wb[k].price \in Nat
      BY <1>3, <1>4, <2>3 DEF Side
    <2> QED
      BY <2>1, <2>2, <2>4 DEF Better
  <1> QED
    BY <1>2, <1>5, <1>6, <1>7

(* The first level of each side is next to the spread, with a price that   *)
(* the code does not take for none.                                        *)
LEMMA SpreadIsGap ==
    ASSUME NEW v, v.levels \in Depth, NEW R, NEW Ws, NEW Wb, TableOf(v, R, Ws, Wb),
           Ws = WithTotals(Levels(v, "Sell")), Wb = WithTotals(Levels(v, "Buy")),
           Len(Ws) \in 1 .. Len(R) - 1
    PROVE  Spread(v) = R[Len(Ws)].price - R[Len(Ws) + 1].price
  <1>1. PICK a, b : a = Len(Ws) /\ b = Len(Wb)
    OBVIOUS
  <1>2. a \in Nat /\ b \in Nat /\ Len(R) = a + b /\ DOMAIN R = 1 .. a + b
    BY <1>1 DEF TableOf, InOrder
  <1>3. a >= 1 /\ b >= 1
    BY <1>1, <1>2
  <1>4. R[a].price = Ws[1].price /\ R[a + 1].price = Wb[1].price
    <2>1. a \in 1 .. a /\ a - a + 1 = 1 /\ 1 \in 1 .. b
      BY <1>2, <1>3
    <2> QED
      BY <1>1, <2>1 DEF TableOf
  <1>5. ASSUME NEW s \in Side, NEW W, W = WithTotals(Levels(v, s)), Len(W) \in Nat, Len(W) >= 1
        PROVE  Best(v, s) = W[1].price /\ W[1].price \in Nat \ {0}
    <2>1. PICK L : L = Levels(v, s)
      OBVIOUS
    <2>2. Len(L) = Len(W) /\ W[1].price = L[1].price /\ W[1].price \in Listed(v, s)
      <3>1. /\ Len(W) = Len(L)
            /\ \A i \in 1 .. Len(L) : W[i].price = L[i].price
            /\ InOrder(v, s, W)
        BY <1>5, <2>1, TotalsAre
      <3>2. 1 \in 1 .. Len(W)
        BY <1>5
      <3> QED
        BY <3>1, <3>2 DEF InOrder
    <2>3. L # << >>
      <3>1. Len(<< >>) = 0
        OBVIOUS
      <3> QED
        BY <1>5, <2>2, <3>1
    <2> QED
      BY <2>1, <2>2, <2>3, LadderAssumption DEF Best, Listed
  <1>6. Best(v, "Sell") = R[a].price /\ R[a].price \in Nat \ {0}
    BY <1>1, <1>2, <1>3, <1>4, <1>5 DEF Side
  <1>7. Best(v, "Buy") = R[a + 1].price /\ R[a + 1].price \in Nat \ {0}
    BY <1>1, <1>2, <1>3, <1>4, <1>5 DEF Side
  <1> QED
    BY <1>1, <1>6, <1>7 DEF Spread

(* The view of a time is drawn as the table of that time.                  *)
LEMMA TimeReadsTrue ==
    ASSUME NEW n \in 1 .. MaxTime, NEW v, v = ViewOfTime(n), NEW R, R = TableRows(v),
           NEW a, a = Len(SideRows(v, "Sell"))
    PROVE  /\ \A i, j \in DOMAIN R :
                /\ i < j /\ Parted(v) => R[i].price > R[j].price
                /\ R[i].total > R[j].total => R[i].bar >= R[j].bar
           /\ \A i \in DOMAIN R :
                /\ R[i].total = OnOffer(n, IF i <= a THEN "Sell" ELSE "Buy", R[i].price)
                /\ R[i].total = MaxDepth(v) => R[i].bar = BarWidth
           /\ a \in 1 .. Len(R) - 1 => Spread(v) = R[a].price - R[a + 1].price
  <1>1. v.levels \in Depth
    BY ViewOfTimeTyped
  <1>2. PICK Ws, Wb : /\ Ws = WithTotals(Levels(v, "Sell")) /\ Wb = WithTotals(Levels(v, "Buy"))
                      /\ TableOf(v, R, Ws, Wb) /\ a = Len(Ws)
    BY <1>1, TableIs
  <1>3. PICK d : d = MaxDepth(v) /\ d \in Nat \ {0}
    BY <1>1, DepthPositive
  <1>4. \A i \in DOMAIN R : R[i].bar = BarLength(R[i].total, d)
    BY <1>2, <1>3 DEF TableOf
  <1>5. ASSUME NEW i \in DOMAIN R
        PROVE  /\ R[i].total = OnOffer(n, IF i <= a THEN "Sell" ELSE "Buy", R[i].price)
               /\ R[i].total \in Nat
    <2>0. PICK s : s = IF i <= a THEN "Sell" ELSE "Buy"
      OBVIOUS
    <2>1. s \in Side /\ i \in Nat /\ a \in Nat
      BY <1>2, <2>0, RowIs DEF Side
    <2>2. /\ R[i].price \in Listed(v, s)
          /\ R[i].total = SumFunctionOnSet(v.levels[s], DownTo(v, s, R[i].price))
      <3>1. CASE i <= a
        <4>1. PICK k \in 1 .. Len(Ws) : R[i].price = Ws[k].price /\ R[i].total = Ws[k].total
          BY <1>2, <3>1, RowIs
        <4> QED
          BY <1>2, <2>0, <3>1, <4>1 DEF TableOf, InOrder, Totalled
      <3>2. CASE i > a
        <4>1. PICK k \in 1 .. Len(Wb) : R[i].price = Wb[k].price /\ R[i].total = Wb[k].total
          BY <1>2, <3>2, RowIs
        <4>2. s = "Buy"
          BY <2>0, <2>1, <3>2
        <4> QED
          BY <1>2, <4>1, <4>2 DEF TableOf, InOrder, Totalled
      <3> QED
        BY <2>1, <3>1, <3>2
    <2>3. OnOffer(n, s, R[i].price) = SumFunctionOnSet(v.levels[s], DownTo(v, s, R[i].price))
      BY <2>1, <2>2, OfferIs
    <2>4. PICK D : D = DownTo(v, s, R[i].price) /\ D \subseteq Listed(v, s)
      BY DEF DownTo
    <2>5. IsFiniteSet(D) /\ \A p \in D : v.levels[s][p] \in Nat
      BY <1>1, <2>1, <2>4, ListedSizes, FS_Subset
    <2>6. SumFunctionOnSet(v.levels[s], D) \in Nat
      BY <2>5, SumNat
    <2> QED
      BY <2>0, <2>2, <2>3, <2>4, <2>6
  <1>6. \A i \in DOMAIN R : R[i].total \in Nat
    BY <1>5
  <1>7. \A i, j \in DOMAIN R : R[i].total > R[j].total => R[i].bar >= R[j].bar
    BY <1>3, <1>4, <1>6, BarsAre
  <1>8. \A i \in DOMAIN R : R[i].total = MaxDepth(v) => R[i].bar = BarWidth
    BY <1>3, <1>4, BarsAre
  <1>9. \A i, j \in DOMAIN R : i < j /\ Parted(v) => R[i].price > R[j].price
    BY <1>2, PricesFall
  <1>10. a \in 1 .. Len(R) - 1 => Spread(v) = R[a].price - R[a + 1].price
    BY <1>1, <1>2, SpreadIsGap
  <1> QED
    BY <1>5, <1>7, <1>8, <1>9, <1>10

(* What is drawn under the id of a time is the view of that time.          *)
LEMMA DrawnIsView ==
    ASSUME TerminalInv, NEW n \in 1 .. now, drawn.last_update_id = Nanos(n)
    PROVE  drawn = ViewOfTime(n) /\ n \in 1 .. MaxTime
  <1>1. \A m \in 1 .. now : m \in 1 .. MaxTime /\ m \in Nat /\ 0 < m /\ 0 \in Nat
    BY ClientAssumption DEF TerminalInv, TypeInv, TerminalTypeOK
  <1>2. drawn = BlankView \/ \E m \in 1 .. now : drawn = ViewOfTime(m)
    BY DEF TerminalInv, ShownInv
  <1>3. drawn # BlankView
    <2>1. Nanos(0) < Nanos(n) /\ Nanos(0) \in Nat /\ Nanos(n) \in Nat
      BY <1>1, NanosOrder
    <2> QED
      BY <2>1, BlankTyped
  <1>4. PICK m \in 1 .. now : drawn = ViewOfTime(m)
    BY <1>2, <1>3
  <1>5. Nanos(m) = Nanos(n)
    BY <1>1, <1>4, ViewOfTimeTyped
  <1>6. m = n
    BY <1>1, <1>5, NanosOrder
  <1> QED
    BY <1>1, <1>4, <1>6

-----------------------------------------------------------------------------
(* What becomes of a size between its text and the screen                  *)

(* Rounding is off by half a unit at most, and comes to nothing for less    *)
(* than that.                                                              *)
LEMMA FixedIsNear ==
    ASSUME NEW x \in Nat
    PROVE  /\ Fixed(x) \in Nat
           /\ Fixed(x) # 0 <=> 2 * x >= Scale
           /\ 2 * Scale * Fixed(x) <= 2 * x + Scale
           /\ 2 * x <= 2 * Scale * Fixed(x) + Scale
  <1>1. PICK a, c : a = 2 * x + Scale /\ c = 2 * Scale /\ a \in Nat /\ c \in Nat \ {0}
    BY AdapterAssumption
  <1>2. PICK f : f = a \div c
    OBVIOUS
  <1>3. f \in Nat /\ c * f <= a /\ a < c * f + c
    BY <1>1, <1>2, Quotient
  <1>4. PICK m \in Nat : m = c * f
    BY <1>1, <1>3
  <1>5. f # 0 => m >= c
    <2>1. SUFFICES ASSUME f # 0 PROVE m >= c
      OBVIOUS
    <2>2. c * 0 + c <= c * f
      BY <1>1, <1>3, <2>1, TimesOneMore
    <2> QED
      BY <1>1, <1>4, <2>2
  <1>6. f = 0 => m = 0
    BY <1>1, <1>4
  <1>7. m <= 2 * x + Scale /\ 2 * x + Scale < m + 2 * Scale
    BY <1>1, <1>3, <1>4
  <1>8. f # 0 <=> 2 * x >= Scale
    BY <1>1, <1>5, <1>6, <1>7, AdapterAssumption
  <1>9. m <= 2 * x + Scale /\ 2 * x <= m + Scale
    BY <1>7, AdapterAssumption
  <1>10. Fixed(x) = f /\ m = 2 * Scale * f
    BY <1>1, <1>2, <1>4 DEF Fixed
  <1> QED
    BY <1>3, <1>8, <1>9, <1>10

(* A level is kept when its text amounts to one, as the rounded number.     *)
LEMMA KeptWhenItAmounts ==
    ASSUME NEW n \in 1 .. MaxTime, NEW s \in Side, NEW p \in Price
    PROVE  /\ ViewKeeps(n, s, p) # None <=> Amounts(BookAt[n][s][p])
           /\ Amounts(BookAt[n][s][p]) =>
                /\ BookAt[n][s][p] \in Nat
                /\ ViewKeeps(n, s, p) = Fixed(BookAt[n][s][p])
  <1>1. PICK text : text = BookAt[n][s][p]
    OBVIOUS
  <1>2. text \in Nat \cup {Garbled, None}
    <2>1. n \in Nat /\ BookAt[n] \in [Side -> [Price -> Text]]
      BY ClientAssumption DEF Quote
    <2>2. text \in Text
      BY <1>1, <2>1
    <2> QED
      BY <2>2 DEF Text
  <1>3. None \notin Nat /\ Garbled \notin Nat /\ Garbled # None
    BY MarketBookAssumption, AdapterAssumption
  <1>4. CASE text \in {Garbled, None}
    <2>1. Readable(n, s, p) = 0
      BY <1>1, <1>4 DEF Readable, ParseLevel
    <2> QED
      BY <1>1, <1>4, <2>1 DEF ViewKeeps, Amounts
  <1>5. CASE text \in Nat
    <2>1. text \notin {Garbled, None}
      BY <1>3, <1>5
    <2>2. PICK f : f = Fixed(text) /\ f \in Nat /\ (f # 0 <=> 2 * text >= Scale)
      BY <1>5, FixedIsNear
    <2>3. Readable(n, s, p) = f
      BY <1>1, <1>3, <2>1, <2>2 DEF Readable, ParseLevel
    <2>4. Amounts(text) <=> f # 0
      BY <2>1, <2>2 DEF Amounts
    <2> QED
      BY <1>1, <1>3, <1>5, <2>2, <2>3, <2>4 DEF ViewKeeps
  <1> QED
    BY <1>2, <1>4, <1>5

(* A screen shows of the book it names each of the best levels that amount *)
(* to something, within half a unit of what was sent, and nothing else.     *)
THEOREM SizesAreShown == Spec => []ShownAsSent
  <1>1. TerminalInv => ShownAsSent
    <2> SUFFICES ASSUME TerminalInv, NEW n \in 1 .. now, NEW s \in Side, NEW p \in Price,
                        drawn.last_update_id = Nanos(n)
                 PROVE  LET sent == BookAt[n]
                            size == drawn.levels[s][p]
                        IN  /\ size # None <=> Amounts(sent[s][p]) /\ AmongBest(sent, s, p)
                            /\ size # None => /\ 2 * Scale * size <= 2 * sent[s][p] + Scale
                                              /\ 2 * sent[s][p] <= 2 * Scale * size + Scale
      BY DEF ShownAsSent
    <2>1. drawn = ViewOfTime(n) /\ n \in 1 .. MaxTime
      BY DrawnIsView
    <2>2. PICK text, size : text = BookAt[n][s][p] /\ size = drawn.levels[s][p]
      OBVIOUS
    <2>3. {b \in Price : ViewKeeps(n, s, b) # None /\ Better(s, b, p)}
            = {q \in Price : Amounts(BookAt[n][s][q]) /\ Better(s, q, p)}
      BY <2>1, KeptWhenItAmounts
    <2>4. size = IF AmongBest(BookAt[n], s, p) THEN ViewKeeps(n, s, p) ELSE None
      BY <2>1, <2>2, <2>3, ViewIs DEF AmongBest
    <2>5. /\ ViewKeeps(n, s, p) # None <=> Amounts(text)
          /\ Amounts(text) => text \in Nat /\ ViewKeeps(n, s, p) = Fixed(text)
      BY <2>1, <2>2, KeptWhenItAmounts
    <2>6. size # None <=> Amounts(text) /\ AmongBest(BookAt[n], s, p)
      BY <2>4, <2>5
    <2>7. size # None => /\ 2 * Scale * size <= 2 * text + Scale
                         /\ 2 * text <= 2 * Scale * size + Scale
      BY <2>4, <2>5, FixedIsNear
    <2> QED
      BY <2>2, <2>6, <2>7
  <1> QED
    BY <1>1, TerminalInvHolds, PTL

(* The table on the screen reads as one ladder, whatever the exchange sent: *)
(* prices fall from the top to the bottom, totals are what was on offer,   *)
(* bars order as totals do, and the spread is the gap between the sides.   *)
THEOREM TableIsTrue == Spec => []TableReadsTrue
  <1>1. TerminalInv => TableReadsTrue
    <2> SUFFICES ASSUME TerminalInv, NEW n \in 1 .. now, drawn.last_update_id = Nanos(n)
                 PROVE  LET rows == TableRows(drawn)
                            asks == Len(SideRows(drawn, "Sell"))
                            SideOf(i) == IF i <= asks THEN "Sell" ELSE "Buy"
                        IN  /\ \A i, j \in DOMAIN rows :
                                /\ i < j /\ Parted(drawn) => rows[i].price > rows[j].price
                                /\ rows[i].total > rows[j].total => rows[i].bar >= rows[j].bar
                            /\ \A i \in DOMAIN rows :
                                /\ rows[i].total = OnOffer(n, SideOf(i), rows[i].price)
                                /\ rows[i].total = MaxDepth(drawn) => rows[i].bar = BarWidth
                            /\ asks \in 1 .. Len(rows) - 1 =>
                                Spread(drawn) = rows[asks].price - rows[asks + 1].price
      BY DEF TableReadsTrue
    <2>1. drawn = ViewOfTime(n) /\ n \in 1 .. MaxTime
      BY DrawnIsView
    <2> QED
      BY <2>1, TimeReadsTrue
  <1> QED
    BY <1>1, TerminalInvHolds, PTL
=============================================================================
