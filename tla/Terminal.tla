------------------------------- MODULE Terminal -----------------------------
(***************************************************************************)
(* ordust-terminal/src/main.rs and tui.rs: the program that shows an       *)
(* exchange's book. Three tasks run side by side: the client, a task that  *)
(* receives its messages and publishes a view of the reconciler's book     *)
(* over a watch channel, and the main one, which draws the latest view     *)
(* until a key ends it. The terminal itself is not in the repository.      *)
(***************************************************************************)
EXTENDS WsClient, Reconciler, FiniteSets

CONSTANTS
    ViewDepth,      \* how many levels of a side a view has
    MaxFaults       \* bounds the count of failed calls of the terminal

(* Counting up to MaxFaults has to tell no, one and several failures apart. *)
ASSUME TerminalAssumption == ViewDepth \in Nat /\ MaxFaults \in Nat \ {0, 1}

VARIABLES
    view,           \* what the watch channel holds
    drawn,          \* the view on the screen
    main,           \* where main stands
    call,           \* the call of the terminal that init or cleanup makes next
    raw, alternate, hidden,     \* the terminal: raw mode, alternate screen, no cursor
    faults          \* how many calls failed since there is a TerminalUi

screen == <<raw, alternate, hidden>>
uvars == <<view, drawn, main, call, screen, faults>>
vars == <<cvars, nvars, rvars, uvars>>

(* `init`, `run`, and `cleanup` called once by run and once by drop; main   *)
(* ends in "failed" when there never was a TerminalUi.                     *)
Cleaning == {"cleanup", "drop"}
Main == {"init", "running", "failed", "returned", "exited"} \cup Cleaning

-----------------------------------------------------------------------------
(* The n best levels of a side.                                            *)
Better(s, p, q) == IF s = "Buy" THEN p > q ELSE p < q

BestLevels(levels, n) ==
    [s \in Side |-> [p \in Price |->
        IF Cardinality({b \in Price : levels[s][b] # None /\ Better(s, b, p)}) < n
        THEN levels[s][p] ELSE None]]

(* OrderBookView                                                           *)
BlankView == [is_synced |-> FALSE, last_update_id |-> 0, levels |-> NoDepth]

SyncedView(id, levels) ==
    [is_synced |-> TRUE, last_update_id |-> id, levels |-> BestLevels(levels, ViewDepth)]

Init ==
    /\ ClientInit
    /\ ReconcilerInit
    /\ view = BlankView
    /\ drawn = BlankView
    /\ main = "init"
    /\ call = "raw"
    /\ raw = FALSE /\ alternate = FALSE /\ hidden = FALSE
    /\ faults = 0

-----------------------------------------------------------------------------
(* The receive task                                                        *)
SnapshotOf(update) ==
    [last_update_id |-> update.final_update_id, levels |-> update.levels]

(* Mutant: only the first book is published.                               *)
PublishFirst ==
    view' = IF status = "Synced" THEN view
            ELSE SyncedView(book'.last_update_id, book'.levels)

(* Mutant: the levels are read before the new book is applied.             *)
PublishTorn ==
    view' = IF status' = "Synced"
            THEN SyncedView(book'.last_update_id, book.levels)
            ELSE BlankView

PublishView ==
    view' = IF status' = "Synced"
            THEN SyncedView(book'.last_update_id, book'.levels)
            ELSE BlankView

ReceiveDiff ==
    /\ receiver
    /\ channel # << >>
    /\ Head(channel).kind = "Diff"
    /\ channel' = Tail(channel)
    /\ OnSnapshot(SnapshotOf(Head(channel).update))
    /\ PublishView
    /\ UNCHANGED <<task, backoff, pending, receiver, nvars, drawn, main, call, screen, faults>>

ReceiveTrade ==
    /\ receiver
    /\ channel # << >>
    /\ Head(channel).kind = "Trade"
    /\ channel' = Tail(channel)
    /\ UNCHANGED <<task, backoff, pending, receiver, nvars, rvars, uvars>>

ReceiveStep == ReceiveDiff \/ ReceiveTrade

-----------------------------------------------------------------------------
(* TerminalUi::init. A call that fails ends main with its error; there is   *)
(* no TerminalUi yet whose drop would undo the calls before.               *)
EnableRaw ==
    /\ main = "init" /\ call = "raw"
    /\ call' = "alternate"
    /\ raw' = TRUE
    /\ UNCHANGED <<view, drawn, main, alternate, hidden, faults>>

EnterAlternate ==
    /\ main = "init" /\ call = "alternate"
    /\ call' = "new"
    /\ alternate' = TRUE
    /\ UNCHANGED <<view, drawn, main, raw, hidden, faults>>

NewTerminal ==
    /\ main = "init" /\ call = "new"
    /\ main' = "running"
    /\ call' = "raw"
    /\ UNCHANGED <<view, drawn, screen, faults>>

InitFails ==
    /\ main = "init"
    /\ main' = "failed"
    /\ UNCHANGED <<view, drawn, call, screen, faults>>

-----------------------------------------------------------------------------
Fault == faults' = IF faults < MaxFaults THEN faults + 1 ELSE faults

(* TerminalUi::run. A tick draws the latest view, and drawing hides the     *)
(* cursor.                                                                 *)
Draw ==
    /\ main = "running"
    /\ drawn' = view
    /\ hidden' = TRUE
    /\ UNCHANGED <<view, main, call, raw, alternate, faults>>

DrawFails ==
    /\ main = "running"
    /\ main' = "drop"
    /\ \E h \in {hidden, TRUE} : hidden' = h
    /\ Fault
    /\ UNCHANGED <<view, drawn, call, raw, alternate>>

Quit ==
    /\ main = "running"
    /\ main' = "cleanup"
    /\ UNCHANGED <<view, drawn, call, screen, faults>>

(* TerminalUi::cleanup, a call after the other.                            *)
DisableRaw ==
    /\ main \in Cleaning /\ call = "raw"
    /\ call' = "alternate"
    /\ raw' = FALSE
    /\ UNCHANGED <<view, drawn, main, alternate, hidden, faults>>

LeaveAlternate ==
    /\ main \in Cleaning /\ call = "alternate"
    /\ call' = "cursor"
    /\ alternate' = FALSE
    /\ UNCHANGED <<view, drawn, main, raw, hidden, faults>>

(* Whatever cleanup came to in run, drop calls it again.                   *)
CleanupReturns ==
    /\ main' = IF main = "cleanup" THEN "drop" ELSE "returned"
    /\ call' = "raw"

ShowCursor ==
    /\ main \in Cleaning /\ call = "cursor"
    /\ hidden' = FALSE
    /\ CleanupReturns
    /\ UNCHANGED <<view, drawn, raw, alternate, faults>>

(* Mutant: a cleanup that failed is not tried again.                       *)
CleanupFailsForGood ==
    /\ main \in Cleaning
    /\ main' = "returned"
    /\ call' = "raw"
    /\ Fault
    /\ UNCHANGED <<view, drawn, screen>>

CleanupFails ==
    /\ main \in Cleaning
    /\ CleanupReturns
    /\ Fault
    /\ UNCHANGED <<view, drawn, screen>>

InitStep == EnableRaw \/ EnterAlternate \/ NewTerminal \/ InitFails
CleanupStep == DisableRaw \/ LeaveAlternate \/ ShowCursor \/ CleanupFails
MainStep == InitStep \/ Draw \/ DrawFails \/ Quit \/ CleanupStep

-----------------------------------------------------------------------------
(* main has returned: the runtime drops the tasks, in either order, and the *)
(* process ends.                                                           *)
ShutDown == main \in {"failed", "returned"}

DropReceiveTask ==
    /\ ShutDown
    /\ receiver
    /\ receiver' = FALSE
    /\ channel' = << >>
    /\ UNCHANGED <<task, backoff, pending, nvars, rvars, uvars>>

DropClientTask ==
    /\ ShutDown
    /\ task # "stopped"
    /\ ClientEnds
    /\ UNCHANGED <<rvars, uvars>>

Exit ==
    /\ ShutDown
    /\ ~receiver
    /\ task = "stopped"
    /\ main' = "exited"
    /\ UNCHANGED <<cvars, nvars, rvars, view, drawn, call, screen, faults>>

RuntimeStep == DropReceiveTask \/ DropClientTask \/ Exit

Exited == main = "exited" /\ UNCHANGED vars

Next ==
    \/ (ClientStep \/ NetworkStep) /\ UNCHANGED <<rvars, uvars>>
    \/ ReceiveStep
    \/ MainStep /\ UNCHANGED <<cvars, nvars, rvars>>
    \/ RuntimeStep
    \/ Exited

Spec == Init /\ [][Next]_vars

(* Each task runs on when it can, and the main loop takes a tick again and  *)
(* again. Nobody has to press a key, no call of the terminal has to fail,   *)
(* and the exchange need not be reachable.                                 *)
Fairness ==
    /\ WF_vars(ClientStep /\ UNCHANGED <<rvars, uvars>>)
    /\ WF_vars(ReceiveStep)
    /\ WF_vars((InitStep \/ Draw \/ CleanupStep) /\ UNCHANGED <<cvars, nvars, rvars>>)
    /\ WF_vars(RuntimeStep)

FairSpec == Spec /\ Fairness

-----------------------------------------------------------------------------
View ==
    [is_synced : BOOLEAN, last_update_id : {0} \cup {Nanos(n) : n \in 1 .. now}, levels : Depth]

BookMessage(n) == ParseBook(n, BookAt[n])
Message ==
    {BookMessage(n) : n \in 1 .. now} \cup {RawTrade(n) : n \in 0 .. now}
Payload ==
    {L2Book(n, BookAt[n]) : n \in 1 .. now} \cup {Noise, Malformed}
        \cup {Trades(n, d) : n \in 0 .. now, d \in TradeBatches}

TerminalTypeOK ==
    /\ task \in Task /\ backoff \in Nat /\ receiver \in BOOLEAN /\ link \in BOOLEAN
    /\ pending \in Message \cup {Nothing}
    /\ channel \in Seq(Message) /\ Len(channel) <= Capacity
    /\ wire \in Seq(Payload)
    /\ now \in 0 .. MaxTime /\ lost \in SUBSET (1 .. now)
    /\ book \in Book
    /\ view \in View /\ drawn \in View
    /\ main \in Main /\ call \in {"raw", "alternate", "new", "cursor"}
    /\ raw \in BOOLEAN /\ alternate \in BOOLEAN /\ hidden \in BOOLEAN
    /\ faults \in 0 .. MaxFaults

(* calculate_next_backoff keeps the wait within its bounds however often it *)
(* is called, and a connection that ends is always first tried again after  *)
(* the shortest one, whatever came before it was made.                     *)
DelayFits ==
    /\ backoff \in MinBackoff .. MaxBackoff
    /\ task \in {"reading", "sending"} => backoff = MinBackoff

(* A full channel delays messages and nothing in between drops one: each    *)
(* book that was sent is on its way, has arrived or been overtaken by a     *)
(* later one at the receive task, or went down with its connection.        *)
InFlight(n) ==
    \/ pending = BookMessage(n)
    \/ \E i \in DOMAIN channel : channel[i] = BookMessage(n)
    \/ \E i \in DOMAIN wire : wire[i] = L2Book(n, BookAt[n])

NothingDropped ==
    (receiver /\ task # "stopped") =>
        \A n \in 1 .. now :
            InFlight(n) \/ Nanos(n) <= book.last_update_id \/ n \in lost

(* cleanup stops at the first call that fails, but is called by run and     *)
(* again by drop: one failing call of the terminal never leaves it in raw   *)
(* mode, on the alternate screen or without a cursor.                      *)
Restored ==
    (main = "returned" /\ faults <= 1) => screen = <<FALSE, FALSE, FALSE>>

(* Between a text and the screen a size is parsed, rounded, stored and cut  *)
(* off with its book: of the book that was sent exactly the best levels are *)
(* on the screen that are numbers of half a stored unit or more, each off   *)
(* by no more than half a unit. A number that does not parse costs its own  *)
(* level only.                                                             *)
Amounts(text) == text \notin {Garbled, None} /\ 2 * text >= Scale

AmongBest(sent, s, p) ==
    Cardinality({q \in Price : Amounts(sent[s][q]) /\ Better(s, q, p)}) < ViewDepth

ShownAsSent ==
    \A n \in 1 .. now, s \in Side, p \in Price :
        LET sent == BookAt[n]
            size == drawn.levels[s][p]
        IN  drawn.last_update_id = Nanos(n) =>
                /\ size # None <=> Amounts(sent[s][p]) /\ AmongBest(sent, s, p)
                /\ size # None => /\ 2 * Scale * size <= 2 * sent[s][p] + Scale
                                  /\ 2 * sent[s][p] <= 2 * Scale * size + Scale

(* What is drawn is blank, then books the exchange sent: all that could be  *)
(* read of their best levels, with their own id, and never an older one     *)
(* after a newer one.                                                      *)
ViewOfTime(n) ==
    SyncedView(Nanos(n), ApplySnapshot(SnapshotOf(BookMessage(n).update)).levels)

StampOf(v) == v.last_update_id

Shows ==
    INSTANCE Display WITH sent <- now, shown <- drawn, Blank <- BlankView,
                          ViewOf <- ViewOfTime, Stamp <- StampOf

ImplementsDisplay == Shows!Spec

-----------------------------------------------------------------------------
Over == ShutDown \/ main = "exited"

(* A book the client has read is drawn, or a later one, unless the program  *)
(* ends: the tasks and both channels between the connection and the screen  *)
(* neither stop nor stay behind.                                           *)
Received(n) ==
    \/ pending = BookMessage(n)
    \/ \E i \in DOMAIN channel : channel[i] = BookMessage(n)

ReceivedIsShown ==
    \A n \in 1 .. MaxTime :
        Received(n) ~> (drawn.last_update_id >= Nanos(n) \/ Over)

(* After any failure the client reads again, if trying to connect and to    *)
(* subscribe again and again succeeds in the end.                          *)
Reachable ==
    /\ SF_vars(Connected /\ UNCHANGED <<rvars, uvars>>)
    /\ SF_vars(Subscribed /\ UNCHANGED <<rvars, uvars>>)

OutagesEnd == Reachable => (task = "sleeping" ~> (task = "reading" \/ Over))

(* An exchange that stays away is in the end asked no more often than every *)
(* MaxBackoff.                                                             *)
OutagesSlowRetries ==
    <>[](~Over /\ task \notin {"reading", "sending"}) => <>[](backoff = MaxBackoff)

-----------------------------------------------------------------------------
(* types.rs:30 says of a Timestamp that it is in "nanos", the adapter that  *)
(* it converts milliseconds to nanoseconds (:77): every message that gets   *)
(* to the receive task bears the exchange's clock in that unit. Violated:   *)
(* only books are converted, trades keep their milliseconds.               *)
StampIn(message) ==
    IF message.kind = "Diff" THEN message.update.final_update_id ELSE message.timestamp

StampsAreNanos ==
    \A i \in DOMAIN channel : StampIn(channel[i]) \in {Nanos(n) : n \in 0 .. now}
=============================================================================
