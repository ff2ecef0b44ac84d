------------------------------- MODULE WsClient -----------------------------
(***************************************************************************)
(* ordust-market-data/src/marketbook/ws_client.rs: the task that keeps a   *)
(* connection to the exchange and forwards its messages over a bounded     *)
(* channel. The exchange and the connection are not in the repository:     *)
(* what was sent and not cut off arrives in the order it was sent, and     *)
(* the connection may end at any time with what is still on it.            *)
(***************************************************************************)
EXTENDS HyperliquidAdapter

CONSTANTS
    MinBackoff, MaxBackoff, Multiplier,     \* backoffconfig
    Capacity,       \* channel_capacity
    BookAt,         \* the exchange's book at each time
    TradeBatches,   \* what it may send in one message of trades
    MaxTime,        \* bounds the exchange's clock
    MaxWire         \* bounds the messages on the connection

(* mpsc::channel refuses a capacity of 0.                                  *)
ASSUME ClientAssumption ==
    /\ MinBackoff \in Nat /\ MaxBackoff \in Nat /\ MinBackoff <= MaxBackoff
    /\ Multiplier \in Nat \ {0}
    /\ Capacity \in Nat \ {0}
    /\ MaxTime \in Nat /\ MaxWire \in Nat
    /\ BookAt \in [1 .. MaxTime -> Quote]
    /\ TradeBatches \subseteq Seq(Nat \cup {Garbled})

VARIABLES
    task,           \* where the spawned task stands
    backoff,        \* current_backoff
    pending,        \* "sending": the message tx.send is waiting to place
    channel,        \* sent and not received
    receiver,       \* whether rx exists
    link,           \* whether the exchange still serves the connection
    wire,           \* what is on the connection, in order
    now,            \* the exchange's clock, at its last change of the book
    lost            \* the times of the books that went with a connection

cvars == <<task, backoff, pending, channel, receiver>>
nvars == <<link, wire, now, lost>>

Task == {"connecting", "subscribing", "reading", "sending", "sleeping", "stopped"}

ClientInit ==
    /\ task = "connecting"
    /\ backoff = MinBackoff
    /\ pending = Nothing
    /\ channel = << >>
    /\ receiver = TRUE
    /\ link = FALSE
    /\ wire = << >>
    /\ now = 0
    /\ lost = {}

-----------------------------------------------------------------------------
(* Mutant: the cap is compared with the wait before, not with the next one. *)
NextBackoffUncapped(current) ==
    IF current < MaxBackoff THEN current * Multiplier ELSE MaxBackoff

(* calculate_next_backoff                                                  *)
NextBackoff(current) ==
    IF current * Multiplier < MaxBackoff THEN current * Multiplier ELSE MaxBackoff

(* Mutant: the backoff starts again before the subscription is sent.       *)
ConnectedAfresh ==
    /\ task = "connecting"
    /\ task' = "subscribing"
    /\ backoff' = MinBackoff
    /\ UNCHANGED <<pending, channel, receiver, nvars>>

(* connect_async                                                           *)
Connected ==
    /\ task = "connecting"
    /\ task' = "subscribing"
    /\ UNCHANGED <<backoff, pending, channel, receiver, nvars>>

(* Mutant: the task gives up when the exchange cannot be reached.          *)
ConnectGivesUp ==
    /\ task = "connecting"
    /\ task' = "stopped"
    /\ UNCHANGED <<backoff, pending, channel, receiver, nvars>>

ConnectFailed ==
    /\ task = "connecting"
    /\ task' = "sleeping"
    /\ UNCHANGED <<backoff, pending, channel, receiver, nvars>>

(* The subscription is sent; the backoff starts again from its minimum.    *)
Subscribed ==
    /\ task = "subscribing"
    /\ task' = "reading"
    /\ backoff' = MinBackoff
    /\ link' = TRUE
    /\ UNCHANGED <<pending, channel, receiver, wire, now, lost>>

SubscribeFailed ==
    /\ task = "subscribing"
    /\ task' = "sleeping"
    /\ UNCHANGED <<backoff, pending, channel, receiver, nvars>>

(* The sleep is over, whatever it followed, and the next one is longer.    *)
Retry ==
    /\ task = "sleeping"
    /\ task' = "connecting"
    /\ backoff' = NextBackoff(backoff)
    /\ UNCHANGED <<pending, channel, receiver, nvars>>

-----------------------------------------------------------------------------
IsMessage(parsed) == parsed.kind \in {"Diff", "Trade"}

ReadMessage ==
    /\ task = "reading"
    /\ wire # << >>
    /\ IsMessage(ParseMessage(Head(wire)))
    /\ pending' = ParseMessage(Head(wire))
    /\ wire' = Tail(wire)
    /\ task' = "sending"
    /\ UNCHANGED <<backoff, channel, receiver, link, now, lost>>

(* No message in it, one that does not parse, a ping.                      *)
ReadNothing ==
    /\ task = "reading"
    /\ wire # << >>
    /\ ~IsMessage(ParseMessage(Head(wire)))
    /\ wire' = Tail(wire)
    /\ UNCHANGED <<cvars, link, now, lost>>

(* Close, a transport error or the end of the stream.                      *)
StreamEnds ==
    /\ task = "reading"
    /\ wire = << >>
    /\ ~link
    /\ task' = "sleeping"
    /\ UNCHANGED <<backoff, pending, channel, receiver, nvars>>

(* Mutant: try_send, which drops what finds the channel full.              *)
SendOrDrop ==
    /\ task = "sending"
    /\ receiver
    /\ channel' = IF Len(channel) < Capacity THEN Append(channel, pending) ELSE channel
    /\ pending' = Nothing
    /\ task' = "reading"
    /\ UNCHANGED <<backoff, receiver, nvars>>

(* Mutant: room is looked for after the message is placed.                 *)
SendBeyond ==
    /\ task = "sending"
    /\ receiver
    /\ Len(channel) <= Capacity
    /\ channel' = Append(channel, pending)
    /\ pending' = Nothing
    /\ task' = "reading"
    /\ UNCHANGED <<backoff, receiver, nvars>>

(* tx.send(..).await waits as long as the channel is full; until it is done *)
(* nothing is read.                                                        *)
Send ==
    /\ task = "sending"
    /\ receiver
    /\ Len(channel) < Capacity
    /\ channel' = Append(channel, pending)
    /\ pending' = Nothing
    /\ task' = "reading"
    /\ UNCHANGED <<backoff, receiver, nvars>>

(* The task ends and takes its connection along.                           *)
ClientEnds ==
    /\ task' = "stopped"
    /\ pending' = Nothing
    /\ link' = FALSE
    /\ wire' = << >>
    /\ UNCHANGED <<backoff, channel, receiver, now, lost>>

SendFails == task = "sending" /\ ~receiver /\ ClientEnds

ClientStep ==
    \/ Connected \/ ConnectFailed \/ Subscribed \/ SubscribeFailed \/ Retry
    \/ ReadMessage \/ ReadNothing \/ StreamEnds \/ Send \/ SendFails

-----------------------------------------------------------------------------
(* The exchange sends a new book, or the last one again; or anything else.  *)
PushBook ==
    /\ link
    /\ Len(wire) < MaxWire
    /\ \E n \in {now, now + 1} \cap (1 .. MaxTime) :
        /\ now' = n
        /\ wire' = Append(wire, L2Book(n, BookAt[n]))
    /\ UNCHANGED <<cvars, link, lost>>

PushOther ==
    /\ link
    /\ Len(wire) < MaxWire
    /\ \E payload \in {Noise, Malformed} \cup {Trades(now, d) : d \in TradeBatches} :
        wire' = Append(wire, payload)
    /\ UNCHANGED <<cvars, link, now, lost>>

BookTimes(w) == {w[i].time : i \in {j \in DOMAIN w : w[j].channel = "l2Book"}}

(* The connection ends; of what is on it, the last part never arrives.     *)
HangUp ==
    /\ link
    /\ link' = FALSE
    /\ \E arriving \in 0 .. Len(wire) :
        /\ wire' = SubSeq(wire, 1, arriving)
        /\ lost' = lost \cup BookTimes(SubSeq(wire, arriving + 1, Len(wire)))
    /\ UNCHANGED <<cvars, now>>

NetworkStep == PushBook \/ PushOther \/ HangUp
=============================================================================
