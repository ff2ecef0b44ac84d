-------------------------- MODULE HyperliquidAdapter ------------------------
(***************************************************************************)
(* ordust-market-data/src/adapters/hyperliquidadapter.rs: what a text of   *)
(* the exchange becomes. The JSON syntax is left out; the cases it is      *)
(* told apart into, the numbers that do not parse and the units are not.   *)
(***************************************************************************)
EXTENDS MarketBook, Sequences

CONSTANTS
    Scale,          \* an amount in a text counts 1/Scale of a stored unit
    NanosPerMilli,
    Garbled         \* a number that does not parse

ASSUME AdapterAssumption ==
    /\ Scale \in Nat \ {0}
    /\ NanosPerMilli \in Nat \ {0}
    /\ Garbled \notin Nat \cup {None}

(* Mutant: without round() the cast cuts the fraction off.                 *)
FixedCutOff(x) == x \div Scale

(* (x * 1e10).round() as u64: to the nearest unit, halves upwards. Anything *)
(* below half a unit becomes 0.                                            *)
Fixed(x) == (2 * x + Scale) \div (2 * Scale)

Nanos(millis) == millis * NanosPerMilli

(* A level in a text: its size, `Garbled`, or None when it is not listed.  *)
Text == {x \in Nat : Fixed(x) \in Qty \cup {0}} \cup {Garbled, None}
Quote == [Side -> [Price -> Text]]

(* filter_map: a level that does not parse is dropped, the book is kept.   *)
ParseLevel(text) == IF text \in {Garbled, None} THEN None ELSE Fixed(text)

L2Book(time, levels) == [channel |-> "l2Book", time |-> time, levels |-> levels]
Trades(time, data) == [channel |-> "trades", time |-> time, data |-> data]
Noise == [channel |-> "noise"]
Malformed == [channel |-> "malformed"]

(* RawMessage; and the two answers that yield none.                        *)
RawDiff(update) == [kind |-> "Diff", update |-> update]
RawTrade(timestamp) == [kind |-> "Trade", timestamp |-> timestamp]
Nothing == [kind |-> "Nothing"]
ParseError == [kind |-> "Error"]

(* First and final id are both the exchange's clock.                       *)
ParseBook(time, levels) ==
    RawDiff([first_update_id |-> Nanos(time), final_update_id |-> Nanos(time),
             levels |-> [s \in Side |-> [p \in Price |-> ParseLevel(levels[s][p])]]])

(* Of a batch of trades the first one is read, the others are not.         *)
ParseTrades(time, data) ==
    CASE data = << >> -> Nothing
      [] data # << >> /\ Head(data) = Garbled -> ParseError
      [] OTHER -> RawTrade(time)

ParseMessage(payload) ==
    CASE payload.channel = "l2Book" -> ParseBook(payload.time, payload.levels)
      [] payload.channel = "trades" -> ParseTrades(payload.time, payload.data)
      [] payload.channel = "noise" -> Nothing
      [] payload.channel = "malformed" -> ParseError
=============================================================================
