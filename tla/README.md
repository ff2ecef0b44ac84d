# Ordust: specification, model checking and proofs

TLA+ modules for [Ordust](../src/README.md), a limit-order matching engine in
Rust with a market-data client and a terminal view. The modules here cover all
three crates: the engine (`ordust-core`), its data structures step by step, what
it promises to callers, and what a consumer of its events can know; the
reconciler of `ordust-market-data`, which keeps a copy of an exchange's book; and
the program `ordust-terminal`, in which a websocket client, a receive task and a
render loop pass that book on to a screen.

`PROJECT.json` is the machine-readable companion: which lines each definition
translates ("map"), the runs, the seeded bugs each property is known to catch
("mutants"), the places where code and documentation disagree ("findings"), and
the things that are hard to test ("hazards").

## 1. The system

### ordust-core

| Part | Source | State | Operations |
| --- | --- | --- | --- |
| vocabulary | `types.rs` | none | `Order`, `BookEvent`, `EngineError`, u64 newtypes |
| price level | `price_level.rs` | `head`, `tail`, `total_qty`; nodes in a shared `Slab<OrderNode>` | `push_back`, `front`, `pop_front`, `remove`, `consume_qty`, `is_empty` |
| book | `book.rs` | `bids`, `asks` (`BTreeMap` of levels), `arena`, `order_index` | `insert_resting`, `remove_order`, `match_at_best`, `get_order`, `best_bid`, `best_ask`, `iter_side`, `depth` |
| engine | `engine.rs` | one `OrderBook` | `submit_order`, `cancel_order`, and privately `validate`, `crosses`, `match_against_book`, `apply_tif_to_remainder`, `can_fully_fill` |

`submit_order` validates, scans the opposite side when the order is FOK, runs a
matching loop of one trade per turn, then lets the order's time in force decide
about what is left. All methods take `&mut self` or `&self`: nothing inside the
engine is concurrent. What makes it hard is redundancy. A resting order is
recorded in five places (its slab node, the links of two neighbours, the ends of
its level, the level's total, the index), each updated by hand in a different
function, and slab slots are reused, so an omission shows itself only many calls
later and in somebody else's order. It is correct when:

- the lists, ends, totals, price maps and index agree with one another after
  every step;
- bids stay below asks, which `insert_resting` leaves to its caller;
- price-time priority holds, every trade is at the maker's price, a FOK order is
  filled entirely or leaves no trace;
- each unit of a submitted order is reported once: traded, resting or cancelled;
- the events alone are enough to rebuild the resting orders;
- none of `unwrap` and `expect` fails.

### ordust-market-data

- **MarketBook** (`marketbook/marketbook.rs`): aggregate quantities per price and
  side, and `last_update_id`. `apply_snapshot` clears and refills; `apply_diff`
  sets quantities, 0 removing a price. Correct when it equals the exchange's book
  at `last_update_id`.
- **Reconciler** (`marketbook/reconciler.rs`): `Buffering(diffs)` or
  `Synced{book}`. `on_diff` buffers, or applies a diff that starts at the expected
  id and otherwise falls back to `Buffering`. `on_snapshot` bridges a snapshot
  with the buffered diffs, or overwrites the book. Correct when a synced book
  always mirrors a state the exchange was in, ids do not go back, and it syncs
  again after a gap. Hard: diffs and snapshots that are lost, repeated, delayed or
  overtake each other; the diff that reveals a gap is dropped.
- **WsClient** (`marketbook/ws_client.rs`): a spawned task with a reconnect loop,
  a capped exponential backoff, and a bounded channel it blocks on. Correct when
  the backoff stays within its bounds, messages are forwarded in order and none
  is dropped, and the client always tries again. Hard: failures at any step, a
  full channel, a receiver dropped while it is reconnecting (only a failing
  `send` is noticed).
- **Adapters** (`adapters/`): what a text of the exchange becomes, without state.
  Hyperliquid's depth messages become diffs whose first and final ids are both the
  exchange's clock. Hard: numbers that do not parse or round to 0, and units.
  `binanceadapter.rs` is empty.
- `src/main.rs` of the crate: a driver that prints.

### ordust-terminal

- **Receive task** (`main.rs`): turns *every* diff into a snapshot for
  `on_snapshot`, so that `on_diff` and the buffer are never used, and publishes
  the top 20 levels over a `watch` channel.
- **TerminalUi** (`tui.rs`): raw-mode life cycle (`init`, `cleanup`, `Drop`) and a
  render loop that polls the watch channel every 50 ms and draws a table. Correct
  when every exit leaves raw mode, what is drawn is a book the exchange sent and
  never older than the one before, and the table says what the book says. Hard:
  tasks that overtake each other, calls of the terminal that fail half way.
- `lib.rs` (a debug log) and `bin/debugger.rs` keep no state.

The parts meet in one chain, websocket task → bounded channel → receive task →
watch channel → render loop. The engine is not on that chain: no crate but the
benchmarks and `ordust-core`'s own programs call it.

## 2. The modules

```
Orders ── PriceLevel ── OrderBook ── Engine ── BookShape ─┬─ EngineRefinement ── MCEngine
                                                          │    (instance of PriceTimeBook)
                                                          ├─ EventFeed ── MCEventFeed
                                                          └─ EngineClaims

BookShape ── EngineProofs ── BookProofs ─┬─ QueueProofs ─┬─ RefinementProofs
                            FiniteSums ──┘               └─ FeedProofs

MarketBook ─┬─ Reconciler ── DepthFeed ── DepthProofs
            └─ HyperliquidAdapter ── WsClient

WsClient, Reconciler ── Terminal ── Ladder ─┬─ MCTerminal
                (instance of Display)       └─ TerminalProofs ── (FiniteSums)
```

| Module | Models or states |
| --- | --- |
| `Orders` | `types.rs`: orders, events, errors, replies, side order, u64 `+` and `-` as the release profile compiles them (wrapping at `WordSize`) |
| `PriceLevel` | `price_level.rs`: the list operations as operators from a level and an arena to a level and an arena |
| `OrderBook` | `book.rs`: `arena`, `levels`, `order_index` and the actions on them; the invariants `IndexExact`, `LevelsExact`, `Uncrossed` |
| `Engine` | `engine.rs`: the calls, step by step; `Spec`, `TotalsFit`, `ScanFits`, `NoPanic` |
| `BookShape` | the deeper invariants: `QueueExact`, `TotalQtyExact`, `FokAllOrNothing`, `ReplyAccountsForOrder` and `OnlyGtcLimitRests` |
| `PriceTimeBook` | the abstract specification: queues of orders per side and price, one trade or answer per step, no arena, links, totals or index |
| `EngineRefinement` | the refinement mapping from the engine to `PriceTimeBook` |
| `EventFeed` | the engine composed with a consumer that knows only its events |
| `EngineClaims` | what comments and the checklist say and the code does not do |
| `MCEngine`, `MCEventFeed` | symmetry sets for the runs |
| `EngineProofs` | proofs of type correctness, `IndexExact` and `OnlyGtcLimitRests` |
| `BookProofs` | proofs of `LevelsExact`, `Uncrossed` and `NoPanic` |
| `FiniteSums` | lemmas about sums over finite sets and sequences |
| `QueueProofs` | proofs of `QueueExact`, `TotalQtyExact`, `FokAllOrNothing` and `ReplyAccountsForOrder`, and that ample words suffice for all of them |
| `RefinementProofs` | proof that the engine implements `PriceTimeBook` |
| `FeedProofs` | proofs of the invariants of `EventFeed` |
| `MarketBook` | `marketbook.rs`: a copy of an exchange's book, and how a snapshot and a diff change it |
| `Reconciler` | `reconciler.rs`: `on_diff` and `on_snapshot` |
| `DepthFeed` | the reconciler composed with an exchange and a network; the properties of the copy |
| `DepthProofs` | proofs of all the invariants of `DepthFeed` |
| `HyperliquidAdapter` | `hyperliquidadapter.rs`: `parse_message` |
| `WsClient` | `ws_client.rs`: the client task, its connection and its channel; the exchange that feeds them |
| `Terminal` | `ordust-terminal`'s `main.rs` and `tui.rs`, composed with `WsClient` and `Reconciler` |
| `Ladder` | the table of `render_frame` |
| `Display` | the abstract specification: a screen that shows books the exchange sent, each newer than the one before |
| `MCTerminal` | the books and trades of the runs |
| `TerminalProofs` | proofs of the safety properties of `Terminal`, that it implements `Display`, and that the table of `Ladder` reads true |

### State of the engine

- `arena` is a function from slab keys to nodes, `None` where vacant.
  `levels["Buy"]` and `levels["Sell"]` are the maps `bids` and `asks`, `None` where
  a price is not a key. `order_index` is the hash map.
- `pc` says where the call under way stands (`idle`, `scan`, `match`, `done`,
  `panicked`). `taker`, `accumulated`, `cursor`, `events` are the locals of
  `submit_order`, `can_fully_fill` and `match_against_book`; `reply` is the
  returned `Result`.

### Actions of the engine

| Action | Code |
| --- | --- |
| `Refuse`, `Admit` | `submit_order` through `validate`, and its first event |
| `ScanLevel`, `Kill` | one turn of the loop of `can_fully_fill`; its `false` |
| `Match` | one turn of `match_against_book`: `crosses`, `match_at_best` with the whole of `consume_qty`, `pop_front`, index removal and pruning, and the trade event |
| `Filled`, `Rest`, `Discard` | the three outcomes of `apply_tif_to_remainder`; `Rest` includes `insert_resting` and `push_back` |
| `Cancel`, `CancelUnknown`, `CancelPanics` | `cancel_order` and `remove_order` with each `?`, `unwrap` and `expect` |
| `TakeReply` | the caller receives the result and may call again |

### Choices in the engine's model

- A call is many steps, though no other call can start in between. The steps let
  invariants be stated (and mutants caught) in the middle of the matching loop and
  let the liquidity scan and the loop that relies on it be different steps.
- The slab hands out *any* vacant key. The real one hands out a particular one,
  so every real run is covered. A slab grows as needed; the runs have a key for
  each id, and `IndexExact` bounds the nodes in use by the ids, so the model never
  runs out.
- Where the code tolerates an inconsistent state (`if let Some`, `?`) the model
  tolerates it in the same way: a write through a stale link is lost, a lookup
  fails. That such states do not arise is proved or checked, not assumed.
- Quantities wrap at `WordSize`: `Cargo.toml:38` (release) does not turn
  overflow checks on. In a debug build the same additions panic.
- Submitted orders have `remaining_qty = qty`: this is how every caller builds
  them. A price is given or not, whatever the type of the order, as `Option<Price>` allows
  and the errors of `validate` and `can_fully_fill` presuppose. Time stamps and ids are
  the caller's choice. A finished order's id may be
  used again, as `validate` allows.
- After a panic the engine is not used again, so the half-updated book that the
  unwinding leaves is not followed.
- `taker` keeps the last order until its reply is taken, so that properties can
  relate the two.
- Left out: log lines, the `CANCEL_CALLS` statistic, debug assertions, `Level.price` (it is
  the map's key), `BookEvent::Rejected` and `EngineError::Crosses` (nothing
  constructs them), `FillResult` (it carries values from `book.rs` to
  `engine.rs` within one step), and the read-only views `depth` and `spread`.

### The reconciler

`status` is the `SyncState`, with a third value for the loop of `on_snapshot`:
`on_diff` is one step, and `on_snapshot` is one step or a first one followed by
one for each turn of the loop. `buffer` holds the buffered diffs, then those the loop
has yet to apply; `book` the synced book, then the local one being built;
`outcome` what the last call returned.

| Action | Code |
| --- | --- |
| `BufferDiff`, `ApplyLive`, `LiveGap` | the three branches of `on_diff` |
| `SyncDirectly`, `RefuseSnapshot`, `StartBridge`, `ReplaceBook` | `on_snapshot`: no diff buffered, none straddles, one does, already synced |
| `BridgeDiff`, `BridgeGap`, `BridgeDone` | a turn of its loop, its early return, its end |
| `Publish`, `DeliverDiff`, `DeliverSnapshot` | the exchange and the network, which are external |

`hist[n]` is the exchange's book after its update *n*. `DepthUpdate` says what
a diff is: a range of updates and the levels they touched. `DeliverDiff` hands over
*any* range of past updates and `DeliverSnapshot` a snapshot of any past moment,
at any time; loss, repetition, delay, reordering and regrouping are all instances. A level
that is empty is listed in a diff with quantity 0, in a snapshot with 0 or not at
all. `tail` is a history variable: the end of the diff delivered last. Ids are
natural numbers (an exchange's clock in nanoseconds does not reach 2^64), and a
message lists a price at most once.

### The client and the terminal

Four processes: the exchange with its connection, the client task, the receive
task, and the main task with the terminal.

- `task` says where the client stands (`connecting`, `subscribing`, `reading`,
  `sending`, `sleeping`, `stopped`); `backoff` is `current_backoff`; `pending` the
  message an unfinished `tx.send` holds; `channel` the bounded channel, `receiver`
  whether its other end exists.
- `wire` is what is on the connection, in order, `link` whether the exchange still
  serves it, `now` the exchange's clock, `BookAt[n]` its book at time *n*. `lost`
  is a history variable: the times of books that went down with a connection.
- The receive task is the reconciler's `book` and `status`, and `view`, what the
  watch channel holds.
- `main` says where the main task stands; `call` which call of the terminal
  `init` or `cleanup` makes next; `raw`, `alternate`, `hidden` what those calls have
  done to the terminal; `drawn` the view on the screen; `faults` counts failed calls.

| Action | Code |
| --- | --- |
| `Connected`, `ConnectFailed`, `Subscribed`, `SubscribeFailed`, `Retry` | the reconnect loop; `Retry` is the end of any of its three sleeps and the longer backoff set after it |
| `ReadMessage`, `ReadNothing`, `StreamEnds` | the read loop: a text that parses to a message, any other, the end of the stream |
| `Send`, `SendFails` | `tx.send(..).await` with room in the channel, with nobody to receive |
| `PushBook`, `PushOther`, `HangUp` | the exchange and the connection, which are external |
| `ReceiveDiff`, `ReceiveTrade` | a turn of the receive task: the diff made into a snapshot, `on_snapshot`, the top levels, the view published |
| `EnableRaw`, `EnterAlternate`, `NewTerminal`, `InitFails` | `TerminalUi::init` |
| `Draw`, `DrawFails`, `Quit` | `TerminalUi::run`: a tick, a tick whose drawing fails, a key |
| `DisableRaw`, `LeaveAlternate`, `ShowCursor`, `CleanupFails` | `cleanup`, called by `run` and by `Drop` |
| `DropReceiveTask`, `DropClientTask`, `Exit` | the runtime drops the tasks, in either order, when main returns |

Choices:

- The receive task has no `await` between receiving a message and publishing the
  view, and only the watch channel is shared: each turn is one step.
- A connection delivers in order what it delivers, and ends at any time; a new
  connection can find what the old one left in the channel. The exchange sends its
  books in the order of its clock, and may repeat the last.
- A read has no timeout, so a connection that dies without a sign is waited on
  for ever; the model's connections end with a sign. See the hazards.
- Three sleeps are one state: what they follow makes no difference afterwards.
- Amounts: `Fixed` is the rounding of `(x * 1e10).round() as u64` with `Scale` for the
  number of digits, so that sizes round to 0 as the code's do. Prices that parse
  are taken exactly. Negative sizes, `NaN` and sizes beyond a word, which the cast
  saturates, are left out; so is the saturation of milliseconds times 1,000,000, which no clock
  reaches. `Multiplier` is a natural number where the code has a float.
- JSON syntax is the kinds it is told apart into: a book, trades, noise (pings and
  unknown channels) and texts that do not parse.
- A failing `init` leaves what its calls had done; `main` then ends in `failed` and
  nothing claims the terminal is restored. ratatui's own `Drop` of its terminal, which
  may show the cursor again, is left out: it can only help `Restored`.
- `Ladder` keeps what the table says (order of rows, totals, bars, spread) and leaves out
  colours, digits, the header line and the debug log. Its sums are exact.

## 3. Model checking

| Run | Instance | Shows |
| --- | --- | --- |
| `engine` | 4 ids, 4 slots, prices 1..2, quantities 0..2, words of 16 | all safety invariants and the refinement |
| `engine_wrap` | 3 ids, quantities 1 and 3, words of 4 | what still holds when totals wrap |
| `event_feed` | 3 ids, quantities 1..3 | the event stream is sufficient and truthful |
| `depth_feed` | 4 updates of a bid and an ask, quantities 0..2, 3 diffs buffered | the copy is always one the exchange had |
| `terminal` | 2 books of 5 prices, a channel of 1, a connection of 1 message, views of 2 levels, up to 2 failing calls of the terminal, backoff 1 to 3 | the screen follows the exchange through every interleaving and failure |
| `claim_timestamp`, `claim_market_fok`, `claim_ioc`, `claim_total_qty` | 3 ids | the engine's disagreements below |
| `claim_snapshot` | 3 updates, 2 diffs buffered | the reconciler's |
| `claim_stamps` | the units of the program | the adapter's |

What the properties say:

- `IndexExact`: an id leads to the node of its own order and every stored order is
  found by its id. Slots are reused, so an entry left behind would cancel
  somebody else's order.
- `LevelsExact`: a price is a key of its map exactly while an order rests there.
- `QueueExact`: walking a level from its head meets each of its orders once and
  ends at its tail, and `prev` retraces the walk. Covers the cases of `remove`
  that `checklist.md` lists as not yet tested (middle, tail).
- `TotalQtyExact`: each level's running total is the sum over its orders.
- `Uncrossed`: bids are below asks, in the middle of a call too.
- `NoPanic`: no `unwrap` or `expect` of a cancel fails.
- `FokAllOrNothing`: a FOK order that is taken on is filled, and one that is
  killed has traded nothing and could not have been filled within its price.
- `ReplyAccountsForOrder`: traded, resting and cancelled add up to what was asked.
- `OnlyGtcLimitRests`: IOC, FOK and Market remainders never rest, and no order
  rests with nothing left.
- `ImplementsPriceTime`: every behaviour is one of `PriceTimeBook`. Price
  priority, time priority, trade prices, error replies and the absence of side
  effects in refused, killed and unknown requests are all in it. An answer is to the
  order it was asked about (`subject`): a refusal names a fault of that very order in
  the book as it stands, and an admitted order has none. The engine keeps no record of
  a cancel's id, so what ties `OrderNotFound` to the id asked for is `IndexExact`. An order counts
  as incoming once it has passed `validate` and the liquidity scan; a scan is a
  stutter.
- `FeedReconstructsBook`, `TradesNameKnownMakers`: a consumer that applies the
  events in order holds, between calls, the id, price and quantity of exactly the
  resting orders, and each trade names a maker known to rest at that price with
  that much left. `types.rs:57` names such a consumer (a bot's fill tracking); it is not in the
  repository and is modelled by what the events' fields allow.
- `MirrorsExchange`: a synced book is the exchange's book after the update it
  names, whatever the network did.
- `StandsAtTail`: a book bridged from buffered diffs, and one advanced by live
  diffs since, stands where the last delivered diff ended, so that a stream
  without holes is not taken for a gap. A book synced by a snapshot alone need not:
  diffs still on their way that it already contains are rejected as a gap.
- `ErrorsStartAfresh`: each of the three error paths leaves no book and no diff.
- `TerminalTypeOK`: types, and that the channel stays within its capacity.
- `DelayFits`: the backoff stays within its bounds, and a connection that has come
  about always resets it.
- `NothingDropped`: a full channel delays; each book that was sent is in flight, has
  arrived or been overtaken, or was lost with its connection.
- `Restored`: one failing call of the terminal, whichever, does not keep `cleanup`
  and `Drop` together from restoring it. Two can: `cleanup` stops at its first error.
- `ShownAsSent`: the screen against the text. Of the book it names, it shows exactly
  the best levels whose sizes parse and make half a stored unit or more, each within
  half a unit of the number that was sent; a number that does not parse costs its
  own level only. It does not use the parser's operators, so a parser that cuts
  fractions off, or one that drops a whole book with a level, would violate it.
- `TableReadsTrue`: the table drawn is one ladder. Its prices fall from top to
  bottom, the spread is the gap in its middle, totals are what the exchange offered
  down to that price, the bars follow the totals and the deepest is full. That prices
  fall needs `Parted`, that every bid shown is below every ask: of a crossed book, and
  of a locked one (best bid and best ask equal, spread 0), they do not. The code shows
  whatever book the exchange sent.
- `ImplementsDisplay`: every behaviour is one of `Display`. Through the wire, the
  hands of the client, the channel, the reconciler and the watch channel no book is
  torn, made up or shown after a newer one.
- `ReceivedIsShown`: a book the client has read, or a later one, reaches the screen
  unless the program ends.
- `OutagesEnd`: a client that sleeps reads again, if connecting and subscribing
  succeed when tried often enough.
- `OutagesSlowRetries`: if they never do again, the wait ends up at its maximum and
  stays there.

Ids may go back: in `Synced` a late snapshot replaces the book. The code and its
comments agree on that, and the book remains one the exchange had.

### Bounds

Two prices are the least with which "best" and "beyond the limit" mean
something, on both sides at once. Four ids let three orders queue at one price,
so that head, middle and tail can each be cancelled or used up, while a fourth
trades with them; all slots are then reused in every order. Quantities of 1 and 2
give partial and exact fills and orders that sweep two levels; 0 exercises
`ZeroQty`. With words of 16 no total (at most 8) wraps; with words of 4, 3 and 1
already do. One time stamp is enough where stamps are only copied; the claim about
them has two. There is no state constraint. Ids and slots are only compared, so
permuting them is sound: all properties of these runs are safety properties.
`CHECK_DEADLOCK FALSE` appears only where `panicked` is reachable: there the
program has stopped.

In `depth_feed`, three buffered diffs are a stale one, one that straddles and one
that follows or leaves a hole; four updates allow each of these to span two. The
sides are treated alike and independently, so one price each is enough to tell them apart,
and two positive quantities tell an overwritten level from a kept one.
`MaxUpdate` and `MaxBuffer` are guards on the environment; the proofs hold for
every value of them.

In `terminal`, a channel of one message is full after one, so the client blocks
while the connection fills behind it: every place a message can wait in is full at
once, with a book each or a trade between. Two books are enough to be overtaken,
torn or repeated; between them a level appears, vanishes, changes, rounds to
nothing and does not parse, and on each side one of the books has more levels than
the view. A backoff of 1, 2, 3 grows, is cut off and is reset. Counting
failed calls up to two tells none, one and more apart; the failures themselves are
not bounded. `MaxTime` and `MaxWire` are guards on the exchange. The safety invariants
were found to hold with two messages on the connection as well (813,640 states),
and the proofs hold for every value of each constant. The program ends in
`Exited`, which stutters, so deadlock is checked.

### When totals wrap

In `engine_wrap` a level can vanish with orders in it and a cancel can panic
(the action fires in that run). `LevelsExact`, `TotalQtyExact`, `NoPanic`,
`FokAllOrNothing` and `ReplyAccountsForOrder` do not hold there: for example, a
FOK order is taken on by a wrapped scan, is not filled, and is answered `Ok` with
only `Accepted`, since the FOK arm of `apply_tif_to_remainder` is empty. What is
left, and is checked, is that ids and slots still match and that nothing rests
that should not.

### Findings

1. `types.rs:65` says the older time stamp trades first; `push_back` queues by
   arrival and nothing compares stamps (`claim_timestamp`).
2. `engine.rs:98` says Market has no price to compare; `can_fully_fill` compares
   the price of a Market FOK order that carries one and kills it
   (`claim_market_fok`).
3. `engine.rs:145` says an IOC remainder is discarded with nothing extra emitted;
   the code emits `Cancelled` (`claim_ioc`).
4. `checklist.md:13` says the `total_qty` invariant holds after every operation;
   it does not when two orders at a price exceed `u64::MAX` together
   (`claim_total_qty`).
5. `reconciler.rs:19` calls the error "snapshot too old"; `on_snapshot` answers it
   to a snapshot that is newer than every buffered diff, too, although nothing is
   then missing (`claim_snapshot`).
6. `types.rs:30` says a time stamp is in nanoseconds; the adapter converts those of
   books (`hyperliquidadapter.rs:77`) and passes on those of trades in milliseconds
   (`claim_stamps`).

### Fairness

The engine has no fairness and needs none. Its calls are straight-line code on their
caller's thread, with no lock, await or I/O, and nothing obliges a caller to make one.
That its two loops end is plain from the code: one runs over the levels of a side, each
turn of the other uses up an order or the taker.

In `Terminal`, each task is weakly fair on its own: the runtime polls a task that
can go on, and none of them holds on to its thread. For the main task this covers
`init`, drawing and `cleanup`: its `select!` picks at random among what is ready,
so keys cannot keep the tick from coming for ever. Nobody has to press a key, no
call of the terminal has to fail, and neither has the exchange to be reachable,
to send anything, or to hang up. `OutagesEnd` alone needs more, and says so in its
premise `Reachable`: an exchange that is tried again and again is reached and
subscribed to in the end.

## 4. Proofs

All theorems are for every value of the constants: any sets of ids, prices,
quantities and stamps, any slab, any word size, under `OrdersAssumption`,
`NoneAssumption`, `PriceLevelAssumption`, `FeedAssumption` (which only say that words
are words and that `None` is not one of the things it stands for the absence of) and
`SlabAssumption`: the keys of a slab are `usize`, hence finitely many.

| Theorem | Statement |
| --- | --- |
| `TypeCorrect` | `Spec => []TypeOK` |
| `IndexAlwaysExact` | `Spec => []IndexExact` |
| `OnlyRemaindersRest` | `Spec => []OnlyGtcLimitRests` |
| `LevelsStayExact` | `Spec /\ []TotalsFit => []LevelsExact` |
| `BookStaysUncrossed` | `Spec /\ []TotalsFit => []Uncrossed` |
| `CancelNeverPanics` | `Spec /\ []TotalsFit => []NoPanic` |
| `QueuesStayExact` | `Spec /\ []TotalsFit => []QueueExact` |
| `TotalsStayExact` | `Spec /\ []TotalsFit => []TotalQtyExact` |
| `FillOrKill` | `Spec /\ []TotalsFit /\ []ScanFits => []FokAllOrNothing` |
| `RepliesAccount` | `Spec /\ []TotalsFit /\ []ScanFits => []ReplyAccountsForOrder` |
| `EngineImplementsPriceTime` | `Spec /\ []TotalsFit /\ []ScanFits => ImplementsPriceTime` |
| `AmpleWordsSuffice` | `Spec => [](TotalsFit /\ ScanFits)`, if `Ample(most)` |
| `AmpleEngineImplementsPriceTime` | `Spec => ImplementsPriceTime`, if `Ample(most)` |
| `EventsTellBook` | `FeedSpec /\ []TotalsFit => []FeedReconstructsBook` |
| `TradesNameAnnouncedMakers` | `FeedSpec /\ []TotalsFit => []TradesNameKnownMakers` |
| `BeliefsTyped` | `FeedSpec /\ []TotalsFit => []FeedTypeOK` (of `EventFeed`) |
| `AmpleEventsTellBook` | `FeedSpec =>` all three of these, if `Ample(most)` |
| `FeedTypeCorrect` | `Spec => []FeedTypeOK` (of `DepthFeed`) |
| `AlwaysMirrors` | `Spec => []MirrorsExchange` |
| `AlwaysAtTail` | `Spec => []StandsAtTail` |
| `ErrorsAlwaysStartAfresh` | `Spec => []ErrorsStartAfresh` |
| `TerminalTyped` | `Spec => []TerminalTypeOK` (of `Terminal`) |
| `DelayBounded` | `Spec => []DelayFits` |
| `NoBookDropped` | `Spec => []NothingDropped` |
| `TerminalRestored` | `Spec => []Restored` |
| `ScreenShowsTheExchange` | `Spec => ImplementsDisplay` |
| `SizesAreShown` | `Spec => []ShownAsSent` |
| `TableIsTrue` | `Spec => []TableReadsTrue` |

`TotalsFit` says that the quantity about to rest fits in its level's total,
`ScanFits` that what the liquidity scan is about to count fits in its sum. The
premises are needed: with the words of `engine_wrap` the conclusions fail (see "When
totals wrap"). They speak of a run, and `AmpleWordsSuffice` says which constants grant
them: `Ample(most)` is that no order asks for more than `most` and that `most` for
each slot of the slab and for the incoming order is less than a word. The `engine`
run is such an instance, and so is 64 bits with a thousand million orders of 10^10 units each.

**Types and index** (`EngineProofs`). `TypeInv` adds to `TypeOK` what the steps
rely on: a call in progress has a taker, which was validated, and one that is over has left
a reply. `IndexInv` adds to
`IndexExact` that the taker's id is not in the index while its call runs; this is what
`validate`'s duplicate check establishes and what lets `insert_resting` overwrite
the entry safely. No operation's effect on totals matters here, so no premise
about overflow is needed.

**What rests** (`EngineProofs`). `OnlyGtcLimitRests` is inductive together with
`TypeInv` and `TakerWithin`, that no more is left of the order being worked on than
was asked: a partial fill leaves its maker something because the other case frees
the slot, and `validate` has seen that a GTC order is a limit order. It needs no premise
about totals: `LevelsExact` fails where they wrap, this does not.

**Shape** (`BookProofs`). `LevelsExact` is far from inductive. A level holds two
ends and a sum; that the sum reaching 0 means the list is empty is a fact about
all of its nodes, and a sum over a linked list is recursive. The proof avoids the
recursion with a witness: there is a function `ahead` that gives, for each stored
order, the quantity queued in front of it. `Measures(ahead)` is then local: 0 at
a head, each link adds one order's quantity, the tail reaches the total, and the
stretches of two orders of a level do not overlap (which is what makes one list
of them). With `Filed` (every stored order has quantity left and a level), `Ends`
and `Links` this is `ShapeInv`. Each operation preserves it by naming the new
witness: unlinking an order lowers `ahead` for those behind it (`UnlinkShape`), a
partial fill of the head likewise (`LowerShape`), an order that joins the tail
starts at the old total (`AddShape`, where `TotalsFit` is used). From `ShapeInv`
follow `LevelsExact` and that a cancel finds its level and enough in its total.
`Uncrossed` needs in addition that a best price exists (`BestExists`, a
least-number argument from the library's well-founded induction) and that its
level always has a front order (`BestHasFront`): otherwise the matching loop
could stop early and rest a crossing order. `BookInv`, the conjunction, is the
inductive invariant.

**Queues and sums** (`FiniteSums`, `QueueProofs`). `QueueExact` and `TotalQtyExact`
follow from the shape alone. The sums of the model are recursive, and the prover
cannot apply an induction theorem to them; but a statement about the sums over the
subsets of a finite set can be proved by looking at a smallest subset for which it
fails. `FiniteSums` proves in this way that sums exist, that it does not matter which
element is taken out first, and what adding, removing and renaming elements does.
`AheadIsSum` then shows that `ahead` is the sum over the orders in front, so that the
total, which the tail reaches, is the sum over the level. The place of an order is one
more than the number of those in front of it; places are 1 to *n* without a gap
(`LineExists`) and links lead from each to the next, so the walk visits all of them
(`WalkIsLine`; the walk is a recursive function too, and equal to any line of keys
that obeys its equation, `ChainIs`).

**Calls** (`QueueProofs`). `FokAllOrNothing` and `ReplyAccountsForOrder` speak of a
call that is over. The inductive invariant `CallInv` says what holds while it is under way.
`Scanning`: the scan has added up exactly the orders at the levels behind its cursor,
all within the limit, and they were not enough. So when there is no further level to
count, they are all the order can reach, and the kill is right (`KillFalls`);
when they suffice, so does what is reachable. `Matching`: a fill-or-kill order in
the loop never has more left than it can reach, because each turn takes the same
from both (`TakesLeft`, `MatchStaysCovered`); with something reachable, the best level is within
reach and the loop goes on (`ReachIsBest`), so it can only end filled. Also in
`Matching`: what was reported as traded and what is left add up to what was asked.
`AtRest` says that nothing of a call is left between calls.

**Ample words** (`QueueProofs`). `Modest(most)`, that no order stored or under way
has more than `most` left, is inductive; the sum over a set of orders is then
at most `most` for each slot (`ModestSums`), and with `CallInv` every total and
every scan is such a sum. The premises `TotalsFit` and `ScanFits` of one step
follow from the invariant before it, so the induction is not circular.

**Price-time** (`RefinementProofs`). The mapping reads each queue by walking a
level. What a step does to the walks is stated for three kinds of change: an order is
unlinked (`UnlinkQueues`: its queue loses the element at its place), the first is lowered
(`LowerQueues`), one is added at the tail (`AddQueues`); all other queues stay
(`OneQueue`). Each finds the walk after the step by giving a chain of links of the
right length (`NewWalk`). What the abstract book asks before it acts is
brought down to what the code asks: the first price of a queue is the best price
(`FirstIsBest`), an order is booked when it rests (`BookedIsResting`), and the abstract liquidity
test is the sum over what is reachable (`CoverableIsReachable`). Then each action
has its lemma: `Admit` of an order that is not fill-or-kill and the last `ScanLevel` are
the abstract book taking an order on, the other `ScanLevel`s are stutters, `Kill` and
`Refuse` its refusals, `Match` its execution, `Filled`, `Rest` and `Discard` the
settlement. Each answers the taker (`ReturnAnswers`), a cancel nobody's order; that a
reply which is taken was there (`Answered`, part of `TypeInv`) makes `TakeReply` a step of the
abstract book and never a stutter.

**Events** (`FeedProofs`). What a consumer believes after a reply is a fold over
its events. The invariant `Heard` carries the fold as a witness, the train of beliefs after
each event so far (`Tells`), whose last is at every moment the picture of the book:
each step of a call appends an event and extends the train by what the step does to the one
order concerned (`PictureChanges`, which needs `IndexExact`). A train obeys the
equation of the fold, and only one function does (`BelievedIs`). That a discarded
remainder's `Cancelled` withdraws nothing rests on `TakerUnindexed`.

**Mirror** (`DepthProofs`). `MirrorsExchange` speaks of synced books only. The
inductive invariant `FeedInv` adds that the book under construction in the loop
is one the exchange had as well (`BookHonest`), that every buffered diff is an
honest account of its range (`BufferHonest`), where the last of them ends
(`TailHeld`), and what each state leaves empty (`NothingLeft`). The heart is
`DiffAdvances`: a diff applied to the book after update *n* yields the book after
its final update whenever it straddles *n* + 1. For a level the diff does not
list this needs that a level untouched throughout a range keeps its quantity
(`UntouchedLevel`), an induction done by the least counterexample. The assumptions
are `MarketBookAssumption` and `DepthFeedAssumption`: quantities and bounds are
natural numbers, and `None` is not one.

**Screen** (`TerminalProofs`). That the screen never goes back in time is not
inductive: it depends on the order of everything that is still to come.
`OrderInv` says that the ids of books grow along the whole way: the book on the
screen is not newer than the view, the view is the reconciler's book, that is not
newer than any book in the channel, those are in order, none is newer than the
one the client holds, and that one, or the last in the channel, is not newer than what
is on the wire; nothing is newer than `now`. `HangUp` cuts off a tail and a new connection starts with
an empty wire, so reconnecting preserves it. `ShownInv` says that the book, the
view and the drawn view each are blank or made from the book of one time, which is
what keeps them from being torn. `TerminalInv` adds `TypeInv` (`TerminalTypeOK`, and that a reconciler fed by
snapshots alone never buffers) and `NothingDropped`, whose
step for the receive task needs the order: a book that arrives must overtake
whatever it replaces. `ScreenShowsTheExchange` follows from `TerminalInv` step by
step: `PushBook` with a new time is `Publish`, `Draw` of a newer view is `Show`, all
else is a stutter. The wait (`DelayFits`) is inductive on its own; the terminal is,
given types, with `ScreenInv`, which says for each place in `cleanup` what is undone
so far and where nothing can have failed yet. The assumptions are those on the constants,
`MarketBookAssumption`, `AdapterAssumption`, `ClientAssumption`, and
`TerminalAssumption`, whose bound on counted failures must be at least 2 since a
count that stops at 1 could not tell one failure from more.

**Sizes** (`TerminalProofs`). `SizesAreShown` rests on `ShownInv` too: what is drawn
under the id of a time is the view of that time (`DrawnIsView`). `FixedIsNear` is the
arithmetic of rounding, for any `Scale`; `KeptWhenItAmounts` says that a level is kept exactly when
its text amounts to half a unit, so that the number of better levels, which
decides whether a level has room in the view, can be counted on the texts.

**Table** (`TerminalProofs`). `TableReadsTrue` follows from `ShownInv`: what is drawn
and bears the id of a time is the view of that time. The rest is about
`render_frame`'s operators, for any depth of the view and any book. `LevelsAre`: the
level of rank `i` exists and is unique, since of two prices the better has strictly
fewer prices ahead of it and ranks are therefore a bijection (`Ranks`). `TotalsAre`:
the running total of a row is the sum over the levels down to its price, because
only one function satisfies the recursion (`OneTotal`, by the least
counterexample) and the sums do. `OfferIs`: that sum is what the exchange offered
down to that price, although a view has only the best levels: everything better
than a level of the view is in the view (`ViewHasBest`), and what could not be
read or rounded to nothing adds nothing. `BarsAre`: rounding keeps the order, and the deepest bar comes out
full. `PricesFall` and `SpreadIsGap` put the reversed asks and the bids together.
`LadderAssumption` is used here: prices are finitely many positive words
(`render_frame` itself takes a best price of 0 to mean that there is none) and the
scale of the bars is positive.

Model-checked only: liveness. The prover cannot
reason about fairness and `ENABLED`, so `ReceivedIsShown`, `OutagesEnd` and
`OutagesSlowRetries` stay with TLC.

## 5. Mutants

Each property of each passing run is paired in `PROJECT.json` with a plausible bug
in a definition it depends on, written next to it as an operator marked
"Mutant:" (an index entry kept, a total not counted, a link not spliced, a strict
comparison, an IOC remainder rested, and so on). With the bug in place the run
finds the property violated. No specification refers to these operators.

## 6. Not modelled

JSON and floating-point syntax, colours, digits and the header line of the table,
logging, the benchmarks, and the programs that only print (`src/main.rs` of the
crates, `bin/debugger.rs`): they have no state of their own.
`adapters/binanceadapter.rs` is empty. `Reconciler::on_diff` has no caller in the
terminal, which turns every diff into a snapshot: it is checked in `depth_feed` only.

Four hazards stay without a property because the code promises nothing about
them: a snapshot that syncs while older diffs are on their way, a connection that
dies without a sign (and the mark of a synced book that stays on), the trades of a
batch after the first, and an `init` that fails after raw mode is on.
`PROJECT.json` lists them with the reason.

Every safety property of the passing runs is proved. Worth stating and proving next:
an abstract specification of a copy of an exchange's book (blank, or one of the books
the exchange had) that `DepthFeed` implements, as `Terminal` implements `Display`.
