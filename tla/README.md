# Verification of eXSimulator

TLA+ models of the exchange simulator, model-checked with TLC on small
instances and proved with TLAPS for all. Paths such as `engine/order_book.cpp`
are relative to the repository's `src/` and `include/` directories;
`PROJECT.json` maps every definition to the lines it models.

## 1. The system

The repository is a single-process exchange: agents or a gateway send orders to
a `MatchingEngine`, which hands them to the `OrderBook` of their symbol, which
keeps its orders in `PriceLevel` queues and calls back with trades, execution
reports and BBO updates. An `SPSCQueue` takes messages from a gateway thread to
the engine thread. `main` runs a simulation: in every tick each agent has a
turn, and a `LatencyHistogram` records how long the tick took. An
`EventJournal` writes a binary log, and a `ReplayHarness` reads it back.

```
 Agents ──direct calls──────────────► MatchingEngine ──► OrderBook ──► PriceLevel
 gateway ─enqueue_*─► SPSCQueue ─────►      │                │
 anyone ──stop()─────────────────────►      └──callbacks◄────┘
 EventJournal ──file──► JournalReader ──► ReplayHarness
```

| Component | State | Operations | What is hard | What makes it correct |
| --- | --- | --- | --- | --- |
| `OrderBook` (engine/order_book, core/order, core/trade) | live orders; bid and ask levels; cached best prices; last BBO sent; batch of trades; callbacks | `add_order` (limit, market, IOC, FOK, post-only), `cancel_order`, `replace_order`, `flush_pending`, `set_*_callback` | two records of every resting order; caches that may be stale; a matching loop that restarts; early returns after side effects; a read of an erased order | price-time priority; never crossed; all-or-nothing FOK; maker-only post-only; both records agree; no trade lost; every call returns |
| `PriceLevel` (engine/price_level) | doubly linked heap nodes, index, totals | `add_order`, `remove_order`, `modify_quantity`, `pop_front`, `fill_front`, destructor | pointers at the ends of the list; index entries that outlive or lose nodes; incremental unsigned totals | list well linked both ways; index names live nodes only; nothing leaks; a FIFO |
| `SPSCQueue` (utils/spsc_queue) | ring of slots, two atomic indices, a cached copy of each | `try_push`, `push`, `try_pop`, `pop` | two threads; slots are not atomic; loads may be stale | bounded FIFO; a slot is never read while it is written; `push` gets through |
| `MatchingEngine` (engine/matching_engine) | books by symbol, callbacks, inbound queue, `running_`, statistics | `add_symbol`, direct calls, `enqueue_*`, `process_one`, `process_queue`, `run`, `stop`, `set_*_callback`, `reset_stats` | gateway, engine and `stop()` interleave; direct calls mix with queued ones | cancellations prevail; callbacks reach every book; the queue drains; `stop()` ends the loop |
| `EventJournal` (replay/event_journal) | file, stream buffer, sequence number | constructor, `log_order`, `log_trade`, `flush`, `sync`, `close`, destructor | a crash between any two bytes; reopening | what is flushed survives; records are whole or at the end |
| `JournalReader`, `ReplayHarness` (replay/event_journal) | stream position and state, current sequence number | `read_next`, `seek_to_sequence`, `step`, `replay_all`, `replay_until`, `verify_against`, `verify_checksum` | reading while the file is written, or after a crash; two streams in step | a replay is a prefix of what was logged; a journal passes only for what it is |
| `Agents` (agents) | next identifier, identifiers of the own quotes, position, prices seen | `on_tick`, `on_fill`, `on_bbo` | identifiers shared by agents of one symbol; positions and prices that are stale or were never told; missing sides | a maker loses no order, does not trade with itself, and stays within its limit as far as it knows |
| `main` | ticks, totals of the trade callback | the loops over ticks and agents | figures counted twice | the simulation ends; the totals agree |
| `LatencyHistogram` (utils/histogram) | buckets, count, sum, extremes | `record`, `percentile`, `merge`, `reset` | bucket boundaries, both ends of the range | a percentile is the latency of its rank, for the latencies there are buckets for |
| `EngineRunner`, `Timing`, `replay_kraken`, scripts | — | — | I/O, clocks | — |

The hazards — what can go wrong in this code and a unit test would hardly
reach — are in `PROJECT.json`, each at its line and with the properties that
would notice.

## 2. The modules

| Module | Models | Lines of code it stands for |
| --- | --- | --- |
| `LevelQueue` | a price level as a sequence of nodes (operators only) | price_level.cpp |
| `OrderBook` | the order book, one step per decision of the code | order_book.cpp, order.hpp |
| `IdealBook` | the abstract specification: two sides of FIFO queues, pairs of orders that must not trade, one action per thing a client can observe | — |
| `OrderBookRefinement` | the mapping of `OrderBook` to `IdealBook`, and the contract it keeps with the engine | — |
| `OrderBookClaims` | what comments, tests and the README say and the code does not do | — |
| `PriceLevel`, `LevelFifo` | the linked list on an explicit heap; the queue of `LevelQueue` it implements | price_level.cpp |
| `SPSCQueue`, `BoundedFifo` | the ring, one step per shared access; the FIFO it implements | spsc_queue.hpp |
| `BookContract` | what a caller of a book may rely on (operators only) | order_book.cpp, seen from outside |
| `MatchingEngine` | the engine over a FIFO inbox and books that do what `BookContract` allows | matching_engine.cpp |
| `EventJournal`, `JournalReplay` | the writer and the file; the reader and harness over it | event_journal.cpp |
| `Simulation` | the agents and the loops of `main`, over the ideal book | agents.hpp, market_maker.cpp, momentum.cpp, noise.cpp, main.cpp |
| `LatencyHistogram` | the histogram; its buckets as a bag | histogram.hpp |
| `MCOrderBook`, `MCJournalReplay`, `MCSimulation`, `MCLatencyHistogram` | values of constants for TLC | — |
| `MCUtilities` | `SPSCQueue` and `LatencyHistogram`, which share nothing, in one run: a behaviour uses one of them | — |
| `LevelQueueProofs` | lemmas about the operators of `LevelQueue`, and about folds and sums | — |
| `OrderBookProofs` | theorems about the book, part by part: its prices and the matching; its two records of an order; its fills and what is heard of them; FOK orders; what the engine and the clients see of it, the contract and the ideal book | — |
| `PriceLevelProofs`, `SPSCQueueProofs`, `MatchingEngineProofs` | theorems about the level, the ring and the engine | — |
| `SimulationProofs`, `JournalReplayProofs`, `LatencyHistogramProofs` | theorems about the agents, the journal and its replay, and the histogram | — |

How they compose: `PriceLevel` is shown to implement the operators of
`LevelQueue`, on which `OrderBook` is built; `OrderBook` is shown to keep
`BookContract`, on which `MatchingEngine` is built; `SPSCQueue` is shown to
implement `BoundedFifo`, which is the inbox of `MatchingEngine`; `OrderBook`
is shown to implement `IdealBook`, with which the agents of `Simulation` trade.

Definitions commented *Faulty* are variants of the definition that follows them
with a plausible bug. They take no part in the specifications; each shows that
some property would notice (`mutants` in `PROJECT.json`).

### OrderBook

`orders`, `levels`, `best`, `lastBbo`, `pending` and `callbacks` are the members
of the class. A level that is not in the map is `<<>>`. A call is several
steps. `AddOrder` enters `add_order`; `Reject` is every early return before
matching, in the order of the code, `Admit` the call of `match_order`. In its loop `RefreshBest`
recomputes a cached price that has no level, `DropGhost` pops a node whose
order is gone, `SelfTradeStop` is the break of self-trade prevention,
`FillResting` is one fill with everything that follows it (trade, batch, removal
of the filled order, of the emptied level, new best price), `StopMatching` the
loop condition. `FinishIOC`, `KillFOK`, `Rest` and `Complete` are the four
endings of `add_order`. `Cancel`, `Amend` and `Move` (replace at the same or
at another price), `FlushPending` and `SetCallbacks` are the other calls.
`fills`, `carried` and `events` are not in the code: they remember what one
call did, so that properties can compare it with what was reported.

Faithfulness where it matters:

* `cancel_order` uses `order.side` through a reference to the element it just
  erased (order_book.cpp:141-146). The model picks either side unless
  `FreedMemoryIntact`.
* `replace_order` at the same price sets the quantity of the order and its
  node and leaves `filled_qty` alone; `remaining()` then wraps modulo `QMod`
  (2^32 in the code). The constant `UnguardedAmends` says whether clients do
  this to orders that already traded or with quantity 0; the properties that
  need orderly clients name it.
* the FOK check adds levels in ascending price on both sides and in wrapping
  arithmetic; `avg_fill_price` of a market buy overflows a signed integer and is
  then any outcome; members of `OrderResult` that are not initialised are
  `Indeterminate`.

Left out: sequence numbers, timestamps and symbols of trades; queries other
than the quantities and prices the properties need; orders a caller passes with
`filled_qty` already set; prices at or below 0, which the safety properties exclude
(`NormalPrices`): an ask at 0 ends matching without looking at it.

### PriceLevel

Nodes have addresses on an explicit heap; `Addresses` bounds the length of the
list, and freed addresses are handed out again. Every branch of `unlink` is a
case. The level must behave like `LevelQueue` also when an identifier is added
twice, because `add_order` does not look. Moving a level is left out: nothing
in the repository does it.

### SPSCQueue

One step per access to memory both threads touch. A slot holds `Torn` while it
is written. A load of the other thread's index returns any value that index has
had since the thread last loaded it, so that everything the C++ memory model
allows acquire loads to return is covered; the release store publishes the slot.
`Capacity` is any positive number: the code's masks are remainders for powers
of two.

### MatchingEngine

One gateway enqueues, the engine thread makes every other call, `stop()` comes
from anywhere. A pop may find nothing although a message is there (the load may
be stale), as `SPSCQueue` allows. A call to a book takes the steps of
`BookContract`: trades, each ending the taker, a live order or both; an
acceptance or refusal, even after trades. Message and `stop()` arrive between those steps.
`withdrawn` is not in the code: it remembers orders whose last queued
message is a cancellation. Direct calls from a second thread are a data race in the code
and not modelled. `EngineRunner` starts no thread; its `stop` is the
engine's, its own flag is left out.

### EventJournal and JournalReplay

A file is a sequence of cells, each a piece of a record, so that records can be
torn. The stream buffer spills any prefix at any time (`Spill`), `Crash` loses
the rest, `Open` appends and numbers from 0. The reader makes one step per
read; `HeadersAt` gives the header when the cells are one, and anything in
`StrayHeaders` when they are not. `logged`, `flushed`, `torn`, `replayed` and
`start` are history. `verify_against` reads the harness's journal and another
in step; the other is `expected`, what a reader makes of it, chosen when the
comparison begins. A payload is told from another as the code does it, byte by byte, and a
checksum is right unless the payload is not the one that was logged, or the
process never created an `EventJournal`, whose constructor fills in the table of the checksums. Loss of power is left out: `sync()` does no more than
`flush()` (event_journal.cpp:108-122 says so), hence nothing is promised there.

### Simulation

The constructors are `Init`; `NextTurn` is the loops of `main`, also for an
agent that decides to do nothing. A market maker's turn is `update_quotes`, one
step per call of the engine (`StartQuoting`, `CancelBid`, `CancelAsk`,
`QuoteBid`, `QuoteAsk`), the others' is one submission (`FollowTrend`,
`MakeNoise`). `Submit`, `Trade` and `Return` are the call of `submit_order`:
refusals, one trade at a time, the end with its report and its BBO update. The book is
the ideal one with no pair barred: `main` leaves self-trade prevention off. Random draws
are choices: whether an agent acts, sides, sizes of `NoiseSizes`, deviations
of `Deviations`.

`main` tells no agent of fills or prices. The handlers are there to be called,
by a driver that forwards what the engine's callbacks hear, and such drivers
(`Drivers`) are modelled beside `main`: `informed` holds what is forwarded.
Reports go to the agent that submitted the order, for the order book reports
on takers only (order_book.cpp:119). A missing side of a BBO is the largest
integer; what the sum of it and a price comes to after an overflow, halved, is `Wrapped`,
any number below every price that is asked for. A threshold decides whether momentum
agents follow a trend; the model takes every change for one that exceeds it.
`owner` and `inventory` are history: who submitted the live order of an
identifier, and what each agent really holds.

Left out: `cancel_all`, which is private and never called, statistics of the
agents, several symbols (they share the counters only), and the arguments of `main`.

### LatencyHistogram

`Bucket` and `LowerBound` are the two conversions of the code, in integers as
there. The sum has 64 bits in the code; `MaxSum` keeps it within the
32 bits of TLC, and `MaxRecords` bounds the count. `recorded`, the bag of the values themselves, is history; the
properties compare percentiles with it. Percentiles are in tenths of a percent:
for the counts of the instance the product in floating point and its truncation
are that quotient exactly.

## 3. What TLC checks

| Run | Instance | Shows |
| --- | --- | --- |
| `ideal` | 3 orders, two of one owner, 2 prices, limit, market, IOC and FOK orders, self-trade prevention, batches of 2 | with orderly clients: the caches are exact, orders and nodes agree at every step, FOK is all or nothing unless an own order is in the way and refused only when short, batches are flushed, no trade is lost, repeated or reordered, orders leave the book only by a cancellation or a fill of all they had, the book keeps `BookContract`, and the whole implements `IdealBook` (price-time priority) |
| `hostile` | 2 orders, 2 prices, quantities modulo 4 and 0 among them, post-only too, amendments after trades, freed memory reads as anything, callbacks installed and removed between calls | even so the book is never crossed, post-only never takes, no trade is lost, and every call returns |
| `level` | lists of 3 nodes, 2 identifiers, quantities modulo 4 | the linked list, index and totals implement `LevelQueue`; nothing leaks or dangles |
| `engine` | 1 symbol that may be unknown, 2 orders, inbox of 2, statistics up to 2 | queued cancellations prevail, callbacks reach every book, the inbox drains, `stop()` ends the loop |
| `simulation` | 4 ticks, two makers or a maker and a momentum agent, with a noise trader; drivers that forward nothing, fills, or fills and prices | makers lose no order, never trade with themselves, keep the position they know of within the limit; `main` and the engine count alike; the simulation ends |
| `utilities` | a ring of 4 slots and 2 items, or 2 histograms with 3 records, latencies at the boundaries of buckets, at 31744 ns, a millisecond and a second | the ring implements `BoundedFifo` with 3 places, slots are exclusive, a blocked push returns; percentiles are the latencies of their ranks up to a sixteenth below the last bucket, and never more; extremes and percentiles agree |
| `replay` | 3 records in 2 lives of the journal, headers of 2 cells, payloads of 2 and 3 | replays are faithful, flushed events survive a crash, seeking finds the first record, and `verify_against` accepts a journal only if every record equals the other's, and then does where the table of checksums is filled |

Five runs end in a violation, each of a sentence of the repository that the
code does not keep (`findings`):

* `stale_best`: after a cancellation the cancelled price stays the best price.
* `kill`: a FOK order trades in part under self-trade prevention.
* `inventory`: a market maker holds more than its maximal position, since nobody
  tells it of its fills.
* `unverifiable`: `verify_against` refuses a journal identical to the one expected
  ("Verify replay produces identical output", event_journal.hpp:168) in a process
  that only reads, because the constructor of `EventJournal` alone fills the table
  `verify_checksum` uses. `VerifyExact`, which `replay` checks, is about processes
  with a filled table; in the others it asks only that no wrong journal is accepted.
* `range`: a latency of a millisecond is reported as 31744 ns, where histogram.hpp:12
  speaks of "1ns to ~1 second". `PercentileAccurate`, which `utilities` checks,
  bounds the error below the last bucket only.

Observed while modelling, without a run:

* Book. An amendment after fills makes a level quote more than its orders have
  (order_book.cpp:175; trade.hpp:25 calls that "Total quantity at this level"). Matching
  changes the best price without a BBO update (order_book.cpp:264), although
  order_book.hpp:107 says "Emit BBO update if changed". `avg_fill_price` is
  the taker's limit, not an average. Execution reports are sent for takers
  only, and an IOC order with a rest reports its fills twice. `replace_order`
  ignores the "no change" values documented for `ReplaceRequest` and leaves
  members of its result uninitialised.
* Engine and queue. `trades_executed` counts orders that traded, not trades,
  and nothing counts what a moved order fills. `size_approx` may see an empty
  queue almost full.
* Journal. A reopened journal numbers from 0 again (event_journal.cpp:30).
  Replay delivers what it reads behind a torn record without looking at the
  checksum. `replay_until(0)` delivers nothing.
* Agents. Agents of one symbol number their orders from 1 and so cancel each
  other's. With the default figures (`PRICE_SCALE` 10000) one unit of inventory
  moves quotes by a thousand ticks, a hundred half spreads.
* Histogram. A percentile whose rank is 0 reads 0, below the minimum; a minimum
  above a second reads as a second.

**Why the bounds are enough.** Two prices give a side a best level and one
behind it; three orders let a taker sweep two makers and rest, or two takers
compete. `QMod` is just above the largest sum where wrapping is not the subject
and small where it is (`hostile`, `level`). `MaxNodes` bounds only levels that
collect nodes without orders; a level never needs more than one node per live
order otherwise. In `hostile` it is 2, so that mixes of live nodes and such nodes in
one level are short there; the theorems about the same properties have no such bound. In `ideal` the identifiers 1, 2 and 200 with a window of 100
give one owner two orders and another one; the trade batch of 2 fills up in the middle
of a sweep and is left half full by another. Removing the trade callback while a
batch is waiting takes a batch that a killed FOK order left behind, and is covered by
`NoTradeLostAlways` alone: `hostile` delivers trade by trade. A ring of four slots wraps around
with an item in flight, and indices up to a full lap stale. Three nodes are the
least with a middle. In `engine` one symbol suffices because books share
nothing but the callbacks, the queue and the counters; before `add_symbol` it is
the unknown one; two messages in the inbox let one order be cancelled behind another message, and the theorem about it has any capacity. `MaxCount` stops calls, not the loop, and `ResetStats` makes
room again. In `replay` three records allow one to be torn, one to
follow in the same life and one in the next.

In `simulation` four ticks let a maker quote, be filled,
quote with a skew, reach its limit of one and stop on that side, and a momentum agent
fill its window and trade. Two makers are the fewest that take each other's
identifiers. With `MaxDeviation` 3 around a price of 5 a noise trader's orders fall
on either side of the quotes and below zero; `Deviations` are the extremes,
where it crosses them or rests beyond. `TopPrice` is above every price that can
arise, so it cuts nothing off. In `utilities` three records, of one or two
histograms, put the rank of a percentile on each of them; every kind of bucket
has a latency at its lower bound and one just below.

**Fairness.** `OrderBook`: `WF(Step)`; a call is sequential code. `SPSCQueue`:
both threads keep running and the consumer polls; strong fairness of the loads
of the newest index says that a thread which loads again and again sees a store
in the end ([intro.progress] in the C++ standard). `MatchingEngine`: the engine
thread runs, a called book returns (`CallsReturn`), and polling comes to see
what is in the queue (strong fairness of `Pop`); the gateway and the caller of `stop()`
owe nothing. `Simulation`: `WF(Next)`; one thread runs `main` and everything it
calls. `JournalReplay` and `LatencyHistogram` state no liveness property; `MCUtilities`
asks for the fairness of the ring in the behaviours that use it.

## 4. What TLAPS proves

From the named assumptions on the constants only (`ConstantTypes`,
`PricesHaveExtremes`, which every finite set of prices satisfies,
`QModAssumption`, `AddressAssumption`, `AmountAssumption`,
`CapacityAssumption`, `TornAssumption`, `FillSizesAssumption`,
`EngineConstants`, `SimulationConstants`, `JournalConstants`, `ReaderConstants`,
`HistogramConstants`), hence for any number of orders, prices, quantities, nodes,
symbols, agents, configurations, ticks, records, lives of a journal and latencies,
any sizes of headers and payloads, and any capacity. The constants that bound a
model for TLC (`MaxRecords`, `MaxSum`, `MaxLives`, `MaxNodes`, `MaxCount`) are
arbitrary numbers there, and no theorem depends on how large they are:

**The order book.**

* `TypeCorrect`: `OrderBook` keeps its types (the operators of `LevelQueue` do
  by the lemmas of `LevelQueueProofs`).
* `BestNeverBehindAlways`, `NeverCrossedAlways`. `NeverCrossed` is not
  inductive alone. The invariant is
  `TypeOK /\ BestNeverBehind /\ MatchedOut /\ NeverCrossed`: an order rests only
  after matching (`pc = "matched"`), `MatchedOut` says the cached best price of
  the other side does not meet it unless self-trade prevention holds it up, `BestNeverBehind` that no level behind that price
  does, so resting keeps the sides apart. Everything else only shrinks levels
  (`ShrinkingIsSafe`), or recomputes a cache (`BestPriceBounds`). Since `BestNeverBehind`, not
  exactness, carries the argument, it covers the stale refresh of
  `cancel_order`.
* `PostOnlyNeverTakesAlways`: while a post-only order is matched, the cached
  price it was checked against does not change and does not meet it.
* `RecordsAgreeAlways`. `RecordsInv` strengthens the agreement to one of whole
  levels (`LevelAgrees`): each node is the node of a live order of that side
  and price, each such order has a node, and no two nodes of a level have one
  identifier. With the last part, erasing the node of an order takes it away
  altogether, and no node is ever a ghost. The invariant also carries from
  `AddOrder` to `Rest` that the identifier of the order being matched is not in
  use. `OnlyFillsAndCancelsRemoveAlways` follows: a fill erases an order
  only when its node, hence the order, had just that quantity left.
* `BestExactAlways`: together with the types the property is inductive as it
  stands, because every step that takes a level away refreshes the cache in the
  same step. Two conditions are needed. One is the order of the accesses in
  `cancel_order` (`FreedMemoryIntact`). The other came out of the proof: with a bid at
  `INVALID_PRICE`, which `add_order` accepts, the best bid looks like no bid, and
  `insert_resting_order` then takes any lower bid for the best. The property
  therefore says that no order has that price.
* `FillsWithinOrderAlways`. `FillsInv` says at every step of a call what the
  property says of its end: the sum of the fills is `taker.filled` and at most
  the quantity of the order. A fill takes the smaller of two remainders
  (`TakerFill`), which cannot exceed the taker's even if an amendment made the
  maker's wrap.
* `NoTradeLostAlways`. `DeliveryInv` says that the trades told so far, followed
  by the batch, are those carried over from earlier calls followed by those of
  this one; an unbatched trade must find no batch waiting before it. Only the
  flush moves trades from one part to the other, and it keeps their order.
* `FillOrKillAtomicAlways`, `BatchFlushedAlways`. The invariant `KillInv` says
  that what an admitted FOK order still has to fill is `Covered`: some distinct
  prices it accepts have at least that much together (`Offers` lists the
  `Depth` of each, a sum that does not wrap, and `SumOf` adds them). Each fill takes from
  one of those prices what it gives to the order (`CoveredAfterFill`), and when
  matching stops, not held up by an order of the same owner, there is nothing left
  at a price the order accepts (`NothingAccepted`, from `BestNeverBehind`), so
  nothing is left to fill (`NothingLeft`). The order is covered on admission because
  wrapping and stopping early only make the check count less (`AvailableIsThere`).
  This needs `NormalPrices`: the check counts an ask at 0, where a post-only order
  may rest, and the matching does not reach it. `BatchFlushed` is inductive with
  it: only `KillFOK` returns without a flush, and by `KillInv` only where an
  order was held up.
* `RefusedOnlyIfShortAlways`. When the check finds too little, what the live orders
  at the accepted prices have left is less than the order asks, or at least
  `QMod` (`TooFew`). The check walks levels, the property speaks
  of orders; `AllCounted` connects them. Unless the check stops early because it has enough,
  or its sum wraps, it has added every level the order accepts, wherever the walk
  begins, and by `RecordsInv` those levels list just the live orders with their
  remaining quantities. That the sum may wrap came out of the proof, and the
  property names it.
* `KeepsContractAlways`: every call of the book is one `BookContract` allows, as
  long as clients amend in an orderly way (`~UnguardedAmends`),
  from the types, `RecordsInv`, `FillsInv` and the fact that nothing is reported
  before a call has something to report (`SilentUntilReturn`).
* `SafelyImplementsIdeal`: with orderly clients (`Orderly`) the book starts as `IdealBook` does and each of its steps is one
  of `IdealBook`'s or changes nothing it sees (`StepsImplementIdeal`). By `RecordsInv`
  the queues that the mapping puts together from orders and nodes are the levels
  themselves without what the code keeps beside them (`Seen`), so each lemma about
  an operator of `LevelQueue` says what becomes of a queue (`EntriesOfFill`,
  `EntriesOfRemove`, …). A fill is a trade at the best price (`TopIsBest`, from
  `BestNeverBehind`) with an order it may trade with (`BarredIsOwn`); an order that
  leaves unfilled has nothing to meet (`NothingCrossed`) or is blocked by an order of
  its owner (`HeldUpIs`); a post-only or FOK order arrives where
  the ideal book admits one, which for FOK compares the sum over prices of the
  code with the sum over a set of the ideal book (`LiquidityCovers`). `SelfTradeStop` changes
  nothing a client sees, `KillFOK` is the ideal book's `Leave` of a blocked order, and
  `DropGhost` cannot happen.

**The price level.**

* `WellLinkedAlways`, `IndexSoundAlways`, `NothingLeakedAlways`,
  `TotalsExactAlways`, `ImplementsQueueAlways`. The inductive invariant is
  `Types /\ IndexSound /\ Linked /\ TotalsExact`, and `Linked` is its
  heart: some sequence of addresses represents the list (`Represents`), that is,
  holds every live node once, and `prev`, `next`, `head` and `tail` are
  its neighbours and ends. Each branch of `unlink` takes one element out of that sequence
  (`Unlinks`), `add_order` appends one. From such a sequence everything else follows: it
  is what following `next` from the head yields (`ReachedIs`), so nothing leaks
  and the links agree both ways; read as nodes it is the queue of `LevelQueue` (`IsQueue`), so every
  step is a step of `LevelFifo`, also where an identifier was added twice and
  only the last of its nodes is in the index. The totals are sums
  modulo `QMod` along it; `RunningTotals` are the partial sums, and taking a
  node out takes its quantity out of all behind it.

**The ring.**

* `InOrderAlways`, `SlotsExclusiveAlways`: the invariant adds to the circular order of
  the four indices that a producer past its check has room (`Room`) and a
  consumer past its check has something to read (`News`). Stale loads only move a cached
  copy along that order.
* `SafelyImplementsFifo`: under the mapping `Contents`, the slots from tail to
  head, every step is one of `BoundedFifo` or changes nothing it sees.
  Publishing the head is the push, publishing the tail the pop; the invariant
  adds that the slot about to be published holds the item (`Written`) and that
  the copy taken is that of the slot about to be released (`Copied`).

**The engine.**

* `TypeCorrect`: `MatchingEngine` keeps its types (the steps of `BookContract`
  do by the first lemmas of `MatchingEngineProofs`).
* `ListenersEverywhereAlways`: inductive with the types; every step gives a
  book the engine's callbacks or leaves both alone.
* `CancelPrevailsAlways`. The property says nothing while messages about an
  order are queued, so the invariant `CancelTracked` does: an order whose last
  queued message was a cancellation either still has that cancellation in the
  queue with nothing about it behind (`CancelComing`), or has no
  message and is neither live nor being added (`Gone`). Queueing puts the
  cancellation last, serving it leaves the order gone (`OpeningGone`), and
  trades, refusals and calls about other orders keep it so
  (`ContinuationsGone`). `Sound` adds to the types that a book in the middle of
  a call exists and knows its order. Since the book is any that keeps
  `BookContract`, the theorem is about every matching the contract allows.

**The agents.**

* `TypeCorrect`, and with it `Placed`: an identifier is in at most one queue, once,
  and that of an order being added in none.
* `QuotesRememberedAlways`. The property speaks of the time between calls,
  `Remembered` of every step: whatever a maker has in the book is the order it
  remembers for that side. It needs `Quoting`, which says stage by stage what is
  left of the quotes of the maker whose turn it is (`OwnsOnlyAt`): nothing on a side
  from its cancellation to the new quote, then only what was sent at the new price.
  `Owned` says that the order being added belongs to the agent whose turn it is.
  A cancellation can meet an order of the same number that another agent submitted;
  that takes an order away, which harms neither.
* `NoWashTradesAlways`: from the same invariant, because when a maker's new ask arrives,
  its only bid is the new one, which is below it (`BestIsHeld`: a trade is at a price the order
  accepts).
* `PositionLimitedAlways`. Between reports the position is known late, so the
  invariant adds `Exposed`: an order of a maker that is being added started below the limit on that
  side, and what it has filled and what it has left stay within `BaseSize`
  together, by which the limit may be passed.
* `TalliesAgreeAlways`. `Counted` says at every step what `main` has heard and the engine
  has not counted yet: the fills of the order being added, and one match if there
  are any. Orders received are the identifiers used, a sum over the agents
  (`Used`, `UsedGrows`).

**The journal.**

* `ReadCorrect`. The invariant has two halves. `Written` is about the writer:
  the file followed by the stream buffer, the `Tape`, consists of pieces of logged
  records (`Pieces`), in the order they were logged (`Ordered`), every piece with
  the beginning of its record before it (`Headed`). These hold after any crashes. As long
  as the journal was not reopened behind an incomplete record (`torn`), records are also
  unbroken (`Unbroken`) and what was flushed is whole in the file. The split
  between file and buffer can be anywhere, hence the tape: a spill
  leaves it as it is. `Read` is about the reader: unless `torn`, a stream
  that is good is at the boundary of a record (`Aligned`), the events delivered
  are those that begin between where it started and where it is
  (`Replayed`), those passed over while seeking have lower numbers (`Sought`), and
  those compared by `verify_against` agreed so far (`Verified`).
* `ReplayFaithfulAlways`, `FlushedReplayedAlways`, `SeekFindsAlways` follow: reading
  can end only where a record is missing cells (the file just ends there), so what is whole,
  and with it what was flushed, has been delivered.
* `VerifyExactAlways` needs both halves. Without torn records, and with a filled
  table of checksums, the answer is yes exactly for the records expected. With a torn record
  in the file, or an empty table, the answer may be no,
  but it is never yes for other records: a comparison goes on only over
  records that are whole in the file (`RTypeOK`, which holds with torn records too).

**The histogram.**

* `PercentileAccurateAlways`, `SummaryConsistentAlways`. The invariant is
  `HistogramInv`: every histogram is a `Summary` of the bag of values that went into it,
  that is, a bucket counts the values that belong into it (its `Fiber`), the count and
  the extremes are those of all. Recording is merging a histogram of one value, so
  one argument covers both: joining two bags adds their sums (`SumOfJoin`). The arithmetic is
  in `BucketHolds`: a value is in the last bucket that begins no
  later, and that begins at most a sixteenth below, for every value and both
  conversions, by cases over the powers of two (`LowerBoundIs`,
  `NextLowerBound`). Buckets are ordered as their values are, so the scan of
  `percentile` ends at the bucket of the value with that rank (`ReadIs`).

**Folds.** Sums of fills, totals of a level and the trades among the events are
folds of the community modules. The provers have no induction over a
predicate, so `LevelQueueProofs` gets it from the least counterexample
(`LeastNumber`, `InductionUpTo`): a fold is a function on prefixes (`FoldExists`,
`FoldRuns`), and appending an element applies the operation once more (`FoldStep`).
Sums over sequences (`SumsExist`, `SumLessBy`) and over finite sets, by their
cardinality (`AddsUp`, `SumsOverSets`, `SumWithout`, `SumOfListed`,
`InductionOnSubsets`), are treated in the same way. The prices of
a side in ascending order are a choice among increasing functions (`Ascending`),
which exists by induction on their number.

Only model-checked: liveness (`CallsReturn`, `PushReturns`, `StopHonoured`,
`FullInboxDrains`, `SimulationEnds`) and the fairness in `ImplementsFifo` and
`RefinesIdealBook`, whose safety parts are `SafelyImplementsFifo` and
`SafelyImplementsIdeal`. Liveness and `ENABLED` are out of the prover's reach.
Every other property of a passing run is a theorem.

## 5. Not modelled

* `Timing`, `ScopedTimer`, `Stopwatch`: they read clocks and convert by a factor in
  floating point; only printed latencies depend on them.
* `FixedPriceLevel` and `CounterHistogram`: nothing in the repository uses them.
* `replay_kraken` and the scripts: a file or the network in, one call of the
  book per command. The calls are the actions of `OrderBook`; that a quantity
  of 0 becomes 1 in an addition and stays 0 in a replacement is covered by
  `hostile`, where clients send both.
* Argument parsing and printing in `main`; symbols beyond one in `Simulation`.
* `EngineRunner::start`, which starts nothing, and moves of a `PriceLevel`,
  which nothing does.
* Two threads that both enqueue, or call books directly: the queue has one
  producer and the books no locks, so these are data races.
* Timestamps: two journals of one simulation differ in them and in padding, so
  that `verify_against` would tell them apart; the model compares payloads as
  the code does and leaves open where they come from.

## 6. What remains

Nothing that a passing run checks as safety is left unproved. What the theorems do
not say is what the models leave out (section 5), and what the code promises only
under fairness, which TLC checks on the instances of section 3.

To repeat the checks: `tlc -config <file>.cfg <module>` for each run of
`PROJECT.json`, `tlapm <module>.tla` for each `*Proofs` module.
