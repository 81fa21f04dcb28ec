----------------------------- MODULE OrderBook ------------------------------
(***************************************************************************)
(* exchange::OrderBook: the limit order book of one symbol.                *)
(*                                                                         *)
(* A call of the public interface is a sequence of steps: the client calls *)
(* (AddOrder, Cancel, Replace..., FlushPending), the book runs the body of *)
(* the call, and Return hands the result over.  The matching loop of       *)
(* match_order makes one step per resting order it meets.  Everything the  *)
(* callbacks hear during a call is collected in "events", every fill it    *)
(* makes in "fills", so that properties can compare the two.               *)
(***************************************************************************)
EXTENDS LevelQueue

CONSTANTS
    OrderIds,               \* identifiers clients give their orders
    Prices,                 \* prices clients ask for
    InvalidPrice,           \* INVALID_PRICE: the largest price, used as "none"
    Amounts,                \* quantities clients ask for
    OrderKinds,             \* pairs of order type and time in force in use
    SelfTradePrevention,    \* config_.enable_self_trade_prevention
    SelfTradeWindow,        \* identifiers closer than this belong to one owner
    PostOnlyRejection,      \* config_.enable_post_only_rejection
    BatchCallbacks,         \* config_.batch_callbacks
    TradeBatchSize,         \* config_.trade_batch_size
    CallbackSets,           \* the sets of callbacks a client may install
    FreedMemoryIntact,      \* cancel_order reads an erased order: does the
                            \*   freed memory still hold the order's side?
    MaxNodes,               \* bound of the model: clients add no order while
                            \*   some level holds this many nodes
    UnguardedAmends         \* do clients amend, at an unchanged price, orders
                            \*   that already traded, or amend them to zero?

Sides        == {"Buy", "Sell"}
OrderTypes   == {"Limit", "Market", "ImmediateOrCancel", "FillOrKill", "PostOnly"}
TimesInForce == {"Day", "GoodTillCancel", "ImmediateOrCancel", "FillOrKill"}
Callbacks    == {"trade", "execution", "bbo"}

ASSUME ConstantTypes ==
    /\ OrderIds \subseteq Nat \ {0}
    /\ Prices \subseteq Int /\ InvalidPrice \in Int
    /\ \A price \in Prices : price <= InvalidPrice
    /\ 0 < InvalidPrice
    /\ Amounts \subseteq Quantity
    /\ OrderKinds \subseteq [type : OrderTypes, tif : TimesInForce]
    /\ {SelfTradePrevention, PostOnlyRejection, BatchCallbacks,
        FreedMemoryIntact, UnguardedAmends} \subseteq BOOLEAN
    /\ {SelfTradeWindow, TradeBatchSize, MaxNodes} \subseteq Nat
    /\ CallbackSets \subseteq SUBSET Callbacks

\* What every finite set of prices offers.
ASSUME PricesHaveExtremes ==
    \A set \in (SUBSET Prices) \ {{}} :
        /\ \E top \in set : \A price \in set : price <= top
        /\ \E bottom \in set : \A price \in set : bottom <= price

VARIABLES
    orders,     \* orders_: the live orders, by identifier
    levels,     \* bid_levels_, ask_levels_; <<>> where the map has no entry
    best,       \* best_bid_, best_ask_
    lastBbo,    \* last_bbo_bid_, last_bbo_ask_
    pending,    \* pending_trades_
    callbacks,  \* which of on_trade_, on_execution_, on_bbo_ are installed
    pc,         \* where the current call is
    taker,      \* the order the current call is adding
    fills,      \* the fills the current call made
    carried,    \* pending_trades_ when the current call began
    events,     \* what the callbacks heard during the current call
    response    \* the OrderResult of the current call

book == <<orders, levels, best, lastBbo, callbacks>>
vars == <<orders, levels, best, lastBbo, pending, callbacks,
          pc, taker, fills, carried, events, response>>

-----------------------------------------------------------------------------
(* struct Order *)

LimitPrices == Prices \cup {0, InvalidPrice}

Order == [id : OrderIds \cup {0}, side : Sides, price : LimitPrices,
          quantity : Quantity, filled : Quantity,
          type : OrderTypes, tif : TimesInForce]

NoOrder == [id |-> 0, side |-> "Buy", price |-> 0, quantity |-> 0,
            filled |-> 0, type |-> "Limit", tif |-> "Day"]

NewOrder(id, side, price, quantity, type, tif) ==
    [id |-> id, side |-> side, price |-> price, quantity |-> quantity,
     filled |-> 0, type |-> type, tif |-> tif]

Remaining(order) == (order.quantity - order.filled) % QMod

IsFilled(order) == order.filled >= order.quantity

Fill(order, quantity) ==
    [order EXCEPT !.filled =
        (@ + (IF quantity < Remaining(order) THEN quantity
                                             ELSE Remaining(order))) % QMod]

\* The status fill() leaves behind; the book reports it for the taker only.
Status(order) == IF order.filled > 0
                 THEN IF IsFilled(order) THEN "Filled" ELSE "PartiallyFilled"
                 ELSE "New"

\* Faulty: equal prices do not meet.
WouldCrossStrictly(order, price) == IF order.side = "Buy" THEN order.price > price
                                                          ELSE order.price < price

WouldCross(order, price) == IF order.side = "Buy" THEN order.price >= price
                                                  ELSE order.price <= price

Opposite(side) == IF side = "Buy" THEN "Sell" ELSE "Buy"

IsIOC(order) == "ImmediateOrCancel" \in {order.tif, order.type}
IsFOK(order) == "FillOrKill" \in {order.tif, order.type}

\* A market order takes the most aggressive price there is.
AsPriced(order) ==
    IF order.type # "Market" THEN order
    ELSE [order EXCEPT !.price = IF order.side = "Buy" THEN InvalidPrice ELSE 0]

-----------------------------------------------------------------------------
(* The maps of the book *)

Put(table, key, value) ==
    [k \in DOMAIN table \cup {key} |-> IF k = key THEN value ELSE table[k]]

Without(table, key) == [k \in DOMAIN table \ {key} |-> table[k]]

\* The prices at which a side has a level, and the top of that side.
Occupied(lv, side) == {price \in Prices : lv[side][price] # <<>>}

BestPrice(lv, side) ==
    IF Occupied(lv, side) = {} THEN InvalidPrice
    ELSE IF side = "Buy" THEN Max(Occupied(lv, side))
                         ELSE Min(Occupied(lv, side))

QuantityAt(lv, side, price) ==
    IF price \in Occupied(lv, side) THEN TotalQuantity(lv[side][price]) ELSE 0

\* Faulty: levels beyond the limit of the order count.
AvailableAtAnyPrice(order) ==
    LET side == Opposite(order.side)
    IN  FoldLeft(LAMBDA sum, price : (sum + TotalQuantity(levels[side][price])) % QMod,
                 0, SetToSortSeq(Occupied(levels, side), <))

\* Faulty: the walk ends at the first level the order does not accept.
AvailableUntilMiss(order) ==
    LET side == Opposite(order.side)
        Reached == {price \in Occupied(levels, side) :
                      \A other \in Occupied(levels, side) : other <= price =>
                          order.type = "Market" \/ WouldCross(order, other)}
    IN  FoldLeft(LAMBDA sum, price : (sum + TotalQuantity(levels[side][price])) % QMod,
                 0, SetToSortSeq(Reached, <))

\* The prices of a std::map in the order of its iterators.  (SetToSortSeq is
\* that sequence too, but rests on an operator the prover cannot expand.)
Ascending(prices) ==
    CHOOSE seq \in [1 .. Cardinality(prices) -> prices] :
        \A i, j \in DOMAIN seq : i < j => seq[i] < seq[j]

\* The liquidity the fill-or-kill check counts: levels in ascending order of
\* price, stopping as soon as the (wrapping) sum covers the order.
Available(order) ==
    LET side == Opposite(order.side)
        Count(sum, price) ==
            IF sum >= order.quantity THEN sum
            ELSE IF order.type = "Market" \/ WouldCross(order, price)
                 THEN (sum + TotalQuantity(levels[side][price])) % QMod
                 ELSE sum
    IN  FoldLeft(Count, 0, Ascending(Occupied(levels, side)))

-----------------------------------------------------------------------------
(* What the callbacks hear *)

\* avg_fill_price multiplies the order's own price by the filled quantity and
\* divides again; for a market buy that price is INVALID_PRICE, the product
\* overflows a signed integer and the quotient is whatever the build makes of it.
Overflowed == -1

AvgFillPrices(order) ==
    CASE order.filled = 0 -> {0}
      [] order.filled > 1 /\ order.price = InvalidPrice -> {InvalidPrice, Overflowed}
      [] OTHER -> {order.price}

Report(order, filled, avg) ==
    IF "execution" \notin callbacks THEN <<>>
    ELSE << [event |-> "report", id |-> order.id, status |-> Status(order),
             filled |-> filled, leaves |-> (order.quantity - filled) % QMod,
             avg |-> avg, last |-> filled] >>

Bbo(lv, top) ==
    IF "bbo" \notin callbacks \/ top = lastBbo THEN <<>>
    ELSE << [event |-> "bbo", price |-> top,
             quantity |-> [side \in Sides |-> QuantityAt(lv, side, top[side])]] >>

BboAfter(top) == IF "bbo" \in callbacks THEN top ELSE lastBbo

TradeEvents(trades) == [i \in DOMAIN trades |-> [event |-> "trade", trade |-> trades[i]]]

\* flush_trades: what it delivers, and what it leaves behind.
Flushed(trades)   == IF "trade" \in callbacks THEN TradeEvents(trades) ELSE <<>>
Unflushed(trades) == IF "trade" \in callbacks THEN <<>> ELSE trades

-----------------------------------------------------------------------------
NoResponse == [success |-> FALSE, reason |-> "None", filled |-> 0, avg |-> 0]

Respond(success, reason, filled, avg) ==
    /\ response' = [success |-> success, reason |-> reason,
                    filled |-> filled, avg |-> avg]
    /\ pc' = "returned"

\* replace_order declares its OrderResult without an initialiser: the members
\* it does not assign hold whatever was on the stack.
Indeterminate == -2

RespondBare(success) ==
    Respond(success, "Indeterminate", Indeterminate, Indeterminate)

Init ==
    /\ orders = [id \in {} |-> NoOrder]
    /\ levels = [side \in Sides |-> [price \in Prices |-> <<>>]]
    /\ best = [side \in Sides |-> InvalidPrice]
    /\ lastBbo = [side \in Sides |-> InvalidPrice]
    /\ pending = <<>>
    /\ callbacks \in CallbackSets
    /\ pc = "idle"
    /\ taker = NoOrder
    /\ fills = <<>> /\ carried = <<>> /\ events = <<>>
    /\ response = NoResponse

\* Every call begins with the book at rest.
Call == pc = "idle" /\ carried' = pending

\* Nodes without orders would let a level grow for ever.
RoomForNodes ==
    \A side \in Sides, price \in Prices : Len(levels[side][price]) < MaxNodes

-----------------------------------------------------------------------------
(* add_order, up to the matching loop *)

AddOrder(id, side, price, quantity, kind) ==
    /\ Call
    /\ RoomForNodes
    /\ taker' = AsPriced(NewOrder(id, side, price, quantity, kind.type, kind.tif))
    /\ pc' = "adding"
    /\ UNCHANGED <<book, pending, fills, events, response>>

\* Faulty: the post-only check reads the best price of the order's own side.
WouldTakeOwnSide(order) ==
    /\ order.type = "PostOnly" /\ PostOnlyRejection
    /\ best[order.side] # InvalidPrice /\ WouldCross(order, best[order.side])

WouldTake(order) ==
    LET top == best[Opposite(order.side)]
    IN  /\ order.type = "PostOnly" /\ PostOnlyRejection
        /\ top # InvalidPrice /\ WouldCross(order, top)

\* Faulty: an identifier in use is accepted again.
RejectionOfNoDuplicate(order) ==
    IF order.quantity = 0 THEN "InvalidQuantity"
    ELSE IF order.type = "Limit" /\ order.price <= 0 THEN "InvalidPrice"
    ELSE IF WouldTake(order) THEN "WouldCross"
    ELSE IF IsFOK(order) /\ Available(order) < order.quantity THEN "InvalidQuantity"
    ELSE "None"

Rejection(order) ==
    IF order.quantity = 0 THEN "InvalidQuantity"
    ELSE IF order.type = "Limit" /\ order.price <= 0 THEN "InvalidPrice"
    ELSE IF order.id \in DOMAIN orders THEN "DuplicateOrderId"
    ELSE IF WouldTake(order) THEN "WouldCross"
    ELSE IF IsFOK(order) /\ Available(order) < order.quantity THEN "InvalidQuantity"
    ELSE "None"

Reject ==
    /\ pc = "adding"
    /\ Rejection(taker) # "None"
    /\ events' = events \o IF Rejection(taker) = "WouldCross"
                           THEN Report(taker, 0, 0) ELSE <<>>
    /\ Respond(FALSE, Rejection(taker), 0, 0)
    /\ UNCHANGED <<book, pending, taker, fills, carried>>

Admit ==
    /\ pc = "adding"
    /\ Rejection(taker) = "None"
    /\ pc' = "matching"
    /\ UNCHANGED <<book, pending, taker, fills, carried, events, response>>

-----------------------------------------------------------------------------
(* match_order *)

Maker == Opposite(taker.side)       \* the side the taker trades against
Top   == best[Maker]
Queue == levels[Maker][Top]

CanMatch ==
    /\ Top \notin {InvalidPrice, 0}
    /\ taker.type = "Market" \/ WouldCross(taker, Top)

Matching == pc = "matching" /\ ~IsFilled(taker) /\ CanMatch

StopMatching ==
    /\ pc = "matching"
    /\ IsFilled(taker) \/ ~CanMatch
    /\ pc' = "matched"
    /\ UNCHANGED <<book, pending, taker, fills, carried, events, response>>

\* Faulty: the loop starts over without recomputing the best price.
RetryBest ==
    /\ Matching
    /\ Queue = <<>>
    /\ UNCHANGED vars

\* The cached best price has no level: recompute it and look again.
RefreshBest ==
    /\ Matching
    /\ Queue = <<>>
    /\ best' = [best EXCEPT ![Maker] = BestPrice(levels, Maker)]
    /\ UNCHANGED <<orders, levels, lastBbo, callbacks, pending,
                   pc, taker, fills, carried, events, response>>

\* Faulty: an emptied level leaves the map and the cached best price behind.
ReplaceQueueOnly(queue) ==
    /\ levels' = [levels EXCEPT ![Maker][Top] = queue]
    /\ best' = best

\* The level after its front changed; an emptied level leaves the map.
ReplaceQueue(queue) ==
    /\ levels' = [levels EXCEPT ![Maker][Top] = queue]
    /\ best' = IF queue # <<>> THEN best
               ELSE [best EXCEPT ![Maker] = BestPrice(levels', Maker)]

\* A node whose order is gone is thrown away.
DropGhost ==
    /\ Matching
    /\ Queue # <<>>
    /\ Head(Queue).id \notin DOMAIN orders
    /\ ReplaceQueue(PopFront(Queue))
    /\ UNCHANGED <<orders, lastBbo, callbacks, pending,
                   pc, taker, fills, carried, events, response>>

Resting == orders[Head(Queue).id]

\* Orders with close identifiers count as those of one owner.
BelongTogether(one, other) ==
    /\ SelfTradePrevention
    /\ one - other < SelfTradeWindow /\ other - one < SelfTradeWindow

SameOwner == BelongTogether(taker.id, Resting.id)

SelfTradeStop ==
    /\ Matching
    /\ Queue # <<>>
    /\ Head(Queue).id \in DOMAIN orders
    /\ SameOwner
    /\ pc' = "matched"
    /\ UNCHANGED <<book, pending, taker, fills, carried, events, response>>

\* Faulty: the trade is for all the resting order has.
FillQuantityOfMaker == Remaining(Resting)

FillQuantity == IF Remaining(taker) < Remaining(Resting)
                THEN Remaining(taker) ELSE Remaining(Resting)

TradeOf(quantity) ==
    [price |-> Top, quantity |-> quantity,
     buy  |-> IF taker.side = "Buy" THEN taker.id ELSE Resting.id,
     sell |-> IF taker.side = "Buy" THEN Resting.id ELSE taker.id,
     aggressor |-> taker.side]

\* Faulty: a full batch is delivered without the trade that filled it.
EmitTradeShort(trade) ==
    LET batch == Append(pending, trade)
    IN  \/ "trade" \notin callbacks /\ UNCHANGED <<pending, events>>
        \/ /\ "trade" \in callbacks
           /\ Len(batch) < TradeBatchSize
           /\ pending' = batch
           /\ UNCHANGED events
        \/ /\ "trade" \in callbacks
           /\ Len(batch) >= TradeBatchSize
           /\ pending' = <<>>
           /\ events' = events \o TradeEvents(pending)

EmitTrade(trade) ==
    LET batch == Append(pending, trade)
    IN  \/ /\ "trade" \notin callbacks
           /\ UNCHANGED <<pending, events>>
        \/ /\ "trade" \in callbacks /\ ~BatchCallbacks
           /\ events' = events \o TradeEvents(<<trade>>)
           /\ UNCHANGED pending
        \/ /\ "trade" \in callbacks /\ BatchCallbacks
           /\ Len(batch) < TradeBatchSize
           /\ pending' = batch
           /\ UNCHANGED events
        \/ /\ "trade" \in callbacks /\ BatchCallbacks
           /\ Len(batch) >= TradeBatchSize
           /\ pending' = <<>>
           /\ events' = events \o TradeEvents(batch)

\* Faulty: any fill takes the resting order out of the book.
SettleOnAnyFill(resting) == Without(orders, resting.id)

\* A resting order that is filled leaves the book.
Settle(resting) == IF IsFilled(resting) THEN Without(orders, resting.id)
                                        ELSE Put(orders, resting.id, resting)

FillResting ==
    /\ Matching
    /\ Queue # <<>>
    /\ Head(Queue).id \in DOMAIN orders
    /\ ~SameOwner
    /\ orders' = Settle(Fill(Resting, FillQuantity))
    /\ taker' = Fill(taker, FillQuantity)
    /\ ReplaceQueue(FillFront(Queue, FillQuantity))
    /\ fills' = Append(fills, TradeOf(FillQuantity))
    /\ EmitTrade(TradeOf(FillQuantity))
    /\ UNCHANGED <<lastBbo, callbacks, pc, carried, response>>

-----------------------------------------------------------------------------
(* add_order, after the matching loop *)

\* Faulty: the batch waits for the next call.
ConcludeWithoutFlush(earlier, avg) ==
    /\ events' = events \o earlier
                   \o (IF taker.filled > 0 THEN Report(taker, taker.filled, avg) ELSE <<>>)
    /\ pending' = pending
    /\ Respond(TRUE, "None", taker.filled, avg)
    /\ UNCHANGED <<callbacks, taker, fills, carried>>

\* The tail every successful add shares: report the taker's fills, then flush
\* the batch.  "earlier" is what the branch before it already emitted.
Conclude(earlier, avg) ==
    /\ events' = events \o earlier
                   \o (IF taker.filled > 0 THEN Report(taker, taker.filled, avg) ELSE <<>>)
                   \o (IF BatchCallbacks THEN Flushed(pending) ELSE <<>>)
    /\ pending' = IF BatchCallbacks THEN Unflushed(pending) ELSE pending
    /\ Respond(TRUE, "None", taker.filled, avg)
    /\ UNCHANGED <<callbacks, taker, fills, carried>>

FinishIOC ==
    /\ pc = "matched"
    /\ IsIOC(taker)
    /\ \E avg \in AvgFillPrices(taker) :
          Conclude(IF IsFilled(taker) THEN <<>>
                                      ELSE Report(taker, taker.filled, avg), avg)
    /\ UNCHANGED <<orders, levels, best, lastBbo>>

\* A fill-or-kill order the loop could not fill: an early return.
KillFOK ==
    /\ pc = "matched"
    /\ ~IsIOC(taker) /\ IsFOK(taker) /\ ~IsFilled(taker)
    /\ \E avg \in AvgFillPrices(taker) : Respond(FALSE, "InvalidQuantity", 0, avg)
    /\ UNCHANGED <<book, pending, taker, fills, carried, events>>

\* Faulty: an empty bid side, whose best price is the largest, is not improved.
BetterThanCached(side, price, top) == IF side = "Buy" THEN price > top ELSE price < top

Better(side, price, top) ==
    IF side = "Buy" THEN top = InvalidPrice \/ price > top ELSE price < top

CanRest(order) ==
    ~IsIOC(order) /\ ~IsFOK(order) /\ ~IsFilled(order) /\ order.type \in {"Limit", "PostOnly"}

\* insert_resting_order, then the tail.
Rest ==
    /\ pc = "matched"
    /\ CanRest(taker)
    /\ levels' = [levels EXCEPT ![taker.side][taker.price] =
                      AddNode(@, taker.id, Remaining(taker))]
    /\ orders' = Put(orders, taker.id, taker)
    /\ best' = IF Better(taker.side, taker.price, best[taker.side])
               THEN [best EXCEPT ![taker.side] = taker.price] ELSE best
    /\ lastBbo' = BboAfter(best')
    /\ \E avg \in AvgFillPrices(taker) : Conclude(Bbo(levels', best'), avg)

\* Filled, or a market order whose rest is dropped.
Complete ==
    /\ pc = "matched"
    /\ ~IsIOC(taker)
    /\ IsFilled(taker) \/ (~IsFOK(taker) /\ ~CanRest(taker))
    /\ \E avg \in AvgFillPrices(taker) : Conclude(<<>>, avg)
    /\ UNCHANGED <<orders, levels, best, lastBbo>>

-----------------------------------------------------------------------------
(* cancel_order, replace_order, flush_pending, set_*_callback *)

OrderNotFound(id) ==
    /\ Call
    /\ id \notin DOMAIN orders
    /\ Respond(FALSE, "OrderNotFound", 0, 0)
    /\ UNCHANGED <<book, pending, taker, fills, events>>

\* The side cancel_order reads after erasing the order that holds it.
FreedSides(order) == IF FreedMemoryIntact THEN {order.side} ELSE Sides

\* The body of cancel_order for a live order.
Withdraw(id) ==
    LET order == orders[id]
    IN  /\ levels' = [levels EXCEPT ![order.side][order.price] = RemoveNode(@, id)]
        /\ orders' = Without(orders, id)
        /\ \E side \in FreedSides(order) :
              best' = [best EXCEPT ![side] = BestPrice(levels', side)]
        /\ events' = events \o Bbo(levels', best')
        /\ lastBbo' = BboAfter(best')

Cancel(id) ==
    /\ Call
    /\ id \in DOMAIN orders
    /\ Withdraw(id)
    /\ Respond(TRUE, "None", 0, 0)
    /\ UNCHANGED <<callbacks, pending, taker, fills>>

ReplaceNotFound(id) ==
    /\ Call
    /\ id \notin DOMAIN orders
    /\ RespondBare(FALSE)
    /\ UNCHANGED <<book, pending, taker, fills, events>>

\* The level the order rests at, when the new price is the old one.
SamePrice(order, price) == order.price = price /\ levels[order.side][price] # <<>>

\* Same price: the node and the order take the new quantity and keep their place.
Amend(id, quantity) ==
    /\ Call
    /\ id \in DOMAIN orders
    /\ UnguardedAmends \/ (orders[id].filled = 0 /\ quantity > 0)
    /\ SamePrice(orders[id], orders[id].price)
    /\ levels' = [levels EXCEPT ![orders[id].side][orders[id].price] =
                      ModifyNode(@, id, quantity)]
    /\ orders' = [orders EXCEPT ![id].quantity = quantity]
    /\ events' = events \o Bbo(levels', best)
    /\ lastBbo' = BboAfter(best)
    /\ RespondBare(TRUE)
    /\ UNCHANGED <<best, callbacks, pending, taker, fills>>

\* Another price: cancel the order, then add a new one under the same
\* identifier; the call goes on as an add.
Move(id, price, quantity) ==
    /\ Call
    /\ id \in DOMAIN orders
    /\ RoomForNodes
    /\ ~SamePrice(orders[id], price)
    /\ Withdraw(id)
    /\ taker' = AsPriced(NewOrder(id, orders[id].side, price, quantity,
                                  orders[id].type, orders[id].tif))
    /\ pc' = "adding"
    /\ UNCHANGED <<callbacks, pending, fills, response>>

FlushPending ==
    /\ Call
    /\ pending # <<>>
    /\ events' = events \o Flushed(pending)
    /\ pending' = Unflushed(pending)
    /\ pc' = "returned"
    /\ UNCHANGED <<book, taker, fills, response>>

SetCallbacks(installed) ==
    /\ pc = "idle"
    /\ callbacks' = installed
    /\ UNCHANGED <<orders, levels, best, lastBbo, pending,
                   pc, taker, fills, carried, events, response>>

Return ==
    /\ pc = "returned"
    /\ pc' = "idle"
    /\ taker' = NoOrder
    /\ fills' = <<>> /\ carried' = <<>> /\ events' = <<>>
    /\ response' = NoResponse
    /\ UNCHANGED <<book, pending>>

-----------------------------------------------------------------------------
\* The steps the book makes on its own once it is called.
Step ==
    \/ Reject \/ Admit
    \/ StopMatching \/ RefreshBest \/ DropGhost \/ SelfTradeStop \/ FillResting
    \/ FinishIOC \/ KillFOK \/ Rest \/ Complete
    \/ Return

Client ==
    \/ \E id \in OrderIds, side \in Sides, price \in Prices,
          quantity \in Amounts, kind \in OrderKinds :
          AddOrder(id, side, price, quantity, kind)
    \/ \E id \in OrderIds : OrderNotFound(id) \/ Cancel(id) \/ ReplaceNotFound(id)
    \/ \E id \in OrderIds, quantity \in Amounts : Amend(id, quantity)
    \/ \E id \in OrderIds, price \in Prices, quantity \in Amounts :
          Move(id, price, quantity)
    \/ FlushPending
    \/ \E installed \in CallbackSets : SetCallbacks(installed)

Next == Step \/ Client

\* A call, once made, runs to its end: the book is sequential code.
Spec == Init /\ [][Next]_vars /\ WF_vars(Step)

-----------------------------------------------------------------------------
(***************************************************************************)
(* Properties                                                              *)
(***************************************************************************)

Trade == [price : Prices, quantity : Quantity, buy : OrderIds,
          sell : OrderIds, aggressor : Sides]

\* Every variable holds a value of its C++ type; live orders and resting
\* nodes carry the identifiers and prices clients gave them.
TypeOK ==
    /\ DOMAIN orders \subseteq OrderIds
    /\ \A id \in DOMAIN orders :
          orders[id] \in Order /\ orders[id].id = id /\ orders[id].price \in Prices
    /\ levels \in [Sides -> [Prices -> Seq(Node(OrderIds))]]
    /\ best \in [Sides -> Prices \cup {InvalidPrice}]
    /\ lastBbo \in [Sides -> Prices \cup {InvalidPrice}]
    /\ pending \in Seq(Trade)
    /\ callbacks \in CallbackSets
    /\ pc \in {"idle", "adding", "matching", "matched", "returned"}
    /\ taker \in Order
    /\ pc \in {"adding", "matching", "matched"} =>
          taker.id \in OrderIds
          /\ (taker.type # "Market" => taker.price \in Prices)
    /\ fills \in Seq(Trade)
    /\ carried \in Seq(Trade)

\* Prices an exchange quotes: positive and below the sentinel.
NormalPrices == \A price \in Prices : 0 < price /\ price < InvalidPrice

\* The cached best price of a side is never worse than a level of that side:
\* match_order and the post-only check look no further than the cache.  It
\* may be better (cancel_order refreshes the side it reads from freed
\* memory); match_order then recomputes it.
BestNeverBehind ==
    NormalPrices =>
        /\ \A price \in Occupied(levels, "Buy") :
              best["Buy"] # InvalidPrice /\ price <= best["Buy"]
        /\ \A price \in Occupied(levels, "Sell") : best["Sell"] <= price

\* When the freed memory is still intact the caches are exact at every step,
\* provided that nothing rests at the sentinel: a bid at INVALID_PRICE, which
\* add_order accepts, looks like an empty side to insert_resting_order.
BestExact ==
    FreedMemoryIntact /\ InvalidPrice \notin Prices =>
        \A side \in Sides : best[side] = BestPrice(levels, side)

\* The book is never crossed: no bid level at or above an ask level, at any
\* step of any call, in spite of stale caches, ghost nodes and desynchronised
\* quantities (tests/test_order_book.cpp:659 asserts it after a stress run).
NeverCrossed ==
    NormalPrices /\ ~SelfTradePrevention =>
        \A bid \in Occupied(levels, "Buy"), ask \in Occupied(levels, "Sell") :
            bid < ask

\* The two records of the resting orders agree: a live order has exactly one
\* node, at its own side and price, reachable through the index and holding
\* the order's remaining quantity, and every node belongs to a live order.
\* orders_ and the levels are updated separately by every operation.
RecordsAgree ==
    ~UnguardedAmends =>
        /\ \A id \in DOMAIN orders :
              /\ orders[id].filled < orders[id].quantity
              /\ \E i \in DOMAIN levels[orders[id].side][orders[id].price] :
                    levels[orders[id].side][orders[id].price][i] =
                        [id |-> id, quantity |-> Remaining(orders[id]), indexed |-> TRUE]
        /\ \A side \in Sides, price \in Prices :
              \A i \in DOMAIN levels[side][price] :
                 LET id == levels[side][price][i].id
                 IN  /\ id \in DOMAIN orders
                     /\ orders[id].side = side /\ orders[id].price = price
                     /\ \A j \in DOMAIN levels[side][price] :
                           levels[side][price][j].id = id => i = j

Filled(trades) == FoldLeft(LAMBDA sum, trade : sum + trade.quantity, 0, trades)

\* Self-trade prevention holds the taker up: the oldest order it would trade
\* with next is its own.
HeldUp == CanMatch /\ Queue # <<>> /\ Head(Queue).id \in DOMAIN orders /\ SameOwner

AllOrNothing(order) == IsFOK(order) /\ ~IsIOC(order)

\* A fill-or-kill order that is admitted fills completely unless an order of
\* its own is in its way: the check that adds up the levels and the loop that
\* walks them agree (as long as no quantities are desynchronised).  Without
\* self-trade prevention the early return after a partial fill is dead code.
FillOrKillAtomic ==
    NormalPrices /\ ~UnguardedAmends /\ pc = "matched" /\ AllOrNothing(taker) =>
        IsFilled(taker) \/ HeldUp

\* A post-only order never takes: the cache it is checked against and the
\* levels it would trade with do not disagree to its cost.
PostOnlyNeverTakes ==
    PostOnlyRejection /\ taker.type = "PostOnly" => fills = <<>>

TradesIn(seq) ==
    FoldLeft(LAMBDA trades, e : IF e.event = "trade" THEN Append(trades, e.trade)
                                                     ELSE trades, <<>>, seq)

\* No trade is lost, duplicated or reordered on its way through the batch:
\* what was pending when the call began and what the call filled is what the
\* trade callback heard and what is pending now.
NoTradeLost ==
    pc # "idle" =>
        carried \o (IF "trade" \in callbacks THEN fills ELSE <<>>)
            = TradesIn(events) \o pending

\* A call that trades leaves nothing in the batch when it returns: whoever
\* added the order has heard of every fill by then.  Only a fill-or-kill order
\* that met an order of its own leaves without a flush.
BatchFlushed ==
    NormalPrices /\ ~UnguardedAmends /\ pc = "returned"
    /\ fills # <<>> /\ "trade" \in callbacks /\ pending # <<>> =>
        AllOrNothing(taker) /\ HeldUp

\* A taker trades at its limit or better, never nothing and never more than it
\* asked for, and the result it gets back is the sum of the fills it made.
FillsWithinOrder ==
    pc \in {"matched", "returned"} /\ taker # NoOrder =>
        /\ \A i \in DOMAIN fills :
              /\ taker.type = "Market" \/ WouldCross(taker, fills[i].price)
              /\ ~UnguardedAmends => fills[i].quantity > 0
        /\ Filled(fills) = taker.filled
        /\ taker.filled <= taker.quantity
        /\ pc = "returned" /\ response.success => response.filled = taker.filled

\* A live order leaves the book only when a cancellation or a move takes it
\* and no other, or when the trade just made took all it had left: no rejection,
\* no other order's fill, no stop of the matching loop and no ghost node
\* removes it.
OnlyFillsAndCancelsRemove ==
    [][~UnguardedAmends => \A id \in DOMAIN orders \ DOMAIN orders' :
          \/ /\ pc = "idle" /\ orders' = Without(orders, id)
             /\ IF pc' = "adding" THEN taker'.id = id ELSE response'.success
          \/ /\ fills' # fills
             /\ id \in {Last(fills').buy, Last(fills').sell}
             /\ Last(fills').quantity = Remaining(orders[id])]_vars

\* Every call returns: the matching loop ends although it starts over whenever
\* the cached best price has no level, and drops nodes without orders.
CallsReturn == pc # "idle" ~> pc = "idle"
=============================================================================
