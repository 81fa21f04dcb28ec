-------------------------- MODULE OrderBookProofs ---------------------------
(***************************************************************************)
(* Theorems about an OrderBook, for every set of identifiers, prices and   *)
(* quantities and every kind of order.                                     *)
(*                                                                         *)
(* Its state: the cached prices and the matching, whatever the freed       *)
(* memory holds and however clients amend their orders; and the two        *)
(* records it keeps of its resting orders, orders_ and the levels, which   *)
(* every operation updates one after the other, with what those records    *)
(* promise to an owner.                                                    *)
(*                                                                         *)
(* What others see of it.  Owners: what a call fills and reports, that     *)
(* every trade is heard of exactly once, and that fill-or-kill orders fill *)
(* completely or are refused.  The engine: the contract it is modelled     *)
(* with.  Clients: the safety part of IdealBook.                           *)
(***************************************************************************)
EXTENDS OrderBookRefinement, LevelQueueProofs

-----------------------------------------------------------------------------
(* The top of a side *)

\* Levels as TypeOK describes them.
Levels == [Sides -> [Prices -> Seq(Node(OrderIds))]]

\* BestPrice bounds the levels of its side and is a price of the side or the
\* sentinel.
LEMMA BestPriceBounds ==
    ASSUME NEW lv \in Levels
    PROVE  /\ \A side \in Sides : BestPrice(lv, side) \in Prices \cup {InvalidPrice}
           /\ \A side \in Sides : Occupied(lv, side) # {} =>
                 BestPrice(lv, side) \in Occupied(lv, side)
           /\ \A price \in Occupied(lv, "Buy") : price <= BestPrice(lv, "Buy")
           /\ \A price \in Occupied(lv, "Sell") : BestPrice(lv, "Sell") <= price
<1> DEFINE Bids == Occupied(lv, "Buy")
           Asks == Occupied(lv, "Sell")
<1>0. \A side \in Sides : Occupied(lv, side) \in SUBSET Prices
  BY DEF Occupied
<1>1. ASSUME Bids # {}
      PROVE  Max(Bids) \in Bids /\ \A price \in Bids : Max(Bids) >= price
  <2>1. PICK top \in Bids : \A price \in Bids : price <= top
    BY <1>1, <1>0, PricesHaveExtremes DEF Sides
  <2>2. \A price \in Bids : top >= price
    BY <2>1, <1>0, ConstantTypes DEF Sides
  <2> QED
    BY <2>2 DEF Max
<1>2. ASSUME Asks # {}
      PROVE  Min(Asks) \in Asks /\ \A price \in Asks : Min(Asks) =< price
  <2>1. PICK bottom \in Asks : \A price \in Asks : bottom <= price
    BY <1>2, <1>0, PricesHaveExtremes DEF Sides
  <2> QED
    BY <2>1 DEF Min
<1>3. Bids # {} => BestPrice(lv, "Buy") = Max(Bids)
  BY DEF BestPrice
<1>4. Asks # {} => BestPrice(lv, "Sell") = Min(Asks)
  BY DEF BestPrice
<1>5. \A side \in Sides : Occupied(lv, side) = {} => BestPrice(lv, side) = InvalidPrice
  BY DEF BestPrice
<1>6. \A price \in Bids : price <= BestPrice(lv, "Buy")
  BY <1>0, <1>1, <1>3, ConstantTypes DEF Sides
<1>7. \A price \in Asks : BestPrice(lv, "Sell") <= price
  BY <1>0, <1>2, <1>4, ConstantTypes DEF Sides
<1>8. \A side \in Sides : Occupied(lv, side) # {} =>
                 BestPrice(lv, side) \in Occupied(lv, side)
  BY <1>1, <1>2, <1>3, <1>4 DEF Sides
<1> QED
  BY <1>0, <1>5, <1>6, <1>7, <1>8

-----------------------------------------------------------------------------
(* Type correctness *)

\* A fill moves the filled quantity of an order and nothing else.
LEMMA FillType ==
    ASSUME NEW order \in Order, NEW quantity \in Quantity
    PROVE  /\ Remaining(order) \in Quantity
           /\ Fill(order, quantity) \in Order
           /\ Fill(order, quantity) =
                 [order EXCEPT !.filled = Fill(order, quantity).filled]
<1>1. order.quantity \in Quantity /\ order.filled \in Quantity
  BY DEF Order
<1>2. Remaining(order) \in Quantity
  <2>1. order.quantity - order.filled \in Int
    BY <1>1 DEF Quantity
  <2> QED
    BY <2>1, ModIsQuantity DEF Remaining
<1> DEFINE moved == IF quantity < Remaining(order) THEN quantity ELSE Remaining(order)
<1>3. (order.filled + moved) % QMod \in Quantity
  <2>1. order.filled + moved \in Int
    BY <1>1, <1>2 DEF Quantity
  <2> QED
    BY <2>1, ModIsQuantity
<1>4. Fill(order, quantity) = [order EXCEPT !.filled = (order.filled + moved) % QMod]
  BY DEF Fill
<1> HIDE DEF moved
<1>5. [order EXCEPT !.filled = (order.filled + moved) % QMod] \in Order
  BY <1>3 DEF Order
<1>6. Fill(order, quantity).filled = (order.filled + moved) % QMod
  BY <1>4 DEF Order
<1> QED
  BY <1>2, <1>4, <1>5, <1>6

\* orders_ as TypeOK describes it.
Table(table) ==
    /\ DOMAIN table \subseteq OrderIds
    /\ \A id \in DOMAIN table :
          table[id] \in Order /\ table[id].id = id /\ table[id].price \in Prices

LEMMA TableUpdates ==
    ASSUME NEW table, Table(table)
    PROVE  /\ \A id : Table(Without(table, id))
           /\ \A order \in Order : order.id \in OrderIds /\ order.price \in Prices
                 => Table(Put(table, order.id, order))
           /\ \A id \in DOMAIN table, quantity \in Quantity :
                 Table([table EXCEPT ![id].quantity = quantity])
<1>1. \A id : Table(Without(table, id))
  BY DEF Table, Without
<1>2. \A order \in Order : order.id \in OrderIds /\ order.price \in Prices
         => Table(Put(table, order.id, order))
  BY DEF Table, Put
<1>3. ASSUME NEW id \in DOMAIN table, NEW quantity \in Quantity
      PROVE  Table([table EXCEPT ![id].quantity = quantity])
  <2>1. [table[id] EXCEPT !.quantity = quantity] \in Order
    BY DEF Table, Order
  <2>2. /\ [table[id] EXCEPT !.quantity = quantity].id = id
        /\ [table[id] EXCEPT !.quantity = quantity].price \in Prices
    BY DEF Table, Order
  <2> QED
    BY <2>1, <2>2 DEF Table
<1> QED
  BY <1>1, <1>2, <1>3

LEMMA TypeOfPricing ==
    ASSUME NEW id \in OrderIds, NEW side \in Sides, NEW price \in Prices,
           NEW quantity \in Quantity, NEW type \in OrderTypes,
           NEW tif \in TimesInForce
    PROVE  LET order == AsPriced(NewOrder(id, side, price, quantity, type, tif))
           IN  /\ order \in Order
               /\ order.id = id
               /\ order.type # "Market" => order.price \in Prices
<1> DEFINE plain == NewOrder(id, side, price, quantity, type, tif)
<1>1. /\ plain \in Order /\ plain.id = id /\ plain.price = price
      /\ plain.type = type /\ plain.side = side
  BY QModAssumption DEF NewOrder, Order, LimitPrices, Quantity
<1> HIDE DEF plain
<1>2. \A p \in LimitPrices : /\ [plain EXCEPT !.price = p] \in Order
                             /\ [plain EXCEPT !.price = p].id = id
                             /\ [plain EXCEPT !.price = p].type = type
  BY <1>1 DEF Order
<1>3. InvalidPrice \in LimitPrices /\ 0 \in LimitPrices
  BY DEF LimitPrices
<1>4. /\ AsPriced(plain) \in Order
      /\ AsPriced(plain).id = id
      /\ AsPriced(plain).type # "Market" => AsPriced(plain).price \in Prices
  BY <1>1, <1>2, <1>3 DEF AsPriced
<1> QED
  BY <1>4 DEF plain

\* What the matching loop may assume of the taker and of the level it is at.
LEMMA TypeOfMatch ==
    ASSUME TypeOK, Matching
    PROVE  /\ taker \in Order /\ taker.id \in OrderIds /\ taker.side \in Sides
           /\ Maker \in Sides
           /\ Top \in Prices
           /\ Queue \in Seq(Node(OrderIds))
<1>1. taker \in Order /\ taker.id \in OrderIds
  BY DEF TypeOK, Matching
<1>2. taker.side \in Sides /\ Maker \in Sides
  BY <1>1 DEF Order, Maker, Opposite, Sides
<1>3. Top \in Prices
  BY <1>2 DEF TypeOK, Top, Matching, CanMatch
<1>4. levels[Maker] \in [Prices -> Seq(Node(OrderIds))]
  BY <1>2 DEF TypeOK
<1> QED
  BY <1>1, <1>2, <1>3, <1>4 DEF Queue

LEMMA TypeOfReplaceQueue ==
    ASSUME TypeOK, Matching, NEW queue \in Seq(Node(OrderIds)), ReplaceQueue(queue)
    PROVE  /\ levels' \in Levels
           /\ best' \in [Sides -> Prices \cup {InvalidPrice}]
<1>1. levels' \in Levels
  BY TypeOfMatch DEF TypeOK, ReplaceQueue, Levels
<1>2. BestPrice(levels', Maker) \in Prices \cup {InvalidPrice}
  BY <1>1, TypeOfMatch, BestPriceBounds
<1> QED
  BY <1>1, <1>2 DEF TypeOK, ReplaceQueue

LEMMA TypeOfEmitTrade ==
    ASSUME TypeOK, NEW trade \in Trade, EmitTrade(trade)
    PROVE  pending' \in Seq(Trade)
<1>1. pending \in Seq(Trade) /\ Append(pending, trade) \in Seq(Trade)
  BY AppendProperties DEF TypeOK
<1>2. <<>> \in Seq(Trade)
  BY EmptySeq
<1> QED
  BY <1>1, <1>2 DEF EmitTrade

\* The body of a cancellation.
LEMMA TypeOfWithdraw ==
    ASSUME TypeOK, NEW id \in DOMAIN orders, Withdraw(id)
    PROVE  /\ Table(orders')
           /\ levels' \in Levels
           /\ best' \in [Sides -> Prices \cup {InvalidPrice}]
           /\ lastBbo' \in [Sides -> Prices \cup {InvalidPrice}]
<1>1. Table(orders) /\ levels \in Levels
  BY DEF TypeOK, Table, Levels
<1>2. Table(orders')
  BY <1>1, TableUpdates DEF Withdraw
<1>3. orders[id].side \in Sides /\ orders[id].price \in Prices
  BY <1>1 DEF Table, Order
<1>4. levels[orders[id].side][orders[id].price] \in Seq(Node(OrderIds))
  BY <1>1, <1>3 DEF Levels
<1>5. RemoveNode(levels[orders[id].side][orders[id].price], id) \in Seq(Node(OrderIds))
  BY <1>4, RemoveNodeType
<1>6. levels' \in Levels
  BY <1>1, <1>3, <1>5 DEF Withdraw, Levels
<1>7. PICK side \in FreedSides(orders[id]) :
         best' = [best EXCEPT ![side] = BestPrice(levels', side)]
  BY DEF Withdraw
<1>8. side \in Sides
  BY <1>3 DEF FreedSides
<1>9. best' \in [Sides -> Prices \cup {InvalidPrice}]
  BY <1>6, <1>7, <1>8, BestPriceBounds DEF TypeOK
<1> QED
  BY <1>2, <1>6, <1>9 DEF Withdraw, BboAfter, TypeOK

\* The tail of a successful add leaves the types alone.
LEMMA TypeOfConclude ==
    ASSUME TypeOK, NEW earlier, NEW avg, Conclude(earlier, avg)
    PROVE  /\ pending' \in Seq(Trade)
           /\ pc' = "returned"
           /\ UNCHANGED <<callbacks, taker, fills, carried>>
BY EmptySeq DEF TypeOK, Conclude, Respond, Unflushed

\* A step of the book preserves the types.
LEMMA TypeOfStep ==
    ASSUME TypeOK, Step
    PROVE  TypeOK'
<1> USE DEF book
<1>1. CASE Reject
  BY <1>1 DEF Reject, Respond, TypeOK
<1>2. CASE Admit
  BY <1>2 DEF Admit, TypeOK
<1>3. CASE StopMatching
  BY <1>3 DEF StopMatching, TypeOK
<1>4. CASE RefreshBest
  <2>1. Matching /\ Maker \in Sides
    BY <1>4, TypeOfMatch DEF RefreshBest
  <2>2. BestPrice(levels, Maker) \in Prices \cup {InvalidPrice}
    BY <2>1, BestPriceBounds DEF TypeOK, Levels
  <2>3. best' \in [Sides -> Prices \cup {InvalidPrice}]
    BY <1>4, <2>2 DEF RefreshBest, TypeOK
  <2> QED
    BY <1>4, <2>3 DEF RefreshBest, TypeOK
<1>5. CASE DropGhost
  <2>1. /\ Matching /\ PopFront(Queue) \in Seq(Node(OrderIds))
        /\ ReplaceQueue(PopFront(Queue))
    BY <1>5, TypeOfMatch, PopFrontType DEF DropGhost
  <2>2. levels' \in Levels /\ best' \in [Sides -> Prices \cup {InvalidPrice}]
    BY <2>1, TypeOfReplaceQueue
  <2> QED
    BY <1>5, <2>2 DEF DropGhost, TypeOK, Levels
<1>6. CASE SelfTradeStop
  BY <1>6 DEF SelfTradeStop, Matching, TypeOK
<1>7. CASE FillResting
  <2>1. /\ Matching /\ Queue # <<>>
        /\ Head(Queue).id \in DOMAIN orders
        /\ ReplaceQueue(FillFront(Queue, FillQuantity))
        /\ EmitTrade(TradeOf(FillQuantity))
    BY <1>7 DEF FillResting
  <2>2. Table(orders)
    BY DEF TypeOK, Table
  <2>3. /\ Resting \in Order /\ Resting.id = Head(Queue).id
        /\ Resting.id \in OrderIds /\ Resting.price \in Prices
    BY <2>1, <2>2 DEF Resting, Table
  <2>4. FillQuantity \in Quantity
    <3>1. Remaining(taker) \in Quantity /\ Remaining(Resting) \in Quantity
      <4>1. 0 \in Quantity
        BY QModAssumption DEF Quantity
      <4> QED
        BY <2>1, <2>3, <4>1, FillType, TypeOfMatch
    <3> QED
      BY <3>1 DEF FillQuantity
  <2>5. levels' \in Levels /\ best' \in [Sides -> Prices \cup {InvalidPrice}]
    <3>1. FillFront(Queue, FillQuantity) \in Seq(Node(OrderIds))
      BY <2>1, <2>4, TypeOfMatch, FillFrontType
    <3> QED
      BY <2>1, <3>1, TypeOfReplaceQueue
  <2>6. TradeOf(FillQuantity) \in Trade
    BY <2>1, <2>3, <2>4, TypeOfMatch DEF TradeOf, Trade
  <2>7. pending' \in Seq(Trade)
    BY <2>1, <2>6, TypeOfEmitTrade
  <2>8. fills' \in Seq(Trade)
    <3>1. fills' = Append(fills, TradeOf(FillQuantity)) /\ fills \in Seq(Trade)
      BY <1>7 DEF FillResting, TypeOK
    <3> QED
      BY <2>6, <3>1, AppendProperties
  <2>9. /\ taker' \in Order /\ taker'.id \in OrderIds
        /\ taker'.type # "Market" => taker'.price \in Prices
    <3>1. /\ Fill(taker, FillQuantity) \in Order
          /\ Fill(taker, FillQuantity) =
                [taker EXCEPT !.filled = Fill(taker, FillQuantity).filled]
      BY <2>1, <2>4, TypeOfMatch, FillType
    <3>2. taker' = Fill(taker, FillQuantity)
      BY <1>7 DEF FillResting
    <3>3. /\ Fill(taker, FillQuantity).id = taker.id
          /\ Fill(taker, FillQuantity).type = taker.type
          /\ Fill(taker, FillQuantity).price = taker.price
      <4> DEFINE f == Fill(taker, FillQuantity).filled
      <4>1. Fill(taker, FillQuantity) = [taker EXCEPT !.filled = f]
        BY <3>1
      <4> HIDE DEF f
      <4> QED
        BY <2>1, <4>1, TypeOfMatch DEF Order
    <3> QED
      BY <2>1, <3>1, <3>2, <3>3 DEF TypeOK, Matching
  <2>10. Table(orders')
    <3> DEFINE resting == Fill(Resting, FillQuantity)
               f == resting.filled
    <3>1. resting \in Order /\ resting = [Resting EXCEPT !.filled = f]
      BY <2>3, <2>4, FillType
    <3>2. resting.id = Resting.id /\ resting.price = Resting.price
      <4> HIDE DEF resting, f
      <4> QED
        BY <2>3, <3>1 DEF Order
    <3>3. orders' = IF IsFilled(resting) THEN Without(orders, resting.id)
                                         ELSE Put(orders, resting.id, resting)
      BY <1>7 DEF FillResting, Settle
    <3> HIDE DEF resting
    <3> QED
      BY <2>2, <2>3, <3>1, <3>2, <3>3, TableUpdates
  <2> QED
    BY <1>7, <2>5, <2>7, <2>8, <2>9, <2>10
    DEF FillResting, TypeOK, Levels, Table
<1>8. CASE FinishIOC
  <2>1. PICK avg : Conclude(IF IsFilled(taker) THEN <<>>
                            ELSE Report(taker, taker.filled, avg), avg)
    BY <1>8 DEF FinishIOC
  <2>2. /\ pending' \in Seq(Trade) /\ pc' = "returned"
        /\ UNCHANGED <<callbacks, taker, fills, carried>>
    BY <2>1, TypeOfConclude
  <2> QED
    BY <1>8, <2>2 DEF FinishIOC, TypeOK
<1>9. CASE KillFOK
  BY <1>9 DEF KillFOK, Respond, TypeOK
<1>10. CASE Rest
  <2>1. PICK avg : Conclude(Bbo(levels', best'), avg)
    BY <1>10 DEF Rest
  <2>2. /\ pending' \in Seq(Trade) /\ pc' = "returned"
        /\ UNCHANGED <<callbacks, taker, fills, carried>>
    BY <2>1, TypeOfConclude
  <2>3. /\ taker \in Order /\ taker.id \in OrderIds /\ taker.side \in Sides
        /\ taker.price \in Prices
    BY <1>10 DEF Rest, CanRest, TypeOK, Order
  <2>4. Remaining(taker) \in Quantity
    <3>1. 0 \in Quantity
      BY QModAssumption DEF Quantity
    <3> QED
      BY <2>3, <3>1, FillType
  <2>5. Table(orders')
    <3>1. Table(orders) /\ orders' = Put(orders, taker.id, taker)
      BY <1>10 DEF Rest, TypeOK, Table
    <3> QED
      BY <2>3, <3>1, TableUpdates
  <2>6. levels' \in Levels
    <3>1. levels[taker.side][taker.price] \in Seq(Node(OrderIds))
      BY <2>3 DEF TypeOK
    <3>2. AddNode(levels[taker.side][taker.price], taker.id, Remaining(taker))
             \in Seq(Node(OrderIds))
      BY <2>3, <2>4, <3>1, AddNodeType
    <3>3. levels \in Levels
      BY DEF TypeOK, Levels
    <3> QED
      BY <1>10, <2>3, <3>2, <3>3 DEF Rest, Levels
  <2>7. best' \in [Sides -> Prices \cup {InvalidPrice}]
    BY <1>10, <2>3 DEF Rest, TypeOK
  <2>8. lastBbo' \in [Sides -> Prices \cup {InvalidPrice}]
    BY <1>10, <2>7 DEF Rest, BboAfter, TypeOK
  <2> QED
    BY <2>2, <2>5, <2>6, <2>7, <2>8 DEF TypeOK, Table, Levels
<1>11. CASE Complete
  <2>1. PICK avg : Conclude(<<>>, avg)
    BY <1>11 DEF Complete
  <2>2. /\ pending' \in Seq(Trade) /\ pc' = "returned"
        /\ UNCHANGED <<callbacks, taker, fills, carried>>
    BY <2>1, TypeOfConclude
  <2> QED
    BY <1>11, <2>2 DEF Complete, TypeOK
<1>12. CASE Return
  <2>1. NoOrder \in Order
    BY QModAssumption
    DEF NoOrder, Order, Sides, OrderTypes, TimesInForce, LimitPrices, Quantity
  <2>2. <<>> \in Seq(Trade)
    BY EmptySeq
  <2> QED
    BY <1>12, <2>1, <2>2 DEF Return, TypeOK
<1> QED
  BY <1>1, <1>2, <1>3, <1>4, <1>5, <1>6, <1>7, <1>8, <1>9, <1>10, <1>11, <1>12
  DEF Step

\* A client's call preserves the types.
LEMMA TypeOfClient ==
    ASSUME TypeOK, Client
    PROVE  TypeOK'
<1> USE DEF book
<1>0. carried' = pending => carried' \in Seq(Trade)
  BY DEF TypeOK
<1>1. ASSUME NEW id \in OrderIds, NEW side \in Sides, NEW price \in Prices,
             NEW quantity \in Amounts, NEW kind \in OrderKinds,
             AddOrder(id, side, price, quantity, kind)
      PROVE  TypeOK'
  <2>1. quantity \in Quantity /\ kind.type \in OrderTypes /\ kind.tif \in TimesInForce
    BY ConstantTypes
  <2>2. /\ taker' \in Order /\ taker'.id \in OrderIds
        /\ taker'.type # "Market" => taker'.price \in Prices
    BY <1>1, <2>1, TypeOfPricing DEF AddOrder
  <2> QED
    BY <1>0, <1>1, <2>2 DEF AddOrder, Call, TypeOK
<1>2. ASSUME NEW id \in OrderIds, OrderNotFound(id)
      PROVE  TypeOK'
  BY <1>0, <1>2 DEF OrderNotFound, Call, Respond, TypeOK
<1>3. ASSUME NEW id \in OrderIds, Cancel(id)
      PROVE  TypeOK'
  <2>1. /\ Table(orders') /\ levels' \in Levels
        /\ best' \in [Sides -> Prices \cup {InvalidPrice}]
        /\ lastBbo' \in [Sides -> Prices \cup {InvalidPrice}]
    BY <1>3, TypeOfWithdraw DEF Cancel
  <2> QED
    BY <1>0, <1>3, <2>1 DEF Cancel, Call, Respond, TypeOK, Table, Levels
<1>4. ASSUME NEW id \in OrderIds, ReplaceNotFound(id)
      PROVE  TypeOK'
  BY <1>0, <1>4 DEF ReplaceNotFound, RespondBare, Call, Respond, TypeOK
<1>5. ASSUME NEW id \in OrderIds, NEW quantity \in Amounts, Amend(id, quantity)
      PROVE  TypeOK'
  <2>1. quantity \in Quantity
    BY ConstantTypes
  <2>2. Table(orders) /\ levels \in Levels /\ id \in DOMAIN orders
    BY <1>5 DEF Amend, TypeOK, Table, Levels
  <2>3. Table(orders')
    <3>1. orders' = [orders EXCEPT ![id].quantity = quantity]
      BY <1>5 DEF Amend
    <3> QED
      BY <2>1, <2>2, <3>1, TableUpdates
  <2>4. orders[id].side \in Sides /\ orders[id].price \in Prices
    BY <2>2 DEF Table, Order
  <2>5. ModifyNode(levels[orders[id].side][orders[id].price], id, quantity)
            \in Seq(Node(OrderIds))
    BY <2>1, <2>2, <2>4, ModifyNodeType DEF Levels
  <2>6. levels' \in Levels
    BY <1>5, <2>2, <2>4, <2>5 DEF Amend, Levels
  <2>7. lastBbo' \in [Sides -> Prices \cup {InvalidPrice}]
    BY <1>5 DEF Amend, BboAfter, TypeOK
  <2> QED
    BY <1>0, <1>5, <2>3, <2>6, <2>7
    DEF Amend, Call, RespondBare, Respond, TypeOK, Table, Levels
<1>6. ASSUME NEW id \in OrderIds, NEW price \in Prices, NEW quantity \in Amounts,
             Move(id, price, quantity)
      PROVE  TypeOK'
  <2>1. /\ Table(orders') /\ levels' \in Levels
        /\ best' \in [Sides -> Prices \cup {InvalidPrice}]
        /\ lastBbo' \in [Sides -> Prices \cup {InvalidPrice}]
    BY <1>6, TypeOfWithdraw DEF Move
  <2>2. quantity \in Quantity /\ orders[id] \in Order
    BY <1>6, ConstantTypes DEF Move, TypeOK
  <2>3. /\ orders[id].side \in Sides /\ orders[id].type \in OrderTypes
        /\ orders[id].tif \in TimesInForce
    BY <2>2 DEF Order
  <2>4. /\ taker' \in Order /\ taker'.id \in OrderIds
        /\ taker'.type # "Market" => taker'.price \in Prices
    <3>1. taker' = AsPriced(NewOrder(id, orders[id].side, price, quantity,
                                     orders[id].type, orders[id].tif))
      BY <1>6 DEF Move
    <3> QED
      BY <2>2, <2>3, <3>1, TypeOfPricing
  <2> QED
    BY <1>0, <1>6, <2>1, <2>4 DEF Move, Call, TypeOK, Table, Levels
<1>7. ASSUME FlushPending
      PROVE  TypeOK'
  BY <1>0, <1>7, EmptySeq DEF FlushPending, Call, Unflushed, TypeOK
<1>8. ASSUME NEW installed \in CallbackSets, SetCallbacks(installed)
      PROVE  TypeOK'
  BY <1>8 DEF SetCallbacks, TypeOK
<1> QED
  BY <1>1, <1>2, <1>3, <1>4, <1>5, <1>6, <1>7, <1>8 DEF Client

\* The first state has the types.
LEMMA TypeOfInit == Init => TypeOK
<1> SUFFICES ASSUME Init PROVE TypeOK
  OBVIOUS
<1>1. NoOrder \in Order
  BY QModAssumption
  DEF NoOrder, Order, Sides, OrderTypes, TimesInForce, LimitPrices, Quantity
<1>2. <<>> \in Seq(Trade) /\ <<>> \in Seq(Node(OrderIds))
  BY EmptySeq
<1>3. levels \in [Sides -> [Prices -> Seq(Node(OrderIds))]]
  BY <1>2 DEF Init
<1>4. DOMAIN orders = {}
  BY DEF Init
<1> QED
  BY <1>1, <1>2, <1>3, <1>4 DEF Init, TypeOK

\* Every variable of the book holds a value of its type at every step, however
\* hostile the calls: no fill, cancellation, amendment or move stores an order,
\* a node, a best price or a trade the data structures have no room for.
THEOREM TypeCorrect == Spec => []TypeOK
<1>1. TypeOK /\ [Next]_vars => TypeOK'
  <2> SUFFICES ASSUME TypeOK, [Next]_vars PROVE TypeOK'
    OBVIOUS
  <2>1. CASE Step
    BY <2>1, TypeOfStep
  <2>2. CASE Client
    BY <2>2, TypeOfClient
  <2>3. CASE UNCHANGED vars
    BY <2>3 DEF vars, TypeOK
  <2> QED
    BY <2>1, <2>2, <2>3 DEF Next
<1> QED
  BY <1>1, TypeOfInit, PTL DEF Spec

-----------------------------------------------------------------------------
(* The book is never crossed *)

\* An order that leaves the matching loop with a quantity left meets nothing it
\* could trade with, or an order of its own.
MatchedOut == pc = "matched" => IsFilled(taker) \/ ~CanMatch \/ HeldUp

\* NeverCrossed is not inductive: that a resting order cannot cross is known
\* when the matching loop ends (MatchedOut), of the cached best price only,
\* and the cache speaks for the levels because it is never behind them.
Inv == TypeOK /\ BestNeverBehind /\ MatchedOut /\ NeverCrossed

\* Whether an order is held up depends on the book and on itself alone.
LEMMA HeldUpStays ==
    ASSUME UNCHANGED <<orders, levels, best, taker>>
    PROVE  HeldUp' <=> HeldUp
<1>1. CanMatch' <=> CanMatch
  BY DEF CanMatch, Top, Maker, WouldCross
<1>2. Queue' = Queue
  BY DEF Queue, Top, Maker
<1>3. SameOwner' <=> SameOwner
  BY <1>2 DEF SameOwner, Resting
<1> QED
  BY <1>1, <1>2, <1>3 DEF HeldUp

LEMMA SelfTradeStopHoldsUp ==
    ASSUME SelfTradeStop
    PROVE  UNCHANGED <<book, taker, pending>> /\ HeldUp /\ HeldUp'
<1>1. UNCHANGED <<book, taker, pending>> /\ HeldUp
  BY DEF SelfTradeStop, HeldUp, Matching
<1> QED
  BY <1>1, HeldUpStays DEF book

\* Emptying levels, or shrinking them, puts no cache behind and crosses nothing.
LEMMA ShrinkingIsSafe ==
    ASSUME BestNeverBehind, NeverCrossed,
           \A side \in Sides : Occupied(levels', side) \subseteq Occupied(levels, side),
           \A side \in Sides : best'[side] \in {best[side], BestPrice(levels', side)},
           levels' \in Levels
    PROVE  BestNeverBehind' /\ NeverCrossed'
<1>1. BestNeverBehind'
  <2> SUFFICES ASSUME NormalPrices PROVE BestNeverBehind'
    BY DEF BestNeverBehind
  <2>1. \A price \in Occupied(levels', "Buy") :
           best'["Buy"] # InvalidPrice /\ price <= best'["Buy"]
    <3> SUFFICES ASSUME NEW price \in Occupied(levels', "Buy")
                 PROVE  best'["Buy"] # InvalidPrice /\ price <= best'["Buy"]
      OBVIOUS
    <3>1. CASE best'["Buy"] = best["Buy"]
      BY <3>1 DEF BestNeverBehind, Sides
    <3>2. CASE best'["Buy"] = BestPrice(levels', "Buy")
      <4>1. BestPrice(levels', "Buy") \in Occupied(levels', "Buy")
        BY BestPriceBounds DEF Sides
      <4>2. BestPrice(levels', "Buy") # InvalidPrice
        BY <4>1, ConstantTypes DEF NormalPrices, Occupied
      <4> QED
        BY <3>2, <4>2, BestPriceBounds
    <3> QED
      BY <3>1, <3>2 DEF Sides
  <2>2. \A price \in Occupied(levels', "Sell") : best'["Sell"] <= price
    BY BestPriceBounds DEF BestNeverBehind, Sides
  <2> QED
    BY <2>1, <2>2 DEF BestNeverBehind
<1>2. NeverCrossed'
  BY DEF NeverCrossed, Sides
<1> QED
  BY <1>1, <1>2

\* Putting another queue where one was occupies no new price.
LEMMA ReplaceQueueShrinks ==
    ASSUME TypeOK, Matching, Queue # <<>>, NEW queue, ReplaceQueue(queue)
    PROVE  /\ \A side \in Sides : Occupied(levels', side) \subseteq Occupied(levels, side)
           /\ \A side \in Sides : best'[side] \in {best[side], BestPrice(levels', side)}
<1>1. levels' = [levels EXCEPT ![Maker][Top] = queue]
  BY DEF ReplaceQueue
<1>2. Maker \in Sides /\ Top \in Prices
  BY TypeOfMatch
<1>3. \A side \in Sides, price \in Prices :
         levels'[side][price] = levels[side][price] \/ (side = Maker /\ price = Top)
  BY <1>1, <1>2 DEF TypeOK
<1>4. \A side \in Sides : Occupied(levels', side) \subseteq Occupied(levels, side)
  BY <1>3 DEF Occupied, Queue
<1>5. \A side \in Sides : best'[side] \in {best[side], BestPrice(levels', side)}
  BY <1>2 DEF ReplaceQueue, TypeOK
<1> QED
  BY <1>4, <1>5

LEMMA WithdrawShrinks ==
    ASSUME TypeOK, NEW id \in DOMAIN orders, Withdraw(id)
    PROVE  /\ \A side \in Sides : Occupied(levels', side) \subseteq Occupied(levels, side)
           /\ \A side \in Sides : best'[side] \in {best[side], BestPrice(levels', side)}
<1> DEFINE s == orders[id].side
           p == orders[id].price
<1>1. s \in Sides /\ p \in Prices
  BY DEF TypeOK, Order
<1>2. levels[s][p] \in Seq(Node(OrderIds))
  BY <1>1 DEF TypeOK
<1>3. RemoveNode(levels[s][p], id) # <<>> => levels[s][p] # <<>>
  BY <1>2, RemoveNodeType
<1>4. levels' = [levels EXCEPT ![s][p] = RemoveNode(levels[s][p], id)]
  BY DEF Withdraw
<1> HIDE DEF s, p
<1>5. \A side \in Sides, price \in Prices :
         levels'[side][price] # <<>> => levels[side][price] # <<>>
  BY <1>1, <1>3, <1>4 DEF TypeOK
<1>6. \A side \in Sides : Occupied(levels', side) \subseteq Occupied(levels, side)
  BY <1>5 DEF Occupied
<1>7. \E side : best' = [best EXCEPT ![side] = BestPrice(levels', side)]
  BY DEF Withdraw
<1>8. \A side \in Sides : best'[side] \in {best[side], BestPrice(levels', side)}
  BY <1>7 DEF TypeOK
<1> QED
  BY <1>6, <1>8

\* The step that adds a level.
LEMMA RestIsSafe ==
    ASSUME Inv, Rest
    PROVE  BestNeverBehind' /\ NeverCrossed'
<1>1. /\ taker \in Order /\ taker.side \in Sides /\ taker.price \in Prices
      /\ ~IsFilled(taker) /\ taker.type # "Market" /\ pc = "matched"
  BY DEF Inv, TypeOK, Rest, CanRest, Order
<1>2. \A side \in Sides, price \in Prices :
         levels'[side][price] = levels[side][price]
         \/ (side = taker.side /\ price = taker.price)
  BY <1>1 DEF Rest, Inv, TypeOK
<1>3. /\ Occupied(levels', taker.side) \subseteq Occupied(levels, taker.side) \cup {taker.price}
      /\ \A side \in Sides : side # taker.side =>
            Occupied(levels', side) = Occupied(levels, side)
  BY <1>1, <1>2 DEF Occupied
<1>4. /\ \A side \in Sides : side # taker.side => best'[side] = best[side]
      /\ best'[taker.side] = IF Better(taker.side, taker.price, best[taker.side])
                             THEN taker.price ELSE best[taker.side]
      /\ \A side \in Sides : best[side] \in Prices \cup {InvalidPrice}
  BY <1>1 DEF Rest, Inv, TypeOK
<1>5. BestNeverBehind'
  <2> SUFFICES ASSUME NormalPrices PROVE BestNeverBehind'
    BY DEF BestNeverBehind
  <2>1. \A price \in Occupied(levels', "Buy") :
           best'["Buy"] # InvalidPrice /\ price <= best'["Buy"]
    <3> SUFFICES ASSUME NEW price \in Occupied(levels', "Buy")
                 PROVE  best'["Buy"] # InvalidPrice /\ price <= best'["Buy"]
      OBVIOUS
    <3>1. price \in Prices
      BY DEF Occupied
    <3>2. CASE taker.side = "Buy"
      <4>1. price \in Occupied(levels, "Buy") \/ price = taker.price
        BY <1>3, <3>2
      <4> QED
        BY <1>1, <1>4, <3>1, <3>2, <4>1, ConstantTypes
        DEF Better, BestNeverBehind, Inv, NormalPrices, Sides
    <3>3. CASE taker.side # "Buy"
      BY <1>3, <1>4, <3>3 DEF BestNeverBehind, Inv, Sides
    <3> QED
      BY <3>2, <3>3
  <2>2. \A price \in Occupied(levels', "Sell") : best'["Sell"] <= price
    <3> SUFFICES ASSUME NEW price \in Occupied(levels', "Sell")
                 PROVE  best'["Sell"] <= price
      OBVIOUS
    <3>1. price \in Prices
      BY DEF Occupied
    <3>2. CASE taker.side = "Sell"
      <4>1. price \in Occupied(levels, "Sell") \/ price = taker.price
        BY <1>3, <3>2
      <4> QED
        BY <1>1, <1>4, <3>1, <3>2, <4>1, ConstantTypes
        DEF Better, BestNeverBehind, Inv, NormalPrices, Sides
    <3>3. CASE taker.side # "Sell"
      BY <1>3, <1>4, <3>3 DEF BestNeverBehind, Inv, Sides
    <3> QED
      BY <3>2, <3>3
  <2> QED
    BY <2>1, <2>2 DEF BestNeverBehind
<1>6. NeverCrossed'
  <2> SUFFICES ASSUME NormalPrices, ~SelfTradePrevention,
                      NEW bid \in Occupied(levels', "Buy"),
                      NEW ask \in Occupied(levels', "Sell")
               PROVE  bid < ask
    BY DEF NeverCrossed
  <2>1. bid \in Prices /\ ask \in Prices /\ Prices \subseteq Int
    BY ConstantTypes DEF Occupied
  <2>2. Top \in {InvalidPrice, 0} \/ ~WouldCross(taker, Top)
    BY <1>1 DEF Inv, MatchedOut, CanMatch, HeldUp, SameOwner, BelongTogether
  <2>3. CASE taker.side = "Buy"
    <3>1. Maker = "Sell" /\ Top = best["Sell"]
      BY <2>3 DEF Maker, Opposite, Top
    <3>2. ask \in Occupied(levels, "Sell") /\ best["Sell"] <= ask
      BY <1>3, <2>3 DEF Inv, BestNeverBehind, Sides
    <3>3. Top \in Prices /\ taker.price < Top
      <4>1. Top \in Prices
        BY <1>4, <2>1, <3>1, <3>2, ConstantTypes DEF NormalPrices, Sides
      <4>2. Top # 0 /\ Top # InvalidPrice
        BY <4>1, ConstantTypes DEF NormalPrices
      <4>3. ~WouldCross(taker, Top)
        BY <2>2, <4>2
      <4>4. ~(taker.price >= Top)
        BY <2>3, <4>3 DEF WouldCross
      <4>5. Top \in Int /\ taker.price \in Int
        BY <1>1, <2>1, <4>1
      <4> QED
        BY <4>1, <4>4, <4>5
    <3>4. bid \in Occupied(levels, "Buy") \/ bid = taker.price
      BY <1>3, <2>3
    <3> QED
      BY <1>1, <2>1, <3>1, <3>2, <3>3, <3>4 DEF Inv, NeverCrossed
  <2>4. CASE taker.side = "Sell"
    <3>1. Maker = "Buy" /\ Top = best["Buy"]
      BY <2>4 DEF Maker, Opposite, Top
    <3>2. /\ bid \in Occupied(levels, "Buy") /\ bid <= best["Buy"]
          /\ best["Buy"] # InvalidPrice
      BY <1>3, <2>4 DEF Inv, BestNeverBehind, Sides
    <3>3. Top \in Prices /\ Top < taker.price
      <4>1. Top \in Prices
        BY <1>4, <3>1, <3>2 DEF Sides
      <4>2. Top # 0 /\ Top # InvalidPrice
        BY <4>1, ConstantTypes DEF NormalPrices
      <4>3. ~WouldCross(taker, Top)
        BY <2>2, <4>2
      <4>4. ~(taker.price <= Top)
        BY <2>4, <4>3 DEF WouldCross
      <4>5. Top \in Int /\ taker.price \in Int
        BY <1>1, <2>1, <4>1
      <4> QED
        BY <4>1, <4>4, <4>5
    <3>4. ask \in Occupied(levels, "Sell") \/ ask = taker.price
      BY <1>3, <2>4
    <3> QED
      BY <1>1, <2>1, <3>1, <3>2, <3>3, <3>4 DEF Inv, NeverCrossed
  <2> QED
    BY <1>1, <2>3, <2>4 DEF Sides
<1> QED
  BY <1>5, <1>6

\* A step of the book preserves the three parts of Inv.
LEMMA SafetyOfStep ==
    ASSUME Inv, Step
    PROVE  BestNeverBehind' /\ MatchedOut' /\ NeverCrossed'
<1> USE DEF book
<1>0. TypeOK /\ levels \in Levels
  BY DEF Inv, TypeOK, Levels
<1>1. ASSUME UNCHANGED <<levels, best>>
      PROVE  BestNeverBehind' /\ NeverCrossed'
  BY <1>1 DEF Inv, BestNeverBehind, NeverCrossed, Occupied
<1>2. CASE Reject
  BY <1>1, <1>2 DEF Reject, Respond, MatchedOut
<1>3. CASE Admit
  BY <1>1, <1>3 DEF Admit, MatchedOut
<1>4. CASE StopMatching
  <2>1. UNCHANGED <<levels, best, taker>> /\ (IsFilled(taker) \/ ~CanMatch)
    BY <1>4 DEF StopMatching
  <2>2. IsFilled(taker)' \/ ~CanMatch'
    BY <2>1 DEF IsFilled, CanMatch, Top, Maker, WouldCross
  <2> QED
    BY <1>1, <2>1, <2>2 DEF MatchedOut
<1>5. CASE RefreshBest
  <2>1. \A side \in Sides : best'[side] \in {best[side], BestPrice(levels, side)}
    BY <1>0, <1>5, TypeOfMatch DEF RefreshBest, TypeOK
  <2>2. levels' = levels /\ levels' \in Levels
    BY <1>0, <1>5 DEF RefreshBest
  <2>3. /\ \A side \in Sides : best'[side] \in {best[side], BestPrice(levels', side)}
        /\ \A side \in Sides : Occupied(levels', side) \subseteq Occupied(levels, side)
    BY <2>1, <2>2
  <2>4. BestNeverBehind' /\ NeverCrossed'
    BY <2>2, <2>3, ShrinkingIsSafe DEF Inv
  <2> QED
    BY <1>5, <2>4 DEF RefreshBest, Matching, MatchedOut
<1>6. CASE DropGhost
  <2>1. /\ Matching /\ Queue # <<>> /\ ReplaceQueue(PopFront(Queue))
        /\ PopFront(Queue) \in Seq(Node(OrderIds)) /\ pc' = pc
    BY <1>0, <1>6, TypeOfMatch, PopFrontType DEF DropGhost
  <2>2. levels' \in Levels
    BY <1>0, <2>1, TypeOfReplaceQueue
  <2>3. BestNeverBehind' /\ NeverCrossed'
    BY <1>0, <2>1, <2>2, ReplaceQueueShrinks, ShrinkingIsSafe DEF Inv
  <2> QED
    BY <2>1, <2>3 DEF Matching, MatchedOut
<1>7. CASE SelfTradeStop
  BY <1>1, <1>7, SelfTradeStopHoldsUp DEF MatchedOut
<1>8. CASE FillResting
  <2>1. /\ Matching /\ Queue # <<>> /\ pc' = pc
        /\ ReplaceQueue(FillFront(Queue, FillQuantity))
    BY <1>8 DEF FillResting
  <2>2. levels' \in Levels
    BY <1>0, <1>8, TypeOfStep DEF Step, TypeOK, Levels
  <2>3. BestNeverBehind' /\ NeverCrossed'
    BY <1>0, <2>1, <2>2, ReplaceQueueShrinks, ShrinkingIsSafe DEF Inv
  <2> QED
    BY <2>1, <2>3 DEF Matching, MatchedOut
<1>9. CASE FinishIOC
  BY <1>1, <1>9 DEF FinishIOC, Conclude, Respond, MatchedOut
<1>10. CASE KillFOK
  BY <1>1, <1>10 DEF KillFOK, Respond, MatchedOut
<1>11. CASE Rest
  BY <1>11, RestIsSafe DEF Rest, Conclude, Respond, MatchedOut
<1>12. CASE Complete
  BY <1>1, <1>12 DEF Complete, Conclude, Respond, MatchedOut
<1>13. CASE Return
  BY <1>1, <1>13 DEF Return, MatchedOut
<1> QED
  BY <1>2, <1>3, <1>4, <1>5, <1>6, <1>7, <1>8, <1>9, <1>10, <1>11, <1>12, <1>13
  DEF Step

\* So does a client's call: what it removes leaves every cache ahead, and a
\* cancellation that refreshes the wrong side refreshes it correctly.
LEMMA SafetyOfClient ==
    ASSUME Inv, Client
    PROVE  BestNeverBehind' /\ MatchedOut' /\ NeverCrossed'
<1> USE DEF book
<1>0. TypeOK /\ levels \in Levels
  BY DEF Inv, TypeOK, Levels
<1>1. ASSUME UNCHANGED <<levels, best>>
      PROVE  BestNeverBehind' /\ NeverCrossed'
  BY <1>1 DEF Inv, BestNeverBehind, NeverCrossed, Occupied
<1>2. ASSUME NEW id \in OrderIds, NEW side \in Sides, NEW price \in Prices,
             NEW quantity \in Amounts, NEW kind \in OrderKinds,
             AddOrder(id, side, price, quantity, kind)
      PROVE  BestNeverBehind' /\ MatchedOut' /\ NeverCrossed'
  BY <1>1, <1>2 DEF AddOrder, MatchedOut
<1>3. ASSUME NEW id \in OrderIds, OrderNotFound(id) \/ ReplaceNotFound(id)
      PROVE  BestNeverBehind' /\ MatchedOut' /\ NeverCrossed'
  BY <1>1, <1>3 DEF OrderNotFound, ReplaceNotFound, RespondBare, Respond, MatchedOut
<1>4. ASSUME NEW id \in DOMAIN orders, Withdraw(id)
      PROVE  BestNeverBehind' /\ NeverCrossed'
  <2>1. levels' \in Levels
    BY <1>0, <1>4, TypeOfWithdraw
  <2> QED
    BY <1>0, <1>4, <2>1, WithdrawShrinks, ShrinkingIsSafe DEF Inv
<1>5. ASSUME NEW id \in OrderIds, Cancel(id)
      PROVE  BestNeverBehind' /\ MatchedOut' /\ NeverCrossed'
  BY <1>4, <1>5 DEF Cancel, Respond, MatchedOut
<1>6. ASSUME NEW id \in OrderIds, NEW price \in Prices, NEW quantity \in Amounts,
             Move(id, price, quantity)
      PROVE  BestNeverBehind' /\ MatchedOut' /\ NeverCrossed'
  BY <1>4, <1>6 DEF Move, MatchedOut
<1>7. ASSUME NEW id \in OrderIds, NEW quantity \in Amounts, Amend(id, quantity)
      PROVE  BestNeverBehind' /\ MatchedOut' /\ NeverCrossed'
  <2> DEFINE s == orders[id].side
             p == orders[id].price
  <2>1. s \in Sides /\ p \in Prices /\ levels[s][p] # <<>>
    BY <1>0, <1>7 DEF Amend, SamePrice, TypeOK, Order
  <2>2. /\ levels' = [levels EXCEPT ![s][p] = ModifyNode(levels[s][p], id, quantity)]
        /\ best' = best /\ pc' = "returned"
    BY <1>7 DEF Amend, RespondBare, Respond
  <2>3. levels' \in Levels
    BY <1>0, <1>7, TypeOfClient DEF Client, TypeOK, Levels
  <2> HIDE DEF s, p
  <2>4. \A side \in Sides, price \in Prices :
           levels'[side][price] # <<>> => levels[side][price] # <<>>
    BY <1>0, <2>1, <2>2 DEF Levels
  <2>5. \A side \in Sides : Occupied(levels', side) \subseteq Occupied(levels, side)
    BY <2>4 DEF Occupied
  <2>6. \A side \in Sides : best'[side] \in {best[side], BestPrice(levels', side)}
    BY <2>2
  <2>7. BestNeverBehind' /\ NeverCrossed'
    BY <2>3, <2>5, <2>6, ShrinkingIsSafe DEF Inv
  <2> QED
    BY <2>2, <2>7 DEF MatchedOut
<1>8. CASE FlushPending
  BY <1>1, <1>8 DEF FlushPending, MatchedOut
<1>9. ASSUME NEW installed \in CallbackSets, SetCallbacks(installed)
      PROVE  BestNeverBehind' /\ MatchedOut' /\ NeverCrossed'
  BY <1>1, <1>9 DEF SetCallbacks, MatchedOut
<1> QED
  BY <1>2, <1>3, <1>5, <1>6, <1>7, <1>8, <1>9 DEF Client

LEMMA InvInductive == Inv /\ [Next]_vars => Inv'
<1> SUFFICES ASSUME Inv, [Next]_vars PROVE Inv'
  OBVIOUS
<1>1. CASE Step
  BY <1>1, TypeOfStep, SafetyOfStep DEF Inv
<1>2. CASE Client
  BY <1>2, TypeOfClient, SafetyOfClient DEF Inv
<1>3. CASE UNCHANGED vars
  <2>1. UNCHANGED <<orders, levels, best, taker, pc>>
    BY <1>3 DEF vars
  <2>2. MatchedOut'
    BY <2>1, HeldUpStays DEF Inv, MatchedOut, IsFilled, CanMatch, Top, Maker, WouldCross
  <2> QED
    BY <1>3, <2>2 DEF vars, Inv, TypeOK, BestNeverBehind, NeverCrossed, Occupied
<1> QED
  BY <1>1, <1>2, <1>3 DEF Next

LEMMA InitInv == Init => Inv
<1> SUFFICES ASSUME Init PROVE Inv
  OBVIOUS
<1>1. \A side \in Sides : Occupied(levels, side) = {}
  BY DEF Init, Occupied
<1> QED
  BY <1>1, TypeOfInit DEF Init, Inv, BestNeverBehind, NeverCrossed, MatchedOut, Sides

LEMMA InvAlways == Spec => []Inv
BY InitInv, InvInductive, PTL DEF Spec

\* The cached best prices, which are all match_order and the post-only check
\* look at, are never worse than a level of their side, although cancel_order
\* may refresh the wrong one.
THEOREM BestNeverBehindAlways == Spec => []BestNeverBehind
<1>1. Inv => BestNeverBehind
  BY DEF Inv
<1> QED
  BY <1>1, InvAlways, PTL

\* Without self-trade prevention, with positive prices below the sentinel, the
\* book is never crossed at any step of any call, in spite of stale caches,
\* ghost nodes and orders amended after they traded.
THEOREM NeverCrossedAlways == Spec => []NeverCrossed
<1>1. Inv => NeverCrossed
  BY DEF Inv
<1> QED
  BY <1>1, InvAlways, PTL

-----------------------------------------------------------------------------
(* Post-only orders never take *)

\* A post-only order past the door cannot match, and nothing has been filled
\* before the loop begins.
PostOnlyInv ==
    /\ PostOnlyNeverTakes
    /\ pc \in {"idle", "adding"} => fills = <<>>
    /\ pc = "idle" => taker.type = "Limit"
    /\ pc = "matching" /\ PostOnlyRejection /\ taker.type = "PostOnly" => ~CanMatch

LEMMA PostOnlyInductive == TypeOK /\ PostOnlyInv /\ [Next]_vars => PostOnlyInv'
<1> SUFFICES ASSUME TypeOK, PostOnlyInv, [Next]_vars PROVE PostOnlyInv'
  OBVIOUS
<1> USE DEF book, PostOnlyInv, PostOnlyNeverTakes
<1>1. CASE Reject
  BY <1>1 DEF Reject, Respond
<1>2. CASE Admit
  <2>1. UNCHANGED <<best, taker, fills>> /\ pc = "adding" /\ pc' = "matching"
    BY <1>2 DEF Admit
  <2>2. PostOnlyRejection /\ taker.type = "PostOnly" => ~CanMatch
    BY <1>2 DEF Admit, Rejection, WouldTake, CanMatch, Top, Maker
  <2>3. CanMatch' <=> CanMatch
    BY <2>1 DEF CanMatch, Top, Maker, WouldCross
  <2> QED
    BY <2>1, <2>2, <2>3
<1>3. CASE StopMatching
  BY <1>3 DEF StopMatching
<1>4. CASE RefreshBest \/ DropGhost \/ FillResting
  <2>1. pc = "matching" /\ pc' = "matching" /\ CanMatch
    BY <1>4 DEF RefreshBest, DropGhost, FillResting, Matching
  <2>2. ~(PostOnlyRejection /\ taker.type = "PostOnly")
    BY <2>1
  <2>3. taker'.type = taker.type
    <3>1. CASE RefreshBest \/ DropGhost
      BY <3>1 DEF RefreshBest, DropGhost
    <3>2. CASE FillResting
      <4> DEFINE f == (taker.filled + (IF FillQuantity < Remaining(taker)
                                       THEN FillQuantity ELSE Remaining(taker))) % QMod
      <4>1. taker' = [taker EXCEPT !.filled = f]
        BY <3>2 DEF FillResting, Fill
      <4> HIDE DEF f
      <4> QED
        BY <4>1 DEF TypeOK, Order
    <3> QED
      BY <1>4, <3>1, <3>2
  <2> QED
    BY <2>1, <2>2, <2>3
<1>5. CASE SelfTradeStop
  BY <1>5 DEF SelfTradeStop
<1>6. CASE FinishIOC \/ Rest \/ Complete
  BY <1>6 DEF FinishIOC, Rest, Complete, Conclude, Respond
<1>7. CASE KillFOK
  BY <1>7 DEF KillFOK, Respond
<1>8. CASE Return
  BY <1>8 DEF Return, NoOrder
<1>9. CASE Client
  <2>1. /\ pc = "idle" /\ fills' = fills
        /\ \/ pc' = "adding"
           \/ pc' \in {"idle", "returned"} /\ taker' = taker
    BY <1>9 DEF Client, AddOrder, OrderNotFound, Cancel, ReplaceNotFound, Amend, Move,
                FlushPending, SetCallbacks, Call, Respond, RespondBare
  <2> QED
    BY <2>1
<1>10. CASE UNCHANGED vars
  BY <1>10 DEF vars, CanMatch, Top, Maker, WouldCross
<1> QED
  BY <1>1, <1>2, <1>3, <1>4, <1>5, <1>6, <1>7, <1>8, <1>9, <1>10 DEF Next, Step

\* With enable_post_only_rejection a post-only order never trades as the taker:
\* the check in add_order and the matching loop read the same cached price.
THEOREM PostOnlyNeverTakesAlways == Spec => []PostOnlyNeverTakes
<1>1. Init => PostOnlyInv
  BY DEF Init, NoOrder, PostOnlyInv, PostOnlyNeverTakes
<1>2. PostOnlyInv => PostOnlyNeverTakes
  BY DEF PostOnlyInv
<1> QED
  BY <1>1, <1>2, TypeCorrect, PostOnlyInductive, PTL DEF Spec

-----------------------------------------------------------------------------
(* Orders with something left *)

\* While an order is not filled its remaining quantity does not wrap.
LEMMA RemainingOf ==
    ASSUME NEW order \in Order, order.filled < order.quantity
    PROVE  /\ Remaining(order) = order.quantity - order.filled
           /\ Remaining(order) \in Quantity /\ Remaining(order) > 0
<1>1. order.quantity \in Quantity /\ order.filled \in Quantity
  BY DEF Order
<1>2. order.quantity - order.filled \in 1 .. QMod - 1
  BY <1>1, QModAssumption DEF Quantity
<1>3. (order.quantity - order.filled) % QMod = order.quantity - order.filled
  BY <1>2, QModAssumption
<1> QED
  BY <1>2, <1>3 DEF Remaining, Quantity

\* A fill within the remaining quantity is added to what was filled, and
\* fills the order exactly when it takes all of it.
LEMMA FillOf ==
    ASSUME NEW order \in Order, order.filled < order.quantity,
           NEW n \in Quantity, n <= Remaining(order)
    PROVE  /\ Fill(order, n) \in Order
           /\ Fill(order, n).id = order.id /\ Fill(order, n).side = order.side
           /\ Fill(order, n).price = order.price /\ Fill(order, n).type = order.type
           /\ Fill(order, n).tif = order.tif
           /\ Fill(order, n).quantity = order.quantity
           /\ Fill(order, n).filled = order.filled + n
           /\ IsFilled(Fill(order, n)) <=> n = Remaining(order)
           /\ n < Remaining(order) => Remaining(Fill(order, n)) = Remaining(order) - n
<1>1. /\ order.quantity \in Quantity /\ order.filled \in Quantity
      /\ Remaining(order) = order.quantity - order.filled
  BY RemainingOf DEF Order
<1>2. order.filled + n \in Quantity
  BY <1>1, QModAssumption DEF Quantity
<1>3. (order.filled + n) % QMod = order.filled + n
  BY <1>2, QModAssumption DEF Quantity
<1> DEFINE moved == IF n < Remaining(order) THEN n ELSE Remaining(order)
<1>4. moved = n
  BY <1>1 DEF Quantity
<1>5. Fill(order, n) = [order EXCEPT !.filled = (order.filled + moved) % QMod]
  BY DEF Fill
<1> HIDE DEF moved
<1>6. Fill(order, n) = [order EXCEPT !.filled = (order.filled + n) % QMod]
  BY <1>4, <1>5
<1> DEFINE sum == order.filled + n
<1>7. Fill(order, n) = [order EXCEPT !.filled = sum]
  BY <1>3, <1>6
<1>8. sum \in Quantity
  BY <1>2
<1> HIDE DEF sum
<1> DEFINE new == Fill(order, n)
<1>9. /\ new \in Order /\ new.filled = sum
      /\ new.id = order.id /\ new.side = order.side
      /\ new.price = order.price /\ new.type = order.type
      /\ new.tif = order.tif /\ new.quantity = order.quantity
  BY <1>7, <1>8 DEF Order
<1> HIDE DEF new
<1>10. IsFilled(new) <=> n = Remaining(order)
  BY <1>1, <1>9 DEF IsFilled, sum, Quantity
<1>11. ASSUME n < Remaining(order)
       PROVE  Remaining(new) = Remaining(order) - n
  <2>1. new.filled < new.quantity
    BY <1>1, <1>9, <1>11 DEF sum, Quantity
  <2>2. Remaining(new) = new.quantity - new.filled
    BY <1>9, <2>1, RemainingOf
  <2> QED
    BY <1>1, <1>9, <2>2 DEF sum, Quantity
<1> QED
  BY <1>9, <1>10, <1>11 DEF new, sum

-----------------------------------------------------------------------------
(* One level against orders_ *)

\* The node a resting order should have.
NodeOf(order) == [id |-> order.id, quantity |-> Remaining(order), indexed |-> TRUE]

At(order, side, price) == order.side = side /\ order.price = price

\* The level at a price holds one node for each order resting there, with the
\* order's remaining quantity, and nothing else.
LevelAgrees(table, side, price, queue) ==
    /\ Reachable(queue)
    /\ \A id \in DOMAIN table :
          At(table[id], side, price) => NodeOf(table[id]) \in Range(queue)
    /\ \A node \in Range(queue) :
          /\ node.id \in DOMAIN table
          /\ At(table[node.id], side, price)
          /\ node = NodeOf(table[node.id])

\* What changes in the table besides the order of one identifier: nothing.
SameBut(table, new, id) ==
    \A other : other # id =>
        /\ other \in DOMAIN new <=> other \in DOMAIN table
        /\ other \in DOMAIN table => new[other] = table[other]

\* A change of one order is not felt at the levels it does not rest at.
LEMMA LevelElsewhere ==
    ASSUME NEW table, NEW new, NEW id, NEW s, NEW p, NEW side, NEW price, NEW queue,
           LevelAgrees(table, side, price, queue),
           SameBut(table, new, id),
           ~(s = side /\ p = price),
           id \in DOMAIN table => At(table[id], s, p),
           id \in DOMAIN new => At(new[id], s, p)
    PROVE  LevelAgrees(new, side, price, queue)
<1>1. \A other \in DOMAIN new : At(new[other], side, price) =>
          NodeOf(new[other]) \in Range(queue)
  BY DEF LevelAgrees, SameBut, At
<1>2. \A node \in Range(queue) :
          /\ node.id \in DOMAIN new
          /\ At(new[node.id], side, price)
          /\ node = NodeOf(new[node.id])
  BY DEF LevelAgrees, SameBut, At
<1> QED
  BY <1>1, <1>2 DEF LevelAgrees

\* An order and its node leave together.
LEMMA LevelAfterRemoval ==
    ASSUME NEW table, Table(table), NEW id, NEW side, NEW price, NEW queue, NEW rest,
           LevelAgrees(table, side, price, queue),
           Reachable(rest),
           Range(rest) = {node \in Range(queue) : node.id # id}
    PROVE  LevelAgrees(Without(table, id), side, price, rest)
<1> DEFINE new == Without(table, id)
<1>1. /\ DOMAIN new = DOMAIN table \ {id}
      /\ \A other \in DOMAIN new : new[other] = table[other]
  BY DEF Without
<1> HIDE DEF new
<1>2. ASSUME NEW other \in DOMAIN new, At(new[other], side, price)
      PROVE  NodeOf(new[other]) \in Range(rest)
  <2>1. NodeOf(table[other]) \in Range(queue)
    BY <1>1, <1>2 DEF LevelAgrees
  <2>2. NodeOf(table[other]).id = other /\ other # id
    BY <1>1 DEF NodeOf, Table
  <2> QED
    BY <1>1, <2>1, <2>2
<1>3. \A node \in Range(rest) :
          /\ node.id \in DOMAIN new
          /\ At(new[node.id], side, price)
          /\ node = NodeOf(new[node.id])
  BY <1>1 DEF LevelAgrees
<1> QED
  BY <1>2, <1>3 DEF LevelAgrees, new

\* An order and its node appear, or change, together.
LEMMA LevelAfterChange ==
    ASSUME NEW table, Table(table), NEW id, NEW side, NEW price, NEW queue, NEW rest,
           NEW new, NEW order,
           LevelAgrees(table, side, price, queue),
           SameBut(table, new, id),
           id \in DOMAIN new, new[id] = order, order.id = id, At(order, side, price),
           Reachable(rest),
           Range(rest) = {node \in Range(queue) : node.id # id} \cup {NodeOf(order)}
    PROVE  LevelAgrees(new, side, price, rest)
<1>1. ASSUME NEW other \in DOMAIN new, At(new[other], side, price)
      PROVE  NodeOf(new[other]) \in Range(rest)
  <2>1. CASE other = id
    BY <2>1
  <2>2. CASE other # id
    <3>1. other \in DOMAIN table /\ new[other] = table[other]
      BY <2>2 DEF SameBut
    <3>2. NodeOf(table[other]) \in Range(queue)
      BY <1>1, <3>1 DEF LevelAgrees
    <3>3. NodeOf(table[other]).id = other
      BY <3>1 DEF NodeOf, Table
    <3> QED
      BY <2>2, <3>1, <3>2, <3>3
  <2> QED
    BY <2>1, <2>2
<1>2. ASSUME NEW node \in Range(rest)
      PROVE  /\ node.id \in DOMAIN new
             /\ At(new[node.id], side, price)
             /\ node = NodeOf(new[node.id])
  <2>1. CASE node = NodeOf(order)
    <3>1. node.id = id
      BY <2>1 DEF NodeOf
    <3> QED
      BY <2>1, <3>1
  <2>2. CASE node \in Range(queue) /\ node.id # id
    BY <2>2 DEF LevelAgrees, SameBut
  <2> QED
    BY <2>1, <2>2
<1> QED
  BY <1>1, <1>2 DEF LevelAgrees

-----------------------------------------------------------------------------
(* All levels against orders_ *)

TableAgrees(table, lv) ==
    /\ \A id \in DOMAIN table : table[id].filled < table[id].quantity
    /\ \A side \in Sides, price \in Prices :
          LevelAgrees(table, side, price, lv[side][price])

\* The place of a live order in its level.
LEMMA PlaceOf ==
    ASSUME NEW table, Table(table), NEW lv, TableAgrees(table, lv),
           NEW id \in DOMAIN table
    PROVE  LET queue == lv[table[id].side][table[id].price]
           IN  /\ LevelAgrees(table, table[id].side, table[id].price, queue)
               /\ \E i \in DOMAIN queue : queue[i] = NodeOf(table[id]) /\ queue[i].id = id
<1> DEFINE side == table[id].side
           price == table[id].price
           queue == lv[side][price]
<1>1. side \in Sides /\ price \in Prices /\ table[id].id = id
  BY DEF Table, Order
<1>2. LevelAgrees(table, side, price, queue)
  BY <1>1 DEF TableAgrees
<1>3. NodeOf(table[id]) \in Range(queue)
  BY <1>2 DEF LevelAgrees, At
<1>4. NodeOf(table[id]).id = id
  BY <1>1 DEF NodeOf
<1> QED
  BY <1>2, <1>3, <1>4 DEF Range

\* A step that changes one order and the one level it rests at.
LEMMA OneLevelChanges ==
    ASSUME NEW table, TableAgrees(table, levels), levels \in Levels,
           NEW new, NEW id, NEW s \in Sides, NEW p \in Prices, NEW queue,
           SameBut(table, new, id),
           id \in DOMAIN table => At(table[id], s, p),
           id \in DOMAIN new => /\ At(new[id], s, p)
                                /\ new[id].filled < new[id].quantity,
           LevelAgrees(new, s, p, queue)
    PROVE  TableAgrees(new, [levels EXCEPT ![s][p] = queue])
<1> DEFINE lv == [levels EXCEPT ![s][p] = queue]
<1>1. \A side \in Sides, price \in Prices :
         lv[side][price] = IF side = s /\ price = p THEN queue ELSE levels[side][price]
  BY DEF Levels
<1> HIDE DEF lv
<1>2. \A other \in DOMAIN new : new[other].filled < new[other].quantity
  BY DEF TableAgrees, SameBut
<1>3. ASSUME NEW side \in Sides, NEW price \in Prices
      PROVE  LevelAgrees(new, side, price, lv[side][price])
  <2>1. CASE s = side /\ p = price
    BY <1>1, <2>1
  <2>2. CASE ~(s = side /\ p = price)
    <3>1. LevelAgrees(table, side, price, levels[side][price])
      BY DEF TableAgrees
    <3>2. LevelAgrees(new, side, price, levels[side][price])
      BY <2>2, <3>1, LevelElsewhere
    <3> QED
      BY <1>1, <2>2, <3>2
  <2> QED
    BY <2>1, <2>2
<1> QED
  BY <1>2, <1>3 DEF TableAgrees, lv

\* RecordsAgree is not inductive: that a new order's identifier is not in use
\* is known when it is admitted, and must still be true when it rests.
RecordsInv ==
    ~UnguardedAmends =>
        /\ TableAgrees(orders, levels)
        /\ pc \in {"matching", "matched"} => taker.id \notin DOMAIN orders

LEMMA RecordsInvAgree == TypeOK /\ RecordsInv => RecordsAgree
<1> SUFFICES ASSUME TypeOK, RecordsInv, ~UnguardedAmends PROVE RecordsAgree
  BY DEF RecordsAgree
<1>1. Table(orders) /\ TableAgrees(orders, levels)
  BY DEF TypeOK, Table, RecordsInv
<1>2. ASSUME NEW id \in DOMAIN orders
      PROVE  /\ orders[id].filled < orders[id].quantity
             /\ \E i \in DOMAIN levels[orders[id].side][orders[id].price] :
                   levels[orders[id].side][orders[id].price][i] =
                       [id |-> id, quantity |-> Remaining(orders[id]), indexed |-> TRUE]
  <2>1. orders[id].filled < orders[id].quantity
    BY <1>1 DEF TableAgrees
  <2>2. NodeOf(orders[id]) =
           [id |-> id, quantity |-> Remaining(orders[id]), indexed |-> TRUE]
    BY <1>1 DEF NodeOf, Table
  <2>3. \E i \in DOMAIN levels[orders[id].side][orders[id].price] :
           levels[orders[id].side][orders[id].price][i] = NodeOf(orders[id])
    BY <1>1, PlaceOf
  <2> QED
    BY <2>1, <2>2, <2>3
<1>3. ASSUME NEW side \in Sides, NEW price \in Prices,
             NEW i \in DOMAIN levels[side][price]
      PROVE  LET id == levels[side][price][i].id
             IN  /\ id \in DOMAIN orders
                 /\ orders[id].side = side /\ orders[id].price = price
                 /\ \A j \in DOMAIN levels[side][price] :
                       levels[side][price][j].id = id => i = j
  <2>1. LevelAgrees(orders, side, price, levels[side][price])
    BY <1>1 DEF TableAgrees
  <2>2. levels[side][price][i] \in Range(levels[side][price])
    BY DEF Range
  <2> QED
    BY <2>1, <2>2 DEF LevelAgrees, At, Reachable
<1> QED
  BY <1>2, <1>3 DEF RecordsAgree

-----------------------------------------------------------------------------
(* The steps that change a record *)

\* What the matching loop knows of the order at the front of its level.
LEMMA FrontOf ==
    ASSUME TypeOK, TableAgrees(orders, levels), Matching, Queue # <<>>
    PROVE  /\ LevelAgrees(orders, Maker, Top, Queue)
           /\ Head(Queue).id \in DOMAIN orders
           /\ Resting \in Order /\ Resting.id = Head(Queue).id
           /\ At(Resting, Maker, Top)
           /\ Resting.filled < Resting.quantity
           /\ Head(Queue).quantity = Remaining(Resting)
<1>1. Maker \in Sides /\ Top \in Prices /\ Queue \in Seq(Node(OrderIds))
  BY TypeOfMatch
<1>2. LevelAgrees(orders, Maker, Top, Queue)
  BY <1>1 DEF TableAgrees, Queue
<1>3. Head(Queue) \in Range(Queue)
  <2>1. 1 \in DOMAIN Queue /\ Head(Queue) = Queue[1]
    BY <1>1, LenProperties, EmptySeq
  <2> QED
    BY <2>1 DEF Range
<1>4. /\ Head(Queue).id \in DOMAIN orders /\ At(Resting, Maker, Top)
      /\ Head(Queue) = NodeOf(Resting)
  BY <1>2, <1>3 DEF LevelAgrees, Resting
<1>5. Resting \in Order /\ Resting.id = Head(Queue).id
  BY <1>4 DEF TypeOK, Resting
<1>6. Resting.filled < Resting.quantity
  BY <1>4 DEF TableAgrees, Resting
<1>7. Head(Queue).quantity = Remaining(Resting)
  BY <1>4 DEF NodeOf
<1> QED
  BY <1>2, <1>4, <1>5, <1>6, <1>7

\* The quantity of a trade is within what both sides have left, and is not zero.
LEMMA FillQuantityWithin ==
    ASSUME TypeOK, TableAgrees(orders, levels), Matching, Queue # <<>>
    PROVE  /\ FillQuantity \in Quantity /\ FillQuantity > 0
           /\ FillQuantity <= Remaining(Resting)
           /\ FillQuantity <= Remaining(taker)
           /\ taker.filled < taker.quantity
<1>1. taker \in Order /\ taker.filled < taker.quantity
  BY TypeOfMatch DEF Matching, IsFilled, Order, Quantity
<1>2. Remaining(taker) \in Quantity /\ Remaining(taker) > 0
  BY <1>1, RemainingOf
<1>3. Remaining(Resting) \in Quantity /\ Remaining(Resting) > 0
  BY FrontOf, RemainingOf
<1> QED
  BY <1>1, <1>2, <1>3 DEF FillQuantity, Quantity

LEMMA RecordsOfFill ==
    ASSUME TypeOK, TableAgrees(orders, levels), FillResting
    PROVE  /\ TableAgrees(orders', levels')
           /\ DOMAIN orders' \subseteq DOMAIN orders
           /\ \A id \in DOMAIN orders \ DOMAIN orders' :
                 id = Resting.id /\ FillQuantity = Remaining(orders[id])
<1> DEFINE id == Head(Queue).id
           n == FillQuantity
           filled == Fill(Resting, n)
<1>1. Matching /\ Queue # <<>>
  BY DEF FillResting
<1>2. Maker \in Sides /\ Top \in Prices /\ Queue \in Seq(Node(OrderIds))
  BY <1>1, TypeOfMatch
<1>3. Table(orders) /\ levels \in Levels
  BY DEF TypeOK, Table, Levels
<1>4. /\ LevelAgrees(orders, Maker, Top, Queue)
      /\ id \in DOMAIN orders
      /\ Resting = orders[id] /\ Resting \in Order /\ Resting.id = id
      /\ At(Resting, Maker, Top)
      /\ Resting.filled < Resting.quantity
      /\ Head(Queue).quantity = Remaining(Resting)
  BY <1>1, FrontOf DEF Resting
<1>5. /\ n \in Quantity /\ n > 0 /\ n <= Remaining(Resting)
      /\ Remaining(Resting) \in Quantity
  BY <1>1, <1>4, FillQuantityWithin, RemainingOf
<1>6. /\ filled \in Order /\ filled.id = id /\ At(filled, Maker, Top)
      /\ filled.quantity = Resting.quantity
      /\ filled.filled = Resting.filled + n
      /\ IsFilled(filled) <=> n = Remaining(Resting)
      /\ n < Remaining(Resting) => Remaining(filled) = Remaining(Resting) - n
  BY <1>4, <1>5, FillOf DEF At
<1>7. /\ orders' = IF IsFilled(filled) THEN Without(orders, filled.id)
                                       ELSE Put(orders, filled.id, filled)
      /\ levels' = [levels EXCEPT ![Maker][Top] = FillFront(Queue, n)]
  BY DEF FillResting, Settle, ReplaceQueue
<1>8. Reachable(Queue)
  BY <1>4 DEF LevelAgrees
<1> HIDE DEF id, n, filled
<1>9. CASE n = Remaining(Resting)
  <2>1. orders' = Without(orders, id)
    BY <1>6, <1>7, <1>9
  <2>2. FillFront(Queue, n) = PopFront(Queue)
    BY <1>4, <1>5, <1>9 DEF FillFront, Quantity
  <2>3. /\ Reachable(PopFront(Queue))
        /\ Range(PopFront(Queue)) = {node \in Range(Queue) : node.id # id}
    BY <1>1, <1>2, <1>8, PopFrontNodes DEF id
  <2>4. LevelAgrees(orders', Maker, Top, PopFront(Queue))
    BY <1>3, <1>4, <2>1, <2>3, LevelAfterRemoval
  <2>5. SameBut(orders, orders', id) /\ id \notin DOMAIN orders'
    BY <2>1 DEF SameBut, Without
  <2>6. TableAgrees(orders', levels')
    BY <1>2, <1>3, <1>4, <1>7, <2>2, <2>4, <2>5, OneLevelChanges
  <2> QED
    BY <1>4, <1>9, <2>1, <2>6 DEF Without, n, id
<1>10. CASE n < Remaining(Resting)
  <2>1. orders' = Put(orders, id, filled)
    BY <1>5, <1>6, <1>7, <1>10 DEF Quantity
  <2>2. /\ Reachable(FillFront(Queue, n))
        /\ Range(FillFront(Queue, n)) =
              {node \in Range(Queue) : node.id # id} \cup {NodeOf(filled)}
    <3>1. NodeOf(filled) =
             [id |-> id, quantity |-> Head(Queue).quantity - n, indexed |-> TRUE]
      BY <1>4, <1>6, <1>10 DEF NodeOf
    <3> QED
      BY <1>1, <1>2, <1>4, <1>5, <1>8, <1>10, <3>1, FillFrontNodes DEF id
  <2>3. /\ SameBut(orders, orders', id)
        /\ id \in DOMAIN orders' /\ orders'[id] = filled
    BY <2>1 DEF SameBut, Put
  <2>4. LevelAgrees(orders', Maker, Top, FillFront(Queue, n))
    BY <1>3, <1>4, <1>6, <2>2, <2>3, LevelAfterChange
  <2>5. filled.filled < filled.quantity
    <3>1. ~IsFilled(filled)
      BY <1>5, <1>6, <1>10 DEF Quantity
    <3> QED
      BY <1>6, <3>1 DEF IsFilled, Order, Quantity
  <2>6. TableAgrees(orders', levels')
    BY <1>2, <1>3, <1>4, <1>6, <1>7, <2>3, <2>4, <2>5, OneLevelChanges
  <2> QED
    BY <1>4, <2>1, <2>6 DEF Put
<1> QED
  BY <1>5, <1>9, <1>10 DEF Quantity

LEMMA RecordsOfRest ==
    ASSUME TypeOK, TableAgrees(orders, levels), taker.id \notin DOMAIN orders, Rest
    PROVE  TableAgrees(orders', levels')
<1> DEFINE s == taker.side
           p == taker.price
           id == taker.id
<1>1. /\ taker \in Order /\ s \in Sides /\ p \in Prices /\ id \in OrderIds
      /\ taker.filled < taker.quantity
  BY DEF TypeOK, Rest, CanRest, IsFilled, Order, Quantity
<1>2. Table(orders) /\ levels \in Levels /\ levels[s][p] \in Seq(Node(OrderIds))
  BY <1>1 DEF TypeOK, Table, Levels
<1>3. LevelAgrees(orders, s, p, levels[s][p])
  BY <1>1 DEF TableAgrees
<1>4. \A i \in DOMAIN levels[s][p] : levels[s][p][i].id # id
  BY <1>3 DEF LevelAgrees, Range
<1>5. Remaining(taker) \in Quantity
  BY <1>1, RemainingOf
<1> DEFINE queue == AddNode(levels[s][p], id, Remaining(taker))
<1>6. /\ Reachable(queue)
      /\ Range(queue) = Range(levels[s][p])
                        \cup {[id |-> id, quantity |-> Remaining(taker), indexed |-> TRUE]}
  BY <1>1, <1>2, <1>3, <1>4, <1>5, AddNodeNodes DEF LevelAgrees
<1>7. Range(queue) = {node \in Range(levels[s][p]) : node.id # id} \cup {NodeOf(taker)}
  BY <1>4, <1>6 DEF NodeOf, Range
<1>8. /\ levels' = [levels EXCEPT ![s][p] = queue]
      /\ orders' = Put(orders, id, taker)
  BY DEF Rest
<1> HIDE DEF queue
<1>9. /\ SameBut(orders, orders', id)
      /\ id \in DOMAIN orders' /\ orders'[id] = taker
  BY <1>8 DEF SameBut, Put
<1>10. At(taker, s, p)
  BY DEF At
<1>11. taker.id = id
  OBVIOUS
<1> HIDE DEF s, p, id
<1>12. LevelAgrees(orders', s, p, queue)
  BY <1>2, <1>3, <1>6, <1>7, <1>9, <1>10, <1>11, LevelAfterChange
<1>13. id \notin DOMAIN orders
  BY DEF id
<1> QED
  BY <1>1, <1>2, <1>8, <1>9, <1>10, <1>12, <1>13, OneLevelChanges

LEMMA RecordsOfWithdraw ==
    ASSUME TypeOK, TableAgrees(orders, levels), NEW id \in DOMAIN orders, Withdraw(id)
    PROVE  TableAgrees(orders', levels')
<1> DEFINE s == orders[id].side
           p == orders[id].price
<1>1. Table(orders) /\ levels \in Levels
  BY DEF TypeOK, Table, Levels
<1>2. s \in Sides /\ p \in Prices /\ levels[s][p] \in Seq(Node(OrderIds))
  BY <1>1 DEF Table, Order, Levels
<1>3. LevelAgrees(orders, s, p, levels[s][p]) /\ Reachable(levels[s][p])
  BY <1>2 DEF TableAgrees, LevelAgrees
<1>4. PICK i \in DOMAIN levels[s][p] : levels[s][p][i].id = id
  BY <1>1, PlaceOf
<1>5. /\ Reachable(RemoveNode(levels[s][p], id))
      /\ Range(RemoveNode(levels[s][p], id)) = {node \in Range(levels[s][p]) : node.id # id}
  BY <1>2, <1>3, <1>4, RemoveNodeNodes
<1>6. /\ levels' = [levels EXCEPT ![s][p] = RemoveNode(levels[s][p], id)]
      /\ orders' = Without(orders, id)
  BY DEF Withdraw
<1>7. SameBut(orders, orders', id) /\ id \notin DOMAIN orders'
  BY <1>6 DEF SameBut, Without
<1>8. At(orders[id], s, p)
  BY DEF At
<1> HIDE DEF s, p
<1>9. LevelAgrees(orders', s, p, RemoveNode(levels[s][p], id))
  BY <1>1, <1>3, <1>5, <1>6, LevelAfterRemoval
<1> QED
  BY <1>1, <1>2, <1>6, <1>7, <1>8, <1>9, OneLevelChanges

LEMMA RecordsOfAmend ==
    ASSUME TypeOK, TableAgrees(orders, levels), ~UnguardedAmends,
           NEW id \in OrderIds, NEW quantity \in Amounts, Amend(id, quantity)
    PROVE  TableAgrees(orders', levels')
<1> DEFINE s == orders[id].side
           p == orders[id].price
           order == [orders[id] EXCEPT !.quantity = quantity]
           queue == ModifyNode(levels[s][p], id, quantity)
<1>1. Table(orders) /\ levels \in Levels
  BY DEF TypeOK, Table, Levels
<1>2. id \in DOMAIN orders /\ orders[id].filled = 0 /\ quantity > 0
  BY DEF Amend
<1>3. quantity \in Quantity
  BY ConstantTypes
<1>4. /\ s \in Sides /\ p \in Prices /\ levels[s][p] \in Seq(Node(OrderIds))
      /\ orders[id] \in Order /\ orders[id].id = id
  BY <1>1, <1>2 DEF Table, Order, Levels
<1>5. LevelAgrees(orders, s, p, levels[s][p]) /\ Reachable(levels[s][p])
  BY <1>4 DEF TableAgrees, LevelAgrees
<1>6. PICK i \in DOMAIN levels[s][p] : levels[s][p][i].id = id
  BY <1>1, <1>2, PlaceOf
<1>7. /\ order \in Order /\ order.id = id /\ At(order, s, p)
      /\ order.quantity = quantity /\ order.filled = 0
  BY <1>2, <1>3, <1>4 DEF Order, At
<1>8. /\ levels' = [levels EXCEPT ![s][p] = queue]
      /\ orders' = [orders EXCEPT ![id].quantity = quantity]
  BY DEF Amend
<1>9. /\ SameBut(orders, orders', id)
      /\ id \in DOMAIN orders' /\ orders'[id] = order
  BY <1>2, <1>8 DEF SameBut
<1>10. At(orders[id], s, p)
  BY DEF At
<1> HIDE DEF order
<1>11. order.filled < order.quantity
  BY <1>2, <1>3, <1>7 DEF Quantity
<1>12. NodeOf(order) = [id |-> id, quantity |-> quantity, indexed |-> TRUE]
  <2>1. Remaining(order) = order.quantity - order.filled
    BY <1>7, <1>11, RemainingOf
  <2>2. Remaining(order) = quantity
    BY <1>3, <1>7, <2>1 DEF Quantity
  <2> QED
    BY <1>7, <2>2 DEF NodeOf
<1>13. /\ Reachable(queue)
       /\ Range(queue) = {node \in Range(levels[s][p]) : node.id # id} \cup {NodeOf(order)}
  BY <1>3, <1>4, <1>5, <1>6, <1>12, ModifyNodeNodes
<1> HIDE DEF s, p, queue
<1>14. LevelAgrees(orders', s, p, queue)
  BY <1>1, <1>5, <1>7, <1>9, <1>13, LevelAfterChange
<1> QED
  <2>1. At(orders'[id], s, p) /\ orders'[id].filled < orders'[id].quantity
    BY <1>7, <1>9, <1>11
  <2>2. SameBut(orders, orders', id) /\ s \in Sides /\ p \in Prices
    BY <1>4, <1>9
  <2>3. TableAgrees(orders', [levels EXCEPT ![s][p] = queue])
    BY <1>1, <1>10, <1>14, <2>1, <2>2, OneLevelChanges
  <2> QED
    BY <1>8, <2>3

-----------------------------------------------------------------------------
(* The records agree at every step *)

LEMMA RecordsOfStep ==
    ASSUME TypeOK, RecordsInv, ~UnguardedAmends, Step
    PROVE  RecordsInv'
<1> USE DEF book
<1>0. TableAgrees(orders, levels)
  BY DEF RecordsInv
<1>1. ASSUME UNCHANGED <<orders, levels, taker>>,
             pc' \in {"matching", "matched"} => taker.id \notin DOMAIN orders
      PROVE  RecordsInv'
  BY <1>0, <1>1 DEF RecordsInv
<1>2. CASE Reject
  BY <1>1, <1>2 DEF Reject, Respond
<1>3. CASE Admit
  <2>1. taker.id \notin DOMAIN orders
    BY <1>3 DEF Admit, Rejection
  <2> QED
    BY <1>1, <1>3, <2>1 DEF Admit
<1>4. CASE StopMatching
  BY <1>1, <1>4 DEF StopMatching, RecordsInv
<1>5. CASE RefreshBest
  BY <1>1, <1>5 DEF RefreshBest, Matching, RecordsInv
<1>6. CASE DropGhost
  BY <1>0, <1>6, FrontOf DEF DropGhost
<1>7. CASE SelfTradeStop
  BY <1>1, <1>7 DEF SelfTradeStop, Matching, RecordsInv
<1>8. CASE FillResting
  <2>1. TableAgrees(orders', levels') /\ DOMAIN orders' \subseteq DOMAIN orders
    BY <1>0, <1>8, RecordsOfFill
  <2>2. Matching /\ Queue # <<>> /\ taker' = Fill(taker, FillQuantity)
    BY <1>8 DEF FillResting
  <2>3. taker.id \notin DOMAIN orders
    BY <2>2 DEF RecordsInv, Matching
  <2>4. taker'.id = taker.id
    BY <1>0, <2>2, TypeOfMatch, FillQuantityWithin, FillOf
  <2> QED
    BY <2>1, <2>3, <2>4 DEF RecordsInv
<1>9. CASE FinishIOC
  BY <1>1, <1>9 DEF FinishIOC, Conclude, Respond
<1>10. CASE KillFOK
  BY <1>1, <1>10 DEF KillFOK, Respond
<1>11. CASE Rest
  <2>1. taker.id \notin DOMAIN orders
    BY <1>11 DEF Rest, RecordsInv
  <2>2. pc' = "returned"
    BY <1>11 DEF Rest, Conclude, Respond
  <2> QED
    BY <1>0, <1>11, <2>1, <2>2, RecordsOfRest DEF RecordsInv
<1>12. CASE Complete
  BY <1>1, <1>12 DEF Complete, Conclude, Respond
<1>13. CASE Return
  BY <1>0, <1>13 DEF Return, RecordsInv
<1> QED
  BY <1>2, <1>3, <1>4, <1>5, <1>6, <1>7, <1>8, <1>9, <1>10, <1>11, <1>12, <1>13
  DEF Step

LEMMA RecordsOfClient ==
    ASSUME TypeOK, RecordsInv, ~UnguardedAmends, Client
    PROVE  RecordsInv'
<1> USE DEF book
<1>0. TableAgrees(orders, levels)
  BY DEF RecordsInv
<1>1. ASSUME TableAgrees(orders', levels'), pc' \in {"idle", "adding", "returned"}
      PROVE  RecordsInv'
  BY <1>1 DEF RecordsInv
<1>2. ASSUME NEW id \in OrderIds, NEW side \in Sides, NEW price \in Prices,
             NEW quantity \in Amounts, NEW kind \in OrderKinds,
             AddOrder(id, side, price, quantity, kind)
      PROVE  RecordsInv'
  BY <1>0, <1>1, <1>2 DEF AddOrder
<1>3. ASSUME NEW id \in OrderIds, OrderNotFound(id) \/ ReplaceNotFound(id)
      PROVE  RecordsInv'
  BY <1>0, <1>1, <1>3 DEF OrderNotFound, ReplaceNotFound, RespondBare, Respond
<1>4. ASSUME NEW id \in OrderIds, Cancel(id)
      PROVE  RecordsInv'
  BY <1>0, <1>1, <1>4, RecordsOfWithdraw DEF Cancel, Respond
<1>5. ASSUME NEW id \in OrderIds, NEW price \in Prices, NEW quantity \in Amounts,
             Move(id, price, quantity)
      PROVE  RecordsInv'
  BY <1>0, <1>1, <1>5, RecordsOfWithdraw DEF Move
<1>6. ASSUME NEW id \in OrderIds, NEW quantity \in Amounts, Amend(id, quantity)
      PROVE  RecordsInv'
  <2>1. pc' = "returned"
    BY <1>6 DEF Amend, RespondBare, Respond
  <2> QED
    BY <1>0, <1>1, <1>6, <2>1, RecordsOfAmend
<1>7. CASE FlushPending
  BY <1>0, <1>1, <1>7 DEF FlushPending
<1>8. ASSUME NEW installed \in CallbackSets, SetCallbacks(installed)
      PROVE  RecordsInv'
  BY <1>0, <1>1, <1>8 DEF SetCallbacks
<1> QED
  BY <1>2, <1>3, <1>4, <1>5, <1>6, <1>7, <1>8 DEF Client

LEMMA RecordsInductive == TypeOK /\ RecordsInv /\ [Next]_vars => RecordsInv'
<1> SUFFICES ASSUME TypeOK, RecordsInv, [Next]_vars PROVE RecordsInv'
  OBVIOUS
<1>1. CASE UnguardedAmends
  BY <1>1 DEF RecordsInv
<1>2. CASE ~UnguardedAmends /\ Step
  BY <1>2, RecordsOfStep
<1>3. CASE ~UnguardedAmends /\ Client
  BY <1>3, RecordsOfClient
<1>4. CASE UNCHANGED vars
  BY <1>4 DEF vars, RecordsInv
<1> QED
  BY <1>1, <1>2, <1>3, <1>4 DEF Next

LEMMA RecordsInit == Init => RecordsInv
<1> SUFFICES ASSUME Init PROVE RecordsInv
  OBVIOUS
<1>1. DOMAIN orders = {} /\ pc = "idle"
  BY DEF Init
<1>2. \A side \in Sides, price \in Prices : levels[side][price] = <<>>
  BY DEF Init
<1>3. \A table : DOMAIN table = {} => \A side, price : LevelAgrees(table, side, price, <<>>)
  <2>1. DOMAIN <<>> = {}
    OBVIOUS
  <2> QED
    BY <2>1 DEF LevelAgrees, Reachable, Range
<1> QED
  BY <1>1, <1>2, <1>3 DEF RecordsInv, TableAgrees

LEMMA RecordsInvAlways == Spec => []RecordsInv
BY RecordsInit, RecordsInductive, TypeCorrect, PTL DEF Spec

\* As long as clients amend only orders that have not traded, and to a positive
\* quantity, orders_ and the levels tell the same story at every step of every
\* call: no ghost node, no order without a node, no quantity out of step, and an
\* index that reaches every node.
THEOREM RecordsAgreeAlways == Spec => []RecordsAgree
BY RecordsInvAgree, RecordsInvAlways, TypeCorrect, PTL

\* What a step does to the orders of others.
RemovalIsDue ==
    ~UnguardedAmends => \A id \in DOMAIN orders \ DOMAIN orders' :
          \/ /\ pc = "idle" /\ orders' = Without(orders, id)
             /\ IF pc' = "adding" THEN taker'.id = id ELSE response'.success
          \/ /\ fills' # fills
             /\ id \in {Last(fills').buy, Last(fills').sell}
             /\ Last(fills').quantity = Remaining(orders[id])

\* A cancellation or a move takes the order it names.
LEMMA CallsRemoveTheirOrder ==
    ASSUME TypeOK, Client, NEW id \in DOMAIN orders \ DOMAIN orders'
    PROVE  /\ pc = "idle" /\ orders' = Without(orders, id)
           /\ IF pc' = "adding" THEN taker'.id = id ELSE response'.success
<1> USE DEF book
<1>1. orders' # orders
  OBVIOUS
<1>2. ASSUME NEW i, i \in DOMAIN orders, Withdraw(i)
      PROVE  orders' = Without(orders, i) /\ id = i
  BY <1>2 DEF Withdraw, Without
<1>3. ASSUME NEW i \in OrderIds, Cancel(i)
      PROVE  /\ pc = "idle" /\ i \in DOMAIN orders /\ Withdraw(i)
             /\ pc' = "returned" /\ response'.success
  BY <1>3 DEF Cancel, Call, Respond
<1>4. ASSUME NEW i \in OrderIds, NEW price \in Prices, NEW quantity \in Amounts,
             Move(i, price, quantity)
      PROVE  /\ pc = "idle" /\ i \in DOMAIN orders /\ Withdraw(i)
             /\ pc' = "adding" /\ taker'.id = i
  <2>1. /\ pc = "idle" /\ i \in DOMAIN orders /\ Withdraw(i) /\ pc' = "adding"
        /\ taker' = AsPriced(NewOrder(i, orders[i].side, price, quantity,
                                      orders[i].type, orders[i].tif))
    BY <1>4 DEF Move, Call
  <2> QED
    BY <2>1 DEF AsPriced, NewOrder
<1>5. ASSUME NEW i \in OrderIds, NEW quantity \in Amounts, Amend(i, quantity)
      PROVE  FALSE
  <2>1. i \in DOMAIN orders /\ orders' = [orders EXCEPT ![i].quantity = quantity]
    BY <1>5 DEF Amend
  <2>2. DOMAIN orders' = DOMAIN orders
    BY <2>1
  <2> QED
    BY <2>2
<1>6. \/ \E i \in OrderIds : Cancel(i)
      \/ \E i \in OrderIds, price \in Prices, quantity \in Amounts : Move(i, price, quantity)
  BY <1>1, <1>5 DEF Client, AddOrder, OrderNotFound, ReplaceNotFound, FlushPending, SetCallbacks
<1>7. CASE \E i \in OrderIds : Cancel(i)
  BY <1>2, <1>3, <1>7
<1>8. CASE \E i \in OrderIds, price \in Prices, quantity \in Amounts : Move(i, price, quantity)
  BY <1>2, <1>4, <1>8
<1> QED
  BY <1>6, <1>7, <1>8

LEMMA StepsRemoveWhenDue == TypeOK /\ RecordsInv /\ [Next]_vars => RemovalIsDue
<1> SUFFICES ASSUME TypeOK, RecordsInv, [Next]_vars, ~UnguardedAmends,
                    NEW id \in DOMAIN orders \ DOMAIN orders', ~Client
             PROVE  /\ fills' # fills
                    /\ id \in {Last(fills').buy, Last(fills').sell}
                    /\ Last(fills').quantity = Remaining(orders[id])
  BY CallsRemoveTheirOrder DEF RemovalIsDue
<1> USE DEF book
<1>1. orders' # orders
  OBVIOUS
<1>2. ~Client
  OBVIOUS
<1>3. ~Rest
  BY DEF Rest, Put
<1>4. FillResting
  BY <1>1, <1>2, <1>3 DEF Next, Step, vars, Reject, Admit, StopMatching, RefreshBest,
     DropGhost, SelfTradeStop, FinishIOC, KillFOK, Complete, Return
<1>5. id = Resting.id /\ FillQuantity = Remaining(orders[id])
  BY <1>4, RecordsOfFill DEF RecordsInv
<1> DEFINE trade == TradeOf(FillQuantity)
<1>6. trade.quantity = FillQuantity /\ id \in {trade.buy, trade.sell}
  BY <1>5 DEF TradeOf
<1>7. fills' = Append(fills, trade) /\ fills \in Seq(Trade)
  BY <1>4 DEF FillResting, TypeOK
<1>8. fills' \in Seq(Trade)
  BY <1>4, TypeOfStep DEF Step, TypeOK
<1> HIDE DEF trade
<1>9. Len(fills) \in Nat /\ Len(fills') = Len(fills) + 1 /\ fills'[Len(fills) + 1] = trade
  BY <1>7, <1>8, LenProperties
<1>10. fills' # fills /\ Last(fills') = trade
  BY <1>9 DEF Last
<1> QED
  BY <1>5, <1>6, <1>10

\* An owner finds its order in the book until a cancellation or a move takes this
\* order and no other, or a trade takes all it had left: no rejection, no other
\* order's fill, no stop of the matching loop and no ghost node removes it.
THEOREM OnlyFillsAndCancelsRemoveAlways == Spec => OnlyFillsAndCancelsRemove
<1>1. TypeOK /\ RecordsInv /\ [Next]_vars =>
         [~UnguardedAmends => \A id \in DOMAIN orders \ DOMAIN orders' :
             \/ /\ pc = "idle" /\ orders' = Without(orders, id)
                /\ IF pc' = "adding" THEN taker'.id = id ELSE response'.success
             \/ /\ fills' # fills
                /\ id \in {Last(fills').buy, Last(fills').sell}
                /\ Last(fills').quantity = Remaining(orders[id])]_vars
  BY StepsRemoveWhenDue DEF RemovalIsDue
<1> QED
  BY <1>1, RecordsInvAlways, TypeCorrect, PTL DEF Spec, OnlyFillsAndCancelsRemove

-----------------------------------------------------------------------------
(* The cached best prices, when the freed memory is intact *)

\* The best price of a side depends on nothing but the prices it is occupied at.
LEMMA BestPriceIs ==
    ASSUME NEW lv \in Levels
    PROVE  /\ \A lv2, side : Occupied(lv2, side) = Occupied(lv, side)
                 => BestPrice(lv2, side) = BestPrice(lv, side)
           /\ \A top \in Occupied(lv, "Buy") :
                 (\A price \in Occupied(lv, "Buy") : price <= top) => BestPrice(lv, "Buy") = top
           /\ \A top \in Occupied(lv, "Sell") :
                 (\A price \in Occupied(lv, "Sell") : top <= price) => BestPrice(lv, "Sell") = top
<1>1. \A lv2, side : Occupied(lv2, side) = Occupied(lv, side)
         => BestPrice(lv2, side) = BestPrice(lv, side)
  BY DEF BestPrice
<1>2. Occupied(lv, "Buy") \subseteq Int /\ Occupied(lv, "Sell") \subseteq Int
  BY ConstantTypes DEF Occupied
<1>3. ASSUME NEW top \in Occupied(lv, "Buy"), \A price \in Occupied(lv, "Buy") : price <= top
      PROVE  BestPrice(lv, "Buy") = top
  <2>1. BestPrice(lv, "Buy") \in Occupied(lv, "Buy") /\ top <= BestPrice(lv, "Buy")
    BY BestPriceBounds DEF Sides
  <2> QED
    BY <1>2, <1>3, <2>1
<1>4. ASSUME NEW top \in Occupied(lv, "Sell"), \A price \in Occupied(lv, "Sell") : top <= price
      PROVE  BestPrice(lv, "Sell") = top
  <2>1. BestPrice(lv, "Sell") \in Occupied(lv, "Sell") /\ BestPrice(lv, "Sell") <= top
    BY BestPriceBounds DEF Sides
  <2> QED
    BY <1>2, <1>4, <2>1
<1> QED
  BY <1>1, <1>3, <1>4

\* A level that stays occupied, or a cache that is recomputed, stays exact.
LEMMA ExactAfterReplaceQueue ==
    ASSUME TypeOK, \A side \in Sides : best[side] = BestPrice(levels, side),
           Matching, Queue # <<>>, NEW queue, ReplaceQueue(queue)
    PROVE  \A side \in Sides : best'[side] = BestPrice(levels', side)
<1>1. Maker \in Sides /\ Top \in Prices /\ levels \in Levels
  BY TypeOfMatch DEF TypeOK, Levels
<1>2. /\ levels' = [levels EXCEPT ![Maker][Top] = queue]
      /\ best' = IF queue # <<>> THEN best
                 ELSE [best EXCEPT ![Maker] = BestPrice(levels', Maker)]
  BY DEF ReplaceQueue
<1>3. \A side \in Sides, price \in Prices :
         levels'[side][price] = IF side = Maker /\ price = Top THEN queue
                                                              ELSE levels[side][price]
  BY <1>1, <1>2 DEF Levels
<1> SUFFICES ASSUME NEW side \in Sides PROVE best'[side] = BestPrice(levels', side)
  OBVIOUS
<1>4. CASE side = Maker /\ queue = <<>>
  BY <1>2, <1>4 DEF TypeOK
<1>5. CASE ~(side = Maker /\ queue = <<>>)
  <2>1. Occupied(levels', side) = Occupied(levels, side)
    BY <1>3, <1>5 DEF Occupied, Queue
  <2>2. best'[side] = best[side]
    BY <1>1, <1>2, <1>5 DEF TypeOK
  <2> QED
    BY <1>1, <2>1, <2>2, BestPriceIs
<1> QED
  BY <1>4, <1>5

\* insert_resting_order improves the cache exactly when the new level is better.
LEMMA ExactAfterRest ==
    ASSUME TypeOK, \A side \in Sides : best[side] = BestPrice(levels, side),
           InvalidPrice \notin Prices, Rest
    PROVE  \A side \in Sides : best'[side] = BestPrice(levels', side)
<1>1. /\ taker \in Order /\ taker.side \in Sides /\ taker.price \in Prices
      /\ taker.id \in OrderIds /\ levels \in Levels
      /\ ~IsFilled(taker)
  BY DEF TypeOK, Rest, CanRest, Order, Levels
<1> DEFINE s == taker.side
           p == taker.price
           queue == AddNode(levels[s][p], taker.id, Remaining(taker))
<1>2. queue # <<>>
  <2>1. 0 \in Quantity
    BY QModAssumption DEF Quantity
  <2>2. Remaining(taker) \in Quantity
    BY <1>1, <2>1, FillType
  <2> QED
    BY <1>1, <2>2, AddNodeType DEF Levels
<1>3. /\ levels' = [levels EXCEPT ![s][p] = queue]
      /\ best' = IF Better(s, p, best[s]) THEN [best EXCEPT ![s] = p] ELSE best
  BY DEF Rest
<1>4. levels' \in Levels
  BY TypeOfStep DEF Step, TypeOK, Levels
<1> HIDE DEF queue
<1>5. \A side \in Sides, price \in Prices :
         levels'[side][price] = IF side = s /\ price = p THEN queue
                                                         ELSE levels[side][price]
  BY <1>1, <1>3 DEF Levels
<1>6. /\ Occupied(levels', s) = Occupied(levels, s) \cup {p}
      /\ \A side \in Sides : side # s => Occupied(levels', side) = Occupied(levels, side)
  BY <1>1, <1>2, <1>5 DEF Occupied
<1>7. ASSUME NEW side \in Sides, side # s
      PROVE  best'[side] = BestPrice(levels', side)
  <2>1. best'[side] = best[side]
    BY <1>1, <1>3, <1>7 DEF TypeOK
  <2>2. Occupied(levels', side) = Occupied(levels, side)
    BY <1>6, <1>7
  <2> QED
    BY <1>1, <2>1, <2>2, BestPriceIs
<1>8. best'[s] = IF Better(s, p, best[s]) THEN p ELSE best[s]
  BY <1>1, <1>3 DEF TypeOK
<1>9. p \in Int /\ InvalidPrice \in Int /\ p <= InvalidPrice /\ p # InvalidPrice
  BY <1>1, ConstantTypes
<1>10. Occupied(levels, s) \subseteq Int
  BY ConstantTypes DEF Occupied
<1>11. IF Occupied(levels, s) = {} THEN best[s] = InvalidPrice
                                   ELSE best[s] \in Occupied(levels, s)
  BY <1>1, BestPriceBounds DEF BestPrice
<1>12. InvalidPrice \notin Occupied(levels, s) /\ s \in Sides
  BY <1>1 DEF Occupied
<1> HIDE DEF s, p
<1> DEFINE top == best[s]
           old == Occupied(levels, s)
           new == Occupied(levels', s)
<1>13. /\ new = old \cup {p} /\ old \subseteq Int /\ top \in Int
       /\ old = {} => top = InvalidPrice
       /\ old # {} => top \in old
  BY <1>6, <1>9, <1>10, <1>11
<1>14. best'[s] = IF Better(s, p, top) THEN p ELSE top
  BY <1>8
<1>15. s = "Buy" => \A price \in old : price <= top
  BY <1>1, <1>12, BestPriceBounds
<1>16. s = "Sell" => \A price \in old : top <= price
  BY <1>1, <1>12, BestPriceBounds
<1>17. /\ \A q \in new : s = "Buy" /\ (\A price \in new : price <= q) => BestPrice(levels', s) = q
       /\ \A q \in new : s = "Sell" /\ (\A price \in new : q <= price) => BestPrice(levels', s) = q
  BY <1>4, BestPriceIs
<1>18. InvalidPrice \notin old
  BY <1>12
<1> HIDE DEF top, old, new
<1>19. ASSUME s = "Buy"
       PROVE  best'[s] = BestPrice(levels', s)
  <2>1. CASE top = InvalidPrice \/ p > top
    BY <1>9, <1>13, <1>14, <1>15, <1>17, <1>18, <1>19, <2>1 DEF Better
  <2>2. CASE ~(top = InvalidPrice \/ p > top)
    BY <1>9, <1>13, <1>14, <1>15, <1>17, <1>19, <2>2 DEF Better
  <2> QED
    BY <2>1, <2>2
<1>20. ASSUME s = "Sell"
       PROVE  best'[s] = BestPrice(levels', s)
  <2>1. CASE p < top
    BY <1>9, <1>13, <1>14, <1>16, <1>17, <1>20, <2>1 DEF Better
  <2>2. CASE ~(p < top)
    BY <1>9, <1>13, <1>14, <1>16, <1>17, <1>20, <2>2 DEF Better
  <2> QED
    BY <2>1, <2>2
<1> QED
  BY <1>7, <1>12, <1>19, <1>20 DEF Sides

\* cancel_order recomputes the side of the order it read before erasing it.
LEMMA ExactAfterWithdraw ==
    ASSUME TypeOK, \A side \in Sides : best[side] = BestPrice(levels, side),
           FreedMemoryIntact, NEW id \in DOMAIN orders, Withdraw(id)
    PROVE  \A side \in Sides : best'[side] = BestPrice(levels', side)
<1> DEFINE s == orders[id].side
           p == orders[id].price
<1>1. s \in Sides /\ p \in Prices /\ levels \in Levels
  BY DEF TypeOK, Order, Levels
<1>2. levels' = [levels EXCEPT ![s][p] = RemoveNode(levels[s][p], id)]
  BY DEF Withdraw
<1>3. best' = [best EXCEPT ![s] = BestPrice(levels', s)]
  BY DEF Withdraw, FreedSides
<1> HIDE DEF s, p
<1> SUFFICES ASSUME NEW side \in Sides PROVE best'[side] = BestPrice(levels', side)
  OBVIOUS
<1>4. CASE side = s
  BY <1>3, <1>4 DEF TypeOK
<1>5. CASE side # s
  <2>1. Occupied(levels', side) = Occupied(levels, side)
    BY <1>1, <1>2, <1>5 DEF Occupied, Levels
  <2>2. best'[side] = best[side]
    BY <1>3, <1>5 DEF TypeOK
  <2> QED
    BY <1>1, <2>1, <2>2, BestPriceIs
<1> QED
  BY <1>4, <1>5

\* An amended node stays in its place: no price is vacated or taken.
LEMMA ExactAfterAmend ==
    ASSUME TypeOK, \A side \in Sides : best[side] = BestPrice(levels, side),
           NEW id \in OrderIds, NEW quantity \in Amounts, Amend(id, quantity)
    PROVE  \A side \in Sides : best'[side] = BestPrice(levels', side)
<1> DEFINE s == orders[id].side
           p == orders[id].price
<1>1. /\ s \in Sides /\ p \in Prices /\ levels \in Levels
      /\ levels[s][p] # <<>> /\ levels[s][p] \in Seq(Node(OrderIds))
  BY DEF Amend, SamePrice, TypeOK, Order, Levels
<1>2. /\ levels' = [levels EXCEPT ![s][p] = ModifyNode(levels[s][p], id, quantity)]
      /\ best' = best
  BY DEF Amend
<1>3. ModifyNode(levels[s][p], id, quantity) # <<>>
  <2>1. DOMAIN ModifyNode(levels[s][p], id, quantity) = DOMAIN levels[s][p]
    BY DEF ModifyNode
  <2>2. 1 \in DOMAIN levels[s][p]
    BY <1>1, LenProperties, EmptySeq
  <2> QED
    BY <2>1, <2>2
<1> HIDE DEF s, p
<1>4. \A side \in Sides : Occupied(levels', side) = Occupied(levels, side)
  BY <1>1, <1>2, <1>3 DEF Occupied, Levels
<1>5. \A side \in Sides : BestPrice(levels', side) = BestPrice(levels, side)
  <2> TAKE side \in Sides
  <2>1. Occupied(levels', side) = Occupied(levels, side)
    BY <1>4
  <2> QED
    BY <1>1, <2>1, BestPriceIs, Zenon
<1> QED
  BY <1>2, <1>5

LEMMA BestExactInductive == TypeOK /\ BestExact /\ [Next]_vars => BestExact'
<1> SUFFICES ASSUME TypeOK, BestExact, [Next]_vars,
                    FreedMemoryIntact, InvalidPrice \notin Prices
             PROVE  \A side \in Sides : best'[side] = BestPrice(levels', side)
  BY DEF BestExact
<1> USE DEF book
<1>0. \A side \in Sides : best[side] = BestPrice(levels, side)
  BY DEF BestExact
<1>1. CASE UNCHANGED <<levels, best>>
  BY <1>0, <1>1
<1>2. CASE RefreshBest
  <2>1. Maker \in Sides /\ levels' = levels
    BY <1>2, TypeOfMatch DEF RefreshBest
  <2> QED
    BY <1>0, <1>2, <2>1 DEF RefreshBest, TypeOK
<1>3. CASE DropGhost
  BY <1>0, <1>3, ExactAfterReplaceQueue DEF DropGhost
<1>4. CASE FillResting
  BY <1>0, <1>4, ExactAfterReplaceQueue DEF FillResting
<1>5. CASE Rest
  BY <1>0, <1>5, ExactAfterRest
<1>6. ASSUME NEW id \in OrderIds, Cancel(id)
      PROVE  \A side \in Sides : best'[side] = BestPrice(levels', side)
  BY <1>0, <1>6, ExactAfterWithdraw DEF Cancel
<1>7. ASSUME NEW id \in OrderIds, NEW price \in Prices, NEW quantity \in Amounts,
             Move(id, price, quantity)
      PROVE  \A side \in Sides : best'[side] = BestPrice(levels', side)
  BY <1>0, <1>7, ExactAfterWithdraw DEF Move
<1>8. ASSUME NEW id \in OrderIds, NEW quantity \in Amounts, Amend(id, quantity)
      PROVE  \A side \in Sides : best'[side] = BestPrice(levels', side)
  BY <1>0, <1>8, ExactAfterAmend
<1>9. CASE \/ Reject \/ Admit \/ StopMatching \/ SelfTradeStop
           \/ FinishIOC \/ KillFOK \/ Complete \/ Return
  BY <1>1, <1>9 DEF Reject, Admit, StopMatching, SelfTradeStop, FinishIOC, KillFOK,
                    Complete, Return
<1>10. ASSUME NEW id \in OrderIds, NEW side \in Sides, NEW price \in Prices,
              NEW quantity \in Amounts, NEW kind \in OrderKinds,
              AddOrder(id, side, price, quantity, kind)
       PROVE  UNCHANGED <<levels, best>>
  BY <1>10 DEF AddOrder
<1>11. ASSUME NEW id \in OrderIds, OrderNotFound(id) \/ ReplaceNotFound(id)
       PROVE  UNCHANGED <<levels, best>>
  BY <1>11 DEF OrderNotFound, ReplaceNotFound
<1>12. CASE FlushPending
  BY <1>1, <1>12 DEF FlushPending
<1>13. ASSUME NEW installed \in CallbackSets, SetCallbacks(installed)
       PROVE  UNCHANGED <<levels, best>>
  BY <1>13 DEF SetCallbacks
<1>14. CASE UNCHANGED vars
  BY <1>1, <1>14 DEF vars
<1>15. CASE Client
  BY <1>1, <1>6, <1>7, <1>8, <1>10, <1>11, <1>12, <1>13, <1>15 DEF Client
<1>16. CASE Step
  BY <1>2, <1>3, <1>4, <1>5, <1>9, <1>16 DEF Step
<1> QED
  BY <1>14, <1>15, <1>16 DEF Next

\* As long as no order can rest at the sentinel price and the memory of an
\* erased order still holds its side, the cached best prices are those of the
\* levels at every step of every call.
THEOREM BestExactAlways == Spec => []BestExact
<1>1. Init => BestExact
  <2> SUFFICES ASSUME Init PROVE BestExact
    OBVIOUS
  <2>1. \A side \in Sides : Occupied(levels, side) = {}
    BY DEF Init, Occupied
  <2> QED
    BY <2>1 DEF BestExact, BestPrice, Init
<1> QED
  BY <1>1, BestExactInductive, TypeCorrect, PTL DEF Spec

-----------------------------------------------------------------------------
(* The sum of the fills *)

\* What Filled adds for one more trade.
AddTrade == [p \in Nat \X Trade |-> p[1] + p[2].quantity]

\* Sequences of trades can be regrouped.
LEMMA Regroup == \A a, b, c \in Seq(Trade) : (a \o b) \o c = a \o (b \o c)
<1> TAKE a \in Seq(Trade), b \in Seq(Trade), c \in Seq(Trade)
<1> QED
  BY ConcatAssociative

\* Filled folds its trades with AddTrade.
LEMMA FilledFolds ==
    ASSUME NEW trades \in Seq(Trade)
    PROVE  FoldsTo(Filled(trades), AddTrade, Nat, 0, trades)
<1> DEFINE Sum(f) == [s \in SUBSET DOMAIN trades |->
                        IF s = {} THEN 0 ELSE f[s \ {Max(s)}] + trades[Max(s)].quantity]
           h == CHOOSE f : f = Sum(f)
<1>1. Len(trades) \in Nat /\ DOMAIN trades = 1 .. Len(trades)
  BY LenProperties
<1>2. AddTrade \in [Nat \X Trade -> Nat]
  BY QModAssumption DEF AddTrade, Trade, Quantity
<1>3. PICK g \in [SUBSET DOMAIN trades -> Nat] : FoldsWith(g, AddTrade, Nat, 0, trades)
  BY <1>2, FoldExists
<1>4. ASSUME NEW s \in (SUBSET DOMAIN trades) \ {{}}
      PROVE  /\ s \ {Max(s)} \in SUBSET DOMAIN trades
             /\ trades[Max(s)] \in Trade
  <2>1. Max(s) \in s
    BY <1>1, MaxOfPositions
  <2> QED
    BY <1>1, <2>1, ElementOfSeq
<1>5. ASSUME NEW n \in Nat, NEW trade \in Trade
      PROVE  AddTrade[<<n, trade>>] = n + trade.quantity
  BY DEF AddTrade
<1>6. g = Sum(g)
  <2>1. ASSUME NEW s \in SUBSET DOMAIN trades
        PROVE  g[s] = IF s = {} THEN 0 ELSE g[s \ {Max(s)}] + trades[Max(s)].quantity
    <3>1. CASE s = {}
      BY <1>3, <3>1 DEF FoldsWith
    <3>2. CASE s # {}
      <4>1. g[s \ {Max(s)}] \in Nat
        BY <1>3, <1>4, <3>2
      <4>2. g[s] = AddTrade[<<g[s \ {Max(s)}], trades[Max(s)]>>]
        BY <1>3, <3>2, <4>1 DEF FoldsWith
      <4> QED
        BY <1>4, <1>5, <3>2, <4>1, <4>2
    <3> QED
      BY <3>1, <3>2
  <2> QED
    BY <2>1
<1>7. h = Sum(h)
  <2> HIDE DEF Sum
  <2> QED
    BY <1>6
<1>8. Filled(trades) = h[DOMAIN trades]
  BY DEF Filled, FoldLeft, MapThenFoldSet
<1> HIDE DEF h
<1>9. FoldsWith(h, AddTrade, Nat, 0, trades)
  <2>1. h[{}] = 0
    BY <1>7
  <2>2. ASSUME NEW s \in (SUBSET DOMAIN trades) \ {{}}, h[s \ {Max(s)}] \in Nat
        PROVE  h[s] = AddTrade[<<h[s \ {Max(s)}], trades[Max(s)]>>]
    <3>1. h[s] = h[s \ {Max(s)}] + trades[Max(s)].quantity
      BY <1>7
    <3> QED
      BY <1>4, <1>5, <2>2, <3>1
  <2> QED
    BY <2>1, <2>2 DEF FoldsWith
<1> QED
  BY <1>8, <1>9 DEF FoldsTo

\* One more trade adds its quantity.
LEMMA FilledAppend ==
    ASSUME NEW trades \in Seq(Trade), NEW trade \in Trade
    PROVE  /\ Filled(trades) \in Nat
           /\ Filled(Append(trades, trade)) = Filled(trades) + trade.quantity
<1>1. AddTrade \in [Nat \X Trade -> Nat]
  BY QModAssumption DEF AddTrade, Trade, Quantity
<1>2. /\ FoldsTo(Filled(trades), AddTrade, Nat, 0, trades)
      /\ FoldsTo(Filled(Append(trades, trade)), AddTrade, Nat, 0, Append(trades, trade))
  <2>1. Append(trades, trade) \in Seq(Trade)
    OBVIOUS
  <2> QED
    BY <2>1, FilledFolds
<1>3. FoldsStepwise(AddTrade, Nat, Trade, 0)
  BY <1>1, FoldStep
<1>4. /\ Filled(trades) \in Nat
      /\ Filled(Append(trades, trade)) = AddTrade[<<Filled(trades), trade>>]
  BY <1>2, <1>3 DEF FoldsStepwise
<1> QED
  BY <1>4 DEF AddTrade

\* Before the first trade the sum is nothing.
LEMMA FilledNothing == Filled(<<>>) = 0
<1>1. AddTrade \in [Nat \X Trade -> Nat]
  BY QModAssumption DEF AddTrade, Trade, Quantity
<1>2. FoldsTo(Filled(<<>>), AddTrade, Nat, 0, <<>>)
  <2>1. <<>> \in Seq(Trade)
    OBVIOUS
  <2> QED
    BY <2>1, FilledFolds
<1>3. FoldsStepwise(AddTrade, Nat, Trade, 0)
  BY <1>1, FoldStep
<1> QED
  BY <1>2, <1>3 DEF FoldsStepwise

-----------------------------------------------------------------------------
(* A taker trades within its order *)

\* A fill the taker may make: at its limit or better, and of something.
FillAllowed(order, trade) ==
    /\ order.type = "Market" \/ WouldCross(order, trade.price)
    /\ ~UnguardedAmends => trade.quantity > 0

\* FillsWithinOrder at every step of a call, with what it needs to start from:
\* a call begins without fills and without a taker.
FillsInv ==
    /\ pc = "idle" => taker = NoOrder
    /\ pc \in {"idle", "adding"} => fills = <<>>
    /\ \A i \in DOMAIN fills : FillAllowed(taker, fills[i])
    /\ Filled(fills) = taker.filled
    /\ taker.filled <= taker.quantity
    /\ pc = "returned" /\ response.success /\ taker # NoOrder =>
          response.filled = taker.filled

LEMMA FillsInvHolds == FillsInv => FillsWithinOrder
BY DEF FillsInv, FillsWithinOrder, FillAllowed

\* The taker's fill, whatever clients amended before it.
LEMMA TakerFill ==
    ASSUME TypeOK, FillResting
    PROVE  /\ FillQuantity \in Quantity /\ FillQuantity <= Remaining(taker)
           /\ taker \in Order /\ taker.filled < taker.quantity
           /\ TradeOf(FillQuantity) \in Trade
<1>1. /\ Matching /\ Head(Queue).id \in DOMAIN orders /\ Queue # <<>>
  BY DEF FillResting
<1>2. /\ taker \in Order /\ taker.id \in OrderIds /\ taker.side \in Sides /\ Top \in Prices
      /\ taker.filled < taker.quantity
  BY <1>1, TypeOfMatch DEF Matching, IsFilled, Order, Quantity
<1>3. Resting \in Order /\ Resting.id \in OrderIds
  BY <1>1 DEF Resting, TypeOK
<1>4. Remaining(taker) \in Quantity /\ Remaining(Resting) \in Quantity
  <2>1. 0 \in Quantity
    BY QModAssumption DEF Quantity
  <2> QED
    BY <1>2, <1>3, <2>1, FillType
<1>5. FillQuantity \in Quantity /\ FillQuantity <= Remaining(taker)
  BY <1>4 DEF FillQuantity, Quantity
<1>6. TradeOf(FillQuantity) \in Trade
  BY <1>2, <1>3, <1>5 DEF TradeOf, Trade
<1> QED
  BY <1>2, <1>5, <1>6

LEMMA FillsOfFill ==
    ASSUME TypeOK, FillsInv, RecordsInv, FillResting
    PROVE  FillsInv'
<1> DEFINE n == FillQuantity
           trade == TradeOf(n)
<1>1. /\ n \in Quantity /\ n <= Remaining(taker)
      /\ taker \in Order /\ taker.filled < taker.quantity /\ trade \in Trade
  BY TakerFill
<1>2. /\ trade.quantity = n /\ trade.price = Top
      /\ taker.type = "Market" \/ WouldCross(taker, Top)
  BY DEF TradeOf, FillResting, Matching, CanMatch
<1>3. ~UnguardedAmends => n > 0
  BY FillQuantityWithin DEF RecordsInv, FillResting
<1>4. /\ taker' = Fill(taker, n) /\ fills' = Append(fills, trade)
      /\ pc = "matching" /\ pc' = "matching" /\ fills \in Seq(Trade)
  BY DEF FillResting, Matching, TypeOK
<1> HIDE DEF n, trade
<1>5. /\ taker'.type = taker.type /\ taker'.side = taker.side /\ taker'.price = taker.price
      /\ taker'.filled = taker.filled + n /\ taker'.quantity = taker.quantity
  BY <1>1, <1>4, FillOf
<1>6. Filled(fills') = taker'.filled
  BY <1>1, <1>2, <1>4, <1>5, FilledAppend DEF FillsInv
<1>7. taker'.filled <= taker'.quantity
  <2>1. Remaining(taker) = taker.quantity - taker.filled
    BY <1>1, RemainingOf
  <2>2. taker.quantity \in Nat /\ taker.filled \in Nat /\ n \in Nat
    BY <1>1 DEF Order, Quantity
  <2> QED
    BY <1>1, <1>5, <2>1, <2>2
<1>8. ASSUME NEW other, FillAllowed(taker, other) PROVE FillAllowed(taker', other)
  BY <1>5, <1>8 DEF FillAllowed, WouldCross
<1>9. FillAllowed(taker', trade)
  BY <1>2, <1>3, <1>8 DEF FillAllowed
<1>10. \A i \in DOMAIN fills' : FillAllowed(taker', fills'[i])
  <2>1. /\ Len(fills) \in Nat /\ DOMAIN fills' = 1 .. Len(fills) + 1
        /\ DOMAIN fills = 1 .. Len(fills)
        /\ \A i \in 1 .. Len(fills) : fills'[i] = fills[i]
        /\ fills'[Len(fills) + 1] = trade
    BY <1>1, <1>4, AppendProperties, LenProperties
  <2> QED
    BY <1>8, <1>9, <2>1 DEF FillsInv
<1> QED
  BY <1>4, <1>6, <1>7, <1>10 DEF FillsInv

\* A new order starts without fills.
LEMMA FillsOfNewTaker ==
    ASSUME NEW id, NEW side, NEW price, NEW quantity \in Quantity, NEW type, NEW tif
    PROVE  LET order == AsPriced(NewOrder(id, side, price, quantity, type, tif))
           IN  order.filled = 0 /\ order.filled <= order.quantity
BY DEF AsPriced, NewOrder, Quantity

LEMMA FillsInductive == TypeOK /\ RecordsInv /\ FillsInv /\ [Next]_vars => FillsInv'
<1> SUFFICES ASSUME TypeOK, RecordsInv, FillsInv, [Next]_vars PROVE FillsInv'
  OBVIOUS
<1> USE DEF book
<1>1. ASSUME UNCHANGED <<taker, fills>>, pc # "idle", pc # "adding", pc' # "idle", pc' # "adding",
             pc' = "returned" /\ response'.success => response'.filled = taker.filled
      PROVE  FillsInv'
  BY <1>1 DEF FillsInv
<1>2. CASE Reject \/ Admit
  BY <1>2 DEF Reject, Admit, Respond, FillsInv
<1>3. CASE StopMatching \/ RefreshBest \/ DropGhost \/ SelfTradeStop
  BY <1>1, <1>3 DEF StopMatching, RefreshBest, DropGhost, SelfTradeStop, Matching
<1>4. CASE FillResting
  BY <1>4, FillsOfFill
<1>5. CASE FinishIOC \/ Rest \/ Complete
  <2>1. PICK earlier, avg : pc = "matched" /\ Conclude(earlier, avg)
    BY <1>5 DEF FinishIOC, Rest, Complete
  <2> QED
    BY <1>1, <2>1 DEF Conclude, Respond
<1>6. CASE KillFOK
  BY <1>1, <1>6 DEF KillFOK, Respond
<1>7. CASE Return
  BY <1>7, FilledNothing, QModAssumption DEF Return, NoOrder, FillsInv
<1>8. ASSUME pc = "idle", fills' = fills, pc' = "adding",
             taker'.filled = 0, taker'.filled <= taker'.quantity
      PROVE  FillsInv'
  BY <1>8, FilledNothing DEF FillsInv
<1>9. CASE Client
  <2>1. ASSUME NEW id \in OrderIds, NEW side \in Sides, NEW price \in Prices,
               NEW quantity \in Amounts, NEW kind \in OrderKinds,
               AddOrder(id, side, price, quantity, kind)
        PROVE  FillsInv'
    <3>1. quantity \in Quantity
      BY ConstantTypes
    <3> QED
      BY <1>8, <2>1, <3>1, FillsOfNewTaker DEF AddOrder, Call
  <2>2. ASSUME NEW id \in OrderIds, NEW price \in Prices, NEW quantity \in Amounts,
               Move(id, price, quantity)
        PROVE  FillsInv'
    <3>1. quantity \in Quantity
      BY ConstantTypes
    <3> QED
      BY <1>8, <2>2, <3>1, FillsOfNewTaker DEF Move, Call
  <2>3. ASSUME pc = "idle", UNCHANGED <<taker, fills>>, pc' \in {"idle", "returned"}
        PROVE  FillsInv'
    BY <2>3, FilledNothing DEF FillsInv
  <2>4. CASE \/ \E id \in OrderIds : OrderNotFound(id) \/ Cancel(id) \/ ReplaceNotFound(id)
             \/ \E id \in OrderIds, quantity \in Amounts : Amend(id, quantity)
             \/ FlushPending
             \/ \E installed \in CallbackSets : SetCallbacks(installed)
    BY <2>3, <2>4 DEF OrderNotFound, Cancel, ReplaceNotFound, Amend, FlushPending,
                      SetCallbacks, Call, Respond, RespondBare
  <2> QED
    BY <1>9, <2>1, <2>2, <2>4 DEF Client
<1>10. CASE UNCHANGED vars
  BY <1>10 DEF vars, FillsInv
<1> QED
  BY <1>2, <1>3, <1>4, <1>5, <1>6, <1>7, <1>9, <1>10 DEF Next, Step

LEMMA FillsInvAlways == Spec => []FillsInv
<1>1. Init => FillsInv
  BY FilledNothing DEF Init, NoOrder, NoResponse, FillsInv
<1> QED
  BY <1>1, FillsInductive, RecordsInvAlways, TypeCorrect, PTL DEF Spec

\* A taker trades at its limit or better, never nothing, never more than it
\* asked for, and the result of the call is the sum of the fills it made: for
\* any number of fills, and any levels and quantities met on the way.
THEOREM FillsWithinOrderAlways == Spec => []FillsWithinOrder
BY FillsInvAlways, FillsInvHolds, PTL

-----------------------------------------------------------------------------
(* The trades among what the callbacks hear *)

\* A set of events whose trades are trades.
Audible(S) == \A e \in S : e.event = "trade" => e.trade \in Trade

\* A sequence of such events.
Heard(seq) == \E S : Audible(S) /\ seq \in Seq(S)

\* What TradesIn makes of one more event.
KeepTrade(S) == [p \in Seq(Trade) \X S |->
                    IF p[2].event = "trade" THEN Append(p[1], p[2].trade) ELSE p[1]]

LEMMA KeepTradeType ==
    ASSUME NEW S, Audible(S)
    PROVE  /\ KeepTrade(S) \in [Seq(Trade) \X S -> Seq(Trade)]
           /\ \A trades \in Seq(Trade), e \in S :
                 KeepTrade(S)[<<trades, e>>] =
                    IF e.event = "trade" THEN Append(trades, e.trade) ELSE trades
<1>1. ASSUME NEW trades \in Seq(Trade), NEW e \in S
      PROVE  (IF e.event = "trade" THEN Append(trades, e.trade) ELSE trades) \in Seq(Trade)
  BY AppendProperties DEF Audible
<1> QED
  BY <1>1 DEF KeepTrade

\* TradesIn folds its events with KeepTrade.
LEMMA TradesInFolds ==
    ASSUME NEW S, Audible(S), NEW seq \in Seq(S)
    PROVE  FoldsTo(TradesIn(seq), KeepTrade(S), Seq(Trade), <<>>, seq)
<1> DEFINE After(trades, e) == IF e.event = "trade" THEN Append(trades, e.trade) ELSE trades
           Kept(f) == [s \in SUBSET DOMAIN seq |->
                         IF s = {} THEN <<>> ELSE After(f[s \ {Max(s)}], seq[Max(s)])]
           h == CHOOSE f : f = Kept(f)
<1>1. Len(seq) \in Nat /\ DOMAIN seq = 1 .. Len(seq)
  BY LenProperties
<1>2. KeepTrade(S) \in [Seq(Trade) \X S -> Seq(Trade)] /\ <<>> \in Seq(Trade)
  BY KeepTradeType, EmptySeq
<1>3. PICK g \in [SUBSET DOMAIN seq -> Seq(Trade)] :
         FoldsWith(g, KeepTrade(S), Seq(Trade), <<>>, seq)
  BY <1>2, FoldExists
<1>4. ASSUME NEW s \in (SUBSET DOMAIN seq) \ {{}}
      PROVE  s \ {Max(s)} \in SUBSET DOMAIN seq /\ seq[Max(s)] \in S
  <2>1. Max(s) \in s
    BY <1>1, MaxOfPositions
  <2> QED
    BY <1>1, <2>1, ElementOfSeq
<1>5. ASSUME NEW trades \in Seq(Trade), NEW e \in S
      PROVE  KeepTrade(S)[<<trades, e>>] = After(trades, e)
  BY KeepTradeType
<1>6. TradesIn(seq) = h[DOMAIN seq]
  BY DEF TradesIn, FoldLeft, MapThenFoldSet
<1> HIDE DEF After
<1>7. g = Kept(g)
  <2>1. ASSUME NEW s \in SUBSET DOMAIN seq
        PROVE  g[s] = IF s = {} THEN <<>> ELSE After(g[s \ {Max(s)}], seq[Max(s)])
    <3>1. CASE s = {}
      BY <1>3, <3>1 DEF FoldsWith
    <3>2. CASE s # {}
      <4>1. g[s \ {Max(s)}] \in Seq(Trade)
        BY <1>3, <1>4, <3>2
      <4>2. g[s] = KeepTrade(S)[<<g[s \ {Max(s)}], seq[Max(s)]>>]
        BY <1>3, <3>2, <4>1 DEF FoldsWith
      <4> QED
        BY <1>4, <1>5, <3>2, <4>1, <4>2
    <3> QED
      BY <3>1, <3>2
  <2> QED
    BY <2>1
<1>8. h = Kept(h)
  <2> HIDE DEF Kept
  <2> QED
    BY <1>7
<1> HIDE DEF h
<1>9. FoldsWith(h, KeepTrade(S), Seq(Trade), <<>>, seq)
  <2>1. h[{}] = <<>>
    BY <1>8
  <2>2. ASSUME NEW s \in (SUBSET DOMAIN seq) \ {{}}, h[s \ {Max(s)}] \in Seq(Trade)
        PROVE  h[s] = KeepTrade(S)[<<h[s \ {Max(s)}], seq[Max(s)]>>]
    <3>1. h[s] = After(h[s \ {Max(s)}], seq[Max(s)])
      BY <1>8
    <3> QED
      BY <1>4, <1>5, <2>2, <3>1
  <2> QED
    BY <2>1, <2>2 DEF FoldsWith
<1> QED
  BY <1>6, <1>9 DEF FoldsTo

\* One more event is one more trade, or none.
LEMMA TradesInAppend ==
    ASSUME NEW S, Audible(S)
    PROVE  /\ TradesIn(<<>>) = <<>>
           /\ \A seq \in Seq(S) : TradesIn(seq) \in Seq(Trade)
           /\ \A seq \in Seq(S), e \in S :
                 TradesIn(Append(seq, e)) =
                    IF e.event = "trade" THEN Append(TradesIn(seq), e.trade)
                                         ELSE TradesIn(seq)
<1>1. KeepTrade(S) \in [Seq(Trade) \X S -> Seq(Trade)] /\ <<>> \in Seq(Trade)
  BY KeepTradeType, EmptySeq
<1>2. FoldsStepwise(KeepTrade(S), Seq(Trade), S, <<>>)
  BY <1>1, FoldStep
<1>3. TradesIn(<<>>) = <<>>
  <2>1. <<>> \in Seq(S)
    BY EmptySeq
  <2>2. FoldsTo(TradesIn(<<>>), KeepTrade(S), Seq(Trade), <<>>, <<>>)
    BY <2>1, TradesInFolds
  <2> QED
    BY <1>2, <2>2 DEF FoldsStepwise
<1>4. ASSUME NEW seq \in Seq(S), NEW e \in S
      PROVE  /\ TradesIn(seq) \in Seq(Trade)
             /\ TradesIn(Append(seq, e)) = KeepTrade(S)[<<TradesIn(seq), e>>]
  <2>1. Append(seq, e) \in Seq(S)
    BY AppendProperties
  <2>2. /\ FoldsTo(TradesIn(seq), KeepTrade(S), Seq(Trade), <<>>, seq)
        /\ FoldsTo(TradesIn(Append(seq, e)), KeepTrade(S), Seq(Trade), <<>>, Append(seq, e))
    BY <2>1, TradesInFolds
  <2> QED
    BY <1>2, <2>2 DEF FoldsStepwise
<1>5. ASSUME NEW seq \in Seq(S), NEW e \in S
      PROVE  TradesIn(Append(seq, e)) = IF e.event = "trade" THEN Append(TradesIn(seq), e.trade)
                                                           ELSE TradesIn(seq)
  <2> DEFINE before == TradesIn(seq)
  <2>1. before \in Seq(Trade) /\ TradesIn(Append(seq, e)) = KeepTrade(S)[<<before, e>>]
    BY <1>4
  <2> HIDE DEF before
  <2>2. KeepTrade(S)[<<before, e>>] =
           IF e.event = "trade" THEN Append(before, e.trade) ELSE before
    BY <2>1, KeepTradeType
  <2> QED
    BY <2>1, <2>2 DEF before
<1>6. \A seq \in Seq(S) : TradesIn(seq) \in Seq(Trade)
  <2> DEFINE T == {seq \in Seq(S) : TradesIn(seq) \in Seq(Trade)}
  <2>1. <<>> \in T
    BY <1>1, <1>3, EmptySeq
  <2>2. ASSUME NEW seq \in Seq(S), NEW e \in S, seq \in T PROVE Append(seq, e) \in T
    <3>1. Append(seq, e) \in Seq(S)
      BY AppendProperties
    <3>2. e.event = "trade" => Append(TradesIn(seq), e.trade) \in Seq(Trade)
      BY <1>4, AppendProperties DEF Audible
    <3> QED
      BY <1>4, <1>5, <3>1, <3>2
  <2> HIDE DEF T
  <2>3. \A seq \in Seq(S) : seq \in T
    BY <2>1, <2>2, InductionOnSeq
  <2> QED
    BY <2>3 DEF T
<1> QED
  BY <1>3, <1>5, <1>6

\* The trades of two stretches of events are those of the one, then those of
\* the other.
LEMMA TradesInConcat ==
    ASSUME NEW S, Audible(S), NEW seq \in Seq(S), NEW more \in Seq(S)
    PROVE  TradesIn(seq \o more) = TradesIn(seq) \o TradesIn(more)
<1> DEFINE T == {rest \in Seq(S) : TradesIn(seq \o rest) = TradesIn(seq) \o TradesIn(rest)}
<1>1. \A rest \in Seq(S) : TradesIn(rest) \in Seq(Trade)
  BY TradesInAppend
<1>2. <<>> \in T
  <2>1. seq \o <<>> = seq /\ TradesIn(seq) \o <<>> = TradesIn(seq) /\ <<>> \in Seq(S)
    BY <1>1, ConcatEmptySeq, EmptySeq
  <2>2. TradesIn(<<>>) = <<>>
    BY TradesInAppend
  <2> QED
    BY <2>1, <2>2
<1>3. ASSUME NEW rest \in Seq(S), NEW e \in S, rest \in T PROVE Append(rest, e) \in T
  <2> DEFINE longer == Append(rest, e)
             both   == seq \o rest
  <2>1. longer \in Seq(S) /\ both \in Seq(S) /\ longer = rest \o <<e>>
        /\ Append(both, e) = both \o <<e>>
    BY AppendProperties, ConcatProperties, AppendIsConcat
  <2>2. seq \o longer = Append(both, e)
    <3>1. <<e>> \in Seq(S)
      OBVIOUS
    <3>2. (seq \o rest) \o <<e>> = seq \o (rest \o <<e>>)
      BY <3>1, ConcatAssociative
    <3> QED
      BY <2>1, <3>2
  <2>3. TradesIn(both) = TradesIn(seq) \o TradesIn(rest)
    BY <1>3
  <2> HIDE DEF both
  <2>4. /\ TradesIn(Append(both, e)) =
              IF e.event = "trade" THEN Append(TradesIn(both), e.trade) ELSE TradesIn(both)
        /\ TradesIn(longer) =
              IF e.event = "trade" THEN Append(TradesIn(rest), e.trade) ELSE TradesIn(rest)
    BY <2>1, TradesInAppend
  <2>5. CASE e.event = "trade"
    <3> DEFINE a == TradesIn(seq)
               b == TradesIn(rest)
               t == e.trade
    <3>1. a \in Seq(Trade) /\ b \in Seq(Trade) /\ t \in Trade
      BY <1>1, <2>5 DEF Audible
    <3> HIDE DEF a, b, t
    <3>2. a \o b \in Seq(Trade) /\ <<t>> \in Seq(Trade)
      BY <3>1, ConcatProperties
    <3>3. Append(a \o b, t) = (a \o b) \o <<t>> /\ Append(b, t) = b \o <<t>>
      BY <3>1, <3>2, AppendIsConcat
    <3>4. (a \o b) \o <<t>> = a \o (b \o <<t>>)
      BY <3>1, <3>2, Regroup, Zenon
    <3>5. Append(a \o b, t) = a \o Append(b, t)
      BY <3>3, <3>4
    <3>6. TradesIn(seq \o longer) = a \o TradesIn(longer)
      BY <2>2, <2>3, <2>4, <2>5, <3>5 DEF a, b, t
    <3> QED
      BY <2>1, <3>6 DEF a
  <2>6. CASE e.event # "trade"
    BY <2>1, <2>2, <2>3, <2>4, <2>6
  <2> QED
    BY <2>5, <2>6
<1> HIDE DEF T
<1>4. more \in T
  BY <1>2, <1>3, InductionOnSeq
<1> QED
  BY <1>4 DEF T

-----------------------------------------------------------------------------
(* What each piece the book emits adds to the trades heard *)

TradeEvent == [event : {"trade"}, trade : Trade]

\* TradeEvents tells every trade once, in order.
LEMMA TradesInTradeEvents ==
    ASSUME NEW trades \in Seq(Trade)
    PROVE  /\ TradeEvents(trades) \in Seq(TradeEvent)
           /\ TradesIn(TradeEvents(trades)) = trades
<1> DEFINE Event(t) == [event |-> "trade", trade |-> t]
           T == {seq \in Seq(Trade) : TradesIn(TradeEvents(seq)) = seq}
<1>1. Audible(TradeEvent)
  BY DEF Audible, TradeEvent
<1>2. \A t \in Trade : Event(t) \in TradeEvent /\ Event(t).event = "trade" /\ Event(t).trade = t
  BY DEF TradeEvent
<1>3. ASSUME NEW seq \in Seq(Trade)
      PROVE  /\ TradeEvents(seq) \in Seq(TradeEvent) /\ Len(TradeEvents(seq)) = Len(seq)
             /\ \A i \in 1 .. Len(seq) : TradeEvents(seq)[i] = Event(seq[i])
  <2>1. /\ Len(seq) \in Nat /\ DOMAIN seq = 1 .. Len(seq)
        /\ \A i \in 1 .. Len(seq) : seq[i] \in Trade
    BY LenProperties, ElementOfSeq
  <2>2. TradeEvents(seq) = [i \in 1 .. Len(seq) |-> Event(seq[i])]
    BY <2>1 DEF TradeEvents
  <2> HIDE DEF Event
  <2>3. TradeEvents(seq) \in [1 .. Len(seq) -> TradeEvent]
    BY <1>2, <2>1, <2>2
  <2> QED
    BY <2>1, <2>2, <2>3, FunctionIsSeq
<1> HIDE DEF Event
<1>4. <<>> \in T
  <2>1. <<>> \in Seq(Trade) /\ Len(<<>>) = 0
    BY EmptySeq
  <2>2. TradeEvents(<<>>) = <<>>
    BY <1>3, <2>1, EmptySeq
  <2>3. TradesIn(<<>>) = <<>>
    BY <1>1, TradesInAppend
  <2> QED
    BY <2>1, <2>2, <2>3
<1>5. ASSUME NEW seq \in Seq(Trade), NEW t \in Trade, seq \in T PROVE Append(seq, t) \in T
  <2> DEFINE longer == Append(seq, t)
             short  == TradeEvents(seq)
             long   == TradeEvents(longer)
             told   == Append(short, Event(t))
  <2>1. /\ longer \in Seq(Trade) /\ Len(longer) = Len(seq) + 1
        /\ \A i \in 1 .. Len(seq) : longer[i] = seq[i]
        /\ longer[Len(seq) + 1] = t /\ Len(seq) \in Nat
    BY AppendProperties, LenProperties
  <2>2. /\ short \in Seq(TradeEvent) /\ Len(short) = Len(seq)
        /\ \A i \in 1 .. Len(seq) : short[i] = Event(seq[i])
    BY <1>3
  <2> HIDE DEF longer, short
  <2>3. /\ long \in Seq(TradeEvent) /\ Len(long) = Len(seq) + 1
        /\ \A i \in 1 .. Len(seq) + 1 : long[i] = Event(longer[i])
    BY <1>3, <2>1
  <2>4. /\ told \in Seq(TradeEvent) /\ Len(told) = Len(seq) + 1
        /\ \A i \in 1 .. Len(seq) : told[i] = short[i]
        /\ told[Len(seq) + 1] = Event(t)
    BY <1>2, <2>2, AppendProperties
  <2> HIDE DEF long, told
  <2>5. \A i \in 1 .. Len(seq) + 1 : long[i] = told[i]
    BY <2>1, <2>2, <2>3, <2>4
  <2>6. long = told
    BY <2>3, <2>4, <2>5, SeqEqual
  <2>7. TradesIn(told) = Append(TradesIn(short), t)
    BY <1>1, <1>2, <2>2, TradesInAppend DEF told
  <2>8. TradesIn(short) = seq
    BY <1>5 DEF short
  <2> QED
    BY <2>1, <2>6, <2>7, <2>8 DEF long, longer
<1> HIDE DEF T
<1>6. \A seq \in Seq(Trade) : seq \in T
  BY <1>4, <1>5, InductionOnSeq
<1> QED
  BY <1>3, <1>6 DEF T

\* Listening on keeps what was heard before.
LEMMA HeardConcat ==
    ASSUME NEW seq, NEW more, Heard(seq), Heard(more)
    PROVE  /\ Heard(seq \o more)
           /\ TradesIn(seq \o more) = TradesIn(seq) \o TradesIn(more)
           /\ TradesIn(seq) \in Seq(Trade) /\ TradesIn(more) \in Seq(Trade)
<1>1. PICK S : Audible(S) /\ seq \in Seq(S)
  BY DEF Heard
<1>2. PICK T : Audible(T) /\ more \in Seq(T)
  BY DEF Heard
<1> DEFINE U == S \cup T
<1>3. Audible(U)
  BY <1>1, <1>2 DEF Audible
<1>4. seq \in Seq(U) /\ more \in Seq(U)
  BY <1>1, <1>2, SeqMonotonic
<1> HIDE DEF U
<1>5. seq \o more \in Seq(U)
  BY <1>4, ConcatProperties
<1>6. Heard(seq \o more)
  BY <1>3, <1>5 DEF Heard
<1> QED
  BY <1>3, <1>4, <1>6, TradesInConcat, TradesInAppend

\* Events that tell no trade.
Quiet(seq) == Heard(seq) /\ TradesIn(seq) = <<>>

\* Reports and top-of-book updates are such events.
LEMMA QuietPieces ==
    /\ Quiet(<<>>)
    /\ \A order, filled, avg : Quiet(Report(order, filled, avg))
    /\ \A lv, top : Quiet(Bbo(lv, top))
<1>1. Quiet(<<>>)
  <2>1. Audible({}) /\ <<>> \in Seq({})
    BY EmptySeq DEF Audible
  <2> QED
    BY <2>1, TradesInAppend DEF Quiet, Heard
<1>2. ASSUME NEW e, e.event # "trade" PROVE Quiet(<<e>>)
  <2>1. Audible({e}) /\ <<>> \in Seq({e}) /\ <<e>> \in Seq({e}) /\ <<e>> = Append(<<>>, e)
    BY <1>2, EmptySeq DEF Audible
  <2>2. TradesIn(<<e>>) = <<>>
    BY <1>2, <2>1, TradesInAppend
  <2> QED
    BY <2>1, <2>2 DEF Quiet, Heard
<1>3. ASSUME NEW order, NEW filled, NEW avg PROVE Quiet(Report(order, filled, avg))
  <2> DEFINE e == [event |-> "report", id |-> order.id, status |-> Status(order),
                   filled |-> filled, leaves |-> (order.quantity - filled) % QMod,
                   avg |-> avg, last |-> filled]
  <2>1. Report(order, filled, avg) \in {<<>>, <<e>>}
    BY DEF Report
  <2>2. e.event # "trade"
    OBVIOUS
  <2> HIDE DEF e
  <2> QED
    BY <1>1, <1>2, <2>1, <2>2
<1>4. ASSUME NEW lv, NEW top PROVE Quiet(Bbo(lv, top))
  <2> DEFINE e == [event |-> "bbo", price |-> top,
                   quantity |-> [side \in Sides |-> QuantityAt(lv, side, top[side])]]
  <2>1. Bbo(lv, top) \in {<<>>, <<e>>}
    BY DEF Bbo
  <2>2. e.event # "trade"
    OBVIOUS
  <2> HIDE DEF e
  <2> QED
    BY <1>1, <1>2, <2>1, <2>2
<1> QED
  BY <1>1, <1>3, <1>4

\* Quiet events change nothing about the trades heard.
LEMMA HeardQuiet ==
    ASSUME NEW seq, NEW more, Heard(seq), Quiet(more)
    PROVE  Heard(seq \o more) /\ TradesIn(seq \o more) = TradesIn(seq)
<1>1. /\ Heard(seq \o more)
      /\ TradesIn(seq \o more) = TradesIn(seq) \o <<>>
      /\ TradesIn(seq) \in Seq(Trade)
  BY HeardConcat DEF Quiet
<1> QED
  BY <1>1, ConcatEmptySeq

\* Telling trades adds them to the trades heard.
LEMMA HeardTrades ==
    ASSUME NEW seq, Heard(seq), NEW trades \in Seq(Trade)
    PROVE  /\ Heard(seq \o TradeEvents(trades))
           /\ TradesIn(seq \o TradeEvents(trades)) = TradesIn(seq) \o trades
           /\ TradesIn(seq) \in Seq(Trade)
<1>1. Audible(TradeEvent)
  BY DEF Audible, TradeEvent
<1>2. Heard(TradeEvents(trades)) /\ TradesIn(TradeEvents(trades)) = trades
  BY <1>1, TradesInTradeEvents DEF Heard
<1> QED
  BY <1>2, HeardConcat

\* flush_trades hands on what was pending, or keeps it.
LEMMA HeardFlush ==
    ASSUME NEW seq, Heard(seq), NEW trades \in Seq(Trade)
    PROVE  /\ Heard(seq \o Flushed(trades))
           /\ TradesIn(seq \o Flushed(trades)) \o Unflushed(trades) = TradesIn(seq) \o trades
<1>1. CASE "trade" \in callbacks
  <2>1. /\ Heard(seq \o TradeEvents(trades))
        /\ TradesIn(seq \o TradeEvents(trades)) = TradesIn(seq) \o trades
        /\ TradesIn(seq) \o trades \in Seq(Trade)
    BY HeardTrades, ConcatProperties
  <2> QED
    BY <1>1, <2>1, ConcatEmptySeq DEF Flushed, Unflushed
<1>2. CASE "trade" \notin callbacks
  BY <1>2, QuietPieces, HeardQuiet DEF Flushed, Unflushed
<1> QED
  BY <1>1, <1>2

-----------------------------------------------------------------------------
(* No trade is lost *)

\* What has become of the trades so far, and what should have.
Told == TradesIn(events) \o pending
Due  == carried \o (IF "trade" \in callbacks THEN fills ELSE <<>>)

\* NoTradeLost, with what a call starts from, nothing heard yet, and what
\* delivering a trade at once must not overtake: nothing waits in a batch.
DeliveryInv ==
    /\ Heard(events)
    /\ ~BatchCallbacks => pending = <<>>
    /\ pc = "idle" => events = <<>>
    /\ pc # "idle" => Due = Told

\* A step that hands trades on, or says nothing of them, and fills nothing.
LEMMA DeliveryKept ==
    ASSUME DeliveryInv, pc # "idle", pc' # "idle",
           UNCHANGED <<callbacks, fills, carried>>,
           Heard(events'), Told' = Told, ~BatchCallbacks => pending' = pending
    PROVE  DeliveryInv'
BY DEF DeliveryInv, Due

LEMMA DeliveryOfConclude ==
    ASSUME TypeOK, DeliveryInv, pc = "matched",
           NEW earlier, NEW avg, Quiet(earlier), Conclude(earlier, avg)
    PROVE  DeliveryInv'
<1> DEFINE report  == IF taker.filled > 0 THEN Report(taker, taker.filled, avg) ELSE <<>>
           flushed == IF BatchCallbacks THEN Flushed(pending) ELSE <<>>
           left    == IF BatchCallbacks THEN Unflushed(pending) ELSE pending
<1>1. /\ events' = ((events \o earlier) \o report) \o flushed
      /\ pending' = left /\ pc' = "returned"
      /\ UNCHANGED <<callbacks, fills, carried>>
  BY DEF Conclude, Respond
<1>0. ~BatchCallbacks => pending' = pending
  BY DEF Conclude
<1>2. Quiet(report)
  BY QuietPieces
<1> DEFINE heard == (events \o earlier) \o report
<1>3. Heard(events \o earlier) /\ TradesIn(events \o earlier) = TradesIn(events)
  BY HeardQuiet DEF DeliveryInv
<1> HIDE DEF report
<1>4. Heard(heard) /\ TradesIn(heard) = TradesIn(events)
  BY <1>2, <1>3, HeardQuiet
<1> HIDE DEF heard
<1>5. pending \in Seq(Trade)
  BY DEF TypeOK
<1>6. Heard(heard \o flushed) /\ TradesIn(heard \o flushed) \o left = TradesIn(heard) \o pending
  <2>1. CASE BatchCallbacks
    BY <1>4, <1>5, <2>1, HeardFlush
  <2>2. CASE ~BatchCallbacks
    BY <1>4, <2>2, QuietPieces, HeardQuiet
  <2> QED
    BY <2>1, <2>2
<1> HIDE DEF flushed, left
<1>7. Heard(events') /\ Told' = Told
  BY <1>1, <1>4, <1>6 DEF heard, Told
<1> QED
  BY <1>0, <1>1, <1>7, DeliveryKept

LEMMA DeliveryOfFill ==
    ASSUME TypeOK, DeliveryInv, FillResting
    PROVE  DeliveryInv'
<1> DEFINE trade == TradeOf(FillQuantity)
<1>1. /\ trade \in Trade /\ pending \in Seq(Trade) /\ fills \in Seq(Trade)
      /\ carried \in Seq(Trade)
  BY TakerFill DEF TypeOK
<1>2. /\ EmitTrade(trade) /\ fills' = Append(fills, trade)
      /\ UNCHANGED <<callbacks, carried>> /\ pc = "matching" /\ pc' = "matching"
  BY DEF FillResting, Matching
<1> HIDE DEF trade
<1>3. Heard(events) /\ Due = Told
  BY <1>2 DEF DeliveryInv
<1>4. CASE "trade" \notin callbacks
  <2>1. UNCHANGED <<pending, events>>
    BY <1>2, <1>4 DEF EmitTrade
  <2> QED
    BY <1>2, <1>3, <1>4, <2>1 DEF DeliveryInv, Due, Told
<1>5. CASE "trade" \in callbacks
  <2> DEFINE heard == TradesIn(events)
             one   == <<trade>>
  <2>1. heard \in Seq(Trade) /\ one \in Seq(Trade)
    BY <1>1, <1>3, HeardTrades
  <2>2. Append(pending, trade) = pending \o one /\ Append(fills, trade) = fills \o one
        /\ Append(pending, trade) \in Seq(Trade)
    BY <1>1, AppendIsConcat, AppendProperties
  <2>3. Due' = Due \o one
    <3> HIDE DEF one, heard
    <3>1. carried \in Seq(Trade) /\ fills \in Seq(Trade) /\ one \in Seq(Trade)
      BY <1>1, <2>1
    <3>2. (carried \o fills) \o one = carried \o (fills \o one)
      BY ONLY <3>1, Regroup, Zenon
    <3> QED
      BY <1>2, <1>5, <2>2, <3>2 DEF Due
  <2>4. (heard \o pending) \o one = heard \o Append(pending, trade)
    <3> HIDE DEF one, heard
    <3>1. heard \in Seq(Trade) /\ pending \in Seq(Trade) /\ one \in Seq(Trade)
      BY <1>1, <2>1
    <3>2. (heard \o pending) \o one = heard \o (pending \o one)
      BY ONLY <3>1, Regroup, Zenon
    <3> QED
      BY <2>2, <3>2
  <2>5. Heard(events') /\ Told' = Told \o one
    <3>1. CASE ~BatchCallbacks /\ events' = events \o TradeEvents(one) /\ pending' = pending
      <4>1. pending = <<>>
        BY <3>1 DEF DeliveryInv
      <4>2. /\ Heard(events \o TradeEvents(one))
            /\ TradesIn(events \o TradeEvents(one)) = heard \o one
        BY <1>3, <2>1, HeardTrades
      <4>3. heard \o one \in Seq(Trade)
        BY <2>1, ConcatProperties
      <4> HIDE DEF one
      <4>4. (heard \o one) \o <<>> = heard \o one /\ heard \o <<>> = heard
        BY <2>1, <4>3, ConcatEmptySeq
      <4> QED
        BY <3>1, <4>1, <4>2, <4>4 DEF Told
    <3>2. CASE events' = events /\ pending' = Append(pending, trade)
      BY <1>3, <2>4, <3>2 DEF Told
    <3>3. CASE events' = events \o TradeEvents(Append(pending, trade)) /\ pending' = <<>>
      <4> DEFINE batch == Append(pending, trade)
      <4>1. batch \in Seq(Trade)
        BY <2>2
      <4> HIDE DEF batch
      <4>2. /\ Heard(events \o TradeEvents(batch))
            /\ TradesIn(events \o TradeEvents(batch)) = heard \o batch
        BY <1>3, <4>1, HeardTrades
      <4>3. heard \o batch \in Seq(Trade)
        BY <2>1, <4>1, ConcatProperties
      <4>4. (heard \o batch) \o <<>> = heard \o batch
        BY <4>3, ConcatEmptySeq
      <4> QED
        BY <2>4, <3>3, <4>2, <4>4 DEF Told, batch
    <3> QED
      BY <1>2, <1>5, <3>1, <3>2, <3>3 DEF EmitTrade
  <2>6. ~BatchCallbacks => pending' = <<>>
    BY <1>2, <1>5 DEF EmitTrade, DeliveryInv
  <2> QED
    BY <1>2, <1>3, <2>3, <2>5, <2>6 DEF DeliveryInv
<1> QED
  BY <1>4, <1>5

LEMMA DeliveryOfStep ==
    ASSUME TypeOK, DeliveryInv, Step
    PROVE  DeliveryInv'
<1> USE DEF book
<1>1. ASSUME pc # "idle", pc' # "idle", UNCHANGED <<callbacks, fills, carried, pending, events>>
      PROVE  DeliveryInv'
  BY <1>1, DeliveryKept DEF DeliveryInv, Told
<1>2. CASE Reject
  <2> DEFINE more == IF Rejection(taker) = "WouldCross" THEN Report(taker, 0, 0) ELSE <<>>
  <2>1. /\ pc = "adding" /\ pc' = "returned" /\ events' = events \o more
        /\ UNCHANGED <<callbacks, fills, carried, pending>>
    BY <1>2 DEF Reject, Respond
  <2>2. Quiet(more)
    BY QuietPieces
  <2> HIDE DEF more
  <2>3. Heard(events') /\ TradesIn(events') = TradesIn(events)
    BY <2>1, <2>2, HeardQuiet DEF DeliveryInv
  <2> QED
    BY <2>1, <2>3, DeliveryKept DEF Told
<1>3. CASE Admit \/ StopMatching \/ RefreshBest \/ DropGhost \/ SelfTradeStop
  BY <1>1, <1>3 DEF Admit, StopMatching, RefreshBest, DropGhost, SelfTradeStop, Matching
<1>4. CASE FillResting
  BY <1>4, DeliveryOfFill
<1>5. CASE FinishIOC \/ Rest \/ Complete
  <2>1. \A avg : Quiet(IF IsFilled(taker) THEN <<>> ELSE Report(taker, taker.filled, avg))
    BY QuietPieces
  <2>2. \E earlier, avg : Quiet(earlier) /\ pc = "matched" /\ Conclude(earlier, avg)
    <3>1. CASE FinishIOC
      BY <2>1, <3>1 DEF FinishIOC
    <3>2. CASE Rest
      BY <3>2, QuietPieces DEF Rest
    <3>3. CASE Complete
      BY <3>3, QuietPieces DEF Complete
    <3> QED
      BY <1>5, <3>1, <3>2, <3>3
  <2> QED
    BY <2>2, DeliveryOfConclude
<1>6. CASE KillFOK
  BY <1>1, <1>6 DEF KillFOK, Respond
<1>7. CASE Return
  BY <1>7, QuietPieces DEF Return, DeliveryInv, Quiet
<1> QED
  BY <1>2, <1>3, <1>4, <1>5, <1>6, <1>7 DEF Step

\* A call that begins with news of the top of the book, or with none.
LEMMA DeliveryOfCall ==
    ASSUME TypeOK, DeliveryInv, fills = <<>>, Call, pc' # "idle",
           NEW more, Quiet(more), events' = events \o more,
           UNCHANGED <<callbacks, fills, pending>>
    PROVE  DeliveryInv'
<1>1. pc = "idle" /\ carried' = pending /\ pending \in Seq(Trade)
  BY DEF Call, TypeOK
<1>2. events = <<>> /\ Heard(events) /\ TradesIn(events) = <<>>
  BY <1>1, QuietPieces DEF DeliveryInv, Quiet
<1>3. Heard(events') /\ TradesIn(events') = <<>>
  BY <1>2, HeardQuiet
<1>4. pending \o <<>> = pending /\ <<>> \o pending = pending
  BY <1>1, ConcatEmptySeq
<1> QED
  BY <1>1, <1>3, <1>4 DEF DeliveryInv, Due, Told

LEMMA DeliveryOfClient ==
    ASSUME TypeOK, DeliveryInv, FillsInv, Client
    PROVE  DeliveryInv'
<1> USE DEF book
<1>0. pc = "idle" => fills = <<>>
  BY DEF FillsInv
<1>1. ASSUME Call, pc' # "idle", UNCHANGED <<callbacks, fills, pending, events>>
      PROVE  DeliveryInv'
  <2>1. events = <<>> /\ events' = events \o <<>>
    BY <1>1 DEF DeliveryInv, Call
  <2> QED
    BY <1>0, <1>1, <2>1, QuietPieces, DeliveryOfCall DEF Call
<1>2. ASSUME Call, pc' # "idle", UNCHANGED <<callbacks, fills, pending>>,
             NEW lv, NEW top, events' = events \o Bbo(lv, top)
      PROVE  DeliveryInv'
  <2>1. Quiet(Bbo(lv, top))
    BY QuietPieces
  <2> QED
    BY <1>0, <1>2, <2>1, DeliveryOfCall DEF Call
<1>3. ASSUME NEW id \in OrderIds, NEW side \in Sides, NEW price \in Prices,
             NEW quantity \in Amounts, NEW kind \in OrderKinds,
             AddOrder(id, side, price, quantity, kind)
      PROVE  DeliveryInv'
  BY <1>1, <1>3 DEF AddOrder
<1>4. ASSUME NEW id \in OrderIds, OrderNotFound(id) \/ ReplaceNotFound(id)
      PROVE  DeliveryInv'
  BY <1>1, <1>4 DEF OrderNotFound, ReplaceNotFound, RespondBare, Respond
<1>5. ASSUME NEW id \in OrderIds, Cancel(id)
      PROVE  DeliveryInv'
  BY <1>2, <1>5 DEF Cancel, Withdraw, Respond
<1>6. ASSUME NEW id \in OrderIds, NEW price \in Prices, NEW quantity \in Amounts,
             Move(id, price, quantity)
      PROVE  DeliveryInv'
  BY <1>2, <1>6 DEF Move, Withdraw
<1>7. ASSUME NEW id \in OrderIds, NEW quantity \in Amounts, Amend(id, quantity)
      PROVE  DeliveryInv'
  BY <1>2, <1>7 DEF Amend, RespondBare, Respond
<1>8. CASE FlushPending
  <2>1. /\ pc = "idle" /\ pc' = "returned" /\ carried' = pending /\ pending \in Seq(Trade)
        /\ events' = events \o Flushed(pending) /\ pending' = Unflushed(pending)
        /\ UNCHANGED <<callbacks, fills>> /\ pending # <<>>
    BY <1>8 DEF FlushPending, Call, TypeOK
  <2>2. events = <<>> /\ Heard(events) /\ TradesIn(events) = <<>>
    BY <2>1, QuietPieces DEF DeliveryInv, Quiet
  <2>3. Heard(events') /\ TradesIn(events') \o pending' = <<>> \o pending
    BY <2>1, <2>2, HeardFlush
  <2>4. pending \o <<>> = pending /\ <<>> \o pending = pending
    BY <2>1, ConcatEmptySeq
  <2>5. BatchCallbacks
    BY <2>1 DEF DeliveryInv
  <2> QED
    BY <1>0, <2>1, <2>3, <2>4, <2>5 DEF DeliveryInv, Due, Told
<1>9. ASSUME NEW installed \in CallbackSets, SetCallbacks(installed)
      PROVE  DeliveryInv'
  BY <1>9 DEF SetCallbacks, DeliveryInv
<1> QED
  BY <1>3, <1>4, <1>5, <1>6, <1>7, <1>8, <1>9 DEF Client

LEMMA DeliveryInductive == TypeOK /\ FillsInv /\ DeliveryInv /\ [Next]_vars => DeliveryInv'
<1> SUFFICES ASSUME TypeOK, FillsInv, DeliveryInv, [Next]_vars PROVE DeliveryInv'
  OBVIOUS
<1>1. CASE UNCHANGED vars
  BY <1>1 DEF vars, DeliveryInv, Due, Told
<1> QED
  BY <1>1, DeliveryOfStep, DeliveryOfClient DEF Next

LEMMA DeliveryInvAlways == Spec => []DeliveryInv
<1>1. Init => DeliveryInv
  BY QuietPieces DEF Init, DeliveryInv, Quiet
<1> QED
  BY <1>1, DeliveryInductive, FillsInvAlways, TypeCorrect, PTL DEF Spec

\* At every step of every call, for any number of fills and any size of batch,
\* what the trade callback heard and what is still pending are the trades that
\* were pending when the call began, then those the call made: none is lost,
\* told twice or told out of order.
THEOREM NoTradeLostAlways == Spec => []NoTradeLost
<1>1. DeliveryInv => NoTradeLost
  BY DEF DeliveryInv, NoTradeLost, Due, Told
<1> QED
  BY <1>1, DeliveryInvAlways, PTL

-----------------------------------------------------------------------------
(* The prices of a side in order *)

Increasing(f) == \A i, j \in DOMAIN f : i < j => f[i] < f[j]

\* Integers that have extremes are finitely many.
LEMMA PricesAreFinite == \A set \in SUBSET Prices : IsFiniteSet(set)
<1> SUFFICES ASSUME NEW set \in SUBSET Prices PROVE IsFiniteSet(set)
  OBVIOUS
<1>1. CASE set = {}
  BY <1>1, FS_EmptySet
<1>2. CASE set # {}
  <2>1. PICK top \in set : \A price \in set : price <= top
    BY <1>2, PricesHaveExtremes
  <2>2. PICK bottom \in set : \A price \in set : bottom <= price
    BY <1>2, PricesHaveExtremes
  <2>3. top \in Int /\ bottom \in Int /\ set \in SUBSET (bottom .. top)
    BY <2>1, <2>2, ConstantTypes
  <2>4. IsFiniteSet(bottom .. top)
    BY <2>3, FS_Interval
  <2> QED
    BY <2>3, <2>4, FS_Subset
<1> QED
  BY <1>1, <1>2

\* Finitely many prices can be put in order.
LEMMA OrderExists ==
    ASSUME NEW n \in Nat
    PROVE  \A set \in SUBSET Prices : Cardinality(set) = n =>
              \E f \in [1 .. n -> set] : Increasing(f)
<1> DEFINE Sortable(k) == \A set \in SUBSET Prices : Cardinality(set) = k =>
                             \E f \in [1 .. k -> set] : Increasing(f)
           S == {k \in 0 .. n : Sortable(k)}
<1>1. 0 \in S
  <2> SUFFICES ASSUME NEW set \in SUBSET Prices
               PROVE  \E f \in [1 .. 0 -> set] : Increasing(f)
    OBVIOUS
  <2> DEFINE f == [i \in 1 .. 0 |-> 0]
  <2>1. f \in [1 .. 0 -> set] /\ Increasing(f)
    BY DEF Increasing
  <2> QED
    BY <2>1
<1>2. ASSUME NEW k \in 0 .. n - 1, k \in S PROVE k + 1 \in S
  <2> SUFFICES ASSUME NEW set \in SUBSET Prices, Cardinality(set) = k + 1
               PROVE  \E f \in [1 .. k + 1 -> set] : Increasing(f)
    OBVIOUS
  <2>1. k \in Nat /\ IsFiniteSet(set) /\ set # {}
    BY PricesAreFinite, FS_EmptySet
  <2>2. PICK top \in set : \A price \in set : price <= top
    BY <2>1, PricesHaveExtremes
  <2> DEFINE rest == set \ {top}
  <2>3. rest \in SUBSET Prices /\ Cardinality(rest) = k
    <3>1. Cardinality(rest) = Cardinality(set) - 1
      BY <2>1, <2>2, FS_RemoveElement, Zenon
    <3> QED
      BY <2>1, <3>1
  <2>4. PICK f \in [1 .. k -> rest] : Increasing(f)
    BY <1>2, <2>3
  <2> DEFINE g == [i \in 1 .. k + 1 |-> IF i = k + 1 THEN top ELSE f[i]]
  <2>5. \A i \in 1 .. k + 1 : i = k + 1 \/ i \in 1 .. k
    BY <2>1
  <2>6. g \in [1 .. k + 1 -> set]
    BY <2>5
  <2>7. ASSUME NEW i \in 1 .. k + 1, NEW j \in 1 .. k + 1, i < j
        PROVE  g[i] < g[j]
    <3>1. i \in 1 .. k /\ g[i] = f[i] /\ f[i] \in rest
      BY <2>1, <2>7
    <3>2. CASE j = k + 1
      <4>1. g[j] = top
        BY <3>2
      <4>2. f[i] \in Int /\ top \in Int /\ f[i] <= top /\ f[i] # top
        BY <2>2, <3>1, ConstantTypes
      <4> QED
        BY <3>1, <4>1, <4>2
    <3>3. CASE j # k + 1
      <4>1. j \in 1 .. k /\ g[j] = f[j]
        BY <2>5, <3>3
      <4> QED
        BY <2>4, <2>7, <3>1, <4>1 DEF Increasing
    <3> QED
      BY <3>2, <3>3
  <2> HIDE DEF g
  <2>8. Increasing(g)
    BY <2>6, <2>7 DEF Increasing
  <2> QED
    BY <2>6, <2>8
<1> HIDE DEF S
<1>3. \A i \in 0 .. n : i \in S
  BY <1>1, <1>2, InductionUpTo
<1>4. n \in S
  BY <1>3
<1> QED
  BY <1>4 DEF S

Distinct(prices) == \A i, j \in 1 .. Len(prices) : prices[i] = prices[j] => i = j

LEMMA AscendingIs ==
    ASSUME NEW set \in SUBSET Prices
    PROVE  Ascending(set) \in Seq(Prices) /\ Distinct(Ascending(set))
<1> DEFINE n == Cardinality(set)
           seq == Ascending(set)
<1>1. n \in Nat
  BY PricesAreFinite, FS_CardinalityType
<1>2. \E f \in [1 .. n -> set] : Increasing(f)
  BY <1>1, OrderExists
<1>3. seq \in [1 .. n -> set] /\ \A i, j \in DOMAIN seq : i < j => seq[i] < seq[j]
  BY <1>2 DEF Ascending, Increasing
<1> HIDE DEF n, seq
<1>4. seq \in Seq(set) /\ Len(seq) = n
  BY <1>1, <1>3, FunctionIsSeq
<1>5. seq \in Seq(Prices)
  <2>1. seq \in [1 .. n -> Prices]
    BY <1>3
  <2> QED
    BY <1>1, <2>1, FunctionIsSeq
<1>6. ASSUME NEW i \in 1 .. n, NEW j \in 1 .. n, seq[i] = seq[j] PROVE i = j
  <2>1. DOMAIN seq = 1 .. n /\ seq[i] \in Int /\ seq[j] \in Int
    BY <1>3, ConstantTypes
  <2>2. ~(i < j) /\ ~(j < i)
    BY <1>3, <1>6, <2>1
  <2> QED
    BY <1>1, <2>2
<1> QED
  BY <1>4, <1>5, <1>6 DEF Distinct, seq

-----------------------------------------------------------------------------
(* What a fill-or-kill order counts on *)

\* Does a level at this price count for the order?
Accepts(order, price) == order.type = "Market" \/ WouldCross(order, price)

\* What each of the prices has for the order.
Offers(order, lv, prices) ==
    [i \in 1 .. Len(prices) |-> IF Accepts(order, prices[i])
                                THEN Depth(lv[Opposite(order.side)][prices[i]]) ELSE 0]

\* Some levels the order accepts have n units together.
Covered(order, lv, n) ==
    \E prices \in Seq(Prices) : Distinct(prices) /\ n <= SumOf(Offers(order, lv, prices))

LEMMA OffersAre ==
    ASSUME NEW order, order.side \in Sides, NEW lv \in Levels, NEW prices \in Seq(Prices)
    PROVE  /\ Offers(order, lv, prices) \in Seq(Nat)
           /\ Len(Offers(order, lv, prices)) = Len(prices) /\ Len(prices) \in Nat
           /\ \A i \in 1 .. Len(prices) :
                 /\ prices[i] \in Prices
                 /\ Offers(order, lv, prices)[i] =
                       IF Accepts(order, prices[i])
                       THEN Depth(lv[Opposite(order.side)][prices[i]]) ELSE 0
<1> DEFINE side == Opposite(order.side)
           f == Offers(order, lv, prices)
<1>1. Len(prices) \in Nat /\ \A i \in 1 .. Len(prices) : prices[i] \in Prices
  BY LenProperties, ElementOfSeq
<1>2. side \in Sides
  BY DEF Opposite, Sides
<1>3. \A price \in Prices : Depth(lv[side][price]) \in Nat
  <2> TAKE price \in Prices
  <2>1. lv[side][price] \in Seq(Node(OrderIds))
    BY <1>2 DEF Levels
  <2> QED
    BY <2>1, TotalWithin
<1>4. f \in [1 .. Len(prices) -> Nat]
  BY <1>1, <1>3 DEF Offers
<1> QED
  BY <1>1, <1>4, FunctionIsSeq DEF Offers

\* What the check of add_order adds for one more level.
CountFor(order) ==
    [pair \in Quantity \X Prices |->
        IF pair[1] >= order.quantity THEN pair[1]
        ELSE IF Accepts(order, pair[2])
             THEN (pair[1] + TotalQuantity(levels[Opposite(order.side)][pair[2]])) % QMod
             ELSE pair[1]]

LEMMA CountForIs ==
    ASSUME levels \in Levels, NEW order, order.side \in Sides
    PROVE  /\ CountFor(order) \in [Quantity \X Prices -> Quantity]
           /\ 0 \in Quantity
           /\ \A sum \in Quantity, price \in Prices :
                 CountFor(order)[<<sum, price>>] =
                    IF sum >= order.quantity THEN sum
                    ELSE IF order.type = "Market" \/ WouldCross(order, price)
                         THEN (sum + TotalQuantity(levels[Opposite(order.side)][price])) % QMod
                         ELSE sum
<1> DEFINE Total(price) == TotalQuantity(levels[Opposite(order.side)][price])
<1>1. \A price \in Prices : Total(price) \in Quantity
  <2> TAKE price \in Prices
  <2>1. levels[Opposite(order.side)][price] \in Seq(Node(OrderIds))
    BY DEF Levels, Opposite, Sides
  <2> QED
    BY <2>1, TotalWithin
<1> HIDE DEF Total
<1>2. \A sum \in Quantity, price \in Prices : (sum + Total(price)) % QMod \in Quantity
  <2> TAKE sum \in Quantity, price \in Prices
  <2>1. sum + Total(price) \in Int
    BY <1>1 DEF Quantity
  <2> QED
    BY <2>1, ModIsQuantity
<1>3. 0 \in Quantity
  BY QModAssumption DEF Quantity
<1> QED
  BY <1>2, <1>3 DEF CountFor, Accepts, Total

\* Available folds the occupied prices.
LEMMA AvailableFolds ==
    ASSUME levels \in Levels, NEW order, order.side \in Sides,
           NEW prices \in Seq(Prices),
           prices = Ascending(Occupied(levels, Opposite(order.side)))
    PROVE  FoldsTo(Available(order), CountFor(order), Quantity, 0, prices)
<1> DEFINE Count(sum, price) ==
              IF sum >= order.quantity THEN sum
              ELSE IF order.type = "Market" \/ WouldCross(order, price)
                   THEN (sum + TotalQuantity(levels[Opposite(order.side)][price])) % QMod
                   ELSE sum
           Sum(f) == [s \in SUBSET DOMAIN prices |->
                        IF s = {} THEN 0
                        ELSE Count(f[s \ {Max(s)}], prices[Max(s)])]
           h == CHOOSE f : f = Sum(f)
<1>1. Len(prices) \in Nat /\ DOMAIN prices = 1 .. Len(prices)
  BY LenProperties
<1>2. PICK g \in [SUBSET DOMAIN prices -> Quantity] :
           FoldsWith(g, CountFor(order), Quantity, 0, prices)
  BY CountForIs, FoldExists
<1>3. ASSUME NEW s \in (SUBSET DOMAIN prices) \ {{}}
      PROVE  s \ {Max(s)} \in SUBSET DOMAIN prices /\ prices[Max(s)] \in Prices
  <2>1. Max(s) \in s
    BY <1>1, MaxOfPositions
  <2> QED
    BY <1>1, <2>1, ElementOfSeq
<1>4. ASSUME NEW sum \in Quantity, NEW price \in Prices
      PROVE  CountFor(order)[<<sum, price>>] = Count(sum, price)
  BY CountForIs
<1>5. Available(order) = h[DOMAIN prices]
  BY DEF Available, FoldLeft, MapThenFoldSet
<1> HIDE DEF Count
<1>6. g = Sum(g)
  <2>1. ASSUME NEW s \in SUBSET DOMAIN prices
        PROVE  g[s] = IF s = {} THEN 0 ELSE Count(g[s \ {Max(s)}], prices[Max(s)])
    <3>1. CASE s = {}
      BY <1>2, <3>1 DEF FoldsWith
    <3>2. CASE s # {}
      <4>1. g[s \ {Max(s)}] \in Quantity
        BY <1>2, <1>3, <3>2
      <4>2. g[s] = CountFor(order)[<<g[s \ {Max(s)}], prices[Max(s)]>>]
        BY <1>2, <3>2, <4>1 DEF FoldsWith
      <4> QED
        BY <1>3, <1>4, <3>2, <4>1, <4>2
    <3> QED
      BY <3>1, <3>2
  <2> QED
    BY <2>1
<1>7. h = Sum(h)
  <2> HIDE DEF Sum
  <2> QED
    BY <1>6
<1> HIDE DEF h
<1>8. FoldsWith(h, CountFor(order), Quantity, 0, prices)
  <2>1. h[{}] = 0
    BY <1>7
  <2>2. ASSUME NEW s \in (SUBSET DOMAIN prices) \ {{}}, h[s \ {Max(s)}] \in Quantity
        PROVE  h[s] = CountFor(order)[<<h[s \ {Max(s)}], prices[Max(s)]>>]
    <3>1. h[s] = Count(h[s \ {Max(s)}], prices[Max(s)])
      BY <1>7
    <3> QED
      BY <1>3, <1>4, <2>2, <3>1
  <2> QED
    BY <2>1, <2>2 DEF FoldsWith
<1> QED
  BY <1>5, <1>8 DEF FoldsTo

\* What the check counts is there: wrapping and stopping early only lose.
LEMMA AvailableIsThere ==
    ASSUME levels \in Levels, NEW order, order.side \in Sides
    PROVE  /\ Available(order) \in Nat
           /\ \A n \in Nat : n <= Available(order) => Covered(order, levels, n)
<1> DEFINE prices == Ascending(Occupied(levels, Opposite(order.side)))
           offers == Offers(order, levels, prices)
           n == Len(prices)
           F == CountFor(order)
<1>1. prices \in Seq(Prices) /\ Distinct(prices)
  BY AscendingIs DEF Occupied
<1>2. FoldsTo(Available(order), F, Quantity, 0, prices)
  BY <1>1, AvailableFolds
<1> HIDE DEF prices, F
<1>3. /\ n \in Nat /\ DOMAIN prices = 1 .. n
      /\ offers \in Seq(Nat) /\ Len(offers) = n
      /\ \A i \in 1 .. n :
            /\ prices[i] \in Prices
            /\ offers[i] = IF Accepts(order, prices[i])
                           THEN Depth(levels[Opposite(order.side)][prices[i]]) ELSE 0
  BY <1>1, OffersAre, LenProperties
<1> HIDE DEF offers, n
<1>4. PICK p : Sums(p, offers) /\ p[n] = SumOf(offers)
  BY <1>3, SumsExist
<1>5. PICK h : FoldsWith(h, F, Quantity, 0, prices) /\ Available(order) = h[1 .. n]
  BY <1>2, <1>3 DEF FoldsTo
<1>6. /\ h[1 .. 0] = 0
      /\ \A i \in 0 .. n : h[1 .. i] \in Quantity
      /\ \A i \in 1 .. n : h[1 .. i] = F[<<h[1 .. i - 1], prices[i]>>]
  <2>1. RunsAs(h, F, Quantity, 0, prices)
    BY <1>1, <1>5, CountForIs, FoldRuns DEF F
  <2> QED
    BY <2>1 DEF RunsAs, n
<1> DEFINE S == {i \in 0 .. n : h[1 .. i] <= p[i]}
<1>7. 0 \in S
  BY <1>3, <1>4, <1>6 DEF Sums
<1>8. ASSUME NEW i \in 0 .. n - 1, i \in S PROVE i + 1 \in S
  <2> DEFINE j == i + 1
             a == h[1 .. i]
             queue == levels[Opposite(order.side)][prices[j]]
             b == TotalQuantity(queue)
  <2>1. j \in 1 .. n /\ j \in 0 .. n /\ j - 1 = i /\ i \in 0 .. n
    BY <1>3
  <2>2. h[1 .. j] = F[<<a, prices[j]>>] /\ a \in Quantity /\ prices[j] \in Prices
    BY <1>3, <1>6, <2>1
  <2>3. queue \in Seq(Node(OrderIds))
    BY <2>2 DEF Levels, Opposite, Sides
  <2>4. b \in Quantity /\ b <= Depth(queue) /\ Depth(queue) \in Nat
    BY <2>3, TotalWithin
  <2>5. h[1 .. j] = a \/ (Accepts(order, prices[j]) /\ h[1 .. j] = (a + b) % QMod)
    BY <2>2, CountForIs DEF F, Accepts
  <2>6. p[j] = p[i] + offers[j] /\ p[i] \in Nat /\ offers[j] \in Nat
    BY <1>3, <1>4, <2>1, ElementOfSeq DEF Sums
  <2>7. a <= p[i]
    BY <1>8
  <2>8. Accepts(order, prices[j]) => offers[j] = Depth(queue)
    BY <1>3, <2>1
  <2> HIDE DEF j, a, b, queue
  <2>9. (a + b) % QMod <= a + b
    BY <2>2, <2>4, QModAssumption DEF Quantity
  <2>10. h[1 .. j] <= p[j]
    <3> USE QModAssumption DEF Quantity
    <3>1. CASE h[1 .. j] = a
      BY <2>2, <2>6, <2>7, <3>1
    <3>2. CASE Accepts(order, prices[j]) /\ h[1 .. j] = (a + b) % QMod
      <4>1. (a + b) % QMod \in Int
        BY <2>2, <2>4
      <4> QED
        BY <2>2, <2>4, <2>6, <2>7, <2>8, <2>9, <3>2, <4>1
    <3> QED
      BY <2>5, <3>1, <3>2
  <2>11. j \in S
    BY <2>1, <2>10
  <2> QED
    BY <2>11 DEF j
<1> HIDE DEF S
<1>9. \A i \in 0 .. n : i \in S
  BY <1>3, <1>7, <1>8, InductionUpTo
<1>10. n \in S
  BY <1>3, <1>9
<1>11. Available(order) <= SumOf(offers)
  BY <1>4, <1>5, <1>10 DEF S
<1>12. SumOf(offers) \in Nat /\ Available(order) \in Nat
  <2>1. n \in 0 .. n
    BY <1>3
  <2>2. p \in [0 .. n -> Nat]
    BY <1>3, <1>4 DEF Sums
  <2>3. p[n] \in Nat
    BY <2>1, <2>2
  <2>4. h[1 .. n] \in Quantity
    BY <1>6, <2>1
  <2>5. Quantity \subseteq Nat
    BY QModAssumption DEF Quantity
  <2> QED
    BY <1>4, <1>5, <2>3, <2>4, <2>5
<1>13. ASSUME NEW k \in Nat, k <= Available(order) PROVE k <= SumOf(offers)
  BY <1>11, <1>12, <1>13
<1> QED
  BY <1>1, <1>12, <1>13 DEF Covered, offers

-----------------------------------------------------------------------------
(* Fill-or-kill orders are filled or refused *)

\* When nothing the order accepts is left, it has nothing to count on.
LEMMA NothingLeft ==
    ASSUME levels \in Levels, NEW order, order.side \in Sides, NEW n \in Nat,
           \A price \in Prices : Accepts(order, price) =>
              levels[Opposite(order.side)][price] = <<>>,
           Covered(order, levels, n)
    PROVE  n = 0
<1>1. PICK prices \in Seq(Prices) : n <= SumOf(Offers(order, levels, prices))
  BY DEF Covered
<1>2. /\ Offers(order, levels, prices) \in Seq(Nat)
      /\ \A i \in 1 .. Len(Offers(order, levels, prices)) : Offers(order, levels, prices)[i] = 0
  BY OffersAre, DepthOfNone
<1>3. SumOf(Offers(order, levels, prices)) = 0
  BY <1>2, SumOfNone
<1> QED
  BY <1>1, <1>3

\* A level that loses n units takes no more from the order that gets them.
LEMMA CoveredAfterFill ==
    ASSUME levels \in Levels, NEW lv \in Levels, NEW order, order.side \in Sides,
           NEW new, new.side = order.side,
           \A price \in Prices : Accepts(new, price) <=> Accepts(order, price),
           NEW n \in Nat, NEW left \in Nat, NEW hit \in Prices,
           \A price \in Prices : price # hit =>
              lv[Opposite(order.side)][price] = levels[Opposite(order.side)][price],
           Depth(levels[Opposite(order.side)][hit]) <= Depth(lv[Opposite(order.side)][hit]) + n,
           Covered(order, levels, left + n)
    PROVE  Covered(new, lv, left)
<1> DEFINE side == Opposite(order.side)
<1>1. PICK prices \in Seq(Prices) :
         Distinct(prices) /\ left + n <= SumOf(Offers(order, levels, prices))
  BY DEF Covered
<1> DEFINE s == Offers(order, levels, prices)
           t == Offers(new, lv, prices)
<1>2. /\ s \in Seq(Nat) /\ Len(s) = Len(prices) /\ Len(prices) \in Nat
      /\ \A i \in 1 .. Len(prices) :
            /\ prices[i] \in Prices
            /\ s[i] = IF Accepts(order, prices[i]) THEN Depth(levels[side][prices[i]]) ELSE 0
  BY OffersAre
<1>3. /\ t \in Seq(Nat) /\ Len(t) = Len(prices)
      /\ \A i \in 1 .. Len(prices) :
            t[i] = IF Accepts(new, prices[i]) THEN Depth(lv[side][prices[i]]) ELSE 0
  BY OffersAre
<1> HIDE DEF s, t
<1>4. ASSUME NEW i \in 1 .. Len(prices)
      PROVE  s[i] <= t[i] + n /\ (prices[i] # hit => s[i] <= t[i])
  <2>1. s[i] \in Nat /\ t[i] \in Nat /\ prices[i] \in Prices
    BY <1>2, <1>3, ElementOfSeq
  <2>2. CASE prices[i] # hit
    <3>1. s[i] = t[i]
      BY <1>2, <1>3, <2>1, <2>2
    <3> QED
      BY <2>1, <3>1
  <2>3. CASE prices[i] = hit
    <3>1. CASE Accepts(order, hit)
      <4>1. s[i] = Depth(levels[side][hit]) /\ t[i] = Depth(lv[side][hit])
        BY <1>2, <1>3, <2>3, <3>1
      <4> QED
        BY <2>3, <4>1
    <3>2. CASE ~Accepts(order, hit)
      <4>1. s[i] = 0
        BY <1>2, <2>3, <3>2
      <4> QED
        BY <2>1, <2>3, <4>1
    <3> QED
      BY <3>1, <3>2
  <2> QED
    BY <2>2, <2>3
<1>5. \E k : \A i \in 1 .. Len(prices) : i # k => prices[i] # hit
  BY <1>1 DEF Distinct
<1>6. LessBy(t, s, n)
  BY <1>2, <1>3, <1>4, <1>5 DEF LessBy
<1>7. SumOf(s) <= SumOf(t) + n
  BY <1>2, <1>3, <1>6, SumLessBy
<1>8. SumOf(s) \in Nat /\ SumOf(t) \in Nat
  BY <1>2, <1>3, SumsExist DEF Sums
<1>9. left <= SumOf(t)
  BY <1>1, <1>7, <1>8 DEF s
<1> QED
  BY <1>1, <1>9 DEF Covered, t

Orderly == NormalPrices /\ ~UnguardedAmends

\* FillOrKillAtomic before the end of the matching: what such an order still
\* has to fill is there at prices it accepts.
KillInv ==
    Orderly =>
        /\ pc = "matching" /\ IsFOK(taker) /\ ~IsFilled(taker) =>
              Covered(taker, levels, Remaining(taker))
        /\ pc = "matched" /\ IsFOK(taker) => IsFilled(taker) \/ HeldUp

\* Where the loop would not go on, nothing the order accepts is left.
LEMMA NothingAccepted ==
    ASSUME Inv, NormalPrices, pc \in {"adding", "matching", "matched"}, ~CanMatch
    PROVE  \A price \in Prices : Accepts(taker, price) =>
              levels[Opposite(taker.side)][price] = <<>>
<1> SUFFICES ASSUME NEW price \in Prices, Accepts(taker, price),
                    price \in Occupied(levels, Maker)
             PROVE  FALSE
  BY DEF Occupied, Maker
<1>1. /\ taker \in Order /\ taker.side \in Sides /\ price \in Int
      /\ 0 < price /\ price < InvalidPrice
      /\ taker.type # "Market" => taker.price \in Int
      /\ best \in [Sides -> Prices \cup {InvalidPrice}]
  BY ConstantTypes DEF Inv, TypeOK, Order, NormalPrices
<1>2. Top \in Prices /\ Top \in Int
  <2>1. CASE taker.side = "Buy"
    <3>1. Maker = "Sell" /\ Top = best["Sell"] /\ best["Sell"] <= price
      BY <2>1 DEF Inv, BestNeverBehind, Top, Maker, Opposite
    <3>2. Top \in Prices \cup {InvalidPrice} /\ Top \in Int
      BY <1>1, <3>1, ConstantTypes DEF Sides
    <3> QED
      BY <1>1, <3>1, <3>2, ConstantTypes
  <2>2. CASE taker.side = "Sell"
    <3>1. Maker = "Buy" /\ Top = best["Buy"] /\ best["Buy"] # InvalidPrice
      BY <2>2 DEF Inv, BestNeverBehind, Top, Maker, Opposite
    <3> QED
      BY <1>1, <3>1, ConstantTypes DEF Sides
  <2> QED
    BY <1>1, <2>1, <2>2 DEF Sides
<1>3. Top \notin {InvalidPrice, 0}
  BY <1>2, ConstantTypes DEF NormalPrices
<1>4. taker.type # "Market" /\ ~WouldCross(taker, Top) /\ WouldCross(taker, price)
  BY <1>3 DEF CanMatch, Accepts
<1>5. CASE taker.side = "Buy"
  <2>1. Top <= price
    BY <1>5 DEF Inv, BestNeverBehind, Top, Maker, Opposite
  <2> QED
    BY <1>1, <1>2, <1>4, <1>5, <2>1 DEF WouldCross
<1>6. CASE taker.side = "Sell"
  <2>1. price <= Top
    BY <1>6 DEF Inv, BestNeverBehind, Top, Maker, Opposite
  <2> QED
    BY <1>1, <1>2, <1>4, <1>6, <2>1 DEF WouldCross
<1> QED
  BY <1>1, <1>5, <1>6 DEF Sides

LEMMA KillOfFill ==
    ASSUME TypeOK, RecordsInv, KillInv, Orderly, FillResting, IsFOK(taker'), ~IsFilled(taker)'
    PROVE  Covered(taker, levels, Remaining(taker))'
<1> DEFINE n    == FillQuantity
           left == Remaining(taker) - n
           side == Opposite(taker.side)
<1>1. /\ Matching /\ Queue # <<>> /\ TableAgrees(orders, levels)
      /\ taker' = Fill(taker, n) /\ ReplaceQueue(FillFront(Queue, n))
  BY DEF FillResting, RecordsInv, Orderly
<1>2. /\ taker \in Order /\ taker.side \in Sides /\ Maker = side /\ side \in Sides
      /\ Top \in Prices /\ Queue \in Seq(Node(OrderIds)) /\ levels \in Levels
      /\ levels' \in Levels
  <2>1. FillFront(Queue, n) \in Seq(Node(OrderIds))
    BY <1>1, TypeOfMatch, FillQuantityWithin, FillFrontType
  <2> QED
    BY <1>1, <2>1, TypeOfMatch, TypeOfReplaceQueue DEF TypeOK, Levels, Maker
<1>3. /\ n \in Quantity /\ n > 0 /\ n <= Remaining(taker) /\ taker.filled < taker.quantity
      /\ n <= Head(Queue).quantity
  BY <1>1, FillQuantityWithin, FrontOf
<1>4. Covered(taker, levels, Remaining(taker))
  <2>1. taker'.type = taker.type /\ taker'.tif = taker.tif
    BY <1>1, <1>2, <1>3, FillOf
  <2>2. IsFOK(taker) /\ pc = "matching" /\ ~IsFilled(taker)
    BY <1>1, <2>1 DEF IsFOK, Matching
  <2> QED
    BY <2>2 DEF KillInv
<1>5. /\ Remaining(taker) \in Nat /\ n \in Nat /\ left \in Nat /\ left + n = Remaining(taker)
  <2>1. Remaining(taker) \in Quantity
    BY <1>2, <1>3, RemainingOf
  <2> QED
    BY <1>3, <2>1, QModAssumption DEF Quantity
<1>6. Remaining(taker') = left
  <2>1. IsFilled(taker') <=> n = Remaining(taker)
    BY <1>1, <1>2, <1>3, FillOf
  <2>2. n < Remaining(taker)
    BY <1>3, <1>5, <2>1
  <2> QED
    BY <1>1, <1>2, <1>3, <2>2, FillOf
<1>7. /\ \A price \in Prices : price # Top => levels'[side][price] = levels[side][price]
      /\ levels'[side][Top] = FillFront(Queue, n) /\ Queue = levels[side][Top]
  BY <1>1, <1>2 DEF ReplaceQueue, Queue, Levels
<1>8. Depth(levels[side][Top]) <= Depth(levels'[side][Top]) + n
  BY <1>1, <1>2, <1>3, <1>7, DepthOfFill
<1>9. /\ taker'.side = taker.side
      /\ \A price \in Prices : Accepts(taker', price) <=> Accepts(taker, price)
  <2>1. /\ taker'.type = taker.type /\ taker'.side = taker.side
        /\ taker'.price = taker.price
    BY <1>1, <1>2, <1>3, FillOf
  <2> QED
    BY <2>1 DEF Accepts, WouldCross
<1> DEFINE new == taker'
           lv  == levels'
<1>10. /\ lv \in Levels /\ new.side = taker.side
       /\ \A price \in Prices : Accepts(new, price) <=> Accepts(taker, price)
       /\ \A price \in Prices : price # Top => lv[side][price] = levels[side][price]
       /\ Depth(levels[side][Top]) <= Depth(lv[side][Top]) + n
  BY <1>2, <1>7, <1>8, <1>9
<1>11. Covered(taker, levels, left + n)
  BY <1>4, <1>5
<1> HIDE DEF n, left, new, lv
<1>12. Covered(new, lv, left)
  BY <1>2, <1>5, <1>10, <1>11, CoveredAfterFill
<1> QED
  BY <1>6, <1>12 DEF new, lv

\* Outside the matching KillInv asks nothing.
LEMMA KillElsewhere ==
    ASSUME pc' \notin {"matching", "matched"}
    PROVE  KillInv'
BY DEF KillInv

LEMMA KillInductive == Inv /\ RecordsInv /\ FillsInv /\ KillInv /\ [Next]_vars => KillInv'
<1> SUFFICES ASSUME Inv, RecordsInv, FillsInv, KillInv, [Next]_vars, Orderly
             PROVE  KillInv'
  BY DEF KillInv, Orderly
<1> USE DEF book
<1>0. TypeOK /\ TableAgrees(orders, levels) /\ levels \in Levels /\ taker \in Order
  BY DEF Inv, RecordsInv, TypeOK, Levels, Orderly
<1>1. CASE Reject \/ FinishIOC \/ KillFOK \/ Rest \/ Complete \/ Return
  <2>1. pc' \in {"returned", "idle"}
    BY <1>1 DEF Reject, FinishIOC, KillFOK, Rest, Complete, Return, Conclude, Respond
  <2> QED
    BY <2>1, KillElsewhere
<1>2. CASE Admit
  <2>1. /\ pc = "adding" /\ pc' = "matching" /\ UNCHANGED <<levels, taker>>
        /\ Rejection(taker) = "None"
    BY <1>2 DEF Admit
  <2>2. taker.filled = 0 /\ taker.quantity \in Quantity
    BY <1>0, <2>1, FilledNothing DEF FillsInv, Order
  <2>3. Remaining(taker) = taker.quantity
    BY <2>2, QModAssumption DEF Remaining, Quantity
  <2>4. ASSUME IsFOK(taker) PROVE Covered(taker, levels, taker.quantity)
    <3>1. ~(Available(taker) < taker.quantity)
      BY <2>1, <2>4 DEF Rejection
    <3>2. /\ Available(taker) \in Nat
          /\ \A n \in Nat : n <= Available(taker) => Covered(taker, levels, n)
      <4>1. taker.side \in Sides
        BY <1>0 DEF Order
      <4> QED
        BY <1>0, <4>1, AvailableIsThere
    <3>3. taker.quantity <= Available(taker)
      BY <2>2, <3>1, <3>2, QModAssumption DEF Quantity
    <3> QED
      BY <2>2, <3>2, <3>3, QModAssumption DEF Quantity
  <2> QED
    BY <2>1, <2>3, <2>4 DEF KillInv
<1>3. CASE StopMatching
  <2>1. /\ pc = "matching" /\ pc' = "matched" /\ UNCHANGED taker
        /\ IsFilled(taker) \/ ~CanMatch
    BY <1>3 DEF StopMatching
  <2>2. ASSUME IsFOK(taker), ~IsFilled(taker) PROVE FALSE
    <3>1. Covered(taker, levels, Remaining(taker))
      BY <2>1, <2>2 DEF KillInv
    <3>2. \A price \in Prices : Accepts(taker, price) =>
             levels[Opposite(taker.side)][price] = <<>>
      BY <2>1, <2>2, NothingAccepted DEF Orderly
    <3>3. taker.filled < taker.quantity
      BY <1>0, <2>2, QModAssumption DEF IsFilled, Order, Quantity
    <3>4. Remaining(taker) \in Nat /\ Remaining(taker) > 0
      BY <1>0, <3>3, RemainingOf, QModAssumption DEF Quantity
    <3>5. Remaining(taker) = 0
      BY <1>0, <3>1, <3>2, <3>4, NothingLeft DEF Order
    <3> QED
      BY <3>4, <3>5
  <2> QED
    BY <1>3, <2>1, <2>2 DEF KillInv, StopMatching
<1>4. CASE RefreshBest
  BY <1>4 DEF RefreshBest, Matching, KillInv
<1>5. CASE DropGhost
  BY <1>0, <1>5, FrontOf DEF DropGhost
<1>6. CASE SelfTradeStop
  <2>1. pc' = "matched" /\ HeldUp'
    BY <1>6, SelfTradeStopHoldsUp DEF SelfTradeStop
  <2> QED
    BY <2>1 DEF KillInv
<1>7. CASE FillResting
  <2>1. pc' = "matching"
    BY <1>7 DEF FillResting, Matching
  <2> QED
    BY <1>0, <1>7, <2>1, KillOfFill DEF KillInv
<1>8. CASE Client
  <2>1. pc' \in {"adding", "returned", "idle"}
    BY <1>8 DEF Client, AddOrder, OrderNotFound, Cancel, ReplaceNotFound, Amend, Move,
                FlushPending, SetCallbacks, Call, Respond, RespondBare
  <2> QED
    BY <2>1, KillElsewhere
<1>9. CASE UNCHANGED vars
  <2>1. UNCHANGED <<orders, levels, best, taker, pc>>
    BY <1>9 DEF vars
  <2> QED
    BY <2>1, HeldUpStays DEF KillInv
<1> QED
  BY <1>1, <1>2, <1>3, <1>4, <1>5, <1>6, <1>7, <1>8, <1>9 DEF Next, Step

LEMMA KillInvAlways == Spec => []KillInv
<1>1. Init => KillInv
  BY DEF Init, KillInv
<1> QED
  BY <1>1, KillInductive, FillsInvAlways, RecordsInvAlways, InvAlways, PTL DEF Spec

\* A fill-or-kill order that passes the check fills completely or meets an order
\* of its own, over any number of levels and orders: the check, which adds in
\* wrapping arithmetic and stops early, never counts what the loop will not
\* reach.
THEOREM FillOrKillAtomicAlways == Spec => []FillOrKillAtomic
<1>1. KillInv => FillOrKillAtomic
  BY DEF KillInv, FillOrKillAtomic, Orderly, AllOrNothing
<1> QED
  BY <1>1, KillInvAlways, PTL

-----------------------------------------------------------------------------
(* What a refused order could have had *)

\* Every price of a set comes up in the walk.
LEMMA AscendingCovers ==
    ASSUME NEW set \in SUBSET Prices
    PROVE  \A price \in set : \E i \in 1 .. Len(Ascending(set)) : Ascending(set)[i] = price
<1> DEFINE n == Cardinality(set)
           seq == Ascending(set)
<1>1. n \in Nat /\ IsFiniteSet(set)
  BY PricesAreFinite, FS_CardinalityType
<1>2. \E f \in [1 .. n -> set] : Increasing(f)
  BY <1>1, OrderExists
<1>3. seq \in [1 .. n -> set] /\ \A i, j \in DOMAIN seq : i < j => seq[i] < seq[j]
  BY <1>2 DEF Ascending, Increasing
<1>4. IsFiniteSet(1 .. n) /\ Cardinality(1 .. n) = n
  BY <1>1, FS_Interval
<1> HIDE DEF seq
<1>5. Len(seq) = n /\ Distinct(seq)
  BY <1>1, <1>3, FunctionIsSeq, AscendingIs DEF seq
<1>6. seq \in Injection(1 .. n, set)
  BY <1>3, <1>5 DEF Distinct, Injection, IsInjective
<1>7. seq \in Surjection(1 .. n, set)
  BY <1>1, <1>4, <1>6, FS_Injection
<1> QED
  BY <1>5, <1>7 DEF Surjection, seq

\* The live orders an order could trade with.
Partners(order) ==
    {id \in DOMAIN orders :
        /\ orders[id].side = Opposite(order.side)
        /\ order.type = "Market" \/ WouldCross(order, orders[id].price)}

\* What each of them has.
Leftover == [id \in DOMAIN orders |-> Remaining(orders[id])]

\* The live orders at a price are listed by its level.
LEMMA LevelLists ==
    ASSUME TypeOK, TableAgrees(orders, levels), NEW side \in Sides, NEW price \in Prices,
           NEW queue, queue = levels[side][price]
    PROVE  /\ queue \in Seq(Node(OrderIds)) /\ Len(queue) \in Nat
           /\ \A i \in 1 .. Len(queue) :
                 /\ queue[i].id \in DOMAIN orders /\ At(orders[queue[i].id], side, price)
                 /\ queue[i].quantity = Leftover[queue[i].id]
           /\ \A i, j \in 1 .. Len(queue) : queue[i].id = queue[j].id => i = j
           /\ \A id \in DOMAIN orders : At(orders[id], side, price) =>
                 \E i \in 1 .. Len(queue) : queue[i].id = id
<1>1. queue \in Seq(Node(OrderIds))
  BY DEF TypeOK, Levels
<1>2. Len(queue) \in Nat /\ DOMAIN queue = 1 .. Len(queue)
  BY <1>1, LenProperties
<1>3. LevelAgrees(orders, side, price, queue)
  BY DEF TableAgrees
<1>4. \A i \in 1 .. Len(queue) : queue[i] \in Range(queue)
  BY <1>2 DEF Range
<1>5. ASSUME NEW i \in 1 .. Len(queue)
      PROVE  /\ queue[i].id \in DOMAIN orders /\ At(orders[queue[i].id], side, price)
             /\ queue[i].quantity = Leftover[queue[i].id]
  <2>1. /\ queue[i].id \in DOMAIN orders /\ At(orders[queue[i].id], side, price)
        /\ queue[i] = NodeOf(orders[queue[i].id])
    BY <1>3, <1>4 DEF LevelAgrees
  <2> QED
    BY <2>1 DEF NodeOf, Leftover
<1>6. \A i, j \in 1 .. Len(queue) : queue[i].id = queue[j].id => i = j
  BY <1>2, <1>3 DEF LevelAgrees, Reachable
<1>7. ASSUME NEW id \in DOMAIN orders, At(orders[id], side, price)
      PROVE  \E i \in 1 .. Len(queue) : queue[i].id = id
  <2>1. NodeOf(orders[id]) \in Range(queue)
    BY <1>3, <1>7 DEF LevelAgrees
  <2>2. PICK i \in 1 .. Len(queue) : queue[i] = NodeOf(orders[id])
    BY <1>2, <2>1 DEF Range
  <2>3. orders[id].id = id
    BY DEF TypeOK, Table
  <2> QED
    BY <2>2, <2>3 DEF NodeOf
<1> QED
  BY <1>1, <1>2, <1>5, <1>6, <1>7

\* They are finitely many.
LEMMA PartnersFinite ==
    ASSUME TypeOK, TableAgrees(orders, levels), NEW order, order.side \in Sides
    PROVE  IsFiniteSet(Partners(order)) /\ \A id \in DOMAIN orders : Leftover[id] \in Nat
<1> DEFINE side == Opposite(order.side)
           Ids(price) == {id \in DOMAIN orders : At(orders[id], side, price)}
           f == [price \in Prices |-> Ids(price)]
           all == {Ids(price) : price \in Prices}
<1>1. side \in Sides
  BY DEF Opposite, Sides
<1>2. ASSUME NEW price \in Prices PROVE IsFiniteSet(Ids(price))
  <2> DEFINE queue == levels[side][price]
             e == [i \in 1 .. Len(queue) |-> queue[i].id]
  <2>1. /\ Len(queue) \in Nat
        /\ \A i \in 1 .. Len(queue) :
              queue[i].id \in DOMAIN orders /\ At(orders[queue[i].id], side, price)
        /\ \A id \in DOMAIN orders : At(orders[id], side, price) =>
              \E i \in 1 .. Len(queue) : queue[i].id = id
    BY <1>1, LevelLists
  <2> HIDE DEF queue
  <2>2. e \in [1 .. Len(queue) -> Ids(price)] /\ \A id \in Ids(price) : \E i \in 1 .. Len(queue) : e[i] = id
    BY <2>1
  <2> HIDE DEF e
  <2>3. e \in Surjection(1 .. Len(queue), Ids(price))
    BY <2>2 DEF Surjection
  <2>4. IsFiniteSet(1 .. Len(queue))
    BY <2>1, FS_Interval
  <2> HIDE DEF Ids
  <2> QED
    BY <2>3, <2>4, FS_Surjection
<1>3. IsFiniteSet(Prices)
  BY PricesAreFinite
<1> HIDE DEF Ids
<1>4. f \in Surjection(Prices, all)
  BY DEF Surjection
<1>5. IsFiniteSet(all)
  BY <1>3, <1>4, FS_Surjection
<1>6. IsFiniteSet(UNION all)
  BY <1>2, <1>5, FS_UNION
<1>7. Partners(order) \subseteq UNION all
  <2> SUFFICES ASSUME NEW id \in Partners(order) PROVE \E price \in Prices : id \in Ids(price)
    OBVIOUS
  <2>1. id \in DOMAIN orders /\ orders[id].side = side /\ orders[id].price \in Prices
    BY DEF Partners, TypeOK, Table
  <2> QED
    BY <2>1 DEF Ids, At
<1>8. ASSUME NEW id \in DOMAIN orders PROVE Leftover[id] \in Nat
  <2>1. orders[id].filled < orders[id].quantity /\ orders[id] \in Order
    BY DEF TableAgrees, TypeOK, Table
  <2>2. Remaining(orders[id]) \in Nat
    BY <2>1, RemainingOf, QModAssumption DEF Quantity
  <2> QED
    BY <2>2 DEF Leftover
<1> QED
  BY <1>6, <1>7, <1>8, FS_Subset

\* The sum over the live orders.
LEMMA LiveLiquidityAddsUp ==
    ASSUME NEW order, IsFiniteSet(Partners(order)), \A id \in DOMAIN orders : Leftover[id] \in Nat
    PROVE  \E h : /\ AddsUp(h, Leftover, Partners(order))
                  /\ LiveLiquidity(order) = h[Partners(order)]
<1> DEFINE S == Partners(order)
           V(id) == Remaining(orders[id])
           Sum(g) == [s \in SUBSET S |->
                        IF s = {} THEN 0
                        ELSE V(CHOOSE x \in s : TRUE) + g[s \ {CHOOSE x \in s : TRUE}]]
           h == CHOOSE g : g = Sum(g)
<1>1. \A x \in S : Leftover[x] \in Nat /\ V(x) = Leftover[x]
  BY DEF Leftover, Partners
<1>2. PICK g : AddsUp(g, Leftover, S)
  BY <1>1, AddsUpExists
<1>3. ASSUME NEW s \in (SUBSET S) \ {{}}
      PROVE  OneOf(s) \in s /\ V(OneOf(s)) = Leftover[OneOf(s)] /\ Leftover[OneOf(s)] \in Nat
  <2>1. OneOf(s) \in s
    BY DEF OneOf
  <2> HIDE DEF S, V
  <2> QED
    BY <1>1, <2>1
<1>4. LiveLiquidity(order) = h[S]
  BY DEF LiveLiquidity, MapThenSumSet, MapThenFoldSet, Partners
<1> HIDE DEF S, V
<1>5. g = Sum(g)
  <2>1. ASSUME NEW s \in SUBSET S
        PROVE  g[s] = IF s = {} THEN 0
                      ELSE V(CHOOSE x \in s : TRUE) + g[s \ {CHOOSE x \in s : TRUE}]
    <3>1. CASE s = {}
      BY <1>2, <3>1 DEF AddsUp
    <3>2. CASE s # {}
      BY <1>2, <1>3, <3>2 DEF AddsUp, OneOf
    <3> QED
      BY <3>1, <3>2
  <2>2. g \in [SUBSET S -> Nat]
    BY <1>2 DEF AddsUp
  <2> QED
    BY <2>1, <2>2
<1>6. h = Sum(h)
  <2> HIDE DEF Sum
  <2> QED
    BY <1>5
<1> HIDE DEF h
<1>7. \A s \in (SUBSET S) \ {{}} : h[s] = Leftover[OneOf(s)] + h[s \ {OneOf(s)}]
  BY <1>3, <1>6 DEF OneOf
<1>8. h[{}] = 0
  BY <1>6
<1>9. \A s \in SUBSET S : h[s] \in Nat
  BY <1>1, <1>7, <1>8, SumsOverSets DEF S
<1>10. h \in [SUBSET S -> Nat]
  BY <1>6, <1>9
<1>11. AddsUp(h, Leftover, S)
  BY <1>7, <1>8, <1>10 DEF AddsUp
<1> QED
  BY <1>4, <1>11 DEF S

\* If the check finds too little and the sum does not wrap, it has counted
\* everything there is.
LEMMA AllCounted ==
    ASSUME TypeOK, TableAgrees(orders, levels), NEW order, order.side \in Sides,
           order.quantity \in Nat, Available(order) < order.quantity,
           NEW h, AddsUp(h, Leftover, Partners(order)), h[Partners(order)] < QMod
    PROVE  h[Partners(order)] = Available(order)
<1> DEFINE side == Opposite(order.side)
           S == Partners(order)
           prices == Ascending(Occupied(levels, side))
           n == Len(prices)
           F == CountFor(order)
<1>0. levels \in Levels /\ side \in Sides /\ Occupied(levels, side) \in SUBSET Prices
  BY DEF TypeOK, Levels, Opposite, Sides, Occupied
<1>1. /\ prices \in Seq(Prices)
      /\ \A price \in Occupied(levels, side) : \E i \in 1 .. n : prices[i] = price
      /\ \A i, j \in 1 .. n : prices[i] = prices[j] => i = j
  BY <1>0, AscendingIs, AscendingCovers DEF Distinct
<1>2. FoldsTo(Available(order), F, Quantity, 0, prices)
  BY <1>0, <1>1, AvailableFolds
<1> HIDE DEF prices, F
<1>3. n \in Nat /\ DOMAIN prices = 1 .. n /\ \A i \in 1 .. n : prices[i] \in Prices
  BY <1>1, LenProperties, ElementOfSeq
<1>4. PICK c : FoldsWith(c, F, Quantity, 0, prices) /\ Available(order) = c[1 .. n]
  BY <1>2, <1>3 DEF FoldsTo
<1>5. /\ c[1 .. 0] = 0
      /\ \A i \in 0 .. n : c[1 .. i] \in Quantity
      /\ \A i \in 1 .. n : c[1 .. i] = F[<<c[1 .. i - 1], prices[i]>>]
  <2>1. RunsAs(c, F, Quantity, 0, prices)
    BY <1>0, <1>1, <1>4, CountForIs, FoldRuns DEF F
  <2> QED
    BY <2>1 DEF RunsAs
<1>6. IsFiniteSet(S) /\ \A id \in S : Leftover[id] \in Nat
  BY PartnersFinite DEF Partners
<1>7. AddsUp(h, Leftover, S) /\ h[S] < QMod
  OBVIOUS
<1>8. \A s \in SUBSET S : h[s] \in Nat /\ h[s] < QMod
  <2>1. \A s \in SUBSET S : h[s] \in Nat /\ h[s] <= h[S]
    BY <1>6, <1>7, SumOfPart
  <2>2. h[S] \in Nat /\ h[S] < QMod
    BY <1>7, <2>1
  <2> QED
    BY <2>1, <2>2, QModAssumption
<1> HIDE DEF n, S
<1> DEFINE Reached(i) == {id \in S : \E j \in 1 .. i : orders[id].price = prices[j]}
           K == {i \in 0 .. n : \/ c[1 .. i] >= order.quantity
                                \/ c[1 .. i] = h[Reached(i)]}
<1>9. 0 \in K
  <2>1. Reached(0) = {} /\ h[{}] = 0
    BY <1>7 DEF AddsUp
  <2> HIDE DEF Reached
  <2>2. c[1 .. 0] = h[Reached(0)]
    BY <1>5, <2>1
  <2> QED
    BY <1>3, <2>2
<1>10. ASSUME NEW i \in 0 .. n - 1, i \in K PROVE i + 1 \in K
  <2> DEFINE j == i + 1
             price == prices[j]
             queue == levels[side][price]
             a == c[1 .. i]
             b == TotalQuantity(queue)
             ids == {queue[k].id : k \in 1 .. Len(queue)}
  <2>1. /\ j \in 1 .. n /\ j \in 0 .. n /\ j - 1 = i /\ i \in 0 .. n
        /\ 1 .. j = (1 .. i) \cup {j} /\ j \notin 1 .. i
        /\ \A k \in 1 .. i : k \in 1 .. n
    BY <1>3
  <2> HIDE DEF j
  <2>2. c[1 .. j] = F[<<a, price>>] /\ a \in Quantity /\ price \in Prices
    BY <1>3, <1>5, <2>1
  <2>3. /\ queue \in Seq(Node(OrderIds)) /\ Len(queue) \in Nat
        /\ \A k \in 1 .. Len(queue) :
              /\ queue[k].id \in DOMAIN orders /\ At(orders[queue[k].id], side, price)
              /\ queue[k].quantity = Leftover[queue[k].id]
        /\ \A k, l \in 1 .. Len(queue) : queue[k].id = queue[l].id => k = l
        /\ \A id \in DOMAIN orders : At(orders[id], side, price) =>
              \E k \in 1 .. Len(queue) : queue[k].id = id
    BY <1>0, <2>2, LevelLists
  <2>4. b \in Quantity /\ Depth(queue) \in Nat
    BY <2>3, TotalWithin
  <2>5. c[1 .. j] = IF a >= order.quantity THEN a
                    ELSE IF Accepts(order, price) THEN (a + b) % QMod ELSE a
    BY <1>0, <2>2, CountForIs DEF F, Accepts
  <2> HIDE DEF price, a, b
  <2>6. \A id \in S : id \in DOMAIN orders /\ orders[id].side = side /\ Accepts(order, orders[id].price)
    BY DEF S, Partners, Accepts
  <2>7. ASSUME a = h[Reached(i)], ~(a >= order.quantity), ~Accepts(order, price)
        PROVE  c[1 .. j] = h[Reached(j)]
    <3>1. \A id \in S : orders[id].price # price
      BY <2>6, <2>7
    <3>2. Reached(j) = Reached(i)
      BY <2>1, <3>1 DEF price
    <3> QED
      BY <2>5, <2>7, <3>2
  <2>8. ASSUME a = h[Reached(i)], ~(a >= order.quantity), Accepts(order, price)
        PROVE  c[1 .. j] = h[Reached(j)]
    <3> DEFINE e == [k \in 1 .. Len(queue) |-> queue[k].id]
               t == Quantities(queue)
               before == Reached(i)
    <3>1. ids \subseteq S
      BY <2>3, <2>8 DEF S, Partners, Accepts, At
    <3>2. \A id \in S : orders[id].price = price => id \in ids
      BY <2>3, <2>6 DEF At
    <3>3. \A id \in ids : orders[id].price = price
      BY <2>3 DEF At
    <3>4. \A k \in 1 .. i : prices[k] # price
      BY <1>1, <2>1 DEF price, n
    <3> HIDE DEF ids, queue
    <3>5. \A id \in ids : id \notin before
      BY <3>3, <3>4
    <3>6. Reached(j) = before \cup ids
      <4>1. \A id \in S : id \in Reached(j) <=> id \in before \/ orders[id].price = price
        BY <2>1 DEF price
      <4> HIDE DEF Reached
      <4>2. Reached(j) \subseteq S /\ before \subseteq S
        BY DEF Reached
      <4> QED
        BY <3>1, <3>2, <3>3, <4>1, <4>2
    <3>7. before \in SUBSET S /\ Reached(j) \in SUBSET S
      OBVIOUS
    <3> HIDE DEF Reached, before
    <3>8. e \in [1 .. Len(queue) -> ids]
      BY DEF ids
    <3>9. \A k, l \in 1 .. Len(queue) : e[k] = e[l] => k = l
      BY <2>3 DEF queue
    <3>10. t \in Seq(Nat) /\ Len(t) = Len(queue) /\ \A k \in 1 .. Len(queue) : t[k] = Leftover[e[k]]
      <4>1. queue \in Seq(Node(OrderIds))
        BY <2>3 DEF queue
      <4>2. /\ t \in Seq(Nat) /\ Len(t) = Len(queue)
            /\ \A k \in 1 .. Len(queue) : t[k] = queue[k].quantity
        BY <4>1, AmountsAre
      <4>3. \A k \in 1 .. Len(queue) : queue[k].quantity = Leftover[queue[k].id]
        BY <2>3 DEF queue
      <4> QED
        BY <4>2, <4>3
    <3>11. Len(queue) \in Nat
      BY <2>3 DEF queue
    <3>12. ids \in SUBSET (S \ before)
      BY <3>1, <3>5
    <3>13. \A x \in ids : \E k \in 1 .. Len(queue) : e[k] = x
      BY DEF ids
    <3> DEFINE m == Len(queue)
    <3> HIDE DEF e, t, m
    <3>14. h[Reached(j)] = h[before] + Depth(queue)
      <4>1. Lists(e, m, ids) /\ Reads(t, Leftover, e, m)
        BY <3>8, <3>9, <3>10, <3>11, <3>13 DEF m, Lists, Reads
      <4>2. h[before \cup ids] = h[before] + SumOf(t)
        BY ONLY <1>6, <1>7, <3>7, <3>12, <4>1, SumOfListed
      <4> QED
        BY <3>6, <4>2 DEF Depth, t
    <3>15. h[Reached(j)] < QMod /\ h[before] \in Nat
      BY <1>8, <3>7
    <3>16. Depth(queue) \in Nat
      BY <2>4 DEF queue
    <3>17. Depth(queue) < QMod
      BY <3>14, <3>15, <3>16, QModAssumption
    <3>18. b = Depth(queue)
      BY <2>3, <3>17, TotalExact DEF b, queue
    <3>19. (a + b) % QMod = a + b
      <4>1. a + b < QMod /\ a + b \in Nat
        BY <2>8, <3>14, <3>15, <3>16, <3>18 DEF before
      <4> QED
        BY <4>1, QModAssumption
    <3> QED
      BY <2>5, <2>8, <3>14, <3>18, <3>19 DEF before
  <2>9. c[1 .. j] >= order.quantity \/ c[1 .. j] = h[Reached(j)]
    <3>1. a >= order.quantity \/ a = h[Reached(i)]
      BY <1>10 DEF a
    <3>2. CASE a >= order.quantity
      BY <2>5, <3>2
    <3> HIDE DEF Reached
    <3> QED
      BY <2>7, <2>8, <3>1, <3>2
  <2>10. j \in K
    BY <2>1, <2>9
  <2> QED
    BY <2>10 DEF j
<1> HIDE DEF K
<1>11. \A i \in 0 .. n : i \in K
  BY <1>3, <1>9, <1>10, InductionUpTo
<1>12. n \in K
  BY <1>3, <1>11
<1>13. Reached(n) = S
  <2> SUFFICES ASSUME NEW id \in S PROVE \E j \in 1 .. n : orders[id].price = prices[j]
    OBVIOUS
  <2> DEFINE price == orders[id].price
  <2>1. id \in DOMAIN orders /\ At(orders[id], side, price) /\ price \in Prices
    BY DEF S, Partners, At, TypeOK, Table
  <2> HIDE DEF price
  <2>2. \E k \in 1 .. Len(levels[side][price]) : levels[side][price][k].id = id
    BY <1>0, <2>1, LevelLists
  <2>3. levels[side][price] # <<>>
    BY <2>2, EmptySeq
  <2>4. price \in Occupied(levels, side)
    BY <2>1, <2>3 DEF Occupied
  <2> QED
    BY <1>1, <2>4 DEF price, n
<1>14. Available(order) >= order.quantity \/ Available(order) = h[Reached(n)]
  BY <1>4, <1>12 DEF K, n
<1>15. Available(order) \in Nat
  BY <1>3, <1>4, <1>5, QModAssumption DEF Quantity, n
<1> HIDE DEF Reached
<1> QED
  BY <1>13, <1>14, <1>15 DEF S

\* The live orders cannot fill the order, or their sum wraps.
TooFew(order) ==
    \A h : AddsUp(h, Leftover, Partners(order)) =>
        h[Partners(order)] < order.quantity \/ h[Partners(order)] >= QMod

LEMMA CountedTooFew ==
    ASSUME TypeOK, TableAgrees(orders, levels), NEW order, order.side \in Sides,
           order.quantity \in Nat, Available(order) < order.quantity
    PROVE  TooFew(order)
<1> SUFFICES ASSUME NEW h, AddsUp(h, Leftover, Partners(order)),
                    ~(h[Partners(order)] >= QMod)
             PROVE  h[Partners(order)] < order.quantity
  BY DEF TooFew
<1>1. h[Partners(order)] \in Nat
  BY DEF AddsUp
<1>2. h[Partners(order)] < QMod
  BY <1>1, QModAssumption
<1> QED
  BY <1>2, AllCounted

\* A fill-or-kill order is not admitted for want of liquidity only if the live
\* orders cannot fill it, over any number of levels and orders and wherever the
\* walk of the check begins; or if what they have does not fit into the width of
\* the sum.
THEOREM RefusedOnlyIfShortAlways == Spec => []RefusedOnlyIfShort
<1>1. TypeOK /\ RecordsInv => RefusedOnlyIfShort
  <2> SUFFICES ASSUME TypeOK, RecordsInv, Orderly, IsFOK(taker), taker.quantity > 0,
                      Rejection(taker) = "InvalidQuantity"
               PROVE  \/ LiveLiquidity(taker) < taker.quantity
                      \/ LiveLiquidity(taker) >= QMod
    BY DEF RefusedOnlyIfShort, Orderly
  <2>1. TableAgrees(orders, levels) /\ taker.side \in Sides /\ taker.quantity \in Nat
    BY QModAssumption DEF RecordsInv, Orderly, TypeOK, Order, Quantity
  <2>2. Available(taker) < taker.quantity
    BY <2>1 DEF Rejection
  <2>3. TooFew(taker)
    BY <2>1, <2>2, CountedTooFew
  <2>4. PICK h : /\ AddsUp(h, Leftover, Partners(taker))
                 /\ LiveLiquidity(taker) = h[Partners(taker)]
    BY <2>1, PartnersFinite, LiveLiquidityAddsUp
  <2> QED
    BY <2>3, <2>4 DEF TooFew
<1> QED
  BY <1>1, RecordsInvAlways, TypeCorrect, PTL

-----------------------------------------------------------------------------
(* A call that trades leaves nothing in the batch *)

\* Every step towards the end of a call that has traded flushes the batch, but
\* for the early return of a fill-or-kill order that is not filled; and that
\* one met an order of its own.
LEMMA BatchInductive ==
    TypeOK /\ FillsInv /\ DeliveryInv /\ KillInv /\ BatchFlushed /\ [Next]_vars => BatchFlushed'
<1> SUFFICES ASSUME TypeOK, FillsInv, DeliveryInv, KillInv, BatchFlushed, [Next]_vars,
                    Orderly, pc' = "returned", fills' # <<>>, "trade" \in callbacks',
                    pending' # <<>>
             PROVE  AllOrNothing(taker)' /\ HeldUp'
  BY DEF BatchFlushed, Orderly
<1> USE DEF book
<1>1. CASE FinishIOC \/ Rest \/ Complete
  <2>1. PICK earlier, avg : Conclude(earlier, avg)
    BY <1>1 DEF FinishIOC, Rest, Complete
  <2>2. pending' = <<>>
    BY <2>1 DEF Conclude, Unflushed, DeliveryInv
  <2> QED
    BY <2>2
<1>2. CASE KillFOK
  <2>1. /\ pc = "matched" /\ AllOrNothing(taker) /\ ~IsFilled(taker)
        /\ UNCHANGED <<orders, levels, best, taker>>
    BY <1>2 DEF KillFOK, AllOrNothing
  <2>2. HeldUp
    BY <2>1 DEF KillInv, AllOrNothing
  <2> QED
    BY <2>1, <2>2, HeldUpStays DEF AllOrNothing, IsFOK, IsIOC
<1>3. CASE Admit \/ StopMatching \/ RefreshBest \/ DropGhost \/ SelfTradeStop \/ FillResting
           \/ Return
  BY <1>3 DEF Admit, StopMatching, RefreshBest, DropGhost, SelfTradeStop, FillResting,
              Return, Matching
<1>4. CASE Reject
  BY <1>4 DEF Reject, FillsInv
<1>5. CASE Client
  <2>1. pc = "idle"
    BY <1>5 DEF Client, AddOrder, OrderNotFound, Cancel, ReplaceNotFound, Amend, Move,
                FlushPending, SetCallbacks, Call
  <2>2. fills' = fills
    BY <1>5 DEF Client, AddOrder, OrderNotFound, Cancel, ReplaceNotFound, Amend, Move,
                FlushPending, SetCallbacks
  <2> QED
    BY <2>1, <2>2 DEF FillsInv
<1>6. CASE UNCHANGED vars
  <2>1. UNCHANGED <<orders, levels, best, taker, pc, fills, callbacks, pending>>
    BY <1>6 DEF vars
  <2> QED
    BY <2>1, HeldUpStays DEF BatchFlushed, Orderly, AllOrNothing, IsFOK, IsIOC
<1> QED
  BY <1>1, <1>2, <1>3, <1>4, <1>5, <1>6 DEF Next, Step

\* When a call that traded returns, whoever asked for trades has heard of all of
\* them, but for a fill-or-kill order that met an order of its own: no other
\* order takes the one return that does not flush the batch.
THEOREM BatchFlushedAlways == Spec => []BatchFlushed
<1>1. Init => BatchFlushed
  BY DEF Init, BatchFlushed
<1> QED
  BY <1>1, BatchInductive, KillInvAlways, FillsInvAlways, DeliveryInvAlways, TypeCorrect,
     PTL DEF Spec

-----------------------------------------------------------------------------
(* The contract of a call *)

View(live, at, id, filled, success) ==
    [live |-> live, at |-> at, taker |-> id, filled |-> filled, success |-> success]

\* One field of a view changes.
LEMMA ViewChanges ==
    ASSUME NEW live, NEW at, NEW id, NEW filled, NEW success, NEW v
    PROVE  LET view == View(live, at, id, filled, success)
           IN  /\ view.live = live /\ view.at = at /\ view.taker = id /\ view.filled = filled
               /\ [view EXCEPT !.live = v] = View(v, at, id, filled, success)
               /\ [view EXCEPT !.at = v] = View(live, v, id, filled, success)
               /\ [view EXCEPT !.taker = v] = View(live, at, v, filled, success)
               /\ [view EXCEPT !.filled = v] = View(live, at, id, v, success)
               /\ [view EXCEPT !.success = v] = View(live, at, id, filled, v)
BY DEF View

\* What a call reports.  (The provers handle these names, left unexpanded,
\* better than Boolean values as arguments.)
Success == TRUE
Failure == FALSE

\* What the steps of the contract make of a view.
LEMMA AddingIs ==
    ASSUME NEW live, NEW at, NEW id, NEW filled, NEW success, NEW other
    PROVE  Contract!Adding(View(live, at, id, filled, success), other)
              = View(live, "adding", other, filled, success)
<1> DEFINE view == View(live, at, id, filled, success)
           adding == View(live, "adding", id, filled, success)
<1>1. [view EXCEPT !.at = "adding"] = adding
  BY ViewChanges
<1>2. [adding EXCEPT !.taker = other] = View(live, "adding", other, filled, success)
  BY ViewChanges
<1> HIDE DEF view, adding
<1>3. Contract!Adding(view, other) = [[view EXCEPT !.at = "adding"] EXCEPT !.taker = other]
  BY DEF Contract!Adding
<1> QED
  BY <1>1, <1>2, <1>3 DEF view

LEMMA WithoutIs ==
    ASSUME NEW live, NEW at, NEW id, NEW filled, NEW success, NEW other
    PROVE  Contract!Without(View(live, at, id, filled, success), other)
              = View(live \ {other}, at, id, filled, success)
<1> DEFINE view == View(live, at, id, filled, success)
<1>1. \A set : [view EXCEPT !.live = set] = View(set, at, id, filled, success)
  BY ViewChanges
<1>2. view.live = live
  BY ViewChanges
<1> HIDE DEF view
<1>3. Contract!Without(view, other) = [view EXCEPT !.live = live \ {other}]
  BY <1>2 DEF Contract!Without
<1> QED
  BY <1>1, <1>3 DEF view

LEMMA AdmittedIs ==
    ASSUME NEW live, NEW at, NEW id, NEW filled, NEW success
    PROVE  Contract!Admitted(View(live, at, id, filled, success))
              = View(live \cup {id}, at, id, filled, success)
<1> DEFINE view == View(live, at, id, filled, success)
<1>1. \A set : [view EXCEPT !.live = set] = View(set, at, id, filled, success)
  BY ViewChanges
<1>2. view.live = live /\ view.taker = id
  BY ViewChanges
<1> HIDE DEF view
<1>3. Contract!Admitted(view) = [view EXCEPT !.live = live \cup {id}]
  BY <1>2 DEF Contract!Admitted
<1> QED
  BY <1>1, <1>3 DEF view

LEMMA TradedIs ==
    ASSUME NEW live, NEW at, NEW id, NEW filled, NEW success, NEW q, NEW end
    PROVE  Contract!Traded(View(live, at, id, filled, success), q, end)
              = View(live, end, id, filled + q, success)
<1> DEFINE view == View(live, at, id, filled, success)
           traded == View(live, at, id, filled + q, success)
<1>1. [view EXCEPT !.filled = filled + q] = traded
  BY ViewChanges
<1>2. [traded EXCEPT !.at = end] = View(live, end, id, filled + q, success)
  BY ViewChanges
<1>3. view.filled = filled
  BY ViewChanges
<1> HIDE DEF view, traded
<1>4. Contract!Traded(view, q, end) = [[view EXCEPT !.filled = filled + q] EXCEPT !.at = end]
  BY <1>3 DEF Contract!Traded
<1> QED
  BY <1>1, <1>2, <1>4 DEF view

LEMMA SucceedingIs ==
    ASSUME NEW live, NEW at, NEW id, NEW filled, NEW success
    PROVE  Contract!Succeeding(View(live, at, id, filled, success))
              = View(live, "back", id, filled, Success)
<1> DEFINE view == View(live, at, id, filled, success)
           back == View(live, "back", id, filled, success)
<1>1. [view EXCEPT !.at = "back"] = back
  BY ViewChanges
<1>2. ASSUME NEW v PROVE [back EXCEPT !.success = v] = View(live, "back", id, filled, v)
  BY DEF View
<1> HIDE DEF view, back
<1>3. Contract!Succeeding(view) = [[view EXCEPT !.at = "back"] EXCEPT !.success = Success]
  BY DEF Contract!Succeeding, Success
<1> QED
  BY <1>1, <1>2, <1>3 DEF view

LEMMA FailingIs ==
    ASSUME NEW live, NEW at, NEW id, NEW filled, NEW success
    PROVE  Contract!Failing(View(live, at, id, filled, success))
              = View(live, "back", id, filled, Failure)
<1> DEFINE view == View(live, at, id, filled, success)
           back == View(live, "back", id, filled, success)
<1>1. [view EXCEPT !.at = "back"] = back
  BY ViewChanges
<1>2. ASSUME NEW v PROVE [back EXCEPT !.success = v] = View(live, "back", id, filled, v)
  BY DEF View
<1> HIDE DEF view, back
<1>3. Contract!Failing(view) = [[view EXCEPT !.at = "back"] EXCEPT !.success = Failure]
  BY DEF Contract!Failing, Failure
<1> QED
  BY <1>1, <1>2, <1>3 DEF view

LEMMA RestingIs ==
    ASSUME NEW live PROVE Contract!Resting(live) = View(live, "idle", 0, 0, Failure)
BY DEF View, Contract!Resting, Failure

\* Where a call stands in the contract.
Stage == CASE pc = "idle" -> "idle"
           [] pc = "returned" -> "back"
           [] OTHER -> IF fills # <<>> /\ IsFilled(taker) THEN "filled" ELSE "adding"

LEMMA CallViewIs ==
    CallView = View(DOMAIN orders, Stage, taker.id, taker.filled, response.success)
BY DEF CallView, View, Stage

\* A call has reported nothing before it returns.
SilentUntilReturn == pc # "returned" => response = NoResponse

LEMMA SilentInductive == SilentUntilReturn /\ [Next]_vars => SilentUntilReturn'
<1> SUFFICES ASSUME SilentUntilReturn, [Next]_vars PROVE SilentUntilReturn'
  OBVIOUS
<1>1. ASSUME UNCHANGED <<pc, response>> PROVE SilentUntilReturn'
  BY <1>1 DEF SilentUntilReturn
<1>2. ASSUME pc # "returned", response' = response PROVE SilentUntilReturn'
  BY <1>2 DEF SilentUntilReturn
<1>3. CASE Reject \/ FinishIOC \/ KillFOK \/ Rest \/ Complete
  BY <1>3 DEF Reject, FinishIOC, KillFOK, Rest, Complete, Conclude, Respond, SilentUntilReturn
<1>4. CASE Admit \/ StopMatching \/ SelfTradeStop
  BY <1>2, <1>4 DEF Admit, StopMatching, SelfTradeStop, Matching
<1>5. CASE RefreshBest \/ DropGhost \/ FillResting \/ UNCHANGED vars
  BY <1>1, <1>5 DEF RefreshBest, DropGhost, FillResting, vars
<1>6. CASE Return
  BY <1>6 DEF Return, SilentUntilReturn
<1>7. CASE Client
  BY <1>1, <1>2, <1>7 DEF Client, AddOrder, OrderNotFound, Cancel, ReplaceNotFound, Amend, Move,
         FlushPending, SetCallbacks, Call, Respond, RespondBare, SilentUntilReturn
<1> QED
  BY <1>3, <1>4, <1>5, <1>6, <1>7 DEF Next, Step

LEMMA SilentAlways == Spec => []SilentUntilReturn
<1>1. Init => SilentUntilReturn
  BY DEF Init, SilentUntilReturn
<1> QED
  BY <1>1, SilentInductive, PTL DEF Spec

\* The moves of the contract, by where the call stands.
LEMMA ContractMoves ==
    ASSUME NEW live \in SUBSET OrderIds, NEW at, NEW id, NEW filled, NEW success
    PROVE  LET moves == Contract!Moves(View(live, at, id, filled, success))
           IN  /\ at = "idle" =>
                     /\ View(live, "back", id, filled, Failure) \in moves
                     /\ \A i \in OrderIds : View(live, "adding", i, filled, success) \in moves
                     /\ \A i \in live :
                           /\ View(live \ {i}, "back", id, filled, Success) \in moves
                           /\ View(live, "back", id, filled, Success) \in moves
                           /\ View(live \ {i}, "adding", i, filled, success) \in moves
               /\ at = "back" => View(live, "idle", 0, 0, Failure) \in moves
               /\ at \in {"adding", "filled"} /\ id \notin live =>
                     View(live, "back", id, filled, Success) \in moves
               /\ at = "adding" => View(live, "back", id, filled, Failure) \in moves
               /\ at = "adding" /\ id \notin live =>
                     View(live \cup {id}, "back", id, filled, Success) \in moves
               /\ at = "adding" /\ id \notin live =>
                     \A q \in Quantity \ {0}, i \in live :
                        /\ View(live, "filled", id, filled + q, success) \in moves
                        /\ \A end \in {"adding", "filled"} :
                              View(live \ {i}, end, id, filled + q, success) \in moves
<1> DEFINE view == View(live, at, id, filled, success)
<1>1. view.live = live /\ view.at = at /\ view.taker = id
  BY ViewChanges
<1>2. CASE at = "idle"
  <2>1. \A i \in OrderIds :
           {Contract!Adding(view, i)} \cup Contract!Cancelling(view, i)
              \cup Contract!Replacing(view, i) \subseteq Contract!Moves(view)
    <3> HIDE DEF view
    <3> QED
      BY <1>1, <1>2 DEF Contract!Moves
  <2>2. Contract!Failing(view) \in Contract!Moves(view)
    <3> HIDE DEF view
    <3> QED
      BY <1>1, <1>2 DEF Contract!Moves
  <2>3. View(live, "back", id, filled, Failure) \in Contract!Moves(view)
    BY <2>2, FailingIs
  <2>4. ASSUME NEW i \in OrderIds
        PROVE  View(live, "adding", i, filled, success) \in Contract!Moves(view)
    <3>1. Contract!Adding(view, i) = View(live, "adding", i, filled, success)
      BY AddingIs
    <3> HIDE DEF view
    <3> QED
      BY <2>1, <3>1
  <2>5. ASSUME NEW i \in live
        PROVE  /\ View(live \ {i}, "back", id, filled, Success) \in Contract!Moves(view)
               /\ View(live, "back", id, filled, Success) \in Contract!Moves(view)
               /\ View(live \ {i}, "adding", i, filled, success) \in Contract!Moves(view)
    <3> DEFINE without == View(live \ {i}, at, id, filled, success)
    <3>1. Contract!Without(view, i) = without
      BY WithoutIs
    <3>2. Contract!Succeeding(without) = View(live \ {i}, "back", id, filled, Success)
      BY SucceedingIs
    <3>3. Contract!Adding(without, i) = View(live \ {i}, "adding", i, filled, success)
      BY AddingIs
    <3>4. Contract!Succeeding(view) = View(live, "back", id, filled, Success)
      BY SucceedingIs
    <3> HIDE DEF view, without
    <3>5. /\ Contract!Succeeding(without) \in Contract!Cancelling(view, i)
          /\ Contract!Succeeding(view) \in Contract!Replacing(view, i)
          /\ Contract!Adding(without, i) \in Contract!Replacing(view, i)
      BY <1>1, <3>1 DEF Contract!Cancelling, Contract!Replacing
    <3> QED
      BY <2>1, <3>2, <3>3, <3>4, <3>5
  <2> QED
    BY <1>2, <2>3, <2>4, <2>5
<1>3. CASE at = "back"
  <2>1. Contract!Resting(live) \in Contract!Moves(view)
    <3> HIDE DEF view
    <3> QED
      BY <1>1, <1>3 DEF Contract!Moves
  <2> QED
    BY <1>3, <2>1, RestingIs
<1>4. CASE at \in {"adding", "filled"}
  <2>1. Contract!Trading(view) \cup Contract!Accepting(view) \cup Contract!Refusing(view)
           \subseteq Contract!Moves(view)
    <3> HIDE DEF view
    <3> QED
      BY <1>1, <1>4 DEF Contract!Moves, Contract!Continuations
  <2>2. ASSUME id \notin live
        PROVE  View(live, "back", id, filled, Success) \in Contract!Moves(view)
    <3>1. Contract!Succeeding(view) = View(live, "back", id, filled, Success)
      BY SucceedingIs
    <3> HIDE DEF view
    <3>2. Contract!Succeeding(view) \in Contract!Accepting(view)
      BY <1>1, <1>4, <2>2 DEF Contract!Accepting
    <3> QED
      BY <2>1, <3>1, <3>2
  <2>3. ASSUME at = "adding" PROVE View(live, "back", id, filled, Failure) \in Contract!Moves(view)
    <3>1. Contract!Failing(view) = View(live, "back", id, filled, Failure)
      BY FailingIs
    <3> HIDE DEF view
    <3>2. Contract!Failing(view) \in Contract!Refusing(view)
      BY <1>1, <2>3 DEF Contract!Refusing
    <3> QED
      BY <2>1, <3>1, <3>2
  <2>4. ASSUME at = "adding", id \notin live
        PROVE  View(live \cup {id}, "back", id, filled, Success) \in Contract!Moves(view)
    <3> DEFINE admitted == View(live \cup {id}, at, id, filled, success)
    <3>1. Contract!Admitted(view) = admitted
      BY AdmittedIs
    <3>2. Contract!Succeeding(admitted) = View(live \cup {id}, "back", id, filled, Success)
      BY SucceedingIs
    <3> HIDE DEF view, admitted
    <3>3. Contract!Succeeding(admitted) \in Contract!Accepting(view)
      BY <1>1, <2>4, <3>1 DEF Contract!Accepting
    <3> QED
      BY <2>1, <3>2, <3>3
  <2>5. ASSUME at = "adding", id \notin live, NEW q \in Quantity \ {0}, NEW i \in live
        PROVE  /\ View(live, "filled", id, filled + q, success) \in Contract!Moves(view)
               /\ \A end \in {"adding", "filled"} :
                     View(live \ {i}, end, id, filled + q, success) \in Contract!Moves(view)
    <3> DEFINE traded(end) == View(live, end, id, filled + q, success)
    <3>1. \A end : /\ Contract!Traded(view, q, end) = traded(end)
                   /\ Contract!Without(traded(end), i) =
                         View(live \ {i}, end, id, filled + q, success)
      BY TradedIs, WithoutIs
    <3> HIDE DEF view, traded
    <3>2. \A end \in {"adding", "filled"} :
             Contract!Without(Contract!Traded(view, q, end), i) \in Contract!Trading(view)
      BY <1>1, <2>5 DEF Contract!Trading
    <3>3. Contract!Traded(view, q, "filled") \in Contract!Trading(view)
      BY <1>1, <2>5 DEF Contract!Trading
    <3>4. View(live, "filled", id, filled + q, success) = traded("filled")
      BY DEF traded
    <3> QED
      BY <2>1, <3>1, <3>2, <3>3, <3>4
  <2> QED
    BY <1>4, <2>2, <2>3, <2>4, <2>5
<1> QED
  BY <1>2, <1>3, <1>4

\* What the next view is made of.
LEMMA NextViewIs ==
    CallView' = View(DOMAIN orders', Stage', taker'.id, taker'.filled, response'.success)
BY DEF CallView, View, Stage

\* A trade, as the contract has it.
LEMMA FillKeepsContract ==
    ASSUME TypeOK, RecordsInv, FillsInv, ~UnguardedAmends, FillResting
    PROVE  /\ Stage = "adding" /\ Stage' \in {"adding", "filled"}
           /\ taker'.id = taker.id /\ taker.id \notin DOMAIN orders
           /\ response' = response
           /\ \E q \in Quantity \ {0}, id \in DOMAIN orders :
                 /\ taker'.filled = taker.filled + q
                 /\ \/ DOMAIN orders' = DOMAIN orders \ {id}
                    \/ DOMAIN orders' = DOMAIN orders /\ Stage' = "filled"
<1> DEFINE n == FillQuantity
           resting == Fill(Resting, n)
<1>1. /\ Matching /\ Queue # <<>> /\ pc = "matching" /\ pc' = "matching"
      /\ taker' = Fill(taker, n) /\ fills' = Append(fills, TradeOf(n))
      /\ orders' = Settle(resting) /\ response' = response
  BY DEF FillResting, Matching
<1>2. TableAgrees(orders, levels) /\ taker.id \notin DOMAIN orders
  BY <1>1 DEF RecordsInv
<1>3. /\ Resting \in Order /\ Resting.id = Head(Queue).id /\ Head(Queue).id \in DOMAIN orders
      /\ Resting.filled < Resting.quantity
  BY <1>1, <1>2, FrontOf
<1>4. /\ n \in Quantity /\ n > 0 /\ n <= Remaining(Resting) /\ n <= Remaining(taker)
      /\ taker \in Order /\ taker.filled < taker.quantity
  BY <1>1, <1>2, FillQuantityWithin, TypeOfMatch
<1>5. n = Remaining(Resting) \/ n = Remaining(taker)
  BY DEF FillQuantity
<1>6. fills \in Seq(Trade) /\ TradeOf(n) \in Trade
  BY TakerFill DEF TypeOK
<1> HIDE DEF n
<1>7. /\ taker'.id = taker.id /\ taker'.quantity = taker.quantity
      /\ taker'.filled = taker.filled + n
  BY <1>1, <1>4, FillOf
<1>8. resting.id = Resting.id /\ resting.quantity = Resting.quantity
      /\ resting.filled = Resting.filled + n
  BY <1>3, <1>4, FillOf
<1>9. Remaining(taker) = taker.quantity - taker.filled
      /\ Remaining(Resting) = Resting.quantity - Resting.filled
  BY <1>3, <1>4, RemainingOf
<1>10. n \in Quantity \ {0} /\ taker.quantity \in Nat /\ taker.filled \in Nat
       /\ Resting.quantity \in Nat /\ Resting.filled \in Nat /\ n \in Nat
  BY <1>3, <1>4 DEF Order, Quantity
<1> HIDE DEF resting
<1>11. IsFilled(resting) \/ IsFilled(taker')
  BY <1>5, <1>7, <1>8, <1>9, <1>10 DEF IsFilled
<1>12. fills' # <<>>
  BY <1>1, <1>6, AppendProperties
<1>13. Stage = "adding" /\ Stage' \in {"adding", "filled"}
       /\ (IsFilled(taker') => Stage' = "filled")
  BY <1>1, <1>12 DEF Stage, Matching
<1>14. CASE IsFilled(resting)
  <2>1. DOMAIN orders' = DOMAIN orders \ {Resting.id}
    BY <1>1, <1>8, <1>14 DEF Settle, Without
  <2> QED
    BY <1>1, <1>2, <1>3, <1>7, <1>10, <1>13, <2>1
<1>15. CASE ~IsFilled(resting)
  <2>1. DOMAIN orders' = DOMAIN orders /\ Stage' = "filled"
    BY <1>1, <1>3, <1>8, <1>11, <1>13, <1>15 DEF Settle, Put
  <2> QED
    BY <1>1, <1>2, <1>3, <1>7, <1>10, <1>13, <2>1
<1> QED
  BY <1>14, <1>15

LEMMA StepsKeepContract ==
    ASSUME TypeOK, RecordsInv, FillsInv, SilentUntilReturn, ~UnguardedAmends, [Next]_vars
    PROVE  CallView' = CallView \/ CallView' \in Contract!Moves(CallView)
<1> DEFINE live == DOMAIN orders
           view == View(live, Stage, taker.id, taker.filled, response.success)
           moves == Contract!Moves(view)
           next(l, at, flag) == View(l, at, taker.id, taker.filled, flag)
<1> USE DEF book
<1>1. CallView = view /\ live \in SUBSET OrderIds /\ Contract!Moves(CallView) = moves
  BY CallViewIs DEF TypeOK
<1>2. CallView' = View(DOMAIN orders', Stage', taker'.id, taker'.filled, response'.success)
  BY NextViewIs
<1>3. /\ Stage = "idle" =>
            /\ next(live, "back", Failure) \in moves
            /\ \A i \in OrderIds :
                  View(live, "adding", i, taker.filled, response.success) \in moves
            /\ \A i \in live :
                  /\ next(live \ {i}, "back", Success) \in moves
                  /\ next(live, "back", Success) \in moves
                  /\ View(live \ {i}, "adding", i, taker.filled, response.success) \in moves
      /\ Stage = "back" => View(live, "idle", 0, 0, Failure) \in moves
      /\ Stage \in {"adding", "filled"} /\ taker.id \notin live =>
            next(live, "back", Success) \in moves
      /\ Stage = "adding" => next(live, "back", Failure) \in moves
      /\ Stage = "adding" /\ taker.id \notin live =>
            next(live \cup {taker.id}, "back", Success) \in moves
      /\ Stage = "adding" /\ taker.id \notin live =>
            \A q \in Quantity \ {0}, i \in live :
               /\ View(live, "filled", taker.id, taker.filled + q, response.success) \in moves
               /\ \A at \in {"adding", "filled"} :
                     View(live \ {i}, at, taker.id, taker.filled + q, response.success) \in moves
  BY <1>1, ContractMoves
<1>4. /\ pc = "idle" => Stage = "idle" /\ response.success = Failure /\ taker = NoOrder /\ fills = <<>>
      /\ pc = "returned" => Stage = "back"
      /\ pc \in {"adding", "matching", "matched"} => Stage \in {"adding", "filled"}
      /\ pc = "adding" => Stage = "adding"
      /\ ~IsFilled(taker) /\ pc \in {"adding", "matching", "matched"} => Stage = "adding"
      /\ pc = "matched" => taker.id \notin live
  BY DEF Stage, FillsInv, SilentUntilReturn, NoResponse, Failure, RecordsInv
<1>5. /\ pc' = "returned" => Stage' = "back"
      /\ pc' = "idle" => Stage' = "idle"
      /\ pc' = "adding" /\ fills' = <<>> => Stage' = "adding"
  BY DEF Stage
<1> HIDE DEF view, moves, next
<1>6. ASSUME UNCHANGED <<orders, taker, fills, response>>, Stage' = Stage
      PROVE  CallView' = CallView
  BY <1>1, <1>2, <1>6 DEF view
<1>7. ASSUME pc' = "returned", taker' = taker, response'.success = Success,
             DOMAIN orders' = live
      PROVE  CallView' = next(live, "back", Success)
  BY <1>2, <1>5, <1>7 DEF next
<1>8. ASSUME pc' = "returned", taker' = taker, response'.success = Failure,
             DOMAIN orders' = live
      PROVE  CallView' = next(live, "back", Failure)
  BY <1>2, <1>5, <1>8 DEF next
<1>9. CASE Reject \/ KillFOK
  <2>1. pc' = "returned" /\ taker' = taker /\ response'.success = Failure /\ orders' = orders
    BY <1>9 DEF Reject, KillFOK, Respond, Failure
  <2>2. Stage = "adding"
    BY <1>4, <1>9 DEF Reject, KillFOK
  <2> QED
    BY <1>1, <1>3, <1>8, <2>1, <2>2
<1>10. CASE Admit \/ StopMatching \/ RefreshBest \/ DropGhost \/ SelfTradeStop
  <2>1. UNCHANGED <<orders, taker, fills, response>>
    BY <1>10 DEF Admit, StopMatching, RefreshBest, DropGhost, SelfTradeStop
  <2>2. Stage' = Stage
    BY <1>10, <2>1 DEF Admit, StopMatching, RefreshBest, DropGhost, SelfTradeStop,
                       Matching, Stage, IsFilled
  <2> QED
    BY <1>6, <2>1, <2>2
<1>11. CASE FillResting
  <2>1. PICK q \in Quantity \ {0}, id \in live :
           /\ taker'.filled = taker.filled + q
           /\ \/ DOMAIN orders' = live \ {id}
              \/ DOMAIN orders' = live /\ Stage' = "filled"
    BY <1>11, FillKeepsContract
  <2>2. /\ Stage = "adding" /\ Stage' \in {"adding", "filled"}
        /\ taker'.id = taker.id /\ taker.id \notin live /\ response' = response
    BY <1>11, FillKeepsContract
  <2> QED
    BY <1>1, <1>2, <1>3, <2>1, <2>2
<1>12. CASE FinishIOC \/ Complete
  <2>1. /\ pc = "matched" /\ pc' = "returned" /\ taker' = taker /\ response'.success = Success
        /\ orders' = orders
    <3>1. PICK avg : pc = "matched" /\ orders' = orders /\ \E earlier : Conclude(earlier, avg)
      BY <1>12 DEF FinishIOC, Complete
    <3> QED
      BY <3>1 DEF Conclude, Respond, Success
  <2> QED
    BY <1>1, <1>3, <1>4, <1>7, <2>1
<1>13. CASE Rest
  <2>1. /\ pc = "matched" /\ pc' = "returned" /\ taker' = taker /\ response'.success = Success
        /\ orders' = Put(orders, taker.id, taker) /\ ~IsFilled(taker)
    BY <1>13 DEF Rest, CanRest, Conclude, Respond, Success
  <2>2. DOMAIN orders' = live \cup {taker.id}
    BY <2>1 DEF Put
  <2>3. CallView' = next(live \cup {taker.id}, "back", Success)
    BY <1>2, <1>5, <2>1, <2>2 DEF next
  <2> QED
    BY <1>1, <1>3, <1>4, <2>1, <2>3
<1>14. CASE Return
  <2>1. /\ Stage = "back" /\ Stage' = "idle" /\ taker'.id = 0 /\ taker'.filled = 0
        /\ response'.success = Failure /\ orders' = orders
    BY <1>4, <1>5, <1>14 DEF Return, NoOrder, NoResponse, Failure
  <2> QED
    BY <1>1, <1>2, <1>3, <2>1
<1>15. ASSUME pc = "idle", pc' = "adding", fills' = fills, response' = response,
              taker'.filled = 0
       PROVE  CallView' = View(DOMAIN orders', "adding", taker'.id, taker.filled, response.success)
  BY <1>2, <1>4, <1>5, <1>15 DEF NoOrder
<1>16. ASSUME NEW id \in OrderIds, NEW side \in Sides, NEW price \in Prices,
              NEW quantity \in Amounts, NEW kind \in OrderKinds,
              AddOrder(id, side, price, quantity, kind)
       PROVE  CallView' \in Contract!Moves(CallView)
  <2>1. taker'.id = id /\ taker'.filled = 0
    BY <1>16 DEF AddOrder, AsPriced, NewOrder
  <2>2. pc = "idle" /\ pc' = "adding" /\ fills' = fills /\ response' = response /\ orders' = orders
    BY <1>16 DEF AddOrder, Call
  <2> QED
    BY <1>1, <1>3, <1>4, <1>15, <2>1, <2>2
<1>17. ASSUME NEW id \in OrderIds, NEW price \in Prices, NEW quantity \in Amounts,
              Move(id, price, quantity)
       PROVE  CallView' \in Contract!Moves(CallView)
  <2>1. taker'.id = id /\ taker'.filled = 0
    BY <1>17 DEF Move, AsPriced, NewOrder
  <2>2. /\ pc = "idle" /\ pc' = "adding" /\ fills' = fills /\ response' = response
        /\ id \in live /\ DOMAIN orders' = live \ {id}
    BY <1>17 DEF Move, Call, Withdraw, Without
  <2> QED
    BY <1>1, <1>3, <1>4, <1>15, <2>1, <2>2
<1>18. ASSUME NEW id \in OrderIds, Cancel(id) PROVE CallView' \in Contract!Moves(CallView)
  <2>1. /\ pc = "idle" /\ pc' = "returned" /\ taker' = taker /\ response'.success = Success
        /\ id \in live /\ DOMAIN orders' = live \ {id}
    BY <1>18 DEF Cancel, Call, Withdraw, Without, Respond, Success
  <2>2. CallView' = next(live \ {id}, "back", Success)
    BY <1>2, <1>5, <2>1 DEF next
  <2> QED
    BY <1>1, <1>3, <1>4, <2>1, <2>2
<1>19. ASSUME NEW id \in OrderIds, NEW quantity \in Amounts, Amend(id, quantity)
       PROVE  CallView' \in Contract!Moves(CallView)
  <2>1. /\ pc = "idle" /\ pc' = "returned" /\ taker' = taker /\ response'.success = Success
        /\ id \in live /\ DOMAIN orders' = live
    BY <1>19 DEF Amend, Call, RespondBare, Respond, Success
  <2> QED
    BY <1>1, <1>3, <1>4, <1>7, <2>1
<1>20. CASE \/ \E id \in OrderIds : OrderNotFound(id) \/ ReplaceNotFound(id)
            \/ FlushPending
  <2>1. /\ pc = "idle" /\ pc' = "returned" /\ taker' = taker /\ response'.success = Failure
        /\ orders' = orders
    BY <1>4, <1>20 DEF OrderNotFound, ReplaceNotFound, FlushPending, Call, RespondBare, Respond, Failure
  <2> QED
    BY <1>1, <1>3, <1>4, <1>8, <2>1
<1>21. CASE (\E installed \in CallbackSets : SetCallbacks(installed)) \/ UNCHANGED vars
  <2>1. UNCHANGED <<orders, taker, fills, response, pc>>
    BY <1>21 DEF SetCallbacks, vars
  <2>2. Stage' = Stage
    BY <2>1 DEF Stage, IsFilled
  <2> QED
    BY <1>6, <2>1, <2>2
<1>22. CASE Client
  BY <1>16, <1>17, <1>18, <1>19, <1>20, <1>21, <1>22 DEF Client
<1> QED
  BY <1>9, <1>10, <1>11, <1>12, <1>13, <1>14, <1>21, <1>22 DEF Next, Step

\* The book keeps the contract MatchingEngine is modelled with: which orders a
\* call takes out or puts in and what it reports, one trade at a time.
THEOREM KeepsContractAlways == Spec => KeepsContract
<1>1. Init => CallView = Contract!Resting({})
  <2> SUFFICES ASSUME Init PROVE CallView = Contract!Resting({})
    OBVIOUS
  <2>1. /\ DOMAIN orders = {} /\ Stage = "idle" /\ taker.id = 0 /\ taker.filled = 0
        /\ response.success = Failure
    BY DEF Init, Stage, NoOrder, NoResponse, Failure
  <2> QED
    BY <2>1, CallViewIs, RestingIs
<1>2. TypeOK /\ RecordsInv /\ FillsInv /\ SilentUntilReturn /\ [Next]_vars
         => [~UnguardedAmends => CallView' \in Contract!Moves(CallView)]_CallView
  BY StepsKeepContract
<1> QED
  BY <1>1, <1>2, TypeCorrect, RecordsInvAlways, FillsInvAlways, SilentAlways, PTL
     DEF Spec, KeepsContract

-----------------------------------------------------------------------------
(* Sums over a set and sums over a sequence *)

\* Numbers that belong to different elements, each at most that of its element,
\* come to no more than the sum over the set.
LEMMA CoveredBySet ==
    ASSUME NEW S, IsFiniteSet(S), NEW f, \A x \in S : f[x] \in Nat,
           NEW h, AddsUp(h, f, S),
           NEW P, NEW ps \in Seq(P), Distinct(ps)
    PROVE  \A t \in Seq(Nat) :
              /\ Len(t) = Len(ps)
              /\ \A i \in 1 .. Len(ps) : t[i] <= IF ps[i] \in S THEN f[ps[i]] ELSE 0
              => SumOf(t) <= h[S]
<1> DEFINE Within(t, T) == /\ Len(t) = Len(ps)
                           /\ \A i \in 1 .. Len(ps) :
                                 t[i] <= IF ps[i] \in T THEN f[ps[i]] ELSE 0
           Holds(n) == \A T \in SUBSET S, t \in Seq(Nat) :
                          Cardinality(T) = n /\ Within(t, T) => SumOf(t) <= h[T]
           most == Cardinality(S)
           K == {n \in 0 .. most : Holds(n)}
<1>1. most \in Nat /\ Len(ps) \in Nat
  BY FS_CardinalityType, LenProperties
<1>2. ASSUME NEW T \in SUBSET S
      PROVE  /\ IsFiniteSet(T) /\ Cardinality(T) \in Nat
             /\ Cardinality(T) = 0 <=> T = {}
  BY FS_Subset, FS_CardinalityType, FS_EmptySet
<1>3. ASSUME NEW t \in Seq(Nat)
      PROVE  SumOf(t) \in Nat /\ Len(t) \in Nat /\ \A i \in 1 .. Len(t) : t[i] \in Nat
  <2>1. Len(t) \in Nat /\ \A i \in 1 .. Len(t) : t[i] \in Nat
    BY LenProperties, ElementOfSeq
  <2>2. PICK p : Sums(p, t) /\ p[Len(t)] = SumOf(t)
    BY SumsExist
  <2> QED
    BY <2>1, <2>2 DEF Sums
<1>4. 0 \in K
  <2> SUFFICES ASSUME NEW T \in SUBSET S, NEW t \in Seq(Nat), Cardinality(T) = 0, Within(t, T)
               PROVE  SumOf(t) <= h[T]
    BY <1>1
  <2>1. T = {}
    BY <1>2
  <2>2. \A i \in 1 .. Len(t) : t[i] = 0
    BY <1>3, <2>1
  <2>3. SumOf(t) = 0 /\ h[T] = 0
    BY <2>1, <2>2, SumOfNone DEF AddsUp
  <2> QED
    BY <2>3
<1>5. ASSUME NEW n \in 0 .. most - 1, n \in K PROVE n + 1 \in K
  <2>1. n \in Nat /\ n + 1 \in 0 .. most /\ n + 1 # 0
    BY <1>1
  <2>2. ASSUME NEW T \in SUBSET S, NEW t \in Seq(Nat), Cardinality(T) = n + 1, Within(t, T)
        PROVE  SumOf(t) <= h[T]
    <3> DEFINE x == OneOf(T)
               rest == T \ {x}
               less == [i \in 1 .. Len(ps) |-> IF ps[i] = x THEN 0 ELSE t[i]]
    <3>1. T # {}
      BY <1>2, <2>1, <2>2
    <3>2. /\ x \in T /\ x \in S /\ rest \in SUBSET S
          /\ Cardinality(rest) = n
      <4>1. x \in T /\ Cardinality(rest) = Cardinality(T) - 1
        BY <1>2, <3>1, SmallerSet
      <4>2. Cardinality(T) = n + 1
        BY <2>2
      <4> HIDE DEF x
      <4>3. Cardinality(rest) = n
        <5> HIDE DEF rest
        <5> QED
          BY <2>1, <4>1, <4>2
      <4> QED
        BY <4>1, <4>3
    <3>3. h[T] = f[x] + h[rest] /\ h[rest] \in Nat /\ f[x] \in Nat
      BY <3>1, <3>2 DEF AddsUp
    <3>4. \A i \in 1 .. Len(ps) : t[i] \in Nat
      BY <1>3, <2>2
    <3>5. less \in [1 .. Len(ps) -> Nat]
      BY <3>4
    <3>6. /\ less \in Seq(Nat) /\ Len(less) = Len(ps)
          /\ \A i \in 1 .. Len(ps) : less[i] = IF ps[i] = x THEN 0 ELSE t[i]
      BY <1>1, <3>5, FunctionIsSeq
    <3> HIDE DEF less, x
    <3>7. Within(less, rest)
      <4>1. ASSUME NEW i \in 1 .. Len(ps)
            PROVE  less[i] <= IF ps[i] \in rest THEN f[ps[i]] ELSE 0
        <5>1. CASE ps[i] = x
          BY <3>6, <5>1
        <5>2. CASE ps[i] # x
          BY <2>2, <3>6, <5>2
        <5> QED
          BY <5>1, <5>2
      <4> QED
        BY <3>6, <4>1
    <3>8. SumOf(less) <= h[rest]
      BY <1>5, <3>2, <3>6, <3>7
    <3>9. LessBy(less, t, f[x])
      <4>1. \E k : \A i \in 1 .. Len(ps) : i # k => ps[i] # x
        BY DEF Distinct
      <4>2. PICK k : \A i \in 1 .. Len(ps) : i # k => ps[i] # x
        BY <4>1
      <4>3. ASSUME NEW i \in 1 .. Len(t)
            PROVE  IF i = k THEN t[i] <= less[i] + f[x] ELSE t[i] <= less[i]
        <5>1. i \in 1 .. Len(ps)
          BY <2>2
        <5>2. CASE ps[i] # x
          <6>1. less[i] = t[i]
            BY <3>6, <5>1, <5>2
          <6> QED
            BY <3>3, <3>4, <5>1, <6>1
        <5>3. CASE ps[i] = x
          <6>1. i = k /\ less[i] = 0 /\ t[i] <= f[x]
            BY <2>2, <3>2, <3>6, <4>2, <5>1, <5>3
          <6> QED
            BY <3>3, <3>4, <5>1, <6>1
        <5> QED
          BY <5>2, <5>3
      <4> QED
        BY <2>2, <3>6, <4>3 DEF LessBy
    <3>10. SumOf(t) <= SumOf(less) + f[x]
      BY <3>3, <3>6, <3>9, SumLessBy
    <3>11. SumOf(t) \in Nat /\ SumOf(less) \in Nat
      BY <1>3, <3>6
    <3> HIDE DEF rest
    <3> QED
      BY <3>3, <3>8, <3>10, <3>11
  <2> QED
    BY <2>1, <2>2
<1> HIDE DEF K
<1>6. \A n \in 0 .. most : n \in K
  BY <1>1, <1>4, <1>5, InductionUpTo
<1>7. most \in K
  BY <1>1, <1>6
<1>8. Holds(most)
  BY <1>7 DEF K
<1> QED
  BY <1>8

-----------------------------------------------------------------------------
(* What a level has for an order, as the ideal book adds it up *)

\* What Volume adds for one more entry.
AddEntry == [p \in Nat \X EntrySet(OrderIds) |-> p[1] + p[2].quantity]

\* Volume folds the entries with AddEntry.
LEMMA VolumeFolds ==
    ASSUME NEW queue \in Seq(EntrySet(OrderIds))
    PROVE  FoldsTo(Ideal!Volume(queue), AddEntry, Nat, 0, queue)
<1> DEFINE Sum(f) == [s \in SUBSET DOMAIN queue |->
                        IF s = {} THEN 0 ELSE f[s \ {Max(s)}] + queue[Max(s)].quantity]
           h == CHOOSE f : f = Sum(f)
<1>1. Len(queue) \in Nat /\ DOMAIN queue = 1 .. Len(queue)
  BY LenProperties
<1>2. AddEntry \in [Nat \X EntrySet(OrderIds) -> Nat]
  BY QModAssumption DEF AddEntry, EntrySet, Quantity
<1>3. PICK g \in [SUBSET DOMAIN queue -> Nat] : FoldsWith(g, AddEntry, Nat, 0, queue)
  BY <1>2, FoldExists
<1>4. ASSUME NEW s \in (SUBSET DOMAIN queue) \ {{}}
      PROVE  /\ s \ {Max(s)} \in SUBSET DOMAIN queue
             /\ queue[Max(s)] \in EntrySet(OrderIds)
  <2>1. Max(s) \in s
    BY <1>1, MaxOfPositions
  <2> QED
    BY <1>1, <2>1, ElementOfSeq
<1>5. ASSUME NEW n \in Nat, NEW entry \in EntrySet(OrderIds)
      PROVE  AddEntry[<<n, entry>>] = n + entry.quantity
  BY DEF AddEntry
<1>6. g = Sum(g)
  <2>1. ASSUME NEW s \in SUBSET DOMAIN queue
        PROVE  g[s] = IF s = {} THEN 0 ELSE g[s \ {Max(s)}] + queue[Max(s)].quantity
    <3>1. CASE s = {}
      BY <1>3, <3>1 DEF FoldsWith
    <3>2. CASE s # {}
      <4>1. g[s \ {Max(s)}] \in Nat
        BY <1>3, <1>4, <3>2
      <4>2. g[s] = AddEntry[<<g[s \ {Max(s)}], queue[Max(s)]>>]
        BY <1>3, <3>2, <4>1 DEF FoldsWith
      <4> QED
        BY <1>4, <1>5, <3>2, <4>1, <4>2
    <3> QED
      BY <3>1, <3>2
  <2> QED
    BY <2>1
<1>7. h = Sum(h)
  <2> HIDE DEF Sum
  <2> QED
    BY <1>6
<1>8. Ideal!Volume(queue) = h[DOMAIN queue]
  BY DEF Ideal!Volume, Ideal!FoldLeft, Ideal!MapThenFoldSet, Ideal!Max, Max
<1> HIDE DEF h
<1>9. FoldsWith(h, AddEntry, Nat, 0, queue)
  <2>1. h[{}] = 0
    BY <1>7
  <2>2. ASSUME NEW s \in (SUBSET DOMAIN queue) \ {{}}, h[s \ {Max(s)}] \in Nat
        PROVE  h[s] = AddEntry[<<h[s \ {Max(s)}], queue[Max(s)]>>]
    <3>1. h[s] = h[s \ {Max(s)}] + queue[Max(s)].quantity
      BY <1>7
    <3> QED
      BY <1>4, <1>5, <2>2, <3>1
  <2> QED
    BY <2>1, <2>2 DEF FoldsWith
<1> QED
  BY <1>8, <1>9 DEF FoldsTo

\* It is the sum of the quantities of the nodes.
LEMMA VolumeIsDepth ==
    ASSUME NEW queue \in Seq(Node(OrderIds))
    PROVE  Ideal!Volume(Entries(queue)) = Depth(queue)
<1> DEFINE n == Len(queue)
           seen == Entries(queue)
<1>1. /\ n \in Nat
      /\ Quantities(queue) \in Seq(Nat) /\ Len(Quantities(queue)) = n
      /\ \A i \in 1 .. n : /\ Quantities(queue)[i] = queue[i].quantity
                           /\ queue[i].quantity \in Quantity
  BY AmountsAre
<1>2. /\ seen \in Seq(EntrySet(OrderIds)) /\ Len(seen) = n /\ DOMAIN seen = 1 .. n
      /\ \A i \in 1 .. n : /\ seen[i] \in EntrySet(OrderIds)
                           /\ seen[i].quantity = queue[i].quantity
  BY EntriesAre
<1>3. PICK p : Sums(p, Quantities(queue)) /\ p[n] = Depth(queue)
  BY <1>1, SumsExist DEF Depth
<1> HIDE DEF seen
<1>4. PICK h : /\ FoldsWith(h, AddEntry, Nat, 0, seen)
               /\ Ideal!Volume(seen) = h[1 .. n]
  BY <1>2, VolumeFolds DEF FoldsTo
<1>5. /\ h[1 .. 0] = 0
      /\ \A i \in 0 .. n : h[1 .. i] \in Nat
      /\ \A i \in 1 .. n : h[1 .. i] = AddEntry[<<h[1 .. i - 1], seen[i]>>]
  <2>1. AddEntry \in [Nat \X EntrySet(OrderIds) -> Nat]
    BY QModAssumption DEF AddEntry, EntrySet, Quantity
  <2>2. RunsAs(h, AddEntry, Nat, 0, seen)
    BY <1>2, <1>4, <2>1, FoldRuns
  <2> QED
    BY <1>2, <2>2 DEF RunsAs
<1> HIDE DEF n
<1> DEFINE S == {i \in 0 .. n : h[1 .. i] = p[i]}
<1>6. 0 \in S
  BY <1>1, <1>3, <1>5 DEF Sums
<1>7. ASSUME NEW i \in 0 .. n - 1, i \in S PROVE i + 1 \in S
  <2> DEFINE j == i + 1
             a == h[1 .. i]
             entry == seen[j]
  <2>1. j \in 1 .. n /\ j \in 0 .. n /\ j - 1 = i /\ i \in 0 .. n
    BY <1>1
  <2>2. h[1 .. j] = AddEntry[<<a, entry>>] /\ a \in Nat
    BY <1>5, <2>1
  <2>3. entry \in EntrySet(OrderIds) /\ entry.quantity = queue[j].quantity
    BY <1>2, <2>1
  <2>4. p[j] = p[i] + queue[j].quantity
    BY <1>1, <1>3, <2>1 DEF Sums
  <2>5. a = p[i]
    BY <1>7
  <2> HIDE DEF j, a, entry
  <2>6. AddEntry[<<a, entry>>] = a + entry.quantity
    BY <2>2, <2>3 DEF AddEntry
  <2>7. j \in S
    BY <2>1, <2>2, <2>3, <2>4, <2>5, <2>6
  <2> QED
    BY <2>7 DEF j
<1> HIDE DEF S
<1>8. \A i \in 0 .. n : i \in S
  BY <1>1, <1>6, <1>7, InductionUpTo
<1>9. n \in S
  BY <1>1, <1>8
<1> QED
  BY <1>3, <1>4, <1>9 DEF S, seen

\* The sum over the prices an order crosses.
LEMMA LiquidityAddsUp ==
    ASSUME NEW order, IsFiniteSet(Ideal!Crossed(order)), NEW f,
           \A price \in Ideal!Crossed(order) :
              /\ f[price] \in Nat
              /\ f[price] = Ideal!Volume(QueuesView[Ideal!Other(order.side)][price])
    PROVE  \E h : /\ AddsUp(h, f, Ideal!Crossed(order))
                  /\ Ideal!Liquidity(order) = h[Ideal!Crossed(order)]
<1> DEFINE S == Ideal!Crossed(order)
           V(price) == Ideal!Volume(QueuesView[Ideal!Other(order.side)][price])
           Sum(g) == [s \in SUBSET S |->
                        IF s = {} THEN 0
                        ELSE V(CHOOSE x \in s : TRUE) + g[s \ {CHOOSE x \in s : TRUE}]]
           h == CHOOSE g : g = Sum(g)
<1>1. PICK g : AddsUp(g, f, S)
  BY AddsUpExists
<1>2. ASSUME NEW s \in (SUBSET S) \ {{}}
      PROVE  OneOf(s) \in s /\ V(OneOf(s)) = f[OneOf(s)] /\ f[OneOf(s)] \in Nat
  <2>1. OneOf(s) \in s
    BY DEF OneOf
  <2> QED
    BY <2>1
<1>3. Ideal!Liquidity(order) = h[S]
  BY DEF Ideal!Liquidity, Ideal!MapThenSumSet, Ideal!MapThenFoldSet
<1> HIDE DEF S, V
<1>4. g = Sum(g)
  <2>1. ASSUME NEW s \in SUBSET S
        PROVE  g[s] = IF s = {} THEN 0
                      ELSE V(CHOOSE x \in s : TRUE) + g[s \ {CHOOSE x \in s : TRUE}]
    <3>1. CASE s = {}
      BY <1>1, <3>1 DEF AddsUp
    <3>2. CASE s # {}
      BY <1>1, <1>2, <3>2 DEF AddsUp, OneOf
    <3> QED
      BY <3>1, <3>2
  <2>2. g \in [SUBSET S -> Nat]
    BY <1>1 DEF AddsUp
  <2> QED
    BY <2>1, <2>2
<1>5. h = Sum(h)
  <2> HIDE DEF Sum
  <2> QED
    BY <1>4
<1> HIDE DEF h
<1>6. \A s \in (SUBSET S) \ {{}} : h[s] = f[OneOf(s)] + h[s \ {OneOf(s)}]
  BY <1>2, <1>5 DEF OneOf
<1>7. h[{}] = 0
  BY <1>5
<1>8. \A x \in S : f[x] \in Nat
  BY DEF S
<1>9. \A s \in SUBSET S : h[s] \in Nat
  BY <1>6, <1>7, <1>8, SumsOverSets DEF S
<1>10. h \in [SUBSET S -> Nat]
  BY <1>5, <1>9
<1>11. AddsUp(h, f, S)
  BY <1>6, <1>7, <1>10 DEF AddsUp
<1> QED
  BY <1>3, <1>11 DEF S

-----------------------------------------------------------------------------
(* What clients see *)

\* The levels without their index flags.
Seen(lv) == [side \in Sides |-> [price \in Prices |-> Entries(lv[side][price])]]

\* The quantities of the nodes are those of the orders.
LEMMA QueuesSeen == TypeOK /\ RecordsInv /\ ~UnguardedAmends => QueuesView = Seen(levels)
<1> SUFFICES ASSUME TypeOK, TableAgrees(orders, levels) PROVE QueuesView = Seen(levels)
  BY DEF RecordsInv
<1>1. ASSUME NEW side \in Sides, NEW price \in Prices
      PROVE  QueueView(side, price) = Entries(levels[side][price])
  <2> DEFINE queue == levels[side][price]
  <2>1. queue \in Seq(Node(OrderIds)) /\ DOMAIN queue = 1 .. Len(queue)
    <3>1. queue \in Seq(Node(OrderIds))
      BY DEF TypeOK
    <3> QED
      BY <3>1, LenProperties
  <2>2. ASSUME NEW i \in 1 .. Len(queue)
        PROVE  [id |-> queue[i].id, quantity |-> Remaining(orders[queue[i].id])]
                  = EntryOf(queue[i])
    <3>1. queue[i] \in Range(queue)
      BY <2>1 DEF Range
    <3>2. queue[i] = NodeOf(orders[queue[i].id])
      BY <3>1 DEF TableAgrees, LevelAgrees
    <3>3. queue[i].quantity = Remaining(orders[queue[i].id])
      BY <3>2 DEF NodeOf
    <3> QED
      BY <3>3 DEF EntryOf
  <2> HIDE DEF queue
  <2>3. QueueView(side, price) =
           [i \in DOMAIN queue |->
              [id |-> queue[i].id, quantity |-> Remaining(orders[queue[i].id])]]
    BY DEF QueueView, queue
  <2>4. QueueView(side, price) = Entries(queue)
    BY <2>1, <2>2, <2>3 DEF Entries
  <2> QED
    BY <2>4 DEF queue
<1> QED
  BY <1>1 DEF QueuesView, Seen

\* The same after a step.
LEMMA QueuesSeenNext == (TypeOK /\ RecordsInv)' /\ ~UnguardedAmends => QueuesView' = Seen(levels')
<1>1. (TypeOK /\ RecordsInv /\ ~UnguardedAmends => QueuesView = Seen(levels))'
  BY QueuesSeen, PTL
<1>2. Seen(levels)' = Seen(levels')
  BY DEF Seen
<1> QED
  BY <1>1, <1>2

LEMMA SeenLevel ==
    ASSUME NEW lv, NEW side \in Sides, NEW price \in Prices
    PROVE  Seen(lv)[side][price] = Entries(lv[side][price])
BY DEF Seen

\* A change of one level is a change of one queue.
LEMMA SeenChange ==
    ASSUME NEW lv \in Levels, NEW side \in Sides, NEW price \in Prices, NEW queue
    PROVE  Seen([lv EXCEPT ![side][price] = queue])
              = [Seen(lv) EXCEPT ![side][price] = Entries(queue)]
<1> DEFINE new == [lv EXCEPT ![side][price] = queue]
<1>1. \A s \in Sides, p \in Prices :
           new[s][p] = IF s = side /\ p = price THEN queue ELSE lv[s][p]
  BY DEF Levels
<1> HIDE DEF new
<1> DEFINE e == Entries(queue)
           all == [s \in Sides |-> [p \in Prices |->
                      IF s = side /\ p = price THEN e ELSE Entries(lv[s][p])]]
<1>2. Seen(new) = all
  <2>1. \A s \in Sides, p \in Prices :
           Entries(new[s][p]) = IF s = side /\ p = price THEN e ELSE Entries(lv[s][p])
    BY <1>1
  <2> HIDE DEF e
  <2> QED
    BY <2>1 DEF Seen
<1>3. [Seen(lv) EXCEPT ![side][price] = e] = all
  <2> HIDE DEF e
  <2>1. Seen(lv)[side] = [p \in Prices |-> Entries(lv[side][p])]
    BY DEF Seen
  <2>2. [Seen(lv)[side] EXCEPT ![price] = e] =
           [p \in Prices |-> IF p = price THEN e ELSE Entries(lv[side][p])]
    BY <2>1
  <2>3. [Seen(lv) EXCEPT ![side][price] = e] =
           [Seen(lv) EXCEPT ![side] = [Seen(lv)[side] EXCEPT ![price] = e]]
    OBVIOUS
  <2> DEFINE inner == [p \in Prices |-> IF p = price THEN e ELSE Entries(lv[side][p])]
  <2>4. [Seen(lv) EXCEPT ![side] = inner] =
           [s \in Sides |-> IF s = side THEN inner ELSE [p \in Prices |-> Entries(lv[s][p])]]
    <3> HIDE DEF inner
    <3> QED
      BY DEF Seen
  <2>5. all = [s \in Sides |-> IF s = side THEN inner ELSE [p \in Prices |-> Entries(lv[s][p])]]
    <3>1. ASSUME NEW s \in Sides
          PROVE  [p \in Prices |-> IF s = side /\ p = price THEN e ELSE Entries(lv[s][p])]
                    = IF s = side THEN inner ELSE [p \in Prices |-> Entries(lv[s][p])]
      OBVIOUS
    <3> QED
      BY <3>1
  <2> HIDE DEF inner, all
  <2> QED
    BY <2>2, <2>3, <2>4, <2>5 DEF inner
<1> QED
  BY <1>1, <1>2, <1>3 DEF new

\* The order being matched, as clients see it.
ViewOf(id, side, limit, quantity, patience, maker) ==
    [id |-> id, side |-> side, limit |-> limit, quantity |-> quantity,
     patience |-> patience, maker |-> maker]

LimitOf(order) == IF order.type = "Market" THEN InvalidPrice ELSE order.price
IsMaker(order) == order.type = "PostOnly" /\ PostOnlyRejection

Incoming(order) == ViewOf(order.id, order.side, LimitOf(order), Remaining(order),
                          PatienceOf(order), IsMaker(order))

\* It is the taker from its admission to the end of its matching.
LEMMA IncomingIs ==
    IncomingView = IF pc \in {"matching", "matched"} THEN Incoming(taker) ELSE Ideal!Nobody
BY DEF IncomingView, Ideal!Nobody, Incoming, ViewOf, LimitOf, IsMaker

LEMMA IncomingIsNext ==
    IncomingView' = IF pc' \in {"matching", "matched"} THEN Incoming(taker') ELSE Ideal!Nobody
BY DEF IncomingView, Ideal!Nobody, Incoming, ViewOf, LimitOf, IsMaker, PatienceOf, IsIOC, IsFOK, Remaining

LEMMA ViewFields ==
    ASSUME NEW id, NEW side, NEW limit, NEW quantity, NEW patience, NEW maker, NEW q
    PROVE  /\ ViewOf(id, side, limit, quantity, patience, maker).id = id
           /\ ViewOf(id, side, limit, quantity, patience, maker).side = side
           /\ ViewOf(id, side, limit, quantity, patience, maker).limit = limit
           /\ ViewOf(id, side, limit, quantity, patience, maker).quantity = quantity
           /\ ViewOf(id, side, limit, quantity, patience, maker).patience = patience
           /\ [ViewOf(id, side, limit, quantity, patience, maker) EXCEPT !.quantity = q]
                 = ViewOf(id, side, limit, q, patience, maker)
BY DEF ViewOf

\* Its fields.
LEMMA IncomingFields ==
    ASSUME NEW order
    PROVE  /\ Incoming(order).id = order.id
           /\ Incoming(order).side = order.side
           /\ Incoming(order).limit = LimitOf(order)
           /\ Incoming(order).quantity = Remaining(order)
           /\ Incoming(order).patience = PatienceOf(order)
BY ViewFields DEF Incoming

LEMMA IncomingMaker ==
    ASSUME NEW order, Incoming(order).maker PROVE IsMaker(order)
BY Zenon DEF Incoming, ViewOf

LEMMA IncomingSomebody ==
    ASSUME NEW order, order.id \in OrderIds
    PROVE  Incoming(order) # Ideal!Nobody
<1>1. Incoming(order).id = order.id /\ order.id # 0
  BY IncomingFields, ConstantTypes
<1>2. Ideal!Nobody.id = 0
  BY DEF Ideal!Nobody
<1> QED
  BY <1>1, <1>2

LEMMA ViewType ==
    ASSUME NEW id \in OrderIds, NEW side \in Sides, NEW limit \in Prices \cup {InvalidPrice},
           NEW quantity \in Quantity, NEW patience \in Ideal!Patience, NEW maker \in BOOLEAN
    PROVE  ViewOf(id, side, limit, quantity, patience, maker) \in Ideal!Arrival
BY DEF ViewOf, Ideal!Arrival, Ideal!Quantity, Quantity

\* An order whose limit is a price is one the ideal book may receive.
LEMMA IncomingType ==
    ASSUME NEW order \in Order, order.id \in OrderIds,
           order.type # "Market" => order.price \in Prices,
           Remaining(order) \in Quantity
    PROVE  Incoming(order) \in Ideal!Arrival
<1>1. /\ order.side \in Sides /\ LimitOf(order) \in Prices \cup {InvalidPrice}
      /\ PatienceOf(order) \in Ideal!Patience
  BY DEF Order, LimitOf, PatienceOf, Ideal!Patience
<1>2. IsMaker(order) \in BOOLEAN
  BY DEF IsMaker
<1> QED
  BY <1>1, <1>2, ViewType DEF Incoming

-----------------------------------------------------------------------------
(* What an order may trade with *)

\* An order with a limit of its own, or none.
Priced(order) ==
    /\ order \in Order
    /\ order.type # "Market" => order.price \in Prices

\* Two sides.
LEMMA OtherIs == \A side \in Sides : Ideal!Other(side) = Opposite(side) /\ Opposite(side) \in Sides
BY DEF Ideal!Other, Opposite, Sides

\* The ideal book and the code accept the same levels.
LEMMA CrossedIs ==
    ASSUME NormalPrices, levels \in Levels, QueuesView = Seen(levels),
           NEW order, Priced(order)
    PROVE  /\ Ideal!Crossed(Incoming(order)) =
                 {price \in Prices : /\ Accepts(order, price)
                                     /\ levels[Opposite(order.side)][price] # <<>>}
           /\ Ideal!Other(Incoming(order).side) = Opposite(order.side)
           /\ order.side \in Sides /\ Opposite(order.side) \in Sides
<1> DEFINE side == Opposite(order.side)
<1>1. /\ order.side \in Sides /\ side \in Sides
      /\ Ideal!Other(Incoming(order).side) = side
  BY OtherIs, IncomingFields DEF Priced, Order
<1>2. ASSUME NEW price \in Prices
      PROVE  QueuesView[side][price] # <<>> <=> levels[side][price] # <<>>
  <2>1. QueuesView[side][price] = Entries(levels[side][price])
    BY <1>1 DEF Seen
  <2>2. levels[side][price] \in Seq(Node(OrderIds))
    BY <1>1 DEF Levels
  <2>3. /\ Entries(levels[side][price]) \in Seq(EntrySet(OrderIds))
        /\ Len(Entries(levels[side][price])) = Len(levels[side][price])
    BY <2>2, EntriesAre
  <2> QED
    BY <2>1, <2>2, <2>3, EmptySeq
<1>3. ASSUME NEW price \in Prices
      PROVE  Ideal!Accepts(Incoming(order), price) <=> Accepts(order, price)
  <2>1. Incoming(order).limit = LimitOf(order) /\ Incoming(order).side = order.side
    BY IncomingFields
  <2>2. CASE order.type = "Market"
    BY <2>1, <2>2 DEF Ideal!Accepts, Accepts, LimitOf
  <2>3. CASE order.type # "Market"
    <3>1. LimitOf(order) = order.price /\ order.price \in Prices
      BY <2>3 DEF LimitOf, Priced
    <3>2. order.price < InvalidPrice /\ order.price \in Int /\ price \in Int
      BY <3>1, ConstantTypes DEF NormalPrices
    <3>3. order.price # InvalidPrice
      BY <3>2, ConstantTypes
    <3> QED
      BY <2>1, <2>3, <3>1, <3>2, <3>3 DEF Ideal!Accepts, Accepts, WouldCross
  <2> QED
    BY <2>2, <2>3
<1>4. Ideal!Quoted(side) = {price \in Prices : levels[side][price] # <<>>}
  BY <1>2 DEF Ideal!Quoted
<1>5. Ideal!Crossed(Incoming(order)) =
         {price \in Ideal!Quoted(side) : Ideal!Accepts(Incoming(order), price)}
  BY <1>1 DEF Ideal!Crossed
<1> QED
  BY <1>1, <1>3, <1>4, <1>5

\* Where the loop would not go on, the ideal book has nothing to trade either.
LEMMA NothingCrossed ==
    ASSUME Inv, NormalPrices, QueuesView = Seen(levels),
           pc \in {"adding", "matching", "matched"}, ~CanMatch
    PROVE  Ideal!Crossed(Incoming(taker)) = {}
<1>1. Priced(taker) /\ levels \in Levels
  BY DEF Priced, Inv, TypeOK, Levels
<1>2. \A price \in Prices : Accepts(taker, price) => levels[Opposite(taker.side)][price] = <<>>
  BY NothingAccepted
<1> QED
  BY <1>1, <1>2, CrossedIs

\* The cached best price, if it has a level, is the best the order crosses.
LEMMA TopIsBest ==
    ASSUME Inv, NormalPrices, QueuesView = Seen(levels), pc \in {"matching", "matched"},
           CanMatch, Queue # <<>>
    PROVE  /\ Ideal!IsBest(Incoming(taker), Top)
           /\ Ideal!Other(Incoming(taker).side) = Maker
           /\ taker.id \in OrderIds /\ Maker \in Sides /\ Top \in Prices
           /\ Queue \in Seq(Node(OrderIds))
<1>1. /\ Priced(taker) /\ levels \in Levels /\ Top \in Prices /\ TypeOK
      /\ taker.id \in OrderIds /\ Maker \in Sides /\ Queue \in Seq(Node(OrderIds))
  <2>1. TypeOK /\ taker.id \in OrderIds /\ taker \in Order
    BY DEF Inv, TypeOK
  <2>2. Priced(taker) /\ levels \in Levels
    BY <2>1 DEF Priced, TypeOK, Levels
  <2>3. Maker \in Sides
    BY <2>1 DEF Order, Maker, Opposite, Sides
  <2>4. Top \in Prices
    BY <2>1, <2>3 DEF TypeOK, Top, CanMatch
  <2> QED
    BY <2>1, <2>2, <2>3, <2>4 DEF Queue, Levels
<1>2. /\ Ideal!Crossed(Incoming(taker)) =
            {price \in Prices : Accepts(taker, price) /\ levels[Maker][price] # <<>>}
      /\ Ideal!Other(Incoming(taker).side) = Maker
      /\ taker.side \in Sides /\ Incoming(taker).side = taker.side
  BY <1>1, CrossedIs, IncomingFields DEF Maker
<1>3. Top \in Ideal!Crossed(Incoming(taker))
  BY <1>1, <1>2 DEF CanMatch, Accepts, Queue
<1>4. ASSUME NEW price \in Ideal!Crossed(Incoming(taker))
      PROVE  IF taker.side = "Buy" THEN Top <= price ELSE price <= Top
  <2>1. price \in Occupied(levels, Maker)
    BY <1>2 DEF Occupied
  <2>2. CASE taker.side = "Buy"
    BY <2>1, <2>2 DEF Inv, BestNeverBehind, Top, Maker, Opposite
  <2>3. CASE taker.side = "Sell"
    BY <2>1, <2>3 DEF Inv, BestNeverBehind, Top, Maker, Opposite
  <2> QED
    BY <1>2, <2>2, <2>3 DEF Sides
<1> QED
  BY <1>1, <1>2, <1>3, <1>4 DEF Ideal!IsBest

\* The code and the ideal book agree on who must not trade with whom.
LEMMA BarredIsOwn ==
    ASSUME TypeOK, QueuesView = Seen(levels), taker.id \in OrderIds,
           Maker \in Sides, Top \in Prices, Queue \in Seq(Node(OrderIds)), Queue # <<>>,
           Head(Queue).id \in DOMAIN orders, Ideal!Other(Incoming(taker).side) = Maker
    PROVE  <<Incoming(taker).id, Ideal!NextMaker(Incoming(taker), Top).id>> \in OwnPairs
              <=> SameOwner
<1> DEFINE queue == Entries(Queue)
<1>1. Ideal!NextMaker(Incoming(taker), Top) = Head(queue)
  BY SeenLevel DEF Ideal!NextMaker, Queue
<1>2. Head(queue).id = Head(Queue).id
  <2>1. /\ queue \in Seq(EntrySet(OrderIds)) /\ Len(queue) = Len(Queue) /\ Len(Queue) \in Nat
        /\ \A i \in 1 .. Len(Queue) : queue[i].id = Queue[i].id
    BY EntriesAre
  <2>2. Len(Queue) # 0
    BY EmptySeq
  <2> HIDE DEF queue
  <2>3. queue # <<>>
    BY <2>1, <2>2, EmptySeq
  <2>4. Head(queue) = queue[1] /\ Head(Queue) = Queue[1]
    BY <2>1, <2>3, HeadTailProperties
  <2> QED
    BY <2>1, <2>2, <2>4
<1>3. /\ Resting.id = Head(Queue).id /\ Resting.id \in OrderIds
      /\ Incoming(taker).id = taker.id
  BY IncomingFields DEF TypeOK, Resting
<1> QED
  BY <1>1, <1>2, <1>3 DEF OwnPairs, SameOwner

\* What the check of a fill-or-kill order counted is in the ideal book.
LEMMA LiquidityCovers ==
    ASSUME NormalPrices, levels \in Levels, QueuesView = Seen(levels),
           NEW order, Priced(order), NEW n \in Nat, Covered(order, levels, n)
    PROVE  Ideal!Liquidity(Incoming(order)) >= n
<1> DEFINE side == Opposite(order.side)
           S == Ideal!Crossed(Incoming(order))
           f == [price \in S |-> Depth(levels[side][price])]
<1>1. /\ S = {price \in Prices : Accepts(order, price) /\ levels[side][price] # <<>>}
      /\ Ideal!Other(Incoming(order).side) = side
      /\ order.side \in Sides /\ side \in Sides
  BY CrossedIs
<1>2. S \in SUBSET Prices /\ IsFiniteSet(S)
  BY <1>1, PricesAreFinite
<1>3. ASSUME NEW price \in S
      PROVE  /\ f[price] = Depth(levels[side][price]) /\ f[price] \in Nat
             /\ f[price] = Ideal!Volume(QueuesView[Ideal!Other(Incoming(order).side)][price])
  <2>1. levels[side][price] \in Seq(Node(OrderIds)) /\ price \in Prices
    BY <1>1, <1>2 DEF Levels
  <2>2. QueuesView[side][price] = Entries(levels[side][price])
    BY <1>1, <2>1 DEF Seen
  <2>3. /\ Depth(levels[side][price]) \in Nat
        /\ Ideal!Volume(Entries(levels[side][price])) = Depth(levels[side][price])
    BY <2>1, TotalWithin, VolumeIsDepth
  <2> QED
    BY <1>1, <2>2, <2>3
<1> HIDE DEF S, f
<1>4. PICK h : AddsUp(h, f, S) /\ Ideal!Liquidity(Incoming(order)) = h[S]
  BY <1>2, <1>3, LiquidityAddsUp DEF S
<1>5. PICK prices \in Seq(Prices) : Distinct(prices) /\ n <= SumOf(Offers(order, levels, prices))
  BY DEF Covered
<1> DEFINE t == Offers(order, levels, prices)
<1>6. /\ t \in Seq(Nat) /\ Len(t) = Len(prices)
      /\ \A i \in 1 .. Len(prices) :
            /\ prices[i] \in Prices
            /\ t[i] = IF Accepts(order, prices[i])
                      THEN Depth(levels[side][prices[i]]) ELSE 0
  BY <1>1, OffersAre
<1> HIDE DEF t
<1>7. ASSUME NEW i \in 1 .. Len(prices)
      PROVE  t[i] <= IF prices[i] \in S THEN f[prices[i]] ELSE 0
  <2>1. CASE prices[i] \in S
    BY <1>1, <1>3, <1>6, <2>1
  <2>2. CASE prices[i] \notin S
    <3>1. ~Accepts(order, prices[i]) \/ levels[side][prices[i]] = <<>>
      BY <1>1, <1>6, <2>2
    <3>2. t[i] = 0
      BY <1>6, <3>1, DepthOfNone
    <3> QED
      BY <2>2, <3>2
  <2> QED
    BY <2>1, <2>2
<1>8. \A x \in S : f[x] \in Nat
  BY <1>3
<1>9. SumOf(t) <= h[S]
  BY <1>2, <1>4, <1>5, <1>6, <1>7, <1>8, CoveredBySet
<1>10. h[S] \in Nat /\ SumOf(t) \in Nat
  <2>1. S \in SUBSET S /\ h \in [SUBSET S -> Nat]
    BY <1>4 DEF AddsUp
  <2>2. PICK p : Sums(p, t) /\ p[Len(t)] = SumOf(t)
    BY <1>6, SumsExist
  <2>3. Len(t) \in 0 .. Len(t)
    <3>1. Len(t) \in Nat
      BY <1>6, LenProperties
    <3> QED
      BY <3>1
  <2> QED
    BY <2>1, <2>2, <2>3 DEF Sums
<1> QED
  BY <1>4, <1>5, <1>9, <1>10 DEF t

-----------------------------------------------------------------------------
(* The steps of the ideal book *)

\* (On its own because the provers miss it in a large context.)
LEMMA NotLess == \A a, b \in Nat : ~(a < b) => b <= a
OBVIOUS

\* All that is known of the book between two steps.
Known == Inv /\ RecordsInv /\ FillsInv /\ KillInv

\* An order stopped before one it must not trade with is blocked in the ideal book.
LEMMA HeldUpIs ==
    ASSUME Orderly, Known, QueuesView = Seen(levels), pc = "matched", HeldUp
    PROVE  Ideal!Blocked(Incoming(taker))
<1>1. /\ Ideal!IsBest(Incoming(taker), Top) /\ Ideal!Other(Incoming(taker).side) = Maker
      /\ taker.id \in OrderIds /\ Maker \in Sides /\ Top \in Prices
      /\ Queue \in Seq(Node(OrderIds))
  BY TopIsBest DEF Known, Orderly, HeldUp
<1>2. <<Incoming(taker).id, Ideal!NextMaker(Incoming(taker), Top).id>> \in OwnPairs
  BY <1>1, BarredIsOwn DEF HeldUp, Known, Inv
<1> QED
  BY <1>1, <1>2 DEF Ideal!Blocked

\* Passing the checks of add_order is what the ideal book asks of an arrival.
LEMMA AdmitArrives ==
    ASSUME Orderly, Known, QueuesView = Seen(levels), Admit, QueuesView' = QueuesView
    PROVE  Ideal!Arrive
<1>1. /\ pc = "adding" /\ pc' = "matching" /\ taker' = taker /\ Rejection(taker) = "None"
      /\ NormalPrices /\ ~UnguardedAmends
  BY DEF Admit, Orderly
<1>2. /\ TypeOK /\ levels \in Levels /\ Priced(taker) /\ taker \in Order
      /\ taker.id \in OrderIds /\ TableAgrees(orders, levels)
      /\ Filled(fills) = taker.filled /\ fills = <<>>
  BY <1>1 DEF Known, Inv, TypeOK, Levels, Priced, RecordsInv, FillsInv
<1>3. IncomingView = Ideal!Nobody /\ IncomingView' = Incoming(taker)
  BY <1>1, IncomingIs, IncomingIsNext
<1>4. /\ taker.quantity \in Nat /\ taker.quantity # 0 /\ taker.id \notin DOMAIN orders
      /\ ~WouldTake(taker)
      /\ IsFOK(taker) => ~(Available(taker) < taker.quantity)
  <2>1. taker.quantity \in Nat
    BY <1>2 DEF Order, Quantity
  <2> QED
    BY <1>1, <2>1 DEF Rejection
<1>5. Remaining(taker) = taker.quantity /\ Remaining(taker) \in Quantity /\ Remaining(taker) > 0
  <2>1. taker.filled = 0
    BY <1>2, FilledNothing
  <2>2. taker.filled < taker.quantity
    BY <1>4, <2>1
  <2>3. /\ Remaining(taker) = taker.quantity - taker.filled
        /\ Remaining(taker) \in Quantity /\ Remaining(taker) > 0
    BY <1>2, <2>2, RemainingOf
  <2> QED
    BY <1>4, <2>1, <2>3
<1>6. Incoming(taker) \in Ideal!Arrival
  BY <1>2, <1>5, IncomingType DEF Priced
<1>7. taker.id \notin Ideal!RestingIds
  <2> SUFFICES ASSUME NEW side \in Sides, NEW price \in Prices,
                      NEW i \in DOMAIN QueuesView[side][price],
                      QueuesView[side][price][i].id = taker.id
               PROVE  FALSE
    BY DEF Ideal!RestingIds
  <2> DEFINE queue == levels[side][price]
  <2>1. queue \in Seq(Node(OrderIds)) /\ QueuesView[side][price] = Entries(queue)
    BY <1>2 DEF Levels, Seen
  <2>2. i \in DOMAIN queue /\ queue[i].id = taker.id
    BY <2>1, EntriesAre
  <2>3. queue[i].id \in DOMAIN orders
    BY <1>2, <2>2 DEF TableAgrees, LevelAgrees, Range
  <2> QED
    BY <1>4, <2>2, <2>3
<1>8. Incoming(taker).maker => Ideal!Crossed(Incoming(taker)) = {}
  <2> SUFFICES ASSUME Incoming(taker).maker PROVE Ideal!Crossed(Incoming(taker)) = {}
    OBVIOUS
  <2>1. taker.type = "PostOnly" /\ PostOnlyRejection
    BY IncomingMaker DEF IsMaker
  <2>2. ~CanMatch
    BY <1>4, <2>1 DEF WouldTake, CanMatch, Top, Maker
  <2> QED
    BY <1>1, <2>2, NothingCrossed DEF Known
<1>9. Incoming(taker).patience = "all or nothing"
         => Ideal!Liquidity(Incoming(taker)) >= Incoming(taker).quantity
  <2> SUFFICES ASSUME Incoming(taker).patience = "all or nothing"
               PROVE  Ideal!Liquidity(Incoming(taker)) >= taker.quantity
    BY <1>5, IncomingFields
  <2>1. IsFOK(taker)
    BY IncomingFields DEF PatienceOf
  <2>2. Available(taker) \in Nat /\ taker.quantity <= Available(taker)
        /\ \A n \in Nat : n <= Available(taker) => Covered(taker, levels, n)
    <3>1. /\ Available(taker) \in Nat
          /\ \A n \in Nat : n <= Available(taker) => Covered(taker, levels, n)
      BY <1>2, AvailableIsThere DEF Order
    <3> DEFINE counted == Available(taker)
    <3>2. ~(counted < taker.quantity)
      BY <1>4, <2>1
    <3> HIDE DEF counted
    <3>3. counted \in Nat
      BY <3>1 DEF counted
    <3>4. taker.quantity <= counted
      BY <1>4, <3>2, <3>3, NotLess, Zenon
    <3> QED
      BY <3>1, <3>4 DEF counted
  <2>3. Covered(taker, levels, taker.quantity)
    BY <1>4, <2>2
  <2> QED
    BY <1>1, <1>2, <1>4, <2>3, LiquidityCovers
<1> QED
  BY <1>3, <1>5, <1>6, <1>7, <1>8, <1>9, IncomingFields DEF Ideal!Arrive

\* One fill of the loop is one trade.
LEMMA FillTrades ==
    ASSUME Orderly, Known, Known', QueuesView = Seen(levels), QueuesView' = Seen(levels'),
           FillResting
    PROVE  Ideal!Trade
<1> DEFINE n == FillQuantity
           view == Incoming(taker)
           queue == QueuesView[Maker][Top]
           oldest == Head(queue)
<1>1. /\ Matching /\ Queue # <<>> /\ TypeOK /\ TableAgrees(orders, levels)
      /\ NormalPrices /\ pc = "matching" /\ pc' = "matching" /\ levels \in Levels
      /\ taker' = Fill(taker, n)
      /\ levels' = [levels EXCEPT ![Maker][Top] = FillFront(Queue, n)]
  BY DEF FillResting, Matching, Orderly, Known, Inv, RecordsInv, TypeOK, Levels, ReplaceQueue
<1>2. /\ taker \in Order /\ taker.id \in OrderIds /\ Maker \in Sides /\ Top \in Prices
      /\ Queue \in Seq(Node(OrderIds))
  BY <1>1, TypeOfMatch
<1>3. /\ n \in Quantity /\ n > 0 /\ n <= Remaining(taker) /\ n <= Remaining(Resting)
      /\ taker.filled < taker.quantity /\ Head(Queue).quantity = Remaining(Resting)
      /\ Remaining(taker) \in Quantity /\ Remaining(taker) > 0
      /\ Remaining(Resting) \in Quantity
  <2>1. /\ taker.filled < taker.quantity /\ Resting \in Order
        /\ Resting.filled < Resting.quantity /\ Head(Queue).quantity = Remaining(Resting)
    BY <1>1, FillQuantityWithin, FrontOf
  <2> QED
    BY <1>1, <1>2, <2>1, FillQuantityWithin, RemainingOf
<1>4. IncomingView = view /\ IncomingView' = Incoming(Fill(taker, n))
  BY <1>1, IncomingIs, IncomingIsNext
<1>5. queue = Entries(Queue)
  BY <1>1, <1>2, SeenLevel DEF Queue
<1>6. queue # <<>> /\ oldest.quantity = Head(Queue).quantity
  <2>1. /\ queue \in Seq(EntrySet(OrderIds)) /\ Len(queue) = Len(Queue) /\ Len(Queue) \in Nat
        /\ \A i \in 1 .. Len(Queue) : queue[i].quantity = Queue[i].quantity
    BY <1>2, <1>5, EntriesAre
  <2>2. Len(Queue) # 0
    BY <1>1, <1>2, EmptySeq
  <2> HIDE DEF queue
  <2>3. queue # <<>>
    BY <2>1, <2>2, EmptySeq
  <2>4. Head(queue) = queue[1] /\ Head(Queue) = Queue[1]
    BY <1>1, <1>2, <2>1, <2>3, HeadTailProperties
  <2> QED
    BY <2>1, <2>2, <2>3, <2>4
<1> HIDE DEF n, queue, oldest
<1>7. n = IF oldest.quantity < view.quantity THEN oldest.quantity ELSE view.quantity
  <2>1. view.quantity = Remaining(taker) /\ oldest.quantity = Remaining(Resting)
    BY <1>3, <1>6, IncomingFields
  <2> QED
    BY <1>3, <2>1 DEF n, FillQuantity, Quantity
<1>8. Entries(FillFront(Queue, n)) =
         IF n = oldest.quantity THEN Tail(queue) ELSE [queue EXCEPT ![1].quantity = @ - n]
  <2>1. CASE n = oldest.quantity
    <3>1. FillFront(Queue, n) = PopFront(Queue)
      BY <1>3, <1>6, <2>1 DEF FillFront, Quantity
    <3> QED
      BY <1>1, <1>2, <1>5, <2>1, <3>1, EntriesOfPop
  <2>2. CASE n # oldest.quantity
    <3>1. n < Head(Queue).quantity
      BY <1>3, <1>6, <2>2 DEF Quantity
    <3>2. Entries(FillFront(Queue, n)) = [Entries(Queue) EXCEPT ![1].quantity = @ - n]
      BY <1>1, <1>2, <1>3, <3>1, EntriesOfFill
    <3> QED
      BY <1>5, <2>2, <3>2
  <2> QED
    BY <2>1, <2>2
<1>9. QueuesView' = [QueuesView EXCEPT ![Maker][Top] =
                        IF n = oldest.quantity THEN Tail(queue)
                        ELSE [queue EXCEPT ![1].quantity = @ - n]]
  <2>1. QueuesView' = [QueuesView EXCEPT ![Maker][Top] = Entries(FillFront(Queue, n))]
    <3> DEFINE front == FillFront(Queue, n)
    <3>2. levels' = [levels EXCEPT ![Maker][Top] = front]
      BY <1>1
    <3>4. levels \in Levels /\ Maker \in Sides /\ Top \in Prices
      BY <1>1, <1>2
    <3> HIDE DEF front
    <3>1. Seen([levels EXCEPT ![Maker][Top] = front])
             = [Seen(levels) EXCEPT ![Maker][Top] = Entries(front)]
      BY <3>4, SeenChange
    <3>3. QueuesView' = [QueuesView EXCEPT ![Maker][Top] = Entries(front)]
      BY <3>1, <3>2
    <3> QED
      BY <3>3 DEF front
  <2> QED
    BY <1>8, <2>1
<1>10. IncomingView' = [view EXCEPT !.quantity = view.quantity - n]
  <2> DEFINE new == Fill(taker, n)
             left == Remaining(taker) - n
  <2>1. /\ new.id = taker.id /\ new.side = taker.side /\ new.price = taker.price
        /\ new.type = taker.type /\ new.tif = taker.tif
        /\ new.quantity = taker.quantity /\ new.filled = taker.filled + n
        /\ n < Remaining(taker) => Remaining(new) = left
    BY <1>2, <1>3, FillOf
  <2>2. Remaining(new) = left
    <3>1. CASE n < Remaining(taker)
      BY <2>1, <3>1
    <3>2. CASE n = Remaining(taker)
      <4>1. Remaining(taker) = taker.quantity - taker.filled
        BY <1>2, <1>3, RemainingOf
      <4>2. new.quantity - new.filled = 0 /\ left = 0
        BY <1>2, <1>3, <2>1, <3>2, <4>1 DEF Order, Quantity
      <4> HIDE DEF new
      <4>3. 0 % QMod = 0
        BY QModAssumption
      <4> QED
        BY <4>2, <4>3 DEF Remaining
    <3> QED
      BY <1>3, <3>1, <3>2 DEF Quantity
  <2> HIDE DEF new, left
  <2>3. /\ LimitOf(new) = LimitOf(taker) /\ PatienceOf(new) = PatienceOf(taker)
        /\ IsMaker(new) = IsMaker(taker)
    BY <2>1 DEF LimitOf, PatienceOf, IsMaker, IsIOC, IsFOK
  <2>4. Incoming(new) = ViewOf(taker.id, taker.side, LimitOf(taker), left,
                               PatienceOf(taker), IsMaker(taker))
    BY <2>1, <2>2, <2>3 DEF Incoming
  <2>5. \A q : [view EXCEPT !.quantity = q] =
               ViewOf(taker.id, taker.side, LimitOf(taker), q, PatienceOf(taker), IsMaker(taker))
    BY ViewFields DEF Incoming
  <2>6. left = view.quantity - n
    BY IncomingFields DEF left
  <2> QED
    BY <1>4, <2>4, <2>5, <2>6 DEF new
<1>11. /\ IncomingView # Ideal!Nobody /\ IncomingView.quantity > 0
       /\ Ideal!IsBest(IncomingView, Top) /\ Ideal!Other(IncomingView.side) = Maker
  BY <1>1, <1>2, <1>3, <1>4, TopIsBest, IncomingSomebody, IncomingFields DEF Known, Matching
<1>14. <<IncomingView.id, Ideal!NextMaker(IncomingView, Top).id>> \notin OwnPairs
  <2>1. ~SameOwner /\ Head(Queue).id \in DOMAIN orders
    BY DEF FillResting
  <2> QED
    BY <1>1, <1>2, <1>4, <1>11, <2>1, BarredIsOwn DEF view
<1>15. oldest = Ideal!NextMaker(IncomingView, Top)
  BY <1>11 DEF oldest, queue, Ideal!NextMaker
<1> DEFINE v == IncomingView
<1>12. v' = [v EXCEPT !.quantity = v.quantity - n]
  BY <1>4, <1>10
<1>13. n = IF oldest.quantity < v.quantity THEN oldest.quantity ELSE v.quantity
  BY <1>4, <1>7
<1> HIDE DEF view
<1> QED
  BY <1>2, <1>9, <1>11, <1>12, <1>13, <1>14, <1>15 DEF Ideal!Trade, queue

\* The end of a matching that leaves the resting orders as they are.
LEMMA EndLeaves ==
    ASSUME Orderly, Known, QueuesView = Seen(levels), QueuesView' = QueuesView,
           pc = "matched", pc' = "returned",
           IsFilled(taker) \/ PatienceOf(taker) # "rests"
    PROVE  Ideal!Leave
<1>1. TypeOK /\ taker \in Order /\ taker.id \in OrderIds
  BY DEF Known, Inv, TypeOK
<1>2. IncomingView = Incoming(taker) /\ IncomingView' = Ideal!Nobody
  BY IncomingIs, IncomingIsNext
<1>3. IncomingView # Ideal!Nobody /\ IncomingView.quantity = Remaining(taker)
      /\ IncomingView.patience = PatienceOf(taker)
  BY <1>1, <1>2, IncomingSomebody, IncomingFields
<1>4. CASE IsFilled(taker)
  <2>1. taker.filled = taker.quantity
    BY <1>1, <1>4 DEF Known, FillsInv, IsFilled, Order, Quantity
  <2>2. Remaining(taker) = 0
    <3>1. taker.quantity - taker.filled = 0 /\ 0 % QMod = 0
      BY <1>1, <2>1, QModAssumption DEF Order, Quantity
    <3> QED
      BY <3>1 DEF Remaining
  <2> QED
    BY <1>2, <1>3, <2>2 DEF Ideal!Leave
<1>5. CASE ~IsFilled(taker)
  <2>1. taker.filled < taker.quantity
    BY <1>1, <1>5 DEF IsFilled, Order, Quantity
  <2>2. Remaining(taker) > 0
    BY <1>1, <2>1, RemainingOf
  <2>3. /\ PatienceOf(taker) \in {"drops", "all or nothing"}
        /\ PatienceOf(taker) = "all or nothing" => HeldUp
    BY <1>5 DEF Known, KillInv, PatienceOf
  <2>4. CASE HeldUp
    <3>1. Ideal!Blocked(IncomingView)
      BY <1>2, <2>4, HeldUpIs
    <3> QED
      BY <1>2, <1>3, <1>5, <2>2, <2>3, <3>1 DEF Ideal!Leave
  <2>5. CASE ~HeldUp
    <3>1. ~CanMatch
      BY <1>5, <2>5 DEF Known, Inv, MatchedOut
    <3>2. Ideal!Crossed(IncomingView) = {}
      BY <1>2, <3>1, NothingCrossed DEF Known, Orderly
    <3> QED
      BY <1>2, <1>3, <1>5, <2>2, <2>3, <2>5, <3>2 DEF Ideal!Leave
  <2> QED
    BY <2>4, <2>5
<1> QED
  BY <1>4, <1>5

\* What is left of an order joins the end of its queue.
LEMMA RestLeaves ==
    ASSUME Orderly, Known, QueuesView = Seen(levels), QueuesView' = Seen(levels'), Rest
    PROVE  Ideal!Leave
<1> DEFINE side == taker.side
           price == taker.price
           entry == [id |-> taker.id, quantity |-> Remaining(taker)]
           node == AddNode(levels[side][price], taker.id, Remaining(taker))
<1>1. /\ pc = "matched" /\ pc' = "returned" /\ CanRest(taker)
      /\ levels' = [levels EXCEPT ![side][price] = node]
  BY DEF Rest, Conclude, Respond
<1>2. /\ TypeOK /\ taker \in Order /\ taker.id \in OrderIds /\ levels \in Levels
      /\ side \in Sides /\ price \in Prices /\ taker.type # "Market" /\ ~IsFilled(taker)
      /\ taker.filled < taker.quantity /\ PatienceOf(taker) = "rests"
  BY <1>1 DEF Known, Inv, TypeOK, Levels, Order, CanRest, PatienceOf, IsFilled, Quantity
<1>3. IncomingView = Incoming(taker) /\ IncomingView' = Ideal!Nobody
  BY <1>1, IncomingIs, IncomingIsNext
<1>4. /\ IncomingView # Ideal!Nobody /\ IncomingView.quantity = Remaining(taker)
      /\ IncomingView.patience = "rests" /\ IncomingView.side = side
      /\ IncomingView.limit = price /\ IncomingView.id = taker.id
  BY <1>2, <1>3, IncomingSomebody, IncomingFields DEF LimitOf
<1>5. Remaining(taker) > 0 /\ Remaining(taker) \in Quantity
  BY <1>2, RemainingOf
<1>6. Ideal!Crossed(IncomingView) = {} \/ Ideal!Blocked(IncomingView)
  <2>1. ~CanMatch \/ HeldUp
    BY <1>1, <1>2 DEF Known, Inv, MatchedOut
  <2> QED
    BY <1>1, <1>3, <2>1, NothingCrossed, HeldUpIs DEF Known, Orderly
<1>7. Entries(node) = Append(QueuesView[side][price], entry)
  <2>1. levels[side][price] \in Seq(Node(OrderIds))
    BY <1>2 DEF Levels
  <2>2. QueuesView[side][price] = Entries(levels[side][price])
    BY <1>2, SeenLevel
  <2> QED
    BY <1>2, <1>5, <2>1, <2>2, EntriesOfAdd
<1>8. QueuesView' = [QueuesView EXCEPT ![side][price] = Append(@, entry)]
  <2>1. Seen([levels EXCEPT ![side][price] = node])
           = [Seen(levels) EXCEPT ![side][price] = Entries(node)]
    BY <1>2, SeenChange
  <2> HIDE DEF node, entry, side, price
  <2>2. QueuesView' = [QueuesView EXCEPT ![side][price] = Entries(node)]
    BY <1>1, <2>1
  <2> QED
    BY <1>7, <2>2
<1> QED
  BY <1>3, <1>4, <1>5, <1>6, <1>8 DEF Ideal!Leave

\* An order that is cancelled leaves its place in the queue.
LEMMA WithdrawWithdraws ==
    ASSUME Orderly, Known, QueuesView = Seen(levels), QueuesView' = Seen(levels'),
           NEW id \in DOMAIN orders, Withdraw(id), pc = "idle", pc' \in {"returned", "adding"}
    PROVE  \E side \in Sides, price \in Prices : \E i \in DOMAIN QueuesView[side][price] :
              Ideal!Withdraw(side, price, i)
<1> DEFINE side == orders[id].side
           price == orders[id].price
           queue == levels[side][price]
           rest == RemoveNode(queue, id)
<1>1. /\ TypeOK /\ levels \in Levels /\ side \in Sides /\ price \in Prices
      /\ Table(orders) /\ TableAgrees(orders, levels) /\ queue \in Seq(Node(OrderIds))
      /\ levels' = [levels EXCEPT ![side][price] = rest]
  <2>1. TypeOK /\ levels \in Levels /\ Table(orders) /\ TableAgrees(orders, levels)
    <3>1. TypeOK
      BY DEF Known, Inv
    <3>2. levels \in Levels /\ Table(orders)
      BY <3>1 DEF TypeOK, Table, Levels
    <3>3. TableAgrees(orders, levels)
      BY Zenon DEF Known, RecordsInv, Orderly
    <3> QED
      BY <3>1, <3>2, <3>3
  <2>2. side \in Sides /\ price \in Prices
    BY <2>1 DEF TypeOK, Order
  <2>3. queue \in Seq(Node(OrderIds))
    BY <2>1, <2>2 DEF Levels
  <2>4. levels' = [levels EXCEPT ![side][price] = rest]
    BY DEF Withdraw
  <2> QED
    BY <2>1, <2>2, <2>3, <2>4
<1>2. IncomingView = Ideal!Nobody /\ IncomingView' = Ideal!Nobody
  BY IncomingIs, IncomingIsNext
<1>3. /\ Reachable(queue)
      /\ \E i \in DOMAIN queue : queue[i].id = id
  BY <1>1, PlaceOf DEF LevelAgrees
<1>4. PICK i \in DOMAIN queue : queue[i].id = id
  BY <1>3
<1>5. QueuesView[side][price] = Entries(queue) /\ i \in DOMAIN QueuesView[side][price]
  <2>1. QueuesView[side][price] = Entries(queue)
    BY <1>1, SeenLevel
  <2> QED
    BY <1>1, <1>4, <2>1, EntriesAre
<1>6. Entries(rest) = RemoveAt(QueuesView[side][price], i)
  BY <1>1, <1>3, <1>4, <1>5, EntriesOfRemove
<1>7. QueuesView' = [QueuesView EXCEPT ![side][price] = RemoveAt(@, i)]
  <2>1. levels \in Levels /\ side \in Sides /\ price \in Prices
    BY <1>1
  <2> HIDE DEF rest, side, price
  <2>3. Seen([levels EXCEPT ![side][price] = rest])
           = [Seen(levels) EXCEPT ![side][price] = Entries(rest)]
    BY <2>1, SeenChange
  <2>2. QueuesView' = [QueuesView EXCEPT ![side][price] = Entries(rest)]
    BY <1>1, <2>3
  <2> QED
    BY <1>6, <2>2
<1>8. Ideal!Withdraw(side, price, i)
  BY <1>2, <1>7 DEF Ideal!Withdraw, Ideal!RemoveAt, RemoveAt
<1> QED
  BY <1>1, <1>5, <1>8

\* An amended order keeps its place in the queue.
LEMMA AmendAmends ==
    ASSUME Orderly, Known, QueuesView = Seen(levels), QueuesView' = Seen(levels'),
           NEW id \in OrderIds, NEW quantity \in Amounts, Amend(id, quantity)
    PROVE  \E side \in Sides, price \in Prices : \E i \in DOMAIN QueuesView[side][price] :
              \E q \in Ideal!Quantity \ {0} : Ideal!Amend(side, price, i, q)
<1> DEFINE side == orders[id].side
           price == orders[id].price
           queue == levels[side][price]
           new == ModifyNode(queue, id, quantity)
<1>1. /\ TypeOK /\ levels \in Levels /\ side \in Sides /\ price \in Prices
      /\ Table(orders) /\ TableAgrees(orders, levels) /\ queue \in Seq(Node(OrderIds))
      /\ id \in DOMAIN orders /\ quantity > 0 /\ pc = "idle" /\ pc' = "returned"
      /\ levels' = [levels EXCEPT ![side][price] = new]
  BY DEF Known, Inv, TypeOK, Levels, Order, Table, RecordsInv, Orderly, Amend, Call,
         RespondBare, Respond
<1>2. IncomingView = Ideal!Nobody /\ IncomingView' = Ideal!Nobody
  BY <1>1, IncomingIs, IncomingIsNext
<1>3. quantity \in Quantity /\ quantity \in Ideal!Quantity \ {0}
  BY <1>1, ConstantTypes DEF Quantity, Ideal!Quantity
<1>4. /\ Reachable(queue)
      /\ \E i \in DOMAIN queue : queue[i].id = id
  BY <1>1, PlaceOf DEF LevelAgrees
<1>5. PICK i \in DOMAIN queue : queue[i].id = id
  BY <1>4
<1>6. QueuesView[side][price] = Entries(queue) /\ i \in DOMAIN QueuesView[side][price]
  <2>1. QueuesView[side][price] = Entries(queue)
    BY <1>1, SeenLevel
  <2> QED
    BY <1>1, <1>5, <2>1, EntriesAre
<1>7. Entries(new) = [QueuesView[side][price] EXCEPT ![i].quantity = quantity]
  BY <1>1, <1>3, <1>4, <1>5, <1>6, EntriesOfModify
<1>8. QueuesView' = [QueuesView EXCEPT ![side][price][i].quantity = quantity]
  <2>1. levels \in Levels /\ side \in Sides /\ price \in Prices
    BY <1>1
  <2> HIDE DEF new, side, price
  <2>3. Seen([levels EXCEPT ![side][price] = new])
           = [Seen(levels) EXCEPT ![side][price] = Entries(new)]
    BY <2>1, SeenChange
  <2>2. QueuesView' = [QueuesView EXCEPT ![side][price] = Entries(new)]
    BY <1>1, <2>3
  <2> QED
    BY <1>7, <2>2
<1>9. Ideal!Amend(side, price, i, quantity)
  BY <1>2, <1>8 DEF Ideal!Amend
<1> QED
  BY <1>1, <1>3, <1>6, <1>9

\* Steps that show nothing.
LEMMA SilentSteps ==
    ASSUME Orderly, QueuesView = Seen(levels), QueuesView' = Seen(levels'), levels' = levels,
           \/ {pc, pc'} \cap {"matching", "matched"} = {}
           \/ {pc, pc'} \subseteq {"matching", "matched"} /\ taker' = taker
    PROVE  UNCHANGED Ideal!ivars
<1>1. QueuesView' = QueuesView
  OBVIOUS
<1>2. IncomingView' = IncomingView
  BY IncomingIs, IncomingIsNext
<1> QED
  BY <1>1, <1>2 DEF Ideal!ivars

\* Every other step is the step of the ideal book its name suggests.
LEMMA StepsImplementIdeal ==
    ASSUME Orderly, Known, Known', [Next]_vars
    PROVE  [Ideal!Next]_(Ideal!ivars)
<1>1. QueuesView = Seen(levels) /\ QueuesView' = Seen(levels')
  <2>1. TypeOK /\ RecordsInv /\ (TypeOK /\ RecordsInv)' /\ ~UnguardedAmends
    BY DEF Known, Inv, Orderly
  <2> QED
    BY <2>1, QueuesSeen, QueuesSeenNext
<1>2. TypeOK /\ TableAgrees(orders, levels)
  BY DEF Known, Inv, RecordsInv, Orderly
<1> USE DEF book
<1>3. ASSUME Reject \/ StopMatching \/ RefreshBest \/ SelfTradeStop \/ Return
             \/ (\E id \in OrderIds, side \in Sides, price \in Prices,
                    quantity \in Amounts, kind \in OrderKinds :
                    AddOrder(id, side, price, quantity, kind))
             \/ (\E id \in OrderIds : OrderNotFound(id) \/ ReplaceNotFound(id))
             \/ FlushPending
             \/ (\E installed \in CallbackSets : SetCallbacks(installed))
             \/ UNCHANGED vars
      PROVE  UNCHANGED Ideal!ivars
  <2>1. levels' = levels
    BY <1>3 DEF Reject, StopMatching, RefreshBest, SelfTradeStop, Return, AddOrder, OrderNotFound,
                ReplaceNotFound, FlushPending, SetCallbacks, vars
  <2>2. \/ {pc, pc'} \cap {"matching", "matched"} = {}
        \/ {pc, pc'} \subseteq {"matching", "matched"} /\ taker' = taker
    <3>1. CASE Reject
      BY <3>1 DEF Reject, Respond
    <3>2. CASE StopMatching \/ RefreshBest \/ SelfTradeStop \/ Return
      BY <3>2 DEF StopMatching, RefreshBest, SelfTradeStop, Matching, Return
    <3>3. CASE \E id \in OrderIds, side \in Sides, price \in Prices,
                  quantity \in Amounts, kind \in OrderKinds :
                  AddOrder(id, side, price, quantity, kind)
      BY <3>3 DEF AddOrder, Call
    <3>4. CASE \E id \in OrderIds : OrderNotFound(id) \/ ReplaceNotFound(id)
      BY <3>4 DEF OrderNotFound, ReplaceNotFound, Call, RespondBare, Respond
    <3>5. CASE FlushPending \/ (\E installed \in CallbackSets : SetCallbacks(installed))
      BY <3>5 DEF FlushPending, SetCallbacks, Call
    <3>6. CASE UNCHANGED vars
      BY <3>6 DEF vars
    <3> QED
      BY <1>3, <3>1, <3>2, <3>3, <3>4, <3>5, <3>6
  <2> QED
    BY <1>1, <2>1, <2>2, SilentSteps
<1>4. ASSUME Admit PROVE Ideal!Arrive
  <2>1. QueuesView' = QueuesView
    BY <1>1, <1>4 DEF Admit
  <2> QED
    BY <1>1, <1>4, <2>1, AdmitArrives
<1>5. ~DropGhost
  BY <1>2, FrontOf DEF DropGhost
<1>7. ASSUME FillResting PROVE Ideal!Trade
  BY <1>1, <1>7, FillTrades
<1>8. ASSUME FinishIOC PROVE Ideal!Leave
  <2>1. /\ pc = "matched" /\ pc' = "returned" /\ levels' = levels
        /\ PatienceOf(taker) = "drops"
    BY <1>8 DEF FinishIOC, Conclude, Respond, PatienceOf
  <2>2. QueuesView' = QueuesView
    BY <1>1, <2>1
  <2> QED
    BY <1>1, <2>1, <2>2, EndLeaves
<1>9. ASSUME KillFOK PROVE Ideal!Leave
  <2>1. /\ pc = "matched" /\ pc' = "returned" /\ levels' = levels
        /\ PatienceOf(taker) = "all or nothing"
    BY <1>9 DEF KillFOK, Respond, PatienceOf
  <2>2. QueuesView' = QueuesView
    BY <1>1, <2>1
  <2> QED
    BY <1>1, <2>1, <2>2, EndLeaves
<1>10. ASSUME Rest PROVE Ideal!Leave
  BY <1>1, <1>10, RestLeaves
<1>11. ASSUME Complete PROVE Ideal!Leave
  <2>1. pc = "matched" /\ pc' = "returned" /\ levels' = levels
    BY <1>11 DEF Complete, Conclude, Respond
  <2>2. IsFilled(taker) \/ PatienceOf(taker) = "drops"
    <3>1. taker.type \in OrderTypes
      BY <1>2 DEF TypeOK, Order
    <3> QED
      BY <1>11, <3>1 DEF Complete, CanRest, PatienceOf, IsIOC, IsFOK, OrderTypes
  <2>3. QueuesView' = QueuesView
    BY <1>1, <2>1
  <2> QED
    BY <1>1, <2>1, <2>2, <2>3, EndLeaves
<1>12. ASSUME NEW id \in OrderIds, Cancel(id) PROVE Ideal!Next
  <2>1. Withdraw(id) /\ id \in DOMAIN orders /\ pc = "idle" /\ pc' \in {"returned", "adding"}
    BY <1>12 DEF Cancel, Call, Respond
  <2> QED
    BY <1>1, <2>1, WithdrawWithdraws DEF Ideal!Next
<1>13. ASSUME NEW id \in OrderIds, NEW price \in Prices, NEW quantity \in Amounts,
              Move(id, price, quantity)
       PROVE  Ideal!Next
  <2>1. Withdraw(id) /\ id \in DOMAIN orders /\ pc = "idle" /\ pc' \in {"returned", "adding"}
    BY <1>13 DEF Move, Call
  <2> QED
    BY <1>1, <2>1, WithdrawWithdraws DEF Ideal!Next
<1>14. ASSUME NEW id \in OrderIds, NEW quantity \in Amounts, Amend(id, quantity)
       PROVE  Ideal!Next
  BY <1>1, <1>14, AmendAmends DEF Ideal!Next
<1>15. Client => Ideal!Next \/ UNCHANGED Ideal!ivars
  BY <1>3, <1>12, <1>13, <1>14 DEF Client
<1>16. Ideal!Arrive \/ Ideal!Trade \/ Ideal!Leave => Ideal!Next
  BY DEF Ideal!Next
<1> QED
  BY <1>3, <1>4, <1>5, <1>7, <1>8, <1>9, <1>10, <1>11, <1>15, <1>16 DEF Next, Step

\* Price-time priority: for orderly clients, with self-trade prevention or
\* without, the live orders behave as the queues of the ideal book, whatever
\* caches, index flags and second copies of quantities lie between.
THEOREM SafelyImplementsIdeal ==
    ASSUME Orderly
    PROVE  Spec => Ideal!Init /\ [][Ideal!Next]_(Ideal!ivars)
<1>1. Init => Ideal!Init
  <2> SUFFICES ASSUME Init PROVE Ideal!Init
    OBVIOUS
  <2>1. IncomingView = Ideal!Nobody
    BY IncomingIs DEF Init
  <2>2. ASSUME NEW side \in Sides, NEW price \in Prices PROVE QueueView(side, price) = <<>>
    BY DEF Init, QueueView
  <2>3. QueuesView = [side \in Sides |-> [price \in Prices |-> <<>>]]
    BY <2>2 DEF QueuesView
  <2> QED
    BY <2>1, <2>3 DEF Ideal!Init
<1>2. Known /\ Known' /\ [Next]_vars => [Ideal!Next]_(Ideal!ivars)
  BY StepsImplementIdeal
<1>3. Inv /\ RecordsInv /\ FillsInv /\ KillInv => Known
  BY DEF Known
<1> QED
  BY <1>1, <1>2, <1>3, InvAlways, RecordsInvAlways, FillsInvAlways, KillInvAlways, PTL DEF Spec
==============================================================================
