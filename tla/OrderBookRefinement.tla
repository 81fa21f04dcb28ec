------------------------ MODULE OrderBookRefinement -------------------------
(***************************************************************************)
(* OrderBook implements IdealBook.  Whoever looks only at the live orders, *)
(* in the order of their nodes, sees an ideal book: the cached best        *)
(* prices, the index flags, the quantities held twice and the batching of  *)
(* trades never show.                                                      *)
(***************************************************************************)
EXTENDS OrderBook

\* The nodes of a level, each with the remaining quantity of its order.
QueueView(side, price) ==
    [i \in DOMAIN levels[side][price] |->
        LET id == levels[side][price][i].id
        IN  [id |-> id, quantity |-> Remaining(orders[id])]]

QueuesView == [side \in Sides |-> [price \in Prices |-> QueueView(side, price)]]

PatienceOf(order) ==
    IF IsIOC(order) THEN "drops"
    ELSE IF IsFOK(order) THEN "all or nothing"
    ELSE IF order.type = "Market" THEN "drops" ELSE "rests"

\* The taker counts as incoming from its admission to the end of its matching.
IncomingView ==
    IF pc \notin {"matching", "matched"} THEN [id |-> 0]
    ELSE [id |-> taker.id, side |-> taker.side,
          limit |-> IF taker.type = "Market" THEN InvalidPrice ELSE taker.price,
          quantity |-> Remaining(taker), patience |-> PatienceOf(taker),
          maker |-> taker.type = "PostOnly" /\ PostOnlyRejection]

\* The orders self-trade prevention keeps apart.
OwnPairs == {pair \in OrderIds \X OrderIds : BelongTogether(pair[1], pair[2])}

Ideal == INSTANCE IdealBook WITH
            Unbounded <- InvalidPrice,
            Barred <- OwnPairs,
            queues <- QueuesView,
            incoming <- IncomingView

\* The book implements price-time priority matching with all-or-nothing
\* fill-or-kill orders and maker-only post-only orders, and stops where an
\* order would meet one of its own owner, for clients that do not amend orders
\* that traded.
RefinesIdealBook == Ideal!Spec

-----------------------------------------------------------------------------
Contract == INSTANCE BookContract WITH Ids <- OrderIds, FillSizes <- Quantity \ {0}

\* What a caller can tell about the book: the live orders and the call it made.
CallView ==
    [live |-> DOMAIN orders,
     at |-> CASE pc = "idle" -> "idle"
              [] pc = "returned" -> "back"
              [] OTHER -> IF fills # <<>> /\ IsFilled(taker) THEN "filled" ELSE "adding",
     taker |-> taker.id, filled |-> taker.filled, success |-> response.success]

\* The book keeps the contract the engine is modelled with: which orders a call
\* may take out or put in, and what it may report, one trade at a time.
KeepsContract ==
    /\ CallView = Contract!Resting({})
    /\ [][~UnguardedAmends => CallView' \in Contract!Moves(CallView)]_CallView

-----------------------------------------------------------------------------
\* What live orders hold that an order could trade with.
LiveLiquidity(order) ==
    MapThenSumSet(LAMBDA id : Remaining(orders[id]),
                  {id \in DOMAIN orders :
                      /\ orders[id].side = Opposite(order.side)
                      /\ order.type = "Market" \/ WouldCross(order, orders[id].price)})

\* A fill-or-kill order is not admitted for want of liquidity only when the
\* live orders really cannot fill it, although the check walks the levels from
\* the lowest price, for bids as for asks; or when they have QMod units
\* together, so that the sum wraps.
RefusedOnlyIfShort ==
    /\ NormalPrices /\ ~UnguardedAmends
    /\ pc = "adding" /\ IsFOK(taker) /\ taker.quantity > 0
    /\ Rejection(taker) = "InvalidQuantity"
    => \/ LiveLiquidity(taker) < taker.quantity
       \/ LiveLiquidity(taker) >= QMod
=============================================================================
