----------------------------- MODULE IdealBook ------------------------------
(***************************************************************************)
(* What the order book of one symbol promises, without its caches, its     *)
(* indexes and its second copy of every quantity: two sides of FIFO queues *)
(* and at most one incoming order that trades by price-time priority until *)
(* it is filled, crosses nothing or would meet an order it must not trade  *)
(* with, and only then rests or leaves.                                    *)
(***************************************************************************)
EXTENDS LevelQueue

CONSTANTS
    OrderIds, Prices, Sides,
    Unbounded,  \* the limit of an order that takes any price
    Barred      \* pairs of an incoming and a resting order that must not trade

VARIABLES
    queues,     \* queues[side][price]: resting orders, oldest first
    incoming    \* the order being matched, or Nobody

ivars == <<queues, incoming>>

Entry == [id : OrderIds, quantity : Quantity \ {0}]

\* What an order does with the quantity it cannot trade at once.
Patience == {"rests", "drops", "all or nothing"}

\* The limit of a market order is Unbounded.
Arrival == [id : OrderIds, side : Sides, limit : Prices \cup {Unbounded},
            quantity : Quantity, patience : Patience, maker : BOOLEAN]

Nobody == [id |-> 0]

Other(side) == CHOOSE other \in Sides : other # side

Quoted(side) == {price \in Prices : queues[side][price] # <<>>}

Accepts(order, price) ==
    \/ order.limit = Unbounded
    \/ IF order.side = "Buy" THEN price <= order.limit ELSE order.limit <= price

\* The prices an order would trade at, and the best of them.
Crossed(order) == {price \in Quoted(Other(order.side)) : Accepts(order, price)}

IsBest(order, price) ==
    /\ price \in Crossed(order)
    /\ \A other \in Crossed(order) :
          IF order.side = "Buy" THEN price <= other ELSE other <= price

NextMaker(order, price) == Head(queues[Other(order.side)][price])

\* The order it would trade with next is one it must not trade with.
Blocked(order) ==
    \E price \in Prices :
        IsBest(order, price) /\ <<order.id, NextMaker(order, price).id>> \in Barred

RestingIds ==
    {id \in OrderIds : \E side \in Sides, price \in Prices :
        \E i \in DOMAIN queues[side][price] : queues[side][price][i].id = id}

Volume(queue) == FoldLeft(LAMBDA sum, entry : sum + entry.quantity, 0, queue)

\* What an all-or-nothing order finds to trade with.
Liquidity(order) ==
    MapThenSumSet(LAMBDA price : Volume(queues[Other(order.side)][price]), Crossed(order))

Init ==
    /\ queues = [side \in Sides |-> [price \in Prices |-> <<>>]]
    /\ incoming = Nobody

Arrive ==
    /\ incoming = Nobody
    /\ incoming' \in Arrival
    /\ incoming'.quantity > 0
    /\ incoming'.id \notin RestingIds
    /\ incoming'.maker => Crossed(incoming') = {}
    /\ incoming'.patience = "all or nothing" => Liquidity(incoming') >= incoming'.quantity
    /\ UNCHANGED queues

\* Price-time priority: the oldest order at the best price the incoming order
\* accepts, for as much as both have.
Trade ==
    /\ incoming # Nobody
    /\ incoming.quantity > 0
    /\ \E price \in Prices :
          /\ IsBest(incoming, price)
          /\ <<incoming.id, NextMaker(incoming, price).id>> \notin Barred
          /\ LET maker == Other(incoming.side)
                 queue == queues[maker][price]
                 oldest == NextMaker(incoming, price)
                 traded == IF oldest.quantity < incoming.quantity
                           THEN oldest.quantity ELSE incoming.quantity
             IN  /\ queues' = [queues EXCEPT ![maker][price] =
                        IF traded = oldest.quantity THEN Tail(queue)
                        ELSE [queue EXCEPT ![1].quantity = @ - traded]]
                 /\ incoming' = [incoming EXCEPT !.quantity = @ - traded]

\* An all-or-nothing order leaves with part of its quantity only if it is blocked.
Leave ==
    /\ incoming # Nobody
    /\ \/ incoming.quantity = 0 /\ UNCHANGED queues
       \/ /\ incoming.quantity > 0
          /\ Crossed(incoming) = {} \/ Blocked(incoming)
          /\ \/ incoming.patience = "drops" /\ UNCHANGED queues
             \/ /\ incoming.patience = "all or nothing" /\ Blocked(incoming)
                /\ UNCHANGED queues
             \/ /\ incoming.patience = "rests"
                /\ queues' = [queues EXCEPT ![incoming.side][incoming.limit] =
                       Append(@, [id |-> incoming.id, quantity |-> incoming.quantity])]
    /\ incoming' = Nobody

\* Only the owner's requests touch a resting order outside a trade: a
\* withdrawal, or an amendment that keeps its place in the queue.
Withdraw(side, price, i) ==
    /\ incoming = Nobody
    /\ queues' = [queues EXCEPT ![side][price] = RemoveAt(@, i)]
    /\ UNCHANGED incoming

Amend(side, price, i, quantity) ==
    /\ incoming = Nobody
    /\ queues' = [queues EXCEPT ![side][price][i].quantity = quantity]
    /\ UNCHANGED incoming

Next ==
    \/ Arrive
    \/ Trade \/ Leave
    \/ \E side \in Sides, price \in Prices : \E i \in DOMAIN queues[side][price] :
          \/ Withdraw(side, price, i)
          \/ \E quantity \in Quantity \ {0} : Amend(side, price, i, quantity)

\* An incoming order is matched to its end.
Spec == Init /\ [][Next]_ivars /\ WF_ivars(Trade \/ Leave)
=============================================================================
