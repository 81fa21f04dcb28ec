-------------------------- MODULE OrderBookClaims ---------------------------
(***************************************************************************)
(* What comments, tests and the README say of the order book and the code  *)
(* does not do.  Each claim is refuted by a run of its own.                *)
(***************************************************************************)
EXTENDS OrderBookRefinement

\* After a cancellation the best price is that of the orders left
\* (tests/test_order_book.cpp:297).  cancel_order reads the side of the order
\* it has just erased and may refresh the wrong side.
CancelRefreshesBest ==
    pc = "idle" => \A side \in Sides : best[side] = BestPrice(levels, side)

\* A fill-or-kill order makes no partial fill (README.md:62).  With self-trade
\* prevention the loop may stop short after trading.
KilledOrdersDoNotTrade ==
    pc = "returned" /\ IsFOK(taker) /\ ~IsIOC(taker) /\ ~response.success => fills = <<>>
=============================================================================
