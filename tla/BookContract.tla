---------------------------- MODULE BookContract ----------------------------
(***************************************************************************)
(* What the engine relies on when it calls an order book: which orders are *)
(* live before, during and after a call and what the call reports.  Prices *)
(* and priorities are left to the book; OrderBookRefinement shows that     *)
(* OrderBook keeps the contract.                                           *)
(***************************************************************************)
EXTENDS Integers, FiniteSets

CONSTANTS
    Ids,        \* order identifiers
    FillSizes   \* quantities one trade may have

ASSUME FillSizesAssumption == FillSizes \subseteq Nat \ {0}

\* A book between calls (at = "idle"), adding an order that still has a
\* quantity ("adding") or has none left ("filled"), or about to return ("back").
Book == [live : SUBSET Ids, at : {"idle", "adding", "filled", "back"},
         taker : Ids \cup {0}, filled : Nat, success : BOOLEAN]

Resting(live) == [live |-> live, at |-> "idle", taker |-> 0,
                  filled |-> 0, success |-> FALSE]

\* add_order is called.
Adding(book, id) == [book EXCEPT !.at = "adding", !.taker = id]

\* An order leaves the book.
Without(book, id) == [book EXCEPT !.live = @ \ {id}]

Succeeding(book) == [book EXCEPT !.at = "back", !.success = TRUE]
Failing(book)    == [book EXCEPT !.at = "back", !.success = FALSE]

\* cancel_order fails unless the order is live.
Cancelling(book, id) ==
    IF id \in book.live THEN {Succeeding(Without(book, id))}
                        ELSE {Failing(book)}

\* replace_order amends a live order where it rests, or takes it out and adds
\* it anew under the same identifier.
Replacing(book, id) ==
    IF id \in book.live THEN {Succeeding(book), Adding(Without(book, id), id)}
                        ELSE {Failing(book)}

Traded(book, q, end) == [book EXCEPT !.filled = @ + q, !.at = end]

\* One trade of the order being added: it ends that order, one resting order,
\* or both.
Trading(book) ==
    IF book.at # "adding" \/ book.taker \in book.live \/ book.live = {} THEN {}
    ELSE {Without(Traded(book, q, end), other) :
             q \in FillSizes, end \in {"adding", "filled"}, other \in book.live}
         \cup {Traded(book, q, "filled") : q \in FillSizes}

\* What is left of the order being added comes to rest.
Admitted(book) == [book EXCEPT !.live = @ \cup {book.taker}]

\* add_order succeeds: what is left of the order rests or is dropped.
Accepting(book) ==
    IF book.at \notin {"adding", "filled"} \/ book.taker \in book.live THEN {}
    ELSE {Succeeding(book)}
         \cup (IF book.at = "filled" THEN {}
               ELSE {Succeeding(Admitted(book))})

\* add_order fails: always for an identifier in use, even after some trades.
Refusing(book) == IF book.at # "adding" THEN {} ELSE {Failing(book)}

\* The steps a book takes by itself once it has been called.
Continuations(book) == Trading(book) \cup Accepting(book) \cup Refusing(book)

\* Every step: calls (a flush changes no order), continuations, the return.
Moves(book) ==
    CASE book.at = "idle" ->
            {Failing(book)}
            \cup UNION {{Adding(book, id)} \cup Cancelling(book, id) \cup Replacing(book, id)
                           : id \in Ids}
      [] book.at = "back" -> {Resting(book.live)}
      [] OTHER -> Continuations(book)
=============================================================================
