--------------------------- MODULE MatchingEngine ---------------------------
(***************************************************************************)
(* exchange::MatchingEngine: the order books of all symbols, the queue of  *)
(* inbound messages and the loop that serves it.                           *)
(*                                                                         *)
(* Three threads meet here: one gateway enqueues messages, the engine      *)
(* thread makes every other call, and anyone may call stop().  The queue   *)
(* is the FIFO that SPSCQueue implements and a book does what BookContract *)
(* allows, one step at a time, so that messages and stop() come in between.*)
(***************************************************************************)
EXTENDS BookContract, Sequences, SequencesExt

CONSTANTS
    Symbols,    \* what clients take for a symbol
    Listeners,  \* callbacks a client may install
    Nobody,     \* an empty std::function
    Limit,      \* messages the inbound queue holds (65535 in the code)
    MaxCount    \* bound of the model: no call is made while a statistic is
                \*   this large (reset_stats makes room again)

Kinds == {"trade", "execution"}

ASSUME EngineConstants ==
    /\ Limit \in Nat \ {0} /\ MaxCount \in Nat \ {0}
    /\ 0 \notin Ids /\ Nobody \notin Listeners

VARIABLES
    books,      \* books_ and symbol_to_book_: by symbol, the book and whom it tells
    listeners,  \* trade_callback_ and execution_callback_
    inbox,      \* inbound_queue_
    running,    \* running_
    stats,      \* stats_
    thread,     \* where the engine thread is
    loop,       \* the loop it is in: run(), process_queue() or none
    current,    \* the message or direct call a book works on
    withdrawn   \* <<symbol, id>> whose last queued message is a cancellation

served == <<books, listeners, stats, current>>
vars   == <<served, inbox, running, thread, loop, withdrawn>>

Message == [type : {"NewOrder", "CancelOrder", "ReplaceOrder"},
            symbol : Symbols, id : Ids]

EmptyStats == [received |-> 0, matched |-> 0, cancelled |-> 0,
               executed |-> 0, volume |-> 0, processed |-> 0]

Nothing == [type |-> "None"]

Init ==
    /\ books = [symbol \in {} |-> [book |-> Resting({}), tells |-> [kind \in Kinds |-> Nobody]]]
    /\ listeners = [kind \in Kinds |-> Nobody]
    /\ inbox = <<>>
    /\ running = FALSE
    /\ stats = EmptyStats
    /\ thread = "free" /\ loop = "none"
    /\ current = Nothing
    /\ withdrawn = {}

\* Statistics are 64 bits wide; the model stops short of its bound.
RoomToCount == \A counter \in DOMAIN stats : stats[counter] < MaxCount

-----------------------------------------------------------------------------
(* Setting up *)

\* books_[symbol] = an empty book that tells these listeners.
BooksWith(symbol, tells) ==
    [other \in DOMAIN books \cup {symbol} |->
        IF other = symbol THEN [book |-> Resting({}), tells |-> tells] ELSE books[other]]

\* Faulty: a symbol that is added late gets no callbacks.
AddSymbolUntold(symbol) ==
    /\ thread = "free"
    /\ books' = BooksWith(symbol, [kind \in Kinds |-> Nobody])
    /\ UNCHANGED <<listeners, stats, current, inbox, running, thread, loop, withdrawn>>

\* A symbol that is traded already gets a new, empty book.
AddSymbol(symbol) ==
    /\ thread = "free"
    /\ books' = BooksWith(symbol, listeners)
    /\ UNCHANGED <<listeners, stats, current, inbox, running, thread, loop, withdrawn>>

\* set_trade_callback, set_execution_callback.
SetCallback(kind, listener) ==
    /\ thread = "free"
    /\ listeners' = [listeners EXCEPT ![kind] = listener]
    /\ books' = [symbol \in DOMAIN books |-> [books[symbol] EXCEPT !.tells[kind] = listener]]
    /\ UNCHANGED <<stats, current, inbox, running, thread, loop, withdrawn>>

ResetStats ==
    /\ thread = "free"
    /\ stats # EmptyStats
    /\ stats' = EmptyStats
    /\ UNCHANGED <<books, listeners, current, inbox, running, thread, loop, withdrawn>>

-----------------------------------------------------------------------------
(* The gateway and stop() *)

\* A push that succeeds; one that fails, for want of room or because the
\* gateway has not yet seen the room there is, changes nothing.
Enqueue(message) ==
    /\ Len(inbox) < Limit
    /\ inbox' = Append(inbox, message)
    /\ withdrawn' = IF message.type = "CancelOrder"
                    THEN withdrawn \cup {<<message.symbol, message.id>>}
                    ELSE withdrawn \ {<<message.symbol, message.id>>}
    /\ UNCHANGED <<served, running, thread, loop>>

\* EngineRunner::stop is no more than this, EngineRunner::start less: it starts
\* no thread, and only is_running() reads the flag it sets.
Stop ==
    /\ running
    /\ running' = FALSE
    /\ UNCHANGED <<served, inbox, thread, loop, withdrawn>>

-----------------------------------------------------------------------------
(* Calls to a book: submit_order, cancel_order, replace_order *)

\* Faulty: the end of a call is the end of the loop around it.
ResumeNever == thread' = "free"

\* Where the thread goes when a call or an unsuccessful pop is over.
Resume == thread' = CASE loop = "run" -> "testing"
                      [] loop = "queue" -> "popping"
                      [] OTHER -> "free"

Count(counters, names) ==
    [counter \in DOMAIN counters |->
        IF counter \in names THEN counters[counter] + 1 ELSE counters[counter]]

\* What get_book's book does when it is called.
Opening(book, message) ==
    CASE message.type = "NewOrder" -> {Adding(book, message.id)}
      [] message.type = "CancelOrder" -> Cancelling(book, message.id)
      [] message.type = "ReplaceOrder" -> Replacing(book, message.id)

\* The call the message asks for, on counters that may have counted it already.
Submit(message, counted) ==
    /\ stats' = Count(counted, IF message.type = "NewOrder" THEN {"received"} ELSE {})
    /\ \/ /\ message.symbol \notin DOMAIN books       \* UnknownSymbol
          /\ Resume
          /\ UNCHANGED <<books, current>>
       \/ /\ message.symbol \in DOMAIN books
          /\ thread' = "calling" /\ current' = message
          /\ \E book \in Opening(books[message.symbol].book, message) :
                books' = [books EXCEPT ![message.symbol].book = book]

\* A client of the single-threaded interface.
SubmitDirectly(message) ==
    /\ thread = "free"
    /\ RoomToCount
    /\ Submit(message, stats)
    /\ withdrawn' = IF message.type = "NewOrder"
                    THEN withdrawn \ {<<message.symbol, message.id>>} ELSE withdrawn
    /\ UNCHANGED <<listeners, inbox, running, loop>>

Called == books[current.symbol].book

BookStep ==
    /\ thread = "calling"
    /\ \E book \in Continuations(Called) :
          books' = [books EXCEPT ![current.symbol].book = book]
    /\ UNCHANGED <<listeners, stats, current, inbox, running, thread, loop, withdrawn>>

\* The book returns its result.
Settled(counters) ==
    IF ~Called.success THEN counters
    ELSE CASE current.type = "NewOrder" /\ Called.filled > 0 ->
                 [Count(counters, {"matched", "executed"}) EXCEPT !.volume = @ + Called.filled]
           [] current.type = "CancelOrder" -> Count(counters, {"cancelled"})
           [] OTHER -> counters

BookReturns ==
    /\ thread = "calling"
    /\ Called.at = "back"
    /\ stats' = Settled(stats)
    /\ books' = [books EXCEPT ![current.symbol].book = Resting(@.live)]
    /\ current' = Nothing
    /\ Resume
    /\ UNCHANGED <<listeners, inbox, running, loop, withdrawn>>

-----------------------------------------------------------------------------
(* process_one, process_queue, run *)

Run ==
    /\ thread = "free"
    /\ running' = TRUE
    /\ thread' = "testing" /\ loop' = "run"
    /\ UNCHANGED <<served, inbox, withdrawn>>

\* Faulty: an idle loop polls the queue and forgets to look at running_.
TestRunningWhenIdle ==
    /\ thread = "testing"
    /\ \/ (running \/ inbox = <<>>) /\ thread' = "popping" /\ UNCHANGED loop
       \/ ~running /\ inbox # <<>> /\ thread' = "free" /\ loop' = "none"
    /\ UNCHANGED <<served, inbox, running, withdrawn>>

\* while (running_)
TestRunning ==
    /\ thread = "testing"
    /\ \/ running /\ thread' = "popping" /\ UNCHANGED loop
       \/ ~running /\ thread' = "free" /\ loop' = "none"
    /\ UNCHANGED <<served, inbox, running, withdrawn>>

ProcessQueue ==
    /\ thread = "free"
    /\ thread' = "popping" /\ loop' = "queue"
    /\ UNCHANGED <<served, inbox, running, withdrawn>>

ProcessOne ==
    /\ thread = "free"
    /\ thread' = "popping"
    /\ UNCHANGED <<served, inbox, running, loop, withdrawn>>

\* Faulty: the newest message is served first.
PopNewest ==
    /\ thread = "popping"
    /\ inbox # <<>>
    /\ RoomToCount
    /\ inbox' = Front(inbox)
    /\ Submit(Last(inbox), Count(stats, {"processed"}))
    /\ UNCHANGED <<listeners, running, loop, withdrawn>>

Pop ==
    /\ thread = "popping"
    /\ inbox # <<>>
    /\ RoomToCount
    /\ inbox' = Tail(inbox)
    /\ Submit(Head(inbox), Count(stats, {"processed"}))
    /\ UNCHANGED <<listeners, running, loop, withdrawn>>

\* The queue is empty, or the engine thread has not yet seen that it is not.
PopNothing ==
    /\ thread = "popping"
    /\ \/ loop = "run" /\ thread' = "testing" /\ UNCHANGED loop
       \/ loop # "run" /\ thread' = "free" /\ loop' = "none"
    /\ UNCHANGED <<served, inbox, running, withdrawn>>

-----------------------------------------------------------------------------
Gateway == \E message \in Message : Enqueue(message)

Engine == BookStep \/ BookReturns \/ TestRunning \/ Pop \/ PopNothing

Control ==
    \/ \E symbol \in Symbols : AddSymbol(symbol)
    \/ \E kind \in Kinds, listener \in Listeners \cup {Nobody} : SetCallback(kind, listener)
    \/ \E message \in Message : SubmitDirectly(message)
    \/ ResetStats \/ Run \/ ProcessQueue \/ ProcessOne
    \/ Stop

Next == Gateway \/ Engine \/ Control

\* The engine thread keeps running, a book that is called returns (CallsReturn
\* of OrderBook), and a thread that polls the queue comes to see what is in it
\* (ImplementsFifo of SPSCQueue).
Spec == Init /\ [][Next]_vars /\ WF_vars(Engine) /\ SF_vars(Pop)

-----------------------------------------------------------------------------
(***************************************************************************)
(* Properties                                                              *)
(***************************************************************************)

\* Every variable has its C++ type and the queue its capacity.
TypeOK ==
    /\ DOMAIN books \subseteq Symbols
    /\ books \in [DOMAIN books -> [book : Book, tells : [Kinds -> Listeners \cup {Nobody}]]]
    /\ listeners \in [Kinds -> Listeners \cup {Nobody}]
    /\ inbox \in Seq(Message) /\ Len(inbox) <= Limit
    /\ running \in BOOLEAN
    /\ stats \in [DOMAIN EmptyStats -> Nat]
    /\ thread \in {"free", "testing", "popping", "calling"}
    /\ loop \in {"none", "run", "queue"}
    /\ current \in Message \cup {Nothing}
    /\ withdrawn \subseteq Symbols \X Ids

\* Whoever listens to the engine listens to every book, in whatever order
\* callbacks are installed, replaced or removed and symbols are added.
ListenersEverywhere ==
    \A symbol \in DOMAIN books : books[symbol].tells = listeners

About(message, symbol, id) == message.symbol = symbol /\ message.id = id

\* A cancellation that is the last thing a client queued for an order prevails:
\* once the messages about the order are processed it is not live, whatever
\* matching, replacements, direct cancellations and other symbols do meanwhile.
CancelPrevails ==
    \A symbol \in DOMAIN books, id \in Ids :
        /\ <<symbol, id>> \in withdrawn
        /\ \A i \in DOMAIN inbox : ~About(inbox[i], symbol, id)
        /\ thread = "calling" => ~About(current, symbol, id)
        => id \notin books[symbol].book.live

\* stop() ends the loop of run(), also while messages keep coming in.
StopHonoured == loop = "run" /\ ~running ~> loop # "run"

\* A full queue does not stay full while the engine runs (short of the bound on
\* the statistics).
FullInboxDrains == loop = "run" /\ Len(inbox) = Limit
                       ~> Len(inbox) < Limit \/ ~running \/ ~RoomToCount
=============================================================================
