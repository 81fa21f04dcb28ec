------------------------ MODULE MatchingEngineProofs ------------------------
(***************************************************************************)
(* Proofs about MatchingEngine, for any symbols, orders and listeners, any *)
(* capacity of the inbound queue and any bound on the statistics.          *)
(***************************************************************************)
EXTENDS MatchingEngine, TLAPS

-----------------------------------------------------------------------------
(* Books: what a step of BookContract returns is a book, and an order that is
   neither live nor being added stays so unless it is the one submitted. *)

\* The book neither holds the order nor is about to take it in.
Gone(book, id) == id \notin book.live /\ ~(book.at = "adding" /\ book.taker = id)

\* A book that is adding an order knows which.
Working(book) == book.at = "adding" => book.taker \in Ids

\* The changes a step of a book is made of.
LEMMA AddingTyped ==
    ASSUME NEW book \in Book, NEW id \in Ids PROVE Adding(book, id) \in Book
BY DEF Adding, Book

LEMMA WithoutTyped ==
    ASSUME NEW book \in Book, NEW id PROVE Without(book, id) \in Book
BY DEF Without, Book

LEMMA TradedTyped ==
    ASSUME NEW book \in Book, NEW q \in FillSizes, NEW end \in {"adding", "filled"}
    PROVE  Traded(book, q, end) \in Book
<1>1. \A n \in Nat : [book EXCEPT !.filled = n, !.at = end] \in Book
  BY DEF Book
<1>2. book.filled + q \in Nat
  BY FillSizesAssumption DEF Book
<1> QED
  BY <1>1, <1>2 DEF Traded

LEMMA AdmittedTyped ==
    ASSUME NEW book \in Book, book.at = "adding", book.taker \in Ids
    PROVE  Admitted(book) \in Book
BY DEF Admitted, Book

LEMMA ReturningTyped ==
    ASSUME NEW book \in Book
    PROVE  Succeeding(book) \in Book /\ Failing(book) \in Book
BY DEF Succeeding, Failing, Book

\* A book that is adding an order knows which.
LEMMA AddingWorks ==
    ASSUME NEW book \in Book, NEW id \in Ids PROVE Working(Adding(book, id))
BY DEF Adding, Working, Book

LEMMA ReturningWorks ==
    ASSUME NEW book \in Book
    PROVE  Working(Succeeding(book)) /\ Working(Failing(book))
BY DEF Succeeding, Failing, Working, Book

\* A trade changes neither the order being added nor the live orders.
LEMMA TradedTaker ==
    ASSUME NEW book \in Book, NEW q, NEW end
    PROVE  /\ Traded(book, q, end).live = book.live
           /\ Traded(book, q, end).taker = book.taker
<1>1. \A n : LET traded == [book EXCEPT !.filled = n, !.at = end]
             IN  traded.live = book.live /\ traded.taker = book.taker
  BY DEF Book
<1> QED
  BY <1>1 DEF Traded

LEMMA WithoutTaker ==
    ASSUME NEW book \in Book, NEW id PROVE Without(book, id).taker = book.taker
BY DEF Without, Book

\* Which changes leave an order gone.
LEMMA ReturningGone ==
    ASSUME NEW book \in Book, NEW id \in Ids, id \notin book.live
    PROVE  Gone(Succeeding(book), id) /\ Gone(Failing(book), id)
BY DEF Gone, Succeeding, Failing, Book

LEMMA AddingGone ==
    ASSUME NEW book \in Book, NEW id \in Ids, id \notin book.live, NEW other, other # id
    PROVE  Gone(Adding(book, other), id)
BY DEF Gone, Adding, Book

LEMMA WithoutGone ==
    ASSUME NEW book \in Book, NEW id \in Ids, Gone(book, id), NEW other
    PROVE  Gone(Without(book, other), id)
BY DEF Gone, Without, Book

LEMMA WithoutLive ==
    ASSUME NEW book \in Book, NEW other
    PROVE  Without(book, other).live = book.live \ {other}
BY DEF Without, Book

LEMMA TradedGone ==
    ASSUME NEW book \in Book, NEW id \in Ids, Gone(book, id), book.at = "adding", NEW q, NEW end
    PROVE  Gone(Traded(book, q, end), id)
BY TradedTaker DEF Gone

\* A call opens with a book.
LEMMA OpeningTyped ==
    ASSUME NEW book \in Book, NEW message \in Message, NEW new \in Opening(book, message)
    PROVE  new \in Book /\ Working(new)
<1>1. message.id \in Ids /\ message.type \in {"NewOrder", "CancelOrder", "ReplaceOrder"}
  BY DEF Message
<1>2. Working(Adding(book, message.id)) /\ Adding(book, message.id) \in Book
  BY <1>1, AddingTyped, AddingWorks
<1>3. Working(Succeeding(book)) /\ Succeeding(book) \in Book
  BY ReturningTyped, ReturningWorks
<1>4. Working(Failing(book)) /\ Failing(book) \in Book
  BY ReturningTyped, ReturningWorks
<1> DEFINE rest == Without(book, message.id)
<1>6. rest \in Book
  BY WithoutTyped
<1>7. Working(Adding(rest, message.id)) /\ Adding(rest, message.id) \in Book
  BY <1>1, <1>6, AddingTyped, AddingWorks
<1>8. Working(Succeeding(rest)) /\ Succeeding(rest) \in Book
  BY <1>6, ReturningTyped, ReturningWorks
<1>9. new \in {Adding(book, message.id), Succeeding(book), Failing(book),
                Adding(rest, message.id), Succeeding(rest)}
  BY <1>1 DEF Opening, Cancelling, Replacing
<1> QED
  BY <1>2, <1>3, <1>4, <1>7, <1>8, <1>9

\* A book stays a book while it works on a call.
LEMMA ContinuationsTyped ==
    ASSUME NEW book \in Book, Working(book), NEW new \in Continuations(book)
    PROVE  new \in Book /\ Working(new)
<1>1. CASE new \in Trading(book)
  <2>1. book.at = "adding" /\ book.taker \in Ids
    BY <1>1 DEF Trading, Working
  <2>2. CASE \E q \in FillSizes : new = Traded(book, q, "filled")
    <3>1. PICK q \in FillSizes : new = Traded(book, q, "filled")
      BY <2>2
    <3> QED
      BY <2>1, <3>1, TradedTyped, TradedTaker DEF Working
  <2>3. CASE \E q \in FillSizes, end \in {"adding", "filled"}, other \in book.live :
                new = Without(Traded(book, q, end), other)
    <3>1. PICK q \in FillSizes, end \in {"adding", "filled"}, other \in book.live :
             new = Without(Traded(book, q, end), other)
      BY <2>3
    <3>2. Traded(book, q, end) \in Book
      BY TradedTyped
    <3> QED
      BY <2>1, <3>1, <3>2, TradedTaker, WithoutTaker, WithoutTyped DEF Working
  <2> QED
    BY <1>1, <2>2, <2>3 DEF Trading
<1>2. CASE new \in Accepting(book)
  <2>1. \/ new = Succeeding(book)
        \/ book.at = "adding" /\ new = Succeeding(Admitted(book))
    BY <1>2 DEF Accepting
  <2> QED
    BY <2>1, AdmittedTyped, ReturningTyped, ReturningWorks DEF Working
<1>3. CASE new \in Refusing(book)
  BY <1>3, ReturningTyped, ReturningWorks DEF Refusing
<1> QED
  BY <1>1, <1>2, <1>3 DEF Continuations

\* Only submitting an order that is gone brings it back, and a cancellation
\* leaves an order gone that it takes out or that is not there.
LEMMA OpeningGone ==
    ASSUME NEW book \in Book, NEW message \in Message, NEW new \in Opening(book, message),
           NEW id \in Ids
    PROVE  /\ Gone(book, id) /\ ~(message.type = "NewOrder" /\ message.id = id)
                 => Gone(new, id)
           /\ message.type = "CancelOrder" /\ message.id = id => Gone(new, id)
<1> DEFINE rest == Without(book, message.id)
<1>1. message.id \in Ids /\ message.type \in {"NewOrder", "CancelOrder", "ReplaceOrder"}
  BY DEF Message
<1>2. Gone(book, id) => id \notin book.live
  BY DEF Gone
<1>3. rest \in Book /\ rest.live = book.live \ {message.id}
  BY WithoutTyped, WithoutLive
<1>4. id \notin rest.live => Gone(Succeeding(rest), id)
  BY <1>3, ReturningGone
<1>5. id \notin rest.live /\ message.id # id => Gone(Adding(rest, message.id), id)
  BY <1>3, AddingGone
<1>6. CASE message.type = "NewOrder"
  BY <1>1, <1>2, <1>6, AddingGone DEF Opening
<1>7. CASE message.type = "CancelOrder"
  <2>1. \/ new = Succeeding(rest)
        \/ message.id \notin book.live /\ new = Failing(book)
    BY <1>7 DEF Opening, Cancelling
  <2> QED
    BY <1>2, <1>3, <1>4, <1>7, <2>1, ReturningGone
<1>8. CASE message.type = "ReplaceOrder"
  <2>1. \/ new \in {Succeeding(book), Failing(book)}
        \/ message.id \in book.live /\ new = Adding(rest, message.id)
    BY <1>8 DEF Opening, Replacing
  <2> QED
    BY <1>2, <1>3, <1>5, <1>8, <2>1, ReturningGone
<1> QED
  BY <1>1, <1>6, <1>7, <1>8

\* Trades, acceptance and refusal of another order do not bring it back either.
LEMMA ContinuationsGone ==
    ASSUME NEW book \in Book, Working(book), NEW new \in Continuations(book),
           NEW id \in Ids, Gone(book, id)
    PROVE  Gone(new, id)
<1>1. id \notin book.live
  BY DEF Gone
<1>2. CASE new \in Trading(book)
  <2>1. book.at = "adding"
    BY <1>2 DEF Trading
  <2>2. CASE \E q \in FillSizes : new = Traded(book, q, "filled")
    BY <2>1, <2>2, TradedGone
  <2>3. CASE \E q \in FillSizes, end \in {"adding", "filled"}, other \in book.live :
                new = Without(Traded(book, q, end), other)
    <3>1. PICK q \in FillSizes, end \in {"adding", "filled"}, other \in book.live :
             new = Without(Traded(book, q, end), other)
      BY <2>3
    <3>2. Traded(book, q, end) \in Book /\ Gone(Traded(book, q, end), id)
      BY <2>1, TradedTyped, TradedGone
    <3> QED
      BY <3>1, <3>2, WithoutGone
  <2> QED
    BY <1>2, <2>2, <2>3 DEF Trading
<1>3. CASE new \in Accepting(book)
  <2>1. \/ new = Succeeding(book)
        \/ book.at = "adding" /\ new = Succeeding(Admitted(book))
    BY <1>3 DEF Accepting
  <2>2. CASE book.at = "adding"
    <3>1. Admitted(book) \in Book /\ Admitted(book).live = book.live \cup {book.taker}
      BY <2>2, AdmittedTyped DEF Admitted, Book, Working
    <3>2. id \notin Admitted(book).live
      BY <1>1, <2>2, <3>1 DEF Gone
    <3> QED
      BY <1>1, <2>1, <3>1, <3>2, ReturningGone
  <2> QED
    BY <1>1, <2>1, <2>2, ReturningGone
<1>4. CASE new \in Refusing(book)
  BY <1>1, <1>4, ReturningGone DEF Refusing
<1> QED
  BY <1>2, <1>3, <1>4 DEF Continuations

LEMMA RestingTyped ==
    ASSUME NEW live \in SUBSET Ids
    PROVE  Resting(live) \in Book /\ Working(Resting(live))
BY DEF Resting, Book, Working

-----------------------------------------------------------------------------
(* Type correctness *)

Listening == [Kinds -> Listeners \cup {Nobody}]

Entry == [book : Book, tells : Listening]

\* What a call needs beyond the types: the book it works on exists, and a book
\* that adds an order knows which.
CallsSound ==
    /\ thread = "calling" => current \in Message /\ current.symbol \in DOMAIN books
    /\ \A symbol \in DOMAIN books : Working(books[symbol].book)

Sound == TypeOK /\ CallsSound

\* A statistic is incremented.
LEMMA CountTyped ==
    ASSUME NEW counters \in [DOMAIN EmptyStats -> Nat], NEW names
    PROVE  Count(counters, names) \in [DOMAIN EmptyStats -> Nat]
BY DEF Count

LEMMA SettledTyped ==
    ASSUME NEW counters \in [DOMAIN EmptyStats -> Nat], Called \in Book
    PROVE  Settled(counters) \in [DOMAIN EmptyStats -> Nat]
<1>1. \A names : Count(counters, names) \in [DOMAIN EmptyStats -> Nat]
  BY CountTyped
<1>2. Called.filled \in Nat /\ "volume" \in DOMAIN EmptyStats
  BY DEF Book, EmptyStats
<1>3. \A matched \in [DOMAIN EmptyStats -> Nat] :
         [matched EXCEPT !.volume = @ + Called.filled] \in [DOMAIN EmptyStats -> Nat]
  BY <1>2
<1> QED
  BY <1>1, <1>3 DEF Settled

\* A book in the map gets a new state.
LEMMA BookChanged ==
    ASSUME TypeOK, CallsSound, NEW symbol \in DOMAIN books, NEW new \in Book, Working(new),
           books' = [books EXCEPT ![symbol].book = new]
    PROVE  /\ DOMAIN books' = DOMAIN books
           /\ books' \in [DOMAIN books -> Entry]
           /\ \A s \in DOMAIN books : Working(books'[s].book)
           /\ \A s \in DOMAIN books : books'[s].tells = books[s].tells
           /\ \A s \in DOMAIN books : books'[s].book = IF s = symbol THEN new ELSE books[s].book
<1>1. books \in [DOMAIN books -> Entry]
  BY DEF TypeOK, Entry, Listening
<1>2. books' = [books EXCEPT ![symbol] = [books[symbol] EXCEPT !.book = new]]
  OBVIOUS
<1>3. /\ [books[symbol] EXCEPT !.book = new] \in Entry
      /\ [books[symbol] EXCEPT !.book = new].book = new
      /\ [books[symbol] EXCEPT !.book = new].tells = books[symbol].tells
  BY <1>1 DEF Entry
<1> QED
  BY <1>1, <1>2, <1>3 DEF CallsSound

LEMMA ResumeFree ==
    ASSUME Resume PROVE thread' \in {"free", "testing", "popping"}
BY DEF Resume

\* A call is opened, or refused for want of a book.
LEMMA SubmitSound ==
    ASSUME Sound, NEW message \in Message, NEW counted \in [DOMAIN EmptyStats -> Nat],
           Submit(message, counted)
    PROVE  /\ DOMAIN books' = DOMAIN books
           /\ books' \in [DOMAIN books -> Entry]
           /\ \A s \in DOMAIN books : Working(books'[s].book)
           /\ \A s \in DOMAIN books : books'[s].tells = books[s].tells
           /\ stats' \in [DOMAIN EmptyStats -> Nat]
           /\ thread' \in {"free", "testing", "popping", "calling"}
           /\ current' \in Message \cup {Nothing}
           /\ thread' = "calling" => current' \in Message /\ current'.symbol \in DOMAIN books
<1>1. books \in [DOMAIN books -> Entry]
  BY DEF Sound, TypeOK, Entry, Listening
<1>2. stats' \in [DOMAIN EmptyStats -> Nat]
  BY CountTyped DEF Submit
<1>3. CASE message.symbol \notin DOMAIN books
  BY <1>1, <1>2, <1>3, ResumeFree DEF Submit, Sound, TypeOK, CallsSound
<1>4. CASE message.symbol \in DOMAIN books
  <2>1. PICK new \in Opening(books[message.symbol].book, message) :
           books' = [books EXCEPT ![message.symbol].book = new]
    BY <1>4 DEF Submit
  <2>2. books[message.symbol].book \in Book
    BY <1>1, <1>4 DEF Entry
  <2>3. new \in Book /\ Working(new)
    BY <2>2, OpeningTyped
  <2>4. thread' = "calling" /\ current' = message
    BY <1>4 DEF Submit
  <2> QED
    BY <1>2, <1>4, <2>1, <2>3, <2>4, BookChanged DEF Sound
<1> QED
  BY <1>3, <1>4

LEMMA SoundInit == Init => Sound
<1> SUFFICES ASSUME Init PROVE Sound
  OBVIOUS
<1>1. books = [symbol \in {} |-> [book |-> Resting({}), tells |-> [kind \in Kinds |-> Nobody]]]
  BY DEF Init
<1>2. DOMAIN books = {}
  BY <1>1
<1>3. books \in [DOMAIN books -> [book : Book, tells : [Kinds -> Listeners \cup {Nobody}]]]
  BY <1>1
<1>4. stats \in [DOMAIN EmptyStats -> Nat]
  BY DEF Init, EmptyStats
<1>5. TypeOK
  <2>1. inbox \in Seq(Message) /\ Len(inbox) <= Limit
    BY EngineConstants DEF Init
  <2>2. listeners \in [Kinds -> Listeners \cup {Nobody}]
    BY DEF Init
  <2> QED
    BY <1>2, <1>3, <1>4, <2>1, <2>2 DEF Init, TypeOK
<1>6. CallsSound
  BY <1>2 DEF Init, CallsSound
<1> QED
  BY <1>5, <1>6 DEF Sound

\* Only these variables bear on soundness.
LEMMA SoundKept ==
    ASSUME Sound, UNCHANGED books, stats' \in [DOMAIN EmptyStats -> Nat],
           listeners' \in Listening, inbox' \in Seq(Message), Len(inbox') <= Limit,
           running' \in BOOLEAN, loop' \in {"none", "run", "queue"},
           withdrawn' \subseteq Symbols \X Ids,
           \/ thread' \in {"free", "testing", "popping"}
           \/ thread' = "calling" /\ thread = "calling",
           UNCHANGED current
    PROVE  Sound'
<1>1. TypeOK'
  BY DEF Sound, TypeOK, Listening
<1>2. CallsSound'
  BY DEF Sound, CallsSound
<1> QED
  BY <1>1, <1>2 DEF Sound

LEMMA SoundNext == Sound /\ [Next]_vars => Sound'
<1> SUFFICES ASSUME Sound, [Next]_vars PROVE Sound'
  OBVIOUS
<1>1. /\ books \in [DOMAIN books -> Entry] /\ DOMAIN books \subseteq Symbols
      /\ \A s \in DOMAIN books : books[s].book \in Book /\ Working(books[s].book)
  BY DEF Sound, TypeOK, CallsSound, Entry, Listening
<1>2. ASSUME NEW symbol \in Symbols, AddSymbol(symbol) PROVE Sound'
  <2>1. Resting({}) \in Book /\ Working(Resting({}))
    BY RestingTyped
  <2>2. /\ DOMAIN books' = DOMAIN books \cup {symbol}
        /\ books' \in [DOMAIN books \cup {symbol} -> Entry]
    BY <1>1, <1>2, <2>1 DEF AddSymbol, BooksWith, Entry, Listening, Sound, TypeOK
  <2>3. \A s \in DOMAIN books' : Working(books'[s].book)
    BY <1>1, <1>2, <2>1 DEF AddSymbol, BooksWith
  <2>4. TypeOK'
    BY <1>1, <1>2, <2>2 DEF AddSymbol, Sound, TypeOK, Entry, Listening
  <2>5. CallsSound'
    BY <1>2, <2>3 DEF AddSymbol, CallsSound
  <2> QED
    BY <2>4, <2>5 DEF Sound
<1>3. ASSUME NEW kind \in Kinds, NEW listener \in Listeners \cup {Nobody},
             SetCallback(kind, listener)
      PROVE  Sound'
  <2>1. listeners' \in Listening
    BY <1>3 DEF SetCallback, Sound, TypeOK, Listening
  <2>2. \A s \in DOMAIN books :
           /\ [books[s] EXCEPT !.tells[kind] = listener] \in Entry
           /\ [books[s] EXCEPT !.tells[kind] = listener].book = books[s].book
    BY <1>1 DEF Entry, Listening
  <2>3. DOMAIN books' = DOMAIN books /\ books' \in [DOMAIN books -> Entry]
    BY <1>3, <2>2 DEF SetCallback
  <2>4. \A s \in DOMAIN books' : Working(books'[s].book)
    BY <1>1, <1>3, <2>2 DEF SetCallback
  <2>5. TypeOK'
    BY <1>1, <1>3, <2>1, <2>3 DEF SetCallback, Sound, TypeOK, Entry, Listening
  <2>6. CallsSound'
    BY <1>3, <2>4 DEF SetCallback, CallsSound
  <2> QED
    BY <2>5, <2>6 DEF Sound
<1>4. ASSUME NEW message \in Message, Enqueue(message) PROVE Sound'
  <2>1. inbox' \in Seq(Message) /\ Len(inbox') <= Limit
    BY <1>4, EngineConstants DEF Enqueue, Sound, TypeOK
  <2>2. withdrawn' \subseteq Symbols \X Ids
    BY <1>4 DEF Enqueue, Sound, TypeOK, Message
  <2> QED
    BY <1>4, <2>1, <2>2, SoundKept DEF Enqueue, served, Sound, TypeOK, Listening
<1>5. ASSUME NEW message \in Message, SubmitDirectly(message) PROVE Sound'
  <2>1. stats \in [DOMAIN EmptyStats -> Nat]
    BY DEF Sound, TypeOK
  <2>2. Submit(message, stats)
    BY <1>5 DEF SubmitDirectly
  <2>3. withdrawn' \subseteq Symbols \X Ids
    BY <1>5 DEF SubmitDirectly, Sound, TypeOK
  <2>4. TypeOK'
    BY <1>1, <1>5, <2>1, <2>2, <2>3, SubmitSound DEF SubmitDirectly, Sound, TypeOK, Entry, Listening
  <2>5. CallsSound'
    BY <1>1, <2>1, <2>2, SubmitSound DEF CallsSound
  <2> QED
    BY <2>4, <2>5 DEF Sound
<1>6. CASE Pop
  <2>1. inbox # <<>> /\ inbox \in Seq(Message) /\ stats \in [DOMAIN EmptyStats -> Nat]
    BY <1>6 DEF Pop, Sound, TypeOK
  <2>2. Head(inbox) \in Message /\ Tail(inbox) \in Seq(Message) /\ Len(Tail(inbox)) <= Limit
    BY <2>1, EngineConstants DEF Sound, TypeOK
  <2>3. Count(stats, {"processed"}) \in [DOMAIN EmptyStats -> Nat]
    BY <2>1, CountTyped
  <2>4. Submit(Head(inbox), Count(stats, {"processed"}))
    BY <1>6 DEF Pop
  <2>5. TypeOK'
    BY <1>1, <1>6, <2>2, <2>3, <2>4, SubmitSound DEF Pop, Sound, TypeOK, Entry, Listening
  <2>6. CallsSound'
    BY <1>1, <2>2, <2>3, <2>4, SubmitSound DEF CallsSound
  <2> QED
    BY <2>5, <2>6 DEF Sound
<1>7. CASE BookStep
  <2>1. current.symbol \in DOMAIN books /\ current \in Message
    BY <1>7 DEF BookStep, Sound, CallsSound
  <2>2. PICK new \in Continuations(Called) :
           books' = [books EXCEPT ![current.symbol].book = new]
    BY <1>7 DEF BookStep
  <2>3. new \in Book /\ Working(new)
    BY <1>1, <2>1, ContinuationsTyped DEF Called
  <2>4. /\ DOMAIN books' = DOMAIN books /\ books' \in [DOMAIN books -> Entry]
        /\ \A s \in DOMAIN books : Working(books'[s].book)
    BY <2>1, <2>2, <2>3, BookChanged DEF Sound
  <2>5. TypeOK'
    BY <1>1, <1>7, <2>4 DEF BookStep, Sound, TypeOK, Entry, Listening
  <2>6. CallsSound'
    BY <1>7, <2>1, <2>4 DEF BookStep, CallsSound
  <2> QED
    BY <2>5, <2>6 DEF Sound
<1>8. CASE BookReturns
  <2>1. current.symbol \in DOMAIN books
    BY <1>8 DEF BookReturns, Sound, CallsSound
  <2>2. Called \in Book
    BY <1>1, <2>1 DEF Called
  <2>3. Resting(Called.live) \in Book /\ Working(Resting(Called.live))
    BY <2>2, RestingTyped DEF Book
  <2>4. books' = [books EXCEPT ![current.symbol].book = Resting(Called.live)]
    BY <1>8 DEF BookReturns, Called
  <2>5. /\ DOMAIN books' = DOMAIN books /\ books' \in [DOMAIN books -> Entry]
        /\ \A s \in DOMAIN books : Working(books'[s].book)
    BY <2>1, <2>3, <2>4, BookChanged DEF Sound
  <2>6. Settled(stats) \in [DOMAIN EmptyStats -> Nat]
    BY <2>2, SettledTyped DEF Sound, TypeOK
  <2>7. thread' \in {"free", "testing", "popping"}
    BY <1>8, ResumeFree DEF BookReturns
  <2>8. TypeOK'
    BY <1>1, <1>8, <2>5, <2>6, <2>7 DEF BookReturns, Sound, TypeOK, Entry, Listening
  <2>9. CallsSound'
    BY <2>5, <2>7 DEF CallsSound
  <2> QED
    BY <2>8, <2>9 DEF Sound
<1>9. CASE ResetStats
  <2>1. EmptyStats \in [DOMAIN EmptyStats -> Nat]
    BY DEF EmptyStats
  <2> QED
    BY <1>9, <2>1, SoundKept DEF ResetStats, Sound, TypeOK, Listening
<1>10. CASE Stop \/ Run \/ TestRunning \/ ProcessQueue \/ ProcessOne \/ PopNothing
  BY <1>10, SoundKept DEF Stop, Run, TestRunning, ProcessQueue, ProcessOne, PopNothing, served,
                          Sound, TypeOK, Listening
<1>11. CASE UNCHANGED vars
  BY <1>11, SoundKept DEF vars, served, Sound, TypeOK, Listening
<1> QED
  BY <1>2, <1>3, <1>4, <1>5, <1>6, <1>7, <1>8, <1>9, <1>10, <1>11
     DEF Next, Gateway, Engine, Control

\* All variables keep their C++ types, the queue its capacity.
THEOREM TypeCorrect == Spec => []TypeOK
<1>1. Sound => TypeOK
  BY DEF Sound
<1> QED
  BY SoundInit, SoundNext, <1>1, PTL DEF Spec

-----------------------------------------------------------------------------
(* Callbacks *)

LEMMA ListenersNext == Sound /\ ListenersEverywhere /\ [Next]_vars => ListenersEverywhere'
<1> SUFFICES ASSUME Sound, ListenersEverywhere, [Next]_vars PROVE ListenersEverywhere'
  OBVIOUS
<1>1. books \in [DOMAIN books -> Entry]
  BY DEF Sound, TypeOK, Entry, Listening
<1>2. ASSUME NEW symbol \in Symbols, AddSymbol(symbol) PROVE ListenersEverywhere'
  BY <1>2 DEF AddSymbol, BooksWith, ListenersEverywhere
<1>3. ASSUME NEW kind \in Kinds, NEW listener \in Listeners \cup {Nobody},
             SetCallback(kind, listener)
      PROVE  ListenersEverywhere'
  <2>1. \A s \in DOMAIN books :
           [books[s] EXCEPT !.tells[kind] = listener].tells
               = [books[s].tells EXCEPT ![kind] = listener]
    BY <1>1 DEF Entry
  <2> QED
    BY <1>3, <2>1 DEF SetCallback, ListenersEverywhere
<1>4. ASSUME NEW message \in Message, SubmitDirectly(message) PROVE ListenersEverywhere'
  <2>1. stats \in [DOMAIN EmptyStats -> Nat] /\ Submit(message, stats) /\ listeners' = listeners
    BY <1>4 DEF SubmitDirectly, Sound, TypeOK
  <2> QED
    BY <2>1, SubmitSound DEF ListenersEverywhere
<1>5. CASE Pop
  <2>1. /\ Count(stats, {"processed"}) \in [DOMAIN EmptyStats -> Nat]
        /\ Submit(Head(inbox), Count(stats, {"processed"})) /\ listeners' = listeners
    BY <1>5, CountTyped DEF Pop, Sound, TypeOK
  <2>2. Head(inbox) \in Message
    BY <1>5 DEF Pop, Sound, TypeOK
  <2> QED
    BY <2>1, <2>2, SubmitSound DEF ListenersEverywhere
<1>6. CASE BookStep
  <2>1. current.symbol \in DOMAIN books /\ listeners' = listeners
    BY <1>6 DEF BookStep, Sound, CallsSound
  <2>2. PICK new \in Continuations(Called) :
           books' = [books EXCEPT ![current.symbol].book = new]
    BY <1>6 DEF BookStep
  <2>3. new \in Book /\ Working(new)
    BY <1>1, <2>1, ContinuationsTyped DEF Called, Sound, CallsSound, Entry
  <2> QED
    BY <2>1, <2>2, <2>3, BookChanged DEF Sound, ListenersEverywhere
<1>7. CASE BookReturns
  <2>1. current.symbol \in DOMAIN books /\ listeners' = listeners
    BY <1>7 DEF BookReturns, Sound, CallsSound
  <2>2. Resting(Called.live) \in Book /\ Working(Resting(Called.live))
    BY <1>1, <2>1, RestingTyped DEF Called, Entry, Book
  <2>3. books' = [books EXCEPT ![current.symbol].book = Resting(Called.live)]
    BY <1>7 DEF BookReturns, Called
  <2> QED
    BY <2>1, <2>2, <2>3, BookChanged DEF Sound, ListenersEverywhere
<1>8. CASE UNCHANGED <<books, listeners>>
  BY <1>8 DEF ListenersEverywhere
<1> QED
  BY <1>2, <1>3, <1>4, <1>5, <1>6, <1>7, <1>8
     DEF Next, Gateway, Engine, Control, vars, served, Enqueue, ResetStats, Stop, Run,
         TestRunning, ProcessQueue, ProcessOne, PopNothing

\* Whoever listens to the engine listens to every book.
THEOREM ListenersEverywhereAlways == Spec => []ListenersEverywhere
<1>1. Init => ListenersEverywhere
  BY DEF Init, ListenersEverywhere
<1> QED
  BY <1>1, SoundInit, SoundNext, ListenersNext, PTL DEF Spec

-----------------------------------------------------------------------------
(* Cancellations *)

\* The last queued message about the order is a cancellation.
CancelComing(symbol, id) ==
    \E i \in 1 .. Len(inbox) :
        /\ About(inbox[i], symbol, id) /\ inbox[i].type = "CancelOrder"
        /\ \A j \in 1 .. Len(inbox) : j > i => ~About(inbox[j], symbol, id)

NothingComing(symbol, id) == \A i \in 1 .. Len(inbox) : ~About(inbox[i], symbol, id)

\* A withdrawn order waits for its cancellation or is gone for good.
CancelTracked ==
    \A symbol \in Symbols, id \in Ids :
        <<symbol, id>> \in withdrawn =>
            \/ CancelComing(symbol, id)
            \/ /\ NothingComing(symbol, id)
               /\ symbol \in DOMAIN books => Gone(books[symbol].book, id)

LEMMA TrackedSuffices == Sound /\ CancelTracked => CancelPrevails
<1> SUFFICES ASSUME Sound, CancelTracked PROVE CancelPrevails
  OBVIOUS
<1> SUFFICES ASSUME NEW symbol \in DOMAIN books, NEW id \in Ids,
                    <<symbol, id>> \in withdrawn,
                    \A i \in DOMAIN inbox : ~About(inbox[i], symbol, id)
             PROVE  id \notin books[symbol].book.live
  BY DEF CancelPrevails
<1>1. symbol \in Symbols /\ DOMAIN inbox = 1 .. Len(inbox)
  BY DEF Sound, TypeOK
<1>2. ~CancelComing(symbol, id)
  BY <1>1 DEF CancelComing
<1> QED
  BY <1>1, <1>2 DEF CancelTracked, Gone

\* A call leaves an order gone unless it submits it, and a cancellation does.
LEMMA SubmitGone ==
    ASSUME Sound, NEW message \in Message, NEW counted, Submit(message, counted),
           NEW symbol \in DOMAIN books, NEW id \in Ids
    PROVE  /\ Gone(books[symbol].book, id)
              /\ ~(message.type = "NewOrder" /\ About(message, symbol, id))
                 => Gone(books'[symbol].book, id)
           /\ message.type = "CancelOrder" /\ About(message, symbol, id)
                 => Gone(books'[symbol].book, id)
<1>1. books \in [DOMAIN books -> Entry]
  BY DEF Sound, TypeOK, Entry, Listening
<1>2. CASE message.symbol \notin DOMAIN books
  BY <1>2 DEF Submit, About
<1>3. CASE message.symbol \in DOMAIN books
  <2>1. PICK new \in Opening(books[message.symbol].book, message) :
           books' = [books EXCEPT ![message.symbol].book = new]
    BY <1>3 DEF Submit
  <2>2. books[message.symbol].book \in Book
    BY <1>1, <1>3 DEF Entry
  <2>3. new \in Book /\ Working(new)
    BY <2>2, OpeningTyped
  <2>4. books'[symbol].book = IF symbol = message.symbol THEN new ELSE books[symbol].book
    BY <1>3, <2>1, <2>3, BookChanged DEF Sound
  <2> QED
    BY <2>2, <2>4, OpeningGone DEF About
<1> QED
  BY <1>2, <1>3

\* What a message at the head or the tail of the queue does to what is coming.
LEMMA AppendComing ==
    ASSUME inbox \in Seq(Message), NEW message \in Message, inbox' = Append(inbox, message),
           NEW symbol, NEW id
    PROVE  /\ About(message, symbol, id) /\ message.type = "CancelOrder"
                 => CancelComing(symbol, id)'
           /\ ~About(message, symbol, id) /\ CancelComing(symbol, id)
                 => CancelComing(symbol, id)'
           /\ ~About(message, symbol, id) /\ NothingComing(symbol, id)
                 => NothingComing(symbol, id)'
<1>1. /\ Len(inbox') = Len(inbox) + 1 /\ Len(inbox) \in Nat
      /\ inbox'[Len(inbox) + 1] = message
      /\ \A i \in 1 .. Len(inbox) : inbox'[i] = inbox[i]
  OBVIOUS
<1>2. ASSUME About(message, symbol, id), message.type = "CancelOrder"
      PROVE  CancelComing(symbol, id)'
  BY <1>1, <1>2 DEF CancelComing
<1>3. ASSUME ~About(message, symbol, id), CancelComing(symbol, id)
      PROVE  CancelComing(symbol, id)'
  BY <1>1, <1>3 DEF CancelComing
<1>4. ASSUME ~About(message, symbol, id), NothingComing(symbol, id)
      PROVE  NothingComing(symbol, id)'
  BY <1>1, <1>4 DEF NothingComing
<1> QED
  BY <1>2, <1>3, <1>4

LEMMA TailComing ==
    ASSUME inbox \in Seq(Message), inbox # <<>>, inbox' = Tail(inbox), NEW symbol, NEW id
    PROVE  /\ CancelComing(symbol, id) =>
                 \/ CancelComing(symbol, id)'
                 \/ /\ NothingComing(symbol, id)'
                    /\ About(Head(inbox), symbol, id) /\ Head(inbox).type = "CancelOrder"
           /\ NothingComing(symbol, id) =>
                 NothingComing(symbol, id)' /\ ~About(Head(inbox), symbol, id)
<1>1. /\ Len(inbox') = Len(inbox) - 1 /\ Len(inbox) \in Nat \ {0}
      /\ inbox[1] = Head(inbox)
      /\ \A i \in 1 .. Len(inbox') : inbox'[i] = inbox[i + 1]
  OBVIOUS
<1>2. ASSUME CancelComing(symbol, id)
      PROVE  \/ CancelComing(symbol, id)'
             \/ /\ NothingComing(symbol, id)'
                /\ About(Head(inbox), symbol, id) /\ Head(inbox).type = "CancelOrder"
  <2>1. PICK i \in 1 .. Len(inbox) :
           /\ About(inbox[i], symbol, id) /\ inbox[i].type = "CancelOrder"
           /\ \A j \in 1 .. Len(inbox) : j > i => ~About(inbox[j], symbol, id)
    BY <1>2 DEF CancelComing
  <2>2. \A j \in 1 .. Len(inbox') : j + 1 > i => ~About(inbox'[j], symbol, id)
    BY <1>1, <2>1
  <2>3. CASE i = 1
    BY <1>1, <2>1, <2>2, <2>3 DEF NothingComing
  <2>4. CASE i > 1
    <3>1. i - 1 \in 1 .. Len(inbox') /\ inbox'[i - 1] = inbox[i]
      BY <1>1, <2>1, <2>4
    <3>2. \A j \in 1 .. Len(inbox') : j > i - 1 => ~About(inbox'[j], symbol, id)
      BY <1>1, <2>1, <2>2
    <3> QED
      BY <2>1, <3>1, <3>2 DEF CancelComing
  <2> QED
    BY <2>3, <2>4
<1>3. ASSUME NothingComing(symbol, id)
      PROVE  NothingComing(symbol, id)' /\ ~About(Head(inbox), symbol, id)
  BY <1>1, <1>3 DEF NothingComing
<1> QED
  BY <1>2, <1>3

LEMMA TrackedNext == Sound /\ CancelTracked /\ [Next]_vars => CancelTracked'
<1> SUFFICES ASSUME Sound, CancelTracked, [Next]_vars,
                    NEW symbol \in Symbols, NEW id \in Ids, <<symbol, id>> \in withdrawn'
             PROVE  \/ CancelComing(symbol, id)'
                    \/ /\ NothingComing(symbol, id)'
                       /\ symbol \in DOMAIN books' => Gone(books'[symbol].book, id)
  BY DEF CancelTracked
<1> DEFINE Tracked ==
      \/ CancelComing(symbol, id)
      \/ /\ NothingComing(symbol, id)
         /\ symbol \in DOMAIN books => Gone(books[symbol].book, id)
<1>1. books \in [DOMAIN books -> Entry] /\ inbox \in Seq(Message)
  BY DEF Sound, TypeOK, Entry, Listening
<1>2. <<symbol, id>> \in withdrawn => Tracked
  BY DEF CancelTracked
\* A step that leaves the queue alone and no order gone that was not.
<1>3. ASSUME inbox' = inbox, <<symbol, id>> \in withdrawn,
             /\ symbol \in DOMAIN books'
             /\ symbol \in DOMAIN books => Gone(books[symbol].book, id)
             => Gone(books'[symbol].book, id)
      PROVE  Tracked'
  BY <1>2, <1>3 DEF CancelComing, NothingComing
<1>4. ASSUME NEW added \in Symbols, AddSymbol(added) PROVE Tracked'
  <2>1. inbox' = inbox /\ withdrawn' = withdrawn
    BY <1>4 DEF AddSymbol
  <2>2. Gone(Resting({}), id)
    BY DEF Gone, Resting
  <2>3. symbol \in DOMAIN books' =>
           books'[symbol].book = IF symbol = added THEN Resting({}) ELSE books[symbol].book
    BY <1>4 DEF AddSymbol, BooksWith
  <2>4. symbol \in DOMAIN books' /\ symbol # added => symbol \in DOMAIN books
    BY <1>4 DEF AddSymbol, BooksWith
  <2> QED
    BY <1>3, <2>1, <2>2, <2>3, <2>4
<1>5. ASSUME NEW kind \in Kinds, NEW listener \in Listeners \cup {Nobody},
             SetCallback(kind, listener)
      PROVE  Tracked'
  <2>1. inbox' = inbox /\ withdrawn' = withdrawn /\ DOMAIN books' = DOMAIN books
    BY <1>5 DEF SetCallback
  <2>2. \A s \in DOMAIN books : [books[s] EXCEPT !.tells[kind] = listener].book = books[s].book
    BY <1>1 DEF Entry
  <2>3. symbol \in DOMAIN books => books'[symbol].book = books[symbol].book
    BY <1>5, <2>2 DEF SetCallback
  <2> QED
    BY <1>3, <2>1, <2>3
<1>6. ASSUME NEW message \in Message, Enqueue(message) PROVE Tracked'
  <2>1. inbox' = Append(inbox, message) /\ books' = books
    BY <1>6 DEF Enqueue, served
  <2>2. CASE About(message, symbol, id)
    <3>1. message.type = "CancelOrder"
      BY <1>6, <2>2 DEF Enqueue, About
    <3> QED
      BY <1>1, <2>1, <2>2, <3>1, AppendComing
  <2>3. CASE ~About(message, symbol, id)
    <3>1. <<symbol, id>> \in withdrawn
      BY <1>6, <2>3 DEF Enqueue, About
    <3> QED
      BY <1>1, <1>2, <2>1, <2>3, <3>1, AppendComing
  <2> QED
    BY <2>2, <2>3
<1>7. ASSUME NEW message \in Message, SubmitDirectly(message) PROVE Tracked'
  <2>1. /\ inbox' = inbox /\ Submit(message, stats)
        /\ stats \in [DOMAIN EmptyStats -> Nat]
    BY <1>7 DEF SubmitDirectly, Sound, TypeOK
  <2>2. /\ <<symbol, id>> \in withdrawn
        /\ ~(message.type = "NewOrder" /\ About(message, symbol, id))
    BY <1>7 DEF SubmitDirectly, About
  <2>3. DOMAIN books' = DOMAIN books
    BY <2>1, SubmitSound
  <2> QED
    BY <1>3, <2>1, <2>2, <2>3, SubmitGone
<1>8. CASE Pop
  <2>1. /\ inbox # <<>> /\ inbox' = Tail(inbox) /\ withdrawn' = withdrawn
        /\ Submit(Head(inbox), Count(stats, {"processed"}))
    BY <1>8 DEF Pop
  <2>2. Head(inbox) \in Message /\ Count(stats, {"processed"}) \in [DOMAIN EmptyStats -> Nat]
    BY <1>1, <2>1, CountTyped DEF Sound, TypeOK
  <2>3. DOMAIN books' = DOMAIN books
    BY <2>1, <2>2, SubmitSound
  <2> QED
    BY <1>1, <1>2, <2>1, <2>2, <2>3, TailComing, SubmitGone
<1>9. CASE BookStep
  <2>1. /\ current.symbol \in DOMAIN books
        /\ inbox' = inbox /\ withdrawn' = withdrawn
    BY <1>9 DEF BookStep, Sound, CallsSound
  <2>2. PICK new \in Continuations(Called) :
           books' = [books EXCEPT ![current.symbol].book = new]
    BY <1>9 DEF BookStep
  <2>3. Called \in Book /\ Working(Called)
    BY <1>1, <2>1 DEF Called, Sound, CallsSound, Entry
  <2>4. new \in Book /\ Working(new)
    BY <2>3, ContinuationsTyped
  <2>5. /\ DOMAIN books' = DOMAIN books
        /\ symbol \in DOMAIN books =>
             books'[symbol].book = IF symbol = current.symbol THEN new ELSE books[symbol].book
    BY <2>1, <2>2, <2>4, BookChanged DEF Sound
  <2>6. Gone(Called, id) => Gone(new, id)
    BY <2>3, ContinuationsGone
  <2> QED
    BY <1>3, <2>1, <2>5, <2>6 DEF Called
<1>10. CASE BookReturns
  <2>1. /\ current.symbol \in DOMAIN books
        /\ inbox' = inbox /\ withdrawn' = withdrawn
    BY <1>10 DEF BookReturns, Sound, CallsSound
  <2>2. Resting(Called.live) \in Book /\ Working(Resting(Called.live))
    BY <1>1, <2>1, RestingTyped DEF Called, Entry, Book
  <2>3. books' = [books EXCEPT ![current.symbol].book = Resting(Called.live)]
    BY <1>10 DEF BookReturns, Called
  <2>4. /\ DOMAIN books' = DOMAIN books
        /\ symbol \in DOMAIN books =>
             books'[symbol].book = IF symbol = current.symbol THEN Resting(Called.live)
                                                              ELSE books[symbol].book
    BY <2>1, <2>2, <2>3, BookChanged DEF Sound
  <2>5. Gone(Called, id) => Gone(Resting(Called.live), id)
    BY DEF Gone, Resting
  <2> QED
    BY <1>3, <2>1, <2>4, <2>5 DEF Called
<1>11. CASE UNCHANGED <<books, inbox, withdrawn>>
  BY <1>3, <1>11
<1> QED
  BY <1>4, <1>5, <1>6, <1>7, <1>8, <1>9, <1>10, <1>11
     DEF Next, Gateway, Engine, Control, vars, served, ResetStats, Stop, Run,
         TestRunning, ProcessQueue, ProcessOne, PopNothing

\* A cancellation that is the last message queued for an order prevails.
THEOREM CancelPrevailsAlways == Spec => []CancelPrevails
<1>1. Init => CancelTracked
  BY DEF Init, CancelTracked
<1> QED
  BY <1>1, SoundInit, SoundNext, TrackedNext, TrackedSuffices, PTL DEF Spec
=============================================================================
