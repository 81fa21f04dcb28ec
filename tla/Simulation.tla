----------------------------- MODULE Simulation -----------------------------
(***************************************************************************)
(* The simulation of main.cpp: in every tick each agent of a symbol has a  *)
(* turn, in which it cancels and submits orders by calling the engine.     *)
(*                                                                         *)
(* The book of the symbol is an IdealBook, which OrderBook implements.     *)
(* Agents do not share memory, but they share the identifiers of the book: *)
(* each of them numbers its orders from 1.  main.cpp tells no agent about  *)
(* fills and prices; drivers that do, by passing what the callbacks of the  *)
(* engine hear to the handlers of the agents, are modelled beside it.      *)
(***************************************************************************)
EXTENDS LevelQueue, FiniteSetsExt

CONSTANTS
    Rosters,        \* the kinds of the agents, in the order of their turns
    Drivers,        \* what drivers forward to agents: nothing in main.cpp
    Ticks,          \* config.num_ticks
    DefaultPrice,   \* 100 * PRICE_SCALE
    HalfSpread, SkewPerUnit, BaseSize, MaxPosition,     \* MarketMakerConfig
    Lookback, OrderSize,                                \* MomentumConfig
    NoiseSizes, MaxDeviation,                           \* NoiseTraderConfig
    Deviations,     \* those of -max_deviation .. max_deviation that are drawn
    TopPrice,       \* bound of the model: no agent asks for a higher price
    Wrapped         \* what the sum of a price and INVALID_PRICE, halved, comes to

Kinds  == {"maker", "momentum", "noise"}
Sides  == {"Buy", "Sell"}
Prices == 1 .. TopPrice
InvalidPrice == TopPrice + 1

\* A maker takes two identifiers per tick, the others one.
OrderIds == 1 .. 2 * Ticks

ASSUME SimulationConstants ==
    /\ \A agentKinds \in Rosters : agentKinds \in Seq(Kinds) \ {<<>>}
    /\ Drivers \subseteq SUBSET {"fills", "bbo"}
    /\ Deviations \subseteq -MaxDeviation .. MaxDeviation
    /\ {Ticks, MaxPosition, MaxDeviation, SkewPerUnit} \subseteq Nat
    /\ {HalfSpread, BaseSize, Lookback, OrderSize} \subseteq Nat \ {0}
    /\ TopPrice \in Nat /\ DefaultPrice \in Prices /\ NoiseSizes \subseteq Nat \ {0}
    /\ Wrapped \in Int /\ Wrapped < -1

VARIABLES
    queues, incoming,   \* the order book
    lastBbo,            \* last_bbo_bid_, last_bbo_ask_ of the book
    filled,             \* filled_qty of the order being added
    agents,             \* the members of every agent
    roster,             \* the agents main() created
    informed,           \* what the driver forwards to the agents
    tick, turn,         \* the loops of main()
    stage,              \* how far the agent is with its turn
    quote,              \* the prices update_quotes works with
    stats,              \* the engine's statistics
    heard,              \* trade_count and total_volume of main()
    owner,              \* history: who submitted the order of an identifier
    inventory           \* history: what each agent really bought less sold

bookVars == <<queues, incoming, lastBbo, filled, owner>>
setup == <<roster, informed>>
vars == <<queues, incoming, lastBbo, filled, agents, setup, tick, turn, stage,
          quote, stats, heard, owner, inventory>>

Agents == DOMAIN roster
Makers == {a \in Agents : roster[a] = "maker"}

Book == INSTANCE IdealBook WITH Unbounded <- InvalidPrice, Barred <- {}

Idle == incoming = Book!Nobody

Me == agents[turn]

NoQuote == [side \in Sides |-> 0]

-----------------------------------------------------------------------------
(* What the book tells: on_bbo, and on_fill with the report add_order sends
   about the order it was called with.  Resting orders get no report. *)

BestOf(side) ==
    IF Book!Quoted(side) = {} THEN InvalidPrice
    ELSE IF side = "Buy" THEN Max(Book!Quoted(side)) ELSE Min(Book!Quoted(side))

\* INVALID_PRICE is the largest price: adding anything to it overflows.
MidOf(bbo) ==
    LET missing == {side \in Sides : bbo[side] = InvalidPrice}
    IN  CASE missing = {}    -> (bbo["Buy"] + bbo["Sell"]) \div 2
          [] missing = Sides -> -1
          [] OTHER           -> Wrapped

\* A noise trader looks out for a missing side, but a missing bid is not 0.
NoiseMid(mid, bbo) == IF bbo["Sell"] < InvalidPrice THEN MidOf(bbo) ELSE mid

AfterBbo(agent, kind, bbo) ==
    CASE kind = "maker" -> [agent EXCEPT !.mid = MidOf(bbo)]
      [] kind = "noise" -> [agent EXCEPT !.mid = NoiseMid(@, bbo)]
      [] kind = "momentum" ->
            LET longer == Append(agent.history, MidOf(bbo))
            IN  [agent EXCEPT !.history =
                    IF Len(longer) > Lookback THEN Tail(longer) ELSE longer]

Bbo == [side \in Sides |-> BestOf(side)]

\* maybe_emit_bbo, after a cancellation or when an order comes to rest.
Announced(members) ==
    IF "bbo" \in informed /\ Bbo' # lastBbo
    THEN [a \in Agents |-> AfterBbo(members[a], roster[a], Bbo')]
    ELSE members

Announce == lastBbo' = IF "bbo" \in informed THEN Bbo' ELSE lastBbo

Signed(side, quantity) == IF side = "Buy" THEN quantity ELSE -quantity

\* Only makers and momentum agents keep a position.
Reported(members) ==
    IF "fills" \in informed /\ filled > 0 /\ roster[turn] # "noise"
    THEN [members EXCEPT ![turn].position = @ + Signed(incoming.side, filled)]
    ELSE members

-----------------------------------------------------------------------------
\* The constructors.  The identifiers of a maker's quotes are 0 until it quotes.
NewAgent(kind) ==
    [next |-> 1, position |-> 0, bid |-> 0, ask |-> 0, history |-> <<>>,
     mid |-> IF kind = "noise" THEN DefaultPrice ELSE 0]

Init ==
    /\ Book!Init
    /\ lastBbo = [side \in Sides |-> InvalidPrice]
    /\ filled = 0
    /\ roster \in Rosters /\ informed \in Drivers
    /\ agents = [a \in Agents |-> NewAgent(roster[a])]
    /\ tick = 0 /\ turn = 1
    /\ stage = "turn"
    /\ quote = NoQuote
    /\ stats = [received |-> 0, matched |-> 0, cancelled |-> 0, volume |-> 0]
    /\ heard = [trades |-> 0, volume |-> 0]
    /\ owner = [id \in OrderIds |-> 0]
    /\ inventory = [a \in Agents |-> 0]

\* An agent runs: its turn has come and the engine has returned from every call.
Runs(kind, at) ==
    /\ tick < Ticks
    /\ roster[turn] = kind /\ stage = at
    /\ Idle

\* The next agent's turn, or the next tick; an agent may also leave its turn
\* out, as its random number generator has it.  process_queue finds nothing.
NextTurn ==
    /\ tick < Ticks
    /\ stage \in {"turn", "done"}
    /\ Idle
    /\ stage' = "turn" /\ quote' = NoQuote
    /\ IF turn < Len(roster) THEN turn' = turn + 1 /\ UNCHANGED tick
                             ELSE turn' = 1 /\ tick' = tick + 1
    /\ UNCHANGED <<bookVars, agents, setup, stats, heard, inventory>>

-----------------------------------------------------------------------------
(* Calls of the engine *)

LimitOrder(id, side, price, quantity) ==
    [id |-> id, side |-> side, limit |-> price, quantity |-> quantity,
     patience |-> "rests", maker |-> FALSE]

MarketOrder(id, side, quantity) ==
    [LimitOrder(id, side, InvalidPrice, quantity) EXCEPT !.patience = "drops"]

\* InvalidPrice, DuplicateOrderId.
Refused(order) ==
    \/ order.patience = "rests" /\ order.limit <= 0
    \/ order.id \in Book!RestingIds

\* submit_order, up to the matching.
Submit(order) ==
    /\ stats' = [stats EXCEPT !.received = @ + 1]
    /\ \/ Refused(order) /\ UNCHANGED bookVars
       \/ /\ ~Refused(order)
          /\ order.patience = "rests" => order.limit \in Prices   \* TopPrice
          /\ incoming' = order
          /\ Book!Arrive
          /\ filled' = 0
          /\ owner' = [owner EXCEPT ![order.id] = turn]
          /\ UNCHANGED lastBbo

\* One step of the matching.  The callback of main() hears of it before the call
\* returns at the latest.
Trade ==
    /\ Book!Trade
    /\ LET maker == Book!Other(incoming.side)
           top == CHOOSE price \in Prices : Book!IsBest(incoming, price)
           other == owner[Head(queues[maker][top]).id]
           traded == incoming.quantity - incoming'.quantity
           Change(a) == (IF a = owner[incoming.id] THEN Signed(incoming.side, traded) ELSE 0)
                        + (IF a = other THEN Signed(maker, traded) ELSE 0)
       IN  /\ inventory' = [a \in Agents |-> inventory[a] + Change(a)]
           /\ filled' = filled + traded
           /\ heard' = [trades |-> heard.trades + 1, volume |-> heard.volume + traded]
    /\ UNCHANGED <<lastBbo, agents, setup, tick, turn, stage, quote, stats, owner>>

\* Faulty: an order counts when it is filled to the end.
ReturnFilledOnly ==
    /\ Book!Leave
    /\ agents' = Reported(IF queues' # queues THEN Announced(agents) ELSE agents)
    /\ IF queues' # queues THEN Announce ELSE UNCHANGED lastBbo
    /\ stats' = IF filled > 0 /\ incoming.quantity = 0
                THEN [stats EXCEPT !.matched = @ + 1, !.volume = @ + filled] ELSE stats
    /\ filled' = 0
    /\ UNCHANGED <<setup, tick, turn, stage, quote, heard, owner, inventory>>

\* What the call of submit_order does after the matching: the rest of a limit
\* order comes to rest, the engine counts, the agent hears of its order.
Return ==
    /\ Book!Leave
    /\ agents' = Reported(IF queues' # queues THEN Announced(agents) ELSE agents)
    /\ IF queues' # queues THEN Announce ELSE UNCHANGED lastBbo
    /\ stats' = IF filled > 0
                THEN [stats EXCEPT !.matched = @ + 1, !.volume = @ + filled] ELSE stats
    /\ filled' = 0
    /\ UNCHANGED <<setup, tick, turn, stage, quote, heard, owner, inventory>>

CancelLive(id) ==
    /\ \E side \in Sides, price \in Prices : \E i \in DOMAIN queues[side][price] :
          queues[side][price][i].id = id /\ Book!Withdraw(side, price, i)
    /\ agents' = Announced(agents)
    /\ Announce
    /\ stats' = [stats EXCEPT !.cancelled = @ + 1]

CancelOrder(id) ==
    IF id \in Book!RestingIds THEN CancelLive(id)
    ELSE UNCHANGED <<queues, incoming, lastBbo, agents, stats>>

-----------------------------------------------------------------------------
(* MarketMaker::update_quotes *)

\* Faulty: what is half the spread already is halved again.
StartQuotingHalved ==
    /\ Runs("maker", "turn")
    /\ LET fair == IF Me.mid = 0 THEN DefaultPrice ELSE Me.mid
           skew == Me.position * SkewPerUnit
           half == HalfSpread \div 2
       IN  quote' = [Buy |-> fair - half - skew, Sell |-> fair + half - skew]
    /\ stage' = "cancel bid"
    /\ UNCHANGED <<bookVars, agents, setup, tick, turn, stats, heard, inventory>>

StartQuoting ==
    /\ Runs("maker", "turn")
    /\ LET fair == IF Me.mid = 0 THEN DefaultPrice ELSE Me.mid
           skew == Me.position * SkewPerUnit
       IN  quote' = [Buy |-> fair - HalfSpread - skew, Sell |-> fair + HalfSpread - skew]
    /\ stage' = "cancel bid"
    /\ UNCHANGED <<bookVars, agents, setup, tick, turn, stats, heard, inventory>>

CancelQuote(at, id, next) ==
    /\ Runs("maker", at)
    /\ CancelOrder(id)
    /\ stage' = next
    /\ UNCHANGED <<filled, owner, setup, tick, turn, quote, heard, inventory>>

CancelBid == CancelQuote("cancel bid", Me.bid, "cancel ask")

\* Faulty: the bid is cancelled twice.
CancelBidAgain == CancelQuote("cancel ask", Me.bid, "bid")

CancelAsk == CancelQuote("cancel ask", Me.ask, "bid")

\* Faulty: one quote more.
UpToLimit(side) == Signed(side, Me.position) <= MaxPosition

WithinLimit(side) == Signed(side, Me.position) < MaxPosition

\* Faulty: the maker waits until its position allows the quote.
QuoteSideWaiting(side, at, next) ==
    /\ Runs("maker", at)
    /\ WithinLimit(side)
    /\ stage' = next
    /\ agents' = [agents EXCEPT ![turn] =
          IF side = "Buy" THEN [Me EXCEPT !.bid = Me.next, !.next = @ + 1]
                          ELSE [Me EXCEPT !.ask = Me.next, !.next = @ + 1]]
    /\ Submit(LimitOrder(Me.next, side, quote[side], BaseSize))
    /\ UNCHANGED <<setup, tick, turn, quote, heard, inventory>>

QuoteSide(side, at, next) ==
    /\ Runs("maker", at)
    /\ stage' = next
    /\ IF WithinLimit(side)
       THEN /\ agents' = [agents EXCEPT ![turn] =
                  IF side = "Buy" THEN [Me EXCEPT !.bid = Me.next, !.next = @ + 1]
                                  ELSE [Me EXCEPT !.ask = Me.next, !.next = @ + 1]]
            /\ Submit(LimitOrder(Me.next, side, quote[side], BaseSize))
       ELSE UNCHANGED <<bookVars, agents, stats>>
    /\ UNCHANGED <<setup, tick, turn, quote, heard, inventory>>

QuoteBid == QuoteSide("Buy", "bid", "ask")
QuoteAsk == QuoteSide("Sell", "ask", "done")

-----------------------------------------------------------------------------
(* MomentumAgent::on_tick, NoiseTrader::on_tick *)

\* Takes the next identifier and submits an order under it; the turn is over.
SubmitNext(order) ==
    /\ agents' = [agents EXCEPT ![turn].next = @ + 1]
    /\ Submit(order)
    /\ stage' = "done"
    /\ UNCHANGED <<setup, tick, turn, quote, heard, inventory>>

\* The return over the window, which exceeds the threshold either way unless it
\* is 0; so small a return is not modelled.
Trend ==
    LET first == Head(Me.history)
    IN  IF Len(Me.history) < 2 THEN 0 ELSE (Last(Me.history) - first) * first

FollowTrend ==
    /\ Runs("momentum", "turn")
    /\ Len(Me.history) >= Lookback
    /\ Trend # 0
    /\ SubmitNext(MarketOrder(Me.next, IF Trend > 0 THEN "Buy" ELSE "Sell", OrderSize))

NoisePrice(side, deviation) ==
    LET price == Me.mid + deviation - Signed(side, MaxDeviation \div 2)
    IN  IF price <= 0 THEN 1 ELSE price

MakeNoise(side, size) ==
    /\ Runs("noise", "turn")
    /\ \/ SubmitNext(MarketOrder(Me.next, side, size))
       \/ \E deviation \in Deviations :
             SubmitNext(LimitOrder(Me.next, side, NoisePrice(side, deviation), size))

-----------------------------------------------------------------------------
Next ==
    \/ NextTurn
    \/ Trade \/ Return
    \/ StartQuoting \/ CancelBid \/ CancelAsk \/ QuoteBid \/ QuoteAsk
    \/ FollowTrend
    \/ \E side \in Sides, size \in NoiseSizes : MakeNoise(side, size)

\* One thread runs main() and everything it calls.
Spec == Init /\ [][Next]_vars /\ WF_vars(Next)

-----------------------------------------------------------------------------
(***************************************************************************)
(* Properties                                                              *)
(***************************************************************************)

\* A maker has at most one order on each side of the book, the one it remembers
\* and will cancel first at its next quote: however often its orders are refused
\* because another agent uses the identifier, or its cancellations hit orders of
\* others, none of its own is ever left behind.
QuotesRemembered ==
    \A side \in Sides, price \in Prices : \A i \in DOMAIN queues[side][price] :
        LET id == queues[side][price][i].id
            maker == owner[id]
        IN  maker \in Makers =>
                id = (IF side = "Buy" THEN agents[maker].bid ELSE agents[maker].ask)

\* The resting order an incoming order trades with next.
Counterparty ==
    owner[Head(queues[Book!Other(incoming.side)]
                     [CHOOSE price \in Prices : Book!IsBest(incoming, price)]).id]

\* A maker never trades with itself, although the engine would let it: its old
\* quotes are gone before it sends new ones, and the new ones do not meet even
\* if the first is filled, and the position changes, before the second is sent.
NoWashTrades ==
    [][heard' # heard /\ owner[incoming.id] \in Makers
          => Counterparty # owner[incoming.id]]_vars

\* What a maker knows of its position stays within the limit, but for the last
\* quote sent before the limit was reached.
PositionLimited ==
    \A maker \in Makers :
        LET position == agents[maker].position
        IN  -(MaxPosition + BaseSize) < position /\ position < MaxPosition + BaseSize

\* The limit bounds what a maker really holds ("Max absolute position",
\* include/agents/agents.hpp:52).  main() tells no maker of its fills.
InventoryLimited ==
    \A maker \in Makers :
        -(MaxPosition + BaseSize) < inventory[maker]
        /\ inventory[maker] < MaxPosition + BaseSize

\* Between calls the engine and main() have counted the same volume, though one
\* adds up results and the other trades, and the engine has counted every
\* identifier an agent used, refused or not.
TalliesAgree ==
    Idle =>
        /\ stats.volume = heard.volume
        /\ stats.matched <= heard.trades
        /\ stats.received = MapThenSumSet(LAMBDA a : agents[a].next - 1, Agents)

\* Every on_tick returns, and so does main().
SimulationEnds == <>(tick = Ticks)
=============================================================================
