-------------------------- MODULE SimulationProofs --------------------------
(***************************************************************************)
(* Theorems about the agents and the loops of main(), for any rosters of   *)
(* agents, prices, quantities, identifiers and lengths of the simulation,  *)
(* and whatever drivers forward: which orders makers own, whom they trade  *)
(* with, how far their positions go, and what is counted.                  *)
(***************************************************************************)
EXTENDS Simulation, LevelQueueProofs

-----------------------------------------------------------------------------
(* The invariants *)

Stages == {"turn", "cancel bid", "cancel ask", "bid", "ask", "done"}

Agent == [next : Nat \ {0}, position : Int, bid : Nat, ask : Nat,
          history : Seq(Int), mid : Int]

Queues == [Sides -> [Prices -> Seq(Book!Entry)]]

\* An order that may come to rest has a price.
Restable(order) == order.patience = "rests" => order.limit \in Prices

TypeOK ==
    /\ roster \in Rosters /\ informed \in Drivers
    /\ agents \in [Agents -> Agent]
    /\ queues \in Queues
    /\ incoming \in Book!Arrival \cup {Book!Nobody}
    /\ incoming # Book!Nobody => Restable(incoming)
    /\ lastBbo \in [Sides -> 1 .. InvalidPrice]
    /\ filled \in Nat /\ tick \in Nat /\ turn \in Agents /\ stage \in Stages
    /\ quote \in [Sides -> Int]
    /\ stats \in [received : Nat, matched : Nat, cancelled : Nat, volume : Nat]
    /\ heard \in [trades : Nat, volume : Nat]
    /\ owner \in [OrderIds -> Agents \cup {0}]
    /\ inventory \in [Agents -> Int]

\* An order of that identifier is in the queue.
Holds(queue, id) == \E i \in DOMAIN queue : queue[i].id = id

\* No two orders of a queue, or of two queues, have one identifier.
DistinctIds(queue) ==
    \A i, j \in DOMAIN queue : queue[i].id = queue[j].id => i = j

Placed ==
    /\ \A side \in Sides, price \in Prices : DistinctIds(queues[side][price])
    /\ \A id \in OrderIds, side, other \in Sides, price, level \in Prices :
          Holds(queues[side][price], id) /\ Holds(queues[other][level], id)
             => side = other /\ price = level
    /\ incoming # Book!Nobody => incoming.id \notin Book!RestingIds

\* The order a maker remembers for a side.
QuoteId(maker, side) == IF side = "Buy" THEN agents[maker].bid ELSE agents[maker].ask

Remembered ==
    \A id \in OrderIds, side \in Sides, price \in Prices :
        Holds(queues[side][price], id) /\ owner[id] \in Makers
           => id = QuoteId(owner[id], side)

\* The agent whose turn it is has nothing on a side but at one price.
OwnsOnlyAt(side, levels) ==
    \A id \in OrderIds, price \in Prices :
        Holds(queues[side][price], id) /\ owner[id] = turn => price \in levels

\* How far a maker is with its quotes.
Quoting ==
    turn \in Makers =>
        /\ stage \in {"cancel ask", "bid"} => OwnsOnlyAt("Buy", {})
        /\ stage \in {"bid", "ask"} => OwnsOnlyAt("Sell", {})
        /\ stage \in {"ask", "done"} => OwnsOnlyAt("Buy", {quote["Buy"]})
        /\ stage # "turn" => quote["Buy"] < quote["Sell"]
        /\ incoming # Book!Nobody =>
              /\ incoming.id = QuoteId(turn, incoming.side)
              /\ incoming.limit = quote[incoming.side] /\ incoming.limit \in Prices
              /\ stage = IF incoming.side = "Buy" THEN "ask" ELSE "done"

Owned == incoming # Book!Nobody => owner[incoming.id] = turn

\* What an order that is being added may still move the maker's position by.
Exposed ==
    incoming # Book!Nobody /\ turn \in Makers =>
        /\ Signed(incoming.side, agents[turn].position) < MaxPosition
        /\ filled + incoming.quantity <= BaseSize

\* How many identifiers the agents have used.
Used == MapThenSumSet(LAMBDA a : agents[a].next - 1, Agents)

\* What has been filled of an order that is being added is not counted yet.
Counted ==
    /\ stats.volume + filled = heard.volume
    /\ stats.matched + (IF filled > 0 THEN 1 ELSE 0) <= heard.trades
    /\ Idle => filled = 0
    /\ stats.received = Used

-----------------------------------------------------------------------------
(* Queues of orders *)

\* Entries are records of two fields.
LEMMA EntryIs ==
    ASSUME NEW e \in Book!Entry
    PROVE  e.id \in OrderIds /\ e.quantity \in Nat \ {0} /\ e.quantity \in Book!Quantity \ {0}
BY QModAssumption DEF Book!Entry, Book!Quantity

\* The entries of a queue.
LEMMA QueueIs ==
    ASSUME NEW queue \in Seq(Book!Entry)
    PROVE  /\ Len(queue) \in Nat /\ DOMAIN queue = 1 .. Len(queue)
           /\ \A i \in 1 .. Len(queue) : queue[i] \in Book!Entry
BY LenProperties, ElementOfSeq

\* Taking the first order away.
LEMMA TailKeeps ==
    ASSUME NEW queue \in Seq(Book!Entry), queue # <<>>, DistinctIds(queue)
    PROVE  /\ Tail(queue) \in Seq(Book!Entry) /\ DistinctIds(Tail(queue))
           /\ \A id : Holds(Tail(queue), id) => Holds(queue, id)
<1>1. /\ Tail(queue) \in Seq(Book!Entry) /\ Len(Tail(queue)) = Len(queue) - 1
      /\ \A i \in 1 .. Len(Tail(queue)) : Tail(queue)[i] = queue[i + 1]
  BY HeadTailProperties
<1>2. /\ Len(queue) \in Nat /\ DOMAIN queue = 1 .. Len(queue)
      /\ DOMAIN Tail(queue) = 1 .. Len(Tail(queue))
  BY <1>1, QueueIs
<1>3. ASSUME NEW i \in DOMAIN Tail(queue)
      PROVE  i + 1 \in DOMAIN queue /\ Tail(queue)[i] = queue[i + 1] /\ i \in Nat
  BY <1>1, <1>2
<1>4. DistinctIds(Tail(queue))
  <2> SUFFICES ASSUME NEW i \in DOMAIN Tail(queue), NEW j \in DOMAIN Tail(queue),
                      Tail(queue)[i].id = Tail(queue)[j].id
               PROVE  i = j
    BY DEF DistinctIds
  <2>1. i + 1 = j + 1
    BY <1>3 DEF DistinctIds
  <2> QED
    BY <1>3, <2>1
<1>5. ASSUME NEW id, Holds(Tail(queue), id) PROVE Holds(queue, id)
  BY <1>3, <1>5 DEF Holds
<1> QED
  BY <1>1, <1>4, <1>5

\* Filling part of the first order.
LEMMA HeadKeeps ==
    ASSUME NEW queue \in Seq(Book!Entry), queue # <<>>, DistinctIds(queue),
           NEW quantity \in Book!Quantity \ {0}, NEW new,
           new = [queue EXCEPT ![1].quantity = quantity]
    PROVE  /\ new \in Seq(Book!Entry) /\ DistinctIds(new)
           /\ \A id : Holds(new, id) => Holds(queue, id)
<1> DEFINE e == [queue[1] EXCEPT !.quantity = quantity]
<1>1. Len(queue) \in Nat /\ DOMAIN queue = 1 .. Len(queue) /\ 1 \in 1 .. Len(queue)
  BY QueueIs, EmptySeq
<1>2. e \in Book!Entry /\ e.id = queue[1].id
  <2>1. queue[1] \in Book!Entry
    BY <1>1, ElementOfSeq
  <2> QED
    BY <2>1 DEF Book!Entry
<1>3. new = [queue EXCEPT ![1] = e]
  OBVIOUS
<1> HIDE DEF e
<1>4. /\ new \in Seq(Book!Entry) /\ Len(new) = Len(queue)
      /\ \A i \in 1 .. Len(queue) : new[i] = IF i = 1 THEN e ELSE queue[i]
  BY <1>1, <1>2, <1>3, ExceptSeq
<1>5. DOMAIN new = DOMAIN queue /\ \A i \in DOMAIN queue : new[i].id = queue[i].id
  BY <1>1, <1>2, <1>4, QueueIs
<1> QED
  BY <1>4, <1>5 DEF DistinctIds, Holds

\* Taking one order out.
LEMMA RemoveKeeps ==
    ASSUME NEW queue \in Seq(Book!Entry), DistinctIds(queue), NEW i \in DOMAIN queue
    PROVE  /\ RemoveAt(queue, i) \in Seq(Book!Entry) /\ DistinctIds(RemoveAt(queue, i))
           /\ ~Holds(RemoveAt(queue, i), queue[i].id)
           /\ \A id : Holds(RemoveAt(queue, i), id) => Holds(queue, id)
<1> DEFINE new == RemoveAt(queue, i)
<1>1. Len(queue) \in Nat /\ DOMAIN queue = 1 .. Len(queue)
  BY QueueIs
<1>2. new \in Seq(Book!Entry) /\ LacksElement(new, queue, i)
  BY <1>1, RemoveAtLeaves
<1> HIDE DEF new
<1>3. DOMAIN new = 1 .. Len(new)
  BY <1>2, QueueIs
<1>4. ASSUME NEW j \in DOMAIN new
      PROVE  \E k \in DOMAIN queue : k # i /\ new[j] = queue[k]
                                    /\ k = IF j < i THEN j ELSE j + 1
  BY <1>1, <1>2, <1>3 DEF LacksElement
<1>5. DistinctIds(new)
  <2> SUFFICES ASSUME NEW j \in DOMAIN new, NEW k \in DOMAIN new, new[j].id = new[k].id
               PROVE  j = k
    BY DEF DistinctIds
  <2>1. PICK l \in DOMAIN queue : new[j] = queue[l] /\ l = IF j < i THEN j ELSE j + 1
    BY <1>4
  <2>2. PICK m \in DOMAIN queue : new[k] = queue[m] /\ m = IF k < i THEN k ELSE k + 1
    BY <1>4
  <2>3. l = m
    BY <2>1, <2>2 DEF DistinctIds
  <2>4. j \in Int /\ k \in Int /\ i \in Int
    BY <1>1, <1>3
  <2> QED
    BY <2>1, <2>2, <2>3, <2>4
<1>6. ASSUME Holds(new, queue[i].id) PROVE FALSE
  BY <1>4, <1>6 DEF Holds, DistinctIds
<1>7. ASSUME NEW id, Holds(new, id) PROVE Holds(queue, id)
  BY <1>4, <1>7 DEF Holds
<1> QED
  BY <1>2, <1>5, <1>6, <1>7 DEF new

\* One order more.
LEMMA AppendKeeps ==
    ASSUME NEW queue \in Seq(Book!Entry), DistinctIds(queue), NEW e \in Book!Entry,
           ~Holds(queue, e.id)
    PROVE  /\ Append(queue, e) \in Seq(Book!Entry) /\ DistinctIds(Append(queue, e))
           /\ \A id : Holds(Append(queue, e), id) => Holds(queue, id) \/ id = e.id
<1> DEFINE new == Append(queue, e)
<1>1. Len(queue) \in Nat /\ DOMAIN queue = 1 .. Len(queue)
  BY QueueIs
<1>2. /\ new \in Seq(Book!Entry) /\ Len(new) = Len(queue) + 1
      /\ \A i \in 1 .. Len(queue) : new[i] = queue[i]
      /\ new[Len(queue) + 1] = e
  BY AppendProperties
<1> HIDE DEF new
<1>3. DOMAIN new = 1 .. Len(new)
  BY <1>2, QueueIs
<1>4. ASSUME NEW i \in DOMAIN new
      PROVE  \/ i \in DOMAIN queue /\ new[i] = queue[i]
             \/ i = Len(queue) + 1 /\ new[i] = e
  BY <1>1, <1>2, <1>3
<1>5. DistinctIds(new)
  BY <1>4 DEF DistinctIds, Holds
<1>6. ASSUME NEW id, Holds(new, id) PROVE Holds(queue, id) \/ id = e.id
  BY <1>4, <1>6 DEF Holds
<1> QED
  BY <1>2, <1>5, <1>6 DEF new

-----------------------------------------------------------------------------
(* What a step does to the orders at rest *)

\* The identifiers the book has in use are those in the queues.
LEMMA RestingIs ==
    ASSUME NEW id
    PROVE  id \in Book!RestingIds <=>
              id \in OrderIds /\ \E side \in Sides, price \in Prices :
                                    Holds(queues[side][price], id)
BY DEF Book!RestingIds, Holds

\* One queue changes.
Put(qs, side, price, queue) == [qs EXCEPT ![side][price] = queue]

LEMMA QueueChange ==
    ASSUME queues \in Queues, NEW side \in Sides, NEW price \in Prices,
           NEW queue \in Seq(Book!Entry),
           queues' = Put(queues, side, price, queue)
    PROVE  /\ queues' \in Queues /\ queues'[side][price] = queue
           /\ \A s \in Sides, p \in Prices :
                 s # side \/ p # price => queues'[s][p] = queues[s][p]
BY DEF Queues, Put

\* No queue has an order in the second state it has not in the first.
Fewer(old, new) ==
    \A side \in Sides, price \in Prices, id \in OrderIds :
        Holds(new[side][price], id) => Holds(old[side][price], id)

\* One queue loses orders.
LEMMA QueueShrinks ==
    ASSUME \A s \in Sides, p \in Prices : DistinctIds(queues[s][p]),
           NEW side \in Sides, NEW price \in Prices, NEW queue, DistinctIds(queue),
           \A id : Holds(queue, id) => Holds(queues[side][price], id),
           queues'[side][price] = queue,
           \A s \in Sides, p \in Prices :
                 s # side \/ p # price => queues'[s][p] = queues[s][p]
    PROVE  /\ Fewer(queues, queues')
           /\ \A s \in Sides, p \in Prices : DistinctIds(queues'[s][p])
<1>2. ASSUME NEW s \in Sides, NEW p \in Prices PROVE DistinctIds(queues'[s][p])
  OBVIOUS
<1>3. ASSUME NEW s \in Sides, NEW p \in Prices, NEW id \in OrderIds,
             Holds(queues'[s][p], id)
      PROVE  Holds(queues[s][p], id)
  <2>1. CASE s = side /\ p = price
    BY <1>3, <2>1
  <2>2. CASE s # side \/ p # price
    BY <1>3, <2>2
  <2> QED
    BY <2>1, <2>2
<1> QED
  BY <1>2, <1>3 DEF Fewer

\* What becomes of the facts about the orders at rest when there are fewer.
LEMMA FewerKeepsApart ==
    ASSUME Placed, Fewer(queues, queues'),
           \A s \in Sides, p \in Prices : DistinctIds(queues'[s][p]),
           incoming' # Book!Nobody => incoming # Book!Nobody /\ incoming'.id = incoming.id
    PROVE  Placed'
<1>1. \A id \in OrderIds, side, other \in Sides, price, level \in Prices :
         Holds(queues'[side][price], id) /\ Holds(queues'[other][level], id)
            => side = other /\ price = level
  BY DEF Placed, Fewer
<1>2. ASSUME NEW id, id \in Book!RestingIds' PROVE id \in Book!RestingIds
  <2>1. id \in OrderIds /\ \E side \in Sides, price \in Prices :
                               Holds(queues'[side][price], id)
    BY <1>2 DEF Book!RestingIds, Holds
  <2> QED
    BY <2>1, RestingIs DEF Fewer
<1>3. incoming' # Book!Nobody => incoming'.id \notin Book!RestingIds'
  BY <1>2 DEF Placed
<1>4. (Book!Nobody)' = Book!Nobody
  BY DEF Book!Nobody
<1>5. (\A s \in Sides, p \in Prices : DistinctIds(queues[s][p]))'
  BY DEF DistinctIds
<1>6. (\A id \in OrderIds, side, other \in Sides, price, level \in Prices :
         Holds(queues[side][price], id) /\ Holds(queues[other][level], id)
            => side = other /\ price = level)'
  BY <1>1 DEF Holds
<1> QED
  BY <1>3, <1>4, <1>5, <1>6 DEF Placed

-----------------------------------------------------------------------------
(* Prices the agents hear of *)

\* A nonempty set of prices has a lowest one.
LEMMA MinOfPositions ==
    ASSUME NEW n \in Nat, NEW s \in SUBSET (1 .. n), s # {}
    PROVE  Min(s) \in s
<1>1. s \in SUBSET Nat
  OBVIOUS
<1>2. PICK low \in s : \A y \in s : low <= y
  BY <1>1, LeastNumber
<1> QED
  BY <1>2 DEF Min

\* The best price of a side, or none.
LEMMA BboIsPrices == Bbo \in [Sides -> 1 .. InvalidPrice]
<1> SUFFICES ASSUME NEW side \in Sides PROVE BestOf(side) \in 1 .. InvalidPrice
  BY DEF Bbo
<1>1. TopPrice \in Nat
  BY SimulationConstants
<1>2. Book!Quoted(side) \in SUBSET (1 .. TopPrice)
  BY DEF Book!Quoted, Prices
<1>3. Book!Quoted(side) # {} =>
         Max(Book!Quoted(side)) \in 1 .. TopPrice /\ Min(Book!Quoted(side)) \in 1 .. TopPrice
  BY <1>1, <1>2, MaxOfPositions, MinOfPositions
<1> QED
  BY <1>1, <1>3 DEF BestOf, InvalidPrice

LEMMA NextBboIsPrices == Bbo' \in [Sides -> 1 .. InvalidPrice]
<1>1. (Bbo \in [Sides -> 1 .. InvalidPrice])'
  BY BboIsPrices, PTL
<1> QED
  BY <1>1 DEF Sides, InvalidPrice

\* The middle of the prices is a number.
LEMMA MidIsInt ==
    ASSUME NEW bbo \in [Sides -> 1 .. InvalidPrice]
    PROVE  MidOf(bbo) \in Int
<1>1. TopPrice \in Nat /\ Wrapped \in Int
  BY SimulationConstants
<1>2. bbo["Buy"] \in Int /\ bbo["Sell"] \in Int
  BY <1>1 DEF Sides, InvalidPrice
<1>3. (bbo["Buy"] + bbo["Sell"]) \div 2 \in Int
  BY <1>2
<1> DEFINE missing == {side \in Sides : bbo[side] = InvalidPrice}
           half == (bbo["Buy"] + bbo["Sell"]) \div 2
<1> HIDE DEF missing, half
<1>4. MidOf(bbo) = CASE missing = {}    -> half
                     [] missing = Sides -> -1
                     [] OTHER           -> Wrapped
  BY DEF MidOf, missing, half
<1>5. half \in Int
  BY <1>3 DEF half
<1>6. missing = {} => missing # Sides
  BY DEF Sides
<1> QED
  BY <1>1, <1>4, <1>5, <1>6

\* What an agent that hears of prices keeps: all that its orders depend on.
Keeps(old, new) ==
    /\ new.next = old.next /\ new.position = old.position
    /\ new.bid = old.bid /\ new.ask = old.ask

LEMMA AfterBboKeeps ==
    ASSUME NEW agent \in Agent, NEW kind \in Kinds, NEW bbo \in [Sides -> 1 .. InvalidPrice]
    PROVE  AfterBbo(agent, kind, bbo) \in Agent /\ Keeps(agent, AfterBbo(agent, kind, bbo))
<1> DEFINE m == MidOf(bbo)
<1>1. m \in Int
  BY MidIsInt
<1>2. agent.mid \in Int /\ agent.history \in Seq(Int)
  BY DEF Agent
<1> DEFINE n == NoiseMid(agent.mid, bbo)
           longer == Append(agent.history, m)
           h == IF Len(longer) > Lookback THEN Tail(longer) ELSE longer
<1>3. n \in Int
  BY <1>1, <1>2 DEF NoiseMid
<1>4. h \in Seq(Int)
  <2>1. longer \in Seq(Int) /\ longer # <<>>
    BY <1>1, <1>2, AppendProperties
  <2> HIDE DEF longer
  <2>2. Tail(longer) \in Seq(Int)
    BY <2>1, HeadTailProperties
  <2> QED
    BY <2>1, <2>2
<1>5. AfterBbo(agent, kind, bbo) =
         CASE kind = "maker" -> [agent EXCEPT !.mid = m]
           [] kind = "noise" -> [agent EXCEPT !.mid = n]
           [] kind = "momentum" -> [agent EXCEPT !.history = h]
  BY DEF AfterBbo
<1> HIDE DEF m, n, h
<1>6. CASE kind = "maker"
  BY <1>1, <1>5, <1>6 DEF Agent, Keeps
<1>7. CASE kind = "noise"
  BY <1>3, <1>5, <1>7 DEF Agent, Keeps
<1>8. CASE kind = "momentum"
  BY <1>4, <1>5, <1>8 DEF Agent, Keeps
<1> QED
  BY <1>6, <1>7, <1>8 DEF Kinds

\* The agents main() created.
LEMMA RosterIs ==
    ASSUME roster \in Rosters
    PROVE  /\ Len(roster) \in Nat \ {0} /\ Agents = 1 .. Len(roster)
           /\ IsFiniteSet(Agents) /\ 0 \notin Agents /\ Agents # {}
           /\ \A a \in Agents : roster[a] \in Kinds
<1>1. roster \in Seq(Kinds) /\ roster # <<>>
  BY SimulationConstants
<1>2. Len(roster) \in Nat /\ DOMAIN roster = 1 .. Len(roster) /\ Len(roster) # 0
  BY <1>1, LenProperties, EmptySeq
<1>3. IsFiniteSet(1 .. Len(roster))
  BY <1>2, FS_Interval
<1>4. 1 \in 1 .. Len(roster) /\ 0 \notin 1 .. Len(roster)
  BY <1>2
<1>5. \A a \in 1 .. Len(roster) : roster[a] \in Kinds
  BY <1>1, ElementOfSeq
<1> QED
  BY <1>2, <1>3, <1>4, <1>5 DEF Agents

\* Agents hear of prices.
LEMMA AnnouncedKeeps ==
    ASSUME roster \in Rosters, NEW members \in [Agents -> Agent]
    PROVE  /\ Announced(members) \in [Agents -> Agent]
           /\ \A a \in Agents : Keeps(members[a], Announced(members)[a])
<1>1. \A a \in Agents : roster[a] \in Kinds /\ members[a] \in Agent
  BY RosterIs
<1>2. \A a \in Agents : AfterBbo(members[a], roster[a], Bbo') \in Agent
                        /\ Keeps(members[a], AfterBbo(members[a], roster[a], Bbo'))
  BY <1>1, NextBboIsPrices, AfterBboKeeps
<1>3. CASE Announced(members) = members
  BY <1>3 DEF Keeps
<1>4. CASE Announced(members) = [a \in Agents |-> AfterBbo(members[a], roster[a], Bbo')]
  BY <1>2, <1>4
<1> QED
  BY <1>3, <1>4 DEF Announced

\* What a report on an order leaves as it was, and what it adds to the position.
Reports(old, new) ==
    /\ new \in [Agents -> Agent]
    /\ \A a \in Agents : /\ new[a].next = old[a].next
                         /\ new[a].bid = old[a].bid /\ new[a].ask = old[a].ask
                         /\ a # turn => new[a].position = old[a].position
    /\ \/ new[turn].position = old[turn].position
       \/ new[turn].position = old[turn].position + Signed(incoming.side, filled)

LEMMA ReportedReports ==
    ASSUME filled \in Nat, turn \in Agents, NEW members \in [Agents -> Agent]
    PROVE  Reports(members, Reported(members))
<1>1. CASE Reported(members) = members
  BY <1>1 DEF Reports
<1>2. CASE Reported(members) = [members EXCEPT ![turn].position =
                                    @ + Signed(incoming.side, filled)]
  <2> DEFINE p == members[turn].position + Signed(incoming.side, filled)
             m == [members[turn] EXCEPT !.position = p]
             new == [members EXCEPT ![turn] = m]
  <2>1. members[turn] \in Agent /\ p \in Int
    <3>1. members[turn] \in Agent /\ members[turn].position \in Int
      BY DEF Agent
    <3>2. Signed(incoming.side, filled) \in Int
      BY DEF Signed
    <3> QED
      BY <3>1, <3>2
  <2>2. Reported(members) = new
    BY <1>2
  <2> HIDE DEF p
  <2>3. /\ m \in Agent /\ m.next = members[turn].next /\ m.bid = members[turn].bid
        /\ m.ask = members[turn].ask /\ m.position = p
    BY <2>1 DEF Agent
  <2> HIDE DEF m
  <2>4. /\ new \in [Agents -> Agent] /\ new[turn] = m
        /\ \A a \in Agents : a # turn => new[a] = members[a]
    BY <2>3
  <2> HIDE DEF new
  <2>5. new[turn].position = members[turn].position + Signed(incoming.side, filled)
    BY <2>3, <2>4 DEF p
  <2>6. Reports(members, new)
    BY <2>3, <2>4, <2>5 DEF Reports
  <2> QED
    BY <2>2, <2>6
<1> QED
  BY <1>1, <1>2 DEF Reported

-----------------------------------------------------------------------------
(* Types *)

\* These are the same in every state.
LEMMA Rigid ==
    /\ Agent' = Agent /\ Queues' = Queues /\ Stages' = Stages /\ Sides' = Sides
    /\ (Book!Arrival)' = Book!Arrival /\ (Book!Nobody)' = Book!Nobody
    /\ InvalidPrice' = InvalidPrice /\ OrderIds' = OrderIds /\ Prices' = Prices
BY DEF Agent, Queues, Stages, Sides, Book!Arrival, Book!Nobody, InvalidPrice, OrderIds,
       Prices, Book!Entry, Book!Quantity, Book!Patience

\* The types of a next state in which main() has the agents it had.
LEMMA NextTypes ==
    ASSUME roster \in Rosters, informed \in Drivers, roster' = roster, informed' = informed,
           agents' \in [Agents -> Agent], queues' \in Queues,
           incoming' \in Book!Arrival \cup {Book!Nobody},
           incoming' # Book!Nobody => Restable(incoming'),
           lastBbo' \in [Sides -> 1 .. InvalidPrice],
           filled' \in Nat, tick' \in Nat, turn' \in Agents, stage' \in Stages,
           quote' \in [Sides -> Int],
           stats' \in [received : Nat, matched : Nat, cancelled : Nat, volume : Nat],
           heard' \in [trades : Nat, volume : Nat],
           owner' \in [OrderIds -> Agents \cup {0}],
           inventory' \in [Agents -> Int]
    PROVE  TypeOK'
<1>1. Agents' = Agents
  BY DEF Agents
<1>2. Restable(incoming)' = Restable(incoming')
  BY DEF Restable, Prices
<1> QED
  BY <1>1, <1>2, Rigid DEF TypeOK

LEMMA InitTypes == Init => TypeOK
<1> SUFFICES ASSUME Init PROVE TypeOK
  OBVIOUS
<1>1. roster \in Rosters /\ informed \in Drivers
  BY DEF Init
<1>2. /\ Agents = 1 .. Len(roster) /\ 1 \in Agents
  BY <1>1, RosterIs
<1>3. agents \in [Agents -> Agent]
  <2>1. DefaultPrice \in Int
    BY SimulationConstants DEF Prices
  <2>2. <<>> \in Seq(Int)
    BY EmptySeq
  <2>3. \A a \in Agents : NewAgent(roster[a]) \in Agent
    BY <2>1, <2>2 DEF NewAgent, Agent
  <2> QED
    BY <2>3 DEF Init
<1>4. queues \in Queues
  <2>1. <<>> \in Seq(Book!Entry)
    BY EmptySeq
  <2> QED
    BY <2>1 DEF Init, Book!Init, Queues
<1>5. incoming = Book!Nobody
  BY DEF Init, Book!Init
<1>6. lastBbo \in [Sides -> 1 .. InvalidPrice]
  <2>1. InvalidPrice \in 1 .. InvalidPrice
    BY SimulationConstants DEF InvalidPrice
  <2> QED
    BY <2>1 DEF Init
<1>7. /\ filled \in Nat /\ tick \in Nat /\ turn \in Agents /\ stage \in Stages
      /\ quote \in [Sides -> Int]
  BY <1>2 DEF Init, Stages, NoQuote
<1>8. /\ stats \in [received : Nat, matched : Nat, cancelled : Nat, volume : Nat]
      /\ heard \in [trades : Nat, volume : Nat]
      /\ owner \in [OrderIds -> Agents \cup {0}] /\ inventory \in [Agents -> Int]
  BY DEF Init
<1> QED
  BY <1>1, <1>3, <1>4, <1>5, <1>6, <1>7, <1>8 DEF TypeOK

\* An order of what it was, but for its quantity.
LEMMA ArrivalIs ==
    ASSUME NEW order \in Book!Arrival
    PROVE  /\ order.id \in OrderIds /\ order.side \in Sides /\ order.quantity \in Nat
           /\ order.limit \in Prices \cup {InvalidPrice} /\ order # Book!Nobody
<1>1. /\ order.id \in OrderIds /\ order.side \in Sides /\ order.quantity \in Nat
      /\ order.limit \in Prices \cup {InvalidPrice}
  BY QModAssumption DEF Book!Arrival, Book!Quantity
<1>2. order.id # 0
  BY <1>1, SimulationConstants DEF OrderIds
<1>3. order # Book!Nobody
  BY <1>2 DEF Book!Nobody
<1> QED
  BY <1>1, <1>3

LEMMA SmallerArrival ==
    ASSUME NEW order \in Book!Arrival, NEW quantity \in Book!Quantity, NEW less,
           less = [order EXCEPT !.quantity = quantity]
    PROVE  /\ less \in Book!Arrival /\ less.quantity = quantity
           /\ less.id = order.id /\ less.side = order.side /\ less.limit = order.limit
           /\ less.patience = order.patience
<1>1. less \in Book!Arrival
  BY Zenon DEF Book!Arrival
<1>2. less.quantity = quantity
  BY Zenon DEF Book!Arrival
<1>3. /\ less.id = order.id /\ less.side = order.side /\ less.limit = order.limit
      /\ less.patience = order.patience
  BY Zenon DEF Book!Arrival
<1> QED
  BY <1>1, <1>2, <1>3

-----------------------------------------------------------------------------
(* What the steps of the engine do *)

LEMMA OtherIs == Book!Other("Buy") = "Sell" /\ Book!Other("Sell") = "Buy"
BY DEF Book!Other, Sides

\* The incoming order takes something from the head of a queue of the other side.
LEMMA BookTradeDoes ==
    ASSUME TypeOK, \A s \in Sides, p \in Prices : DistinctIds(queues[s][p]), Book!Trade
    PROVE  /\ queues' \in Queues /\ Fewer(queues, queues')
           /\ \A s \in Sides, p \in Prices : DistinctIds(queues'[s][p])
           /\ incoming \in Book!Arrival /\ incoming' \in Book!Arrival
           /\ incoming'.id = incoming.id /\ incoming'.side = incoming.side
           /\ incoming'.limit = incoming.limit /\ Restable(incoming')
           /\ incoming'.quantity \in Nat /\ incoming'.quantity < incoming.quantity
<1>1. incoming \in Book!Arrival /\ incoming.quantity > 0
  BY DEF TypeOK, Book!Trade
<1>2. incoming.side \in Sides /\ incoming.quantity \in Nat /\ incoming.quantity \in Book!Quantity
  BY <1>1, ArrivalIs DEF Book!Arrival
<1> DEFINE maker == Book!Other(incoming.side)
<1>3. maker \in Sides
  BY <1>2, OtherIs DEF Sides
<1>4. PICK price \in Prices :
         /\ Book!IsBest(incoming, price)
         /\ LET queue == queues[maker][price]
                oldest == Head(queue)
                traded == IF oldest.quantity < incoming.quantity
                          THEN oldest.quantity ELSE incoming.quantity
            IN  /\ queues' = [queues EXCEPT ![maker][price] =
                       IF traded = oldest.quantity THEN Tail(queue)
                       ELSE [queue EXCEPT ![1].quantity = @ - traded]]
                /\ incoming' = [incoming EXCEPT !.quantity = @ - traded]
  BY DEF Book!Trade, Book!NextMaker, maker
<1> DEFINE queue == queues[maker][price]
           oldest == Head(queue)
           traded == IF oldest.quantity < incoming.quantity
                     THEN oldest.quantity ELSE incoming.quantity
           rest == oldest.quantity - traded
           new == IF traded = oldest.quantity THEN Tail(queue)
                  ELSE [queue EXCEPT ![1].quantity = rest]
           left == incoming.quantity - traded
<1> HIDE DEF maker
<1>5. queue \in Seq(Book!Entry) /\ DistinctIds(queue) /\ queue # <<>>
  <2>1. queue # <<>>
    BY <1>4 DEF Book!IsBest, Book!Crossed, Book!Quoted, maker
  <2>2. queue \in Seq(Book!Entry)
    BY <1>3 DEF TypeOK, Queues
  <2> QED
    BY <1>3, <2>1, <2>2
<1>6. oldest = queue[1] /\ oldest.quantity \in Book!Quantity \ {0} /\ oldest.quantity \in Nat \ {0}
  <2>1. oldest \in Book!Entry /\ oldest = queue[1]
    BY <1>5, HeadTailProperties
  <2> QED
    BY <2>1, EntryIs
<1>7. queues' = Put(queues, maker, price, new)
  BY <1>4, <1>6 DEF maker, Put
<1>8. incoming' = [incoming EXCEPT !.quantity = left]
  BY <1>4 DEF maker
<1> HIDE DEF queue
<1>9. /\ traded \in Nat /\ traded > 0 /\ left \in Nat /\ left < incoming.quantity
      /\ left \in Book!Quantity
      /\ traded # oldest.quantity => rest \in Book!Quantity \ {0}
  <2>1. QMod \in Nat
    BY QModAssumption
  <2> HIDE DEF oldest
  <2> QED
    BY <1>1, <1>2, <1>6, <2>1 DEF Book!Quantity
<1> HIDE DEF traded, rest, left, oldest
<1>10. new \in Seq(Book!Entry) /\ DistinctIds(new) /\ \A id : Holds(new, id) => Holds(queue, id)
  <2>1. CASE traded = oldest.quantity
    BY <1>5, <2>1, TailKeeps
  <2>2. CASE traded # oldest.quantity
    BY <1>5, <1>9, <2>2, HeadKeeps, ZenonT(60)
  <2> QED
    BY <2>1, <2>2
<1> HIDE DEF new
<1>11. /\ queues' \in Queues /\ queues'[maker][price] = new
       /\ \A s \in Sides, p \in Prices :
             s # maker \/ p # price => queues'[s][p] = queues[s][p]
  <2>1. queues \in Queues
    BY DEF TypeOK
  <2> QED
    BY <1>3, <1>7, <1>10, <2>1, QueueChange
<1>12. /\ Fewer(queues, queues')
       /\ \A s \in Sides, p \in Prices : DistinctIds(queues'[s][p])
  <2>1. \A id : Holds(new, id) => Holds(queues[maker][price], id)
    BY <1>10 DEF queue
  <2> QED
    BY <1>3, <1>10, <1>11, <2>1, QueueShrinks
<1>13. /\ incoming' \in Book!Arrival /\ incoming'.quantity = left
       /\ incoming'.id = incoming.id /\ incoming'.side = incoming.side
       /\ incoming'.limit = incoming.limit /\ incoming'.patience = incoming.patience
  BY <1>1, <1>8, <1>9, SmallerArrival
<1>14. Restable(incoming')
  BY <1>13 DEF TypeOK, Restable, Book!Trade
<1> QED
  BY <1>1, <1>9, <1>11, <1>12, <1>13, <1>14

\* The incoming order leaves, or comes to rest behind the orders of its price.
Grows(order) ==
    \A side \in Sides, price \in Prices, id \in OrderIds :
        Holds(queues'[side][price], id) =>
            \/ Holds(queues[side][price], id)
            \/ id = order.id /\ side = order.side /\ price = order.limit

LEMMA BookLeaveDoes ==
    ASSUME TypeOK, Placed, Book!Leave
    PROVE  /\ queues' \in Queues /\ incoming \in Book!Arrival /\ incoming' = Book!Nobody
           /\ \A s \in Sides, p \in Prices : DistinctIds(queues'[s][p])
           /\ Grows(incoming)
<1>1. incoming \in Book!Arrival /\ incoming' = Book!Nobody
  BY DEF TypeOK, Book!Leave
<1>2. CASE queues' = queues
  <2>1. queues' \in Queues /\ Grows(incoming)
    BY <1>2 DEF TypeOK, Grows
  <2>2. \A s \in Sides, p \in Prices : DistinctIds(queues'[s][p])
    BY <1>2 DEF Placed
  <2> QED
    BY <1>1, <2>1, <2>2
<1>3. CASE /\ incoming.quantity > 0 /\ incoming.patience = "rests"
           /\ queues' = [queues EXCEPT ![incoming.side][incoming.limit] =
                  Append(@, [id |-> incoming.id, quantity |-> incoming.quantity])]
  <2> DEFINE side == incoming.side
             price == incoming.limit
             queue == queues[side][price]
             e == [id |-> incoming.id, quantity |-> incoming.quantity]
             new == Append(queue, e)
  <2>1. side \in Sides /\ price \in Prices /\ incoming.id \in OrderIds
    BY <1>1, <1>3, ArrivalIs DEF TypeOK, Restable
  <2>2. e \in Book!Entry /\ e.id = incoming.id
    <3>1. incoming.quantity \in Book!Quantity \ {0}
      BY <1>1, <1>3, ArrivalIs DEF Book!Arrival
    <3> QED
      BY <2>1, <3>1 DEF Book!Entry
  <2>3. queue \in Seq(Book!Entry) /\ DistinctIds(queue)
    BY <2>1 DEF TypeOK, Queues, Placed
  <2>4. \A s \in Sides, p \in Prices : ~Holds(queues[s][p], incoming.id)
    BY <1>1, <2>1, ArrivalIs, RestingIs DEF Placed
  <2>5. queues' = Put(queues, side, price, new)
    BY <1>3 DEF Put
  <2> HIDE DEF e, side, price, queue
  <2>6. ~Holds(queue, e.id)
    BY <2>1, <2>2, <2>4 DEF queue
  <2>7. /\ new \in Seq(Book!Entry) /\ DistinctIds(new)
        /\ \A id : Holds(new, id) => Holds(queue, id) \/ id = e.id
    BY <2>2, <2>3, <2>6, AppendKeeps
  <2> HIDE DEF new
  <2>8. /\ queues' \in Queues /\ queues'[side][price] = new
        /\ \A s \in Sides, p \in Prices :
              s # side \/ p # price => queues'[s][p] = queues[s][p]
    <3>1. queues \in Queues
      BY DEF TypeOK
    <3> QED
      BY <2>1, <2>5, <2>7, <3>1, QueueChange
  <2>9. \A s \in Sides, p \in Prices : DistinctIds(queues[s][p])
    BY DEF Placed
  <2>10. \A s \in Sides, p \in Prices : DistinctIds(queues'[s][p])
    BY <2>7, <2>8, <2>9
  <2>11. ASSUME NEW s \in Sides, NEW p \in Prices, NEW id \in OrderIds,
                Holds(queues'[s][p], id)
         PROVE  Holds(queues[s][p], id) \/ (id = incoming.id /\ s = side /\ p = price)
    <3>1. CASE s = side /\ p = price
      BY <2>2, <2>7, <2>8, <2>11, <3>1 DEF queue
    <3>2. CASE s # side \/ p # price
      BY <2>8, <2>11, <3>2
    <3> QED
      BY <3>1, <3>2
  <2>12. Grows(incoming)
    BY <2>11 DEF Grows, side, price
  <2> QED
    BY <1>1, <2>8, <2>10, <2>12
<1> QED
  BY <1>2, <1>3 DEF Book!Leave

\* An order that comes to rest under an identifier that is not in use.
LEMMA GrowsKeepsApart ==
    ASSUME Placed, NEW order, order.id \notin Book!RestingIds, Grows(order),
           \A s \in Sides, p \in Prices : DistinctIds(queues'[s][p]),
           incoming' = Book!Nobody
    PROVE  Placed'
<1>1. \A id \in OrderIds, side \in Sides, price \in Prices :
         id = order.id => ~Holds(queues[side][price], id)
  BY RestingIs
<1>2. \A id \in OrderIds, side, other \in Sides, price, level \in Prices :
         Holds(queues'[side][price], id) /\ Holds(queues'[other][level], id)
            => side = other /\ price = level
  BY <1>1 DEF Placed, Grows
<1>3. (\A s \in Sides, p \in Prices : DistinctIds(queues[s][p]))'
  BY DEF DistinctIds
<1>4. (\A id \in OrderIds, side, other \in Sides, price, level \in Prices :
         Holds(queues[side][price], id) /\ Holds(queues[other][level], id)
            => side = other /\ price = level)'
  BY <1>2 DEF Holds
<1>5. (Book!Nobody)' = Book!Nobody
  BY DEF Book!Nobody
<1> QED
  BY <1>3, <1>4, <1>5 DEF Placed

\* An order is withdrawn; no queue holds its identifier any more.
LEMMA BookWithdrawDoes ==
    ASSUME queues \in Queues, Placed, NEW side \in Sides, NEW price \in Prices,
           NEW i \in DOMAIN queues[side][price], NEW id \in OrderIds,
           queues[side][price][i].id = id, Book!Withdraw(side, price, i)
    PROVE  /\ queues' \in Queues /\ incoming' = incoming /\ Fewer(queues, queues')
           /\ \A s \in Sides, p \in Prices : DistinctIds(queues'[s][p])
           /\ \A s \in Sides, p \in Prices : ~Holds(queues'[s][p], id)
<1> DEFINE queue == queues[side][price]
           new == RemoveAt(queue, i)
<1>1. queue \in Seq(Book!Entry) /\ DistinctIds(queue) /\ i \in DOMAIN queue
      /\ queue[i].id = id
  BY DEF Queues, Placed
<1>2. incoming' = incoming /\ queues' = Put(queues, side, price, new)
  BY DEF Book!Withdraw, Put, Book!RemoveAt, RemoveAt
<1>3. Holds(queue, id)
  BY <1>1 DEF Holds
<1> HIDE DEF queue
<1>4. /\ new \in Seq(Book!Entry) /\ DistinctIds(new) /\ ~Holds(new, id)
      /\ \A other : Holds(new, other) => Holds(queue, other)
  BY <1>1, RemoveKeeps
<1> HIDE DEF new
<1>5. /\ queues' \in Queues /\ queues'[side][price] = new
      /\ \A s \in Sides, p \in Prices :
            s # side \/ p # price => queues'[s][p] = queues[s][p]
  BY <1>2, <1>4, QueueChange
<1>6. \A s \in Sides, p \in Prices : DistinctIds(queues[s][p])
  BY DEF Placed
<1>7. /\ Fewer(queues, queues')
      /\ \A s \in Sides, p \in Prices : DistinctIds(queues'[s][p])
  <2>1. \A other : Holds(new, other) => Holds(queues[side][price], other)
    BY <1>4 DEF queue
  <2> QED
    BY <1>4, <1>5, <1>6, <2>1, QueueShrinks
<1>8. ASSUME NEW s \in Sides, NEW p \in Prices, Holds(queues'[s][p], id) PROVE FALSE
  <2>1. Holds(queues[s][p], id)
    BY <1>7, <1>8 DEF Fewer
  <2>2. s = side /\ p = price
    BY <1>3, <2>1 DEF Placed, queue
  <2> QED
    BY <1>4, <1>5, <1>8, <2>2
<1> QED
  BY <1>2, <1>5, <1>7, <1>8

\* What the engine counts.
Stats == [received : Nat, matched : Nat, cancelled : Nat, volume : Nat]

\* A cancellation, whether it finds an order or not.
LEMMA CancelDoes ==
    ASSUME TypeOK, Placed, NEW id, CancelOrder(id)
    PROVE  /\ queues' \in Queues /\ incoming' = incoming /\ Fewer(queues, queues')
           /\ \A s \in Sides, p \in Prices : DistinctIds(queues'[s][p])
           /\ id \in OrderIds => \A s \in Sides, p \in Prices : ~Holds(queues'[s][p], id)
           /\ lastBbo' \in [Sides -> 1 .. InvalidPrice]
           /\ stats' \in Stats
           /\ stats'.received = stats.received /\ stats'.matched = stats.matched
           /\ stats'.volume = stats.volume
           /\ agents' \in [Agents -> Agent] /\ \A a \in Agents : Keeps(agents[a], agents'[a])
<1>1. CASE id \in Book!RestingIds
  <2>1. CancelLive(id) /\ id \in OrderIds
    BY <1>1, RestingIs DEF CancelOrder
  <2>2. PICK side \in Sides, price \in Prices : \E i \in DOMAIN queues[side][price] :
            queues[side][price][i].id = id /\ Book!Withdraw(side, price, i)
    BY <2>1 DEF CancelLive
  <2> PICK i \in DOMAIN queues[side][price] :
            queues[side][price][i].id = id /\ Book!Withdraw(side, price, i)
    BY <2>2
  <2>3. /\ queues' \in Queues /\ incoming' = incoming /\ Fewer(queues, queues')
        /\ \A s \in Sides, p \in Prices : DistinctIds(queues'[s][p])
        /\ \A s \in Sides, p \in Prices : ~Holds(queues'[s][p], id)
    BY <2>1, BookWithdrawDoes DEF TypeOK
  <2>4. lastBbo' \in [Sides -> 1 .. InvalidPrice]
    BY <2>1, NextBboIsPrices DEF CancelLive, Announce, TypeOK
  <2>5. /\ stats' \in Stats /\ stats'.received = stats.received
        /\ stats'.matched = stats.matched /\ stats'.volume = stats.volume
    BY <2>1 DEF CancelLive, Stats, TypeOK
  <2>6. agents' \in [Agents -> Agent] /\ \A a \in Agents : Keeps(agents[a], agents'[a])
    BY <2>1, AnnouncedKeeps DEF CancelLive, TypeOK
  <2> QED
    BY <2>3, <2>4, <2>5, <2>6
<1>2. CASE id \notin Book!RestingIds
  <2>1. /\ queues' = queues /\ incoming' = incoming /\ lastBbo' = lastBbo
        /\ agents' = agents /\ stats' = stats
    BY <1>2 DEF CancelOrder
  <2>2. /\ \A s \in Sides, p \in Prices : DistinctIds(queues'[s][p])
        /\ id \in OrderIds => \A s \in Sides, p \in Prices : ~Holds(queues'[s][p], id)
    BY <1>2, <2>1, RestingIs DEF Placed
  <2>3. queues' \in Queues /\ Fewer(queues, queues')
    BY <2>1 DEF TypeOK, Fewer
  <2>4. agents' \in [Agents -> Agent] /\ \A a \in Agents : Keeps(agents[a], agents'[a])
    BY <2>1 DEF TypeOK, Keeps
  <2>5. lastBbo' \in [Sides -> 1 .. InvalidPrice] /\ stats' \in Stats
    BY <2>1 DEF TypeOK, Stats
  <2> QED
    BY <2>1, <2>2, <2>3, <2>4, <2>5
<1> QED
  BY <1>1, <1>2

\* A submission: the order is refused, or is now being matched.
Submits(order) ==
    /\ queues' = queues /\ lastBbo' = lastBbo
    /\ stats' \in Stats /\ stats'.received = stats.received + 1
    /\ stats'.matched = stats.matched /\ stats'.volume = stats.volume
    /\ \/ incoming' = incoming /\ filled' = filled /\ owner' = owner
       \/ /\ incoming = Book!Nobody
          /\ incoming' = order /\ order \in Book!Arrival /\ Restable(order)
          /\ order.id \notin Book!RestingIds
          /\ filled' = 0 /\ owner' = [owner EXCEPT ![order.id] = turn]

LEMMA SubmitDoes ==
    ASSUME TypeOK, NEW order, Submit(order)
    PROVE  Submits(order)
<1>1. /\ stats' \in Stats /\ stats'.received = stats.received + 1
      /\ stats'.matched = stats.matched /\ stats'.volume = stats.volume
  BY DEF Submit, Stats, TypeOK
<1>2. CASE UNCHANGED bookVars
  BY <1>1, <1>2 DEF Submits, bookVars
<1>3. CASE ~(UNCHANGED bookVars)
  <2>1. /\ Restable(order) /\ incoming' = order /\ Book!Arrive /\ filled' = 0
        /\ owner' = [owner EXCEPT ![order.id] = turn] /\ lastBbo' = lastBbo
    BY <1>3, Zenon DEF Submit, Restable
  <2>2. /\ incoming = Book!Nobody /\ order \in Book!Arrival /\ queues' = queues
        /\ order.id \notin Book!RestingIds
    BY <2>1, Zenon DEF Book!Arrive
  <2> QED
    BY <1>1, <2>1, <2>2 DEF Submits
<1> QED
  BY <1>2, <1>3

\* What becomes of the facts about the orders at rest when they stay.
LEMMA SameKeepsApart ==
    ASSUME Placed, queues' = queues,
           incoming' # Book!Nobody => incoming'.id \notin Book!RestingIds
    PROVE  Placed'
<1>1. Book!RestingIds' = Book!RestingIds
  BY DEF Book!RestingIds
<1>2. (\A s \in Sides, p \in Prices : DistinctIds(queues[s][p]))'
  BY DEF DistinctIds, Placed
<1>3. (\A id \in OrderIds, side, other \in Sides, price, level \in Prices :
         Holds(queues[side][price], id) /\ Holds(queues[other][level], id)
            => side = other /\ price = level)'
  BY DEF Holds, Placed
<1>4. (Book!Nobody)' = Book!Nobody
  BY DEF Book!Nobody
<1> QED
  BY <1>1, <1>2, <1>3, <1>4 DEF Placed

\* An agent takes the next identifier, a maker also remembers it.
Takes(bid, ask) ==
    /\ agents' \in [Agents -> Agent]
    /\ \A a \in Agents : a # turn => agents'[a] = agents[a]
    /\ agents'[turn].next = agents[turn].next + 1
    /\ agents'[turn].position = agents[turn].position
    /\ agents'[turn].bid = bid /\ agents'[turn].ask = ask

LEMMA NewMember ==
    ASSUME TypeOK, NEW m \in Agent, agents' = [agents EXCEPT ![turn] = m]
    PROVE  /\ agents' \in [Agents -> Agent] /\ agents'[turn] = m
           /\ \A a \in Agents : a # turn => agents'[a] = agents[a]
BY DEF TypeOK

LEMMA QuotesTake ==
    ASSUME TypeOK, NEW side \in Sides,
           agents' = [agents EXCEPT ![turn] =
                  IF side = "Buy" THEN [Me EXCEPT !.bid = Me.next, !.next = @ + 1]
                                  ELSE [Me EXCEPT !.ask = Me.next, !.next = @ + 1]]
    PROVE  IF side = "Buy" THEN Takes(Me.next, Me.ask) ELSE Takes(Me.bid, Me.next)
<1> DEFINE me == agents[turn]
           n == me.next + 1
           b == [[me EXCEPT !.bid = me.next] EXCEPT !.next = n]
           s == [[me EXCEPT !.ask = me.next] EXCEPT !.next = n]
<1>1. me \in Agent /\ me.next \in Nat /\ n \in Nat \ {0}
  <2>1. me \in Agent
    BY DEF TypeOK
  <2> HIDE DEF me
  <2>2. me.next \in Nat
    BY <2>1 DEF Agent
  <2> QED
    BY <2>1, <2>2
<1> HIDE DEF n
<1>2. /\ b \in Agent /\ b.next = n /\ b.position = me.position
      /\ b.bid = me.next /\ b.ask = me.ask
  BY <1>1 DEF Agent
<1>3. /\ s \in Agent /\ s.next = n /\ s.position = me.position
      /\ s.bid = me.bid /\ s.ask = me.next
  BY <1>1 DEF Agent
<1>4. agents' = [agents EXCEPT ![turn] = IF side = "Buy" THEN b ELSE s]
  <2>1. b = [me EXCEPT !.bid = me.next, !.next = @ + 1]
    BY <1>1 DEF Agent, n
  <2>2. s = [me EXCEPT !.ask = me.next, !.next = @ + 1]
    BY <1>1 DEF Agent, n
  <2> HIDE DEF b, s
  <2> QED
    BY <2>1, <2>2 DEF Me
<1> HIDE DEF b, s
<1>5. CASE side = "Buy"
  <2>1. agents' = [agents EXCEPT ![turn] = b]
    BY <1>4, <1>5
  <2>2. /\ agents' \in [Agents -> Agent] /\ agents'[turn] = b
        /\ \A a \in Agents : a # turn => agents'[a] = agents[a]
    BY <1>2, <2>1, NewMember
  <2> QED
    BY <1>2, <1>5, <2>2 DEF Takes, Me, n
<1>6. CASE side # "Buy"
  <2>1. agents' = [agents EXCEPT ![turn] = s]
    BY <1>4, <1>6
  <2>2. /\ agents' \in [Agents -> Agent] /\ agents'[turn] = s
        /\ \A a \in Agents : a # turn => agents'[a] = agents[a]
    BY <1>3, <2>1, NewMember
  <2> QED
    BY <1>3, <1>6, <2>2 DEF Takes, Me, n
<1> QED
  BY <1>5, <1>6

LEMMA NextTakes ==
    ASSUME TypeOK, agents' = [agents EXCEPT ![turn].next = @ + 1]
    PROVE  Takes(Me.bid, Me.ask)
<1> DEFINE me == agents[turn]
           n == me.next + 1
           m == [me EXCEPT !.next = n]
<1>1. me \in Agent /\ n \in Nat \ {0}
  BY DEF TypeOK, Agent
<1>2. agents' = [agents EXCEPT ![turn] = m]
  OBVIOUS
<1> HIDE DEF n
<1>3. /\ m \in Agent /\ m.next = n /\ m.position = me.position
      /\ m.bid = me.bid /\ m.ask = me.ask
  BY <1>1 DEF Agent
<1> HIDE DEF m
<1>4. /\ agents' \in [Agents -> Agent] /\ agents'[turn] = m
      /\ \A a \in Agents : a # turn => agents'[a] = agents[a]
  BY <1>2, <1>3, NewMember
<1> QED
  BY <1>3, <1>4 DEF Takes, Me, n

\* The quoting of a side: above the limit nothing happens.
Quotes(side) ==
    IF WithinLimit(side)
    THEN /\ IF side = "Buy" THEN Takes(Me.next, Me.ask) ELSE Takes(Me.bid, Me.next)
         /\ Submits(LimitOrder(Me.next, side, quote[side], BaseSize))
    ELSE UNCHANGED <<bookVars, agents, stats>>

LEMMA QuoteSideDoes ==
    ASSUME TypeOK, NEW side \in Sides, NEW at, NEW next, QuoteSide(side, at, next)
    PROVE  /\ turn \in Makers /\ stage = at /\ Idle /\ stage' = next /\ Quotes(side)
           /\ UNCHANGED <<setup, tick, turn, quote, heard, inventory>>
<1>1. turn \in Makers /\ stage = at /\ Idle /\ stage' = next
  BY DEF QuoteSide, Runs, Makers, TypeOK
<1>2. UNCHANGED <<setup, tick, turn, quote, heard, inventory>>
  BY DEF QuoteSide
<1>3. CASE WithinLimit(side)
  <2>1. Submits(LimitOrder(Me.next, side, quote[side], BaseSize))
    BY <1>3, SubmitDoes DEF QuoteSide
  <2>2. agents' = [agents EXCEPT ![turn] =
                  IF side = "Buy" THEN [Me EXCEPT !.bid = Me.next, !.next = @ + 1]
                                  ELSE [Me EXCEPT !.ask = Me.next, !.next = @ + 1]]
    BY <1>3 DEF QuoteSide
  <2>3. IF side = "Buy" THEN Takes(Me.next, Me.ask) ELSE Takes(Me.bid, Me.next)
    BY <2>2, QuotesTake
  <2>4. Quotes(side)
    BY <1>3, <2>1, <2>3 DEF Quotes
  <2> QED
    BY <1>1, <1>2, <2>4
<1>4. CASE ~WithinLimit(side)
  <2>1. Quotes(side)
    BY <1>4 DEF QuoteSide, Quotes
  <2> QED
    BY <1>1, <1>2, <2>1
<1> QED
  BY <1>1, <1>2, <1>3, <1>4

\* The other agents submit one order in their turn.
Sends ==
    /\ stage = "turn" /\ Idle /\ stage' = "done" /\ turn \notin Makers
    /\ Takes(Me.bid, Me.ask)
    /\ \E order : order.id = Me.next /\ Submits(order)
    /\ UNCHANGED <<setup, tick, turn, quote, heard, inventory>>

LEMMA MarketOrderIs ==
    ASSUME NEW id, NEW side, NEW quantity
    PROVE  MarketOrder(id, side, quantity).id = id
BY DEF MarketOrder, LimitOrder

LEMMA SubmitNextDoes ==
    ASSUME TypeOK, NEW order, order.id = Me.next, SubmitNext(order),
           stage = "turn", Idle, turn \notin Makers
    PROVE  Sends
BY SubmitDoes, NextTakes DEF SubmitNext, Sends

LEMMA FollowTrendDoes == TypeOK /\ FollowTrend => Sends
<1> SUFFICES ASSUME TypeOK, FollowTrend PROVE Sends
  OBVIOUS
<1> DEFINE order == MarketOrder(Me.next, IF Trend > 0 THEN "Buy" ELSE "Sell", OrderSize)
<1>1. stage = "turn" /\ Idle /\ turn \notin Makers /\ SubmitNext(order)
  BY DEF FollowTrend, Runs, Makers
<1>2. order.id = Me.next
  BY MarketOrderIs
<1> HIDE DEF order
<1> QED
  BY <1>1, <1>2, SubmitNextDoes

LEMMA MakeNoiseDoes ==
    ASSUME TypeOK, NEW side \in Sides, NEW size \in NoiseSizes, MakeNoise(side, size)
    PROVE  Sends
<1>1. stage = "turn" /\ Idle /\ turn \notin Makers
  BY DEF MakeNoise, Runs, Makers
<1>2. \E order : order.id = Me.next /\ SubmitNext(order)
  <2>1. CASE SubmitNext(MarketOrder(Me.next, side, size))
    BY <2>1, MarketOrderIs
  <2>2. ASSUME NEW deviation \in Deviations,
               SubmitNext(LimitOrder(Me.next, side, NoisePrice(side, deviation), size))
        PROVE  \E order : order.id = Me.next /\ SubmitNext(order)
    BY <2>2 DEF LimitOrder
  <2> QED
    BY <2>1, <2>2 DEF MakeNoise
<1> QED
  BY <1>1, <1>2, SubmitNextDoes

\* The orders a submission adds are as they have to be.
LEMMA SubmitsKeeps ==
    ASSUME TypeOK, Placed, NEW order, Submits(order), agents' \in [Agents -> Agent],
           stage' \in Stages, UNCHANGED <<setup, tick, turn, quote, heard, inventory>>
    PROVE  TypeOK' /\ Placed'
<1>1. /\ queues' \in Queues /\ lastBbo' \in [Sides -> 1 .. InvalidPrice]
      /\ stats' \in [received : Nat, matched : Nat, cancelled : Nat, volume : Nat]
  BY DEF Submits, TypeOK, Stats
<1>2. /\ incoming' \in Book!Arrival \cup {Book!Nobody}
      /\ incoming' # Book!Nobody => Restable(incoming')
      /\ filled' \in Nat
  BY DEF Submits, TypeOK
<1>3. owner' \in [OrderIds -> Agents \cup {0}]
  <2>1. ASSUME NEW id \in OrderIds, owner' = [owner EXCEPT ![id] = turn]
        PROVE  owner' \in [OrderIds -> Agents \cup {0}]
    BY <2>1 DEF TypeOK
  <2>2. order \in Book!Arrival => order.id \in OrderIds
    BY ArrivalIs
  <2> QED
    BY <2>1, <2>2 DEF Submits, TypeOK
<1>4. TypeOK'
  BY <1>1, <1>2, <1>3, NextTypes DEF TypeOK, setup
<1>5. queues' = queues /\ (incoming' # Book!Nobody => incoming'.id \notin Book!RestingIds)
  BY DEF Submits, Placed
<1>6. Placed'
  BY <1>5, SameKeepsApart
<1> QED
  BY <1>4, <1>6

\* A step of the matching.
Trades(traded) ==
    /\ traded \in Nat \ {0}
    /\ incoming \in Book!Arrival /\ incoming' \in Book!Arrival
    /\ incoming'.id = incoming.id /\ incoming'.side = incoming.side
    /\ incoming'.limit = incoming.limit
    /\ incoming'.quantity \in Nat /\ incoming'.quantity = incoming.quantity - traded
    /\ filled' = filled + traded
    /\ heard'.trades = heard.trades + 1 /\ heard'.volume = heard.volume + traded
    /\ UNCHANGED <<lastBbo, agents, setup, tick, turn, stage, quote, stats, owner>>

LEMMA TradeDoes ==
    ASSUME TypeOK, Placed, Trade
    PROVE  TypeOK' /\ Placed' /\ Fewer(queues, queues') /\ \E traded : Trades(traded)
<1> DEFINE traded == incoming.quantity - incoming'.quantity
<1>1. /\ queues' \in Queues /\ Fewer(queues, queues')
      /\ \A s \in Sides, p \in Prices : DistinctIds(queues'[s][p])
      /\ incoming \in Book!Arrival /\ incoming' \in Book!Arrival
      /\ incoming'.id = incoming.id /\ incoming'.side = incoming.side
      /\ incoming'.limit = incoming.limit /\ Restable(incoming')
      /\ incoming'.quantity \in Nat /\ incoming'.quantity < incoming.quantity
  BY BookTradeDoes DEF Trade, Placed
<1>2. incoming.quantity \in Nat /\ incoming.side \in Sides
      /\ incoming # Book!Nobody /\ incoming' # Book!Nobody
  BY <1>1, ArrivalIs
<1>3. traded \in Nat \ {0} /\ incoming'.quantity = incoming.quantity - traded
  BY <1>1, <1>2
<1>4. /\ filled' = filled + traded
      /\ heard' = [trades |-> heard.trades + 1, volume |-> heard.volume + traded]
      /\ UNCHANGED <<lastBbo, agents, setup, tick, turn, stage, quote, stats, owner>>
  BY DEF Trade
<1>5. inventory' \in [Agents -> Int]
  <2>1. PICK taker, maker, other :
              inventory' = [a \in Agents |-> inventory[a]
                               + (IF a = taker THEN Signed(incoming.side, traded) ELSE 0)
                               + (IF a = other THEN Signed(maker, traded) ELSE 0)]
    <3> DEFINE maker == Book!Other(incoming.side)
               top == CHOOSE price \in Prices : Book!IsBest(incoming, price)
               other == owner[Head(queues[maker][top]).id]
    <3>1. inventory' = [a \in Agents |-> inventory[a]
                               + ((IF a = owner[incoming.id] THEN Signed(incoming.side, traded) ELSE 0)
                               + (IF a = other THEN Signed(maker, traded) ELSE 0))]
      BY DEF Trade
    <3> HIDE DEF maker, other, top, traded
    <3>2. \A a \in Agents : inventory[a] \in Int
      BY DEF TypeOK
    <3>3. Signed(incoming.side, traded) \in Int /\ Signed(maker, traded) \in Int
      BY <1>3 DEF Signed
    <3>4. inventory' = [a \in Agents |-> inventory[a]
                               + (IF a = owner[incoming.id] THEN Signed(incoming.side, traded) ELSE 0)
                               + (IF a = other THEN Signed(maker, traded) ELSE 0)]
      BY <3>1, <3>2, <3>3
    <3> QED
      BY <3>4, SMTT(30)
  <2> HIDE DEF traded
  <2>2. Signed(incoming.side, traded) \in Int /\ Signed(maker, traded) \in Int
    BY <1>3 DEF Signed
  <2>3. \A a \in Agents : inventory[a] \in Int
    BY DEF TypeOK
  <2> QED
    BY <2>1, <2>2, <2>3
<1>6. heard' \in [trades : Nat, volume : Nat] /\ filled' \in Nat
  BY <1>3, <1>4 DEF TypeOK
<1> HIDE DEF traded
<1>7. TypeOK'
  BY <1>1, <1>4, <1>5, <1>6, NextTypes DEF TypeOK, setup
<1>8. Placed'
  BY <1>1, <1>2, FewerKeepsApart
<1>9. Trades(traded)
  BY <1>1, <1>3, <1>4 DEF Trades
<1> QED
  BY <1>1, <1>7, <1>8, <1>9

\* The end of a call: what is left of the order has come to rest or is gone, the
\* engine has counted what was filled and the agents have heard of it.
Returns ==
    /\ incoming \in Book!Arrival /\ incoming' = Book!Nobody /\ Grows(incoming)
    /\ Reports(agents, agents')
    /\ stats'.received = stats.received
    /\ IF filled > 0
       THEN stats'.matched = stats.matched + 1 /\ stats'.volume = stats.volume + filled
       ELSE stats'.matched = stats.matched /\ stats'.volume = stats.volume
    /\ filled' = 0
    /\ UNCHANGED <<setup, tick, turn, stage, quote, heard, owner, inventory>>

LEMMA ReturnDoes ==
    ASSUME TypeOK, Placed, Return
    PROVE  TypeOK' /\ Placed' /\ Returns
<1>1. /\ queues' \in Queues /\ incoming \in Book!Arrival /\ incoming' = Book!Nobody
      /\ \A s \in Sides, p \in Prices : DistinctIds(queues'[s][p])
      /\ Grows(incoming)
  BY BookLeaveDoes DEF Return
<1> DEFINE members == IF queues' # queues THEN Announced(agents) ELSE agents
<1>2. members \in [Agents -> Agent] /\ \A a \in Agents : Keeps(agents[a], members[a])
  <2>1. /\ Announced(agents) \in [Agents -> Agent]
        /\ \A a \in Agents : Keeps(agents[a], Announced(agents)[a])
    BY AnnouncedKeeps DEF TypeOK
  <2>2. agents \in [Agents -> Agent] /\ \A a \in Agents : Keeps(agents[a], agents[a])
    BY DEF TypeOK, Keeps
  <2> QED
    BY <2>1, <2>2
<1>3. agents' = Reported(members)
  BY DEF Return
<1> HIDE DEF members
<1>4. Reports(members, agents')
  BY <1>2, <1>3, ReportedReports DEF TypeOK
<1>5. Reports(agents, agents')
  <2>1. turn \in Agents
    BY DEF TypeOK
  <2> QED
    BY <1>2, <1>4, <2>1 DEF Reports, Keeps
<1>6. lastBbo' \in [Sides -> 1 .. InvalidPrice]
  BY NextBboIsPrices DEF Return, Announce, TypeOK
<1>7. /\ stats' \in Stats /\ stats'.received = stats.received
      /\ IF filled > 0
         THEN stats'.matched = stats.matched + 1 /\ stats'.volume = stats.volume + filled
         ELSE stats'.matched = stats.matched /\ stats'.volume = stats.volume
  <2>1. CASE filled > 0
    <3> DEFINE m == stats.matched + 1
               v == stats.volume + filled
               s == [[stats EXCEPT !.matched = m] EXCEPT !.volume = v]
    <3>1. stats \in Stats /\ m \in Nat /\ v \in Nat
      BY DEF TypeOK, Stats
    <3>2. stats' = s
      BY <2>1, <3>1 DEF Return, Stats
    <3> HIDE DEF m, v
    <3>3. s \in Stats /\ s.received = stats.received /\ s.matched = m /\ s.volume = v
      BY <3>1 DEF Stats
    <3> HIDE DEF s
    <3> QED
      BY <2>1, <3>2, <3>3 DEF m, v
  <2>2. CASE ~(filled > 0)
    BY <2>2 DEF Return, TypeOK, Stats
  <2> QED
    BY <2>1, <2>2
<1>8. filled' = 0 /\ UNCHANGED <<setup, tick, turn, stage, quote, heard, owner, inventory>>
  BY DEF Return
<1>9. TypeOK'
  <2>1. agents' \in [Agents -> Agent]
    BY <1>5 DEF Reports
  <2>2. stats' \in [received : Nat, matched : Nat, cancelled : Nat, volume : Nat]
    BY <1>7 DEF Stats
  <2> QED
    BY <1>1, <1>6, <1>8, <2>1, <2>2, NextTypes DEF TypeOK, setup
<1>10. Placed'
  <2>1. incoming.id \notin Book!RestingIds
    BY <1>1, ArrivalIs DEF Placed
  <2> QED
    BY <1>1, <2>1, GrowsKeepsApart
<1> QED
  BY <1>1, <1>5, <1>7, <1>8, <1>9, <1>10 DEF Returns

\* The price of an agent's quote is a number.
LEMMA QuotesAreInts ==
    ASSUME TypeOK, StartQuoting
    PROVE  quote' \in [Sides -> Int] /\ quote'["Buy"] < quote'["Sell"]
<1> DEFINE fair == IF Me.mid = 0 THEN DefaultPrice ELSE Me.mid
           skew == Me.position * SkewPerUnit
<1>1. fair \in Int /\ skew \in Int
  <2>1. Me.mid \in Int /\ Me.position \in Int
    BY DEF TypeOK, Agent, Me
  <2>2. DefaultPrice \in Int /\ SkewPerUnit \in Int
    BY SimulationConstants DEF Prices
  <2> QED
    BY <2>1, <2>2
<1>2. HalfSpread \in Nat \ {0}
  BY SimulationConstants
<1>3. quote' = [Buy |-> fair - HalfSpread - skew, Sell |-> fair + HalfSpread - skew]
  BY DEF StartQuoting
<1> HIDE DEF fair, skew
<1>4. fair - HalfSpread - skew < fair + HalfSpread - skew
  BY <1>1, <1>2
<1> QED
  BY <1>1, <1>2, <1>3, <1>4 DEF Sides

\* A cancellation in a maker's turn.
Cancels(at, id, next) ==
    /\ turn \in Makers /\ stage = at /\ Idle /\ stage' = next
    /\ incoming' = incoming /\ Fewer(queues, queues')
    /\ id \in OrderIds => \A s \in Sides, p \in Prices : ~Holds(queues'[s][p], id)
    /\ stats'.received = stats.received /\ stats'.matched = stats.matched
    /\ stats'.volume = stats.volume
    /\ \A a \in Agents : Keeps(agents[a], agents'[a])
    /\ UNCHANGED <<filled, owner, setup, tick, turn, quote, heard, inventory>>

LEMMA CancelQuoteDoes ==
    ASSUME TypeOK, Placed, NEW at, NEW id, NEW next \in Stages, CancelQuote(at, id, next)
    PROVE  TypeOK' /\ Placed' /\ Cancels(at, id, next)
<1>1. /\ turn \in Makers /\ stage = at /\ Idle /\ stage' = next /\ CancelOrder(id)
      /\ UNCHANGED <<filled, owner, setup, tick, turn, quote, heard, inventory>>
  BY DEF CancelQuote, Runs, Makers, TypeOK
<1>2. /\ queues' \in Queues /\ incoming' = incoming /\ Fewer(queues, queues')
      /\ \A s \in Sides, p \in Prices : DistinctIds(queues'[s][p])
      /\ id \in OrderIds => \A s \in Sides, p \in Prices : ~Holds(queues'[s][p], id)
      /\ lastBbo' \in [Sides -> 1 .. InvalidPrice]
      /\ stats' \in Stats
      /\ stats'.received = stats.received /\ stats'.matched = stats.matched
      /\ stats'.volume = stats.volume
      /\ agents' \in [Agents -> Agent] /\ \A a \in Agents : Keeps(agents[a], agents'[a])
  BY <1>1, CancelDoes
<1>3. TypeOK'
  <2>1. stats' \in [received : Nat, matched : Nat, cancelled : Nat, volume : Nat]
    BY <1>2 DEF Stats
  <2> QED
    BY <1>1, <1>2, <2>1, NextTypes DEF TypeOK, setup
<1>4. Placed'
  BY <1>2, FewerKeepsApart
<1> QED
  BY <1>1, <1>2, <1>3, <1>4 DEF Cancels

LEMMA InitPlaced == Init => Placed
BY DEF Init, Book!Init, Placed, DistinctIds, Holds, Book!Nobody

\* The turn that follows is an agent's.
LEMMA NextTurnDoes ==
    ASSUME TypeOK, NextTurn
    PROVE  turn' \in Agents /\ tick' \in Nat /\ stage' = "turn" /\ quote' \in [Sides -> Int]
<1>1. Len(roster) \in Nat \ {0} /\ Agents = 1 .. Len(roster)
  BY RosterIs DEF TypeOK
<1>2. turn' \in Agents /\ tick' \in Nat
  BY <1>1 DEF NextTurn, TypeOK
<1>3. stage' = "turn" /\ quote' \in [Sides -> Int]
  BY DEF NextTurn, NoQuote
<1> QED
  BY <1>2, <1>3

\* Every step keeps the types and the orders apart.
LEMMA StepTypes ==
    ASSUME TypeOK, Placed, [Next]_vars
    PROVE  TypeOK' /\ Placed'
<1>1. CASE NextTurn
  <2>1. UNCHANGED <<bookVars, agents, setup, stats, heard, inventory>>
    BY <1>1 DEF NextTurn
  <2>2. TypeOK'
    BY <1>1, <2>1, NextTurnDoes, NextTypes DEF TypeOK, setup, bookVars, Stages
  <2>3. queues' = queues /\ incoming' = incoming
    BY <2>1 DEF bookVars
  <2>4. Placed'
    BY <2>3, SameKeepsApart DEF Placed
  <2> QED
    BY <2>2, <2>4
<1>2. CASE Trade
  BY <1>2, TradeDoes
<1>3. CASE Return
  BY <1>3, ReturnDoes
<1>4. CASE StartQuoting
  <2>1. /\ UNCHANGED <<bookVars, agents, setup, tick, turn, stats, heard, inventory>>
        /\ stage' = "cancel bid"
    BY <1>4 DEF StartQuoting
  <2>2. TypeOK'
    BY <1>4, <2>1, QuotesAreInts, NextTypes DEF TypeOK, setup, bookVars, Stages
  <2>3. queues' = queues /\ incoming' = incoming
    BY <2>1 DEF bookVars
  <2>4. Placed'
    BY <2>3, SameKeepsApart DEF Placed
  <2> QED
    BY <2>2, <2>4
<1>5. CASE CancelBid
  <2>1. "cancel ask" \in Stages
    BY DEF Stages
  <2> QED
    BY <1>5, <2>1, CancelQuoteDoes DEF CancelBid
<1>6. CASE CancelAsk
  <2>1. "bid" \in Stages
    BY DEF Stages
  <2> QED
    BY <1>6, <2>1, CancelQuoteDoes DEF CancelAsk
<1>7. ASSUME NEW side \in Sides, NEW at, NEW next \in Stages, QuoteSide(side, at, next)
      PROVE  TypeOK' /\ Placed'
  <2>1. /\ stage' = next /\ Quotes(side)
        /\ UNCHANGED <<setup, tick, turn, quote, heard, inventory>>
    BY <1>7, QuoteSideDoes
  <2>2. CASE WithinLimit(side)
    <3>1. /\ agents' \in [Agents -> Agent]
          /\ \E order : Submits(order)
      BY <2>1, <2>2 DEF Quotes, Takes
    <3> QED
      BY <2>1, <3>1, SubmitsKeeps
  <2>3. CASE ~WithinLimit(side)
    <3>1. UNCHANGED <<bookVars, agents, stats>>
      BY <2>1, <2>3 DEF Quotes
    <3>2. TypeOK'
      BY <2>1, <3>1, NextTypes DEF TypeOK, setup, bookVars
    <3>3. queues' = queues /\ incoming' = incoming
      BY <3>1 DEF bookVars
    <3>4. Placed'
      BY <3>3, SameKeepsApart DEF Placed
    <3> QED
      BY <3>2, <3>4
  <2> QED
    BY <2>2, <2>3
<1>8. CASE QuoteBid \/ QuoteAsk
  <2>1. "ask" \in Stages /\ "done" \in Stages /\ "Buy" \in Sides /\ "Sell" \in Sides
    BY DEF Stages, Sides
  <2> QED
    BY <1>7, <1>8, <2>1 DEF QuoteBid, QuoteAsk
<1>9. CASE Sends
  <2>1. /\ agents' \in [Agents -> Agent] /\ stage' \in Stages
        /\ UNCHANGED <<setup, tick, turn, quote, heard, inventory>>
    BY <1>9 DEF Sends, Takes, Stages
  <2>2. PICK order : Submits(order)
    BY <1>9 DEF Sends
  <2> QED
    BY <2>1, <2>2, SubmitsKeeps
<1>10. CASE FollowTrend
  BY <1>9, <1>10, FollowTrendDoes
<1>11. ASSUME NEW side \in Sides, NEW size \in NoiseSizes, MakeNoise(side, size)
       PROVE  TypeOK' /\ Placed'
  BY <1>9, <1>11, MakeNoiseDoes
<1>12. CASE UNCHANGED vars
  <2>1. TypeOK'
    BY <1>12, NextTypes DEF TypeOK, setup, vars
  <2>2. queues' = queues /\ incoming' = incoming
    BY <1>12 DEF vars
  <2>3. Placed'
    BY <2>2, SameKeepsApart DEF Placed
  <2> QED
    BY <2>1, <2>3
<1> QED
  BY <1>1, <1>2, <1>3, <1>4, <1>5, <1>6, <1>8, <1>10, <1>11, <1>12 DEF Next

\* Every variable has its type in every reachable state, whatever the agents and
\* the drivers: the prices the book announces are prices or none, every order at
\* rest has something left, and nothing counts below zero.
THEOREM TypeCorrect == Spec => []TypeOK
<1>1. Init => TypeOK /\ Placed
  BY InitTypes, InitPlaced
<1>2. (TypeOK /\ Placed) /\ [Next]_vars => (TypeOK /\ Placed)'
  BY StepTypes
<1> QED
  BY <1>1, <1>2, PTL DEF Spec

-----------------------------------------------------------------------------
(* The quotes of the makers *)

\* The facts about a next state, in terms of its variables.
OwnsNext(side, levels) ==
    \A id \in OrderIds, price \in Prices :
        Holds(queues'[side][price], id) /\ owner'[id] = turn' => price \in levels

LEMMA NextRemembered ==
    ASSUME roster' = roster,
           \A id \in OrderIds, side \in Sides, price \in Prices :
               Holds(queues'[side][price], id) /\ owner'[id] \in Makers
                  => id = IF side = "Buy" THEN agents'[owner'[id]].bid
                                          ELSE agents'[owner'[id]].ask
    PROVE  Remembered'
BY DEF Remembered, Holds, QuoteId, Makers, Agents, OrderIds, Sides, Prices

LEMMA NextQuoting ==
    ASSUME roster' = roster, turn' \in Makers =>
        /\ stage' \in {"cancel ask", "bid"} => OwnsNext("Buy", {})
        /\ stage' \in {"bid", "ask"} => OwnsNext("Sell", {})
        /\ stage' \in {"ask", "done"} => OwnsNext("Buy", {quote'["Buy"]})
        /\ stage' # "turn" => quote'["Buy"] < quote'["Sell"]
        /\ incoming' # Book!Nobody =>
              /\ incoming'.id = IF incoming'.side = "Buy" THEN agents'[turn'].bid
                                                          ELSE agents'[turn'].ask
              /\ incoming'.limit = quote'[incoming'.side] /\ incoming'.limit \in Prices
              /\ stage' = IF incoming'.side = "Buy" THEN "ask" ELSE "done"
    PROVE  Quoting'
BY DEF Quoting, OwnsOnlyAt, OwnsNext, Holds, QuoteId, Makers, Agents, OrderIds, Prices,
       Book!Nobody

\* Fewer orders, of the same agents.
LEMMA FewerOwned ==
    ASSUME NEW side \in Sides, NEW levels, OwnsOnlyAt(side, levels),
           Fewer(queues, queues'), owner' = owner, turn' = turn
    PROVE  OwnsNext(side, levels)
BY DEF OwnsOnlyAt, OwnsNext, Fewer

LEMMA FewerRemembered ==
    ASSUME TypeOK, Remembered, Fewer(queues, queues'), owner' = owner, roster' = roster,
           \A a \in Agents : agents'[a].bid = agents[a].bid /\ agents'[a].ask = agents[a].ask
    PROVE  Remembered'
<1> SUFFICES ASSUME NEW id \in OrderIds, NEW side \in Sides, NEW price \in Prices,
                    Holds(queues'[side][price], id), owner'[id] \in Makers
             PROVE  id = IF side = "Buy" THEN agents'[owner'[id]].bid
                                         ELSE agents'[owner'[id]].ask
  BY NextRemembered
<1>1. Holds(queues[side][price], id) /\ owner[id] \in Makers /\ owner[id] \in Agents
  BY DEF Fewer, Makers
<1>2. id = QuoteId(owner[id], side)
  BY <1>1 DEF Remembered
<1> QED
  BY <1>1, <1>2 DEF QuoteId

\* The invariants with the owner of the order that is being added.
Owners == Remembered /\ Quoting /\ Owned

LEMMA InitOwners == Init => Owners
BY DEF Init, Book!Init, Owners, Remembered, Quoting, Owned, Holds

\* The next agent's turn.
LEMMA NextTurnOwners ==
    ASSUME TypeOK, Owners, NextTurn
    PROVE  Owners'
<1>1. /\ UNCHANGED <<bookVars, agents, setup, stats, heard, inventory>>
      /\ stage' = "turn" /\ Idle
  BY DEF NextTurn
<1>2. queues' = queues /\ incoming' = Book!Nobody /\ owner' = owner /\ roster' = roster
      /\ agents' = agents
  BY <1>1 DEF bookVars, setup, Idle
<1>3. Fewer(queues, queues')
  BY <1>2 DEF Fewer
<1>4. Remembered'
  BY <1>2, <1>3, FewerRemembered DEF Owners
<1>5. Quoting'
  BY <1>1, <1>2, NextQuoting
<1>6. Owned'
  BY <1>2, Rigid DEF Owned
<1> QED
  BY <1>4, <1>5, <1>6 DEF Owners

\* A trade of the order that is being added.
LEMMA TradeOwners ==
    ASSUME TypeOK, Owners, Fewer(queues, queues'), NEW traded, Trades(traded)
    PROVE  Owners'
<1>1. /\ incoming # Book!Nobody
      /\ incoming'.id = incoming.id /\ incoming'.side = incoming.side
      /\ incoming'.limit = incoming.limit
      /\ roster' = roster /\ agents' = agents /\ turn' = turn /\ stage' = stage
      /\ quote' = quote /\ owner' = owner
  BY ArrivalIs DEF Trades, setup
<1>2. Remembered'
  BY <1>1, FewerRemembered DEF Owners
<1>3. Quoting'
  <2> SUFFICES ASSUME turn \in Makers PROVE Quoting'
    BY <1>1, NextQuoting
  <2>1. /\ stage \in {"cancel ask", "bid"} => OwnsOnlyAt("Buy", {})
        /\ stage \in {"bid", "ask"} => OwnsOnlyAt("Sell", {})
        /\ stage \in {"ask", "done"} => OwnsOnlyAt("Buy", {quote["Buy"]})
        /\ stage # "turn" => quote["Buy"] < quote["Sell"]
        /\ incoming.id = QuoteId(turn, incoming.side)
        /\ incoming.limit = quote[incoming.side] /\ incoming.limit \in Prices
        /\ stage = IF incoming.side = "Buy" THEN "ask" ELSE "done"
    BY <1>1 DEF Owners, Quoting
  <2>2. /\ stage \in {"cancel ask", "bid"} => OwnsNext("Buy", {})
        /\ stage \in {"bid", "ask"} => OwnsNext("Sell", {})
        /\ stage \in {"ask", "done"} => OwnsNext("Buy", {quote["Buy"]})
    BY <1>1, <2>1, FewerOwned DEF Sides
  <2> QED
    BY <1>1, <2>1, <2>2, NextQuoting DEF QuoteId
<1>4. Owned'
  BY <1>1 DEF Owners, Owned
<1> QED
  BY <1>2, <1>3, <1>4 DEF Owners

\* The order that was being added comes to rest where its owner remembers it.
LEMMA ReturnOwners ==
    ASSUME TypeOK, Owners, Returns
    PROVE  Owners'
<1> DEFINE new == incoming.id
<1>1. /\ incoming # Book!Nobody /\ incoming' = Book!Nobody /\ Grows(incoming)
      /\ new \in OrderIds /\ incoming.side \in Sides /\ owner[new] = turn /\ turn \in Agents
      /\ roster' = roster /\ turn' = turn /\ stage' = stage
      /\ quote' = quote /\ owner' = owner
      /\ \A a \in Agents : agents'[a].bid = agents[a].bid /\ agents'[a].ask = agents[a].ask
  BY ArrivalIs DEF Returns, setup, Owners, Owned, TypeOK, Reports
<1>2. turn \in Makers =>
         /\ stage \in {"cancel ask", "bid"} => OwnsOnlyAt("Buy", {})
         /\ stage \in {"bid", "ask"} => OwnsOnlyAt("Sell", {})
         /\ stage \in {"ask", "done"} => OwnsOnlyAt("Buy", {quote["Buy"]})
         /\ stage # "turn" => quote["Buy"] < quote["Sell"]
         /\ new = QuoteId(turn, incoming.side)
         /\ incoming.limit = quote[incoming.side]
         /\ stage = IF incoming.side = "Buy" THEN "ask" ELSE "done"
  BY <1>1 DEF Owners, Quoting
<1> HIDE DEF new
<1>3. Remembered'
  <2> SUFFICES ASSUME NEW id \in OrderIds, NEW side \in Sides, NEW price \in Prices,
                      Holds(queues'[side][price], id), owner'[id] \in Makers
               PROVE  id = IF side = "Buy" THEN agents'[owner'[id]].bid
                                           ELSE agents'[owner'[id]].ask
    BY <1>1, NextRemembered
  <2>1. owner[id] \in Makers /\ owner[id] \in Agents
    BY <1>1 DEF Makers
  <2>2. Holds(queues[side][price], id) \/ (id = new /\ side = incoming.side)
    BY <1>1 DEF Grows, new
  <2>3. id = QuoteId(owner[id], side)
    BY <1>1, <1>2, <2>1, <2>2 DEF Owners, Remembered
  <2> QED
    BY <1>1, <2>1, <2>3 DEF QuoteId
<1>4. Quoting'
  <2> SUFFICES ASSUME turn \in Makers PROVE Quoting'
    BY <1>1, NextQuoting
  <2>1. ASSUME NEW side \in Sides, NEW levels, OwnsOnlyAt(side, levels),
               side = incoming.side => incoming.limit \in levels
        PROVE  OwnsNext(side, levels)
    <3> SUFFICES ASSUME NEW id \in OrderIds, NEW price \in Prices,
                        Holds(queues'[side][price], id), owner[id] = turn
                 PROVE  price \in levels
      BY <1>1 DEF OwnsNext
    <3>1. Holds(queues[side][price], id) \/ (side = incoming.side /\ price = incoming.limit)
      BY <1>1 DEF Grows
    <3> QED
      BY <2>1, <3>1 DEF OwnsOnlyAt
  <2>2. "Buy" \in Sides /\ "Sell" \in Sides
    BY DEF Sides
  <2>3. stage \in {"bid", "ask"} => OwnsNext("Sell", {})
    BY <1>1, <1>2, <2>1, <2>2
  <2>4. stage \in {"ask", "done"} => OwnsNext("Buy", {quote["Buy"]})
    BY <1>1, <1>2, <2>1, <2>2
  <2>5. stage \notin {"cancel ask", "bid"}
    BY <1>2
  <2> QED
    BY <1>1, <1>2, <2>3, <2>4, <2>5, NextQuoting
<1>5. Owned'
  BY <1>1, Rigid DEF Owned
<1> QED
  BY <1>3, <1>4, <1>5 DEF Owners

\* New prices for the quotes of a maker.
LEMMA StartQuotingOwners ==
    ASSUME TypeOK, Owners, StartQuoting
    PROVE  Owners'
<1>1. /\ UNCHANGED <<bookVars, agents, setup, tick, turn, stats, heard, inventory>>
      /\ stage' = "cancel bid" /\ Idle /\ quote'["Buy"] < quote'["Sell"]
  BY QuotesAreInts DEF StartQuoting, Runs
<1>2. queues' = queues /\ incoming' = Book!Nobody /\ owner' = owner /\ roster' = roster
      /\ agents' = agents
  BY <1>1 DEF bookVars, setup, Idle
<1>3. Fewer(queues, queues')
  BY <1>2 DEF Fewer
<1>4. Remembered'
  BY <1>2, <1>3, FewerRemembered DEF Owners
<1>5. Quoting'
  BY <1>1, <1>2, NextQuoting
<1>6. Owned'
  BY <1>2, Rigid DEF Owned
<1> QED
  BY <1>4, <1>5, <1>6 DEF Owners

\* A maker that withdraws what it remembers for a side has nothing left there.
LEMMA CancelOwners ==
    ASSUME TypeOK, Owners, NEW side \in Sides, NEW at, NEW next,
           Cancels(at, QuoteId(turn, side), next),
           \/ side = "Buy" /\ at = "cancel bid" /\ next = "cancel ask"
           \/ side = "Sell" /\ at = "cancel ask" /\ next = "bid"
    PROVE  Owners'
<1>1. /\ turn \in Makers /\ stage = at /\ stage' = next /\ Fewer(queues, queues')
      /\ incoming' = Book!Nobody /\ owner' = owner /\ roster' = roster
      /\ turn' = turn /\ quote' = quote
      /\ \A a \in Agents : agents'[a].bid = agents[a].bid /\ agents'[a].ask = agents[a].ask
  BY DEF Cancels, setup, Idle, Keeps
<1>2. Remembered'
  BY <1>1, FewerRemembered DEF Owners
<1>3. OwnsNext(side, {})
  <2> SUFFICES ASSUME NEW id \in OrderIds, NEW price \in Prices,
                      Holds(queues'[side][price], id), owner[id] = turn
               PROVE  FALSE
    BY <1>1 DEF OwnsNext
  <2>1. Holds(queues[side][price], id)
    BY <1>1 DEF Fewer
  <2>2. id = QuoteId(turn, side)
    BY <1>1, <2>1 DEF Owners, Remembered
  <2> QED
    BY <2>2 DEF Cancels
<1>4. Quoting'
  <2>1. quote["Buy"] < quote["Sell"]
    BY <1>1 DEF Owners, Quoting
  <2>2. CASE side = "Buy"
    BY <1>1, <1>3, <2>1, <2>2, NextQuoting
  <2>3. CASE side = "Sell" /\ at = "cancel ask" /\ next = "bid"
    <3>1. OwnsOnlyAt("Buy", {}) /\ "Buy" \in Sides
      BY <1>1, <2>3 DEF Owners, Quoting, Sides
    <3>2. OwnsNext("Buy", {})
      BY <1>1, <3>1, FewerOwned
    <3> QED
      BY <1>1, <1>3, <2>1, <2>3, <3>2, NextQuoting
  <2> QED
    BY <2>2, <2>3
<1>5. Owned'
  BY <1>1, Rigid DEF Owned
<1> QED
  BY <1>2, <1>4, <1>5 DEF Owners

\* A submission leaves the orders at rest to their owners.
LEMMA SubmitsOwners ==
    ASSUME TypeOK, NEW order, Submits(order),
           NEW id \in OrderIds, NEW side \in Sides, NEW price \in Prices,
           Holds(queues'[side][price], id)
    PROVE  Holds(queues[side][price], id) /\ owner'[id] = owner[id]
<1>1. Holds(queues[side][price], id)
  BY DEF Submits
<1>2. id \in Book!RestingIds
  BY <1>1, RestingIs
<1>3. owner'[id] = owner[id]
  BY <1>2 DEF Submits, TypeOK
<1> QED
  BY <1>1, <1>3

\* The order that is then being added is the one submitted, and its agent's.
LEMMA SubmitsIncoming ==
    ASSUME TypeOK, Idle, NEW order, Submits(order), turn' = turn
    PROVE  /\ incoming' # Book!Nobody => incoming' = order
           /\ Owned'
<1>1. incoming' # Book!Nobody => incoming' = order /\ owner'[order.id] = turn
  <2>1. order \in Book!Arrival => order.id \in OrderIds
    BY ArrivalIs
  <2> QED
    BY <2>1 DEF Submits, Idle, TypeOK
<1>2. incoming' # Book!Nobody => owner'[incoming'.id] = turn'
  BY <1>1
<1> QED
  BY <1>1, <1>2, Rigid DEF Owned

\* Only the agent whose turn it is remembers another order, and only for a side
\* on which it has none at rest.
LEMMA SubmitsRemembered ==
    ASSUME TypeOK, Remembered, NEW order, Submits(order), roster' = roster,
           NEW bid, NEW ask, Takes(bid, ask),
           turn \in Makers => /\ bid # Me.bid => OwnsOnlyAt("Buy", {})
                              /\ ask # Me.ask => OwnsOnlyAt("Sell", {})
    PROVE  Remembered'
<1> SUFFICES ASSUME NEW id \in OrderIds, NEW side \in Sides, NEW price \in Prices,
                    Holds(queues'[side][price], id), owner'[id] \in Makers
             PROVE  id = IF side = "Buy" THEN agents'[owner'[id]].bid
                                         ELSE agents'[owner'[id]].ask
  BY NextRemembered
<1>1. Holds(queues[side][price], id) /\ owner'[id] = owner[id]
  BY SubmitsOwners
<1>2. owner[id] \in Makers /\ owner[id] \in Agents /\ id = QuoteId(owner[id], side)
  BY <1>1 DEF Remembered, Makers
<1>3. CASE owner[id] # turn
  BY <1>1, <1>2, <1>3 DEF Takes, QuoteId
<1>4. CASE owner[id] = turn
  <2>1. /\ side = "Buy" => bid = Me.bid
        /\ side # "Buy" => ask = Me.ask
    BY <1>1, <1>2, <1>4 DEF OwnsOnlyAt, Sides
  <2> QED
    BY <1>1, <1>2, <1>4, <2>1 DEF Takes, QuoteId, Me
<1> QED
  BY <1>3, <1>4

\* A maker's new quote takes the place of one that is gone.
LEMMA QuoteOwners ==
    ASSUME TypeOK, Owners, NEW side \in Sides, NEW at, NEW next, QuoteSide(side, at, next),
           \/ side = "Buy" /\ at = "bid" /\ next = "ask"
           \/ side = "Sell" /\ at = "ask" /\ next = "done"
    PROVE  Owners'
<1>1. /\ turn \in Makers /\ turn \in Agents /\ stage = at /\ Idle /\ stage' = next
      /\ Quotes(side) /\ roster' = roster /\ turn' = turn /\ quote' = quote
  BY QuoteSideDoes DEF setup, TypeOK
<1>2. /\ at = "bid" => OwnsOnlyAt("Buy", {})
      /\ OwnsOnlyAt("Sell", {})
      /\ at = "ask" => OwnsOnlyAt("Buy", {quote["Buy"]})
      /\ quote["Buy"] < quote["Sell"]
  BY <1>1 DEF Owners, Quoting
<1>3. OwnsOnlyAt("Buy", {quote["Buy"]})
  BY <1>2 DEF OwnsOnlyAt
<1>4. CASE ~WithinLimit(side)
  <2>1. /\ queues' = queues /\ incoming' = Book!Nobody /\ owner' = owner /\ agents' = agents
    BY <1>1, <1>4 DEF Quotes, bookVars, Idle
  <2>2. Fewer(queues, queues')
    BY <2>1 DEF Fewer
  <2>3. Remembered'
    BY <1>1, <2>1, <2>2, FewerRemembered DEF Owners
  <2>4. OwnsNext("Buy", {quote["Buy"]}) /\ OwnsNext("Sell", {})
    BY <1>1, <1>2, <1>3, <2>1, <2>2, FewerOwned DEF Sides
  <2>5. Quoting'
    BY <1>1, <1>2, <2>1, <2>4, NextQuoting
  <2>6. Owned'
    BY <2>1, Rigid DEF Owned
  <2> QED
    BY <2>3, <2>5, <2>6 DEF Owners
<1>5. CASE WithinLimit(side)
  <2> DEFINE order == LimitOrder(Me.next, side, quote[side], BaseSize)
             bid == IF side = "Buy" THEN Me.next ELSE Me.bid
             ask == IF side = "Buy" THEN Me.ask ELSE Me.next
  <2>1. Takes(bid, ask) /\ Submits(order)
    BY <1>1, <1>5 DEF Quotes
  <2>2. /\ order.id = Me.next /\ order.side = side /\ order.limit = quote[side]
        /\ order.patience = "rests"
    BY DEF LimitOrder
  <2>3. /\ bid # Me.bid => OwnsOnlyAt("Buy", {})
        /\ ask # Me.ask => OwnsOnlyAt("Sell", {})
    BY <1>2
  <2>4. Me.next = IF side = "Buy" THEN bid ELSE ask
    OBVIOUS
  <2> HIDE DEF order, bid, ask
  <2>5. Remembered'
    BY <1>1, <2>1, <2>3, SubmitsRemembered DEF Owners
  <2>6. (incoming' # Book!Nobody => incoming' = order) /\ Owned'
    BY <1>1, <2>1, SubmitsIncoming
  <2>7. ASSUME NEW s \in Sides, NEW levels, OwnsOnlyAt(s, levels)
        PROVE  OwnsNext(s, levels)
    BY <1>1, <2>1, <2>7, SubmitsOwners DEF OwnsOnlyAt, OwnsNext
  <2>8. OwnsNext("Buy", {quote["Buy"]}) /\ OwnsNext("Sell", {})
    BY <1>2, <1>3, <2>7 DEF Sides
  <2>9. incoming' # Book!Nobody =>
           /\ incoming'.id = IF incoming'.side = "Buy" THEN agents'[turn'].bid
                                                      ELSE agents'[turn'].ask
           /\ incoming'.limit = quote'[incoming'.side] /\ incoming'.limit \in Prices
           /\ stage' = IF incoming'.side = "Buy" THEN "ask" ELSE "done"
    BY <1>1, <2>1, <2>2, <2>4, <2>6 DEF Takes, Submits, Restable, Idle
  <2>10. Quoting'
    BY <1>1, <1>2, <2>8, <2>9, NextQuoting
  <2> QED
    BY <2>5, <2>6, <2>10 DEF Owners
<1> QED
  BY <1>4, <1>5

\* The orders of the other agents are no quotes.
LEMMA SendsOwners ==
    ASSUME TypeOK, Owners, Sends
    PROVE  Owners'
<1>1. /\ turn \notin Makers /\ Idle /\ Takes(Me.bid, Me.ask)
      /\ roster' = roster /\ turn' = turn
  BY DEF Sends, setup
<1>2. PICK order : Submits(order)
  BY DEF Sends
<1>3. Remembered'
  BY <1>1, <1>2, SubmitsRemembered DEF Owners
<1>4. Quoting'
  BY <1>1, NextQuoting
<1>5. Owned'
  BY <1>1, <1>2, SubmitsIncoming
<1> QED
  BY <1>3, <1>4, <1>5 DEF Owners

\* Every step keeps the owners.
LEMMA StepOwners ==
    ASSUME TypeOK, Placed, Owners, [Next]_vars
    PROVE  Owners'
<1>1. CASE NextTurn
  BY <1>1, NextTurnOwners
<1>2. CASE Trade
  BY <1>2, TradeDoes, TradeOwners
<1>3. CASE Return
  BY <1>3, ReturnDoes, ReturnOwners
<1>4. CASE StartQuoting
  BY <1>4, StartQuotingOwners
<1>5. CASE CancelBid
  <2>1. Cancels("cancel bid", Me.bid, "cancel ask")
    BY <1>5, CancelQuoteDoes DEF CancelBid, Stages
  <2>2. Me.bid = QuoteId(turn, "Buy") /\ "Buy" \in Sides
    BY DEF Me, QuoteId, Sides
  <2> QED
    BY <2>1, <2>2, CancelOwners
<1>6. CASE CancelAsk
  <2>1. Cancels("cancel ask", Me.ask, "bid")
    BY <1>6, CancelQuoteDoes DEF CancelAsk, Stages
  <2>2. Me.ask = QuoteId(turn, "Sell") /\ "Sell" \in Sides
    BY DEF Me, QuoteId, Sides
  <2> QED
    BY <2>1, <2>2, CancelOwners
<1>7. CASE QuoteBid
  BY <1>7, QuoteOwners DEF QuoteBid, Sides
<1>8. CASE QuoteAsk
  BY <1>8, QuoteOwners DEF QuoteAsk, Sides
<1>9. CASE FollowTrend
  BY <1>9, FollowTrendDoes, SendsOwners
<1>10. ASSUME NEW side \in Sides, NEW size \in NoiseSizes, MakeNoise(side, size)
       PROVE  Owners'
  BY <1>10, MakeNoiseDoes, SendsOwners
<1>11. CASE UNCHANGED vars
  <2>1. /\ queues' = queues /\ incoming' = incoming /\ owner' = owner /\ agents' = agents
        /\ roster' = roster /\ turn' = turn /\ stage' = stage /\ quote' = quote
    BY <1>11 DEF vars, setup
  <2>2. Fewer(queues, queues')
    BY <2>1 DEF Fewer
  <2>3. Remembered'
    BY <2>1, <2>2, FewerRemembered DEF Owners
  <2>4. ASSUME NEW s \in Sides, NEW levels, OwnsOnlyAt(s, levels)
        PROVE  OwnsNext(s, levels)
    BY <2>1, <2>2, <2>4, FewerOwned
  <2>5. turn \in Makers => /\ stage \in {"cancel ask", "bid"} => OwnsNext("Buy", {})
                           /\ stage \in {"bid", "ask"} => OwnsNext("Sell", {})
                           /\ stage \in {"ask", "done"} => OwnsNext("Buy", {quote["Buy"]})
    BY <2>4 DEF Owners, Quoting, Sides
  <2>6. Quoting'
    BY <2>1, <2>5, NextQuoting DEF Owners, Quoting, QuoteId
  <2>7. Owned'
    BY <2>1, Rigid DEF Owners, Owned
  <2> QED
    BY <2>3, <2>6, <2>7 DEF Owners
<1> QED
  BY <1>1, <1>2, <1>3, <1>4, <1>5, <1>6, <1>7, <1>8, <1>9, <1>10, <1>11 DEF Next

LEMMA OwnersAlways == Spec => [](TypeOK /\ Placed /\ Owners)
<1>1. Init => TypeOK /\ Placed /\ Owners
  BY InitTypes, InitPlaced, InitOwners
<1>2. (TypeOK /\ Placed /\ Owners) /\ [Next]_vars => (TypeOK /\ Placed /\ Owners)'
  BY StepTypes, StepOwners
<1> QED
  BY <1>1, <1>2, PTL DEF Spec

\* Whatever prices the makers quote, however often their orders are refused
\* because another agent uses the identifier and whoever's order their
\* cancellations hit, a maker never has an order at rest that it does not
\* remember, and so never more than one on a side: update_quotes cancels what it
\* remembers before it quotes again.
THEOREM QuotesRememberedAlways == Spec => []QuotesRemembered
<1>1. TypeOK /\ Remembered => QuotesRemembered
  <2> SUFFICES ASSUME TypeOK, Remembered,
                      NEW side \in Sides, NEW price \in Prices,
                      NEW i \in DOMAIN queues[side][price],
                      owner[queues[side][price][i].id] \in Makers
               PROVE  queues[side][price][i].id =
                         IF side = "Buy" THEN agents[owner[queues[side][price][i].id]].bid
                         ELSE agents[owner[queues[side][price][i].id]].ask
    BY DEF QuotesRemembered
  <2> DEFINE id == queues[side][price][i].id
  <2>1. Holds(queues[side][price], id)
    BY DEF Holds
  <2>2. id \in OrderIds
    <3>1. queues[side][price] \in Seq(Book!Entry)
      BY DEF TypeOK, Queues
    <3>2. queues[side][price][i] \in Book!Entry
      BY <3>1, QueueIs
    <3> QED
      BY <3>2, EntryIs
  <2> HIDE DEF id
  <2>3. id = QuoteId(owner[id], side)
    BY <2>1, <2>2 DEF Remembered, id
  <2> QED
    BY <2>3 DEF QuoteId, id
<1> QED
  BY <1>1, OwnersAlways, PTL DEF Owners

\* main() hears of nothing but trades.
LEMMA OnlyTradesAreHeard ==
    ASSUME TypeOK, Placed, [Next]_vars, heard' # heard
    PROVE  Trade
<1>1. Return => heard' = heard
  BY DEF Return
<1>2. NextTurn \/ StartQuoting => heard' = heard
  BY DEF NextTurn, StartQuoting
<1>3. CancelBid \/ CancelAsk \/ QuoteBid \/ QuoteAsk => heard' = heard
  BY DEF CancelBid, CancelAsk, CancelQuote, QuoteBid, QuoteAsk, QuoteSide
<1>4. FollowTrend => heard' = heard
  BY FollowTrendDoes DEF Sends
<1>5. \A side \in Sides, size \in NoiseSizes : MakeNoise(side, size) => heard' = heard
  BY MakeNoiseDoes DEF Sends
<1>6. UNCHANGED vars => heard' = heard
  BY DEF vars
<1> QED
  BY <1>1, <1>2, <1>3, <1>4, <1>5, <1>6 DEF Next

\* The head of the best queue of the other side, which the incoming order trades
\* with, is at a price that order accepts.
LEMMA BestIsHeld ==
    ASSUME TypeOK, Trade
    PROVE  LET maker == Book!Other(incoming.side)
               top == CHOOSE price \in Prices : Book!IsBest(incoming, price)
               head == Head(queues[maker][top])
           IN  /\ top \in Prices /\ Book!Accepts(incoming, top)
               /\ head.id \in OrderIds /\ Holds(queues[maker][top], head.id)
<1> DEFINE maker == Book!Other(incoming.side)
           top == CHOOSE price \in Prices : Book!IsBest(incoming, price)
           queue == queues[maker][top]
           head == Head(queue)
<1>1. incoming \in Book!Arrival
  BY DEF TypeOK, Trade, Book!Trade
<1>2. maker \in Sides
  BY <1>1, ArrivalIs, OtherIs DEF Sides
<1>3. \E price \in Prices : Book!IsBest(incoming, price)
  BY DEF Trade, Book!Trade
<1>4. top \in Prices /\ Book!IsBest(incoming, top)
  BY <1>3
<1> HIDE DEF top
<1>5. queue # <<>> /\ Book!Accepts(incoming, top)
  BY <1>4 DEF Book!IsBest, Book!Crossed, Book!Quoted
<1> HIDE DEF maker
<1>6. queue \in Seq(Book!Entry)
  BY <1>2, <1>4 DEF TypeOK, Queues
<1> HIDE DEF queue
<1>7. head \in Book!Entry /\ head = queue[1] /\ 1 \in DOMAIN queue
  BY <1>5, <1>6, HeadTailProperties, EmptySeq, QueueIs
<1>8. Holds(queue, head.id) /\ head.id \in OrderIds
  BY <1>7, EntryIs DEF Holds
<1> QED
  BY <1>4, <1>5, <1>8 DEF maker, top, queue

\* No market maker ever trades with itself, although match_against_level does not
\* ask who owns the orders: its old quotes are gone before it sends new ones, and
\* the new ask is above the new bid.
THEOREM NoWashTradesAlways == Spec => NoWashTrades
<1>1. ASSUME TypeOK, Placed, Owners, [Next]_vars, heard' # heard,
             owner[incoming.id] \in Makers, Counterparty = owner[incoming.id]
      PROVE  FALSE
  <2> DEFINE maker == Book!Other(incoming.side)
             top == CHOOSE price \in Prices : Book!IsBest(incoming, price)
             id == Head(queues[maker][top]).id
  <2>1. Trade
    BY <1>1, OnlyTradesAreHeard
  <2>2. incoming # Book!Nobody /\ incoming \in Book!Arrival
    BY <1>1, <2>1 DEF Trade, Book!Trade, TypeOK
  <2>3. incoming.side \in Sides
    BY <2>2, ArrivalIs
  <2>4. /\ top \in Prices /\ Book!Accepts(incoming, top)
        /\ id \in OrderIds /\ Holds(queues[maker][top], id)
    BY <1>1, <2>1, BestIsHeld
  <2>5. owner[id] = turn /\ turn \in Makers
    BY <1>1, <2>2 DEF Counterparty, Owners, Owned
  <2> HIDE DEF top, id
  <2>6. /\ stage \in {"bid", "ask"} => OwnsOnlyAt("Sell", {})
        /\ stage \in {"ask", "done"} => OwnsOnlyAt("Buy", {quote["Buy"]})
        /\ stage # "turn" => quote["Buy"] < quote["Sell"]
        /\ incoming.limit = quote[incoming.side] /\ incoming.limit \in Prices
        /\ stage = IF incoming.side = "Buy" THEN "ask" ELSE "done"
    BY <1>1, <2>2, <2>5 DEF Owners, Quoting
  <2>7. CASE incoming.side = "Buy"
    <3>1. maker = "Sell" /\ OwnsOnlyAt("Sell", {})
      BY <2>6, <2>7, OtherIs
    <3> QED
      BY <2>4, <2>5, <3>1 DEF OwnsOnlyAt
  <2>8. CASE incoming.side = "Sell"
    <3>1. maker = "Buy" /\ OwnsOnlyAt("Buy", {quote["Buy"]})
      BY <2>6, <2>8, OtherIs
    <3>2. top = quote["Buy"]
      BY <2>4, <2>5, <3>1 DEF OwnsOnlyAt
    <3>3. top < incoming.limit
      BY <2>6, <2>8, <3>2
    <3>4. incoming.limit # InvalidPrice
      BY <2>6, SimulationConstants DEF Prices, InvalidPrice
    <3>5. incoming.limit <= top
      BY <2>4, <2>8, <3>4 DEF Book!Accepts
    <3>6. top \in Int /\ incoming.limit \in Int
      BY <2>4, <2>6 DEF Prices
    <3> QED
      BY <3>3, <3>5, <3>6
  <2> QED
    BY <2>3, <2>7, <2>8 DEF Sides
<1>2. TypeOK /\ Placed /\ Owners /\ [Next]_vars =>
         [heard' # heard /\ owner[incoming.id] \in Makers
             => Counterparty # owner[incoming.id]]_vars
  BY <1>1
<1> QED
  BY <1>2, OwnersAlways, PTL DEF Spec, NoWashTrades

-----------------------------------------------------------------------------
(* The positions the makers know of *)

Limited == PositionLimited /\ Exposed

LEMMA NextLimited ==
    ASSUME roster' = roster,
           \A maker \in Makers :
              /\ -(MaxPosition + BaseSize) < agents'[maker].position
              /\ agents'[maker].position < MaxPosition + BaseSize,
           incoming' # Book!Nobody /\ turn' \in Makers =>
              /\ Signed(incoming'.side, agents'[turn'].position) < MaxPosition
              /\ filled' + incoming'.quantity <= BaseSize
    PROVE  Limited'
<1>1. PositionLimited'
  BY DEF PositionLimited, Makers, Agents
<1>2. Exposed'
  BY DEF Exposed, Makers, Agents, Signed, Book!Nobody
<1> QED
  BY <1>1, <1>2 DEF Limited

\* The positions stay, and no other order is being added.
LEMMA PositionsStay ==
    ASSUME TypeOK, Limited, roster' = roster,
           \A a \in Agents : agents'[a].position = agents[a].position,
           incoming' = Book!Nobody
    PROVE  Limited'
BY NextLimited DEF Limited, PositionLimited, Makers

LEMMA InitLimited == Init => Limited
<1> SUFFICES ASSUME Init PROVE Limited
  OBVIOUS
<1>1. MaxPosition \in Nat /\ BaseSize \in Nat \ {0}
  BY SimulationConstants
<1>2. -(MaxPosition + BaseSize) < 0 /\ 0 < MaxPosition + BaseSize
  BY <1>1
<1>3. \A a \in Agents : agents[a].position = 0
  BY DEF Init, NewAgent
<1>4. PositionLimited
  BY <1>2, <1>3 DEF PositionLimited, Makers
<1>5. Exposed
  BY DEF Init, Book!Init, Exposed
<1> QED
  BY <1>4, <1>5 DEF Limited

LEMMA TradeLimited ==
    ASSUME TypeOK, Limited, NEW traded, Trades(traded)
    PROVE  Limited'
<1>1. /\ traded \in Nat /\ incoming # Book!Nobody /\ incoming'.side = incoming.side
      /\ incoming.quantity \in Nat /\ incoming'.quantity = incoming.quantity - traded
      /\ filled \in Nat /\ filled' = filled + traded
      /\ agents' = agents /\ roster' = roster /\ turn' = turn
  BY ArrivalIs DEF Trades, setup, TypeOK
<1>2. filled' + incoming'.quantity = filled + incoming.quantity
  BY <1>1
<1> QED
  BY <1>1, <1>2, NextLimited DEF Limited, PositionLimited, Exposed

\* Within the limit, and by no more than one order.
LEMMA OneOrderMore ==
    ASSUME NEW side \in Sides, NEW p \in Int, NEW filling \in Nat, NEW left \in Nat,
           -(MaxPosition + BaseSize) < p, p < MaxPosition + BaseSize,
           Signed(side, p) < MaxPosition, filling + left <= BaseSize
    PROVE  LET q == p + Signed(side, filling)
           IN  -(MaxPosition + BaseSize) < q /\ q < MaxPosition + BaseSize
<1>1. MaxPosition \in Nat /\ BaseSize \in Nat \ {0}
  BY SimulationConstants
<1>2. CASE side = "Buy"
  BY <1>1, <1>2 DEF Signed
<1>3. CASE side = "Sell"
  BY <1>1, <1>3 DEF Signed
<1> QED
  BY <1>2, <1>3 DEF Sides

LEMMA ReturnLimited ==
    ASSUME TypeOK, Limited, Returns
    PROVE  Limited'
<1>1. /\ incoming # Book!Nobody /\ incoming.side \in Sides /\ incoming.quantity \in Nat
      /\ filled \in Nat /\ incoming' = Book!Nobody /\ roster' = roster
      /\ \A a \in Agents : a # turn => agents'[a].position = agents[a].position
      /\ \/ agents'[turn].position = agents[turn].position
         \/ agents'[turn].position = agents[turn].position + Signed(incoming.side, filled)
  BY ArrivalIs DEF Returns, Reports, TypeOK, setup
<1>2. ASSUME NEW maker \in Makers
      PROVE  /\ -(MaxPosition + BaseSize) < agents'[maker].position
             /\ agents'[maker].position < MaxPosition + BaseSize
  <2>1. /\ -(MaxPosition + BaseSize) < agents[maker].position
        /\ agents[maker].position < MaxPosition + BaseSize
        /\ maker \in Agents /\ agents[maker].position \in Int
    BY DEF Limited, PositionLimited, Makers, TypeOK, Agent
  <2>2. CASE agents'[maker].position = agents[maker].position
    BY <2>1, <2>2
  <2>3. CASE agents'[maker].position # agents[maker].position
    <3>1. /\ maker = turn
          /\ agents'[turn].position = agents[turn].position + Signed(incoming.side, filled)
      BY <1>1, <2>1, <2>3
    <3>2. /\ Signed(incoming.side, agents[turn].position) < MaxPosition
          /\ filled + incoming.quantity <= BaseSize
      BY <1>1, <3>1 DEF Limited, Exposed
    <3> QED
      BY <1>1, <2>1, <3>1, <3>2, OneOrderMore
  <2> QED
    BY <2>2, <2>3
<1> QED
  BY <1>1, <1>2, NextLimited

LEMMA QuoteLimited ==
    ASSUME TypeOK, Limited, NEW side \in Sides, NEW at, NEW next, QuoteSide(side, at, next)
    PROVE  Limited'
<1>1. /\ turn \in Makers /\ Idle /\ Quotes(side) /\ roster' = roster /\ turn' = turn
  BY QuoteSideDoes DEF setup
<1>2. CASE ~WithinLimit(side)
  <2>1. agents' = agents /\ incoming' = Book!Nobody
    BY <1>1, <1>2 DEF Quotes, bookVars, Idle
  <2> QED
    BY <1>1, <2>1, PositionsStay
<1>3. CASE WithinLimit(side)
  <2> DEFINE order == LimitOrder(Me.next, side, quote[side], BaseSize)
  <2>1. Submits(order) /\ \A a \in Agents : agents'[a].position = agents[a].position
    BY <1>1, <1>3 DEF Quotes, Takes, TypeOK
  <2>2. order.side = side /\ order.quantity = BaseSize /\ BaseSize \in Nat
    BY SimulationConstants DEF LimitOrder
  <2> HIDE DEF order
  <2>3. CASE incoming' = Book!Nobody
    BY <1>1, <2>1, <2>3, PositionsStay
  <2>4. CASE incoming' # Book!Nobody
    <3>1. incoming' = order /\ filled' = 0
      BY <1>1, <2>1, <2>4 DEF Submits, Idle
    <3>2. Signed(side, agents'[turn].position) < MaxPosition
      BY <1>1, <1>3, <2>1 DEF WithinLimit, Me, Makers
    <3>3. filled' + incoming'.quantity <= BaseSize
      BY <2>2, <3>1
    <3>4. \A maker \in Makers :
              /\ -(MaxPosition + BaseSize) < agents'[maker].position
              /\ agents'[maker].position < MaxPosition + BaseSize
      BY <2>1 DEF Limited, PositionLimited, Makers
    <3>5. Signed(incoming'.side, agents'[turn'].position) < MaxPosition
      BY <1>1, <2>2, <3>1, <3>2
    <3> QED
      BY <1>1, <3>3, <3>4, <3>5, NextLimited
  <2> QED
    BY <2>3, <2>4
<1> QED
  BY <1>2, <1>3

LEMMA SendsLimited ==
    ASSUME TypeOK, Limited, Sends
    PROVE  Limited'
<1>1. /\ turn \notin Makers /\ roster' = roster /\ turn' = turn
      /\ \A a \in Agents : agents'[a].position = agents[a].position
  BY DEF Sends, Takes, setup, TypeOK
<1>2. turn' \notin Makers
  BY <1>1
<1>3. \A maker \in Makers :
         /\ -(MaxPosition + BaseSize) < agents'[maker].position
         /\ agents'[maker].position < MaxPosition + BaseSize
  BY <1>1 DEF Limited, PositionLimited, Makers
<1> QED
  BY <1>1, <1>2, <1>3, NextLimited

LEMMA StepLimited ==
    ASSUME TypeOK, Placed, Limited, [Next]_vars
    PROVE  Limited'
<1>1. CASE NextTurn \/ StartQuoting
  <2>1. UNCHANGED <<bookVars, agents, setup>> /\ Idle
    BY <1>1 DEF NextTurn, StartQuoting, Runs
  <2>2. agents' = agents /\ roster' = roster /\ incoming' = Book!Nobody
    BY <2>1 DEF bookVars, setup, Idle
  <2> QED
    BY <2>2, PositionsStay
<1>2. CASE Trade
  BY <1>2, TradeDoes, TradeLimited
<1>3. CASE Return
  BY <1>3, ReturnDoes, ReturnLimited
<1>4. ASSUME NEW at, NEW id, NEW next \in Stages, CancelQuote(at, id, next)
      PROVE  Limited'
  <2>1. Cancels(at, id, next)
    BY <1>4, CancelQuoteDoes
  <2>2. /\ roster' = roster /\ incoming' = Book!Nobody
        /\ \A a \in Agents : agents'[a].position = agents[a].position
    BY <2>1 DEF Cancels, setup, Idle, Keeps
  <2> QED
    BY <2>2, PositionsStay
<1>5. CASE CancelBid \/ CancelAsk
  BY <1>4, <1>5 DEF CancelBid, CancelAsk, Stages
<1>6. CASE QuoteBid \/ QuoteAsk
  BY <1>6, QuoteLimited DEF QuoteBid, QuoteAsk, Sides
<1>7. CASE FollowTrend
  BY <1>7, FollowTrendDoes, SendsLimited
<1>8. ASSUME NEW side \in Sides, NEW size \in NoiseSizes, MakeNoise(side, size)
      PROVE  Limited'
  BY <1>8, MakeNoiseDoes, SendsLimited
<1>9. CASE UNCHANGED vars
  <2>1. /\ agents' = agents /\ roster' = roster /\ incoming' = incoming
        /\ turn' = turn /\ filled' = filled
    BY <1>9 DEF vars, setup
  <2> QED
    BY <2>1, NextLimited DEF Limited, PositionLimited, Exposed
<1> QED
  BY <1>1, <1>2, <1>3, <1>5, <1>6, <1>7, <1>8, <1>9 DEF Next

\* The position a maker knows of stays within max_position, but for the one order
\* it sent before it got there: it sends no order to a side when the limit of that
\* side is reached, and one order at a time moves its position, by at most what
\* has been filled of it.
THEOREM PositionLimitedAlways == Spec => []PositionLimited
<1>1. Init => TypeOK /\ Placed /\ Limited
  BY InitTypes, InitPlaced, InitLimited
<1>2. (TypeOK /\ Placed /\ Limited) /\ [Next]_vars => (TypeOK /\ Placed /\ Limited)'
  BY StepTypes, StepLimited
<1> QED
  BY <1>1, <1>2, PTL DEF Spec, Limited

-----------------------------------------------------------------------------
(* What is counted *)

\* How many identifiers every agent has used.
UsedBy == [a \in Agents |-> agents[a].next - 1]

LEMMA UsedIs ==
    TypeOK => /\ IsFiniteSet(Agents)
              /\ \A a \in Agents : UsedBy[a] \in Nat /\ UsedBy[a] = agents[a].next - 1
              /\ \E h : AddsUp(h, UsedBy, Agents) /\ Used = h[Agents]
<1> SUFFICES ASSUME TypeOK
             PROVE  /\ IsFiniteSet(Agents)
                    /\ \A a \in Agents : UsedBy[a] \in Nat /\ UsedBy[a] = agents[a].next - 1
                    /\ \E h : AddsUp(h, UsedBy, Agents) /\ Used = h[Agents]
  OBVIOUS
<1> DEFINE S == Agents
           f == UsedBy
           V(a) == agents[a].next - 1
           Sum(g) == [s \in SUBSET S |->
                        IF s = {} THEN 0
                        ELSE V(CHOOSE x \in s : TRUE) + g[s \ {CHOOSE x \in s : TRUE}]]
           h == CHOOSE g : g = Sum(g)
<1>1. IsFiniteSet(S)
  BY RosterIs DEF TypeOK
<1>2. \A a \in S : f[a] \in Nat /\ f[a] = V(a)
  <2> SUFFICES ASSUME NEW a \in S PROVE f[a] \in Nat /\ f[a] = V(a)
    OBVIOUS
  <2>1. agents[a].next \in Nat \ {0}
    BY DEF TypeOK, Agent
  <2> QED
    BY <2>1 DEF UsedBy
<1>3. Used = h[S]
  BY DEF Used, MapThenSumSet, MapThenFoldSet
<1> HIDE DEF S, V, f
<1>4. PICK g : AddsUp(g, f, S)
  BY <1>1, <1>2, AddsUpExists
<1>5. ASSUME NEW s \in (SUBSET S) \ {{}}
      PROVE  OneOf(s) \in s /\ V(OneOf(s)) = f[OneOf(s)] /\ f[OneOf(s)] \in Nat
  <2>1. OneOf(s) \in s
    BY DEF OneOf
  <2> QED
    BY <1>2, <2>1
<1>6. g = Sum(g)
  <2>1. ASSUME NEW s \in SUBSET S
        PROVE  g[s] = IF s = {} THEN 0
                      ELSE V(CHOOSE x \in s : TRUE) + g[s \ {CHOOSE x \in s : TRUE}]
    <3>1. CASE s = {}
      BY <1>4, <3>1 DEF AddsUp
    <3>2. CASE s # {}
      BY <1>4, <1>5, <3>2 DEF AddsUp, OneOf
    <3> QED
      BY <3>1, <3>2
  <2>2. g \in [SUBSET S -> Nat]
    BY <1>4 DEF AddsUp
  <2> QED
    BY <2>1, <2>2
<1>7. h = Sum(h)
  <2> HIDE DEF Sum
  <2> QED
    BY <1>6
<1> HIDE DEF h
<1>8. \A s \in (SUBSET S) \ {{}} : h[s] = f[OneOf(s)] + h[s \ {OneOf(s)}]
  BY <1>5, <1>7 DEF OneOf
<1>9. h[{}] = 0
  BY <1>7
<1>10. \A s \in SUBSET S : h[s] \in Nat
  BY <1>1, <1>2, <1>8, <1>9, SumsOverSets
<1>11. h \in [SUBSET S -> Nat]
  BY <1>7, <1>10
<1>12. AddsUp(h, f, S)
  BY <1>8, <1>9, <1>11 DEF AddsUp
<1> QED
  BY <1>1, <1>2, <1>3, <1>12 DEF f, S, V

\* The agent whose turn it is uses one identifier more, or none.
LEMMA UsedGrows ==
    ASSUME TypeOK, TypeOK', roster' = roster, NEW d \in Nat,
           agents'[turn].next = agents[turn].next + d,
           \A a \in Agents : a # turn => agents'[a].next = agents[a].next
    PROVE  Used' = Used + d
<1> DEFINE f == UsedBy
           g == UsedBy'
           S == Agents
<1>1. Agents' = S
  BY DEF Agents
<1>2. /\ IsFiniteSet(S) /\ \A a \in S : f[a] \in Nat /\ f[a] = agents[a].next - 1
      /\ \E h : AddsUp(h, f, S) /\ Used = h[S]
  BY UsedIs
<1>3. (TypeOK => /\ IsFiniteSet(Agents)
                 /\ \A a \in Agents : UsedBy[a] \in Nat /\ UsedBy[a] = agents[a].next - 1
                 /\ \E h : AddsUp(h, UsedBy, Agents) /\ Used = h[Agents])'
  BY UsedIs, PTL
<1>4. PICK h : AddsUp(h, f, S) /\ Used = h[S]
  BY <1>2
<1>5. PICK k : AddsUp(k, g, S) /\ Used' = k[S]
  BY <1>1, <1>3 DEF AddsUp, OneOf
<1>6. \A a \in S : g[a] = agents'[a].next - 1
  BY <1>1, <1>3
<1>7. turn \in S /\ \A a \in S : agents[a].next \in Int
  BY DEF TypeOK, Agent
<1>8. \A a \in S : g[a] = f[a] + (IF a = turn THEN d ELSE 0)
  <2> HIDE DEF f, g, S
  <2> SUFFICES ASSUME NEW a \in S PROVE g[a] = f[a] + (IF a = turn THEN d ELSE 0)
    OBVIOUS
  <2>1. g[a] = agents'[a].next - 1 /\ f[a] = agents[a].next - 1 /\ agents[a].next \in Int
    BY <1>2, <1>6, <1>7
  <2>2. agents'[a].next = agents[a].next + (IF a = turn THEN d ELSE 0)
    BY <2>1 DEF S
  <2> QED
    BY <2>1, <2>2
<1> HIDE DEF f, g, S
<1>9. k[S] = h[S] + d
  BY <1>2, <1>4, <1>5, <1>7, <1>8, SumGrows
<1> QED
  BY <1>4, <1>5, <1>9

\* At the start none is used.
LEMMA NoneUsed ==
    ASSUME TypeOK, \A a \in Agents : agents[a].next = 1
    PROVE  Used = 0
<1> DEFINE zero == [s \in SUBSET Agents |-> 0]
<1>1. /\ IsFiniteSet(Agents) /\ \A a \in Agents : UsedBy[a] = 0
  BY UsedIs
<1>2. PICK h : AddsUp(h, UsedBy, Agents) /\ Used = h[Agents]
  BY UsedIs
<1>3. AddsUp(zero, UsedBy, Agents)
  <2>1. ASSUME NEW s \in (SUBSET Agents) \ {{}}
        PROVE  zero[s] = UsedBy[OneOf(s)] + zero[s \ {OneOf(s)}]
    <3>1. OneOf(s) \in Agents /\ s \ {OneOf(s)} \in SUBSET Agents
      BY DEF OneOf
    <3> QED
      BY <1>1, <3>1
  <2>2. zero \in [SUBSET Agents -> Nat] /\ zero[{}] = 0
    OBVIOUS
  <2> HIDE DEF zero
  <2> QED
    BY <2>1, <2>2 DEF AddsUp
<1>4. zero[Agents] = 0
  OBVIOUS
<1> HIDE DEF zero
<1>5. \A a \in Agents : UsedBy[a] = UsedBy[a] + (IF a = turn THEN 0 ELSE 0)
  BY <1>1
<1>6. turn \in Agents /\ \A a \in Agents : UsedBy[a] \in Nat
  BY <1>1 DEF TypeOK
<1>7. h[Agents] = zero[Agents] + 0
  BY <1>1, <1>2, <1>3, <1>5, <1>6, SumGrows
<1> QED
  BY <1>2, <1>4, <1>7

\* The counts of a next state.
LEMMA NextCounted ==
    ASSUME stats'.volume + filled' = heard'.volume,
           stats'.matched + (IF filled' > 0 THEN 1 ELSE 0) <= heard'.trades,
           incoming' = Book!Nobody => filled' = 0,
           stats'.received = Used'
    PROVE  Counted'
BY DEF Counted, Idle, Book!Nobody

\* Nobody uses an identifier and nothing is counted.
LEMMA CountsStay ==
    ASSUME TypeOK, TypeOK', Counted, roster' = roster, heard' = heard,
           \A a \in Agents : agents'[a].next = agents[a].next,
           stats'.received = stats.received, stats'.matched = stats.matched,
           stats'.volume = stats.volume, filled' = filled,
           incoming' = Book!Nobody => Idle
    PROVE  Counted'
<1>1. turn \in Agents /\ agents[turn].next \in Int /\ stats.received \in Nat /\ 0 \in Nat
  BY DEF TypeOK, Agent
<1>2. agents'[turn].next = agents[turn].next + 0
  BY <1>1
<1>3. Used' = Used + 0
  BY <1>1, <1>2, UsedGrows
<1>4. Used' = Used
  BY <1>1, <1>3 DEF Counted
<1> QED
  BY <1>4, NextCounted DEF Counted

LEMMA InitCounted == Init => Counted
<1> SUFFICES ASSUME Init PROVE Counted
  OBVIOUS
<1>1. \A a \in Agents : agents[a].next = 1
  BY DEF Init, NewAgent
<1>2. Used = 0
  BY <1>1, InitTypes, NoneUsed
<1> QED
  BY <1>2 DEF Init, Counted

LEMMA TradeCounted ==
    ASSUME TypeOK, TypeOK', Counted, NEW traded, Trades(traded)
    PROVE  Counted'
<1>1. /\ traded \in Nat \ {0} /\ filled \in Nat /\ filled' = filled + traded
      /\ heard.trades \in Nat /\ heard.volume \in Nat
      /\ stats.volume \in Nat /\ stats.matched \in Nat /\ stats.received \in Nat
      /\ heard'.trades = heard.trades + 1 /\ heard'.volume = heard.volume + traded
      /\ stats' = stats /\ agents' = agents /\ roster' = roster
      /\ incoming' # Book!Nobody
  BY ArrivalIs DEF Trades, TypeOK, setup
<1>2. Used' = Used
  <2>1. turn \in Agents /\ agents[turn].next \in Int /\ 0 \in Nat
    BY DEF TypeOK, Agent
  <2>2. agents'[turn].next = agents[turn].next + 0
    BY <1>1, <2>1
  <2>3. Used' = Used + 0
    BY <1>1, <2>1, <2>2, UsedGrows
  <2> QED
    BY <1>1, <2>3 DEF Counted
<1>3. stats'.volume + filled' = heard'.volume
  BY <1>1 DEF Counted
<1>4. stats'.matched + (IF filled' > 0 THEN 1 ELSE 0) <= heard'.trades
  BY <1>1 DEF Counted
<1>5. stats'.received = Used'
  BY <1>1, <1>2 DEF Counted
<1> QED
  BY <1>1, <1>3, <1>4, <1>5, NextCounted

LEMMA ReturnCounted ==
    ASSUME TypeOK, TypeOK', Counted, Returns
    PROVE  Counted'
<1>1. /\ filled \in Nat /\ filled' = 0 /\ heard' = heard /\ roster' = roster
      /\ heard.trades \in Nat /\ heard.volume \in Nat
      /\ stats.volume \in Nat /\ stats.matched \in Nat /\ stats.received \in Nat
      /\ stats'.received = stats.received
      /\ turn \in Agents /\ agents[turn].next \in Int
      /\ \A a \in Agents : agents'[a].next = agents[a].next
  BY DEF Returns, Reports, TypeOK, Agent, setup
<1>2. IF filled > 0
      THEN stats'.matched = stats.matched + 1 /\ stats'.volume = stats.volume + filled
      ELSE stats'.matched = stats.matched /\ stats'.volume = stats.volume
  BY DEF Returns
<1>3. agents'[turn].next = agents[turn].next + 0
  BY <1>1
<1>4. Used' = Used + 0
  BY <1>1, <1>3, UsedGrows
<1>5. stats'.received = Used'
  BY <1>1, <1>4 DEF Counted
<1>6. stats'.volume + filled' = heard'.volume
  BY <1>1, <1>2 DEF Counted
<1>7. stats'.matched + (IF filled' > 0 THEN 1 ELSE 0) <= heard'.trades
  BY <1>1, <1>2 DEF Counted
<1> QED
  BY <1>1, <1>5, <1>6, <1>7, NextCounted

\* An order is submitted under the next identifier of its agent.
LEMMA SubmitsCounted ==
    ASSUME TypeOK, TypeOK', Counted, Idle, NEW order, Submits(order),
           NEW bid, NEW ask, Takes(bid, ask), roster' = roster, heard' = heard
    PROVE  Counted'
<1>1. /\ filled = 0 /\ filled' = 0
      /\ stats'.received = stats.received + 1
      /\ stats'.matched = stats.matched /\ stats'.volume = stats.volume
  BY DEF Counted, Submits
<1>2. /\ agents'[turn].next = agents[turn].next + 1 /\ 1 \in Nat
      /\ \A a \in Agents : a # turn => agents'[a].next = agents[a].next
  BY DEF Takes
<1>3. Used' = Used + 1
  BY <1>2, UsedGrows
<1> QED
  BY <1>1, <1>3, NextCounted DEF Counted

LEMMA StepCounted ==
    ASSUME TypeOK, TypeOK', Placed, Counted, [Next]_vars
    PROVE  Counted'
<1>1. CASE NextTurn \/ StartQuoting
  <2>1. UNCHANGED <<bookVars, agents, setup, stats, heard>>
    BY <1>1 DEF NextTurn, StartQuoting
  <2> QED
    BY <2>1, CountsStay DEF bookVars, setup, Idle
<1>2. CASE Trade
  BY <1>2, TradeDoes, TradeCounted
<1>3. CASE Return
  BY <1>3, ReturnDoes, ReturnCounted
<1>4. ASSUME NEW at, NEW id, NEW next \in Stages, CancelQuote(at, id, next)
      PROVE  Counted'
  <2>1. Cancels(at, id, next)
    BY <1>4, CancelQuoteDoes
  <2> QED
    BY <2>1, CountsStay DEF Cancels, setup, Keeps
<1>5. CASE CancelBid \/ CancelAsk
  BY <1>4, <1>5 DEF CancelBid, CancelAsk, Stages
<1>6. ASSUME NEW side \in Sides, NEW at, NEW next, QuoteSide(side, at, next)
      PROVE  Counted'
  <2>1. Idle /\ Quotes(side) /\ roster' = roster /\ heard' = heard
    BY <1>6, QuoteSideDoes DEF setup
  <2>2. CASE WithinLimit(side)
    <3>1. PICK order, bid, ask : Submits(order) /\ Takes(bid, ask)
      BY <2>1, <2>2 DEF Quotes
    <3> QED
      BY <2>1, <3>1, SubmitsCounted
  <2>3. CASE ~WithinLimit(side)
    <3>1. UNCHANGED <<bookVars, agents, stats>>
      BY <2>1, <2>3 DEF Quotes
    <3> QED
      BY <2>1, <3>1, CountsStay DEF bookVars, Idle
  <2> QED
    BY <2>2, <2>3
<1>7. CASE QuoteBid \/ QuoteAsk
  BY <1>6, <1>7 DEF QuoteBid, QuoteAsk, Sides
<1>8. CASE Sends
  BY <1>8, SubmitsCounted DEF Sends, setup
<1>9. CASE FollowTrend
  BY <1>8, <1>9, FollowTrendDoes
<1>10. ASSUME NEW side \in Sides, NEW size \in NoiseSizes, MakeNoise(side, size)
       PROVE  Counted'
  BY <1>8, <1>10, MakeNoiseDoes
<1>11. CASE UNCHANGED vars
  BY <1>11, CountsStay DEF vars, setup, Idle
<1> QED
  BY <1>1, <1>2, <1>3, <1>5, <1>7, <1>9, <1>10, <1>11 DEF Next

\* Between calls the engine and main() have counted the same volume, although one
\* adds up what orders report and the other what trades report, the engine has
\* counted no more orders than trades, and exactly as many orders received as the
\* agents have used identifiers, refused ones included.
THEOREM TalliesAgreeAlways == Spec => []TalliesAgree
<1>1. Init => TypeOK /\ Placed /\ Counted
  BY InitTypes, InitPlaced, InitCounted
<1>2. (TypeOK /\ Placed /\ Counted) /\ [Next]_vars => (TypeOK /\ Placed /\ Counted)'
  BY StepTypes, StepCounted
<1>3. TypeOK /\ Counted => TalliesAgree
  <2> SUFFICES ASSUME TypeOK, Counted, Idle PROVE TalliesAgree
    BY DEF TalliesAgree
  <2>1. stats.volume \in Nat /\ stats.matched \in Nat /\ filled = 0
    BY DEF TypeOK, Counted
  <2>2. stats.volume = heard.volume /\ stats.matched <= heard.trades
    BY <2>1 DEF Counted
  <2> QED
    BY <2>2 DEF TalliesAgree, Counted, Used
<1> QED
  BY <1>1, <1>2, <1>3, PTL DEF Spec
=============================================================================
