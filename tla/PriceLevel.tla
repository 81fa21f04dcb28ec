----------------------------- MODULE PriceLevel -----------------------------
(***************************************************************************)
(* exchange::PriceLevel: the orders of one price as a doubly linked list   *)
(* of heap nodes, with an index from order identifiers to nodes and two    *)
(* running totals.  The heap is explicit: a node is allocated, linked,     *)
(* unlinked and freed, and its address may then be given out again.        *)
(***************************************************************************)
EXTENDS LevelQueue, FiniteSets

CONSTANTS
    Ids,        \* order identifiers
    Amounts,    \* quantities the book passes
    Addresses,  \* addresses of nodes: bounds the length of the list
    Null

\* Memory is finite, and a quantity is a uint32_t.
ASSUME AddressAssumption == Null \notin Addresses /\ IsFiniteSet(Addresses)
ASSUME AmountAssumption  == Amounts \subseteq Quantity

VARIABLES
    heap,       \* the live nodes, by address
    head, tail, \* head_, tail_
    index,      \* node_index_
    total,      \* total_quantity_, unsigned
    count       \* order_count_

vars == <<heap, head, tail, index, total, count>>

Pointer == Addresses \cup {Null}

Live == DOMAIN heap

Allocate(at, node) == [a \in Live \cup {at} |-> IF a = at THEN node ELSE heap[a]]

Freed(nodes, a) == [b \in DOMAIN nodes \ {a} |-> nodes[b]]

Erased(id) == [i \in DOMAIN index \ {id} |-> index[i]]

Subtract(amount) == (total + QMod - amount) % QMod

Init ==
    /\ heap = [a \in {} |-> Null]
    /\ head = Null /\ tail = Null
    /\ index = [id \in {} |-> Null]
    /\ total = 0 /\ count = 0

-----------------------------------------------------------------------------
\* Faulty: an identifier that is in the index keeps its entry.
AddOrderKeepingEntry(id, quantity, at) ==
    /\ at \notin Live
    /\ LET node == [id |-> id, quantity |-> quantity, prev |-> tail, next |-> Null]
           linked == Allocate(at, node)
       IN  heap' = IF tail = Null THEN linked ELSE [linked EXCEPT ![tail].next = at]
    /\ head' = IF tail = Null THEN at ELSE head
    /\ tail' = at
    /\ index' = [i \in DOMAIN index \cup {id} |-> IF i \in DOMAIN index THEN index[i] ELSE at]
    /\ total' = (total + quantity) % QMod
    /\ count' = count + 1

\* Appends a node; an index entry of the same identifier is overwritten.
AddOrder(id, quantity, at) ==
    /\ at \notin Live
    /\ LET node == [id |-> id, quantity |-> quantity, prev |-> tail, next |-> Null]
           linked == Allocate(at, node)
       IN  heap' = IF tail = Null THEN linked ELSE [linked EXCEPT ![tail].next = at]
    /\ head' = IF tail = Null THEN at ELSE head
    /\ tail' = at
    /\ index' = [i \in DOMAIN index \cup {id} |-> IF i = id THEN at ELSE index[i]]
    /\ total' = (total + quantity) % QMod
    /\ count' = count + 1

\* unlink, on the nodes given.
Bypass(a) ==
    LET prev == heap[a].prev
        next == heap[a].next
    IN  [b \in Live |->
            IF b = prev THEN [heap[b] EXCEPT !.next = next]
            ELSE IF b = next THEN [heap[b] EXCEPT !.prev = prev]
            ELSE heap[b]]

\* Faulty: the entry of the freed node stays in the index.
RemoveOrderKeepingIndex(id) ==
    /\ id \in DOMAIN index
    /\ heap' = Freed(Bypass(index[id]), index[id])
    /\ head' = IF heap[index[id]].prev = Null THEN heap[index[id]].next ELSE head
    /\ tail' = IF heap[index[id]].next = Null THEN heap[index[id]].prev ELSE tail
    /\ index' = index
    /\ total' = Subtract(heap[index[id]].quantity)
    /\ count' = count - 1

RemoveOrder(id) ==
    /\ id \in DOMAIN index
    /\ heap' = Freed(Bypass(index[id]), index[id])
    /\ head' = IF heap[index[id]].prev = Null THEN heap[index[id]].next ELSE head
    /\ tail' = IF heap[index[id]].next = Null THEN heap[index[id]].prev ELSE tail
    /\ index' = Erased(id)
    /\ total' = Subtract(heap[index[id]].quantity)
    /\ count' = count - 1

ModifyQuantity(id, quantity) ==
    /\ id \in DOMAIN index
    /\ heap' = [heap EXCEPT ![index[id]].quantity = quantity]
    /\ total' = (Subtract(heap[index[id]].quantity) + quantity) % QMod
    /\ UNCHANGED <<head, tail, index, count>>

\* Faulty: the new head still points back to the freed node.
PopFrontHalfLinked ==
    /\ head # Null
    /\ head' = heap[head].next
    /\ tail' = IF head' = Null THEN Null ELSE tail
    /\ heap' = Freed(heap, head)
    /\ index' = Erased(heap[head].id)
    /\ total' = Subtract(heap[head].quantity)
    /\ count' = count - 1

\* Erases the index entry of the head's identifier, whatever it points to.
PopFrontNode ==
    /\ head # Null
    /\ head' = heap[head].next
    /\ tail' = IF head' = Null THEN Null ELSE tail
    /\ heap' = Freed([a \in Live |-> IF a = head' THEN [heap[a] EXCEPT !.prev = Null]
                                                  ELSE heap[a]], head)
    /\ index' = Erased(heap[head].id)
    /\ total' = Subtract(heap[head].quantity)
    /\ count' = count - 1

\* Faulty: only the node's quantity is reduced.
FillFrontNodeOnly(quantity) ==
    /\ head # Null
    /\ \/ quantity >= heap[head].quantity /\ PopFrontNode
       \/ /\ quantity < heap[head].quantity
          /\ heap' = [heap EXCEPT ![head].quantity = @ - quantity]
          /\ UNCHANGED <<head, tail, index, total, count>>

FillFrontNode(quantity) ==
    /\ head # Null
    /\ \/ quantity >= heap[head].quantity /\ PopFrontNode
       \/ /\ quantity < heap[head].quantity
          /\ heap' = [heap EXCEPT ![head].quantity = @ - quantity]
          /\ total' = Subtract(quantity)
          /\ UNCHANGED <<head, tail, index, count>>

\* The nodes the list reaches, in order: Chain[n] stops after n nodes.
Chain[n \in 0 .. Cardinality(Addresses)] ==
    IF n = 0 THEN <<>>
    ELSE LET before == Chain[n - 1]
             next == IF before = <<>> THEN head ELSE heap[Last(before)].next
         IN  IF Len(before) < n - 1 \/ next \notin Live THEN before
             ELSE Append(before, next)

Reached == Chain[Cardinality(Addresses)]

\* Faulty: the nodes outlive the level.
DestroyShallow ==
    /\ heap' = heap
    /\ head' = Null /\ tail' = Null
    /\ index' = [id \in {} |-> Null]
    /\ total' = 0 /\ count' = 0

\* The destructor frees what the list reaches; the book builds a new level at
\* this price when it needs one.
Destroy ==
    /\ heap' = [a \in Live \ Range(Reached) |-> heap[a]]
    /\ head' = Null /\ tail' = Null
    /\ index' = [id \in {} |-> Null]
    /\ total' = 0 /\ count' = 0

-----------------------------------------------------------------------------
Next ==
    \/ \E id \in Ids, quantity \in Amounts, at \in Addresses : AddOrder(id, quantity, at)
    \/ \E id \in Ids : RemoveOrder(id)
    \/ \E id \in Ids, quantity \in Amounts : ModifyQuantity(id, quantity)
    \/ PopFrontNode
    \/ \E quantity \in Amounts : FillFrontNode(quantity)
    \/ Destroy

Spec == Init /\ [][Next]_vars

-----------------------------------------------------------------------------
(***************************************************************************)
(* Properties                                                              *)
(***************************************************************************)

\* The list is doubly linked from head to tail and back.
WellLinked ==
    /\ head = Null <=> tail = Null
    /\ head # Null => heap[head].prev = Null /\ heap[tail].next = Null
    /\ \A a, b \in Live : heap[a].next = b <=> heap[b].prev = a
    /\ \A a \in Live : {heap[a].prev, heap[a].next} \subseteq Live \cup {Null}

\* No entry of the index outlives its node or names another order's node,
\* although add_order overwrites entries and pop_front erases by identifier.
IndexSound == \A id \in DOMAIN index : index[id] \in Live /\ heap[index[id]].id = id

\* Every node that was not freed can be reached, once: nothing leaks.
NothingLeaked ==
    LET reached == Reached
    IN  Range(reached) = Live /\ Len(reached) = Cardinality(Live)

\* The level as a queue.
View ==
    LET reached == Reached
        NodeAt(a) ==
            [id |-> heap[a].id, quantity |-> heap[a].quantity,
             indexed |-> heap[a].id \in DOMAIN index /\ index[heap[a].id] = a]
    IN  [i \in DOMAIN reached |-> NodeAt(reached[i])]

\* The running totals equal what adding up the list gives.
TotalsExact ==
    LET queue == View
    IN  total = TotalQuantity(queue) /\ count = Len(queue)

Fifo == INSTANCE LevelFifo WITH queue <- View

\* Pointers, index and totals together implement the queue of LevelQueue.
ImplementsQueue == Fifo!Spec
=============================================================================
