----------------------------- MODULE LevelQueue -----------------------------
(***************************************************************************)
(* A price level as the rest of the engine sees it: a FIFO of order nodes  *)
(* and an index from order identifiers to nodes.  The doubly linked list,  *)
(* its raw pointers and the running totals are the business of module      *)
(* PriceLevel, which is shown to implement these operators.                *)
(*                                                                         *)
(* node_index_ maps an identifier to at most one node of the level; the    *)
(* flag "indexed" marks the node an entry points to.  add_order does not   *)
(* look for an existing entry and pop_front erases the entry of the popped *)
(* node's identifier whatever node it points to, so a queue may hold nodes *)
(* that no index entry reaches.                                            *)
(***************************************************************************)
EXTENDS Integers, Sequences, SequencesExt

CONSTANT QMod       \* quantities are unsigned and wrap at QMod (2^32 in the code)

ASSUME QModAssumption == QMod \in Nat \ {0}

Quantity == 0 .. QMod - 1

Node(Ids) == [id : Ids, quantity : Quantity, indexed : BOOLEAN]

\* node_index_.erase(id): no node of that identifier is reachable any more.
Unindex(queue, id) ==
    [i \in DOMAIN queue |->
        IF queue[i].id = id THEN [queue[i] EXCEPT !.indexed = FALSE]
                            ELSE queue[i]]

\* The positions of the node find_node(id) returns: one at most.
Found(queue, id) == {i \in DOMAIN queue : queue[i].id = id /\ queue[i].indexed}

\* Faulty: the new node goes to the head of the list.
AddNodeInFront(queue, id, quantity) ==
    <<[id |-> id, quantity |-> quantity, indexed |-> TRUE]>> \o Unindex(queue, id)

AddNode(queue, id, quantity) ==
    Append(Unindex(queue, id),
           [id |-> id, quantity |-> quantity, indexed |-> TRUE])

RemoveNode(queue, id) ==
    IF Found(queue, id) = {}
    THEN queue
    ELSE RemoveAt(queue, CHOOSE i \in Found(queue, id) : TRUE)

ModifyNode(queue, id, quantity) ==
    [i \in DOMAIN queue |->
        IF i \in Found(queue, id) THEN [queue[i] EXCEPT !.quantity = quantity]
                                  ELSE queue[i]]

PopFront(queue) == Unindex(Tail(queue), Head(queue).id)

\* Faulty: a node filled exactly stays in the list.
FillFrontKeepsEmpty(queue, quantity) ==
    IF quantity > Head(queue).quantity
    THEN PopFront(queue)
    ELSE [queue EXCEPT ![1].quantity = @ - quantity]

\* Faulty: a fill larger than the node is subtracted all the same.
FillFrontUnchecked(queue, quantity) ==
    IF quantity = Head(queue).quantity
    THEN PopFront(queue)
    ELSE [queue EXCEPT ![1].quantity = @ - quantity]

FillFront(queue, quantity) ==
    IF quantity >= Head(queue).quantity
    THEN PopFront(queue)
    ELSE [queue EXCEPT ![1].quantity = @ - quantity]

\* total_quantity_, kept in a uint32_t.
TotalQuantity(queue) ==
    FoldLeft(LAMBDA total, node : (total + node.quantity) % QMod, 0, queue)
=============================================================================
