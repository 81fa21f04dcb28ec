----------------------------- MODULE LevelFifo ------------------------------
(***************************************************************************)
(* A price level as OrderBook uses it: a queue changed by the operators of *)
(* module LevelQueue, one per member function.                             *)
(***************************************************************************)
EXTENDS LevelQueue

CONSTANTS Ids, Amounts

VARIABLE queue

\* What one call may make of a queue; a level that is destroyed is empty when
\* the book builds it again.
Results(q) ==
    {AddNode(q, id, quantity) : id \in Ids, quantity \in Amounts}
        \cup {ModifyNode(q, id, quantity) : id \in Ids, quantity \in Amounts}
        \cup {RemoveNode(q, id) : id \in Ids}
        \cup (IF q = <<>> THEN {}
              ELSE {PopFront(q)} \cup {FillFront(q, quantity) : quantity \in Amounts})
        \cup {<<>>}

Init == queue = <<>>

Next == queue' \in Results(queue)

Spec == Init /\ [][Next]_queue
=============================================================================
