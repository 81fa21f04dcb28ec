---------------------------- MODULE BoundedFifo -----------------------------
(***************************************************************************)
(* What the inbound queue of the engine promises: a FIFO of bounded length *)
(* that loses, duplicates and reorders nothing.                            *)
(***************************************************************************)
EXTENDS Integers, Sequences

CONSTANTS Items, Limit

VARIABLES
    queue,      \* the items pushed and not yet popped, oldest first
    delivered   \* the item popped last

fvars == <<queue, delivered>>

Init == queue = <<>> /\ delivered \notin Items

Push(item) ==
    /\ Len(queue) < Limit
    /\ queue' = Append(queue, item)
    /\ UNCHANGED delivered

Pop ==
    /\ queue # <<>>
    /\ delivered' = Head(queue)
    /\ queue' = Tail(queue)

Next == Pop \/ \E item \in Items : Push(item)

\* Whoever drains the queue comes back for more.
Spec == Init /\ [][Next]_fvars /\ WF_fvars(Pop)
=============================================================================
