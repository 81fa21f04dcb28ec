----------------------------- MODULE SPSCQueue ------------------------------
(***************************************************************************)
(* exchange::SPSCQueue: the lock-free ring between one producer thread and *)
(* one consumer thread.                                                    *)
(*                                                                         *)
(* A step is one access to memory the other thread may touch.  An item is  *)
(* several words and the copies in and out are not atomic: from the moment *)
(* the producer begins to write a slot until it has finished the slot      *)
(* holds Torn.  An atomic load need not return the newest value: it        *)
(* returns any value the index has had since this thread last loaded it    *)
(* (coherence), and with acquire/release everything written before that    *)
(* value was stored is visible.                                            *)
(***************************************************************************)
EXTENDS Integers, Sequences

CONSTANTS
    Capacity,   \* the template parameter; a power of two in the code, which
                \*   makes its masks the remainders below
    Items,      \* what may be pushed
    Torn        \* a slot that is being written, or never was

ASSUME CapacityAssumption == Capacity \in Nat \ {0}
ASSUME TornAssumption == Torn \notin Items

VARIABLES
    head,       \* head_: the slot the producer writes next
    cachedTail, \* cached_tail_: the producer's copy of tail_
    tail,       \* tail_: the slot the consumer reads next
    cachedHead, \* cached_head_: the consumer's copy of head_
    slots,      \* slots_
    producer,   \* where the producer is in try_push
    item,       \* the item it pushes
    spinning,   \* is it inside push(), which retries until it succeeds?
    consumer,   \* where the consumer is in try_pop
    copy,       \* the item it has copied out
    delivered   \* the item its last successful try_pop returned

produced == <<head, cachedTail, producer, item, spinning>>
consumed == <<tail, cachedHead, consumer, copy, delivered>>
vars     == <<produced, consumed, slots>>

Index == 0 .. Capacity - 1

\* (index + 1) & (Capacity - 1)
Following(index) == (index + 1) % Capacity

\* Every value an index has had on its way from "seen" to "current".
Since(seen, current) == IF seen <= current THEN seen .. current
                        ELSE (seen .. Capacity - 1) \cup (0 .. current)

Init ==
    /\ head = 0 /\ cachedTail = 0 /\ tail = 0 /\ cachedHead = 0
    /\ slots = [index \in Index |-> Torn]
    /\ producer = "idle" /\ item = Torn /\ spinning = FALSE
    /\ consumer = "idle" /\ copy = Torn /\ delivered = Torn

-----------------------------------------------------------------------------
(* try_push and push *)

BeginWrite ==
    /\ producer' = "writing"
    /\ slots' = [slots EXCEPT ![head] = Torn]

\* A call of try_push(item), or of push(item).
Call(offered, blocking) ==
    /\ producer = "idle"
    /\ producer' = "trying"
    /\ item' = offered /\ spinning' = blocking
    /\ UNCHANGED <<head, cachedTail, consumed, slots>>

\* Faulty: the ring may close on itself.
TryPushOverfull ==
    /\ producer = "trying"
    /\ BeginWrite
    /\ UNCHANGED <<head, cachedTail, item, spinning, consumed>>

\* The cached tail is enough to know there is room, or it has to be renewed.
TryPush ==
    /\ producer = "trying"
    /\ \/ Following(head) = cachedTail /\ producer' = "loading" /\ UNCHANGED slots
       \/ Following(head) # cachedTail /\ BeginWrite
    /\ UNCHANGED <<head, cachedTail, item, spinning, consumed>>

\* try_push gives up; push starts over.
Full == producer' = (IF spinning THEN "trying" ELSE "idle") /\ UNCHANGED slots

\* Faulty: the loaded tail is not kept.
LoadTailForgetful(seen) ==
    /\ producer = "loading"
    /\ seen \in Since(cachedTail, tail)
    /\ Full
    /\ UNCHANGED <<head, cachedTail, item, spinning, consumed>>

LoadTail(seen) ==
    /\ producer = "loading"
    /\ seen \in Since(cachedTail, tail)
    /\ cachedTail' = seen
    /\ \/ Following(head) = seen /\ Full
       \/ Following(head) # seen /\ BeginWrite
    /\ UNCHANGED <<head, item, spinning, consumed>>

\* Faulty: the slot after the claimed one is written.
EndWriteAhead ==
    /\ producer = "writing"
    /\ slots' = [slots EXCEPT ![Following(head)] = item]
    /\ producer' = "publishing"
    /\ UNCHANGED <<head, cachedTail, item, spinning, consumed>>

EndWrite ==
    /\ producer = "writing"
    /\ slots' = [slots EXCEPT ![head] = item]
    /\ producer' = "publishing"
    /\ UNCHANGED <<head, cachedTail, item, spinning, consumed>>

\* The release store makes the slot visible together with the index.
Publish ==
    /\ producer = "publishing"
    /\ head' = Following(head)
    /\ producer' = "idle"
    /\ UNCHANGED <<cachedTail, item, spinning, consumed, slots>>

-----------------------------------------------------------------------------
(* try_pop; pop() is try_pop until it succeeds *)

TryPop ==
    /\ consumer = "idle"
    /\ consumer' = IF tail = cachedHead THEN "loading" ELSE "copying"
    /\ UNCHANGED <<tail, cachedHead, copy, delivered, produced, slots>>

\* Faulty: a loaded head is taken for news.
LoadHeadUnchecked(seen) ==
    /\ consumer = "loading"
    /\ seen \in Since(cachedHead, head)
    /\ cachedHead' = seen
    /\ consumer' = "copying"
    /\ UNCHANGED <<tail, copy, delivered, produced, slots>>

LoadHead(seen) ==
    /\ consumer = "loading"
    /\ seen \in Since(cachedHead, head)
    /\ cachedHead' = seen
    /\ consumer' = IF tail = seen THEN "idle" ELSE "copying"
    /\ UNCHANGED <<tail, copy, delivered, produced, slots>>

EndCopy ==
    /\ consumer = "copying"
    /\ copy' = slots[tail]
    /\ consumer' = "releasing"
    /\ UNCHANGED <<tail, cachedHead, delivered, produced, slots>>

\* The release store hands the slot back; the call returns the copy.
Release ==
    /\ consumer = "releasing"
    /\ tail' = Following(tail)
    /\ delivered' = copy
    /\ copy' = Torn
    /\ consumer' = "idle"
    /\ UNCHANGED <<cachedHead, produced, slots>>

-----------------------------------------------------------------------------
Producing ==
    \/ TryPush \/ EndWrite \/ Publish
    \/ \E seen \in Index : LoadTail(seen)

Consuming ==
    \/ TryPop \/ EndCopy \/ Release
    \/ \E seen \in Index : LoadHead(seen)

Next ==
    \/ \E offered \in Items, blocking \in BOOLEAN : Call(offered, blocking)
    \/ Producing
    \/ Consuming

\* Both threads keep running and the consumer polls (MatchingEngine::run does
\* nothing else).  A thread that keeps loading an index sees its current value
\* in the end: what [intro.progress] of the C++ standard asks of atomics.
Fairness ==
    /\ WF_vars(Producing) /\ SF_vars(LoadTail(tail))
    /\ WF_vars(Consuming) /\ SF_vars(LoadHead(head))

Spec == Init /\ [][Next]_vars /\ Fairness

-----------------------------------------------------------------------------
(***************************************************************************)
(* Properties                                                              *)
(***************************************************************************)

\* Every index is a slot and every thread is at one of its steps.
TypeOK ==
    /\ {head, cachedTail, tail, cachedHead} \subseteq Index
    /\ slots \in [Index -> Items \cup {Torn}]
    /\ producer \in {"idle", "trying", "loading", "writing", "publishing"}
    /\ item \in Items \cup {Torn} /\ spinning \in BOOLEAN
    /\ producer # "idle" => item \in Items
    /\ consumer \in {"idle", "loading", "copying", "releasing"}
    /\ {copy, delivered} \subseteq Items \cup {Torn}

\* How far ahead of one index another is.
Ahead(from, to) == IF from <= to THEN to - from ELSE to - from + Capacity

\* The stale copies only ever err on the safe side: going round the ring from
\* the producer's copy of the tail one meets the tail, the consumer's copy of
\* the head and the head, in this order and within one turn.
InOrder ==
    Ahead(cachedTail, tail) + Ahead(tail, cachedHead) + Ahead(cachedHead, head)
        = Ahead(cachedTail, head)

\* The threads never work on the same slot: while the consumer copies a slot
\* the producer is not writing it.  Nothing but the indices keeps them apart.
SlotsExclusive ==
    consumer = "copying" /\ producer \in {"writing", "publishing"} => head # tail

\* The contents of the ring, from the tail to the head.
Contents == [i \in 1 .. Ahead(tail, head) |-> slots[(tail + i - 1) % Capacity]]

\* The ring is a FIFO of at most Capacity - 1 items, in spite of torn slots
\* and stale indices, and what was published is delivered.
Fifo == INSTANCE BoundedFifo WITH queue <- Contents, Limit <- Capacity - 1

ImplementsFifo == Fifo!Spec

\* push() gets through a full ring.
PushReturns == producer # "idle" ~> producer = "idle"
=============================================================================
