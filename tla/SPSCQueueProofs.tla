-------------------------- MODULE SPSCQueueProofs ---------------------------
(***************************************************************************)
(* Safety of the ring for every capacity and every set of items.           *)
(***************************************************************************)
EXTENDS SPSCQueue, SequenceTheorems, TLAPS

\* The next slot, without the remainder.
LEMMA FollowingIs ==
    ASSUME NEW index \in Index
    PROVE  /\ Following(index) \in Index
           /\ Following(index) = IF index = Capacity - 1 THEN 0 ELSE index + 1
<1>1. CASE index = Capacity - 1
  BY <1>1, CapacityAssumption DEF Following, Index
<1>2. CASE index # Capacity - 1
  BY <1>2, CapacityAssumption DEF Following, Index
<1> QED
  BY <1>1, <1>2

\* InOrder is inductive with what the threads know once they are past their
\* checks: the producer that there is room, the consumer that there is news.
Room == producer \in {"writing", "publishing"} => Following(head) # cachedTail
News == consumer \in {"copying", "releasing"} => tail # cachedHead

Inv == TypeOK /\ InOrder /\ Room /\ News

LEMMA InvInit == Init => Inv
<1> SUFFICES ASSUME Init PROVE Inv
  OBVIOUS
<1>1. 0 \in Index
  BY CapacityAssumption DEF Index
<1>2. TypeOK
  BY <1>1 DEF Init, TypeOK
<1>3. InOrder
  BY DEF Init, InOrder, Ahead
<1> QED
  BY <1>2, <1>3 DEF Init, Inv, Room, News

\* What the producer's steps keep of the invariant.
LEMMA ProducerSafe ==
    ASSUME Inv,
           \/ \E offered \in Items, blocking \in BOOLEAN : Call(offered, blocking)
           \/ Producing
    PROVE  Inv'
<1> USE DEF Inv, produced, consumed
<1>0. {head, cachedTail, tail, cachedHead} \subseteq Index
  BY DEF TypeOK
<1>1. ASSUME NEW offered \in Items, NEW blocking \in BOOLEAN, Call(offered, blocking)
      PROVE  Inv'
  BY <1>1 DEF Call, TypeOK, InOrder, Ahead, Room, News
<1>2. CASE TryPush
  <2>1. TypeOK'
    BY <1>2 DEF TryPush, BeginWrite, TypeOK
  <2>2. InOrder' /\ News'
    BY <1>2 DEF TryPush, InOrder, News, Ahead
  <2>3. Room'
    BY <1>2 DEF TryPush, BeginWrite, Room, Following
  <2> QED
    BY <2>1, <2>2, <2>3
<1>3. CASE EndWrite
  BY <1>3 DEF EndWrite, TypeOK, InOrder, Ahead, Room, Following, News
<1>4. CASE Publish
  <2>1. head' = Following(head) /\ Following(head) # cachedTail
    BY <1>4 DEF Publish, Room
  <2>2. TypeOK' /\ Room' /\ News'
    BY <1>0, <1>4, FollowingIs DEF Publish, TypeOK, Room, News
  <2>3. Ahead(cachedHead, head)' = Ahead(cachedHead, head) + 1
    BY <1>0, <1>4, <2>1, FollowingIs, CapacityAssumption
       DEF Publish, InOrder, Ahead, Index
  <2>4. Ahead(cachedTail, head)' = Ahead(cachedTail, head) + 1
    BY <1>0, <1>4, <2>1, FollowingIs, CapacityAssumption DEF Publish, Ahead, Index
  <2>5. /\ Ahead(cachedTail, tail)' = Ahead(cachedTail, tail)
        /\ Ahead(tail, cachedHead)' = Ahead(tail, cachedHead)
    BY <1>4 DEF Publish, Ahead
  <2>6. InOrder'
    BY <1>0, <2>3, <2>4, <2>5, CapacityAssumption DEF InOrder, Ahead, Index
  <2> QED
    BY <2>2, <2>6
<1>5. ASSUME NEW seen \in Index, LoadTail(seen)
      PROVE  Inv'
  <2>1. TypeOK' /\ News'
    BY <1>5 DEF LoadTail, Full, BeginWrite, TypeOK, News
  <2>2. Room'
    BY <1>5 DEF LoadTail, Full, BeginWrite, Room, Following
  <2>3. seen \in Since(cachedTail, tail) /\ cachedTail' = seen
        /\ UNCHANGED <<head, tail, cachedHead>>
    BY <1>5 DEF LoadTail
  <2>4. InOrder'
    BY <1>0, <1>5, <2>3, CapacityAssumption DEF InOrder, Ahead, Index, Since
  <2> QED
    BY <2>1, <2>2, <2>4
<1> QED
  BY <1>1, <1>2, <1>3, <1>4, <1>5 DEF Producing

\* What the consumer's steps keep of the invariant.
LEMMA ConsumerSafe ==
    ASSUME Inv, Consuming
    PROVE  Inv'
<1> USE DEF Inv, produced, consumed
<1>0. {head, cachedTail, tail, cachedHead} \subseteq Index
  BY DEF TypeOK
<1>1. CASE TryPop
  BY <1>1 DEF TryPop, TypeOK, InOrder, Ahead, Room, Following, News
<1>2. CASE EndCopy
  <2>1. slots[tail] \in Items \cup {Torn}
    BY <1>0 DEF TypeOK
  <2> QED
    BY <1>2, <2>1 DEF EndCopy, TypeOK, InOrder, Ahead, Room, Following, News
<1>3. CASE Release
  <2>1. tail' = Following(tail) /\ tail # cachedHead
    BY <1>3 DEF Release, News
  <2>2. TypeOK' /\ Room' /\ News'
    BY <1>0, <1>3, FollowingIs DEF Release, TypeOK, Room, Following, News
  <2>3. Ahead(tail, cachedHead)' = Ahead(tail, cachedHead) - 1
    BY <1>0, <1>3, <2>1, FollowingIs, CapacityAssumption DEF Release, Ahead, Index
  <2>4. Ahead(cachedTail, tail)' = Ahead(cachedTail, tail) + 1
    BY <1>0, <1>3, <2>1, FollowingIs, CapacityAssumption
       DEF Release, InOrder, Ahead, Index
  <2>5. /\ Ahead(cachedHead, head)' = Ahead(cachedHead, head)
        /\ Ahead(cachedTail, head)' = Ahead(cachedTail, head)
    BY <1>3 DEF Release, Ahead
  <2>6. InOrder'
    BY <1>0, <2>3, <2>4, <2>5, CapacityAssumption DEF InOrder, Ahead, Index
  <2> QED
    BY <2>2, <2>6
<1>4. ASSUME NEW seen \in Index, LoadHead(seen)
      PROVE  Inv'
  <2>1. TypeOK' /\ Room'
    BY <1>4 DEF LoadHead, TypeOK, Room, Following
  <2>2. News'
    BY <1>4 DEF LoadHead, News
  <2>3. seen \in Since(cachedHead, head) /\ cachedHead' = seen
        /\ UNCHANGED <<head, tail, cachedTail>>
    BY <1>4 DEF LoadHead
  <2>4. InOrder'
    BY <1>0, <1>4, <2>3, CapacityAssumption DEF InOrder, Ahead, Index, Since
  <2> QED
    BY <2>1, <2>2, <2>4
<1> QED
  BY <1>1, <1>2, <1>3, <1>4 DEF Consuming

LEMMA InvStep == Inv /\ [Next]_vars => Inv'
<1> SUFFICES ASSUME Inv, [Next]_vars PROVE Inv'
  OBVIOUS
<1>1. CASE UNCHANGED vars
  BY <1>1 DEF vars, produced, consumed, Inv, TypeOK, InOrder, Ahead, Room, News, Following
<1> QED
  BY <1>1, ProducerSafe, ConsumerSafe DEF Next

LEMMA InvAlways == Spec => []Inv
BY InvInit, InvStep, PTL DEF Spec

\* The stale copies of the indices never mislead a thread: the four indices
\* stay in order round a ring of any capacity.
THEOREM InOrderAlways == Spec => []InOrder
<1>1. Inv => InOrder
  BY DEF Inv
<1> QED
  BY <1>1, InvAlways, PTL

\* No data race on a slot: the consumer never copies the slot the producer is
\* writing, for any capacity, however stale the indices the threads read.
THEOREM SlotsExclusiveAlways == Spec => []SlotsExclusive
<1>1. Inv => SlotsExclusive
  <2> SUFFICES ASSUME Inv, consumer = "copying", head = tail PROVE FALSE
    BY DEF SlotsExclusive
  <2>1. {head, cachedTail, tail, cachedHead} \subseteq Index /\ tail # cachedHead
    BY DEF Inv, TypeOK, News
  <2> QED
    BY <2>1, CapacityAssumption DEF Inv, InOrder, Ahead, Index
<1> QED
  BY <1>1, InvAlways, PTL

-----------------------------------------------------------------------------
(* The ring implements the bounded FIFO *)

\* The slot a number of places further on, without the remainder.
LEMMA PlaceIs ==
    ASSUME NEW index \in Index, NEW k \in 0 .. Capacity - 1
    PROVE  /\ (index + k) % Capacity \in Index
           /\ (index + k) % Capacity = IF index + k < Capacity THEN index + k
                                                               ELSE index + k - Capacity
<1>1. index \in Int /\ k \in Int /\ Capacity \in Nat \ {0}
      /\ 0 <= index + k /\ index + k < 2 * Capacity
  BY CapacityAssumption DEF Index
<1>2. CASE index + k < Capacity
  BY <1>1, <1>2 DEF Index
<1>3. CASE ~(index + k < Capacity)
  <2> DEFINE r == index + k - Capacity
  <2>1. r \in 0 .. Capacity - 1 /\ index + k = r + Capacity
    BY <1>1, <1>3
  <2> HIDE DEF r
  <2>2. (r + Capacity) % Capacity = r
    BY <1>1, <2>1
  <2> QED
    BY <1>1, <1>3, <2>1, <2>2 DEF Index, r
<1> QED
  BY <1>2, <1>3

\* The slot the producer is about to publish holds its item, and the consumer's
\* copy is of the slot it is about to release.
Written == producer = "publishing" => slots[head] = item
Copied  == consumer = "releasing" => copy = slots[tail]

DataInv == Inv /\ Written /\ Copied

\* The consumer is not where the producer is.
LEMMA Apart ==
    ASSUME Inv
    PROVE  /\ {head, cachedTail, tail, cachedHead} \subseteq Index
           /\ consumer \in {"copying", "releasing"} => tail # head
           /\ producer = "publishing" => Ahead(tail, head) < Capacity - 1
           /\ Ahead(tail, head) \in 0 .. Capacity - 1
<1>1. {head, cachedTail, tail, cachedHead} \subseteq Index
  BY DEF Inv, TypeOK
<1>2. consumer \in {"copying", "releasing"} => tail # head
  BY <1>1, CapacityAssumption DEF Inv, News, InOrder, Ahead, Index
<1>3. Ahead(tail, head) \in 0 .. Capacity - 1
  BY <1>1, CapacityAssumption DEF Ahead, Index
<1>4. ASSUME producer = "publishing" PROVE Ahead(tail, head) < Capacity - 1
  <2>1. Following(head) # cachedTail
    BY <1>4 DEF Inv, Room
  <2>2. Following(head) = IF head = Capacity - 1 THEN 0 ELSE head + 1
    BY <1>1, FollowingIs
  <2>3. Ahead(cachedTail, head) < Capacity - 1
    BY <1>1, <2>1, <2>2, CapacityAssumption DEF Ahead, Index
  <2>4. Ahead(tail, head) <= Ahead(cachedTail, head)
    BY <1>1, CapacityAssumption DEF Inv, InOrder, Ahead, Index
  <2> QED
    BY <1>1, <1>3, <2>3, <2>4, CapacityAssumption DEF Ahead, Index
<1> QED
  BY <1>1, <1>2, <1>3, <1>4

\* A write to the slot at the head is not seen in the contents.
LEMMA HeadNotInContents ==
    ASSUME Inv, NEW i \in 1 .. Ahead(tail, head)
    PROVE  (tail + i - 1) % Capacity \in Index /\ (tail + i - 1) % Capacity # head
<1> DEFINE k == i - 1
<1>1. /\ tail \in Index /\ head \in Index /\ Ahead(tail, head) \in 0 .. Capacity - 1
      /\ Capacity \in Nat \ {0}
  BY Apart, CapacityAssumption
<1>2. /\ k \in 0 .. Capacity - 1 /\ k < Ahead(tail, head) /\ tail + i - 1 = tail + k
      /\ k \in Int
  BY <1>1 DEF Index
<1> HIDE DEF k
<1>3. /\ (tail + k) % Capacity \in Index
      /\ (tail + k) % Capacity = IF tail + k < Capacity THEN tail + k ELSE tail + k - Capacity
  BY <1>1, <1>2, PlaceIs
<1>4. (tail + k) % Capacity # head
  BY <1>1, <1>2, <1>3 DEF Ahead, Index
<1> QED
  BY <1>2, <1>3, <1>4

LEMMA DataInductive == DataInv /\ [Next]_vars => DataInv'
<1> SUFFICES ASSUME DataInv, [Next]_vars PROVE DataInv'
  OBVIOUS
<1> USE DEF DataInv, Written, Copied, produced, consumed
<1>1. Inv'
  BY InvStep
<1>2. {head, cachedTail, tail, cachedHead} \subseteq Index /\ slots \in [Index -> Items \cup {Torn}]
  BY DEF Inv, TypeOK
<1>3. consumer = "releasing" => tail # head
  BY Apart
<1>4. ASSUME NEW offered \in Items, NEW blocking \in BOOLEAN, Call(offered, blocking)
      PROVE  Written' /\ Copied'
  BY <1>4 DEF Call
<1>5. CASE TryPush
  BY <1>1, <1>2, <1>3, <1>5 DEF TryPush, BeginWrite
<1>6. CASE EndWrite
  BY <1>1, <1>2, <1>3, <1>6 DEF EndWrite
<1>7. CASE Publish
  BY <1>1, <1>7 DEF Publish
<1>8. ASSUME NEW seen \in Index, LoadTail(seen)
      PROVE  Written' /\ Copied'
  BY <1>2, <1>3, <1>8 DEF LoadTail, Full, BeginWrite
<1>9. CASE TryPop
  BY <1>1, <1>9 DEF TryPop
<1>10. CASE EndCopy
  BY <1>1, <1>10 DEF EndCopy
<1>11. CASE Release
  BY <1>1, <1>11 DEF Release
<1>12. ASSUME NEW seen \in Index, LoadHead(seen)
       PROVE  Written' /\ Copied'
  BY <1>12 DEF LoadHead
<1>13. CASE UNCHANGED vars
  BY <1>1, <1>13 DEF vars
<1> QED
  BY <1>1, <1>4, <1>5, <1>6, <1>7, <1>8, <1>9, <1>10, <1>11, <1>12, <1>13
  DEF Next, Producing, Consuming

\* Contents is a sequence of the length the indices say.
ContentsAre ==
    /\ Contents \in Seq(Items \cup {Torn})
    /\ Len(Contents) = Ahead(tail, head)
    /\ \A i \in 1 .. Ahead(tail, head) : Contents[i] = slots[(tail + i - 1) % Capacity]

LEMMA ContentsLength == Inv => ContentsAre
<1> SUFFICES ASSUME Inv PROVE ContentsAre
  OBVIOUS
<1> DEFINE n == Ahead(tail, head)
           Slot(i) == slots[(tail + i - 1) % Capacity]
<1>1. n \in Nat
  BY Apart, CapacityAssumption
<1>2. \A i \in 1 .. n : Slot(i) \in Items \cup {Torn}
  BY HeadNotInContents DEF Inv, TypeOK
<1>3. Contents = [i \in 1 .. n |-> Slot(i)]
  BY DEF Contents
<1> HIDE DEF n, Slot
<1>4. Contents \in [1 .. n -> Items \cup {Torn}] /\ DOMAIN Contents = 1 .. n
  BY <1>2, <1>3
<1>5. Contents \in Seq(Items \cup {Torn})
  BY <1>1, <1>4, SeqDef
<1>6. Len(Contents) = n
  BY <1>1, <1>4, <1>5, LenProperties
<1>7. \A i \in 1 .. n : Contents[i] = Slot(i)
  BY <1>3
<1> QED
  BY <1>5, <1>6, <1>7 DEF n, Slot, ContentsAre

\* The same after a step.
LEMMA ContentsLengthNext == Inv' => ContentsAre'
BY ContentsLength, PTL

\* Steps between the moments the indices move leave the contents alone.
LEMMA ContentsKept ==
    ASSUME Inv, UNCHANGED <<head, tail>>,
           NEW value, slots' = [slots EXCEPT ![head] = value] \/ slots' = slots
    PROVE  Contents' = Contents
<1>1. slots \in [Index -> Items \cup {Torn}] /\ head \in Index
  BY DEF Inv, TypeOK
<1>2. \A i \in 1 .. Ahead(tail, head) :
         slots'[(tail + i - 1) % Capacity] = slots[(tail + i - 1) % Capacity]
  BY <1>1, HeadNotInContents
<1>3. Ahead(tail, head)' = Ahead(tail, head)
  BY DEF Ahead
<1> QED
  BY <1>2, <1>3 DEF Contents

\* The store to head_ appends the item to the contents, and there is room.
LEMMA PublishPushes ==
    ASSUME DataInv, Publish
    PROVE  /\ item \in Items
           /\ Len(Contents) < Capacity - 1
           /\ Contents' = Append(Contents, item)
           /\ delivered' = delivered
<1> DEFINE n == Ahead(tail, head)
           T == Items \cup {Torn}
<1>1. /\ head' = Following(head) /\ producer = "publishing"
      /\ UNCHANGED <<tail, slots, delivered>>
  BY DEF Publish, consumed
<1>2. /\ head \in Index /\ tail \in Index /\ Capacity \in Nat \ {0}
      /\ n \in 0 .. Capacity - 1 /\ n < Capacity - 1
  BY <1>1, Apart, CapacityAssumption DEF DataInv
<1>3. Inv /\ Inv' /\ item \in Items /\ slots[head] = item
  BY <1>1, InvStep DEF DataInv, Written, Inv, TypeOK, Next, Producing
<1>4. head' = IF head = Capacity - 1 THEN 0 ELSE head + 1
  BY <1>1, <1>2, FollowingIs
<1>5. Ahead(tail, head)' = n + 1
  BY <1>1, <1>2, <1>4 DEF Ahead, Index
<1>6. (tail + n) % Capacity = head
  <2>1. (tail + n) % Capacity = IF tail + n < Capacity THEN tail + n ELSE tail + n - Capacity
    <3> HIDE DEF n
    <3> QED
      BY <1>2, PlaceIs
  <2> QED
    BY <1>2, <2>1 DEF Ahead, Index
<1> HIDE DEF n
<1>7. /\ Contents \in Seq(T) /\ Len(Contents) = n
      /\ \A i \in 1 .. n : Contents[i] = slots[(tail + i - 1) % Capacity]
  BY <1>3, ContentsLength DEF n, ContentsAre
<1>8. /\ Contents' \in Seq(T) /\ Len(Contents') = n + 1
      /\ \A i \in 1 .. n + 1 : Contents'[i] = slots[(tail + i - 1) % Capacity]
  <2>1. /\ Contents' \in Seq(T) /\ Len(Contents') = Ahead(tail, head)'
        /\ \A i \in 1 .. Ahead(tail, head)' :
              Contents'[i] = slots'[(tail' + i - 1) % Capacity]
    BY <1>3, ContentsLengthNext DEF ContentsAre
  <2> QED
    BY <1>1, <1>5, <2>1
<1> DEFINE longer == Append(Contents, item)
<1>9. /\ longer \in Seq(T) /\ Len(longer) = n + 1
      /\ \A i \in 1 .. n : longer[i] = Contents[i]
      /\ longer[n + 1] = item
  BY <1>3, <1>7, AppendProperties
<1> DEFINE later == Contents'
<1> HIDE DEF longer, later
<1>10. ASSUME NEW i \in 1 .. n + 1 PROVE later[i] = longer[i]
  <2>1. CASE i \in 1 .. n
    BY <1>7, <1>8, <1>9, <2>1 DEF later
  <2>2. CASE i = n + 1
    <3>1. tail + i - 1 = tail + n
      BY <1>2, <2>2 DEF Index
    <3>2. later[i] = slots[head]
      BY <1>6, <1>8, <3>1 DEF later
    <3> QED
      BY <1>3, <1>9, <2>2, <3>2
  <2> QED
    BY <1>2, <2>1, <2>2
<1>11. later = longer
  BY <1>8, <1>9, <1>10, SeqEqual DEF later
<1> QED
  BY <1>1, <1>2, <1>3, <1>7, <1>11 DEF longer, later

\* The store to tail_ takes the oldest item, which the call returns.
LEMMA ReleasePops ==
    ASSUME DataInv, Release
    PROVE  /\ Contents # <<>>
           /\ delivered' = Head(Contents)
           /\ Contents' = Tail(Contents)
<1> DEFINE n == Ahead(tail, head)
           T == Items \cup {Torn}
<1>1. /\ tail' = Following(tail) /\ consumer = "releasing" /\ delivered' = copy
      /\ UNCHANGED <<head, slots>>
  BY DEF Release, produced
<1>2. /\ head \in Index /\ tail \in Index /\ Capacity \in Nat \ {0}
      /\ n \in 0 .. Capacity - 1 /\ tail # head
  BY <1>1, Apart, CapacityAssumption DEF DataInv
<1>3. Inv /\ Inv' /\ copy = slots[tail]
  BY <1>1, InvStep DEF DataInv, Copied, Next, Consuming
<1>4. tail' = (IF tail = Capacity - 1 THEN 0 ELSE tail + 1) /\ tail' \in Index
  BY <1>1, <1>2, FollowingIs
<1>5. Ahead(tail, head)' = n - 1 /\ n - 1 \in 0 .. Capacity - 1
  BY <1>1, <1>2, <1>4 DEF Ahead, Index
<1>6. (tail + 0) % Capacity = tail
  BY <1>2 DEF Index
<1>7. \A k \in 0 .. n - 2 : (tail' + k) % Capacity = (tail + (k + 1)) % Capacity
  <2> TAKE k \in 0 .. n - 2
  <2> DEFINE up == k + 1
  <2>1. k \in 0 .. Capacity - 1 /\ up \in 0 .. Capacity - 1
    BY <1>2
  <2> HIDE DEF up
  <2>2. (tail' + k) % Capacity = IF tail' + k < Capacity THEN tail' + k ELSE tail' + k - Capacity
    BY <1>4, <2>1, PlaceIs
  <2>3. (tail + up) % Capacity = IF tail + up < Capacity THEN tail + up ELSE tail + up - Capacity
    BY <1>2, <2>1, PlaceIs
  <2>4. (tail' + k) % Capacity = (tail + up) % Capacity
    BY <1>2, <1>4, <2>1, <2>2, <2>3 DEF up, Index
  <2> QED
    BY <2>4 DEF up
<1> HIDE DEF n
<1>8. /\ Contents \in Seq(T) /\ Len(Contents) = n
      /\ \A i \in 1 .. n : Contents[i] = slots[(tail + i - 1) % Capacity]
  BY <1>3, ContentsLength DEF n, ContentsAre
<1>9. /\ Contents' \in Seq(T) /\ Len(Contents') = n - 1
      /\ \A i \in 1 .. n - 1 : Contents'[i] = slots[(tail' + i - 1) % Capacity]
  <2>1. /\ Contents' \in Seq(T) /\ Len(Contents') = Ahead(tail, head)'
        /\ \A i \in 1 .. Ahead(tail, head)' :
              Contents'[i] = slots'[(tail' + i - 1) % Capacity]
    BY <1>3, ContentsLengthNext DEF ContentsAre
  <2> QED
    BY <1>1, <1>5, <2>1
<1>10. Contents # <<>>
  BY <1>5, <1>8, EmptySeq
<1>11. Head(Contents) = slots[tail]
  <2>1. Contents[1] = slots[(tail + 1 - 1) % Capacity]
    BY <1>5, <1>8
  <2>2. tail + 1 - 1 = tail + 0
    BY <1>2 DEF Index
  <2>3. Head(Contents) = Contents[1]
    BY <1>8, <1>10
  <2> QED
    BY <1>6, <2>1, <2>2, <2>3
<1> DEFINE rest  == Tail(Contents)
           later == Contents'
<1>12. /\ rest \in Seq(T) /\ Len(rest) = n - 1
       /\ \A i \in 1 .. n - 1 : rest[i] = Contents[i + 1]
  <2>1. /\ Tail(Contents) \in Seq(T) /\ Len(Tail(Contents)) = Len(Contents) - 1
        /\ \A i \in 1 .. Len(Tail(Contents)) : Tail(Contents)[i] = Contents[i + 1]
    BY <1>8, <1>10, HeadTailProperties
  <2> QED
    BY <1>8, <2>1
<1> HIDE DEF rest, later
<1>13. ASSUME NEW i \in 1 .. n - 1 PROVE later[i] = rest[i]
  <2> DEFINE k == i - 1
  <2>1. k \in 0 .. n - 2 /\ tail' + i - 1 = tail' + k /\ tail + (i + 1) - 1 = tail + (k + 1)
        /\ i + 1 \in 1 .. n
    BY <1>2, <1>4, <1>5 DEF Index
  <2> HIDE DEF k
  <2>2. later[i] = slots[(tail' + k) % Capacity]
    BY <1>9, <2>1 DEF later
  <2>3. rest[i] = slots[(tail + (k + 1)) % Capacity]
    BY <1>8, <1>12, <2>1
  <2> QED
    BY <1>7, <2>1, <2>2, <2>3
<1>14. later = rest
  BY <1>9, <1>12, <1>13, SeqEqual DEF later
<1> QED
  BY <1>1, <1>3, <1>10, <1>11, <1>14 DEF rest, later

LEMMA FifoSteps == DataInv /\ [Next]_vars => [Fifo!Next]_(Fifo!fvars)
<1> SUFFICES ASSUME DataInv, [Next]_vars
             PROVE  \/ Fifo!Next
                    \/ UNCHANGED <<Contents, delivered>>
  BY DEF Fifo!fvars
<1> USE DEF produced, consumed
<1>0. Inv
  BY DEF DataInv
<1>1. CASE Publish
  BY <1>1, PublishPushes DEF Fifo!Next, Fifo!Push
<1>2. CASE Release
  BY <1>2, ReleasePops DEF Fifo!Next, Fifo!Pop
<1>3. ASSUME UNCHANGED <<head, tail, delivered>>,
             \/ UNCHANGED slots
             \/ BeginWrite
             \/ slots' = [slots EXCEPT ![head] = item]
      PROVE  UNCHANGED <<Contents, delivered>>
  BY <1>0, <1>3, ContentsKept DEF BeginWrite
<1>4. ASSUME NEW offered \in Items, NEW blocking \in BOOLEAN, Call(offered, blocking)
      PROVE  UNCHANGED <<Contents, delivered>>
  BY <1>3, <1>4 DEF Call
<1>5. CASE TryPush
  BY <1>3, <1>5 DEF TryPush
<1>6. CASE EndWrite
  BY <1>3, <1>6 DEF EndWrite
<1>7. ASSUME NEW seen \in Index, LoadTail(seen)
      PROVE  UNCHANGED <<Contents, delivered>>
  BY <1>3, <1>7 DEF LoadTail, Full
<1>8. CASE TryPop \/ EndCopy
  BY <1>3, <1>8 DEF TryPop, EndCopy
<1>9. ASSUME NEW seen \in Index, LoadHead(seen)
      PROVE  UNCHANGED <<Contents, delivered>>
  BY <1>3, <1>9 DEF LoadHead
<1>10. CASE UNCHANGED vars
  BY <1>3, <1>10 DEF vars
<1> QED
  BY <1>1, <1>2, <1>4, <1>5, <1>6, <1>7, <1>8, <1>9, <1>10 DEF Next, Producing, Consuming

\* The ring behaves as a FIFO of at most Capacity - 1 items, for every capacity
\* and every set of items: a push that returns has appended its item, a pop has
\* taken the oldest, and no other step changes the contents, although slots are
\* written word by word and both threads read stale indices.
THEOREM SafelyImplementsFifo == Spec => Fifo!Init /\ [][Fifo!Next]_(Fifo!fvars)
<1>1. Init => Fifo!Init
  <2> SUFFICES ASSUME Init PROVE Contents = <<>> /\ delivered \notin Items
    BY DEF Fifo!Init
  <2>1. Ahead(tail, head) = 0
    BY DEF Init, Ahead
  <2> QED
    BY <2>1, TornAssumption DEF Init, Contents
<1>2. Init => DataInv
  BY InvInit DEF Init, DataInv, Written, Copied
<1> QED
  BY <1>1, <1>2, DataInductive, FifoSteps, PTL DEF Spec
=============================================================================
