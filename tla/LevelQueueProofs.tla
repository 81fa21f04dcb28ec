-------------------------- MODULE LevelQueueProofs --------------------------
(***************************************************************************)
(* Lemmas about the operators of LevelQueue, what they return and what they *)
(* leave in the level, and about the folds and sums of the models.         *)
(***************************************************************************)
EXTENDS LevelQueue, SequenceTheorems, FiniteSetTheorems, WellFoundedInduction, TLAPS

\* A quantity reduced modulo QMod is a quantity.
LEMMA ModIsQuantity ==
    ASSUME NEW n \in Int
    PROVE  n % QMod \in Quantity
BY QModAssumption DEF Quantity

\* A function on 1 .. n is a sequence of length n.
LEMMA FunctionIsSeq ==
    ASSUME NEW S, NEW n \in Nat, NEW f \in [1 .. n -> S]
    PROVE  f \in Seq(S) /\ Len(f) = n
<1>1. f \in Seq(S)
  BY SeqDef
<1>2. DOMAIN f = 1 .. n /\ DOMAIN f = 1 .. Len(f) /\ Len(f) \in Nat
  BY <1>1, LenProperties
<1> QED
  BY <1>1, <1>2

\* Erasing an index entry moves no node.
LEMMA UnindexType ==
    ASSUME NEW Ids, NEW queue \in Seq(Node(Ids)), NEW id
    PROVE  /\ Unindex(queue, id) \in Seq(Node(Ids))
           /\ Len(Unindex(queue, id)) = Len(queue)
<1>1. DOMAIN queue = 1 .. Len(queue) /\ Len(queue) \in Nat
  BY LenProperties
<1>2. ASSUME NEW i \in 1 .. Len(queue)
      PROVE  /\ queue[i] \in Node(Ids)
             /\ [queue[i] EXCEPT !.indexed = FALSE] \in Node(Ids)
  <2>1. queue[i] \in Node(Ids)
    BY ElementOfSeq
  <2> QED
    BY <2>1 DEF Node
<1>3. Unindex(queue, id) \in [1 .. Len(queue) -> Node(Ids)]
  BY <1>1, <1>2 DEF Unindex
<1> QED
  BY <1>1, <1>3, FunctionIsSeq

LEMMA AddNodeType ==
    ASSUME NEW Ids, NEW queue \in Seq(Node(Ids)),
           NEW id \in Ids, NEW quantity \in Quantity
    PROVE  /\ AddNode(queue, id, quantity) \in Seq(Node(Ids))
           /\ AddNode(queue, id, quantity) # <<>>
<1>1. [id |-> id, quantity |-> quantity, indexed |-> TRUE] \in Node(Ids)
  BY DEF Node
<1>2. Unindex(queue, id) \in Seq(Node(Ids))
  BY UnindexType
<1> QED
  BY <1>1, <1>2, AppendProperties DEF AddNode

LEMMA PopFrontType ==
    ASSUME NEW Ids, NEW queue \in Seq(Node(Ids)), queue # <<>>
    PROVE  PopFront(queue) \in Seq(Node(Ids))
<1>1. Tail(queue) \in Seq(Node(Ids))
  BY HeadTailProperties
<1> DEFINE rest == Tail(queue)
<1>2. \A id : Unindex(rest, id) \in Seq(Node(Ids))
  <2> HIDE DEF rest
  <2> QED
    BY <1>1, UnindexType DEF rest
<1> QED
  BY <1>2 DEF PopFront

LEMMA FillFrontType ==
    ASSUME NEW Ids, NEW queue \in Seq(Node(Ids)), queue # <<>>,
           NEW quantity \in Quantity
    PROVE  FillFront(queue, quantity) \in Seq(Node(Ids))
<1>1. CASE quantity >= Head(queue).quantity
  BY <1>1, PopFrontType DEF FillFront
<1>2. CASE ~(quantity >= Head(queue).quantity)
  <2>1. queue[1] \in Node(Ids) /\ Head(queue) = queue[1]
    OBVIOUS
  <2>2. queue[1].quantity - quantity \in Quantity
    BY <1>2, <2>1, QModAssumption DEF Node, Quantity
  <2>3. [queue[1] EXCEPT !.quantity = @ - quantity] \in Node(Ids)
    BY <2>1, <2>2 DEF Node
  <2>4. [queue EXCEPT ![1].quantity = @ - quantity] \in Seq(Node(Ids))
    BY <2>3
  <2> QED
    BY <1>2, <2>4 DEF FillFront
<1> QED
  BY <1>1, <1>2

LEMMA ModifyNodeType ==
    ASSUME NEW Ids, NEW queue \in Seq(Node(Ids)), NEW id,
           NEW quantity \in Quantity
    PROVE  ModifyNode(queue, id, quantity) \in Seq(Node(Ids))
<1>1. DOMAIN queue = 1 .. Len(queue) /\ Len(queue) \in Nat
  BY LenProperties
<1>2. ASSUME NEW i \in 1 .. Len(queue)
      PROVE  /\ queue[i] \in Node(Ids)
             /\ [queue[i] EXCEPT !.quantity = quantity] \in Node(Ids)
  <2>1. queue[i] \in Node(Ids)
    BY ElementOfSeq
  <2> QED
    BY <2>1 DEF Node
<1>3. ModifyNode(queue, id, quantity) \in [1 .. Len(queue) -> Node(Ids)]
  BY <1>1, <1>2 DEF ModifyNode
<1> QED
  BY <1>1, <1>3, FunctionIsSeq

LEMMA RemoveAtType ==
    ASSUME NEW S, NEW seq \in Seq(S), NEW i \in 1 .. Len(seq)
    PROVE  RemoveAt(seq, i) \in Seq(S)
<1>1. Len(seq) \in Nat /\ i \in Int /\ i - 1 \in Int /\ i + 1 \in Int
  BY LenProperties
<1>2. \A j \in 1 .. i - 1 : seq[j] \in S
  BY <1>1, ElementOfSeq
<1>3. \A j \in i + 1 .. Len(seq) : seq[j] \in S
  BY <1>1, ElementOfSeq
<1>4. SubSeq(seq, 1, i - 1) \in Seq(S)
  BY <1>1, <1>2, SubSeqProperties
<1>5. SubSeq(seq, i + 1, Len(seq)) \in Seq(S)
  BY <1>1, <1>3, SubSeqProperties
<1> QED
  BY <1>4, <1>5, ConcatProperties DEF RemoveAt

\* Removing finds nothing to remove in an empty level.
LEMMA RemoveNodeType ==
    ASSUME NEW Ids, NEW queue \in Seq(Node(Ids)), NEW id
    PROVE  /\ RemoveNode(queue, id) \in Seq(Node(Ids))
           /\ RemoveNode(queue, id) # <<>> => queue # <<>>
<1>1. CASE Found(queue, id) = {}
  BY <1>1 DEF RemoveNode
<1>2. CASE Found(queue, id) # {}
  <2> DEFINE i == CHOOSE j \in Found(queue, id) : TRUE
  <2>1. i \in DOMAIN queue
    BY <1>2 DEF Found
  <2>2. i \in 1 .. Len(queue) /\ queue # <<>>
    BY <2>1, LenProperties, EmptySeq
  <2>3. RemoveAt(queue, i) \in Seq(Node(Ids))
    BY <2>2, RemoveAtType
  <2> QED
    BY <1>2, <2>2, <2>3 DEF RemoveNode
<1> QED
  BY <1>1, <1>2

-----------------------------------------------------------------------------
(***************************************************************************)
(* The nodes of a level, when no identifier has two of them.  Only then is *)
(* an identifier's index entry sure to point to its node.                  *)
(***************************************************************************)

\* No identifier has two nodes, and the index reaches every node.
Reachable(queue) ==
    /\ \A i, j \in DOMAIN queue : queue[i].id = queue[j].id => i = j
    /\ \A i \in DOMAIN queue : queue[i].indexed = TRUE

\* Erasing the entry of an identifier without a node changes nothing.
LEMMA UnindexOfAbsent ==
    ASSUME NEW Ids, NEW queue \in Seq(Node(Ids)), NEW id,
           \A i \in DOMAIN queue : queue[i].id # id
    PROVE  Unindex(queue, id) = queue
<1>1. queue = [i \in DOMAIN queue |-> queue[i]]
  BY LenProperties
<1> QED
  BY <1>1 DEF Unindex

\* A node added for a new identifier is the last of the level and is reachable.
LEMMA AddNodeNodes ==
    ASSUME NEW Ids, NEW queue \in Seq(Node(Ids)), Reachable(queue),
           NEW id \in Ids, NEW quantity \in Quantity,
           \A i \in DOMAIN queue : queue[i].id # id
    PROVE  /\ Reachable(AddNode(queue, id, quantity))
           /\ Range(AddNode(queue, id, quantity)) =
                 Range(queue) \cup {[id |-> id, quantity |-> quantity, indexed |-> TRUE]}
<1> DEFINE node == [id |-> id, quantity |-> quantity, indexed |-> TRUE]
           new == Append(queue, node)
<1>1. node \in Node(Ids) /\ node.id = id /\ node.indexed = TRUE
  BY DEF Node
<1>2. AddNode(queue, id, quantity) = new
  BY UnindexOfAbsent DEF AddNode
<1> HIDE DEF node
<1>3. /\ new \in Seq(Node(Ids)) /\ Len(new) = Len(queue) + 1
      /\ \A i \in 1 .. Len(queue) : new[i] = queue[i]
      /\ new[Len(queue) + 1] = node
  BY <1>1, AppendProperties
<1>4. /\ DOMAIN queue = 1 .. Len(queue) /\ Len(queue) \in Nat
      /\ DOMAIN new = 1 .. Len(queue) + 1
  BY <1>3, LenProperties
<1> HIDE DEF new
<1>5. Reachable(new)
  BY <1>1, <1>3, <1>4 DEF Reachable
<1>6. Range(new) = Range(queue) \cup {node}
  BY <1>3, <1>4 DEF Range
<1> QED
  BY <1>2, <1>5, <1>6 DEF node

\* Popping takes the front node and no other.
LEMMA PopFrontNodes ==
    ASSUME NEW Ids, NEW queue \in Seq(Node(Ids)), queue # <<>>, Reachable(queue)
    PROVE  /\ Reachable(PopFront(queue))
           /\ Range(PopFront(queue)) = {node \in Range(queue) : node.id # Head(queue).id}
<1> DEFINE rest == Tail(queue)
<1>1. /\ rest \in Seq(Node(Ids)) /\ Len(rest) = Len(queue) - 1
      /\ \A i \in 1 .. Len(rest) : rest[i] = queue[i + 1]
  BY HeadTailProperties
<1>2. /\ DOMAIN queue = 1 .. Len(queue) /\ Len(queue) \in Nat \ {0}
      /\ DOMAIN rest = 1 .. Len(queue) - 1
  BY <1>1, LenProperties, EmptySeq
<1>3. Head(queue) = queue[1]
  OBVIOUS
<1> HIDE DEF rest
<1>4. \A i \in DOMAIN rest : i + 1 \in DOMAIN queue /\ rest[i].id # Head(queue).id
  BY <1>1, <1>2, <1>3 DEF Reachable
<1>5. PopFront(queue) = rest
  BY <1>1, <1>4, UnindexOfAbsent DEF PopFront, rest
<1>6. Reachable(rest)
  <2>1. ASSUME NEW i \in DOMAIN rest, NEW j \in DOMAIN rest, rest[i].id = rest[j].id
        PROVE  i = j
    <3>1. queue[i + 1].id = queue[j + 1].id
      BY <1>1, <1>2, <2>1
    <3>2. i + 1 = j + 1
      BY <1>4, <3>1 DEF Reachable
    <3> QED
      BY <1>2, <3>2
  <2>2. ASSUME NEW i \in DOMAIN rest
        PROVE  rest[i].indexed = TRUE
    <3>1. rest[i] = queue[i + 1] /\ i + 1 \in DOMAIN queue
      BY <1>1, <1>2
    <3> QED
      BY <3>1 DEF Reachable
  <2> QED
    BY <2>1, <2>2 DEF Reachable
<1>7. Range(rest) \subseteq {node \in Range(queue) : node.id # Head(queue).id}
  BY <1>1, <1>2, <1>4 DEF Range
<1>8. {node \in Range(queue) : node.id # Head(queue).id} \subseteq Range(rest)
  <2> SUFFICES ASSUME NEW i \in DOMAIN queue, queue[i].id # Head(queue).id
               PROVE  queue[i] \in Range(rest)
    BY DEF Range
  <2>1. i - 1 \in DOMAIN rest /\ rest[i - 1] = queue[i]
    BY <1>1, <1>2, <1>3
  <2> QED
    BY <2>1 DEF Range
<1> QED
  BY <1>5, <1>6, <1>7, <1>8

\* A fill smaller than the front node takes its quantity from that node alone.
LEMMA FillFrontNodes ==
    ASSUME NEW Ids, NEW queue \in Seq(Node(Ids)), queue # <<>>, Reachable(queue),
           NEW quantity \in Quantity, quantity < Head(queue).quantity
    PROVE  /\ Reachable(FillFront(queue, quantity))
           /\ Range(FillFront(queue, quantity)) =
                 {node \in Range(queue) : node.id # Head(queue).id}
                 \cup {[id |-> Head(queue).id, quantity |-> Head(queue).quantity - quantity,
                        indexed |-> TRUE]}
<1> DEFINE left == Head(queue).quantity - quantity
           node == [id |-> Head(queue).id, quantity |-> left, indexed |-> TRUE]
           new == [queue EXCEPT ![1] = node]
<1>1. /\ DOMAIN queue = 1 .. Len(queue) /\ Len(queue) \in Nat \ {0}
      /\ Head(queue) = queue[1]
  BY LenProperties, EmptySeq
<1>2. queue[1] \in Node(Ids) /\ queue[1].indexed = TRUE
  <2>1. 1 \in DOMAIN queue
    BY <1>1
  <2>2. queue[1].indexed = TRUE
    BY <2>1 DEF Reachable
  <2> QED
    BY <1>1, <2>1, <2>2, ElementOfSeq
<1>3. ~(quantity >= Head(queue).quantity)
  BY <1>1, <1>2 DEF Node, Quantity
<1>4. FillFront(queue, quantity) = [queue EXCEPT ![1].quantity = left]
  BY <1>1, <1>3 DEF FillFront
<1> HIDE DEF left
<1>5. [queue[1] EXCEPT !.quantity = left] = node
  <2> DEFINE front == queue[1]
  <2> HIDE DEF front
  <2>1. front \in Node(Ids) /\ front.indexed = TRUE /\ Head(queue) = front
    BY <1>1, <1>2 DEF front
  <2>2. [front EXCEPT !.quantity = left] =
           [id |-> front.id, quantity |-> left, indexed |-> front.indexed]
    BY <2>1 DEF Node
  <2> QED
    BY <2>1, <2>2 DEF front
<1>6. FillFront(queue, quantity) = new
  BY <1>1, <1>4, <1>5
<1>7. node.id = queue[1].id /\ node.indexed = TRUE
  BY <1>1
<1> HIDE DEF node
<1>8. /\ DOMAIN new = 1 .. Len(queue) /\ new[1] = node
      /\ \A i \in 2 .. Len(queue) : new[i] = queue[i]
  BY <1>1
<1> HIDE DEF new
<1>9. Reachable(new)
  BY <1>1, <1>7, <1>8 DEF Reachable
<1>10. Range(new) \subseteq {other \in Range(queue) : other.id # Head(queue).id} \cup {node}
  <2> SUFFICES ASSUME NEW i \in 1 .. Len(queue), i # 1
               PROVE  new[i] \in {other \in Range(queue) : other.id # Head(queue).id}
    BY <1>8 DEF Range
  <2> QED
    BY <1>1, <1>8 DEF Range, Reachable
<1>11. {other \in Range(queue) : other.id # Head(queue).id} \cup {node} \subseteq Range(new)
  <2>1. node \in Range(new)
    BY <1>1, <1>8 DEF Range
  <2>2. ASSUME NEW i \in DOMAIN queue, queue[i].id # Head(queue).id
        PROVE  queue[i] \in Range(new)
    BY <1>1, <1>8, <2>2 DEF Range
  <2> QED
    BY <2>1, <2>2 DEF Range
<1> QED
  BY <1>6, <1>9, <1>10, <1>11 DEF node, left

\* The index finds a node that is there, and no other.
LEMMA FoundIsTheNode ==
    ASSUME NEW Ids, NEW queue \in Seq(Node(Ids)), Reachable(queue),
           NEW i \in DOMAIN queue
    PROVE  Found(queue, queue[i].id) = {i}
BY DEF Found, Reachable

\* t is s without its element at k.
LacksElement(t, s, k) ==
    /\ Len(t) = Len(s) - 1
    /\ \A i \in 1 .. Len(t) : t[i] = IF i < k THEN s[i] ELSE s[i + 1]

\* What RemoveAt leaves.
LEMMA RemoveAtLeaves ==
    ASSUME NEW S, NEW seq \in Seq(S), NEW gone \in 1 .. Len(seq)
    PROVE  RemoveAt(seq, gone) \in Seq(S) /\ LacksElement(RemoveAt(seq, gone), seq, gone)
<1> DEFINE new   == RemoveAt(seq, gone)
           front == SubSeq(seq, 1, gone - 1)
           rest  == SubSeq(seq, gone + 1, Len(seq))
<1>1. Len(seq) \in Nat /\ gone \in Nat
  BY LenProperties
<1>2. \A i \in 1 .. Len(seq) : seq[i] \in S
  BY ElementOfSeq
<1>3. /\ front \in Seq(S) /\ Len(front) = gone - 1
      /\ \A i \in 1 .. gone - 1 : front[i] = seq[i]
  <2> DEFINE m == gone - 1
  <2>1. m \in Nat /\ 1 \in Int /\ m <= Len(seq)
    BY <1>1
  <2> HIDE DEF m
  <2>2. \A i \in 1 .. m : seq[i] \in S
    BY <1>1, <1>2, <2>1
  <2>3. /\ SubSeq(seq, 1, m) \in Seq(S)
        /\ Len(SubSeq(seq, 1, m)) = IF 1 <= m THEN m - 1 + 1 ELSE 0
        /\ \A i \in 1 .. m - 1 + 1 : SubSeq(seq, 1, m)[i] = seq[1 + i - 1]
    BY <2>1, <2>2, SubSeqProperties
  <2>4. Len(SubSeq(seq, 1, m)) = m /\ \A i \in 1 .. m : SubSeq(seq, 1, m)[i] = seq[i]
    BY <2>1, <2>3
  <2> QED
    BY <2>3, <2>4 DEF m
<1>4. /\ rest \in Seq(S) /\ Len(rest) = Len(seq) - gone
      /\ \A i \in 1 .. Len(seq) - gone : rest[i] = seq[gone + i]
  <2> DEFINE m == gone + 1
  <2>1. m \in Int /\ 1 <= m /\ Len(seq) \in Int
    BY <1>1
  <2>2. m = gone + 1
    OBVIOUS
  <2> HIDE DEF m
  <2>3. \A i \in m .. Len(seq) : seq[i] \in S
    BY <1>1, <1>2, <2>1
  <2>4. /\ SubSeq(seq, m, Len(seq)) \in Seq(S)
        /\ Len(SubSeq(seq, m, Len(seq))) = IF m <= Len(seq) THEN Len(seq) - m + 1 ELSE 0
        /\ \A i \in 1 .. Len(seq) - m + 1 : SubSeq(seq, m, Len(seq))[i] = seq[m + i - 1]
    BY <2>1, <2>3, SubSeqProperties
  <2>5. Len(SubSeq(seq, m, Len(seq))) = Len(seq) - gone
    BY <1>1, <2>2, <2>4
  <2>6. ASSUME NEW i \in 1 .. Len(seq) - gone
        PROVE  SubSeq(seq, m, Len(seq))[i] = seq[gone + i]
    <3>1. i \in 1 .. Len(seq) - m + 1 /\ m + i - 1 = gone + i
      BY <1>1, <2>2
    <3> QED
      BY <2>4, <3>1
  <2> QED
    BY <2>4, <2>5, <2>6 DEF m
<1>5. new = front \o rest
  BY DEF RemoveAt
<1> HIDE DEF new, front, rest
<1>6. /\ new \in Seq(S) /\ Len(new) = Len(seq) - 1
      /\ \A i \in 1 .. Len(front) + Len(rest) :
            new[i] = IF i <= Len(front) THEN front[i] ELSE rest[i - Len(front)]
  <2>1. new \in Seq(S) /\ Len(new) = Len(front) + Len(rest)
    BY <1>3, <1>4, <1>5, ConcatProperties
  <2>2. Len(front) + Len(rest) = Len(seq) - 1
    BY <1>1, <1>3, <1>4
  <2> QED
    BY <1>3, <1>4, <1>5, <2>1, <2>2, ConcatProperties
<1>7. ASSUME NEW i \in 1 .. Len(new)
      PROVE  new[i] = IF i < gone THEN seq[i] ELSE seq[i + 1]
  <2>1. i \in 1 .. Len(front) + Len(rest) /\ i \in Nat
    BY <1>1, <1>3, <1>4, <1>6
  <2>2. new[i] = IF i <= Len(front) THEN front[i] ELSE rest[i - Len(front)]
    BY <1>6, <2>1
  <2>3. CASE i < gone
    <3>1. i <= Len(front) /\ i \in 1 .. gone - 1
      BY <1>1, <1>3, <2>1, <2>3
    <3> QED
      BY <1>3, <2>2, <2>3, <3>1
  <2>4. CASE ~(i < gone)
    <3> DEFINE k == i - Len(front)
    <3>1. ~(i <= Len(front)) /\ k \in 1 .. Len(seq) - gone /\ gone + k = i + 1
      BY <1>1, <1>3, <1>4, <2>1, <2>4
    <3> HIDE DEF k
    <3>2. rest[k] = seq[i + 1]
      BY <1>4, <3>1
    <3> QED
      BY <2>2, <2>4, <3>1, <3>2 DEF k
  <2> QED
    BY <2>3, <2>4
<1>8. LacksElement(new, seq, gone)
  BY <1>6, <1>7 DEF LacksElement
<1> QED
  BY <1>6, <1>8 DEF new

\* Removing an identifier takes its node and no other.
LEMMA RemoveNodeNodes ==
    ASSUME NEW Ids, NEW queue \in Seq(Node(Ids)), Reachable(queue),
           NEW gone \in DOMAIN queue
    PROVE  /\ Reachable(RemoveNode(queue, queue[gone].id))
           /\ Range(RemoveNode(queue, queue[gone].id)) =
                 {node \in Range(queue) : node.id # queue[gone].id}
<1> DEFINE new == RemoveAt(queue, gone)
<1>1. DOMAIN queue = 1 .. Len(queue) /\ Len(queue) \in Nat /\ gone \in 1 .. Len(queue)
  BY LenProperties
<1>2. RemoveNode(queue, queue[gone].id) = new
  <2>1. Found(queue, queue[gone].id) = {gone}
    BY FoundIsTheNode
  <2>2. (CHOOSE i \in Found(queue, queue[gone].id) : TRUE) = gone
    BY <2>1
  <2> QED
    BY <2>1, <2>2 DEF RemoveNode
<1>3. new \in Seq(Node(Ids)) /\ LacksElement(new, queue, gone)
  BY <1>1, RemoveAtLeaves
<1> HIDE DEF new
<1>4. /\ new \in Seq(Node(Ids)) /\ Len(new) = Len(queue) - 1
      /\ DOMAIN new = 1 .. Len(queue) - 1
  <2>1. Len(new) = Len(queue) - 1
    BY <1>3 DEF LacksElement
  <2> QED
    BY <1>3, <2>1, LenProperties
<1>5. \A i \in 1 .. Len(queue) - 1 : new[i] = IF i < gone THEN queue[i] ELSE queue[i + 1]
  BY <1>3, <1>4 DEF LacksElement
<1>6. Reachable(new)
  <2>1. ASSUME NEW i \in DOMAIN new, NEW j \in DOMAIN new, new[i].id = new[j].id
        PROVE  i = j
    <3>1. \A k, l \in 1 .. Len(queue) : queue[k].id = queue[l].id => k = l
      BY <1>1 DEF Reachable
    <3> QED
      BY <1>1, <1>4, <1>5, <2>1, <3>1
  <2>2. ASSUME NEW i \in DOMAIN new
        PROVE  new[i].indexed = TRUE
    <3>1. \E k \in DOMAIN queue : new[i] = queue[k]
      BY <1>1, <1>4, <1>5
    <3> QED
      BY <3>1 DEF Reachable
  <2> QED
    BY <2>1, <2>2 DEF Reachable
<1>7. Range(new) \subseteq {node \in Range(queue) : node.id # queue[gone].id}
  <2> SUFFICES ASSUME NEW i \in DOMAIN new
               PROVE  new[i] \in Range(queue) /\ new[i].id # queue[gone].id
    BY DEF Range
  <2>1. \E k \in DOMAIN queue : k # gone /\ new[i] = queue[k]
    BY <1>1, <1>4, <1>5
  <2> QED
    BY <2>1 DEF Reachable, Range
<1>8. {node \in Range(queue) : node.id # queue[gone].id} \subseteq Range(new)
  <2> SUFFICES ASSUME NEW k \in DOMAIN queue, k # gone
               PROVE  \E i \in DOMAIN new : new[i] = queue[k]
    BY DEF Range
  <2>1. CASE k < gone
    BY <1>1, <1>4, <1>5, <2>1
  <2>2. CASE k > gone
    <3>1. k - 1 \in DOMAIN new /\ new[k - 1] = queue[k]
      BY <1>1, <1>4, <1>5, <2>2
    <3> QED
      BY <3>1
  <2> QED
    BY <1>1, <2>1, <2>2
<1> QED
  BY <1>2, <1>6, <1>7, <1>8

\* Modifying gives the node of the identifier its new quantity, in its place.
LEMMA ModifyNodeNodes ==
    ASSUME NEW Ids, NEW queue \in Seq(Node(Ids)), Reachable(queue),
           NEW place \in DOMAIN queue, NEW quantity \in Quantity
    PROVE  /\ Reachable(ModifyNode(queue, queue[place].id, quantity))
           /\ Range(ModifyNode(queue, queue[place].id, quantity)) =
                 {node \in Range(queue) : node.id # queue[place].id}
                 \cup {[id |-> queue[place].id, quantity |-> quantity, indexed |-> TRUE]}
<1> DEFINE node == [id |-> queue[place].id, quantity |-> quantity, indexed |-> TRUE]
           new  == ModifyNode(queue, queue[place].id, quantity)
<1>1. /\ queue[place] \in Node(Ids) /\ queue[place].indexed = TRUE
  BY LenProperties, ElementOfSeq DEF Reachable
<1>2. [queue[place] EXCEPT !.quantity = quantity] = node
  <2> DEFINE old == queue[place]
  <2> HIDE DEF old
  <2>1. old \in Node(Ids) /\ old.indexed = TRUE /\ queue[place] = old
    BY <1>1 DEF old
  <2>2. [old EXCEPT !.quantity = quantity] =
           [id |-> old.id, quantity |-> quantity, indexed |-> old.indexed]
    BY <2>1 DEF Node
  <2> QED
    BY <2>1, <2>2 DEF old
<1>3. node.id = queue[place].id /\ node.indexed = TRUE
  OBVIOUS
<1> HIDE DEF node
<1>4. /\ DOMAIN new = DOMAIN queue /\ new[place] = node
      /\ \A i \in DOMAIN queue : i # place => new[i] = queue[i]
  <2>1. Found(queue, queue[place].id) = {place}
    BY FoundIsTheNode
  <2>2. new = [i \in DOMAIN queue |-> IF i = place
                  THEN [queue[i] EXCEPT !.quantity = quantity] ELSE queue[i]]
    BY <2>1 DEF ModifyNode
  <2> HIDE DEF new
  <2> QED
    BY <1>2, <2>2
<1> HIDE DEF new
<1>5. Reachable(new)
  BY <1>3, <1>4 DEF Reachable
<1>6. Range(new) \subseteq {other \in Range(queue) : other.id # queue[place].id} \cup {node}
  <2> SUFFICES ASSUME NEW i \in DOMAIN queue, i # place
               PROVE  new[i] \in Range(queue) /\ new[i].id # queue[place].id
    BY <1>4 DEF Range
  <2> QED
    BY <1>4 DEF Range, Reachable
<1>7. {other \in Range(queue) : other.id # queue[place].id} \cup {node} \subseteq Range(new)
  <2>1. node \in Range(new)
    BY <1>4 DEF Range
  <2>2. ASSUME NEW i \in DOMAIN queue, queue[i].id # queue[place].id
        PROVE  queue[i] \in Range(new)
    BY <1>4, <2>2 DEF Range
  <2> QED
    BY <2>1, <2>2 DEF Range
<1> QED
  BY <1>5, <1>6, <1>7 DEF node, new

-----------------------------------------------------------------------------
(***************************************************************************)
(* What FoldLeft computes.  FoldLeft is a recursive function over the sets *)
(* of positions of a sequence; the step it makes is an operator, which no  *)
(* lemma can range over, so the lemmas speak of a function F that agrees   *)
(* with the step where it matters.  Induction is on the positions, by way  *)
(* of the least counterexample.                                            *)
(***************************************************************************)

\* A nonempty set of numbers has a least element.
LEMMA LeastNumber ==
    ASSUME NEW T \in SUBSET Nat, T # {}
    PROVE  \E x \in T : \A y \in T : x <= y
<1> DEFINE R == OpToRel(<, Nat)
<1>1. IsWellFoundedOn(R, Nat)
  BY NatLessThanWellFounded
<1>2. \A x, y \in Nat : y < x => <<y, x>> \in R
  BY DEF OpToRel
<1> HIDE DEF R
<1>3. PICK x \in T : \A y \in T : ~(<<y, x>> \in R)
  BY <1>1, WFMin
<1>4. ASSUME NEW y \in T PROVE x <= y
  <2>1. x \in Nat /\ y \in Nat
    OBVIOUS
  <2>2. ~(y < x)
    BY <1>2, <1>3, <2>1
  <2> QED
    BY <2>1, <2>2
<1> QED
  BY <1>3, <1>4

\* A set that holds zero, and the successor of each of its numbers below n,
\* holds every number up to n.
LEMMA InductionUpTo ==
    ASSUME NEW n \in Nat, NEW S, 0 \in S,
           \A i \in 0 .. n - 1 : i \in S => i + 1 \in S
    PROVE  \A i \in 0 .. n : i \in S
<1> DEFINE T == {i \in 0 .. n : i \notin S}
<1> SUFFICES ASSUME T # {} PROVE FALSE
  OBVIOUS
<1>1. T \in SUBSET Nat
  OBVIOUS
<1> HIDE DEF T
<1>2. PICK x \in T : \A y \in T : x <= y
  BY <1>1, LeastNumber
<1>3. x \in 0 .. n /\ x \notin S /\ x # 0
  BY <1>2 DEF T
<1>4. x - 1 \in 0 .. n - 1 /\ x - 1 + 1 = x /\ ~(x <= x - 1)
  BY <1>3
<1>5. x - 1 \in S
  BY <1>2, <1>4 DEF T
<1> QED
  BY <1>3, <1>4, <1>5

\* A nonempty set of positions has a largest one.
LEMMA MaxOfPositions ==
    ASSUME NEW n \in Nat, NEW s \in SUBSET (1 .. n), s # {}
    PROVE  Max(s) \in s /\ \A x \in s : x <= Max(s)
<1> DEFINE T == {n - x : x \in s}
<1>1. T \in SUBSET Nat /\ T # {}
  <2>1. PICK x \in s : TRUE
    OBVIOUS
  <2>2. n - x \in T
    BY <2>1
  <2>3. \A y \in s : n - y \in Nat
    OBVIOUS
  <2> QED
    BY <2>2, <2>3
<1>2. PICK low \in T : \A y \in T : low <= y
  BY <1>1, LeastNumber
<1>3. PICK top \in s : low = n - top
  BY <1>2
<1>4. \A x \in s : top >= x
  <2> TAKE x \in s
  <2>1. n - top <= n - x
    BY <1>2, <1>3
  <2> QED
    BY <2>1
<1>5. Max(s) \in s /\ \A x \in s : Max(s) >= x
  BY <1>4 DEF Max
<1> QED
  BY <1>5

\* The largest of the first positions is the last of them.
LEMMA MaxOfFirst ==
    ASSUME NEW i \in Nat \ {0}
    PROVE  /\ Max(1 .. i) = i /\ 1 .. i # {}
           /\ (1 .. i) \ {Max(1 .. i)} = 1 .. i - 1
<1>1. i \in 1 .. i
  OBVIOUS
<1>2. Max(1 .. i) \in 1 .. i /\ \A x \in 1 .. i : x <= Max(1 .. i)
  BY <1>1, MaxOfPositions
<1>3. Max(1 .. i) = i
  BY <1>1, <1>2
<1> QED
  BY <1>1, <1>3

\* A function that folds the positions of "seq" one by one, as FoldLeft does:
\* F combines what came before with the next element.
FoldsWith(h, F, A, base, seq) ==
    /\ h[{}] = base
    /\ \A s \in (SUBSET DOMAIN seq) \ {{}} :
          h[s \ {Max(s)}] \in A =>
              h[s] = F[<<h[s \ {Max(s)}], seq[Max(s)]>>]

\* There is one: the recursion of FoldLeft has a solution.
LEMMA FoldExists ==
    ASSUME NEW A, NEW B, NEW F \in [A \X B -> A], NEW base \in A, NEW seq \in Seq(B)
    PROVE  \E h \in [SUBSET DOMAIN seq -> A] : FoldsWith(h, F, A, base, seq)
<1> DEFINE Solves(n, h) ==
              /\ h \in [SUBSET (1 .. n) -> A]
              /\ h[{}] = base
              /\ \A s \in (SUBSET (1 .. n)) \ {{}} :
                    h[s] = F[<<h[s \ {Max(s)}], seq[Max(s)]>>]
           S == {n \in 0 .. Len(seq) : \E h : Solves(n, h)}
<1>1. Len(seq) \in Nat /\ DOMAIN seq = 1 .. Len(seq)
  BY LenProperties
<1>2. 0 \in S
  <2>1. Solves(0, [s \in SUBSET (1 .. 0) |-> base])
    OBVIOUS
  <2> QED
    BY <1>1, <2>1
<1>3. ASSUME NEW n \in 0 .. Len(seq) - 1, n \in S PROVE n + 1 \in S
  <2>1. PICK g : Solves(n, g)
    BY <1>3
  <2>2. n \in Nat /\ n + 1 \in 0 .. Len(seq) /\ n + 1 \in DOMAIN seq /\ n + 1 \notin 1 .. n
        /\ 1 .. n + 1 = (1 .. n) \cup {n + 1}
    BY <1>1
  <2>3. seq[n + 1] \in B
    BY <1>1, <2>2, ElementOfSeq
  <2> DEFINE h == [s \in SUBSET (1 .. n + 1) |->
                      IF n + 1 \in s THEN F[<<g[s \ {n + 1}], seq[n + 1]>>] ELSE g[s]]
  <2>4. \A s \in SUBSET (1 .. n + 1) :
           /\ s \ {n + 1} \in SUBSET (1 .. n)
           /\ n + 1 \notin s => s \in SUBSET (1 .. n)
    BY <2>2
  <2>5. h \in [SUBSET (1 .. n + 1) -> A]
    <3> SUFFICES ASSUME NEW s \in SUBSET (1 .. n + 1)
                 PROVE  (IF n + 1 \in s THEN F[<<g[s \ {n + 1}], seq[n + 1]>>] ELSE g[s]) \in A
      OBVIOUS
    <3>1. g[s \ {n + 1}] \in A
      BY <2>1, <2>4
    <3>2. F[<<g[s \ {n + 1}], seq[n + 1]>>] \in A
      BY <2>3, <3>1
    <3>3. n + 1 \notin s => g[s] \in A
      BY <2>1, <2>4
    <3> QED
      BY <3>2, <3>3
  <2>6. h[{}] = base
    BY <2>1
  <2>7. ASSUME NEW s \in (SUBSET (1 .. n + 1)) \ {{}}
        PROVE  h[s] = F[<<h[s \ {Max(s)}], seq[Max(s)]>>]
    <3>1. Max(s) \in s /\ (\A x \in s : x <= Max(s))
      <4>1. s \in SUBSET (1 .. n + 1) /\ s # {} /\ n + 1 \in Nat
        BY <2>2
      <4> QED
        BY <4>1, MaxOfPositions
    <3>2. CASE n + 1 \in s
      <4>1. Max(s) = n + 1
        <5>1. Max(s) \in 1 .. n + 1 /\ n + 1 <= Max(s)
          BY <3>1, <3>2
        <5> QED
          BY <2>2, <5>1
      <4>2. h[s \ {n + 1}] = g[s \ {n + 1}] /\ h[s] = F[<<g[s \ {n + 1}], seq[n + 1]>>]
        BY <2>4, <3>2
      <4> HIDE DEF h
      <4> QED
        BY <4>1, <4>2
    <3>3. CASE n + 1 \notin s
      <4>1. s \in (SUBSET (1 .. n)) \ {{}} /\ s \ {Max(s)} \in SUBSET (1 .. n + 1)
            /\ n + 1 \notin s \ {Max(s)}
        BY <2>4, <3>3
      <4>2. h[s] = g[s] /\ h[s \ {Max(s)}] = g[s \ {Max(s)}]
        BY <3>3, <4>1
      <4>3. g[s] = F[<<g[s \ {Max(s)}], seq[Max(s)]>>]
        BY <2>1, <4>1
      <4> HIDE DEF h
      <4> QED
        BY <4>2, <4>3
    <3> QED
      BY <3>2, <3>3
  <2>8. Solves(n + 1, h)
    <3> HIDE DEF h
    <3> QED
      BY <2>5, <2>6, <2>7
  <2> HIDE DEF h, Solves
  <2> QED
    BY <2>2, <2>8
<1> HIDE DEF S
<1>4. Len(seq) \in S
  BY <1>1, <1>2, <1>3, InductionUpTo
<1>5. PICK h : Solves(Len(seq), h)
  BY <1>4 DEF S
<1>6. FoldsWith(h, F, A, base, seq)
  BY <1>1, <1>5 DEF FoldsWith
<1> QED
  BY <1>1, <1>5, <1>6

\* The values of such a function at the first positions, one after the other.
RunsAs(h, F, A, base, seq) ==
    /\ h[1 .. 0] = base
    /\ \A i \in 0 .. Len(seq) : h[1 .. i] \in A
    /\ \A i \in 1 .. Len(seq) : h[1 .. i] = F[<<h[1 .. i - 1], seq[i]>>]

\* What such a function makes of the first positions.
LEMMA FoldRuns ==
    ASSUME NEW A, NEW B, NEW F \in [A \X B -> A], NEW base \in A, NEW seq \in Seq(B),
           NEW h, FoldsWith(h, F, A, base, seq)
    PROVE  RunsAs(h, F, A, base, seq)
<1> DEFINE S == {i \in 0 .. Len(seq) : h[1 .. i] \in A}
<1>1. Len(seq) \in Nat /\ DOMAIN seq = 1 .. Len(seq)
  BY LenProperties
<1>2. h[1 .. 0] = base
  <2>1. 1 .. 0 = {}
    OBVIOUS
  <2> QED
    BY <2>1 DEF FoldsWith
<1>3. ASSUME NEW i \in 1 .. Len(seq), h[1 .. i - 1] \in A
      PROVE  h[1 .. i] = F[<<h[1 .. i - 1], seq[i]>>] /\ h[1 .. i] \in A
  <2>1. /\ Max(1 .. i) = i /\ 1 .. i # {}
        /\ (1 .. i) \ {Max(1 .. i)} = 1 .. i - 1
    BY <1>1, MaxOfFirst
  <2>2. 1 .. i \in (SUBSET DOMAIN seq) \ {{}}
    BY <1>1, <2>1
  <2>3. h[1 .. i] = F[<<h[1 .. i - 1], seq[i]>>]
    BY <1>3, <2>1, <2>2 DEF FoldsWith
  <2>4. seq[i] \in B
    BY ElementOfSeq
  <2> QED
    BY <1>3, <2>3, <2>4
<1>4. 0 \in S
  BY <1>1, <1>2
<1>5. ASSUME NEW i \in 0 .. Len(seq) - 1, i \in S PROVE i + 1 \in S
  <2> DEFINE next == i + 1
  <2>1. next \in 1 .. Len(seq) /\ next - 1 = i /\ next \in 0 .. Len(seq)
    BY <1>1
  <2> HIDE DEF next
  <2>2. h[1 .. next - 1] \in A
    BY <1>5, <2>1
  <2>3. h[1 .. next] \in A
    BY <1>3, <2>1, <2>2
  <2> QED
    BY <2>1, <2>3 DEF next
<1> HIDE DEF S
<1>6. \A i \in 0 .. Len(seq) : i \in S
  BY <1>1, <1>4, <1>5, InductionUpTo
<1>7. \A i \in 0 .. Len(seq) : h[1 .. i] \in A
  BY <1>6 DEF S
<1>8. ASSUME NEW i \in 1 .. Len(seq)
      PROVE  h[1 .. i] = F[<<h[1 .. i - 1], seq[i]>>]
  <2>1. i - 1 \in 0 .. Len(seq)
    BY <1>1
  <2> QED
    BY <1>3, <1>7, <2>1
<1> QED
  BY <1>2, <1>7, <1>8 DEF RunsAs

\* v is what folding the whole of "seq" comes to.
FoldsTo(v, F, A, base, seq) == \E h : FoldsWith(h, F, A, base, seq) /\ v = h[DOMAIN seq]

\* Folding goes one element after the other: nothing comes to the base, and one
\* more element is one more step.
FoldsStepwise(F, A, B, base) ==
    /\ \A v : FoldsTo(v, F, A, base, <<>>) => v = base
    /\ \A seq \in Seq(B), x \in B : \A v, w :
          FoldsTo(v, F, A, base, seq) /\ FoldsTo(w, F, A, base, Append(seq, x)) =>
              v \in A /\ w = F[<<v, x>>]

LEMMA FoldStep ==
    ASSUME NEW A, NEW B, NEW F \in [A \X B -> A], NEW base \in A
    PROVE  FoldsStepwise(F, A, B, base)
<1>1. ASSUME NEW v, FoldsTo(v, F, A, base, <<>>) PROVE v = base
  BY <1>1 DEF FoldsTo, FoldsWith
<1>2. ASSUME NEW seq \in Seq(B), NEW x \in B, NEW v, NEW w,
             FoldsTo(v, F, A, base, seq), FoldsTo(w, F, A, base, Append(seq, x))
      PROVE  v \in A /\ w = F[<<v, x>>]
  <2> DEFINE more == Append(seq, x)
  <2>1. PICK h : FoldsWith(h, F, A, base, seq) /\ v = h[DOMAIN seq]
    BY <1>2 DEF FoldsTo
  <2>2. PICK k : FoldsWith(k, F, A, base, more) /\ w = k[DOMAIN more]
    BY <1>2 DEF FoldsTo
  <2> DEFINE S == {i \in 0 .. Len(seq) : k[1 .. i] = h[1 .. i]}
  <2>3. Len(seq) \in Nat /\ DOMAIN seq = 1 .. Len(seq)
    BY LenProperties
  <2>4. /\ more \in Seq(B) /\ Len(more) = Len(seq) + 1
        /\ \A i \in 1 .. Len(seq) : more[i] = seq[i]
        /\ more[Len(seq) + 1] = x
    BY AppendProperties
  <2> HIDE DEF more
  <2>5. DOMAIN more = 1 .. Len(seq) + 1
    BY <2>4, LenProperties
  <2>6. /\ h[1 .. 0] = base
        /\ \A i \in 0 .. Len(seq) : h[1 .. i] \in A
        /\ \A i \in 1 .. Len(seq) : h[1 .. i] = F[<<h[1 .. i - 1], seq[i]>>]
    <3>1. RunsAs(h, F, A, base, seq)
      BY <2>1, FoldRuns
    <3> QED
      BY <3>1 DEF RunsAs
  <2>7. /\ k[1 .. 0] = base
        /\ \A i \in 1 .. Len(seq) + 1 : k[1 .. i] = F[<<k[1 .. i - 1], more[i]>>]
    <3>1. RunsAs(k, F, A, base, more)
      BY <2>2, <2>4, FoldRuns
    <3> QED
      BY <2>4, <3>1 DEF RunsAs
  <2>8. 0 \in S
    BY <2>3, <2>6, <2>7
  <2>9. ASSUME NEW i \in 0 .. Len(seq) - 1, i \in S PROVE i + 1 \in S
    <3>1. i + 1 \in 1 .. Len(seq) /\ i + 1 \in 1 .. Len(seq) + 1
          /\ i + 1 - 1 = i /\ i + 1 \in 0 .. Len(seq)
      BY <2>3
    <3>2. k[1 .. i + 1] = F[<<k[1 .. i], seq[i + 1]>>]
      BY <2>4, <2>7, <3>1
    <3>3. h[1 .. i + 1] = F[<<h[1 .. i], seq[i + 1]>>]
      BY <2>6, <3>1
    <3> QED
      BY <2>9, <3>1, <3>2, <3>3
  <2> HIDE DEF S
  <2>10. Len(seq) \in S
    <3>1. \A i \in 0 .. Len(seq) : i \in S
      BY <2>3, <2>8, <2>9, InductionUpTo
    <3> QED
      BY <2>3, <3>1
  <2>11. Len(seq) + 1 \in 1 .. Len(seq) + 1 /\ Len(seq) + 1 - 1 = Len(seq)
        /\ Len(seq) \in 0 .. Len(seq)
    BY <2>3
  <2>12. k[1 .. Len(seq) + 1] = F[<<h[1 .. Len(seq)], x>>]
    BY <2>4, <2>7, <2>10, <2>11 DEF S
  <2> QED
    BY <2>1, <2>2, <2>3, <2>5, <2>6, <2>11, <2>12
<1> QED
  BY <1>1, <1>2 DEF FoldsStepwise

\* A set that holds the empty sequence, and with a sequence every sequence one
\* element longer, holds all sequences.
LEMMA InductionOnSeq ==
    ASSUME NEW B, NEW S, <<>> \in S,
           \A seq \in Seq(B), x \in B : seq \in S => Append(seq, x) \in S
    PROVE  \A seq \in Seq(B) : seq \in S
<1> SUFFICES ASSUME NEW whole \in Seq(B) PROVE whole \in S
  OBVIOUS
<1> DEFINE T == {n \in 0 .. Len(whole) : \A seq \in Seq(B) : Len(seq) = n => seq \in S}
<1>1. Len(whole) \in Nat
  BY LenProperties
<1>2. 0 \in T
  <2>1. \A seq \in Seq(B) : Len(seq) = 0 => seq = <<>>
    BY EmptySeq
  <2> QED
    BY <1>1, <2>1
<1>3. ASSUME NEW n \in 0 .. Len(whole) - 1, n \in T PROVE n + 1 \in T
  <2>1. n \in Nat /\ n + 1 \in 0 .. Len(whole) /\ n + 1 # 0
    BY <1>1
  <2>2. ASSUME NEW seq \in Seq(B), Len(seq) = n + 1 PROVE seq \in S
    <3>1. seq # <<>>
      BY <2>1, <2>2, EmptySeq
    <3>2. PICK front \in Seq(B), last \in B : seq = Append(front, last)
      BY <3>1, SequenceEmptyOrAppend
    <3>3. Len(front) + 1 = n + 1 /\ Len(front) \in Nat
      BY <2>2, <3>2, AppendProperties, LenProperties
    <3>4. Len(front) = n
      BY <2>1, <3>3
    <3>5. front \in S
      BY <1>3, <3>4
    <3> QED
      BY <3>2, <3>5
  <2> QED
    BY <2>1, <2>2
<1> HIDE DEF T
<1>4. \A n \in 0 .. Len(whole) : n \in T
  BY <1>1, <1>2, <1>3, InductionUpTo
<1>5. Len(whole) \in T
  BY <1>1, <1>4
<1> QED
  BY <1>5 DEF T

-----------------------------------------------------------------------------
(* Sums of natural numbers *)

\* p[i] is the sum of the first i numbers of s.
Sums(p, s) ==
    /\ p \in [0 .. Len(s) -> Nat]
    /\ p[0] = 0
    /\ \A i \in 1 .. Len(s) : p[i] = p[i - 1] + s[i]

SumOf(s) == CHOOSE v : \E p : Sums(p, s) /\ v = p[Len(s)]

\* There are such sums, and they end in SumOf.
LEMMA SumsExist ==
    ASSUME NEW s \in Seq(Nat)
    PROVE  \E p : Sums(p, s) /\ p[Len(s)] = SumOf(s)
<1> DEFINE add == [pair \in Nat \X Nat |-> pair[1] + pair[2]]
<1>1. Len(s) \in Nat /\ DOMAIN s = 1 .. Len(s) /\ \A i \in 1 .. Len(s) : s[i] \in Nat
  BY LenProperties, ElementOfSeq
<1>2. add \in [Nat \X Nat -> Nat] /\ \A a, b \in Nat : add[<<a, b>>] = a + b
  OBVIOUS
<1> HIDE DEF add
<1>3. PICK h : FoldsWith(h, add, Nat, 0, s)
  BY <1>2, FoldExists
<1>4. /\ h[1 .. 0] = 0
      /\ \A i \in 0 .. Len(s) : h[1 .. i] \in Nat
      /\ \A i \in 1 .. Len(s) : h[1 .. i] = add[<<h[1 .. i - 1], s[i]>>]
  <2>1. RunsAs(h, add, Nat, 0, s)
    BY <1>2, <1>3, FoldRuns
  <2> QED
    BY <2>1 DEF RunsAs
<1> DEFINE p == [i \in 0 .. Len(s) |-> h[1 .. i]]
<1>5. p \in [0 .. Len(s) -> Nat] /\ p[0] = 0
  BY <1>1, <1>4
<1>6. ASSUME NEW i \in 1 .. Len(s) PROVE p[i] = p[i - 1] + s[i]
  <2>1. i \in 0 .. Len(s) /\ i - 1 \in 0 .. Len(s)
    BY <1>1
  <2>2. p[i] = h[1 .. i] /\ p[i - 1] = h[1 .. i - 1] /\ h[1 .. i - 1] \in Nat
    BY <1>4, <2>1
  <2> QED
    BY <1>1, <1>2, <1>4, <2>2
<1> HIDE DEF p
<1>7. Sums(p, s)
  BY <1>5, <1>6 DEF Sums
<1>8. \E v : \E q : Sums(q, s) /\ v = q[Len(s)]
  BY <1>7
<1> QED
  BY <1>8 DEF SumOf

\* Nothing adds up to nothing.
LEMMA SumOfNone ==
    ASSUME NEW s \in Seq(Nat), \A i \in 1 .. Len(s) : s[i] = 0
    PROVE  SumOf(s) = 0
<1>1. PICK p : Sums(p, s) /\ p[Len(s)] = SumOf(s)
  BY SumsExist
<1>2. Len(s) \in Nat
  BY LenProperties
<1> DEFINE S == {i \in 0 .. Len(s) : p[i] = 0}
<1>3. 0 \in S
  BY <1>1, <1>2 DEF Sums
<1>4. ASSUME NEW i \in 0 .. Len(s) - 1, i \in S PROVE i + 1 \in S
  <2>1. i + 1 \in 1 .. Len(s) /\ i + 1 \in 0 .. Len(s) /\ (i + 1) - 1 = i
    BY <1>2
  <2>2. p[i + 1] = p[i] + s[i + 1]
    BY <1>1, <2>1 DEF Sums
  <2> QED
    BY <1>4, <2>1, <2>2
<1> HIDE DEF S
<1>5. \A i \in 0 .. Len(s) : i \in S
  BY <1>2, <1>3, <1>4, InductionUpTo
<1>6. Len(s) \in S
  BY <1>2, <1>5
<1> QED
  BY <1>1, <1>6 DEF S

\* t is s with up to n less at one position at most.
LessBy(t, s, n) ==
    /\ Len(t) = Len(s)
    /\ \E k : \A i \in 1 .. Len(s) : IF i = k THEN s[i] <= t[i] + n ELSE s[i] <= t[i]

LEMMA SumLessBy ==
    ASSUME NEW s \in Seq(Nat), NEW t \in Seq(Nat), NEW n \in Nat, LessBy(t, s, n)
    PROVE  SumOf(s) <= SumOf(t) + n
<1>1. PICK p : Sums(p, s) /\ p[Len(s)] = SumOf(s)
  BY SumsExist
<1>2. PICK q : Sums(q, t) /\ q[Len(t)] = SumOf(t)
  BY SumsExist
<1>3. PICK k : \A i \in 1 .. Len(s) : IF i = k THEN s[i] <= t[i] + n ELSE s[i] <= t[i]
  BY DEF LessBy
<1>4. Len(s) \in Nat /\ Len(t) = Len(s)
  BY LenProperties DEF LessBy
<1> DEFINE Bound(i) == /\ p[i] <= q[i] + n
                       /\ ~(k \in 1 .. i) => p[i] <= q[i]
           S == {i \in 0 .. Len(s) : Bound(i)}
<1>5. 0 \in S
  BY <1>1, <1>2, <1>4 DEF Sums
<1>6. ASSUME NEW i \in 0 .. Len(s) - 1, i \in S PROVE i + 1 \in S
  <2> DEFINE j == i + 1
  <2>1. j \in 1 .. Len(s) /\ j \in 0 .. Len(s) /\ j - 1 = i /\ i \in 0 .. Len(s)
    BY <1>4
  <2>2. p[j] = p[i] + s[j] /\ q[j] = q[i] + t[j]
    BY <1>1, <1>2, <1>4, <2>1 DEF Sums
  <2>3. p[i] \in Nat /\ q[i] \in Nat /\ s[j] \in Nat /\ t[j] \in Nat
    BY <1>1, <1>2, <1>4, <2>1, ElementOfSeq DEF Sums
  <2>4. Bound(i)
    BY <1>6
  <2>5. k \in 1 .. j <=> k \in 1 .. i \/ k = j
    BY <2>1
  <2>6. IF k = j THEN s[j] <= t[j] + n ELSE s[j] <= t[j]
    BY <1>3, <2>1
  <2> HIDE DEF j
  <2>7. \A a, b, c, d \in Nat : (a <= b /\ c <= d + n) \/ (a <= b + n /\ c <= d)
                                  => a + c <= (b + d) + n
    OBVIOUS
  <2>8. p[j] <= q[j] + n
    <3>1. CASE k = j
      <4>1. p[i] <= q[i]
        BY <2>1, <2>4, <3>1
      <4> QED
        BY <2>2, <2>3, <2>6, <2>7, <3>1, <4>1, Zenon
    <3>2. CASE k # j
      <4>1. p[i] <= q[i] + n /\ s[j] <= t[j]
        BY <2>4, <2>6, <3>2
      <4> QED
        BY <2>2, <2>3, <2>7, <4>1, Zenon
    <3> QED
      BY <3>1, <3>2
  <2>9. ASSUME ~(k \in 1 .. j) PROVE p[j] <= q[j]
    <3>1. p[i] <= q[i] /\ s[j] <= t[j]
      <4>1. 1 <= j /\ j \in Int
        BY <2>1
      <4>2. k # j
        BY <2>9, <4>1
      <4> QED
        BY <2>4, <2>5, <2>6, <2>9, <4>2
    <3>2. \A a, b, c, d \in Nat : a <= b /\ c <= d => a + c <= b + d
      OBVIOUS
    <3> QED
      BY <2>2, <2>3, <3>1, <3>2, Zenon
  <2>10. j \in S
    BY <2>1, <2>8, <2>9
  <2> QED
    BY <2>10 DEF j
<1> HIDE DEF S
<1>7. \A i \in 0 .. Len(s) : i \in S
  BY <1>4, <1>5, <1>6, InductionUpTo
<1>8. Len(s) \in S
  BY <1>4, <1>7
<1> QED
  BY <1>1, <1>2, <1>4, <1>8 DEF S

\* The first number can be added last.
LEMMA SumOfTail ==
    ASSUME NEW s \in Seq(Nat), s # <<>>
    PROVE  /\ Tail(s) \in Seq(Nat)
           /\ SumOf(s) = s[1] + SumOf(Tail(s))
<1>1. /\ Tail(s) \in Seq(Nat) /\ Len(s) \in Nat \ {0} /\ Len(Tail(s)) = Len(s) - 1
      /\ \A i \in 1 .. Len(Tail(s)) : Tail(s)[i] = s[i + 1]
  BY LenProperties, HeadTailProperties, EmptySeq
<1> DEFINE t == Tail(s)
<1> HIDE DEF t
<1>2. /\ t \in Seq(Nat) /\ Len(t) = Len(s) - 1 /\ Len(t) \in Nat
      /\ \A i \in 1 .. Len(t) : t[i] = s[i + 1]
  BY <1>1 DEF t
<1>3. PICK p : Sums(p, s) /\ p[Len(s)] = SumOf(s)
  BY SumsExist
<1>4. PICK q : Sums(q, t) /\ q[Len(t)] = SumOf(t)
  BY <1>2, SumsExist
<1> DEFINE S == {i \in 0 .. Len(t) : p[i + 1] = s[1] + q[i]}
<1>5. 0 \in S
  <2>1. 1 \in 1 .. Len(s) /\ s[1] \in Nat
    BY <1>1, ElementOfSeq
  <2>2. p[1] = p[0] + s[1]
    BY <1>3, <2>1 DEF Sums
  <2>3. p[0] = 0 /\ q[0] = 0
    BY <1>3, <1>4 DEF Sums
  <2> QED
    BY <1>2, <2>1, <2>2, <2>3
<1>6. ASSUME NEW i \in 0 .. Len(t) - 1, i \in S PROVE i + 1 \in S
  <2> DEFINE j == i + 1
             m == j + 1
  <2>1. /\ j \in 1 .. Len(t) /\ j \in 0 .. Len(t) /\ j - 1 = i /\ i \in 0 .. Len(t)
        /\ m \in 1 .. Len(s) /\ m - 1 = j
    BY <1>1, <1>2
  <2>2. p[m] = p[j] + s[m] /\ q[j] = q[i] + t[j] /\ t[j] = s[m]
    BY <1>2, <1>3, <1>4, <2>1 DEF Sums
  <2>3. p[j] = s[1] + q[i]
    BY <1>6
  <2>4. q[i] \in Nat /\ s[m] \in Nat /\ s[1] \in Nat
    <3>1. 1 \in 1 .. Len(s)
      BY <1>1
    <3> QED
      BY <1>4, <2>1, <3>1, ElementOfSeq DEF Sums
  <2>5. p[m] = s[1] + q[j]
    BY <2>2, <2>3, <2>4
  <2> QED
    BY <2>1, <2>5
<1> HIDE DEF S
<1>7. \A i \in 0 .. Len(t) : i \in S
  BY <1>2, <1>5, <1>6, InductionUpTo
<1>8. Len(t) + 1 = Len(s)
  BY <1>1, <1>2
<1>9. Len(t) \in S
  BY <1>2, <1>7
<1> QED
  BY <1>1, <1>3, <1>4, <1>8, <1>9 DEF S, t

-----------------------------------------------------------------------------
(* Sums over a set *)

OneOf(s) == CHOOSE x \in s : TRUE

\* h[s] adds up f over s, one element after the other.
AddsUp(h, f, S) ==
    /\ h \in [SUBSET S -> Nat]
    /\ h[{}] = 0
    /\ \A s \in (SUBSET S) \ {{}} : h[s] = f[OneOf(s)] + h[s \ {OneOf(s)}]

\* One element less.
LEMMA SmallerSet ==
    ASSUME NEW s, IsFiniteSet(s), s # {}
    PROVE  /\ OneOf(s) \in s /\ IsFiniteSet(s \ {OneOf(s)})
           /\ Cardinality(s) \in Nat /\ Cardinality(s) # 0
           /\ Cardinality(s \ {OneOf(s)}) = Cardinality(s) - 1
<1>1. OneOf(s) \in s
  BY DEF OneOf
<1> QED
  BY <1>1, FS_RemoveElement, FS_CardinalityType, FS_EmptySet

\* Such sums exist over finite sets.
LEMMA AddsUpExists ==
    ASSUME NEW S, IsFiniteSet(S), NEW f, \A x \in S : f[x] \in Nat
    PROVE  \E h : AddsUp(h, f, S)
<1> DEFINE Up(h, n) ==
              /\ h \in [SUBSET S -> Nat]
              /\ h[{}] = 0
              /\ \A s \in (SUBSET S) \ {{}} : Cardinality(s) <= n =>
                    h[s] = f[OneOf(s)] + h[s \ {OneOf(s)}]
           most == Cardinality(S)
           K == {n \in 0 .. most : \E h : Up(h, n)}
<1>1. most \in Nat
  BY FS_CardinalityType
<1>2. ASSUME NEW s \in SUBSET S
      PROVE  /\ IsFiniteSet(s) /\ Cardinality(s) \in Nat /\ Cardinality(s) <= most
             /\ Cardinality(s) = 0 <=> s = {}
  BY FS_Subset, FS_CardinalityType, FS_EmptySet
<1>3. ASSUME NEW s \in (SUBSET S) \ {{}}
      PROVE  /\ OneOf(s) \in s /\ s \ {OneOf(s)} \in SUBSET S
             /\ Cardinality(s) \in Nat /\ Cardinality(s) # 0
             /\ Cardinality(s \ {OneOf(s)}) = Cardinality(s) - 1
  BY <1>2, SmallerSet
<1>4. 0 \in K
  <2> DEFINE zero == [s \in SUBSET S |-> 0]
  <2>1. zero \in [SUBSET S -> Nat] /\ zero[{}] = 0
    OBVIOUS
  <2>2. ASSUME NEW s \in (SUBSET S) \ {{}} PROVE ~(Cardinality(s) <= 0)
    <3> DEFINE c == Cardinality(s)
    <3>1. c \in Nat /\ c # 0
      BY <1>3
    <3> HIDE DEF c
    <3>2. ~(c <= 0)
      BY <3>1
    <3> QED
      BY <3>2 DEF c
  <2> HIDE DEF zero
  <2>3. Up(zero, 0)
    BY <2>1, <2>2
  <2> HIDE DEF Up
  <2>4. 0 \in 0 .. most
    BY <1>1
  <2> QED
    BY <2>3, <2>4
<1>5. ASSUME NEW n \in 0 .. most - 1, n \in K PROVE n + 1 \in K
  <2>1. n \in Nat /\ n + 1 \in 0 .. most
    BY <1>1
  <2>2. PICK g : Up(g, n)
    BY <1>5
  <2> DEFINE h == [s \in SUBSET S |-> IF s = {} THEN 0
                                      ELSE IF Cardinality(s) <= n THEN g[s]
                                      ELSE f[OneOf(s)] + g[s \ {OneOf(s)}]]
  <2>3. ASSUME NEW s \in SUBSET S PROVE h[s] \in Nat
    <3>1. CASE s = {}
      BY <3>1
    <3>2. CASE s # {}
      <4>1. g[s] \in Nat /\ g[s \ {OneOf(s)}] \in Nat /\ f[OneOf(s)] \in Nat
        BY <1>3, <2>2, <3>2
      <4> QED
        BY <4>1
    <3> QED
      BY <3>1, <3>2
  <2>4. ASSUME NEW s \in SUBSET S, Cardinality(s) <= n PROVE h[s] = g[s]
    BY <2>2, <2>4
  <2>5. ASSUME NEW s \in (SUBSET S) \ {{}}, Cardinality(s) <= n + 1
        PROVE  h[s] = f[OneOf(s)] + h[s \ {OneOf(s)}]
    <3>1. Cardinality(s \ {OneOf(s)}) <= n
      BY <1>3, <2>1, <2>5
    <3>2. h[s \ {OneOf(s)}] = g[s \ {OneOf(s)}]
      BY <1>3, <2>4, <3>1
    <3>3. CASE Cardinality(s) <= n
      <4>1. h[s] = g[s]
        BY <2>4, <3>3
      <4>2. g[s] = f[OneOf(s)] + g[s \ {OneOf(s)}]
        BY <2>2, <3>3
      <4> HIDE DEF h
      <4> QED
        BY <3>2, <4>1, <4>2
    <3>4. CASE ~(Cardinality(s) <= n)
      <4>1. h[s] = f[OneOf(s)] + g[s \ {OneOf(s)}]
        BY <3>4
      <4> HIDE DEF h
      <4> QED
        BY <3>2, <4>1
    <3> QED
      BY <3>3, <3>4
  <2>6. h \in [SUBSET S -> Nat] /\ h[{}] = 0
    BY <2>3
  <2> HIDE DEF h
  <2>7. Up(h, n + 1)
    BY <2>5, <2>6
  <2> QED
    BY <2>1, <2>7
<1> HIDE DEF K, most
<1>6. \A n \in 0 .. most : n \in K
  BY <1>1, <1>4, <1>5, InductionUpTo
<1>7. most \in K
  BY <1>1, <1>6
<1>8. PICK h : Up(h, most)
  BY <1>7 DEF K
<1>9. AddsUp(h, f, S)
  BY <1>2, <1>8 DEF AddsUp
<1> QED
  BY <1>9

\* Such a sum is a number.
LEMMA SumsOverSets ==
    ASSUME NEW S, IsFiniteSet(S), NEW f, \A x \in S : f[x] \in Nat, NEW h,
           h[{}] = 0,
           \A s \in (SUBSET S) \ {{}} : h[s] = f[OneOf(s)] + h[s \ {OneOf(s)}]
    PROVE  \A s \in SUBSET S : h[s] \in Nat
<1> DEFINE most == Cardinality(S)
           Holds(n) == \A s \in SUBSET S : Cardinality(s) = n => h[s] \in Nat
           K == {n \in 0 .. most : Holds(n)}
<1>1. most \in Nat
  BY FS_CardinalityType
<1>2. ASSUME NEW s \in SUBSET S
      PROVE  /\ IsFiniteSet(s) /\ Cardinality(s) \in Nat /\ Cardinality(s) <= most
             /\ Cardinality(s) = 0 <=> s = {}
  BY FS_Subset, FS_CardinalityType, FS_EmptySet
<1>3. 0 \in K
  BY <1>1, <1>2
<1>4. ASSUME NEW n \in 0 .. most - 1, n \in K PROVE n + 1 \in K
  <2>1. n \in Nat /\ n + 1 \in 0 .. most /\ n + 1 # 0
    BY <1>1
  <2>2. ASSUME NEW s \in SUBSET S, Cardinality(s) = n + 1 PROVE h[s] \in Nat
    <3> DEFINE x == OneOf(s)
               rest == s \ {x}
    <3>1. IsFiniteSet(s) /\ s # {}
      BY <1>2, <2>1, <2>2
    <3>2. x \in s /\ Cardinality(rest) = Cardinality(s) - 1
      BY <3>1, SmallerSet
    <3>3. x \in S /\ rest \in SUBSET S
      BY <3>2
    <3>4. h[s] = f[x] + h[rest]
      BY <3>1
    <3> HIDE DEF x, rest
    <3>5. Cardinality(rest) = n
      BY <2>1, <2>2, <3>2
    <3>6. h[rest] \in Nat
      BY <1>4, <3>3, <3>5
    <3> QED
      BY <3>3, <3>4, <3>6
  <2> QED
    BY <2>1, <2>2
<1> HIDE DEF K
<1>5. \A n \in 0 .. most : n \in K
  BY <1>1, <1>3, <1>4, InductionUpTo
<1>6. ASSUME NEW s \in SUBSET S PROVE h[s] \in Nat
  <2> DEFINE c == Cardinality(s)
  <2>1. c \in 0 .. most
    BY <1>1, <1>2
  <2>2. c \in K
    BY <1>5, <2>1
  <2> QED
    BY <2>2 DEF K
<1> QED
  BY <1>6

\* The sum grows by what one number grows.
LEMMA SumGrows ==
    ASSUME NEW S, IsFiniteSet(S), NEW x \in S, NEW d \in Nat,
           NEW f, \A y \in S : f[y] \in Nat,
           NEW g, \A y \in S : g[y] = f[y] + (IF y = x THEN d ELSE 0),
           NEW h, AddsUp(h, f, S), NEW k, AddsUp(k, g, S)
    PROVE  k[S] = h[S] + d
<1> DEFINE most == Cardinality(S)
           Extra(s) == IF x \in s THEN d ELSE 0
           Holds(n) == \A s \in SUBSET S : Cardinality(s) = n => k[s] = h[s] + Extra(s)
           K == {n \in 0 .. most : Holds(n)}
<1>1. most \in Nat
  BY FS_CardinalityType
<1>2. ASSUME NEW s \in SUBSET S
      PROVE  /\ IsFiniteSet(s) /\ Cardinality(s) \in Nat /\ h[s] \in Nat /\ k[s] \in Nat
             /\ Cardinality(s) = 0 <=> s = {}
  BY FS_Subset, FS_CardinalityType, FS_EmptySet DEF AddsUp
<1>3. 0 \in K
  <2>1. h[{}] = 0 /\ k[{}] = 0 /\ Extra({}) = 0
    BY DEF AddsUp
  <2>2. ASSUME NEW s \in SUBSET S, Cardinality(s) = 0 PROVE k[s] = h[s] + Extra(s)
    <3>1. s = {}
      BY <1>2, <2>2
    <3> QED
      BY <2>1, <3>1
  <2> QED
    BY <1>1, <2>2
<1>4. ASSUME NEW n \in 0 .. most - 1, n \in K PROVE n + 1 \in K
  <2>1. n \in Nat /\ n + 1 \in 0 .. most /\ n + 1 # 0
    BY <1>1
  <2>2. ASSUME NEW s \in SUBSET S, Cardinality(s) = n + 1 PROVE k[s] = h[s] + Extra(s)
    <3> DEFINE y == OneOf(s)
               rest == s \ {y}
    <3>1. IsFiniteSet(s) /\ s # {}
      BY <1>2, <2>1, <2>2
    <3>2. y \in s /\ Cardinality(rest) = Cardinality(s) - 1
      BY <3>1, SmallerSet
    <3>3. y \in S /\ rest \in SUBSET S /\ h[rest] \in Nat
      BY <1>2, <3>2
    <3>4. h[s] = f[y] + h[rest] /\ k[s] = g[y] + k[rest]
      BY <3>1 DEF AddsUp
    <3>5. x \in s <=> x \in rest \/ x = y
      BY <3>2
    <3>6. x \in rest => x # y
      OBVIOUS
    <3> HIDE DEF y, rest
    <3>7. Cardinality(rest) = n
      BY <2>1, <2>2, <3>2
    <3>8. k[rest] = h[rest] + Extra(rest)
      BY <1>4, <3>3, <3>7
    <3>9. g[y] = f[y] + (IF y = x THEN d ELSE 0) /\ f[y] \in Nat
      BY <3>3
    <3> QED
      BY <3>3, <3>4, <3>5, <3>6, <3>8, <3>9
  <2> QED
    BY <2>1, <2>2
<1> HIDE DEF K
<1>5. \A n \in 0 .. most : n \in K
  BY <1>1, <1>3, <1>4, InductionUpTo
<1>6. most \in K
  BY <1>1, <1>5
<1>7. Holds(most)
  BY <1>6 DEF K
<1>8. k[S] = h[S] + Extra(S)
  BY <1>7
<1> QED
  BY <1>8

\* Any element can be taken out of the sum first.
LEMMA SumWithout ==
    ASSUME NEW S, IsFiniteSet(S), NEW f, \A x \in S : f[x] \in Nat,
           NEW h, AddsUp(h, f, S)
    PROVE  \A s \in SUBSET S : \A x \in s : h[s] = f[x] + h[s \ {x}]
<1> DEFINE most == Cardinality(S)
           Holds(n) == \A s \in SUBSET S : Cardinality(s) = n =>
                          \A x \in s : h[s] = f[x] + h[s \ {x}]
           K == {n \in 0 .. most : Holds(n)}
<1>1. most \in Nat
  BY FS_CardinalityType
<1>2. ASSUME NEW s \in SUBSET S
      PROVE  /\ IsFiniteSet(s) /\ Cardinality(s) \in Nat /\ h[s] \in Nat
             /\ Cardinality(s) <= most
             /\ Cardinality(s) = 0 <=> s = {}
  BY FS_Subset, FS_CardinalityType, FS_EmptySet DEF AddsUp
<1>3. 0 \in K
  BY <1>1, <1>2
<1>4. ASSUME NEW n \in 0 .. most - 1, n \in K PROVE n + 1 \in K
  <2>1. n \in Nat /\ n + 1 \in 0 .. most /\ n + 1 # 0
    BY <1>1
  <2>2. ASSUME NEW s \in SUBSET S, Cardinality(s) = n + 1, NEW x \in s
        PROVE  h[s] = f[x] + h[s \ {x}]
    <3> DEFINE y == OneOf(s)
    <3>1. s # {} /\ y \in s /\ h[s] = f[y] + h[s \ {y}]
      BY <1>2, SmallerSet DEF AddsUp
    <3> HIDE DEF y
    <3>2. ASSUME NEW z \in s
          PROVE  s \ {z} \in SUBSET S /\ Cardinality(s \ {z}) = n
      <4>1. Cardinality(s \ {z}) = Cardinality(s) - 1
        BY <1>2, FS_RemoveElement
      <4> QED
        BY <2>1, <2>2, <4>1
    <3>3. CASE x = y
      BY <3>1, <3>3
    <3>4. CASE x # y
      <4> DEFINE rest == (s \ {x}) \ {y}
      <4>1. (s \ {y}) \ {x} = rest
        OBVIOUS
      <4>2. h[s \ {y}] = f[x] + h[rest]
        BY <1>4, <3>1, <3>2, <3>4, <4>1
      <4>3. h[s \ {x}] = f[y] + h[rest]
        BY <1>4, <3>1, <3>2, <3>4
      <4>4. h[rest] \in Nat /\ f[x] \in Nat /\ f[y] \in Nat
        BY <1>2, <3>1
      <4> HIDE DEF rest
      <4> QED
        BY <3>1, <4>2, <4>3, <4>4
    <3> QED
      BY <3>3, <3>4
  <2> QED
    BY <2>1, <2>2
<1> HIDE DEF K
<1>5. \A n \in 0 .. most : n \in K
  BY <1>1, <1>3, <1>4, InductionUpTo
<1>6. ASSUME NEW s \in SUBSET S, NEW x \in s PROVE h[s] = f[x] + h[s \ {x}]
  <2> DEFINE c == Cardinality(s)
  <2>1. c \in 0 .. most
    BY <1>1, <1>2
  <2>2. c \in K
    BY <1>5, <2>1
  <2> QED
    BY <2>2 DEF K
<1> QED
  BY <1>6

\* e lists a set without repetition, and t what f has along it.
Lists(e, n, set) ==
    /\ n \in Nat /\ e \in [1 .. n -> set]
    /\ \A i, j \in 1 .. n : e[i] = e[j] => i = j
    /\ \A x \in set : \E i \in 1 .. n : e[i] = x

Reads(t, f, e, n) ==
    t \in Seq(Nat) /\ Len(t) = n /\ \A i \in 1 .. n : t[i] = f[e[i]]

\* What some more elements, listed in a sequence, add to the sum.
LEMMA SumOfListed ==
    ASSUME NEW S, IsFiniteSet(S), NEW f, \A x \in S : f[x] \in Nat,
           NEW h, AddsUp(h, f, S),
           NEW before \in SUBSET S, NEW more \in SUBSET (S \ before),
           NEW n, NEW e, Lists(e, n, more), NEW t, Reads(t, f, e, n)
    PROVE  h[before \cup more] = h[before] + SumOf(t)
<1> DEFINE With(i) == before \cup {e[j] : j \in 1 .. i}
<1>0. IsFiniteSet(S) /\ AddsUp(h, f, S) /\ \A x \in S : f[x] \in Nat
  OBVIOUS
<1>a. /\ n \in Nat /\ e \in [1 .. n -> more]
      /\ \A i, j \in 1 .. n : e[i] = e[j] => i = j
      /\ \A x \in more : \E i \in 1 .. n : e[i] = x
      /\ t \in Seq(Nat) /\ Len(t) = n /\ \A i \in 1 .. n : t[i] = f[e[i]]
  BY DEF Lists, Reads
<1>1. PICK p : Sums(p, t) /\ p[n] = SumOf(t)
  BY <1>a, SumsExist
<1> DEFINE K == {i \in 0 .. n : h[With(i)] = h[before] + p[i]}
<1>2. \A s \in SUBSET S : h[s] \in Nat
  BY DEF AddsUp
<1>3. 0 \in K
  <2>1. With(0) = before /\ p[0] = 0 /\ h[before] \in Nat
    BY <1>1, <1>2, <1>a DEF Sums
  <2> HIDE DEF With
  <2>2. h[With(0)] = h[before] + p[0]
    BY <2>1
  <2> QED
    BY <1>a, <2>2
<1>4. ASSUME NEW i \in 0 .. n - 1, i \in K PROVE i + 1 \in K
  <2> DEFINE k == i + 1
             x == e[k]
  <2>1. k \in 1 .. n /\ k \in 0 .. n /\ i \in 0 .. n /\ k - 1 = i
    BY <1>a
  <2>2. 1 .. k = (1 .. i) \cup {k} /\ k \notin 1 .. i /\ \A j \in 1 .. i : j \in 1 .. n
    BY <1>a
  <2>3. p[k] = p[i] + t[k] /\ p[i] \in Nat
    BY <1>1, <1>a, <2>1 DEF Sums
  <2> HIDE DEF k
  <2>4. With(k) = With(i) \cup {x}
    BY <2>2
  <2>5. x \notin With(i) /\ x \in S
    BY <1>a, <2>1, <2>2
  <2>6. With(k) \in SUBSET S /\ With(i) \in SUBSET S
    BY <1>a, <2>1, <2>2, <2>4, <2>5
  <2>7. t[k] = f[x] /\ f[x] \in Nat
    BY <1>a, <2>1, <2>5
  <2> HIDE DEF With, x
  <2>8. x \in With(k) /\ With(k) \ {x} = With(i)
    BY <2>4, <2>5
  <2>9. h[With(k)] = f[x] + h[With(i)]
    BY ONLY <1>0, <2>6, <2>8, SumWithout
  <2>10. h[With(i)] = h[before] + p[i]
    BY <1>4
  <2>11. h[With(k)] = h[before] + p[k]
    BY <1>2, <2>3, <2>7, <2>9, <2>10
  <2>12. k \in K
    BY <2>1, <2>11
  <2> QED
    BY <2>12 DEF k
<1> HIDE DEF K
<1>5. \A i \in 0 .. n : i \in K
  BY <1>3, <1>4, <1>a, InductionUpTo
<1>6. n \in K
  BY <1>5, <1>a
<1>7. With(n) = before \cup more
  BY <1>a
<1> HIDE DEF With
<1> QED
  BY <1>1, <1>6, <1>7 DEF K

\* A part of a set adds up to no more.
LEMMA SumOfPart ==
    ASSUME NEW S, IsFiniteSet(S), NEW f, \A x \in S : f[x] \in Nat,
           NEW h, AddsUp(h, f, S)
    PROVE  \A s \in SUBSET S : h[s] \in Nat /\ h[s] <= h[S]
<1> DEFINE most == Cardinality(S)
           Holds(n) == \A s \in SUBSET S : Cardinality(s) = n =>
                          \A part \in SUBSET s : h[part] <= h[s]
           K == {n \in 0 .. most : Holds(n)}
<1>1. most \in Nat
  BY FS_CardinalityType
<1>2. ASSUME NEW s \in SUBSET S
      PROVE  /\ IsFiniteSet(s) /\ Cardinality(s) \in Nat /\ h[s] \in Nat
             /\ Cardinality(s) = 0 <=> s = {}
  BY FS_Subset, FS_CardinalityType, FS_EmptySet DEF AddsUp
<1>3. 0 \in K
  <2>1. ASSUME NEW s \in SUBSET S, Cardinality(s) = 0, NEW part \in SUBSET s
        PROVE  h[part] <= h[s]
    <3>1. s = {} /\ part = {} /\ h[s] \in Nat
      BY <1>2, <2>1
    <3> QED
      BY <3>1
  <2> QED
    BY <1>1, <2>1
<1>4. ASSUME NEW n \in 0 .. most - 1, n \in K PROVE n + 1 \in K
  <2>1. n \in Nat /\ n + 1 \in 0 .. most
    BY <1>1
  <2>2. ASSUME NEW s \in SUBSET S, Cardinality(s) = n + 1, NEW part \in SUBSET s, part # s
        PROVE  h[part] <= h[s]
    <3>1. PICK x \in s : x \notin part
      BY <2>2
    <3> DEFINE rest == s \ {x}
    <3>2. rest \in SUBSET S /\ part \in SUBSET rest /\ x \in S
      BY <3>1
    <3>3. Cardinality(rest) = Cardinality(s) - 1
      BY <1>2, FS_RemoveElement
    <3>4. h[s] = f[x] + h[rest]
      BY SumWithout
    <3> HIDE DEF rest
    <3>5. Cardinality(rest) = n
      BY <2>1, <2>2, <3>3
    <3>6. h[part] <= h[rest]
      BY <1>4, <3>2, <3>5
    <3>7. h[part] \in Nat /\ h[rest] \in Nat /\ f[x] \in Nat
      BY <1>2, <3>2
    <3> QED
      BY <3>4, <3>6, <3>7
  <2>3. ASSUME NEW s \in SUBSET S, Cardinality(s) = n + 1, NEW part \in SUBSET s
        PROVE  h[part] <= h[s]
    <3>1. h[s] \in Nat
      BY <1>2
    <3>2. CASE part = s
      BY <3>1, <3>2
    <3> QED
      BY <2>2, <2>3, <3>2
  <2> QED
    BY <2>1, <2>3
<1> HIDE DEF K
<1>5. \A n \in 0 .. most : n \in K
  BY <1>1, <1>3, <1>4, InductionUpTo
<1>6. most \in K
  BY <1>1, <1>5
<1>7. Holds(most)
  BY <1>6 DEF K
<1>8. \A part \in SUBSET S : h[part] <= h[S]
  BY <1>7
<1> QED
  BY <1>2, <1>8

-----------------------------------------------------------------------------
(* The total of a level *)

\* What TotalQuantity adds for one more node.
AddUp(Ids) == [pair \in Quantity \X Node(Ids) |-> (pair[1] + pair[2].quantity) % QMod]

LEMMA AddUpIs ==
    ASSUME NEW Ids
    PROVE  /\ AddUp(Ids) \in [Quantity \X Node(Ids) -> Quantity]
           /\ 0 \in Quantity
           /\ \A n \in Quantity, node \in Node(Ids) :
                 AddUp(Ids)[<<n, node>>] = (n + node.quantity) % QMod
<1>1. \A n \in Quantity, node \in Node(Ids) : (n + node.quantity) % QMod \in Quantity
  <2> TAKE n \in Quantity, node \in Node(Ids)
  <2>1. n + node.quantity \in Int
    BY DEF Node, Quantity
  <2> QED
    BY <2>1, ModIsQuantity
<1>2. 0 \in Quantity
  BY QModAssumption DEF Quantity
<1> QED
  BY <1>1, <1>2 DEF AddUp

\* TotalQuantity folds the queue.
LEMMA TotalFolds ==
    ASSUME NEW Ids, NEW queue \in Seq(Node(Ids))
    PROVE  FoldsTo(TotalQuantity(queue), AddUp(Ids), Quantity, 0, queue)
<1> DEFINE Sum(f) == [s \in SUBSET DOMAIN queue |->
                        IF s = {} THEN 0
                        ELSE (f[s \ {Max(s)}] + queue[Max(s)].quantity) % QMod]
           h == CHOOSE f : f = Sum(f)
<1>1. Len(queue) \in Nat /\ DOMAIN queue = 1 .. Len(queue)
  BY LenProperties
<1>2. PICK g \in [SUBSET DOMAIN queue -> Quantity] : FoldsWith(g, AddUp(Ids), Quantity, 0, queue)
  BY AddUpIs, FoldExists
<1>3. ASSUME NEW s \in (SUBSET DOMAIN queue) \ {{}}
      PROVE  /\ s \ {Max(s)} \in SUBSET DOMAIN queue
             /\ queue[Max(s)] \in Node(Ids)
  <2>1. Max(s) \in s
    BY <1>1, MaxOfPositions
  <2> QED
    BY <1>1, <2>1, ElementOfSeq
<1>4. ASSUME NEW n \in Quantity, NEW node \in Node(Ids)
      PROVE  AddUp(Ids)[<<n, node>>] = (n + node.quantity) % QMod
  BY AddUpIs
<1>5. g = Sum(g)
  <2>1. ASSUME NEW s \in SUBSET DOMAIN queue
        PROVE  g[s] = IF s = {} THEN 0
                      ELSE (g[s \ {Max(s)}] + queue[Max(s)].quantity) % QMod
    <3>1. CASE s = {}
      BY <1>2, <3>1 DEF FoldsWith
    <3>2. CASE s # {}
      <4>1. g[s \ {Max(s)}] \in Quantity
        BY <1>2, <1>3, <3>2
      <4>2. g[s] = AddUp(Ids)[<<g[s \ {Max(s)}], queue[Max(s)]>>]
        BY <1>2, <3>2, <4>1 DEF FoldsWith
      <4> QED
        BY <1>3, <1>4, <3>2, <4>1, <4>2
    <3> QED
      BY <3>1, <3>2
  <2> QED
    BY <2>1
<1>6. h = Sum(h)
  <2> HIDE DEF Sum
  <2> QED
    BY <1>5
<1>7. TotalQuantity(queue) = h[DOMAIN queue]
  BY DEF TotalQuantity, FoldLeft, MapThenFoldSet
<1> HIDE DEF h
<1>8. FoldsWith(h, AddUp(Ids), Quantity, 0, queue)
  <2>1. h[{}] = 0
    BY <1>6
  <2>2. ASSUME NEW s \in (SUBSET DOMAIN queue) \ {{}}, h[s \ {Max(s)}] \in Quantity
        PROVE  h[s] = AddUp(Ids)[<<h[s \ {Max(s)}], queue[Max(s)]>>]
    <3>1. h[s] = (h[s \ {Max(s)}] + queue[Max(s)].quantity) % QMod
      BY <1>6
    <3> QED
      BY <1>3, <1>4, <2>2, <3>1
  <2> QED
    BY <2>1, <2>2 DEF FoldsWith
<1> QED
  BY <1>7, <1>8 DEF FoldsTo

\* The quantities of a level, and their sum, which does not wrap.
Quantities(queue) == [i \in 1 .. Len(queue) |-> queue[i].quantity]
Depth(queue)   == SumOf(Quantities(queue))

LEMMA AmountsAre ==
    ASSUME NEW Ids, NEW queue \in Seq(Node(Ids))
    PROVE  /\ Quantities(queue) \in Seq(Nat) /\ Len(Quantities(queue)) = Len(queue)
           /\ Len(queue) \in Nat
           /\ \A i \in 1 .. Len(queue) :
                 Quantities(queue)[i] = queue[i].quantity /\ queue[i].quantity \in Quantity
<1>1. Len(queue) \in Nat
  BY LenProperties
<1>2. ASSUME NEW i \in 1 .. Len(queue) PROVE queue[i].quantity \in Quantity
  <2>1. queue[i] \in Node(Ids)
    BY ElementOfSeq
  <2> QED
    BY <2>1 DEF Node
<1>3. Quantity \subseteq Nat
  BY QModAssumption DEF Quantity
<1>4. Quantities(queue) \in [1 .. Len(queue) -> Nat]
  BY <1>2, <1>3 DEF Quantities
<1> QED
  BY <1>1, <1>2, <1>4, FunctionIsSeq DEF Quantities

\* Wrapping only loses.
LEMMA TotalWithin ==
    ASSUME NEW Ids, NEW queue \in Seq(Node(Ids))
    PROVE  /\ Depth(queue) \in Nat /\ TotalQuantity(queue) \in Quantity
           /\ TotalQuantity(queue) <= Depth(queue)
<1> DEFINE n == Len(queue)
<1>1. /\ n \in Nat /\ DOMAIN queue = 1 .. n
      /\ Quantities(queue) \in Seq(Nat) /\ Len(Quantities(queue)) = n
      /\ \A i \in 1 .. n : /\ queue[i] \in Node(Ids)
                           /\ Quantities(queue)[i] = queue[i].quantity
                           /\ queue[i].quantity \in Quantity
  BY AmountsAre, LenProperties, ElementOfSeq
<1>2. PICK p : Sums(p, Quantities(queue)) /\ p[n] = Depth(queue)
  BY <1>1, SumsExist DEF Depth
<1>3. PICK h : /\ FoldsWith(h, AddUp(Ids), Quantity, 0, queue)
               /\ TotalQuantity(queue) = h[1 .. n]
  BY <1>1, TotalFolds DEF FoldsTo
<1>4. /\ h[1 .. 0] = 0
      /\ \A i \in 0 .. n : h[1 .. i] \in Quantity
      /\ \A i \in 1 .. n : h[1 .. i] = AddUp(Ids)[<<h[1 .. i - 1], queue[i]>>]
  <2>1. RunsAs(h, AddUp(Ids), Quantity, 0, queue)
    BY <1>3, AddUpIs, FoldRuns
  <2> QED
    BY <2>1 DEF RunsAs
<1> HIDE DEF n
<1> DEFINE S == {i \in 0 .. n : h[1 .. i] <= p[i]}
<1>5. 0 \in S
  BY <1>1, <1>2, <1>4 DEF Sums
<1>6. ASSUME NEW i \in 0 .. n - 1, i \in S PROVE i + 1 \in S
  <2> DEFINE j == i + 1
             a == h[1 .. i]
             b == queue[j].quantity
  <2>1. j \in 1 .. n /\ j \in 0 .. n /\ j - 1 = i /\ i \in 0 .. n
    BY <1>1
  <2>2. h[1 .. j] = AddUp(Ids)[<<a, queue[j]>>] /\ a \in Quantity
    BY <1>4, <2>1
  <2>3. h[1 .. j] = (a + b) % QMod /\ b \in Quantity
    <3>1. queue[j] \in Node(Ids) /\ b \in Quantity
      <4> HIDE DEF j
      <4> QED
        BY <1>1, <2>1
    <3>2. AddUp(Ids)[<<a, queue[j]>>] = (a + b) % QMod
      <4>1. \A k \in Quantity, node \in Node(Ids) :
               AddUp(Ids)[<<k, node>>] = (k + node.quantity) % QMod
        BY AddUpIs
      <4> HIDE DEF a, j
      <4> QED
        BY <2>2, <3>1, <4>1
    <3> QED
      BY <2>2, <3>1, <3>2
  <2>4. p[j] = p[i] + b /\ p[i] \in Nat
    BY <1>1, <1>2, <2>1 DEF Sums
  <2>5. a <= p[i]
    BY <1>6
  <2> HIDE DEF j, a, b
  <2>6. (a + b) % QMod <= a + b
    BY <2>2, <2>3, QModAssumption DEF Quantity
  <2>7. h[1 .. j] <= p[j]
    BY <2>2, <2>3, <2>4, <2>5, <2>6, QModAssumption DEF Quantity
  <2>8. j \in S
    BY <2>1, <2>7
  <2> QED
    BY <2>8 DEF j
<1> HIDE DEF S
<1>7. \A i \in 0 .. n : i \in S
  BY <1>1, <1>5, <1>6, InductionUpTo
<1>8. n \in S
  BY <1>1, <1>7
<1>9. p[n] \in Nat /\ h[1 .. n] \in Quantity
  BY <1>1, <1>2, <1>4 DEF Sums
<1> QED
  BY <1>2, <1>3, <1>8, <1>9 DEF S

\* A total that does not reach QMod is the sum.
LEMMA TotalExact ==
    ASSUME NEW Ids, NEW queue \in Seq(Node(Ids)), Depth(queue) < QMod
    PROVE  TotalQuantity(queue) = Depth(queue)
<1> DEFINE n == Len(queue)
<1>1. /\ n \in Nat /\ DOMAIN queue = 1 .. n
      /\ Quantities(queue) \in Seq(Nat) /\ Len(Quantities(queue)) = n
      /\ \A i \in 1 .. n : /\ queue[i] \in Node(Ids)
                           /\ Quantities(queue)[i] = queue[i].quantity
                           /\ queue[i].quantity \in Quantity
  BY AmountsAre, LenProperties, ElementOfSeq
<1>2. PICK p : Sums(p, Quantities(queue)) /\ p[n] = Depth(queue)
  BY <1>1, SumsExist DEF Depth
<1>3. PICK h : /\ FoldsWith(h, AddUp(Ids), Quantity, 0, queue)
               /\ TotalQuantity(queue) = h[1 .. n]
  BY <1>1, TotalFolds DEF FoldsTo
<1>4. /\ h[1 .. 0] = 0
      /\ \A i \in 0 .. n : h[1 .. i] \in Quantity
      /\ \A i \in 1 .. n : h[1 .. i] = AddUp(Ids)[<<h[1 .. i - 1], queue[i]>>]
  <2>1. RunsAs(h, AddUp(Ids), Quantity, 0, queue)
    BY <1>3, AddUpIs, FoldRuns
  <2> QED
    BY <2>1 DEF RunsAs
<1> HIDE DEF n
<1>0. n \in Nat
  BY <1>1
<1> DEFINE S == {i \in 0 .. n : p[i] < QMod => h[1 .. i] = p[i]}
<1>5. 0 \in S
  BY <1>1, <1>2, <1>4 DEF Sums
<1>6. ASSUME NEW i \in 0 .. n - 1, i \in S PROVE i + 1 \in S
  <2> DEFINE j == i + 1
             a == h[1 .. i]
             b == queue[j].quantity
  <2>1. j \in 1 .. n /\ j \in 0 .. n /\ j - 1 = i /\ i \in 0 .. n
    BY <1>0
  <2>2. h[1 .. j] = AddUp(Ids)[<<a, queue[j]>>] /\ a \in Quantity
    BY <1>4, <2>1
  <2>3. h[1 .. j] = (a + b) % QMod /\ b \in Quantity
    <3>1. queue[j] \in Node(Ids) /\ b \in Quantity
      <4> HIDE DEF j
      <4> QED
        BY <1>1, <2>1
    <3>2. AddUp(Ids)[<<a, queue[j]>>] = (a + b) % QMod
      <4>1. \A k \in Quantity, node \in Node(Ids) :
               AddUp(Ids)[<<k, node>>] = (k + node.quantity) % QMod
        BY AddUpIs
      <4> HIDE DEF a, j
      <4> QED
        BY <2>2, <3>1, <4>1
    <3> QED
      BY <2>2, <3>1, <3>2
  <2>4. p[j] = p[i] + b /\ p[i] \in Nat
    BY <1>1, <1>2, <2>1 DEF Sums
  <2>5. p[i] < QMod => a = p[i]
    BY <1>6
  <2> HIDE DEF j, a, b
  <2>6. a + b < QMod => (a + b) % QMod = a + b
    BY <2>2, <2>3, QModAssumption DEF Quantity
  <2>7. p[j] < QMod => h[1 .. j] = p[j]
    BY <2>2, <2>3, <2>4, <2>5, <2>6, QModAssumption DEF Quantity
  <2>8. j \in S
    BY <2>1, <2>7
  <2> QED
    BY <2>8 DEF j
<1> HIDE DEF S
<1>7. \A i \in 0 .. n : i \in S
  BY <1>1, <1>5, <1>6, InductionUpTo
<1>8. n \in S
  BY <1>1, <1>7
<1> QED
  BY <1>2, <1>3, <1>8 DEF S

LEMMA DepthOfNone == Depth(<<>>) = 0
<1>1. <<>> \in Seq(Node({})) /\ Len(<<>>) = 0
  BY EmptySeq
<1>2. Quantities(<<>>) \in Seq(Nat) /\ Len(Quantities(<<>>)) = 0
  BY <1>1, AmountsAre
<1>3. \A i \in 1 .. Len(Quantities(<<>>)) : Quantities(<<>>)[i] = 0
  BY <1>2
<1> QED
  BY <1>2, <1>3, SumOfNone DEF Depth

\* A fill of no more than the front node takes no more off the depth.
LEMMA DepthOfFill ==
    ASSUME NEW Ids, NEW queue \in Seq(Node(Ids)), queue # <<>>,
           NEW n \in Quantity, n <= Head(queue).quantity
    PROVE  Depth(queue) <= Depth(FillFront(queue, n)) + n
<1> DEFINE s   == Quantities(queue)
           new == FillFront(queue, n)
           t   == Quantities(new)
<1>1. /\ s \in Seq(Nat) /\ Len(s) = Len(queue) /\ Len(queue) \in Nat \ {0}
      /\ \A i \in 1 .. Len(queue) : s[i] = queue[i].quantity /\ queue[i].quantity \in Quantity
      /\ queue[1] = Head(queue) /\ queue[1] \in Node(Ids)
  <2>1. Len(queue) # 0
    BY EmptySeq
  <2> QED
    BY <2>1, AmountsAre, ElementOfSeq, HeadTailProperties
<1>2. new \in Seq(Node(Ids))
  BY FillFrontType
<1>3. /\ t \in Seq(Nat) /\ Len(t) = Len(new)
      /\ \A i \in 1 .. Len(new) : t[i] = new[i].quantity /\ new[i].quantity \in Quantity
  BY <1>2, AmountsAre
<1>4. n \in Nat /\ Quantity \subseteq Nat
  BY QModAssumption DEF Quantity
<1>5. SumOf(s) \in Nat /\ SumOf(t) \in Nat
  BY <1>2, TotalWithin DEF Depth
<1>6. CASE n >= Head(queue).quantity
  <2>1. n = Head(queue).quantity
    BY <1>1, <1>4, <1>6
  <2>2. new = Unindex(Tail(queue), Head(queue).id)
    BY <1>6 DEF FillFront, PopFront
  <2>3. /\ Tail(queue) \in Seq(Node(Ids)) /\ Len(Tail(queue)) = Len(queue) - 1
        /\ \A i \in 1 .. Len(Tail(queue)) : Tail(queue)[i] = queue[i + 1]
    BY HeadTailProperties
  <2> DEFINE rest == Tail(queue)
             u    == Tail(s)
  <2>4. s # <<>> /\ Head(s) = s[1]
    BY <1>1, EmptySeq, HeadTailProperties
  <2>5. u \in Seq(Nat) /\ SumOf(s) = s[1] + SumOf(u)
    BY <1>1, <2>4, SumOfTail
  <2>6. Len(u) = Len(s) - 1 /\ \A i \in 1 .. Len(u) : u[i] = s[i + 1]
    BY <1>1, <2>4, HeadTailProperties
  <2> HIDE DEF u, rest
  <2>7. /\ Len(new) = Len(queue) - 1
        /\ \A i \in 1 .. Len(new) : new[i].quantity = rest[i].quantity
    <3>1. Len(new) = Len(rest)
      BY <2>2, <2>3, UnindexType DEF rest
    <3>2. DOMAIN rest = 1 .. Len(rest)
      BY <2>3, LenProperties DEF rest
    <3>3. ASSUME NEW i \in 1 .. Len(new) PROVE new[i].quantity = rest[i].quantity
      <4>1. new[i] = IF rest[i].id = Head(queue).id THEN [rest[i] EXCEPT !.indexed = FALSE]
                                                    ELSE rest[i]
        BY <2>2, <3>1, <3>2 DEF Unindex, rest
      <4>2. rest[i] \in Node(Ids)
        BY <2>3, <3>1, ElementOfSeq DEF rest
      <4> HIDE DEF new
      <4> QED
        BY <4>1, <4>2 DEF Node
    <3> QED
      BY <2>3, <3>1, <3>3 DEF rest
  <2> HIDE DEF s, new, t
  <2>8. ASSUME NEW i \in 1 .. Len(u) PROVE u[i] <= t[i]
    <3>1. i \in 1 .. Len(new) /\ i + 1 \in 1 .. Len(queue)
      BY <1>1, <2>6, <2>7
    <3>2. u[i] = queue[i + 1].quantity /\ t[i] = queue[i + 1].quantity
      BY <1>1, <1>3, <2>3, <2>6, <2>7, <3>1 DEF rest
    <3>3. queue[i + 1].quantity \in Nat
      BY <1>1, <1>4, <3>1
    <3> QED
      BY <3>2, <3>3
  <2>9. LessBy(t, u, 0)
    <3>1. Len(t) = Len(u)
      BY <1>1, <1>3, <2>6, <2>7
    <3>2. \A i \in 1 .. Len(u) : IF i = 0 THEN u[i] <= t[i] + 0 ELSE u[i] <= t[i]
      BY <2>8
    <3> QED
      BY <3>1, <3>2 DEF LessBy
  <2>10. SumOf(u) <= SumOf(t) + 0
    BY <1>3, <2>5, <2>9, SumLessBy
  <2>11. s[1] = n
    BY <1>1, <2>1
  <2>12. SumOf(u) \in Nat
    BY <2>5, SumsExist DEF Sums
  <2> QED
    BY <1>4, <1>5, <2>5, <2>10, <2>11, <2>12 DEF Depth, s, t, new
<1>7. CASE ~(n >= Head(queue).quantity)
  <2> DEFINE left == queue[1].quantity - n
  <2>1. left \in Quantity /\ queue[1].quantity = left + n
    BY <1>1, <1>7, QModAssumption DEF Quantity
  <2>2. new = [queue EXCEPT ![1].quantity = left]
    BY <1>7 DEF FillFront
  <2> HIDE DEF left
  <2>3. /\ Len(new) = Len(queue) /\ new[1].quantity = left
        /\ \A i \in 1 .. Len(queue) : i # 1 => new[i] = queue[i]
    <3>1. DOMAIN queue = 1 .. Len(queue) /\ 1 \in DOMAIN queue
      BY <1>1, LenProperties
    <3>2. DOMAIN new = 1 .. Len(new) /\ DOMAIN new = DOMAIN queue /\ Len(new) \in Nat
      BY <1>2, <2>2, LenProperties
    <3>3. new[1] = [queue[1] EXCEPT !.quantity = left]
      BY <2>2, <3>1
    <3> QED
      BY <1>1, <2>2, <3>1, <3>2, <3>3 DEF Node
  <2> HIDE DEF s, new, t
  <2>4. ASSUME NEW i \in 1 .. Len(s)
        PROVE  IF i = 1 THEN s[i] <= t[i] + n ELSE s[i] <= t[i]
    <3>1. CASE i = 1
      BY <1>1, <1>3, <1>4, <2>1, <2>3, <3>1
    <3>2. CASE i # 1
      BY <1>1, <1>3, <1>4, <2>3, <3>2
    <3> QED
      BY <3>1, <3>2
  <2>5. LessBy(t, s, n)
    <3>1. Len(t) = Len(s)
      BY <1>1, <1>3, <2>3
    <3> QED
      BY <2>4, <3>1 DEF LessBy
  <2> QED
    BY <1>1, <1>3, <1>4, <2>5, SumLessBy DEF Depth, s, t, new
<1> QED
  BY <1>6, <1>7

-----------------------------------------------------------------------------
(* What an owner of orders sees of a level *)

EntrySet(Ids) == [id : Ids, quantity : Quantity]

EntryOf(node) == [id |-> node.id, quantity |-> node.quantity]

\* The nodes of a level without their index flags.
Entries(queue) == [i \in 1 .. Len(queue) |-> EntryOf(queue[i])]

\* They are as many, in the same order.
LEMMA EntriesAre ==
    ASSUME NEW Ids, NEW queue \in Seq(Node(Ids))
    PROVE  /\ Entries(queue) \in Seq(EntrySet(Ids)) /\ Len(Entries(queue)) = Len(queue)
           /\ Len(queue) \in Nat
           /\ DOMAIN Entries(queue) = 1 .. Len(queue) /\ DOMAIN queue = 1 .. Len(queue)
           /\ \A i \in 1 .. Len(queue) :
                 /\ queue[i] \in Node(Ids)
                 /\ Entries(queue)[i] = EntryOf(queue[i])
                 /\ Entries(queue)[i] \in EntrySet(Ids)
                 /\ Entries(queue)[i].id = queue[i].id
                 /\ Entries(queue)[i].quantity = queue[i].quantity
<1>1. Len(queue) \in Nat /\ DOMAIN queue = 1 .. Len(queue)
  BY LenProperties
<1>2. ASSUME NEW i \in 1 .. Len(queue)
      PROVE  queue[i] \in Node(Ids) /\ EntryOf(queue[i]) \in EntrySet(Ids)
  <2>1. queue[i] \in Node(Ids)
    BY ElementOfSeq
  <2> QED
    BY <2>1 DEF Node, EntryOf, EntrySet
<1>3. Entries(queue) \in [1 .. Len(queue) -> EntrySet(Ids)]
  BY <1>2 DEF Entries
<1>4. \A i \in 1 .. Len(queue) : Entries(queue)[i] = EntryOf(queue[i])
  BY DEF Entries
<1>5. Entries(queue) \in Seq(EntrySet(Ids)) /\ Len(Entries(queue)) = Len(queue)
  BY <1>1, <1>3, FunctionIsSeq
<1>6. DOMAIN Entries(queue) = 1 .. Len(queue)
  BY DEF Entries
<1>7. \A i \in 1 .. Len(queue) : /\ EntryOf(queue[i]).id = queue[i].id
                                 /\ EntryOf(queue[i]).quantity = queue[i].quantity
  BY DEF EntryOf
<1> HIDE DEF Entries, EntryOf
<1> QED
  BY <1>1, <1>2, <1>4, <1>5, <1>6, <1>7

\* An index flag is not seen.
LEMMA EntriesOfUnindex ==
    ASSUME NEW Ids, NEW queue \in Seq(Node(Ids)), NEW id
    PROVE  Entries(Unindex(queue, id)) = Entries(queue)
<1> DEFINE new == Unindex(queue, id)
<1>1. new \in Seq(Node(Ids)) /\ Len(new) = Len(queue) /\ DOMAIN queue = 1 .. Len(queue)
  BY UnindexType, LenProperties
<1>2. ASSUME NEW i \in 1 .. Len(queue) PROVE EntryOf(new[i]) = EntryOf(queue[i])
  <2>1. new[i] = IF queue[i].id = id THEN [queue[i] EXCEPT !.indexed = FALSE] ELSE queue[i]
    BY <1>1 DEF Unindex
  <2>2. queue[i] \in Node(Ids)
    BY ElementOfSeq
  <2> HIDE DEF new
  <2>3. new[i].id = queue[i].id /\ new[i].quantity = queue[i].quantity
    BY <2>1, <2>2 DEF Node
  <2> QED
    BY <2>3 DEF EntryOf
<1> HIDE DEF new
<1> QED
  BY <1>1, <1>2 DEF Entries, new

\* What each operation does to what is seen.
LEMMA EntriesOfPop ==
    ASSUME NEW Ids, NEW queue \in Seq(Node(Ids)), queue # <<>>
    PROVE  Entries(PopFront(queue)) = Tail(Entries(queue))
<1> DEFINE s == Entries(queue)
           rest == Tail(queue)
<1>1. /\ s \in Seq(EntrySet(Ids)) /\ Len(s) = Len(queue) /\ Len(queue) \in Nat
      /\ \A i \in 1 .. Len(queue) : s[i] = EntryOf(queue[i])
  BY EntriesAre
<1>2. Len(queue) # 0
  BY EmptySeq
<1>3. /\ rest \in Seq(Node(Ids)) /\ Len(rest) = Len(queue) - 1
      /\ \A i \in 1 .. Len(rest) : rest[i] = queue[i + 1]
  BY HeadTailProperties
<1>4. Entries(PopFront(queue)) = Entries(rest)
  <2> HIDE DEF rest
  <2> QED
    BY <1>3, EntriesOfUnindex DEF PopFront, rest
<1> HIDE DEF s, rest
<1>5. s # <<>>
  BY <1>1, <1>2, EmptySeq
<1>6. /\ Tail(s) \in Seq(EntrySet(Ids)) /\ Len(Tail(s)) = Len(s) - 1
      /\ \A i \in 1 .. Len(Tail(s)) : Tail(s)[i] = s[i + 1]
  BY <1>1, <1>5, HeadTailProperties
<1>7. \A i \in 1 .. Len(rest) : Tail(s)[i] = Entries(rest)[i]
  <2> TAKE i \in 1 .. Len(rest)
  <2>1. i + 1 \in 1 .. Len(queue) /\ i \in 1 .. Len(Tail(s))
    BY <1>1, <1>3, <1>6
  <2> QED
    BY <1>1, <1>3, <1>6, <2>1 DEF Entries
<1>8. /\ Entries(rest) \in Seq(EntrySet(Ids)) /\ Len(Entries(rest)) = Len(rest)
  BY <1>3, EntriesAre
<1>9. Tail(s) = Entries(rest)
  BY <1>1, <1>3, <1>6, <1>7, <1>8, SeqEqual
<1> QED
  BY <1>4, <1>9 DEF s

LEMMA EntriesOfFill ==
    ASSUME NEW Ids, NEW queue \in Seq(Node(Ids)), queue # <<>>,
           NEW n \in Quantity, n < Head(queue).quantity
    PROVE  Entries(FillFront(queue, n)) = [Entries(queue) EXCEPT ![1].quantity = @ - n]
<1> DEFINE s == Entries(queue)
           new == FillFront(queue, n)
           t == [s EXCEPT ![1].quantity = @ - n]
           left == queue[1].quantity - n
<1>1. /\ s \in Seq(EntrySet(Ids)) /\ Len(s) = Len(queue) /\ Len(queue) \in Nat \ {0}
      /\ DOMAIN s = 1 .. Len(queue) /\ DOMAIN queue = 1 .. Len(queue)
      /\ \A i \in 1 .. Len(queue) : s[i] = EntryOf(queue[i]) /\ queue[i] \in Node(Ids)
      /\ 1 \in 1 .. Len(queue) /\ Head(queue) = queue[1]
  BY EntriesAre, EmptySeq
<1>2. ~(n >= Head(queue).quantity)
  BY <1>1 DEF Node, Quantity
<1>3. new = [queue EXCEPT ![1].quantity = left]
  BY <1>1, <1>2 DEF FillFront
<1> HIDE DEF left
<1>4. /\ new[1] = [queue[1] EXCEPT !.quantity = left]
      /\ \A i \in 1 .. Len(queue) : i # 1 => new[i] = queue[i]
      /\ DOMAIN new = 1 .. Len(queue)
  BY <1>1, <1>3
<1>5. Len(new) = Len(queue)
  <2>1. new \in Seq(Node(Ids))
    BY FillFrontType
  <2> QED
    BY <1>1, <1>4, <2>1, LenProperties
<1>6. EntryOf(new[1]) = [s[1] EXCEPT !.quantity = left]
  <2> DEFINE old == queue[1]
  <2>1. old \in Node(Ids) /\ s[1] = EntryOf(old) /\ new[1] = [old EXCEPT !.quantity = left]
    BY <1>1, <1>4
  <2> HIDE DEF old, new, s
  <2>2. new[1].id = old.id /\ new[1].quantity = left
    BY <2>1 DEF Node
  <2>3. [s[1] EXCEPT !.quantity = left] = [id |-> old.id, quantity |-> left]
    BY <2>1 DEF EntryOf
  <2> QED
    BY <2>2, <2>3 DEF EntryOf
<1>7. s[1].quantity - n = left
  BY <1>1 DEF EntryOf, left
<1>8. t = [s EXCEPT ![1] = [s[1] EXCEPT !.quantity = left]]
  <2> HIDE DEF s
  <2> QED
    BY <1>7
<1> HIDE DEF new
<1>9. t = Entries(new)
  <2>1. ASSUME NEW i \in 1 .. Len(queue) PROVE t[i] = EntryOf(new[i])
    <3> HIDE DEF s, t
    <3>1. CASE i = 1
      BY <1>1, <1>6, <1>8, <3>1
    <3>2. CASE i # 1
      BY <1>1, <1>4, <1>8, <3>2
    <3> QED
      BY <3>1, <3>2
  <2>2. DOMAIN t = 1 .. Len(queue) /\ t = [i \in DOMAIN t |-> t[i]]
    <3> HIDE DEF s
    <3> QED
      BY <1>1
  <2> HIDE DEF t
  <2> QED
    BY <1>5, <2>1, <2>2 DEF Entries
<1> QED
  BY <1>9 DEF new

LEMMA EntriesOfAdd ==
    ASSUME NEW Ids, NEW queue \in Seq(Node(Ids)), NEW id \in Ids, NEW quantity \in Quantity
    PROVE  Entries(AddNode(queue, id, quantity)) =
              Append(Entries(queue), [id |-> id, quantity |-> quantity])
<1> DEFINE node == [id |-> id, quantity |-> quantity, indexed |-> TRUE]
           entry == [id |-> id, quantity |-> quantity]
           flagged == Unindex(queue, id)
<1>1. flagged \in Seq(Node(Ids)) /\ node \in Node(Ids) /\ entry \in EntrySet(Ids)
  BY UnindexType DEF Node, EntrySet
<1>2. EntryOf(node) = entry /\ AddNode(queue, id, quantity) = Append(flagged, node)
  BY DEF EntryOf, AddNode
<1>3. Entries(flagged) = Entries(queue)
  BY EntriesOfUnindex
<1> HIDE DEF node, entry, flagged
<1> DEFINE new == Append(flagged, node)
           s == Entries(flagged)
<1>4. /\ s \in Seq(EntrySet(Ids)) /\ Len(s) = Len(flagged) /\ Len(flagged) \in Nat
      /\ \A i \in 1 .. Len(flagged) : s[i] = EntryOf(flagged[i])
  BY <1>1, EntriesAre
<1>5. /\ new \in Seq(Node(Ids)) /\ Len(new) = Len(flagged) + 1
      /\ \A i \in 1 .. Len(flagged) : new[i] = flagged[i]
      /\ new[Len(flagged) + 1] = node
  BY <1>1, AppendProperties
<1> HIDE DEF s
<1>6. /\ Append(s, entry) \in Seq(EntrySet(Ids)) /\ Len(Append(s, entry)) = Len(flagged) + 1
      /\ \A i \in 1 .. Len(flagged) : Append(s, entry)[i] = s[i]
      /\ Append(s, entry)[Len(flagged) + 1] = entry
  BY <1>1, <1>4, AppendProperties
<1> HIDE DEF new
<1>7. /\ Entries(new) \in Seq(EntrySet(Ids)) /\ Len(Entries(new)) = Len(new)
      /\ \A i \in 1 .. Len(new) : Entries(new)[i] = EntryOf(new[i])
  BY <1>5, EntriesAre
<1>8. ASSUME NEW i \in 1 .. Len(new) PROVE Entries(new)[i] = Append(s, entry)[i]
  <2>1. CASE i \in 1 .. Len(flagged)
    BY <1>4, <1>5, <1>6, <1>7, <2>1
  <2>2. CASE i = Len(flagged) + 1
    BY <1>2, <1>5, <1>6, <1>7, <2>2
  <2> QED
    BY <1>4, <1>5, <2>1, <2>2
<1>9. Entries(new) = Append(s, entry)
  BY <1>5, <1>6, <1>7, <1>8, SeqEqual
<1> QED
  BY <1>2, <1>3, <1>9 DEF new, s, entry

LEMMA EntriesOfRemove ==
    ASSUME NEW Ids, NEW queue \in Seq(Node(Ids)), Reachable(queue), NEW gone \in DOMAIN queue
    PROVE  Entries(RemoveNode(queue, queue[gone].id)) = RemoveAt(Entries(queue), gone)
<1> DEFINE new == RemoveAt(queue, gone)
           s == Entries(queue)
           t == RemoveAt(s, gone)
<1>1. /\ s \in Seq(EntrySet(Ids)) /\ Len(s) = Len(queue) /\ Len(queue) \in Nat
      /\ DOMAIN queue = 1 .. Len(queue) /\ gone \in 1 .. Len(s) /\ gone \in 1 .. Len(queue)
      /\ \A i \in 1 .. Len(queue) : s[i] = EntryOf(queue[i])
  BY EntriesAre
<1>2. RemoveNode(queue, queue[gone].id) = new
  <2>1. Found(queue, queue[gone].id) = {gone}
    BY FoundIsTheNode
  <2>2. (CHOOSE i \in Found(queue, queue[gone].id) : TRUE) = gone
    BY <2>1
  <2> QED
    BY <2>1, <2>2 DEF RemoveNode
<1>3. new \in Seq(Node(Ids)) /\ LacksElement(new, queue, gone)
  BY <1>1, RemoveAtLeaves
<1> HIDE DEF s
<1>4. t \in Seq(EntrySet(Ids)) /\ LacksElement(t, s, gone)
  BY <1>1, RemoveAtLeaves
<1> HIDE DEF new, t
<1>5. /\ Entries(new) \in Seq(EntrySet(Ids)) /\ Len(Entries(new)) = Len(new)
      /\ \A i \in 1 .. Len(new) : Entries(new)[i] = EntryOf(new[i])
  BY <1>3, EntriesAre
<1>6. Len(new) = Len(queue) - 1 /\ Len(t) = Len(queue) - 1
  BY <1>1, <1>3, <1>4 DEF LacksElement
<1>7. ASSUME NEW i \in 1 .. Len(new) PROVE Entries(new)[i] = t[i]
  <2>1. i \in 1 .. Len(queue) /\ i + 1 \in 1 .. Len(queue) /\ i \in 1 .. Len(t)
    BY <1>1, <1>6
  <2>2. /\ new[i] = IF i < gone THEN queue[i] ELSE queue[i + 1]
        /\ t[i] = IF i < gone THEN s[i] ELSE s[i + 1]
    BY <1>3, <1>4, <2>1 DEF LacksElement
  <2> QED
    BY <1>1, <1>5, <2>1, <2>2
<1>8. Entries(new) = t
  BY <1>4, <1>5, <1>6, <1>7, SeqEqual
<1> QED
  BY <1>2, <1>8 DEF t, s

LEMMA EntriesOfModify ==
    ASSUME NEW Ids, NEW queue \in Seq(Node(Ids)), Reachable(queue),
           NEW place \in DOMAIN queue, NEW quantity \in Quantity
    PROVE  Entries(ModifyNode(queue, queue[place].id, quantity)) =
              [Entries(queue) EXCEPT ![place].quantity = quantity]
<1> DEFINE s == Entries(queue)
           new == ModifyNode(queue, queue[place].id, quantity)
           t == [s EXCEPT ![place].quantity = quantity]
<1>1. /\ s \in Seq(EntrySet(Ids)) /\ Len(s) = Len(queue) /\ Len(queue) \in Nat
      /\ DOMAIN s = 1 .. Len(queue) /\ DOMAIN queue = 1 .. Len(queue)
      /\ \A i \in 1 .. Len(queue) : s[i] = EntryOf(queue[i]) /\ queue[i] \in Node(Ids)
  BY EntriesAre
<1>2. /\ DOMAIN new = DOMAIN queue
      /\ \A i \in DOMAIN queue :
            new[i] = IF i = place THEN [queue[i] EXCEPT !.quantity = quantity] ELSE queue[i]
  <2>1. Found(queue, queue[place].id) = {place}
    BY FoundIsTheNode
  <2> QED
    BY <2>1 DEF ModifyNode
<1>3. Len(new) = Len(queue)
  <2>1. new \in Seq(Node(Ids))
    BY ModifyNodeType
  <2> QED
    BY <1>1, <1>2, <2>1, LenProperties
<1>4. EntryOf(new[place]) = [s[place] EXCEPT !.quantity = quantity]
  <2> DEFINE old == queue[place]
  <2>1. old \in Node(Ids) /\ s[place] = EntryOf(old) /\ new[place] = [old EXCEPT !.quantity = quantity]
    BY <1>1, <1>2
  <2> HIDE DEF old, new, s
  <2>2. new[place].id = old.id /\ new[place].quantity = quantity
    BY <2>1 DEF Node
  <2>3. [s[place] EXCEPT !.quantity = quantity] = [id |-> old.id, quantity |-> quantity]
    BY <2>1 DEF EntryOf
  <2> QED
    BY <2>2, <2>3 DEF EntryOf
<1> HIDE DEF new
<1>5. t = Entries(new)
  <2>1. ASSUME NEW i \in 1 .. Len(queue) PROVE t[i] = EntryOf(new[i])
    <3> HIDE DEF s
    <3>1. CASE i = place
      BY <1>1, <1>4, <3>1
    <3>2. CASE i # place
      BY <1>1, <1>2, <3>2
    <3> QED
      BY <3>1, <3>2
  <2>2. DOMAIN t = 1 .. Len(queue) /\ t = [i \in DOMAIN t |-> t[i]]
    <3> HIDE DEF s
    <3> QED
      BY <1>1
  <2> HIDE DEF t
  <2> QED
    BY <1>3, <2>1, <2>2 DEF Entries
<1> QED
  BY <1>5 DEF new
=============================================================================
