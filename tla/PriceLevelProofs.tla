-------------------------- MODULE PriceLevelProofs --------------------------
(***************************************************************************)
(* The linked list, the index and the totals of a price level, for lists   *)
(* of any length: theorems about PriceLevel.                               *)
(***************************************************************************)
EXTENDS PriceLevel, LevelQueueProofs, FiniteSetTheorems

(* The list as a sequence of addresses *)

\* The nodes of "nodes", each of them once, linked in the order of s.
Represents(s, nodes, first, last) ==
    /\ s \in Seq(DOMAIN nodes)
    /\ \A i, j \in 1 .. Len(s) : s[i] = s[j] => i = j
    /\ \A a \in DOMAIN nodes : \E i \in 1 .. Len(s) : s[i] = a
    /\ first = IF Len(s) = 0 THEN Null ELSE s[1]
    /\ last  = IF Len(s) = 0 THEN Null ELSE s[Len(s)]
    /\ \A i \in 1 .. Len(s) :
          /\ nodes[s[i]].prev = IF i = 1 THEN Null ELSE s[i - 1]
          /\ nodes[s[i]].next = IF i = Len(s) THEN Null ELSE s[i + 1]

\* One step of Chain.
Longer(n, before) ==
    LET next == IF before = <<>> THEN head ELSE heap[Last(before)].next
    IN  IF Len(before) < n - 1 \/ next \notin Live THEN before
        ELSE Append(before, next)

Lesser(a, b) == IF a <= b THEN a ELSE b

\* The first n elements, as far as there are n.
First(s, n) == SubSeq(s, 1, Lesser(n, Len(s)))

\* A list without repetition is no longer than the addresses are many.
LEMMA FewEnough ==
    ASSUME Live \subseteq Addresses, NEW s, Represents(s, heap, head, tail)
    PROVE  Len(s) \in Nat /\ Len(s) <= Cardinality(Addresses)
<1>1. s \in Seq(Live) /\ (\A i, j \in 1 .. Len(s) : s[i] = s[j] => i = j)
  BY DEF Represents, Live
<1>2. Len(s) \in Nat /\ s \in [1 .. Len(s) -> Live]
  BY <1>1, LenProperties
<1>3. s \in Injection(1 .. Len(s), Addresses)
  BY <1>1, <1>2 DEF Injection, IsInjective
<1>4. Cardinality(1 .. Len(s)) <= Cardinality(Addresses)
  BY <1>3, FS_Injection, AddressAssumption
<1>5. Cardinality(1 .. Len(s)) = Len(s)
  <2>1. Cardinality(1 .. Len(s)) = IF 1 > Len(s) THEN 0 ELSE Len(s) - 1 + 1
    BY <1>2, FS_Interval
  <2> QED
    BY <1>2, <2>1
<1> QED
  BY <1>2, <1>4, <1>5

\* Following the list from its head finds one element more, until its end.
LEMMA LongerIs ==
    ASSUME Live \subseteq Addresses, NEW s, Represents(s, heap, head, tail),
           NEW n \in Nat \ {0}
    PROVE  Longer(n, First(s, n - 1)) = First(s, n)
<1>1. s \in Seq(Live) /\ Null \notin Live
  BY AddressAssumption DEF Represents, Live
<1>2. Len(s) \in Nat /\ \A i \in 1 .. Len(s) : s[i] \in Live
  BY <1>1, LenProperties, ElementOfSeq
<1> DEFINE before == First(s, n - 1)
           next == IF before = <<>> THEN head ELSE heap[Last(before)].next
<1>3. CASE n <= Len(s)
  <2>1. n \in 1 .. Len(s) /\ n - 1 \in Int /\ n - 1 <= Len(s) /\ Lesser(n, Len(s)) = n
        /\ Lesser(n - 1, Len(s)) = n - 1
    BY <1>2, <1>3 DEF Lesser
  <2>2. before = SubSeq(s, 1, n - 1)
    BY <2>1 DEF First
  <2>3. /\ before \in Seq(Live) /\ Len(before) = n - 1
        /\ \A i \in 1 .. n - 1 : before[i] = s[i]
    <3>1. \A i \in 1 .. n - 1 : s[i] \in Live
      BY <1>2, <2>1
    <3>2. /\ before \in Seq(Live)
          /\ Len(before) = IF 1 <= n - 1 THEN n - 1 - 1 + 1 ELSE 0
          /\ \A i \in 1 .. n - 1 - 1 + 1 : before[i] = s[1 + i - 1]
      BY <2>1, <2>2, <3>1, SubSeqProperties
    <3> HIDE DEF before
    <3> QED
      BY <2>1, <3>2
  <2> HIDE DEF before
  <2>4. next = s[n]
    <3>1. CASE n = 1
      <4>1. before = <<>>
        BY <2>3, <3>1, EmptySeq
      <4> QED
        BY <1>2, <2>1, <3>1, <4>1 DEF Represents
    <3>2. CASE n # 1
      <4>1. before # <<>> /\ Last(before) = s[n - 1]
        <5>1. n - 1 \in 1 .. n - 1 /\ n - 1 # 0
          BY <2>1, <3>2
        <5> QED
          BY <2>3, <5>1, EmptySeq DEF Last
      <4>2. n - 1 \in 1 .. Len(s) /\ n - 1 # Len(s) /\ n - 1 + 1 = n
        BY <1>2, <2>1, <3>2
      <4>3. heap[s[n - 1]].next = s[n - 1 + 1]
        BY <4>2 DEF Represents
      <4> QED
        BY <4>1, <4>2, <4>3
    <3> QED
      BY <3>1, <3>2
  <2>5. s[n] \in Live
    BY <1>2, <2>1
  <2>6. Longer(n, before) = Append(before, s[n])
    <3>1. ~(Len(before) < n - 1)
      BY <2>1, <2>3
    <3> QED
      BY <2>4, <2>5, <3>1 DEF Longer
  <2>7. SubSeq(s, 1, n) = SubSeq(s, 1, n - 1) \o <<s[n]>>
    BY <1>1, <1>2, <2>1, SubSeqRecursiveSecond
  <2>8. Append(before, s[n]) = before \o <<s[n]>>
    BY <2>3, <2>5, AppendIsConcat
  <2> QED
    BY <2>1, <2>2, <2>6, <2>7, <2>8 DEF First, before
<1>4. CASE ~(n <= Len(s))
  <2>1. Lesser(n, Len(s)) = Len(s) /\ Lesser(n - 1, Len(s)) = Len(s)
    BY <1>2, <1>4 DEF Lesser
  <2>2. First(s, n) = s /\ before = s
    BY <1>1, <2>1, SubSeqFull DEF First
  <2> HIDE DEF before
  <2>3. next \notin Live
    <3>1. CASE s = <<>>
      <4>1. Len(s) = 0
        BY <3>1, EmptySeq
      <4> QED
        BY <1>1, <2>2, <3>1, <4>1 DEF Represents
    <3>2. CASE s # <<>>
      <4>1. Len(s) \in 1 .. Len(s)
        BY <1>1, <1>2, <3>2, EmptySeq
      <4> QED
        BY <1>1, <2>2, <3>2, <4>1 DEF Represents, Last
    <3> QED
      BY <3>1, <3>2
  <2> QED
    BY <2>2, <2>3 DEF Longer, before
<1> QED
  BY <1>3, <1>4

\* What the list reaches is the list.
ReachedIs == \A s : Represents(s, heap, head, tail) => Reached = s

LEMMA ReachedIsTheList == Live \subseteq Addresses => ReachedIs
<1> SUFFICES ASSUME Live \subseteq Addresses, NEW s, Represents(s, heap, head, tail)
             PROVE  Reached = s
  BY DEF ReachedIs
<1> DEFINE C == Cardinality(Addresses)
           Equation(h) == h = [n \in 0 .. C |-> IF n = 0 THEN <<>> ELSE Longer(n, h[n - 1])]
           f == [n \in 0 .. C |-> First(s, n)]
<1>1. C \in Nat
  BY FS_CardinalityType, AddressAssumption
<1>2. Len(s) \in Nat /\ Len(s) <= C
  BY FewEnough
<1>3. First(s, 0) = <<>>
  <2>1. Lesser(0, Len(s)) = 0
    BY <1>2 DEF Lesser
  <2>2. SubSeq(s, 1, 0) = <<>>
    BY SubSeqEmpty
  <2> QED
    BY <2>1, <2>2 DEF First
<1>4. First(s, C) = s
  <2>1. Lesser(C, Len(s)) = Len(s)
    BY <1>1, <1>2 DEF Lesser
  <2>2. s \in Seq(Live)
    BY DEF Represents, Live
  <2> QED
    BY <2>1, <2>2, SubSeqFull DEF First
<1> HIDE DEF C
<1>5. \A n \in 1 .. C : n - 1 \in 0 .. C /\ Longer(n, First(s, n - 1)) = First(s, n)
  BY <1>1, LongerIs
<1>6. Equation(f)
  BY <1>1, <1>3, <1>5
<1>7. Chain = CHOOSE h : Equation(h)
  BY DEF Chain, Longer, C
<1> HIDE DEF f
<1>8. Equation(Chain)
  <2> HIDE DEF Equation
  <2> QED
    BY <1>6, <1>7
<1> DEFINE S == {n \in 0 .. C : Chain[n] = First(s, n)}
<1>9. 0 \in S
  BY <1>1, <1>3, <1>8
<1>10. ASSUME NEW n \in 0 .. C - 1, n \in S PROVE n + 1 \in S
  <2> DEFINE m == n + 1
  <2>1. m \in 1 .. C /\ m \in 0 .. C /\ m # 0 /\ m - 1 = n
    BY <1>1
  <2> HIDE DEF m
  <2>2. Chain[m] = Longer(m, Chain[m - 1])
    BY <1>8, <2>1
  <2>3. Chain[m] = First(s, m)
    BY <1>5, <1>10, <2>1, <2>2
  <2> QED
    BY <2>1, <2>3 DEF m
<1> HIDE DEF S
<1>11. C \in S
  <2>1. \A n \in 0 .. C : n \in S
    BY <1>1, <1>9, <1>10, InductionUpTo
  <2> QED
    BY <1>1, <2>1
<1> QED
  BY <1>4, <1>11 DEF S, Reached, C

-----------------------------------------------------------------------------
(* The total of a queue *)

\* total_quantity_ += and -=, in unsigned arithmetic.
Plus(a, b)  == (a + b) % QMod
Minus(a, b) == (a + QMod - b) % QMod

LEMMA PlusMinus ==
    ASSUME NEW a \in Quantity, NEW b \in Quantity
    PROVE  /\ Plus(a, b) \in Quantity /\ Minus(a, b) \in Quantity
           /\ Plus(a, b) = IF a + b < QMod THEN a + b ELSE a + b - QMod
           /\ Minus(a, b) = IF a >= b THEN a - b ELSE a + QMod - b
<1>1. /\ a \in Int /\ b \in Int /\ QMod \in Nat \ {0}
      /\ 0 <= a /\ a < QMod /\ 0 <= b /\ b < QMod
  BY QModAssumption DEF Quantity
<1>2. \A r \in 0 .. QMod - 1 : r % QMod = r /\ (r + QMod) % QMod = r
  BY <1>1
<1>3. Plus(a, b) = IF a + b < QMod THEN a + b ELSE a + b - QMod
  <2>1. CASE a + b < QMod
    <3>1. a + b \in 0 .. QMod - 1
      BY <1>1, <2>1
    <3> QED
      BY <1>2, <2>1, <3>1 DEF Plus
  <2>2. CASE ~(a + b < QMod)
    <3> DEFINE r == a + b - QMod
    <3>1. r \in 0 .. QMod - 1 /\ a + b = r + QMod
      BY <1>1, <2>2
    <3> HIDE DEF r
    <3>2. (a + b) % QMod = r
      BY <1>2, <3>1
    <3> QED
      BY <2>2, <3>2 DEF Plus, r
  <2> QED
    BY <2>1, <2>2
<1>4. Minus(a, b) = IF a >= b THEN a - b ELSE a + QMod - b
  <2>1. CASE a >= b
    <3> DEFINE r == a - b
    <3>1. r \in 0 .. QMod - 1 /\ a + QMod - b = r + QMod
      BY <1>1, <2>1
    <3> HIDE DEF r
    <3>2. (a + QMod - b) % QMod = r
      BY <1>2, <3>1
    <3> QED
      BY <2>1, <3>2 DEF Minus, r
  <2>2. CASE ~(a >= b)
    <3>1. a + QMod - b \in 0 .. QMod - 1
      BY <1>1, <2>2
    <3> QED
      BY <1>2, <2>2, <3>1 DEF Minus
  <2> QED
    BY <2>1, <2>2
<1> QED
  BY <1>1, <1>3, <1>4 DEF Quantity

\* Additions and subtractions can change places.
LEMMA PlusMinusLaws ==
    ASSUME NEW u \in Quantity, NEW v \in Quantity, NEW x \in Quantity
    PROVE  /\ Minus(Plus(u, x), x) = u
           /\ Plus(Minus(u, x), x) = u
           /\ Plus(Minus(u, x), v) = Minus(Plus(u, v), x)
           /\ Plus(Plus(u, x), v) = Plus(Plus(u, v), x)
<1>1. /\ Minus(u, x) \in Quantity
      /\ Minus(u, x) = IF u >= x THEN u - x ELSE u + QMod - x
      /\ Plus(u, x) \in Quantity
      /\ Plus(u, x) = IF u + x < QMod THEN u + x ELSE u + x - QMod
      /\ Plus(u, v) \in Quantity
      /\ Plus(u, v) = IF u + v < QMod THEN u + v ELSE u + v - QMod
  BY PlusMinus
<1> DEFINE a == Minus(u, x)
           b == Plus(u, x)
           c == Plus(u, v)
<1>2. a \in Quantity /\ b \in Quantity /\ c \in Quantity
  BY <1>1
<1> HIDE DEF a, b, c
<1>3. /\ Minus(b, x) = IF b >= x THEN b - x ELSE b + QMod - x
      /\ Plus(a, x) = IF a + x < QMod THEN a + x ELSE a + x - QMod
      /\ Plus(a, v) = IF a + v < QMod THEN a + v ELSE a + v - QMod
      /\ Minus(c, x) = IF c >= x THEN c - x ELSE c + QMod - x
      /\ Plus(b, v) = IF b + v < QMod THEN b + v ELSE b + v - QMod
      /\ Plus(c, x) = IF c + x < QMod THEN c + x ELSE c + x - QMod
  BY <1>2, PlusMinus
<1>4. /\ QMod \in Int /\ u \in Int /\ v \in Int /\ x \in Int
      /\ 0 <= u /\ u < QMod /\ 0 <= v /\ v < QMod /\ 0 <= x /\ x < QMod
  BY QModAssumption DEF Quantity
<1>5. /\ a = IF u >= x THEN u - x ELSE u + QMod - x
      /\ b = IF u + x < QMod THEN u + x ELSE u + x - QMod
      /\ c = IF u + v < QMod THEN u + v ELSE u + v - QMod
  BY <1>1 DEF a, b, c
<1>6. Minus(b, x) = u /\ Plus(a, x) = u
  BY <1>3, <1>4, <1>5
<1>7. Plus(a, v) = Minus(c, x)
  BY <1>3, <1>4, <1>5
<1>8. Plus(b, v) = Plus(c, x)
  BY <1>3, <1>4, <1>5
<1> QED
  BY <1>6, <1>7, <1>8 DEF a, b, c

LEMMA AddUpPlus ==
    \A n \in Quantity, node \in Node(Ids) :
        AddUp(Ids)[<<n, node>>] = Plus(n, node.quantity)
BY AddUpIs DEF Plus

\* p[i] is the total of the first i nodes.
RunningTotals(p, queue) ==
    /\ p[0] = 0
    /\ \A i \in 0 .. Len(queue) : p[i] \in Quantity
    /\ \A i \in 1 .. Len(queue) : /\ queue[i].quantity \in Quantity
                                  /\ p[i] = Plus(p[i - 1], queue[i].quantity)
    /\ TotalQuantity(queue) = p[Len(queue)]

LEMMA TotalRuns ==
    ASSUME NEW queue \in Seq(Node(Ids))
    PROVE  \E p : RunningTotals(p, queue)
<1>1. Len(queue) \in Nat /\ DOMAIN queue = 1 .. Len(queue)
  BY LenProperties
<1>2. PICK h : /\ FoldsWith(h, AddUp(Ids), Quantity, 0, queue)
               /\ TotalQuantity(queue) = h[1 .. Len(queue)]
  BY <1>1, TotalFolds DEF FoldsTo
<1>3. /\ h[1 .. 0] = 0
      /\ \A i \in 0 .. Len(queue) : h[1 .. i] \in Quantity
      /\ \A i \in 1 .. Len(queue) : h[1 .. i] = AddUp(Ids)[<<h[1 .. i - 1], queue[i]>>]
  <2>1. RunsAs(h, AddUp(Ids), Quantity, 0, queue)
    BY <1>2, AddUpIs, FoldRuns
  <2> QED
    BY <2>1 DEF RunsAs
<1> DEFINE p == [i \in 0 .. Len(queue) |-> h[1 .. i]]
<1>4. p[0] = 0 /\ p[Len(queue)] = h[1 .. Len(queue)]
      /\ \A i \in 0 .. Len(queue) : p[i] \in Quantity
  BY <1>1, <1>3
<1>5. ASSUME NEW i \in 1 .. Len(queue)
      PROVE  queue[i].quantity \in Quantity /\ p[i] = Plus(p[i - 1], queue[i].quantity)
  <2>1. i \in 0 .. Len(queue) /\ i - 1 \in 0 .. Len(queue)
    BY <1>1
  <2>2. queue[i] \in Node(Ids)
    BY ElementOfSeq
  <2>3. AddUp(Ids)[<<h[1 .. i - 1], queue[i]>>] = Plus(h[1 .. i - 1], queue[i].quantity)
    BY <1>3, <2>1, <2>2, AddUpPlus
  <2>4. p[i] = h[1 .. i] /\ p[i - 1] = h[1 .. i - 1]
    BY <2>1
  <2> HIDE DEF p
  <2>5. queue[i].quantity \in Quantity
    BY <2>2 DEF Node
  <2> QED
    BY <1>3, <2>3, <2>4, <2>5
<1> HIDE DEF p
<1>6. RunningTotals(p, queue)
  BY <1>2, <1>4, <1>5 DEF RunningTotals
<1> QED
  BY <1>6

LEMMA TotalIsQuantity ==
    ASSUME NEW queue \in Seq(Node(Ids))
    PROVE  TotalQuantity(queue) \in Quantity
<1>1. PICK p : RunningTotals(p, queue)
  BY TotalRuns
<1>2. Len(queue) \in 0 .. Len(queue)
  BY LenProperties
<1> QED
  BY <1>1, <1>2 DEF RunningTotals

\* Totals depend on the quantities alone.
LEMMA TotalOfSame ==
    ASSUME NEW q \in Seq(Node(Ids)), NEW r \in Seq(Node(Ids)), Len(q) = Len(r),
           \A i \in 1 .. Len(q) : q[i].quantity = r[i].quantity
    PROVE  TotalQuantity(q) = TotalQuantity(r)
<1>1. PICK p : RunningTotals(p, q)
  BY TotalRuns
<1>2. PICK o : RunningTotals(o, r)
  BY TotalRuns
<1>3. Len(q) \in Nat
  BY LenProperties
<1> DEFINE S == {i \in 0 .. Len(q) : p[i] = o[i]}
<1>4. 0 \in S
  BY <1>1, <1>2, <1>3 DEF RunningTotals
<1>5. ASSUME NEW i \in 0 .. Len(q) - 1, i \in S PROVE i + 1 \in S
  <2> DEFINE j == i + 1
  <2>1. j \in 1 .. Len(q) /\ j - 1 = i /\ j \in 0 .. Len(q)
    BY <1>3
  <2> HIDE DEF j
  <2>2. p[j] = Plus(p[j - 1], q[j].quantity) /\ o[j] = Plus(o[j - 1], r[j].quantity)
    BY <1>1, <1>2, <2>1 DEF RunningTotals
  <2>3. p[j] = o[j]
    BY <1>5, <2>1, <2>2
  <2> QED
    BY <2>1, <2>3 DEF j
<1> HIDE DEF S
<1>6. Len(q) \in S
  <2>1. \A i \in 0 .. Len(q) : i \in S
    BY <1>3, <1>4, <1>5, InductionUpTo
  <2> QED
    BY <1>3, <2>1
<1> QED
  BY <1>1, <1>2, <1>6 DEF RunningTotals, S

\* An empty queue holds nothing, and one more node adds its quantity.
LEMMA TotalOfLonger ==
    /\ TotalQuantity(<<>>) = 0
    /\ \A q \in Seq(Node(Ids)), node \in Node(Ids) :
          /\ TotalQuantity(q) \in Quantity
          /\ TotalQuantity(Append(q, node)) = Plus(TotalQuantity(q), node.quantity)
<1>1. FoldsStepwise(AddUp(Ids), Quantity, Node(Ids), 0)
  BY AddUpIs, FoldStep
<1>2. <<>> \in Seq(Node(Ids))
  OBVIOUS
<1>3. TotalQuantity(<<>>) = 0
  BY <1>1, <1>2, TotalFolds DEF FoldsStepwise
<1>4. ASSUME NEW q \in Seq(Node(Ids)), NEW node \in Node(Ids)
      PROVE  /\ TotalQuantity(q) \in Quantity
             /\ TotalQuantity(Append(q, node)) = Plus(TotalQuantity(q), node.quantity)
  <2>1. Append(q, node) \in Seq(Node(Ids))
    OBVIOUS
  <2>2. /\ FoldsTo(TotalQuantity(q), AddUp(Ids), Quantity, 0, q)
        /\ FoldsTo(TotalQuantity(Append(q, node)), AddUp(Ids), Quantity, 0, Append(q, node))
    BY <2>1, TotalFolds
  <2>3. /\ TotalQuantity(q) \in Quantity
        /\ TotalQuantity(Append(q, node)) = AddUp(Ids)[<<TotalQuantity(q), node>>]
    BY <1>1, <2>2 DEF FoldsStepwise
  <2> QED
    BY <2>3, AddUpPlus
<1> QED
  BY <1>3, <1>4

\* A node that goes takes its quantity out of the total.
LEMMA TotalOfShorter ==
    ASSUME NEW q \in Seq(Node(Ids)), NEW r \in Seq(Node(Ids)), NEW k \in 1 .. Len(q),
           Len(r) = Len(q) - 1,
           \A i \in 1 .. Len(r) : r[i].quantity = IF i < k THEN q[i].quantity
                                                  ELSE q[i + 1].quantity
    PROVE  TotalQuantity(r) = Minus(TotalQuantity(q), q[k].quantity)
<1>1. PICK p : RunningTotals(p, q)
  BY TotalRuns
<1>2. PICK o : RunningTotals(o, r)
  BY TotalRuns
<1>3. Len(q) \in Nat /\ Len(r) \in Nat /\ k \in Nat
  BY LenProperties
<1> DEFINE x == q[k].quantity
           S == {i \in 0 .. Len(q) : IF i < k THEN o[i] = p[i] ELSE o[i - 1] = Minus(p[i], x)}
<1>4. x \in Quantity /\ 0 \in 0 .. Len(q) /\ 0 < k
  BY <1>1, <1>3 DEF RunningTotals
<1>5. 0 \in S
  BY <1>1, <1>2, <1>4 DEF RunningTotals
<1> HIDE DEF x
<1>6. ASSUME NEW i \in 0 .. Len(q) - 1, i \in S PROVE i + 1 \in S
  <2> DEFINE j == i + 1
  <2>1. j \in 1 .. Len(q) /\ j - 1 = i /\ j \in 0 .. Len(q) /\ j - 1 \in 0 .. Len(q)
        /\ j \in Nat
    BY <1>3
  <2> HIDE DEF j
  <2>2. /\ p[j] = Plus(p[j - 1], q[j].quantity)
        /\ p[j] \in Quantity /\ p[j - 1] \in Quantity /\ q[j].quantity \in Quantity
    BY <1>1, <2>1 DEF RunningTotals
  <2>3. CASE j < k
    <3>1. j \in 1 .. Len(r) /\ j - 1 < k
      BY <1>3, <2>1, <2>3
    <3>2. o[j - 1] = p[j - 1]
      BY <1>6, <2>1, <3>1
    <3>3. o[j] = Plus(o[j - 1], r[j].quantity) /\ r[j].quantity = q[j].quantity
      BY <1>2, <2>3, <3>1 DEF RunningTotals
    <3>4. o[j] = p[j]
      BY <2>2, <3>2, <3>3
    <3> QED
      BY <2>1, <2>3, <3>4 DEF j
  <2>4. CASE j = k
    <3>1. j - 1 < k /\ ~(j < k)
      BY <2>1, <2>4
    <3>2. o[j - 1] = p[j - 1]
      BY <1>6, <2>1, <3>1
    <3>3. Minus(Plus(p[j - 1], x), x) = p[j - 1]
      BY <1>4, <2>2, PlusMinusLaws
    <3>4. q[j].quantity = x
      BY <2>4 DEF x
    <3> QED
      BY <2>1, <2>2, <3>1, <3>2, <3>3, <3>4 DEF j
  <2>5. CASE j > k
    <3> DEFINE m == j - 1
    <3>1. m \in 1 .. Len(r) /\ ~(m < k) /\ m + 1 = j /\ ~(j < k) /\ m \in 0 .. Len(q)
          /\ m - 1 \in 0 .. Len(r)
      BY <1>3, <2>1, <2>5
    <3>2. o[j - 1 - 1] = Minus(p[j - 1], x)
      BY <1>6, <2>1, <3>1
    <3> HIDE DEF m
    <3>3. o[m] = Plus(o[m - 1], r[m].quantity) /\ r[m].quantity = q[j].quantity
      BY <1>2, <3>1 DEF RunningTotals
    <3>4. Plus(Minus(p[j - 1], x), q[j].quantity) = Minus(Plus(p[j - 1], q[j].quantity), x)
      BY <1>4, <2>2, PlusMinusLaws
    <3>5. o[m] = Minus(p[j], x) /\ m = j - 1
      BY <2>2, <3>2, <3>3, <3>4 DEF m
    <3> QED
      BY <2>1, <3>1, <3>5 DEF j
  <2> QED
    BY <1>3, <2>1, <2>3, <2>4, <2>5
<1> HIDE DEF S
<1>7. Len(q) \in S
  <2>1. \A i \in 0 .. Len(q) : i \in S
    BY <1>3, <1>5, <1>6, InductionUpTo
  <2> QED
    BY <1>3, <2>1
<1>8. o[Len(q) - 1] = Minus(p[Len(q)], x)
  <2>1. ~(Len(q) < k)
    BY <1>3
  <2> QED
    BY <1>7, <2>1 DEF S
<1> QED
  BY <1>1, <1>2, <1>8 DEF RunningTotals, x

\* A node that changes its quantity changes the total by the same amount.
LEMMA TotalOfChanged ==
    ASSUME NEW q \in Seq(Node(Ids)), NEW r \in Seq(Node(Ids)), NEW k \in 1 .. Len(q),
           Len(r) = Len(q),
           \A i \in 1 .. Len(q) : i # k => r[i].quantity = q[i].quantity
    PROVE  /\ q[k].quantity \in Quantity /\ r[k].quantity \in Quantity
           /\ TotalQuantity(q) \in Quantity
           /\ TotalQuantity(r)
                 = Plus(Minus(TotalQuantity(q), q[k].quantity), r[k].quantity)
<1>1. PICK p : RunningTotals(p, q)
  BY TotalRuns
<1>2. PICK o : RunningTotals(o, r)
  BY TotalRuns
<1>3. Len(q) \in Nat /\ k \in Nat
  BY LenProperties
<1> DEFINE x == q[k].quantity
           y == r[k].quantity
           S == {i \in 0 .. Len(q) : IF i < k THEN o[i] = p[i]
                                     ELSE o[i] = Plus(Minus(p[i], x), y)}
<1>4. x \in Quantity /\ y \in Quantity /\ 0 \in 0 .. Len(q) /\ 0 < k
  BY <1>1, <1>2, <1>3 DEF RunningTotals
<1>5. 0 \in S
  BY <1>1, <1>2, <1>4 DEF RunningTotals
<1> HIDE DEF x, y
<1>6. ASSUME NEW u \in Quantity
      PROVE  /\ Minus(Plus(u, x), x) = u
             /\ \A v \in Quantity : Plus(Plus(Minus(u, x), y), v)
                                      = Plus(Minus(Plus(u, v), x), y)
  <2>1. Minus(Plus(u, x), x) = u
    BY <1>4, PlusMinusLaws
  <2>2. ASSUME NEW v \in Quantity
        PROVE  Plus(Plus(Minus(u, x), y), v) = Plus(Minus(Plus(u, v), x), y)
    <3> DEFINE w == Minus(u, x)
    <3>1. w \in Quantity /\ Plus(w, v) = Minus(Plus(u, v), x)
      BY <1>4, PlusMinus, PlusMinusLaws
    <3> HIDE DEF w
    <3>2. Plus(Plus(w, y), v) = Plus(Plus(w, v), y)
      BY <1>4, <3>1, PlusMinusLaws
    <3> QED
      BY <3>1, <3>2 DEF w
  <2> QED
    BY <2>1, <2>2
<1>7. ASSUME NEW i \in 0 .. Len(q) - 1, i \in S PROVE i + 1 \in S
  <2> DEFINE j == i + 1
  <2>1. j \in 1 .. Len(q) /\ j - 1 = i /\ j \in 0 .. Len(q) /\ j - 1 \in 0 .. Len(q)
        /\ j \in Nat
    BY <1>3
  <2> HIDE DEF j
  <2>2. /\ p[j] = Plus(p[j - 1], q[j].quantity)
        /\ o[j] = Plus(o[j - 1], r[j].quantity)
        /\ p[j - 1] \in Quantity /\ q[j].quantity \in Quantity
    BY <1>1, <1>2, <2>1 DEF RunningTotals
  <2>3. CASE j < k
    <3>1. j - 1 < k /\ j # k
      BY <1>3, <2>1, <2>3
    <3>2. o[j - 1] = p[j - 1]
      BY <1>7, <2>1, <3>1
    <3>3. o[j] = p[j]
      BY <2>1, <2>2, <3>1, <3>2
    <3> QED
      BY <2>1, <2>3, <3>3 DEF j
  <2>4. CASE j = k
    <3>1. j - 1 < k /\ ~(j < k)
      BY <2>1, <2>4
    <3>2. o[j - 1] = p[j - 1]
      BY <1>7, <2>1, <3>1
    <3>3. q[j].quantity = x /\ r[j].quantity = y
      BY <2>4 DEF x, y
    <3>4. o[j] = Plus(Minus(p[j], x), y)
      BY <1>6, <2>2, <3>2, <3>3
    <3> QED
      BY <2>1, <3>1, <3>4 DEF j
  <2>5. CASE j > k
    <3>1. ~(j - 1 < k) /\ ~(j < k) /\ j # k
      BY <1>3, <2>1, <2>5
    <3>2. o[j - 1] = Plus(Minus(p[j - 1], x), y)
      BY <1>7, <2>1, <3>1
    <3>3. o[j] = Plus(Minus(p[j], x), y)
      BY <1>6, <2>1, <2>2, <3>1, <3>2
    <3> QED
      BY <2>1, <3>1, <3>3 DEF j
  <2> QED
    BY <1>3, <2>1, <2>3, <2>4, <2>5
<1> HIDE DEF S
<1>8. Len(q) \in S
  <2>1. \A i \in 0 .. Len(q) : i \in S
    BY <1>3, <1>5, <1>7, InductionUpTo
  <2> QED
    BY <1>3, <2>1
<1>9. o[Len(q)] = Plus(Minus(p[Len(q)], x), y)
  <2>1. ~(Len(q) < k)
    BY <1>3
  <2> QED
    BY <1>8, <2>1 DEF S
<1>10. Len(q) \in 0 .. Len(q) /\ p[Len(q)] \in Quantity
  BY <1>1, <1>3 DEF RunningTotals
<1> QED
  BY <1>1, <1>2, <1>4, <1>9, <1>10 DEF RunningTotals, x, y

-----------------------------------------------------------------------------
(* What the operations do to the list *)

\* A node linked behind the last one.
LEMMA AppendToList ==
    ASSUME NEW s, NEW nodes, NEW first, NEW last, Represents(s, nodes, first, last),
           NEW at, at \notin DOMAIN nodes, Null \notin DOMAIN nodes, NEW new,
           DOMAIN new = DOMAIN nodes \cup {at},
           \A a \in DOMAIN nodes :
              /\ new[a].prev = nodes[a].prev
              /\ new[a].next = IF a = last THEN at ELSE nodes[a].next,
           new[at].prev = last, new[at].next = Null
    PROVE  Represents(Append(s, at), new, IF last = Null THEN at ELSE first, at)
<1> DEFINE t == Append(s, at)
           n == Len(s)
<1>1. /\ s \in Seq(DOMAIN nodes) /\ n \in Nat
      /\ \A i \in 1 .. n : s[i] \in DOMAIN nodes /\ s[i] # at /\ s[i] # Null
  <2>1. s \in Seq(DOMAIN nodes)
    BY DEF Represents
  <2> QED
    BY <2>1, LenProperties, ElementOfSeq
<1>2. /\ t \in Seq(DOMAIN new) /\ Len(t) = n + 1
      /\ \A i \in 1 .. n : t[i] = s[i]
      /\ t[n + 1] = at
  <2>1. s \in Seq(DOMAIN new) /\ at \in DOMAIN new
    <3>1. DOMAIN nodes \subseteq DOMAIN new
      OBVIOUS
    <3> QED
      BY <1>1, <3>1, SeqMonotonic
  <2> QED
    BY <2>1, AppendProperties
<1>3. /\ \A i, j \in 1 .. n : s[i] = s[j] => i = j
      /\ \A a \in DOMAIN nodes : \E i \in 1 .. n : s[i] = a
      /\ first = IF n = 0 THEN Null ELSE s[1]
      /\ last  = IF n = 0 THEN Null ELSE s[n]
      /\ \A i \in 1 .. n :
            /\ nodes[s[i]].prev = IF i = 1 THEN Null ELSE s[i - 1]
            /\ nodes[s[i]].next = IF i = n THEN Null ELSE s[i + 1]
  BY DEF Represents
<1> HIDE DEF t, n
<1>4. ASSUME NEW i \in 1 .. n + 1, NEW j \in 1 .. n + 1, t[i] = t[j] PROVE i = j
  <2>1. (i \in 1 .. n \/ i = n + 1) /\ (j \in 1 .. n \/ j = n + 1)
    BY <1>1
  <2>2. CASE i \in 1 .. n /\ j \in 1 .. n
    <3>1. s[i] = s[j]
      BY <1>2, <1>4, <2>2
    <3> QED
      BY <1>3, <2>2, <3>1
  <2>3. CASE i \in 1 .. n /\ j = n + 1
    BY <1>1, <1>2, <1>4, <2>3
  <2>4. CASE i = n + 1 /\ j \in 1 .. n
    BY <1>1, <1>2, <1>4, <2>4
  <2> QED
    BY <2>1, <2>2, <2>3, <2>4
<1>5. ASSUME NEW a \in DOMAIN new PROVE \E i \in 1 .. n + 1 : t[i] = a
  <2>1. CASE a = at
    <3>1. n + 1 \in 1 .. n + 1
      BY <1>1
    <3> QED
      BY <1>2, <2>1, <3>1
  <2>2. CASE a \in DOMAIN nodes
    <3>1. PICK i \in 1 .. n : s[i] = a
      BY <1>3, <2>2
    <3>2. i \in 1 .. n + 1
      BY <1>1
    <3> QED
      BY <1>2, <3>1, <3>2
  <2> QED
    BY <2>1, <2>2
<1>6. (IF last = Null THEN at ELSE first) = t[1] /\ at = t[n + 1] /\ n + 1 # 0
  <2>1. CASE n = 0
    BY <1>2, <1>3, <2>1
  <2>2. CASE n # 0
    <3>1. 1 \in 1 .. n /\ n \in 1 .. n
      BY <1>1, <2>2
    <3>2. first = s[1] /\ last = s[n] /\ last # Null /\ t[1] = s[1]
      BY <1>1, <1>2, <1>3, <2>2, <3>1
    <3> QED
      BY <1>1, <1>2, <3>2
  <2> QED
    BY <1>1, <1>2, <2>1, <2>2
<1>7. ASSUME NEW i \in 1 .. n + 1
      PROVE  /\ new[t[i]].prev = IF i = 1 THEN Null ELSE t[i - 1]
             /\ new[t[i]].next = IF i = n + 1 THEN Null ELSE t[i + 1]
  <2>1. CASE i = n + 1
    <3>1. new[t[i]].prev = last /\ new[t[i]].next = Null
      BY <1>2, <2>1
    <3>2. CASE n = 0
      BY <1>3, <2>1, <3>1, <3>2
    <3>3. CASE n # 0
      <4>1. n \in 1 .. n /\ i # 1 /\ i - 1 = n
        BY <1>1, <2>1, <3>3
      <4> QED
        BY <1>2, <1>3, <2>1, <3>1, <3>3, <4>1
    <3> QED
      BY <3>2, <3>3
  <2>2. CASE i # n + 1
    <3>1. i \in 1 .. n /\ t[i] = s[i] /\ s[i] \in DOMAIN nodes
      BY <1>1, <1>2, <2>2
    <3>2. new[t[i]].prev = IF i = 1 THEN Null ELSE t[i - 1]
      <4>1. new[t[i]].prev = IF i = 1 THEN Null ELSE s[i - 1]
        BY <1>3, <3>1
      <4>2. CASE i = 1
        BY <4>1, <4>2
      <4>3. CASE i # 1
        <5>1. i - 1 \in 1 .. n
          BY <1>1, <3>1, <4>3
        <5> QED
          BY <1>2, <4>1, <4>3, <5>1
      <4> QED
        BY <4>2, <4>3
    <3>3. new[t[i]].next = t[i + 1]
      <4>1. CASE i = n
        <5>1. n # 0 /\ last = s[n]
          BY <1>1, <1>3, <3>1, <4>1
        <5> QED
          BY <1>2, <3>1, <4>1, <5>1
      <4>2. CASE i # n
        <5>1. i + 1 \in 1 .. n /\ n # 0 /\ n \in 1 .. n
          BY <1>1, <3>1, <4>2
        <5>2. s[i] # last
          BY <1>3, <3>1, <4>2, <5>1
        <5>3. new[s[i]].next = nodes[s[i]].next
          BY <3>1, <5>2
        <5>4. nodes[s[i]].next = s[i + 1]
          BY <1>3, <3>1, <4>2
        <5> QED
          BY <1>2, <3>1, <5>1, <5>3, <5>4
      <4> QED
        BY <4>1, <4>2
    <3> QED
      BY <2>2, <3>2, <3>3
  <2> QED
    BY <2>1, <2>2
<1>8. ASSUME NEW f, f = t[1] PROVE Represents(t, new, f, at)
  BY <1>2, <1>4, <1>5, <1>6, <1>7, <1>8 DEF Represents
<1> QED
  BY <1>6, <1>8 DEF t

\* The neighbours of a node linked to each other.
Bypassed(new, nodes, a) ==
    \A b \in DOMAIN new :
       /\ new[b].prev = IF b = nodes[a].next THEN nodes[a].prev ELSE nodes[b].prev
       /\ new[b].next = IF b = nodes[a].prev THEN nodes[a].next ELSE nodes[b].next

\* A node taken out, its neighbours linked to each other.
Unlinks(t, new, f, l, s, nodes, first, last, k) ==
    /\ Represents(s, nodes, first, last) /\ Null \notin DOMAIN nodes
    /\ k \in 1 .. Len(s) /\ t \in Seq(DOMAIN nodes) /\ LacksElement(t, s, k)
    /\ DOMAIN new = DOMAIN nodes \ {s[k]} /\ Bypassed(new, nodes, s[k])
    /\ f = IF k = 1 THEN nodes[s[k]].next ELSE first
    /\ l = IF k = Len(s) THEN nodes[s[k]].prev ELSE last

LEMMA UnlinkFromList ==
    \A t, new, f, l, s, nodes, first, last, k :
        Unlinks(t, new, f, l, s, nodes, first, last, k) => Represents(t, new, f, l)
<1> SUFFICES ASSUME NEW t, NEW new, NEW f, NEW l, NEW s, NEW nodes, NEW first, NEW last,
                    NEW k,
                    Represents(s, nodes, first, last), Null \notin DOMAIN nodes,
                    k \in 1 .. Len(s), t \in Seq(DOMAIN nodes), LacksElement(t, s, k),
                    DOMAIN new = DOMAIN nodes \ {s[k]}, Bypassed(new, nodes, s[k]),
                    f = IF k = 1 THEN nodes[s[k]].next ELSE first,
                    l = IF k = Len(s) THEN nodes[s[k]].prev ELSE last
             PROVE  Represents(t, new, f, l)
  BY DEF Unlinks
<1> DEFINE n == Len(s)
<1>1. /\ n \in Nat /\ k \in 1 .. n /\ k \in Nat
      /\ \A i \in 1 .. n : s[i] \in DOMAIN nodes /\ s[i] # Null
  <2>1. s \in Seq(DOMAIN nodes)
    BY DEF Represents
  <2> QED
    BY <2>1, LenProperties, ElementOfSeq
<1>2. /\ \A i, j \in 1 .. n : s[i] = s[j] => i = j
      /\ \A a \in DOMAIN nodes : \E i \in 1 .. n : s[i] = a
      /\ first = IF n = 0 THEN Null ELSE s[1]
      /\ last  = IF n = 0 THEN Null ELSE s[n]
      /\ \A i \in 1 .. n :
            /\ nodes[s[i]].prev = IF i = 1 THEN Null ELSE s[i - 1]
            /\ nodes[s[i]].next = IF i = n THEN Null ELSE s[i + 1]
  BY DEF Represents
<1>3. /\ Len(t) = n - 1
      /\ \A i \in 1 .. n - 1 : t[i] = IF i < k THEN s[i] ELSE s[i + 1]
  BY DEF LacksElement
<1> HIDE DEF n
<1>4. ASSUME NEW i \in 1 .. n - 1
      PROVE  /\ t[i] \in DOMAIN new
             /\ t[i] \in DOMAIN nodes
             /\ \E j \in 1 .. n : t[i] = s[j] /\ j # k /\ j = IF i < k THEN i ELSE i + 1
             /\ new[t[i]].prev = IF t[i] = nodes[s[k]].next THEN nodes[s[k]].prev
                                 ELSE nodes[t[i]].prev
             /\ new[t[i]].next = IF t[i] = nodes[s[k]].prev THEN nodes[s[k]].next
                                 ELSE nodes[t[i]].next
  <2> DEFINE j == IF i < k THEN i ELSE i + 1
  <2>1. j \in 1 .. n /\ j # k
    BY <1>1
  <2>2. t[i] = s[j]
    BY <1>3
  <2> HIDE DEF j
  <2>3. s[j] \in DOMAIN nodes /\ s[j] # s[k]
    BY <1>1, <1>2, <2>1
  <2>4. t[i] \in DOMAIN nodes \ {s[k]}
    BY <2>2, <2>3
  <2>5. t[i] \in DOMAIN new
    BY <2>4
  <2> QED
    BY <2>1, <2>2, <2>4, <2>5 DEF j, Bypassed
<1>5. t \in Seq(DOMAIN new)
  <2>1. t \in [1 .. n - 1 -> DOMAIN new]
    BY <1>3, <1>4, LenProperties
  <2>2. n - 1 \in Nat
    BY <1>1
  <2> QED
    BY <2>1, <2>2, FunctionIsSeq
<1>6. ASSUME NEW i \in 1 .. n - 1, NEW j \in 1 .. n - 1, t[i] = t[j] PROVE i = j
  <2>1. PICK x \in 1 .. n : t[i] = s[x] /\ x = IF i < k THEN i ELSE i + 1
    BY <1>4
  <2>2. PICK y \in 1 .. n : t[j] = s[y] /\ y = IF j < k THEN j ELSE j + 1
    BY <1>4
  <2>3. s[x] = s[y]
    BY <1>6, <2>1, <2>2
  <2>4. x = y
    BY <1>2, <2>3
  <2> QED
    BY <1>1, <2>1, <2>2, <2>4
<1>7. ASSUME NEW a \in DOMAIN new PROVE \E i \in 1 .. n - 1 : t[i] = a
  <2>1. PICK j \in 1 .. n : s[j] = a
    BY <1>2
  <2>2. j # k
    BY <2>1
  <2>3. CASE j < k
    <3>1. j \in 1 .. n - 1 /\ t[j] = s[j]
      BY <1>1, <1>3, <2>3
    <3> QED
      BY <2>1, <3>1
  <2>4. CASE j > k
    <3> DEFINE i == j - 1
    <3>1. i \in 1 .. n - 1 /\ ~(i < k) /\ i + 1 = j
      BY <1>1, <2>4
    <3> HIDE DEF i
    <3>2. t[i] = s[j]
      BY <1>3, <3>1
    <3> QED
      BY <2>1, <3>1, <3>2
  <2> QED
    BY <1>1, <2>2, <2>3, <2>4
<1>8. (IF k = 1 THEN nodes[s[k]].next ELSE first) = IF n - 1 = 0 THEN Null ELSE t[1]
  <2>1. CASE n = 1
    <3>1. k = 1
      BY <1>1, <2>1
    <3> QED
      BY <1>1, <1>2, <2>1, <3>1
  <2>2. CASE n # 1
    <3>1. 1 \in 1 .. n - 1 /\ n - 1 # 0 /\ n # 0 /\ 1 \in 1 .. n /\ 1 + 1 = 2
      BY <1>1, <2>2
    <3>2. CASE k = 1
      <4>1. t[1] = s[2] /\ nodes[s[1]].next = s[2]
        BY <1>2, <1>3, <2>2, <3>1, <3>2
      <4> QED
        BY <3>1, <3>2, <4>1
    <3>3. CASE k # 1
      <4>1. 1 < k
        BY <1>1, <3>3
      <4> QED
        BY <1>2, <1>3, <3>1, <3>3, <4>1
    <3> QED
      BY <3>2, <3>3
  <2> QED
    BY <2>1, <2>2
<1>9. (IF k = n THEN nodes[s[k]].prev ELSE last) = IF n - 1 = 0 THEN Null ELSE t[n - 1]
  <2>1. CASE n = 1
    <3>1. k = 1
      BY <1>1, <2>1
    <3> QED
      BY <1>1, <1>2, <2>1, <3>1
  <2>2. CASE n # 1
    <3>1. n - 1 \in 1 .. n - 1 /\ n - 1 # 0 /\ n # 0 /\ n - 1 + 1 = n /\ n \in 1 .. n
      BY <1>1, <2>2
    <3>2. CASE k = n
      <4>1. n - 1 < k
        BY <1>1, <3>2
      <4>2. t[n - 1] = s[n - 1]
        BY <1>3, <3>1, <4>1
      <4>3. nodes[s[n]].prev = s[n - 1]
        BY <1>2, <2>2, <3>1
      <4> QED
        BY <3>1, <3>2, <4>2, <4>3
    <3>3. CASE k # n
      <4>1. ~(n - 1 < k)
        BY <1>1, <3>3
      <4>2. t[n - 1] = s[n]
        BY <1>3, <3>1, <4>1
      <4> QED
        BY <1>2, <3>1, <3>3, <4>2
    <3> QED
      BY <3>2, <3>3
  <2> QED
    BY <2>1, <2>2
<1>10. ASSUME NEW i \in 1 .. n - 1
       PROVE  new[t[i]].prev = IF i = 1 THEN Null ELSE t[i - 1]
  <2>1. i \in Nat /\ t[i] \in DOMAIN new
    BY <1>1, <1>4
  <2>2. CASE i < k
    <3>1. i \in 1 .. n /\ t[i] = s[i]
      BY <1>1, <1>3, <2>1, <2>2
    <3>2. s[i] # nodes[s[k]].next
      <4>1. CASE k = n
        BY <1>1, <1>2, <3>1, <4>1
      <4>2. CASE k # n
        <5>1. k + 1 \in 1 .. n /\ i # k + 1
          BY <1>1, <2>1, <2>2, <4>2
        <5>2. nodes[s[k]].next = s[k + 1]
          BY <1>1, <1>2, <4>2
        <5> QED
          BY <1>2, <3>1, <5>1, <5>2
      <4> QED
        BY <4>1, <4>2
    <3>3. new[t[i]].prev = IF i = 1 THEN Null ELSE s[i - 1]
      <4>1. new[t[i]].prev = nodes[s[i]].prev
        BY <1>4, <3>1, <3>2
      <4>2. nodes[s[i]].prev = IF i = 1 THEN Null ELSE s[i - 1]
        BY <1>2, <3>1
      <4> QED
        BY <4>1, <4>2
    <3>4. CASE i = 1
      BY <3>3, <3>4
    <3>5. CASE i # 1
      <4>1. i - 1 \in 1 .. n - 1 /\ i - 1 < k
        BY <1>1, <2>1, <2>2, <3>5
      <4> QED
        BY <1>3, <3>3, <3>5, <4>1
    <3> QED
      BY <3>4, <3>5
  <2>3. CASE i = k
    <3>1. t[i] = s[i + 1] /\ k # n /\ i + 1 = k + 1
      BY <1>1, <1>3, <2>3
    <3>2. t[i] = nodes[s[k]].next
      BY <1>1, <1>2, <2>3, <3>1
    <3>3. new[t[i]].prev = IF k = 1 THEN Null ELSE s[k - 1]
      <4>1. new[t[i]].prev = nodes[s[k]].prev
        BY <1>4, <3>2
      <4>2. nodes[s[k]].prev = IF k = 1 THEN Null ELSE s[k - 1]
        BY <1>1, <1>2
      <4> QED
        BY <4>1, <4>2
    <3>4. CASE i = 1
      BY <2>3, <3>3, <3>4
    <3>5. CASE i # 1
      <4>1. i - 1 \in 1 .. n - 1 /\ i - 1 < k
        BY <1>1, <2>1, <2>3, <3>5
      <4> QED
        BY <1>3, <2>3, <3>3, <3>5, <4>1
    <3> QED
      BY <3>4, <3>5
  <2>4. CASE i > k
    <3>1. i + 1 \in 1 .. n /\ t[i] = s[i + 1] /\ i + 1 # k + 1 /\ i + 1 # 1 /\ i + 1 - 1 = i
          /\ i # 1
      BY <1>1, <1>3, <2>1, <2>4
    <3>2. s[i + 1] # nodes[s[k]].next
      <4>1. CASE k = n
        BY <1>1, <1>2, <3>1, <4>1
      <4>2. CASE k # n
        <5>1. k + 1 \in 1 .. n
          BY <1>1, <4>2
        <5>2. nodes[s[k]].next = s[k + 1]
          BY <1>1, <1>2, <4>2
        <5> QED
          BY <1>2, <3>1, <5>1, <5>2
      <4> QED
        BY <4>1, <4>2
    <3>3. nodes[s[i + 1]].prev = s[i]
      BY <1>2, <3>1
    <3>4. i - 1 \in 1 .. n - 1 /\ ~(i - 1 < k) /\ i - 1 + 1 = i
      BY <1>1, <2>1, <2>4
    <3>5. t[i - 1] = s[i]
      BY <1>3, <3>4
    <3> QED
      BY <1>4, <2>1, <3>1, <3>2, <3>3, <3>5
  <2> QED
    BY <1>1, <2>1, <2>2, <2>3, <2>4
<1>11. ASSUME NEW i \in 1 .. n - 1
       PROVE  new[t[i]].next = IF i = n - 1 THEN Null ELSE t[i + 1]
  <2>1. i \in Nat /\ (i # n - 1 => i + 1 \in 1 .. n - 1)
    BY <1>1
  <2>2. CASE i + 1 = k
    <3>1. i \in 1 .. n /\ t[i] = s[i] /\ k # 1 /\ k - 1 = i
      BY <1>1, <1>3, <2>1, <2>2
    <3>2. t[i] = nodes[s[k]].prev
      BY <1>1, <1>2, <3>1
    <3>3. new[t[i]].next = IF k = n THEN Null ELSE s[k + 1]
      <4>1. new[t[i]].next = nodes[s[k]].next
        BY <1>4, <3>2
      <4>2. nodes[s[k]].next = IF k = n THEN Null ELSE s[k + 1]
        BY <1>1, <1>2
      <4> QED
        BY <4>1, <4>2
    <3>4. CASE k = n
      <4>1. i = n - 1
        BY <1>1, <2>1, <2>2, <3>4
      <4> QED
        BY <3>3, <3>4, <4>1
    <3>5. CASE k # n
      <4>1. i # n - 1 /\ ~(i + 1 < k)
        BY <1>1, <2>1, <2>2, <3>5
      <4>2. t[i + 1] = s[k + 1]
        BY <1>3, <2>1, <2>2, <4>1
      <4> QED
        BY <3>3, <3>5, <4>1, <4>2
    <3> QED
      BY <3>4, <3>5
  <2>3. CASE i + 1 < k
    <3>1. i \in 1 .. n /\ t[i] = s[i] /\ i # n /\ i # n - 1
      BY <1>1, <1>3, <2>1, <2>3
    <3>2. s[i] # nodes[s[k]].prev
      <4>1. k # 1 /\ k - 1 \in 1 .. n /\ i # k - 1
        BY <1>1, <2>1, <2>3
      <4>2. nodes[s[k]].prev = s[k - 1]
        BY <1>1, <1>2, <4>1
      <4> QED
        BY <1>2, <3>1, <4>1, <4>2
    <3>3. new[t[i]].next = s[i + 1]
      <4>1. new[t[i]].next = nodes[s[i]].next
        BY <1>4, <3>1, <3>2
      <4>2. nodes[s[i]].next = s[i + 1]
        BY <1>2, <3>1
      <4> QED
        BY <4>1, <4>2
    <3>4. t[i + 1] = s[i + 1]
      BY <1>3, <2>1, <2>3, <3>1
    <3> QED
      BY <3>1, <3>3, <3>4
  <2>4. CASE i + 1 > k
    <3> DEFINE j == i + 1
    <3>1. j \in 1 .. n /\ t[i] = s[j] /\ ~(j < k) /\ j \in Nat /\ j > k
      BY <1>1, <1>3, <2>1, <2>4
    <3>2. (j = n <=> i = n - 1) /\ i + 1 = j
      BY <1>1, <2>1
    <3> HIDE DEF j
    <3>3. s[j] # nodes[s[k]].prev
      <4>1. CASE k = 1
        BY <1>1, <1>2, <3>1, <4>1
      <4>2. CASE k # 1
        <5>1. k - 1 \in 1 .. n /\ j # k - 1
          BY <1>1, <3>1, <4>2
        <5>2. nodes[s[k]].prev = s[k - 1]
          BY <1>1, <1>2, <4>2
        <5>3. s[j] # s[k - 1]
          BY <1>2, <3>1, <5>1
        <5> QED
          BY <5>2, <5>3
      <4> QED
        BY <4>1, <4>2
    <3>4. new[t[i]].next = IF j = n THEN Null ELSE s[j + 1]
      <4>1. new[t[i]].next = nodes[s[j]].next
        BY <1>4, <3>1, <3>3
      <4>2. nodes[s[j]].next = IF j = n THEN Null ELSE s[j + 1]
        BY <1>2, <3>1
      <4> QED
        BY <4>1, <4>2
    <3>5. CASE i # n - 1
      <4>1. t[j] = s[j + 1]
        BY <1>3, <2>1, <3>1, <3>2, <3>5
      <4> QED
        BY <3>2, <3>4, <3>5, <4>1
    <3> QED
      BY <3>2, <3>4, <3>5
  <2> QED
    BY <1>1, <2>1, <2>2, <2>3, <2>4
<1>12. /\ f = IF n - 1 = 0 THEN Null ELSE t[1]
       /\ l = IF n - 1 = 0 THEN Null ELSE t[n - 1]
  BY <1>8, <1>9 DEF n
<1> DEFINE m == n - 1
<1>13. /\ t \in Seq(DOMAIN new) /\ Len(t) = m
       /\ \A i, j \in 1 .. m : t[i] = t[j] => i = j
       /\ \A a \in DOMAIN new : \E i \in 1 .. m : t[i] = a
       /\ f = IF m = 0 THEN Null ELSE t[1]
       /\ l = IF m = 0 THEN Null ELSE t[m]
       /\ \A i \in 1 .. m : new[t[i]].prev = IF i = 1 THEN Null ELSE t[i - 1]
       /\ \A i \in 1 .. m : new[t[i]].next = IF i = m THEN Null ELSE t[i + 1]
  BY <1>3, <1>5, <1>6, <1>7, <1>10, <1>11, <1>12
<1> HIDE DEF m
<1> QED
  BY ONLY <1>13 DEF Represents

-----------------------------------------------------------------------------
(* The list as a queue *)

HeapNode == [id : Ids, quantity : Quantity, prev : Pointer, next : Pointer]

Types == Live \subseteq Addresses /\ heap \in [Live -> HeapNode]

\* The entry of an identifier is the address.
Points(entries, id, a) == id \in DOMAIN entries /\ entries[id] = a

\* q is the queue the list s stands for.
IsQueue(q, s, nodes, entries) ==
    /\ q \in Seq(Node(Ids)) /\ Len(q) = Len(s)
    /\ \A i \in 1 .. Len(s) :
          /\ q[i].id = nodes[s[i]].id
          /\ q[i].quantity = nodes[s[i]].quantity
          /\ q[i].indexed = TRUE <=> Points(entries, nodes[s[i]].id, s[i])

\* What a list of the level is sure to hold.
LEMMA ListFacts ==
    ASSUME Types, NEW s, Represents(s, heap, head, tail)
    PROVE  /\ Len(s) \in Nat /\ Null \notin Live
           /\ \A i \in 1 .. Len(s) : s[i] \in Live /\ s[i] # Null /\ heap[s[i]] \in HeapNode
           /\ head = Null <=> Len(s) = 0
           /\ tail = Null <=> Len(s) = 0
<1>1. s \in Seq(Live) /\ Null \notin Live
  BY AddressAssumption DEF Represents, Live, Types
<1>2. Len(s) \in Nat /\ \A i \in 1 .. Len(s) : s[i] \in Live /\ s[i] # Null
  BY <1>1, LenProperties, ElementOfSeq
<1>3. \A i \in 1 .. Len(s) : heap[s[i]] \in HeapNode
  BY <1>2 DEF Types
<1>4. Len(s) # 0 => 1 \in 1 .. Len(s) /\ Len(s) \in 1 .. Len(s)
  BY <1>2
<1>5. /\ head = IF Len(s) = 0 THEN Null ELSE s[1]
      /\ tail = IF Len(s) = 0 THEN Null ELSE s[Len(s)]
  BY DEF Represents
<1> QED
  BY <1>1, <1>2, <1>3, <1>4, <1>5

\* Nodes are equal when their fields are.
LEMMA SameNode ==
    ASSUME NEW n \in Node(Ids), NEW m \in Node(Ids), n.id = m.id, n.quantity = m.quantity,
           n.indexed = TRUE <=> m.indexed = TRUE
    PROVE  n = m
<1>1. n.indexed \in BOOLEAN /\ m.indexed \in BOOLEAN
  BY DEF Node
<1>2. n.indexed = m.indexed
  BY <1>1
<1>3. /\ n = [id |-> n.id, quantity |-> n.quantity, indexed |-> n.indexed]
      /\ m = [id |-> m.id, quantity |-> m.quantity, indexed |-> m.indexed]
  BY DEF Node
<1> QED
  BY <1>2, <1>3

LEMMA SameQueue ==
    ASSUME NEW q \in Seq(Node(Ids)), NEW r \in Seq(Node(Ids)), Len(q) = Len(r),
           \A i \in 1 .. Len(q) : /\ q[i].id = r[i].id
                                  /\ q[i].quantity = r[i].quantity
                                  /\ q[i].indexed = TRUE <=> r[i].indexed = TRUE
    PROVE  q = r
<1>1. ASSUME NEW i \in 1 .. Len(q) PROVE q[i] = r[i]
  <2>1. q[i] \in Node(Ids) /\ r[i] \in Node(Ids)
    BY ElementOfSeq
  <2> QED
    BY <2>1, SameNode
<1> QED
  BY <1>1, SeqEqual

\* The view is the queue of the list.
ViewShows == \A s : Represents(s, heap, head, tail) => IsQueue(View, s, heap, index)

LEMMA ViewIsTheQueue == Types => ViewShows
<1> SUFFICES ASSUME Types, NEW s, Represents(s, heap, head, tail)
             PROVE  IsQueue(View, s, heap, index)
  BY DEF ViewShows
<1> DEFINE Marked(a) == heap[a].id \in DOMAIN index /\ index[heap[a].id] = a
           n == Len(s)
<1>1. n \in Nat /\ \A i \in 1 .. n : s[i] \in Live /\ heap[s[i]] \in HeapNode
  BY ListFacts
<1>2. Reached = s
  BY ReachedIsTheList DEF Types, ReachedIs
<1>3. DOMAIN s = 1 .. n
  <2>1. s \in Seq(DOMAIN heap)
    BY DEF Represents
  <2> QED
    BY <2>1, LenProperties
<1>4. \A a : Marked(a) \in BOOLEAN /\ (Marked(a) <=> Points(index, heap[a].id, a))
  BY DEF Points
<1> DEFINE q == [i \in 1 .. n |-> [id |-> heap[s[i]].id, quantity |-> heap[s[i]].quantity,
                                   indexed |-> Marked(s[i])]]
<1>5. View = q
  BY <1>2, <1>3 DEF View
<1> HIDE DEF Marked, n
<1>6. q \in [1 .. n -> Node(Ids)]
  <2> SUFFICES ASSUME NEW i \in 1 .. n
               PROVE  [id |-> heap[s[i]].id, quantity |-> heap[s[i]].quantity,
                       indexed |-> Marked(s[i])] \in Node(Ids)
    OBVIOUS
  <2> DEFINE mark == Marked(s[i])
  <2>1. mark \in BOOLEAN
    BY <1>4
  <2> HIDE DEF mark
  <2>2. heap[s[i]].id \in Ids /\ heap[s[i]].quantity \in Quantity
    BY <1>1 DEF HeapNode
  <2>3. [id |-> heap[s[i]].id, quantity |-> heap[s[i]].quantity, indexed |-> mark] \in Node(Ids)
    BY <2>1, <2>2 DEF Node
  <2> QED
    BY <2>3 DEF mark
<1>7. q \in Seq(Node(Ids)) /\ Len(q) = n
  BY <1>1, <1>6, FunctionIsSeq
<1>8. ASSUME NEW i \in 1 .. n
      PROVE  /\ q[i].id = heap[s[i]].id
             /\ q[i].quantity = heap[s[i]].quantity
             /\ q[i].indexed = TRUE <=> Points(index, heap[s[i]].id, s[i])
  <2>1. q[i].indexed = Marked(s[i])
    OBVIOUS
  <2>2. Marked(s[i]) = TRUE <=> Points(index, heap[s[i]].id, s[i])
    BY <1>4
  <2> QED
    BY <2>1, <2>2
<1> HIDE DEF q
<1>9. IsQueue(q, s, heap, index)
  BY <1>7, <1>8 DEF IsQueue, n
<1> QED
  BY <1>5, <1>9

LEMMA ViewIsTheQueueNext == Types' => ViewShows'
<1>1. Types => ViewShows
  BY ViewIsTheQueue
<1> QED
  BY <1>1, PTL

\* Erasing an entry leaves the nodes, and marks those of the identifier.
LEMMA UnindexIs ==
    ASSUME NEW q \in Seq(Node(Ids)), NEW id
    PROVE  /\ Unindex(q, id) \in Seq(Node(Ids)) /\ Len(Unindex(q, id)) = Len(q)
           /\ \A i \in 1 .. Len(q) :
                 /\ Unindex(q, id)[i].id = q[i].id
                 /\ Unindex(q, id)[i].quantity = q[i].quantity
                 /\ Unindex(q, id)[i].indexed = TRUE <=> q[i].indexed = TRUE /\ q[i].id # id
<1>1. DOMAIN q = 1 .. Len(q)
  BY LenProperties
<1>2. ASSUME NEW i \in 1 .. Len(q)
      PROVE  /\ Unindex(q, id)[i].id = q[i].id
             /\ Unindex(q, id)[i].quantity = q[i].quantity
             /\ Unindex(q, id)[i].indexed = TRUE <=> q[i].indexed = TRUE /\ q[i].id # id
  <2> DEFINE x == q[i]
  <2>1. x \in Node(Ids)
    BY ElementOfSeq
  <2>2. Unindex(q, id)[i] = IF x.id = id THEN [x EXCEPT !.indexed = FALSE] ELSE x
    BY <1>1 DEF Unindex
  <2> HIDE DEF x
  <2>3. [x EXCEPT !.indexed = FALSE] = [id |-> x.id, quantity |-> x.quantity, indexed |-> FALSE]
    <3> DEFINE off  == FALSE
               mark == x.indexed
    <3>1. x = [id |-> x.id, quantity |-> x.quantity, indexed |-> mark]
      BY <2>1 DEF Node
    <3> HIDE DEF off, mark
    <3>2. [x EXCEPT !.indexed = off] = [id |-> x.id, quantity |-> x.quantity, indexed |-> off]
      BY ONLY <3>1
    <3> QED
      BY <3>2 DEF off
  <2>4. CASE x.id = id
    <3>1. Unindex(q, id)[i] = [id |-> x.id, quantity |-> x.quantity, indexed |-> FALSE]
      BY <2>2, <2>3, <2>4
    <3> QED
      BY <2>4, <3>1 DEF x
  <2>5. CASE x.id # id
    BY <2>2, <2>5 DEF x
  <2> QED
    BY <2>4, <2>5
<1> QED
  BY <1>2, UnindexType

-----------------------------------------------------------------------------
(* The steps *)

Linked == \E s : Represents(s, heap, head, tail)

\* The list is a list, the index points into it, the totals are its totals.
Inv == Types /\ IndexSound /\ Linked /\ TotalsExact

\* What a step begins with.
Before(s) ==
    /\ Len(s) \in Nat /\ Null \notin Live
    /\ \A i \in 1 .. Len(s) : s[i] \in Live /\ s[i] # Null /\ heap[s[i]] \in HeapNode
    /\ head = Null <=> Len(s) = 0
    /\ tail = Null <=> Len(s) = 0
    /\ IsQueue(View, s, heap, index)
    /\ total = TotalQuantity(View) /\ count = Len(View)

LEMMA BeforeAStep ==
    ASSUME Inv, NEW s, Represents(s, heap, head, tail)
    PROVE  Before(s)
<1>1. IsQueue(View, s, heap, index)
  BY ViewIsTheQueue DEF ViewShows, Inv
<1>2. total = TotalQuantity(View) /\ count = Len(View)
  BY DEF Inv, TotalsExact
<1> QED
  BY <1>1, <1>2, ListFacts DEF Before, Inv

\* What a step has to show: the new list, and the queue and total it stands for.
LEMMA AfterAStep ==
    ASSUME Types', IndexSound', NEW t, Represents(t, heap', head', tail'),
           total' = TotalQuantity(View'), count' = Len(View')
    PROVE  Inv'
BY DEF Inv, Linked, TotalsExact

LEMMA AddOrderStep ==
    ASSUME Inv, NEW id \in Ids, NEW quantity \in Amounts, NEW at \in Addresses,
           AddOrder(id, quantity, at)
    PROVE  Inv' /\ View' = AddNode(View, id, quantity)
<1>1. PICK s : Represents(s, heap, head, tail)
  BY DEF Inv, Linked
<1>2. Before(s) /\ Types /\ IndexSound /\ at \notin Live /\ quantity \in Quantity
  BY <1>1, BeforeAStep, AmountAssumption DEF Inv, AddOrder
<1> DEFINE node == [id |-> id, quantity |-> quantity, prev |-> tail, next |-> Null]
           linked == [a \in Live \cup {at} |-> IF a = at THEN node ELSE heap[a]]
           t == Append(s, at)
           q == View
           new == [id |-> id, quantity |-> quantity, indexed |-> TRUE]
<1>3. tail # Null => tail \in Live /\ tail # at
  <2> SUFFICES ASSUME tail # Null PROVE tail \in Live /\ tail # at
    OBVIOUS
  <2>1. Len(s) \in 1 .. Len(s) /\ tail = s[Len(s)]
    BY <1>1, <1>2 DEF Before, Represents
  <2> QED
    BY <1>2, <2>1 DEF Before
<1>4. heap' = IF tail = Null THEN linked ELSE [linked EXCEPT ![tail].next = at]
  BY DEF AddOrder, Allocate
<1>5. node \in HeapNode /\ node.id = id /\ node.quantity = quantity /\ node.prev = tail
      /\ node.next = Null
  BY <1>2, <1>3 DEF HeapNode, Pointer, Types
<1>6. /\ DOMAIN heap' = Live \cup {at}
      /\ heap'[at] = node
      /\ \A a \in Live : /\ heap'[a].id = heap[a].id
                         /\ heap'[a].quantity = heap[a].quantity
                         /\ heap'[a].prev = heap[a].prev
                         /\ heap'[a].next = IF a = tail THEN at ELSE heap[a].next
                         /\ heap'[a] \in HeapNode
  <2> HIDE DEF node
  <2>1. DOMAIN heap' = Live \cup {at} /\ heap'[at] = node
    BY <1>3, <1>4
  <2>2. ASSUME NEW a \in Live
        PROVE  /\ heap'[a].id = heap[a].id
               /\ heap'[a].quantity = heap[a].quantity
               /\ heap'[a].prev = heap[a].prev
               /\ heap'[a].next = IF a = tail THEN at ELSE heap[a].next
               /\ heap'[a] \in HeapNode
    <3>1. heap[a] \in HeapNode /\ a # at /\ a # Null
      BY <1>2 DEF Types, Before
    <3>2. CASE a = tail
      <4>1. heap'[a] = [heap[a] EXCEPT !.next = at]
        BY <1>4, <3>1, <3>2
      <4> QED
        BY <3>1, <3>2, <4>1 DEF HeapNode, Pointer
    <3>3. CASE a # tail
      <4>1. heap'[a] = heap[a]
        BY <1>4, <3>1, <3>3
      <4> QED
        BY <3>1, <3>3, <4>1
    <3> QED
      BY <3>2, <3>3
  <2> QED
    BY <2>1, <2>2
<1> HIDE DEF linked, node
<1>7. Represents(t, heap', head', tail')
  <2>1. head' = (IF tail = Null THEN at ELSE head) /\ tail' = at
    BY DEF AddOrder
  <2>2. /\ at \notin DOMAIN heap /\ Null \notin DOMAIN heap
        /\ DOMAIN heap' = DOMAIN heap \cup {at}
        /\ \A a \in DOMAIN heap :
              /\ heap'[a].prev = heap[a].prev
              /\ heap'[a].next = IF a = tail THEN at ELSE heap[a].next
        /\ heap'[at].prev = tail /\ heap'[at].next = Null
    BY <1>2, <1>5, <1>6 DEF Before, Live
  <2> DEFINE nodes == heap'
  <2>3. Represents(t, nodes, IF tail = Null THEN at ELSE head, at)
    <3> HIDE DEF nodes
    <3>1. /\ at \notin DOMAIN heap /\ Null \notin DOMAIN heap
          /\ DOMAIN nodes = DOMAIN heap \cup {at}
          /\ \A a \in DOMAIN heap :
                /\ nodes[a].prev = heap[a].prev
                /\ nodes[a].next = IF a = tail THEN at ELSE heap[a].next
          /\ nodes[at].prev = tail /\ nodes[at].next = Null
      BY <2>2 DEF nodes
    <3> QED
      BY <1>1, <3>1, AppendToList
  <2> QED
    BY <2>1, <2>3
<1>8. Types'
  <2>1. heap' = [a \in DOMAIN heap' |-> heap'[a]]
    BY <1>4 DEF linked
  <2> QED
    BY <1>2, <1>5, <1>6, <2>1 DEF Types, Live
<1>9. /\ DOMAIN index' = DOMAIN index \cup {id}
      /\ \A i \in DOMAIN index' : index'[i] = IF i = id THEN at ELSE index[i]
  BY DEF AddOrder
<1>10. IndexSound'
  <2> SUFFICES ASSUME NEW i \in DOMAIN index'
               PROVE  index'[i] \in DOMAIN heap' /\ heap'[index'[i]].id = i
    BY DEF IndexSound, Live
  <2>1. CASE i = id
    BY <1>5, <1>6, <1>9, <2>1
  <2>2. CASE i # id
    <3>1. index[i] \in Live /\ heap[index[i]].id = i /\ index'[i] = index[i]
      BY <1>2, <1>9, <2>2 DEF IndexSound
    <3> QED
      BY <1>6, <3>1
  <2> QED
    BY <2>1, <2>2
<1>11. IsQueue(View', t, heap', index')
  BY <1>7, <1>8, ViewIsTheQueueNext DEF ViewShows
<1>12. /\ q \in Seq(Node(Ids)) /\ Len(q) = Len(s) /\ Len(s) \in Nat
       /\ \A i \in 1 .. Len(s) :
             /\ q[i].id = heap[s[i]].id
             /\ q[i].quantity = heap[s[i]].quantity
             /\ q[i].indexed = TRUE <=> Points(index, heap[s[i]].id, s[i])
       /\ total = TotalQuantity(q) /\ count = Len(q)
  BY <1>2 DEF Before, IsQueue
<1> HIDE DEF q
<1> DEFINE u == Unindex(q, id)
<1>13. /\ u \in Seq(Node(Ids)) /\ Len(u) = Len(q)
       /\ \A i \in 1 .. Len(q) :
             /\ u[i].id = q[i].id
             /\ u[i].quantity = q[i].quantity
             /\ u[i].indexed = TRUE <=> q[i].indexed = TRUE /\ q[i].id # id
  BY <1>12, UnindexIs
<1>14. new \in Node(Ids) /\ new.id = id /\ new.quantity = quantity /\ new.indexed = TRUE
  BY <1>2 DEF Node
<1> HIDE DEF u, new
<1>15. /\ Append(u, new) \in Seq(Node(Ids)) /\ Len(Append(u, new)) = Len(s) + 1
       /\ \A i \in 1 .. Len(s) : Append(u, new)[i] = u[i]
       /\ Append(u, new)[Len(s) + 1] = new
  BY <1>12, <1>13, <1>14, AppendProperties
<1>16. /\ Len(t) = Len(s) + 1
       /\ \A i \in 1 .. Len(s) : t[i] = s[i]
       /\ t[Len(s) + 1] = at
  <2>1. s \in Seq(Addresses)
    <3>1. s \in Seq(Live) /\ Live \subseteq Addresses
      BY <1>1, <1>2 DEF Represents, Live, Types
    <3> QED
      BY <3>1, SeqMonotonic
  <2> QED
    BY <2>1, AppendProperties
<1> HIDE DEF t
<1>17. View' = Append(u, new)
  <2>1. View' \in Seq(Node(Ids)) /\ Len(View') = Len(s) + 1
    BY <1>11, <1>16 DEF IsQueue
  <2>2. ASSUME NEW i \in 1 .. Len(s) + 1
        PROVE  /\ View'[i].id = Append(u, new)[i].id
               /\ View'[i].quantity = Append(u, new)[i].quantity
               /\ View'[i].indexed = TRUE <=> Append(u, new)[i].indexed = TRUE
    <3>1. /\ View'[i].id = heap'[t[i]].id
          /\ View'[i].quantity = heap'[t[i]].quantity
          /\ View'[i].indexed = TRUE <=> Points(index', heap'[t[i]].id, t[i])
      BY <1>11, <1>16 DEF IsQueue
    <3>2. CASE i = Len(s) + 1
      <4>1. t[i] = at /\ Append(u, new)[i] = new
        BY <1>15, <1>16, <3>2
      <4>2. Points(index', id, at)
        BY <1>9 DEF Points
      <4> QED
        BY <1>5, <1>6, <1>14, <3>1, <4>1, <4>2
    <3>3. CASE i # Len(s) + 1
      <4>1. i \in 1 .. Len(s) /\ i \in 1 .. Len(q)
        BY <1>12, <3>3
      <4>2. t[i] = s[i] /\ Append(u, new)[i] = u[i] /\ s[i] \in Live
        BY <1>2, <1>15, <1>16, <4>1 DEF Before
      <4>3. heap'[t[i]].id = heap[s[i]].id /\ heap'[t[i]].quantity = heap[s[i]].quantity
        BY <1>6, <4>2
      <4>4. Points(index', heap[s[i]].id, s[i])
              <=> Points(index, heap[s[i]].id, s[i]) /\ heap[s[i]].id # id
        BY <1>2, <1>9, <4>2 DEF Points
      <4> QED
        BY <1>12, <1>13, <3>1, <4>1, <4>2, <4>3, <4>4
    <3> QED
      BY <3>2, <3>3
  <2> QED
    BY <1>15, <2>1, <2>2, SameQueue
<1>18. View' = AddNode(View, id, quantity)
  BY <1>17 DEF AddNode, u, new, q
<1>19. total' = TotalQuantity(View') /\ count' = Len(View')
  <2>1. TotalQuantity(Append(u, new)) = Plus(TotalQuantity(u), new.quantity)
    BY <1>13, <1>14, TotalOfLonger
  <2>2. TotalQuantity(u) = TotalQuantity(q)
    BY <1>12, <1>13, TotalOfSame
  <2>3. total' = Plus(total, quantity) /\ count' = count + 1
    BY DEF AddOrder, Plus
  <2> QED
    BY <1>12, <1>14, <1>15, <1>17, <2>1, <2>2, <2>3
<1> QED
  BY <1>7, <1>8, <1>10, <1>18, <1>19, AfterAStep

\* r is q without its node at k, and without marks on nodes of the identifier.
Shrunk(r, q, k, id) ==
    /\ r \in Seq(Node(Ids)) /\ Len(r) = Len(q) - 1
    /\ \A i \in 1 .. Len(r) :
          LET j == IF i < k THEN i ELSE i + 1
          IN  /\ r[i].id = q[j].id
              /\ r[i].quantity = q[j].quantity
              /\ r[i].indexed = TRUE <=> q[j].indexed = TRUE /\ q[j].id # id

\* The k-th node of the list goes, with the entry of its identifier.
LEMMA RemovalStep ==
    ASSUME Inv, NEW s, Represents(s, heap, head, tail), NEW k \in 1 .. Len(s),
           NEW t \in Seq(Live), LacksElement(t, s, k),
           heap' = [b \in Live \ {s[k]} |-> heap'[b]],
           \A b \in Live \ {s[k]} :
              /\ heap'[b] \in HeapNode
              /\ heap'[b].id = heap[b].id
              /\ heap'[b].quantity = heap[b].quantity
              /\ heap'[b].prev = IF b = heap[s[k]].next THEN heap[s[k]].prev ELSE heap[b].prev
              /\ heap'[b].next = IF b = heap[s[k]].prev THEN heap[s[k]].next ELSE heap[b].next,
           head' = IF k = 1 THEN heap[s[k]].next ELSE head,
           tail' = IF k = Len(s) THEN heap[s[k]].prev ELSE tail,
           index' = Erased(heap[s[k]].id),
           total' = Subtract(heap[s[k]].quantity), count' = count - 1
    PROVE  Inv' /\ Shrunk(View', View, k, heap[s[k]].id)
<1>1. Before(s) /\ Types /\ IndexSound
  BY BeforeAStep DEF Inv
<1>2. /\ Len(s) \in Nat /\ Null \notin Live
      /\ \A i \in 1 .. Len(s) : s[i] \in Live /\ s[i] # Null
      /\ \A i, j \in 1 .. Len(s) : s[i] = s[j] => i = j
  BY <1>1 DEF Before, Represents
<1> DEFINE nodes == heap'
           gone == heap[s[k]].id
           q == View
<1>3. DOMAIN nodes = Live \ {s[k]}
  <2>1. DOMAIN [b \in Live \ {s[k]} |-> heap'[b]] = Live \ {s[k]}
    OBVIOUS
  <2> QED
    BY <2>1
<1>4. Represents(t, heap', head', tail')
  <2> HIDE DEF nodes
  <2>1. /\ t \in Seq(DOMAIN heap) /\ Null \notin DOMAIN heap
        /\ DOMAIN nodes = DOMAIN heap \ {s[k]}
        /\ \A b \in DOMAIN nodes :
              /\ nodes[b].prev = IF b = heap[s[k]].next THEN heap[s[k]].prev ELSE heap[b].prev
              /\ nodes[b].next = IF b = heap[s[k]].prev THEN heap[s[k]].next ELSE heap[b].next
    BY <1>2, <1>3 DEF Live, nodes
  <2> DEFINE f == head'
             l == tail'
  <2>2. /\ Bypassed(nodes, heap, s[k])
        /\ f = IF k = 1 THEN heap[s[k]].next ELSE head
        /\ l = IF k = Len(s) THEN heap[s[k]].prev ELSE tail
    BY <2>1 DEF Bypassed
  <2> HIDE DEF f, l
  <2>3. Unlinks(t, nodes, f, l, s, heap, head, tail, k)
    BY <2>1, <2>2 DEF Unlinks
  <2>4. Represents(t, nodes, f, l)
    BY <2>3, UnlinkFromList, Zenon
  <2> QED
    BY <2>4 DEF nodes, f, l
<1>5. Types'
  BY <1>1, <1>3 DEF Types, Live
<1>6. /\ DOMAIN index' = DOMAIN index \ {gone}
      /\ \A i \in DOMAIN index' : index'[i] = index[i]
  BY DEF Erased
<1>7. IndexSound'
  <2> SUFFICES ASSUME NEW i \in DOMAIN index'
               PROVE  index'[i] \in DOMAIN heap' /\ heap'[index'[i]].id = i
    BY DEF IndexSound, Live
  <2>1. i # gone /\ index'[i] = index[i] /\ index[i] \in Live /\ heap[index[i]].id = i
    BY <1>1, <1>6 DEF IndexSound
  <2>2. index[i] # s[k]
    BY <2>1
  <2> QED
    BY <1>3, <2>1, <2>2
<1>8. IsQueue(View', t, heap', index')
  BY <1>4, <1>5, ViewIsTheQueueNext DEF ViewShows
<1>9. /\ q \in Seq(Node(Ids)) /\ Len(q) = Len(s)
      /\ \A i \in 1 .. Len(s) :
            /\ q[i].id = heap[s[i]].id
            /\ q[i].quantity = heap[s[i]].quantity
            /\ q[i].indexed = TRUE <=> Points(index, heap[s[i]].id, s[i])
      /\ total = TotalQuantity(q) /\ count = Len(q)
  BY <1>1 DEF Before, IsQueue
<1> HIDE DEF q, gone
<1>10. /\ Len(t) = Len(s) - 1
       /\ \A i \in 1 .. Len(t) : t[i] = IF i < k THEN s[i] ELSE s[i + 1]
  BY DEF LacksElement
<1>11. View' \in Seq(Node(Ids)) /\ Len(View') = Len(q) - 1
  BY <1>8, <1>9, <1>10 DEF IsQueue
<1>12. ASSUME NEW i \in 1 .. Len(q) - 1
       PROVE  LET j == IF i < k THEN i ELSE i + 1
              IN  /\ View'[i].id = q[j].id
                  /\ View'[i].quantity = q[j].quantity
                  /\ View'[i].indexed = TRUE <=> q[j].indexed = TRUE /\ q[j].id # gone
  <2> DEFINE j == IF i < k THEN i ELSE i + 1
  <2>1. i \in 1 .. Len(t) /\ j \in 1 .. Len(s) /\ j # k
    BY <1>2, <1>9, <1>10, <1>12
  <2>2. t[i] = s[j]
    BY <1>10, <2>1
  <2> HIDE DEF j
  <2>3. s[j] \in Live /\ s[j] # s[k]
    BY <1>2, <2>1
  <2>4. heap'[s[j]].id = heap[s[j]].id /\ heap'[s[j]].quantity = heap[s[j]].quantity
    BY <2>3
  <2>5. /\ View'[i].id = heap'[s[j]].id
        /\ View'[i].quantity = heap'[s[j]].quantity
        /\ View'[i].indexed = TRUE <=> Points(index', heap'[s[j]].id, s[j])
    BY <1>8, <2>1, <2>2 DEF IsQueue
  <2>6. Points(index', heap[s[j]].id, s[j])
          <=> Points(index, heap[s[j]].id, s[j]) /\ heap[s[j]].id # gone
    BY <1>6 DEF Points
  <2>7. /\ View'[i].id = q[j].id
        /\ View'[i].quantity = q[j].quantity
        /\ View'[i].indexed = TRUE <=> q[j].indexed = TRUE /\ q[j].id # gone
    BY <1>9, <2>1, <2>4, <2>5, <2>6
  <2> QED
    BY <2>7 DEF j
<1>13. Shrunk(View', q, k, gone)
  BY <1>11, <1>12 DEF Shrunk
<1>14. total' = TotalQuantity(View') /\ count' = Len(View')
  <2>1. k \in 1 .. Len(q) /\ q[k].quantity = heap[s[k]].quantity
    BY <1>9
  <2>2. \A i \in 1 .. Len(View') : View'[i].quantity = IF i < k THEN q[i].quantity
                                                       ELSE q[i + 1].quantity
    BY <1>13 DEF Shrunk
  <2> DEFINE r == View'
  <2>3. TotalQuantity(r) = Minus(TotalQuantity(q), q[k].quantity)
    <3>1. r \in Seq(Node(Ids)) /\ Len(r) = Len(q) - 1
          /\ \A i \in 1 .. Len(r) : r[i].quantity = IF i < k THEN q[i].quantity
                                                    ELSE q[i + 1].quantity
      BY <1>11, <2>2
    <3> HIDE DEF r
    <3> QED
      BY <1>9, <2>1, <3>1, TotalOfShorter
  <2>4. total' = Minus(total, heap[s[k]].quantity)
    BY DEF Subtract, Minus
  <2> QED
    BY <1>9, <1>11, <2>1, <2>3, <2>4
<1>15. Inv'
  BY <1>4, <1>5, <1>7, <1>14, AfterAStep
<1> QED
  BY <1>13, <1>15 DEF q, gone

\* The entry of an identifier points to one node of the queue.
LEMMA EntryPosition ==
    ASSUME IndexSound, NEW s, Represents(s, heap, head, tail), Before(s),
           NEW id \in DOMAIN index
    PROVE  \E k \in 1 .. Len(s) :
              /\ s[k] = index[id] /\ heap[s[k]].id = id
              /\ Found(View, id) = {k}
              /\ k \in 1 .. Len(View)
<1>1. index[id] \in Live /\ heap[index[id]].id = id
  BY DEF IndexSound
<1>2. PICK k \in 1 .. Len(s) : s[k] = index[id]
  BY <1>1 DEF Represents, Live
<1> DEFINE q == View
<1>3. /\ q \in Seq(Node(Ids)) /\ Len(q) = Len(s)
      /\ \A i \in 1 .. Len(s) :
            /\ q[i].id = heap[s[i]].id
            /\ q[i].indexed = TRUE <=> Points(index, heap[s[i]].id, s[i])
  BY DEF Before, IsQueue
<1> HIDE DEF q
<1>4. \A i \in 1 .. Len(s) : q[i].indexed \in BOOLEAN
  <2> TAKE i \in 1 .. Len(s)
  <2>1. q[i] \in Node(Ids)
    BY <1>3, ElementOfSeq
  <2> QED
    BY <2>1 DEF Node
<1>5. DOMAIN q = 1 .. Len(s)
  BY <1>3, LenProperties
<1>6. \A i \in 1 .. Len(s) : q[i].id = id /\ q[i].indexed <=> i = k
  <2> TAKE i \in 1 .. Len(s)
  <2>1. q[i].id = id /\ Points(index, heap[s[i]].id, s[i]) <=> i = k
    <3>1. s[i] = s[k] <=> i = k
      BY DEF Represents
    <3> QED
      BY <1>1, <1>2, <1>3, <3>1 DEF Points
  <2>2. q[i].indexed <=> q[i].indexed = TRUE
    BY <1>4
  <2> QED
    BY <1>3, <2>1, <2>2
<1>7. Found(q, id) = {k}
  BY <1>5, <1>6 DEF Found
<1> QED
  BY <1>1, <1>2, <1>3, <1>7 DEF q

LEMMA RemoveOrderStep ==
    ASSUME Inv, NEW id \in Ids, RemoveOrder(id)
    PROVE  Inv' /\ View' = RemoveNode(View, id)
<1>1. PICK s : Represents(s, heap, head, tail)
  BY DEF Inv, Linked
<1>2. Before(s) /\ Types /\ IndexSound /\ id \in DOMAIN index
  BY <1>1, BeforeAStep DEF Inv, RemoveOrder
<1>3. PICK k \in 1 .. Len(s) : /\ s[k] = index[id] /\ heap[s[k]].id = id
                               /\ Found(View, id) = {k}
                               /\ k \in 1 .. Len(View)
  BY <1>1, <1>2, EntryPosition
<1> DEFINE a == s[k]
           t == RemoveAt(s, k)
           q == View
<1>4. /\ s \in Seq(Live) /\ Len(s) \in Nat /\ k \in Nat /\ Null \notin Live
      /\ \A i \in 1 .. Len(s) : s[i] \in Live /\ s[i] # Null
      /\ \A i, j \in 1 .. Len(s) : s[i] = s[j] => i = j
      /\ heap[a].prev = (IF k = 1 THEN Null ELSE s[k - 1])
      /\ heap[a].next = (IF k = Len(s) THEN Null ELSE s[k + 1])
      /\ heap[a] \in HeapNode
  <2>1. /\ s \in Seq(Live)
        /\ \A i, j \in 1 .. Len(s) : s[i] = s[j] => i = j
        /\ heap[s[k]].prev = (IF k = 1 THEN Null ELSE s[k - 1])
        /\ heap[s[k]].next = (IF k = Len(s) THEN Null ELSE s[k + 1])
    BY <1>1 DEF Represents, Live
  <2>2. /\ Len(s) \in Nat /\ Null \notin Live
        /\ \A i \in 1 .. Len(s) : s[i] \in Live /\ s[i] # Null /\ heap[s[i]] \in HeapNode
    BY <1>2 DEF Before
  <2> QED
    BY <2>1, <2>2
<1>5. t \in Seq(Live) /\ LacksElement(t, s, k)
  BY <1>4, RemoveAtLeaves
<1> HIDE DEF a, t
<1>6. heap[a].prev = heap[a].next => heap[a].prev \notin Live
  <2> SUFFICES ASSUME heap[a].prev = heap[a].next, heap[a].prev \in Live PROVE FALSE
    OBVIOUS
  <2>1. k # 1 /\ k # Len(s)
    BY <1>4
  <2>2. k - 1 \in 1 .. Len(s) /\ k + 1 \in 1 .. Len(s) /\ k - 1 # k + 1
    BY <1>4, <2>1
  <2>3. s[k - 1] = s[k + 1]
    BY <1>4, <2>1
  <2> QED
    BY <1>4, <2>2, <2>3
<1>7. heap' = [b \in Live \ {a} |->
                  IF b = heap[a].prev THEN [heap[b] EXCEPT !.next = heap[a].next]
                  ELSE IF b = heap[a].next THEN [heap[b] EXCEPT !.prev = heap[a].prev]
                  ELSE heap[b]]
  BY <1>3 DEF RemoveOrder, Freed, Bypass, a, Live
<1>8. ASSUME NEW b \in Live \ {a}
      PROVE  /\ heap'[b] \in HeapNode
             /\ heap'[b].id = heap[b].id
             /\ heap'[b].quantity = heap[b].quantity
             /\ heap'[b].prev = IF b = heap[a].next THEN heap[a].prev ELSE heap[b].prev
             /\ heap'[b].next = IF b = heap[a].prev THEN heap[a].next ELSE heap[b].next
  <2>1. heap[b] \in HeapNode /\ heap[a].prev \in Pointer /\ heap[a].next \in Pointer
    BY <1>2, <1>4 DEF Types, HeapNode
  <2>2. heap'[b] = IF b = heap[a].prev THEN [heap[b] EXCEPT !.next = heap[a].next]
                   ELSE IF b = heap[a].next THEN [heap[b] EXCEPT !.prev = heap[a].prev]
                   ELSE heap[b]
    BY <1>7
  <2>3. CASE b = heap[a].prev
    <3>1. b # heap[a].next
      BY <1>6, <2>3
    <3>2. heap'[b] = [heap[b] EXCEPT !.next = heap[a].next]
      BY <2>2, <2>3
    <3> DEFINE x == heap[b]
               to == heap[a].next
    <3>3. x \in HeapNode /\ to \in Pointer /\ heap'[b] = [x EXCEPT !.next = to]
      BY <2>1, <3>2
    <3> HIDE DEF x, to
    <3>4. /\ heap'[b] \in HeapNode /\ heap'[b].id = x.id /\ heap'[b].quantity = x.quantity
          /\ heap'[b].prev = x.prev /\ heap'[b].next = to
      BY <3>3 DEF HeapNode
    <3> QED
      BY <2>3, <3>1, <3>4 DEF x, to
  <2>4. CASE b # heap[a].prev /\ b = heap[a].next
    <3>1. heap'[b] = [heap[b] EXCEPT !.prev = heap[a].prev]
      BY <2>2, <2>4
    <3> DEFINE x == heap[b]
               to == heap[a].prev
    <3>2. x \in HeapNode /\ to \in Pointer /\ heap'[b] = [x EXCEPT !.prev = to]
      BY <2>1, <3>1
    <3> HIDE DEF x, to
    <3>3. /\ heap'[b] \in HeapNode /\ heap'[b].id = x.id /\ heap'[b].quantity = x.quantity
          /\ heap'[b].next = x.next /\ heap'[b].prev = to
      BY <3>2 DEF HeapNode
    <3> QED
      BY <2>4, <3>3 DEF x, to
  <2>5. CASE b # heap[a].prev /\ b # heap[a].next
    BY <2>1, <2>2, <2>5
  <2> QED
    BY <2>3, <2>4, <2>5
<1>9. heap' = [b \in Live \ {a} |-> heap'[b]]
  BY <1>7
<1>10. head' = IF k = 1 THEN heap[a].next ELSE head
  <2>1. heap[a].prev = Null <=> k = 1
    <3>1. k # 1 => k - 1 \in 1 .. Len(s)
      BY <1>4
    <3> QED
      BY <1>4, <3>1
  <2> QED
    BY <1>3, <2>1 DEF RemoveOrder, a
<1>11. tail' = IF k = Len(s) THEN heap[a].prev ELSE tail
  <2>1. heap[a].next = Null <=> k = Len(s)
    <3>1. k # Len(s) => k + 1 \in 1 .. Len(s)
      BY <1>4
    <3> QED
      BY <1>4, <3>1
  <2> QED
    BY <1>3, <2>1 DEF RemoveOrder, a
<1>12. /\ index' = Erased(heap[a].id) /\ total' = Subtract(heap[a].quantity)
       /\ count' = count - 1
  BY <1>3 DEF RemoveOrder, a
<1>13. Inv' /\ Shrunk(View', View, k, heap[a].id)
  BY <1>1, <1>5, <1>8, <1>9, <1>10, <1>11, <1>12, RemovalStep DEF a
<1>14. q \in Seq(Node(Ids)) /\ Len(q) = Len(s)
  BY <1>2 DEF Before, IsQueue
<1> DEFINE r == RemoveAt(q, k)
           v == View'
<1>15. Shrunk(v, q, k, id) /\ k \in 1 .. Len(q) /\ Found(q, id) = {k}
  BY <1>3, <1>13 DEF a
<1> HIDE DEF v, q
<1>16. r \in Seq(Node(Ids)) /\ LacksElement(r, q, k)
  BY <1>14, <1>15, RemoveAtLeaves
<1>17. RemoveNode(q, id) = r
  <2>1. Found(q, id) # {} /\ (CHOOSE i \in Found(q, id) : TRUE) = k
    BY <1>15
  <2> QED
    BY <2>1 DEF RemoveNode
<1> HIDE DEF r
<1>18. DOMAIN q = 1 .. Len(q)
  BY <1>14, LenProperties
<1>19. ASSUME NEW i \in 1 .. Len(v)
       PROVE  /\ v[i].id = r[i].id
              /\ v[i].quantity = r[i].quantity
              /\ v[i].indexed = TRUE <=> r[i].indexed = TRUE
  <2> DEFINE j == IF i < k THEN i ELSE i + 1
  <2>1. i \in 1 .. Len(r) /\ j \in 1 .. Len(q) /\ j # k
    BY <1>4, <1>14, <1>15, <1>16 DEF Shrunk, LacksElement
  <2>2. r[i] = q[j]
    BY <1>16, <2>1 DEF LacksElement
  <2>3. /\ v[i].id = q[j].id
        /\ v[i].quantity = q[j].quantity
        /\ v[i].indexed = TRUE <=> q[j].indexed = TRUE /\ q[j].id # id
    BY <1>15 DEF Shrunk
  <2> HIDE DEF j
  <2>4. ~(q[j].id = id /\ q[j].indexed = TRUE)
    <3> SUFFICES ASSUME q[j].id = id, q[j].indexed = TRUE PROVE FALSE
      OBVIOUS
    <3>1. j \in Found(q, id)
      BY <1>18, <2>1 DEF Found
    <3> QED
      BY <1>15, <2>1, <3>1
  <2> QED
    BY <2>2, <2>3, <2>4
<1>20. v = r
  <2>1. v \in Seq(Node(Ids)) /\ Len(v) = Len(r)
    BY <1>15, <1>16 DEF Shrunk, LacksElement
  <2> QED
    BY <1>16, <1>19, <2>1, SameQueue
<1> QED
  BY <1>13, <1>17, <1>20 DEF q, v

\* r is q with another quantity at k.
Requantified(r, q, k, y) ==
    /\ r \in Seq(Node(Ids)) /\ Len(r) = Len(q)
    /\ \A i \in 1 .. Len(q) :
          /\ r[i].id = q[i].id
          /\ r[i].quantity = IF i = k THEN y ELSE q[i].quantity
          /\ r[i].indexed = TRUE <=> q[i].indexed = TRUE

\* The k-th node of the list changes its quantity.
LEMMA QuantityStep ==
    ASSUME Inv, NEW s, Represents(s, heap, head, tail), NEW k \in 1 .. Len(s),
           NEW y \in Quantity, heap' = [heap EXCEPT ![s[k]].quantity = y],
           total' = Plus(Minus(total, heap[s[k]].quantity), y),
           UNCHANGED <<head, tail, index, count>>
    PROVE  Inv' /\ Requantified(View', View, k, y)
<1>1. Before(s) /\ Types /\ IndexSound
  BY BeforeAStep DEF Inv
<1> DEFINE a == s[k]
           q == View
           r == View'
<1>2. /\ Len(s) \in Nat /\ a \in Live
      /\ \A i \in 1 .. Len(s) : s[i] \in Live /\ (s[i] = a <=> i = k)
  <2>1. \A i, j \in 1 .. Len(s) : s[i] = s[j] => i = j
    BY DEF Represents
  <2> QED
    BY <1>1, <2>1 DEF Before
<1> HIDE DEF a
<1>3. /\ DOMAIN heap' = Live
      /\ heap' = [b \in Live |-> heap'[b]]
      /\ \A b \in Live : /\ heap'[b] \in HeapNode
                         /\ heap'[b].id = heap[b].id
                         /\ heap'[b].prev = heap[b].prev
                         /\ heap'[b].next = heap[b].next
                         /\ heap'[b].quantity = IF b = a THEN y ELSE heap[b].quantity
  <2>1. heap' = [b \in Live |-> IF b = a THEN [heap[b] EXCEPT !.quantity = y] ELSE heap[b]]
    BY <1>1 DEF a, Live, Types
  <2>2. ASSUME NEW b \in Live
        PROVE  /\ heap'[b] \in HeapNode
               /\ heap'[b].id = heap[b].id
               /\ heap'[b].prev = heap[b].prev
               /\ heap'[b].next = heap[b].next
               /\ heap'[b].quantity = IF b = a THEN y ELSE heap[b].quantity
    <3> DEFINE x == heap[b]
    <3>1. x \in HeapNode /\ heap'[b] = IF b = a THEN [x EXCEPT !.quantity = y] ELSE x
      BY <1>1, <2>1 DEF Types
    <3> HIDE DEF x
    <3>2. CASE b = a
      <4>1. heap'[b] = [x EXCEPT !.quantity = y]
        BY <3>1, <3>2
      <4>2. /\ heap'[b] \in HeapNode /\ heap'[b].id = x.id /\ heap'[b].prev = x.prev
            /\ heap'[b].next = x.next /\ heap'[b].quantity = y
        BY <3>1, <4>1 DEF HeapNode
      <4> QED
        BY <3>2, <4>2 DEF x
    <3>3. CASE b # a
      <4>1. heap'[b] = x
        BY <3>1, <3>3
      <4>2. /\ heap'[b] \in HeapNode /\ heap'[b].id = x.id /\ heap'[b].prev = x.prev
            /\ heap'[b].next = x.next /\ heap'[b].quantity = x.quantity
        BY <3>1, <4>1
      <4> QED
        BY <3>3, <4>2 DEF x
    <3> QED
      BY <3>2, <3>3
  <2> QED
    BY <2>1, <2>2
<1>4. Represents(s, heap', head', tail')
  <2> DEFINE nodes == heap'
  <2>1. /\ DOMAIN nodes = DOMAIN heap
        /\ \A i \in 1 .. Len(s) : /\ nodes[s[i]].prev = heap[s[i]].prev
                                  /\ nodes[s[i]].next = heap[s[i]].next
    BY <1>2, <1>3 DEF Live
  <2> HIDE DEF nodes
  <2>2. Represents(s, nodes, head, tail)
    BY <2>1 DEF Represents
  <2> QED
    BY <2>2 DEF nodes
<1>5. Types'
  BY <1>1, <1>3 DEF Types, Live
<1>6. IndexSound'
  <2> SUFFICES ASSUME NEW i \in DOMAIN index
               PROVE  index[i] \in DOMAIN heap' /\ heap'[index[i]].id = i
    BY DEF IndexSound, Live
  <2> QED
    BY <1>1, <1>3 DEF IndexSound
<1>7. IsQueue(r, s, heap', index')
  BY <1>4, <1>5, ViewIsTheQueueNext DEF ViewShows
<1>8. /\ q \in Seq(Node(Ids)) /\ Len(q) = Len(s)
      /\ \A i \in 1 .. Len(s) :
            /\ q[i].id = heap[s[i]].id
            /\ q[i].quantity = heap[s[i]].quantity
            /\ q[i].indexed = TRUE <=> Points(index, heap[s[i]].id, s[i])
      /\ total = TotalQuantity(q) /\ count = Len(q)
  BY <1>1 DEF Before, IsQueue
<1>9. /\ r \in Seq(Node(Ids)) /\ Len(r) = Len(q)
      /\ \A i \in 1 .. Len(q) :
            /\ r[i].id = q[i].id
            /\ r[i].quantity = IF i = k THEN y ELSE q[i].quantity
            /\ r[i].indexed = TRUE <=> q[i].indexed = TRUE
  <2>1. r \in Seq(Node(Ids)) /\ Len(r) = Len(q)
    BY <1>7, <1>8 DEF IsQueue
  <2>2. ASSUME NEW i \in 1 .. Len(q)
        PROVE  /\ r[i].id = q[i].id
               /\ r[i].quantity = IF i = k THEN y ELSE q[i].quantity
               /\ r[i].indexed = TRUE <=> q[i].indexed = TRUE
    <3>1. /\ r[i].id = heap'[s[i]].id
          /\ r[i].quantity = heap'[s[i]].quantity
          /\ r[i].indexed = TRUE <=> Points(index, heap'[s[i]].id, s[i])
      BY <1>7, <1>8 DEF IsQueue
    <3>2. /\ s[i] \in Live /\ (s[i] = a <=> i = k)
          /\ heap'[s[i]].id = heap[s[i]].id
          /\ heap'[s[i]].quantity = IF i = k THEN y ELSE heap[s[i]].quantity
      BY <1>2, <1>3, <1>8
    <3> HIDE DEF r, q
    <3> QED
      BY <1>8, <3>1, <3>2
  <2> QED
    BY <2>1, <2>2
<1> HIDE DEF r, q
<1>10. total' = TotalQuantity(r) /\ count' = Len(r)
  <2>1. k \in 1 .. Len(q) /\ r[k].quantity = y /\ q[k].quantity = heap[a].quantity
    BY <1>8, <1>9 DEF a
  <2>2. \A i \in 1 .. Len(q) : i # k => r[i].quantity = q[i].quantity
    BY <1>9
  <2>3. TotalQuantity(r) = Plus(Minus(TotalQuantity(q), q[k].quantity), r[k].quantity)
    BY <1>8, <1>9, <2>1, <2>2, TotalOfChanged
  <2> QED
    BY <1>8, <1>9, <2>1, <2>3 DEF a
<1>11. Requantified(r, q, k, y)
  BY <1>9 DEF Requantified
<1> QED
  BY <1>4, <1>5, <1>6, <1>10, <1>11, AfterAStep DEF r, q

LEMMA ModifyQuantityStep ==
    ASSUME Inv, NEW id \in Ids, NEW quantity \in Amounts, ModifyQuantity(id, quantity)
    PROVE  Inv' /\ View' = ModifyNode(View, id, quantity)
<1>1. PICK s : Represents(s, heap, head, tail)
  BY DEF Inv, Linked
<1>2. Before(s) /\ IndexSound /\ id \in DOMAIN index /\ quantity \in Quantity
  BY <1>1, BeforeAStep, AmountAssumption DEF Inv, ModifyQuantity
<1>3. PICK k \in 1 .. Len(s) : /\ s[k] = index[id] /\ heap[s[k]].id = id
                               /\ Found(View, id) = {k}
                               /\ k \in 1 .. Len(View)
  BY <1>1, <1>2, EntryPosition
<1>4. /\ heap' = [heap EXCEPT ![s[k]].quantity = quantity]
      /\ total' = Plus(Minus(total, heap[s[k]].quantity), quantity)
      /\ UNCHANGED <<head, tail, index, count>>
  BY <1>3 DEF ModifyQuantity, Subtract, Plus, Minus
<1>5. Inv' /\ Requantified(View', View, k, quantity)
  BY <1>1, <1>2, <1>4, QuantityStep
<1> DEFINE q == View
           r == View'
           m == ModifyNode(q, id, quantity)
<1>6. q \in Seq(Node(Ids)) /\ Requantified(r, q, k, quantity) /\ Found(q, id) = {k}
  BY <1>2, <1>3, <1>5 DEF Before, IsQueue
<1> HIDE DEF q, r
<1>7. m \in Seq(Node(Ids)) /\ Len(m) = Len(q)
  <2>1. m \in Seq(Node(Ids)) /\ Len(q) \in Nat
    BY <1>2, <1>6, LenProperties, ModifyNodeType
  <2>2. m = [i \in 1 .. Len(q) |-> m[i]]
    BY <1>6, LenProperties DEF ModifyNode
  <2> HIDE DEF m
  <2>3. \A i \in 1 .. Len(q) : m[i] \in Node(Ids)
    <3>1. m \in [1 .. Len(m) -> Node(Ids)]
      BY <2>1, LenProperties
    <3> QED
      BY <2>2, <3>1
  <2>4. m \in [1 .. Len(q) -> Node(Ids)]
    BY <2>2, <2>3
  <2> QED
    BY <2>1, <2>4, FunctionIsSeq
<1>8. DOMAIN q = 1 .. Len(q)
  BY <1>6, LenProperties
<1>9. ASSUME NEW i \in 1 .. Len(q)
      PROVE  /\ r[i].id = m[i].id
             /\ r[i].quantity = m[i].quantity
             /\ r[i].indexed = TRUE <=> m[i].indexed = TRUE
  <2> DEFINE x == q[i]
  <2>1. x \in Node(Ids)
    BY <1>6, ElementOfSeq
  <2>2. m[i] = IF i = k THEN [x EXCEPT !.quantity = quantity] ELSE x
    BY <1>6, <1>8 DEF ModifyNode
  <2>3. /\ r[i].id = x.id
        /\ r[i].quantity = IF i = k THEN quantity ELSE x.quantity
        /\ r[i].indexed = TRUE <=> x.indexed = TRUE
    BY <1>6 DEF Requantified
  <2> HIDE DEF x, m
  <2>4. CASE i = k
    <3>1. m[i] = [x EXCEPT !.quantity = quantity]
      BY <2>2, <2>4
    <3>2. m[i].id = x.id /\ m[i].quantity = quantity /\ m[i].indexed = x.indexed
      BY <2>1, <3>1 DEF Node
    <3> QED
      BY <2>3, <2>4, <3>2
  <2>5. CASE i # k
    BY <2>2, <2>3, <2>5
  <2> QED
    BY <2>4, <2>5
<1> HIDE DEF m
<1>10. r = m
  <2>1. r \in Seq(Node(Ids)) /\ Len(r) = Len(m)
    BY <1>6, <1>7 DEF Requantified
  <2> QED
    BY <1>7, <1>9, <2>1, SameQueue
<1> QED
  BY <1>5, <1>10 DEF q, r, m

LEMMA PopFrontStep ==
    ASSUME Inv, PopFrontNode
    PROVE  Inv' /\ View # <<>> /\ View' = PopFront(View)
<1>1. PICK s : Represents(s, heap, head, tail)
  BY DEF Inv, Linked
<1>2. Before(s) /\ Types /\ head # Null
  BY <1>1, BeforeAStep DEF Inv, PopFrontNode
<1> DEFINE a == s[1]
           t == Tail(s)
           q == View
<1>3. /\ s \in Seq(Live) /\ Len(s) \in Nat /\ Len(s) # 0 /\ 1 \in 1 .. Len(s)
      /\ Null \notin Live /\ \A i \in 1 .. Len(s) : s[i] \in Live
      /\ head = a /\ a \in Live
      /\ heap[a].prev = Null
      /\ heap[a].next = (IF 1 = Len(s) THEN Null ELSE s[1 + 1])
      /\ heap[a].next = Null <=> 1 = Len(s)
  <2>1. /\ Len(s) \in Nat /\ Len(s) # 0 /\ 1 \in 1 .. Len(s)
        /\ Null \notin Live /\ \A i \in 1 .. Len(s) : s[i] \in Live /\ s[i] # Null
    BY <1>2 DEF Before
  <2>2. /\ s \in Seq(Live) /\ head = a
        /\ heap[a].prev = Null
        /\ heap[a].next = (IF 1 = Len(s) THEN Null ELSE s[1 + 1])
    BY <1>1, <2>1 DEF Represents, Live
  <2>3. 1 # Len(s) => 1 + 1 \in 1 .. Len(s)
    <3> DEFINE n == Len(s)
    <3>1. n \in Nat /\ n # 0
      BY <2>1
    <3> HIDE DEF n
    <3>2. n # 1 => 1 + 1 \in 1 .. n
      BY <3>1
    <3> QED
      BY <3>2 DEF n
  <2> QED
    BY <2>1, <2>2, <2>3
<1>4. t \in Seq(Live) /\ LacksElement(t, s, 1)
  <2>1. s # <<>>
    BY <1>3, EmptySeq
  <2>2. t \in Seq(Live) /\ Len(t) = Len(s) - 1 /\ \A i \in 1 .. Len(t) : t[i] = s[i + 1]
    BY <1>3, <2>1, HeadTailProperties
  <2> HIDE DEF t
  <2>3. \A i \in 1 .. Len(t) : ~(i < 1)
    BY <1>3, <2>2
  <2> QED
    BY <2>2, <2>3 DEF LacksElement
<1> HIDE DEF a, t
<1>5. heap' = [b \in Live \ {a} |-> IF b = heap[a].next THEN [heap[b] EXCEPT !.prev = Null]
                                    ELSE heap[b]]
  <2>1. head' = heap[a].next /\ head = a
    BY <1>3 DEF PopFrontNode
  <2> QED
    BY <2>1 DEF PopFrontNode, Freed
<1>6. ASSUME NEW b \in Live \ {a}
      PROVE  /\ heap'[b] \in HeapNode
             /\ heap'[b].id = heap[b].id
             /\ heap'[b].quantity = heap[b].quantity
             /\ heap'[b].prev = IF b = heap[a].next THEN heap[a].prev ELSE heap[b].prev
             /\ heap'[b].next = IF b = heap[a].prev THEN heap[a].next ELSE heap[b].next
  <2> DEFINE x == heap[b]
  <2>1. /\ x \in HeapNode /\ b # heap[a].prev
        /\ heap'[b] = IF b = heap[a].next THEN [x EXCEPT !.prev = Null] ELSE x
    BY <1>2, <1>3, <1>5 DEF Types
  <2> HIDE DEF x
  <2>2. CASE b = heap[a].next
    <3>1. heap'[b] = [x EXCEPT !.prev = Null]
      BY <2>1, <2>2
    <3>2. /\ heap'[b] \in HeapNode /\ heap'[b].id = x.id /\ heap'[b].quantity = x.quantity
          /\ heap'[b].prev = Null /\ heap'[b].next = x.next
      BY <2>1, <3>1 DEF HeapNode, Pointer
    <3> QED
      BY <1>3, <2>1, <2>2, <3>2 DEF x
  <2>3. CASE b # heap[a].next
    <3>1. heap'[b] = x
      BY <2>1, <2>3
    <3> QED
      BY <2>1, <2>3, <3>1 DEF x
  <2> QED
    BY <2>2, <2>3
<1>7. heap' = [b \in Live \ {a} |-> heap'[b]]
  BY <1>5
<1>8. /\ head' = IF 1 = 1 THEN heap[a].next ELSE head
      /\ tail' = IF 1 = Len(s) THEN heap[a].prev ELSE tail
      /\ index' = Erased(heap[a].id) /\ total' = Subtract(heap[a].quantity)
      /\ count' = count - 1
  BY <1>3 DEF PopFrontNode
<1>9. Inv' /\ Shrunk(View', View, 1, heap[a].id)
  BY <1>1, <1>3, <1>4, <1>6, <1>7, <1>8, RemovalStep DEF a
<1> DEFINE v == View'
           id == heap[a].id
           rest == Tail(q)
           u == Unindex(rest, id)
<1>10. /\ q \in Seq(Node(Ids)) /\ Len(q) = Len(s) /\ q[1].id = id
       /\ Shrunk(v, q, 1, id)
  BY <1>2, <1>3, <1>9 DEF Before, IsQueue, a
<1> HIDE DEF q, v, id
<1>11. q # <<>>
  BY <1>3, <1>10, EmptySeq
<1>12. /\ rest \in Seq(Node(Ids)) /\ Len(rest) = Len(q) - 1
       /\ \A i \in 1 .. Len(rest) : rest[i] = q[i + 1]
       /\ Head(q) = q[1]
  BY <1>10, <1>11, HeadTailProperties
<1> HIDE DEF rest
<1>13. /\ u \in Seq(Node(Ids)) /\ Len(u) = Len(rest)
       /\ \A i \in 1 .. Len(rest) :
             /\ u[i].id = rest[i].id
             /\ u[i].quantity = rest[i].quantity
             /\ u[i].indexed = TRUE <=> rest[i].indexed = TRUE /\ rest[i].id # id
  BY <1>12, UnindexIs
<1> HIDE DEF u
<1>14. ASSUME NEW i \in 1 .. Len(v)
       PROVE  /\ v[i].id = u[i].id
              /\ v[i].quantity = u[i].quantity
              /\ v[i].indexed = TRUE <=> u[i].indexed = TRUE
  <2>1. i \in 1 .. Len(rest) /\ ~(i < 1)
    BY <1>3, <1>10, <1>12 DEF Shrunk
  <2>2. /\ v[i].id = q[i + 1].id
        /\ v[i].quantity = q[i + 1].quantity
        /\ v[i].indexed = TRUE <=> q[i + 1].indexed = TRUE /\ q[i + 1].id # id
    BY <1>10, <2>1 DEF Shrunk
  <2> QED
    BY <1>12, <1>13, <2>1, <2>2
<1>15. v = u
  <2>1. v \in Seq(Node(Ids)) /\ Len(v) = Len(u)
    BY <1>10, <1>12, <1>13 DEF Shrunk
  <2> QED
    BY <1>13, <1>14, <2>1, SameQueue
<1>16. PopFront(q) = u
  BY <1>10, <1>12 DEF PopFront, u, rest
<1> QED
  BY <1>9, <1>11, <1>15, <1>16 DEF q, v

LEMMA FillFrontStep ==
    ASSUME Inv, NEW quantity \in Amounts, FillFrontNode(quantity)
    PROVE  Inv' /\ View # <<>> /\ View' = FillFront(View, quantity)
<1>1. PICK s : Represents(s, heap, head, tail)
  BY DEF Inv, Linked
<1>2. Before(s) /\ head # Null /\ quantity \in Quantity
  BY <1>1, BeforeAStep, AmountAssumption DEF Inv, FillFrontNode
<1> DEFINE q == View
           x == heap[head].quantity
<1>3. /\ Len(s) \in Nat /\ Len(s) # 0 /\ 1 \in 1 .. Len(s) /\ head = s[1]
      /\ q \in Seq(Node(Ids)) /\ Len(q) = Len(s) /\ q[1].quantity = x
      /\ heap[head] \in HeapNode /\ x \in Quantity /\ total = TotalQuantity(q)
  <2>1. Len(s) \in Nat /\ Len(s) # 0 /\ 1 \in 1 .. Len(s)
    BY <1>2 DEF Before
  <2>2. head = s[1]
    BY <1>1, <2>1 DEF Represents
  <2>3. heap[s[1]] \in HeapNode
    BY <1>2, <2>1 DEF Before
  <2>4. q \in Seq(Node(Ids)) /\ Len(q) = Len(s) /\ q[1].quantity = heap[s[1]].quantity
        /\ total = TotalQuantity(q)
    BY <1>2, <2>1 DEF Before, IsQueue
  <2> HIDE DEF q
  <2> QED
    BY <2>1, <2>2, <2>3, <2>4 DEF HeapNode
<1>4. q # <<>> /\ Head(q) = q[1]
  BY <1>3, EmptySeq, HeadTailProperties
<1>5. CASE quantity >= x
  <2>1. PopFrontNode
    <3>1. ~(quantity < x)
      BY <1>2, <1>3, <1>5 DEF Quantity
    <3> QED
      BY <3>1 DEF FillFrontNode
  <2>2. Inv' /\ View' = PopFront(View)
    BY <2>1, PopFrontStep
  <2>3. FillFront(q, quantity) = PopFront(q)
    <3>1. Head(q).quantity = x
      BY <1>3, <1>4
    <3> HIDE DEF q, x
    <3> QED
      BY <1>5, <3>1 DEF FillFront
  <2> QED
    BY <1>4, <2>2, <2>3
<1>6. CASE ~(quantity >= x)
  <2> DEFINE y == x - quantity
  <2>1. quantity < x /\ y \in Quantity /\ quantity \in Int
    <3> HIDE DEF x, q
    <3>1. x \in Int /\ quantity \in Int /\ 0 <= x /\ x < QMod /\ 0 <= quantity
          /\ QMod \in Int
      BY <1>2, <1>3, QModAssumption DEF Quantity
    <3> QED
      BY <1>6, <3>1 DEF Quantity
  <2>2. /\ heap' = [heap EXCEPT ![head].quantity = y]
        /\ total' = Minus(total, quantity)
        /\ UNCHANGED <<head, tail, index, count>>
    <3>1. ~(quantity >= heap[head].quantity)
      BY <1>6
    <3>2. /\ heap' = [heap EXCEPT ![head].quantity = @ - quantity]
          /\ total' = Subtract(quantity)
          /\ UNCHANGED <<head, tail, index, count>>
      BY <3>1, Zenon DEF FillFrontNode
    <3> QED
      BY <3>2, Zenon DEF Subtract, Minus
  <2> HIDE DEF y
  <2>3. heap' = [heap EXCEPT ![s[1]].quantity = y]
    BY <1>3, <2>2
  <2>4. Minus(total, quantity) = Plus(Minus(total, x), y)
    <3> HIDE DEF x, q
    <3>1. total \in Quantity
      BY <1>3, TotalIsQuantity
    <3>2. /\ Minus(total, x) \in Quantity
          /\ Minus(total, x) = IF total >= x THEN total - x ELSE total + QMod - x
          /\ Minus(total, quantity) = IF total >= quantity THEN total - quantity
                                      ELSE total + QMod - quantity
      BY <1>2, <1>3, <3>1, PlusMinus
    <3> DEFINE z == Minus(total, x)
               w == Minus(total, quantity)
    <3>3. Plus(z, y) = IF z + y < QMod THEN z + y ELSE z + y - QMod
      BY <2>1, <3>2, PlusMinus
    <3>4. z = (IF total >= x THEN total - x ELSE total + QMod - x)
          /\ w = IF total >= quantity THEN total - quantity ELSE total + QMod - quantity
      BY <3>2
    <3> HIDE DEF z, w
    <3>5. /\ total \in Int /\ 0 <= total /\ total < QMod /\ QMod \in Int
          /\ x \in Int /\ 0 <= x /\ x < QMod
          /\ quantity \in Int /\ 0 <= quantity /\ quantity < x
      BY <1>2, <1>3, <2>1, <3>1, QModAssumption DEF Quantity
    <3>6. Plus(z, y) = w
      BY <3>3, <3>4, <3>5 DEF y
    <3> QED
      BY <3>6 DEF z, w
  <2>5. Inv' /\ Requantified(View', View, 1, y)
    <3>1. /\ y \in Quantity /\ 1 \in 1 .. Len(s)
          /\ heap' = [heap EXCEPT ![s[1]].quantity = y]
          /\ total' = Plus(Minus(total, heap[s[1]].quantity), y)
          /\ UNCHANGED <<head, tail, index, count>>
      BY <1>3, <2>1, <2>2, <2>3, <2>4
    <3> QED
      BY <1>1, <3>1, QuantityStep
  <2> DEFINE r == View'
             m == [q EXCEPT ![1].quantity = y]
  <2>6. Requantified(r, q, 1, y)
    BY <2>5
  <2>7. FillFront(q, quantity) = m
    <3>1. Head(q).quantity = x /\ q[1].quantity = x
      BY <1>3, <1>4
    <3>2. FillFront(q, quantity) = [q EXCEPT ![1].quantity = q[1].quantity - quantity]
      <4> HIDE DEF q, x
      <4> QED
        BY <1>6, <3>1, Zenon DEF FillFront
    <3>3. q[1].quantity - quantity = y
      BY <3>1 DEF y
    <3> QED
      BY <3>2, <3>3
  <2> HIDE DEF r, q
  <2>8. m = [i \in 1 .. Len(q) |-> IF i = 1 THEN [q[1] EXCEPT !.quantity = y] ELSE q[i]]
    <3>1. DOMAIN q = 1 .. Len(q) /\ q = [i \in 1 .. Len(q) |-> q[i]]
      BY <1>3, LenProperties
    <3> QED
      BY <3>1
  <2> HIDE DEF m
  <2>9. \A i \in 1 .. Len(q) : q[i] \in Node(Ids)
    BY <1>3, ElementOfSeq
  <2>10. /\ [q[1] EXCEPT !.quantity = y] \in Node(Ids)
         /\ [q[1] EXCEPT !.quantity = y].id = q[1].id
         /\ [q[1] EXCEPT !.quantity = y].quantity = y
         /\ [q[1] EXCEPT !.quantity = y].indexed = q[1].indexed
    <3> DEFINE n == q[1]
    <3>1. n \in Node(Ids)
      BY <1>3, <2>9
    <3> HIDE DEF n
    <3>2. /\ [n EXCEPT !.quantity = y] \in Node(Ids)
          /\ [n EXCEPT !.quantity = y].id = n.id
          /\ [n EXCEPT !.quantity = y].quantity = y
          /\ [n EXCEPT !.quantity = y].indexed = n.indexed
      BY <2>1, <3>1 DEF Node
    <3> QED
      BY <3>2 DEF n
  <2>11. m \in Seq(Node(Ids)) /\ Len(m) = Len(q)
    <3>1. m \in [1 .. Len(q) -> Node(Ids)]
      BY <2>8, <2>9, <2>10
    <3> QED
      BY <1>3, <3>1, FunctionIsSeq
  <2>12. ASSUME NEW i \in 1 .. Len(q)
         PROVE  /\ r[i].id = m[i].id
                /\ r[i].quantity = m[i].quantity
                /\ r[i].indexed = TRUE <=> m[i].indexed = TRUE
    <3>1. /\ r[i].id = q[i].id
          /\ r[i].quantity = IF i = 1 THEN y ELSE q[i].quantity
          /\ r[i].indexed = TRUE <=> q[i].indexed = TRUE
      BY <2>6 DEF Requantified
    <3>2. CASE i = 1
      <4>1. m[i] = [q[1] EXCEPT !.quantity = y]
        BY <2>8, <3>2
      <4> QED
        BY <2>10, <3>1, <3>2, <4>1
    <3>3. CASE i # 1
      <4>1. m[i] = q[i]
        BY <2>8, <3>3
      <4> QED
        BY <3>1, <3>3, <4>1
    <3> QED
      BY <3>2, <3>3
  <2>13. r = m
    <3>1. r \in Seq(Node(Ids)) /\ Len(r) = Len(m)
      BY <2>6, <2>11 DEF Requantified
    <3> QED
      BY <2>11, <2>12, <3>1, SameQueue
  <2> QED
    BY <1>4, <2>5, <2>7, <2>13 DEF q, r
<1> QED
  BY <1>5, <1>6

\* A level without nodes.
LEMMA EmptyLevel ==
    ASSUME Live = {}, heap = [a \in {} |-> heap[a]], head = Null, tail = Null,
           index = [id \in {} |-> Null], total = 0, count = 0
    PROVE  Inv /\ View = <<>>
<1>1. Types
  BY DEF Types
<1>2. IndexSound
  BY DEF IndexSound
<1>3. Represents(<<>>, heap, head, tail)
  BY DEF Represents, Live
<1>4. IsQueue(View, <<>>, heap, index)
  BY <1>1, <1>3, ViewIsTheQueue DEF ViewShows
<1>5. View = <<>> /\ Len(View) = 0
  BY <1>4, EmptySeq DEF IsQueue
<1>6. <<>> \in Seq(Node(Ids)) /\ Len(<<>>) = 0
  OBVIOUS
<1>7. TotalQuantity(<<>>) = 0
  <2> DEFINE none == <<>>
  <2>1. none \in Seq(Node(Ids)) /\ Len(none) = 0
    OBVIOUS
  <2> HIDE DEF none
  <2>2. PICK p : RunningTotals(p, none)
    BY <2>1, TotalRuns
  <2>3. TotalQuantity(none) = 0
    BY <2>1, <2>2 DEF RunningTotals
  <2> QED
    BY <2>3 DEF none
<1>8. TotalsExact
  BY <1>5, <1>7 DEF TotalsExact
<1> QED
  BY <1>1, <1>2, <1>3, <1>5, <1>8 DEF Inv, Linked

LEMMA InitInv == Init => Inv /\ View = <<>>
<1> SUFFICES ASSUME Init PROVE Inv /\ View = <<>>
  OBVIOUS
<1>1. Live = {} /\ heap = [a \in {} |-> heap[a]]
  BY DEF Init, Live
<1> QED
  BY <1>1, EmptyLevel DEF Init

\* EmptyLevel, for the state after a step.
IsEmpty ==
    /\ Live = {} /\ heap = [a \in {} |-> heap[a]] /\ head = Null /\ tail = Null
    /\ index = [id \in {} |-> Null] /\ total = 0 /\ count = 0

Viewless == View = <<>>

LEMMA EmptyLevelNext == IsEmpty' => Inv' /\ Viewless'
<1>1. IsEmpty => Inv /\ Viewless
  BY EmptyLevel DEF IsEmpty, Viewless
<1> QED
  BY <1>1, PTL

LEMMA DestroyStep ==
    ASSUME Inv, Destroy
    PROVE  Inv' /\ View' = <<>>
<1>1. PICK s : Represents(s, heap, head, tail)
  BY DEF Inv, Linked
<1>2. Reached = s
  BY <1>1, ReachedIsTheList DEF Inv, Types, ReachedIs
<1>3. Live \ Range(Reached) = {}
  <2>1. s \in Seq(Live)
    BY <1>1 DEF Represents, Live
  <2>2. DOMAIN s = 1 .. Len(s)
    BY <2>1, LenProperties
  <2>3. \A a \in Live : \E i \in DOMAIN s : s[i] = a
    BY <1>1, <2>2 DEF Represents, Live
  <2> QED
    BY <1>2, <2>3 DEF Range
<1>4. heap' = [a \in {} |-> heap[a]]
  BY <1>3 DEF Destroy
<1>5. DOMAIN heap' = {} /\ heap' = [a \in {} |-> heap'[a]]
  BY <1>4
<1>6. IsEmpty'
  BY <1>5 DEF Destroy, IsEmpty, Live
<1> QED
  BY <1>6, EmptyLevelNext DEF Viewless

LEMMA Stutter ==
    ASSUME Inv, UNCHANGED vars
    PROVE  Inv' /\ View' = View
<1>1. PICK s : Represents(s, heap, head, tail)
  BY DEF Inv, Linked
<1>2. Before(s) /\ UNCHANGED <<heap, head, tail, index, total, count>>
  BY <1>1, BeforeAStep DEF vars
<1>3. Types' /\ IndexSound' /\ Represents(s, heap', head', tail')
  BY <1>1, <1>2 DEF Inv, Types, IndexSound, Live
<1>4. IsQueue(View', s, heap, index)
  BY <1>2, <1>3, ViewIsTheQueueNext DEF ViewShows
<1> DEFINE q == View
           r == View'
<1>5. /\ IsQueue(q, s, heap, index) /\ IsQueue(r, s, heap, index)
      /\ total = TotalQuantity(q) /\ count = Len(q)
  BY <1>2, <1>4 DEF Before
<1> HIDE DEF q, r
<1>6. r = q
  <2>1. /\ q \in Seq(Node(Ids)) /\ r \in Seq(Node(Ids)) /\ Len(r) = Len(q)
        /\ \A i \in 1 .. Len(r) : /\ r[i].id = q[i].id
                                  /\ r[i].quantity = q[i].quantity
                                  /\ r[i].indexed = TRUE <=> q[i].indexed = TRUE
    BY <1>5 DEF IsQueue
  <2> QED
    BY <2>1, SameQueue
<1>7. total' = TotalQuantity(r) /\ count' = Len(r)
  BY <1>2, <1>5, <1>6
<1> QED
  BY <1>3, <1>6, <1>7, AfterAStep DEF q, r

-----------------------------------------------------------------------------
(* The invariant *)

LEMMA NextInv ==
    ASSUME Inv, [Next]_vars
    PROVE  Inv'
<1>1. CASE UNCHANGED vars
  BY <1>1, Stutter
<1>2. ASSUME NEW id \in Ids, NEW quantity \in Amounts, NEW at \in Addresses,
             AddOrder(id, quantity, at)
      PROVE  Inv'
  BY <1>2, AddOrderStep
<1>3. ASSUME NEW id \in Ids, RemoveOrder(id) PROVE Inv'
  BY <1>3, RemoveOrderStep
<1>4. ASSUME NEW id \in Ids, NEW quantity \in Amounts, ModifyQuantity(id, quantity)
      PROVE  Inv'
  BY <1>4, ModifyQuantityStep
<1>5. CASE PopFrontNode
  BY <1>5, PopFrontStep
<1>6. ASSUME NEW quantity \in Amounts, FillFrontNode(quantity) PROVE Inv'
  BY <1>6, FillFrontStep
<1>7. CASE Destroy
  BY <1>7, DestroyStep
<1> QED
  BY <1>1, <1>2, <1>3, <1>4, <1>5, <1>6, <1>7 DEF Next

LEMMA InvAlways == Spec => []Inv
<1>1. Init => Inv
  BY InitInv
<1>2. Inv /\ [Next]_vars => Inv'
  BY NextInv
<1> QED
  BY <1>1, <1>2, PTL DEF Spec

LEMMA InvLinks == Inv => WellLinked
<1> SUFFICES ASSUME Inv PROVE WellLinked
  OBVIOUS
<1>1. PICK s : Represents(s, heap, head, tail)
  BY DEF Inv, Linked
<1>2. /\ Len(s) \in Nat /\ Null \notin Live
      /\ \A i \in 1 .. Len(s) : s[i] \in Live /\ s[i] # Null
      /\ head = Null <=> Len(s) = 0
      /\ tail = Null <=> Len(s) = 0
  BY <1>1, ListFacts DEF Inv
<1>3. /\ \A i, j \in 1 .. Len(s) : s[i] = s[j] => i = j
      /\ \A a \in Live : \E i \in 1 .. Len(s) : s[i] = a
      /\ head = IF Len(s) = 0 THEN Null ELSE s[1]
      /\ tail = IF Len(s) = 0 THEN Null ELSE s[Len(s)]
      /\ \A i \in 1 .. Len(s) :
            /\ heap[s[i]].prev = IF i = 1 THEN Null ELSE s[i - 1]
            /\ heap[s[i]].next = IF i = Len(s) THEN Null ELSE s[i + 1]
  BY <1>1 DEF Represents, Live
<1> DEFINE n == Len(s)
<1> HIDE DEF n
<1>4. n \in Nat /\ n = Len(s)
  BY <1>2 DEF n
<1>5. head # Null => heap[head].prev = Null /\ heap[tail].next = Null
  <2> SUFFICES ASSUME head # Null PROVE heap[head].prev = Null /\ heap[tail].next = Null
    OBVIOUS
  <2>1. n # 0 /\ 1 \in 1 .. n /\ n \in 1 .. n
    BY <1>2, <1>4
  <2> QED
    BY <1>3, <1>4, <2>1
<1>6. ASSUME NEW a \in Live, NEW b \in Live PROVE heap[a].next = b <=> heap[b].prev = a
  <2>1. PICK i \in 1 .. n : s[i] = a
    BY <1>3, <1>4
  <2>2. PICK j \in 1 .. n : s[j] = b
    BY <1>3, <1>4
  <2>3. heap[a].next = b <=> i # n /\ i + 1 = j
    <3>1. heap[a].next = IF i = n THEN Null ELSE s[i + 1]
      BY <1>3, <1>4, <2>1
    <3>2. CASE i = n
      BY <1>2, <3>1, <3>2
    <3>3. CASE i # n
      <4>1. i + 1 \in 1 .. n
        BY <1>4, <3>3
      <4> QED
        BY <1>3, <1>4, <2>2, <3>1, <3>3, <4>1
    <3> QED
      BY <3>2, <3>3
  <2>4. heap[b].prev = a <=> j # 1 /\ j - 1 = i
    <3>1. heap[b].prev = IF j = 1 THEN Null ELSE s[j - 1]
      BY <1>3, <1>4, <2>2
    <3>2. CASE j = 1
      BY <1>2, <3>1, <3>2
    <3>3. CASE j # 1
      <4>1. j - 1 \in 1 .. n
        BY <1>4, <3>3
      <4> QED
        BY <1>3, <1>4, <2>1, <3>1, <3>3, <4>1
    <3> QED
      BY <3>2, <3>3
  <2>5. (i # n /\ i + 1 = j) <=> (j # 1 /\ j - 1 = i)
    BY <1>4
  <2> QED
    BY <2>3, <2>4, <2>5
<1>7. ASSUME NEW a \in Live PROVE {heap[a].prev, heap[a].next} \subseteq Live \cup {Null}
  <2>1. PICK i \in 1 .. n : s[i] = a
    BY <1>3, <1>4
  <2>2. i # 1 => i - 1 \in 1 .. n
    BY <1>4
  <2>3. i # n => i + 1 \in 1 .. n
    BY <1>4
  <2>4. heap[a].prev = (IF i = 1 THEN Null ELSE s[i - 1])
        /\ heap[a].next = IF i = n THEN Null ELSE s[i + 1]
    BY <1>3, <1>4, <2>1
  <2> QED
    BY <1>2, <1>4, <2>2, <2>3, <2>4
<1>8. head = Null <=> tail = Null
  BY <1>2
<1> QED
  BY <1>5, <1>6, <1>7, <1>8 DEF WellLinked

LEMMA InvReaches == Inv => NothingLeaked
<1> SUFFICES ASSUME Inv PROVE NothingLeaked
  OBVIOUS
<1>1. PICK s : Represents(s, heap, head, tail)
  BY DEF Inv, Linked
<1>2. Reached = s
  BY <1>1, ReachedIsTheList DEF Inv, Types, ReachedIs
<1>3. /\ s \in Seq(Live) /\ Len(s) \in Nat /\ DOMAIN s = 1 .. Len(s)
      /\ s \in [1 .. Len(s) -> Live]
      /\ \A i, j \in 1 .. Len(s) : s[i] = s[j] => i = j
      /\ \A a \in Live : \E i \in 1 .. Len(s) : s[i] = a
  <2>1. s \in Seq(Live)
    BY <1>1 DEF Represents, Live
  <2> QED
    BY <1>1, <2>1, LenProperties DEF Represents, Live
<1>4. Range(s) = Live
  BY <1>3 DEF Range
<1>5. Len(s) = Cardinality(Live)
  <2>1. s \in Bijection(1 .. Len(s), Live)
    BY <1>3 DEF Bijection, Injection, Surjection, IsInjective
  <2>2. IsFiniteSet(1 .. Len(s)) /\ Cardinality(1 .. Len(s)) = Len(s)
    <3>1. /\ IsFiniteSet(1 .. Len(s))
          /\ Cardinality(1 .. Len(s)) = IF 1 > Len(s) THEN 0 ELSE Len(s) - 1 + 1
      BY <1>3, FS_Interval
    <3> QED
      BY <1>3, <3>1
  <2>3. Cardinality(Live) = Cardinality(1 .. Len(s))
    <3> DEFINE S == 1 .. Len(s)
    <3>1. IsFiniteSet(S) /\ ExistsBijection(S, Live)
      BY <2>1, <2>2 DEF ExistsBijection
    <3> HIDE DEF S
    <3>2. Cardinality(Live) = Cardinality(S)
      BY <3>1, FS_Bijection
    <3> QED
      BY <3>2 DEF S
  <2> QED
    BY <2>2, <2>3
<1> QED
  BY <1>2, <1>4, <1>5 DEF NothingLeaked

-----------------------------------------------------------------------------
(* The theorems *)

\* The abstract queue changes by the operators of LevelQueue.
LEMMA FifoOperators ==
    ASSUME NEW q, NEW id, NEW quantity
    PROVE  /\ Fifo!AddNode(q, id, quantity) = AddNode(q, id, quantity)
           /\ Fifo!ModifyNode(q, id, quantity) = ModifyNode(q, id, quantity)
           /\ Fifo!RemoveNode(q, id) = RemoveNode(q, id)
           /\ Fifo!PopFront(q) = PopFront(q)
           /\ Fifo!FillFront(q, quantity) = FillFront(q, quantity)
<1>1. Fifo!AddNode(q, id, quantity) = AddNode(q, id, quantity)
  BY DEF Fifo!AddNode, AddNode, Fifo!Unindex, Unindex
<1>2. Fifo!ModifyNode(q, id, quantity) = ModifyNode(q, id, quantity)
  BY DEF Fifo!ModifyNode, ModifyNode, Fifo!Found, Found
<1>3. Fifo!RemoveNode(q, id) = RemoveNode(q, id)
  <2>1. Fifo!Found(q, id) = Found(q, id)
    BY DEF Fifo!Found, Found
  <2>2. \A i : Fifo!RemoveAt(q, i) = RemoveAt(q, i)
    BY DEF Fifo!RemoveAt, RemoveAt
  <2> QED
    BY <2>1, <2>2, Zenon DEF Fifo!RemoveNode, RemoveNode
<1>4. Fifo!PopFront(q) = PopFront(q)
  BY DEF Fifo!PopFront, PopFront, Fifo!Unindex, Unindex
<1>5. Fifo!FillFront(q, quantity) = FillFront(q, quantity)
  BY <1>4 DEF Fifo!FillFront, FillFront
<1> QED
  BY <1>1, <1>2, <1>3, <1>4, <1>5

LEMMA FifoResults ==
    ASSUME NEW q, NEW id \in Ids, NEW quantity \in Amounts
    PROVE  /\ AddNode(q, id, quantity) \in Fifo!Results(q)
           /\ ModifyNode(q, id, quantity) \in Fifo!Results(q)
<1>1. Fifo!AddNode(q, id, quantity) \in Fifo!Results(q)
  BY DEF Fifo!Results
<1>2. Fifo!ModifyNode(q, id, quantity) \in Fifo!Results(q)
  BY DEF Fifo!Results
<1> QED
  BY <1>1, <1>2, FifoOperators

LEMMA RemoveIsResult ==
    ASSUME NEW q, NEW id \in Ids
    PROVE  RemoveNode(q, id) \in Fifo!Results(q)
<1>1. Fifo!RemoveNode(q, id) \in Fifo!Results(q)
  BY DEF Fifo!Results
<1> QED
  BY <1>1, FifoOperators

LEMMA FillIsResult ==
    ASSUME NEW q, q # <<>>, NEW quantity \in Amounts
    PROVE  FillFront(q, quantity) \in Fifo!Results(q)
<1>1. Fifo!FillFront(q, quantity) \in Fifo!Results(q)
  BY DEF Fifo!Results
<1> QED
  BY <1>1, FifoOperators

\* The list is linked from its head to its tail and back after every add,
\* removal, amend, pop, partial fill and destruction.
THEOREM WellLinkedAlways == Spec => []WellLinked
BY InvAlways, InvLinks, PTL

\* add_order overwrites an entry and pop_front erases one by identifier, and
\* still no entry outlives its node or names another order's node.
THEOREM IndexSoundAlways == Spec => []IndexSound
<1>1. Inv => IndexSound
  BY DEF Inv
<1> QED
  BY <1>1, InvAlways, PTL

\* Every node that was allocated and not freed is reached from the head, once.
THEOREM NothingLeakedAlways == Spec => []NothingLeaked
BY InvAlways, InvReaches, PTL

\* total_quantity_, kept incrementally in a uint32_t, is what adding up the list
\* gives, and order_count_ is its length.
THEOREM TotalsExactAlways == Spec => []TotalsExact
<1>1. Inv => TotalsExact
  BY DEF Inv
<1> QED
  BY <1>1, InvAlways, PTL

\* Every member function does to the queue what the operator of LevelQueue says,
\* which is all that OrderBook relies on.
THEOREM ImplementsQueueAlways == Spec => ImplementsQueue
<1>1. Init => Fifo!Init
  BY InitInv DEF Fifo!Init
<1>2. ASSUME Inv, [Next]_vars PROVE [Fifo!Next]_(View)
  <2>1. CASE UNCHANGED vars
    BY <1>2, <2>1, Stutter
  <2>2. ASSUME NEW id \in Ids, NEW quantity \in Amounts, NEW at \in Addresses,
               AddOrder(id, quantity, at)
        PROVE  Fifo!Next
    <3>1. View' = AddNode(View, id, quantity)
      BY <1>2, <2>2, AddOrderStep
    <3> QED
      BY <3>1, FifoResults DEF Fifo!Next
  <2>3. ASSUME NEW id \in Ids, RemoveOrder(id) PROVE Fifo!Next
    <3>1. View' = RemoveNode(View, id)
      BY <1>2, <2>3, RemoveOrderStep
    <3> QED
      BY <3>1, RemoveIsResult DEF Fifo!Next
  <2>4. ASSUME NEW id \in Ids, NEW quantity \in Amounts, ModifyQuantity(id, quantity)
        PROVE  Fifo!Next
    <3>1. View' = ModifyNode(View, id, quantity)
      BY <1>2, <2>4, ModifyQuantityStep
    <3> QED
      BY <3>1, FifoResults DEF Fifo!Next
  <2>5. CASE PopFrontNode
    <3>1. View # <<>> /\ View' = PopFront(View)
      BY <1>2, <2>5, PopFrontStep
    <3> QED
      BY <3>1 DEF Fifo!Next, Fifo!Results, Fifo!PopFront, PopFront, Fifo!Unindex, Unindex
  <2>6. ASSUME NEW quantity \in Amounts, FillFrontNode(quantity) PROVE Fifo!Next
    <3>1. View # <<>> /\ View' = FillFront(View, quantity)
      BY <1>2, <2>6, FillFrontStep
    <3> QED
      BY <3>1, FillIsResult DEF Fifo!Next
  <2>7. CASE Destroy
    <3>1. View' = <<>>
      BY <1>2, <2>7, DestroyStep
    <3> QED
      BY <3>1 DEF Fifo!Next, Fifo!Results
  <2> QED
    BY <1>2, <2>1, <2>2, <2>3, <2>4, <2>5, <2>6, <2>7 DEF Next
<1> QED
  BY <1>1, <1>2, InvAlways, PTL DEF Spec, ImplementsQueue, Fifo!Spec
=============================================================================
