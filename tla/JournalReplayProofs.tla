------------------------ MODULE JournalReplayProofs ------------------------
(***************************************************************************)
(* Theorems about the journal and its readers, for any lengths of headers  *)
(* and payloads, numbers of records and of journals opened on the file,    *)
(* and whatever stray cells are read as: what a replay delivers, what a    *)
(* seek finds and what a comparison of two journals says, while the file   *)
(* is being written and after crashes.                                     *)
(***************************************************************************)
EXTENDS JournalReplay, SequenceTheorems, TLAPS

-----------------------------------------------------------------------------
(* What is written *)

\* The cells of the file and those that are to follow.
Tape == file \o buffer

\* They are pieces of records that were logged.
Pieces(cells) ==
    \A i \in 1 .. Len(cells) :
        cells[i][1] \in DOMAIN logged /\ cells[i][2] \in 1 .. Length(cells[i][1])

\* Records follow one another in the order they were logged.
Ordered(cells) ==
    \A i, j \in 1 .. Len(cells) : i < j =>
        \/ cells[i][1] < cells[j][1]
        \/ cells[i][1] = cells[j][1] /\ cells[j][2] - cells[i][2] = j - i

\* Every piece follows the first one of its record.
Headed(cells) ==
    \A i \in 1 .. Len(cells) : \E head \in 1 .. i :
        cells[head] = <<cells[i][1], 1>> /\ cells[i][2] = i - head + 1

\* No record has pieces of another among its own.
Unbroken(cells) ==
    \A head, i \in 1 .. Len(cells) :
        head <= i /\ cells[head][2] = 1 /\ i - head < Length(cells[head][1])
            => cells[i] = <<cells[head][1], i - head + 1>>

EndsWhole(cells) ==
    cells # <<>> => cells[Len(cells)][2] = Length(cells[Len(cells)][1])

Record == [sequence : Nat, type : EventTypes]

JTypeOK ==
    /\ file \in Seq(Nat \X Nat) /\ buffer \in Seq(Nat \X Nat)
    /\ writer \in {"none", "open", "closed"}
    /\ sequence \in Nat /\ lives \in Nat
    /\ logged \in Seq(Record)
    /\ flushed \in SUBSET Nat /\ torn \in BOOLEAN

Written ==
    /\ JTypeOK
    /\ Pieces(Tape) /\ Ordered(Tape) /\ Headed(Tape)
    /\ writer # "open" => buffer = <<>>
    /\ ~torn => /\ Unbroken(Tape)
                /\ writer # "none" => EndsWhole(Tape)
                /\ flushed \subseteq Whole(file)

-----------------------------------------------------------------------------
(* What is read *)

\* The beginning of the record the reader is at.
Base == IF header = NoHeader THEN position ELSE position - HeaderCells

\* In front of a record, or where the next one will be.
Boundary(at) ==
    at \in 0 .. Len(file) /\ (at = 0 \/ file[at][2] = Length(file[at][1]))

\* The header is that of the record the reader is at.
HeaderRight ==
    /\ header.of \in DOMAIN logged
    /\ header.sequence = logged[header.of].sequence
    /\ header.type = logged[header.of].type
    /\ header.size = PayloadCells[header.type]

\* What a journal is compared with.
Comparison == [length : Nat, differs : Nat, checkable : BOOLEAN, read : Nat]

\* What holds of the reader whatever the file is like.
RTypeOK ==
    /\ position \in Nat /\ good \in BOOLEAN
    /\ call \in {"none", "step", "all", "until", "seek", "verify"}
    /\ target \in Nat
    /\ header.of \in Nat /\ header.size \in Nat /\ header.sequence \in Nat
    /\ header.of # 0 => HeaderRight
    /\ header # NoHeader => call # "none" /\ position >= HeaderCells
    /\ replayed \in Seq(Nat) /\ start \in Nat
    /\ expected \in Comparison
    /\ expected.length \in Nat /\ expected.read \in Nat
    /\ expected.differs \in {0, expected.length}
    /\ call = "verify" => /\ expected.read <= expected.length
                          /\ 1 .. expected.read \subseteq Whole(file)
                          /\ expected.differs \notin 1 .. expected.read

\* What holds of it when the file has no torn record but at its end.
Aligned ==
    /\ start <= Len(file)
    /\ good => Boundary(Base) /\ start <= Base
    /\ header # NoHeader => /\ good /\ header.of # 0 /\ position <= Len(file)
                            /\ file[Base + 1] = <<header.of, 1>>

Replayed ==
    /\ \A i, j \in DOMAIN replayed : i < j => replayed[i] < replayed[j]
    /\ \E end \in start .. Len(file) : Range(replayed) = Begun(start, end)
    /\ good /\ call \notin {"seek", "verify"} => Range(replayed) = Begun(start, Base)
    /\ call \in {"seek", "verify"} => good /\ start = 0 /\ replayed = <<>>

Sought ==
    call = "seek" => \A i \in 1 .. Base : logged[file[i][1]].sequence < target

Verified ==
    call = "verify" => /\ Begun(0, Base) = 1 .. expected.read
                       /\ expected.read > 0 => expected.checkable

Read == RTypeOK /\ (~torn => Aligned /\ Replayed /\ Sought /\ Verified)

-----------------------------------------------------------------------------
(* Sequences of cells *)

\* u is the beginning of t.
StartsAs(u, t) == Len(u) <= Len(t) /\ \A i \in 1 .. Len(u) : u[i] = t[i]

LEMMA CellsAre ==
    ASSUME NEW t \in Seq(Nat \X Nat)
    PROVE  /\ Len(t) \in Nat /\ DOMAIN t = 1 .. Len(t)
           /\ \A i \in 1 .. Len(t) : t[i] \in Nat \X Nat /\ t[i][1] \in Nat /\ t[i][2] \in Nat
<1>1. Len(t) \in Nat /\ DOMAIN t = 1 .. Len(t)
  BY LenProperties
<1>2. \A i \in 1 .. Len(t) : t[i] \in Nat \X Nat
  BY ElementOfSeq
<1> QED
  BY <1>1, <1>2

\* What holds of a sequence holds of its beginnings.
LEMMA BeginningIsCut ==
    ASSUME NEW t \in Seq(Nat \X Nat), NEW u \in Seq(Nat \X Nat), StartsAs(u, t)
    PROVE  /\ Pieces(t) => Pieces(u)
           /\ Ordered(t) => Ordered(u)
           /\ Headed(t) => Headed(u)
           /\ Unbroken(t) => Unbroken(u)
<1>1. Len(t) \in Nat /\ Len(u) \in Nat
  BY CellsAre
<1>2. \A i \in 1 .. Len(u) : i \in 1 .. Len(t) /\ u[i] = t[i]
  <2>1. Len(u) <= Len(t)
    BY DEF StartsAs
  <2>2. \A i \in 1 .. Len(u) : i \in 1 .. Len(t)
    BY <1>1, <2>1
  <2> QED
    BY <2>2 DEF StartsAs
<1>3. \A i \in 1 .. Len(u) : 1 .. i \subseteq 1 .. Len(u)
  BY <1>1
<1>4. Pieces(t) => Pieces(u)
  BY <1>2 DEF Pieces
<1>5. ASSUME Ordered(t) PROVE Ordered(u)
  <2> SUFFICES ASSUME NEW i \in 1 .. Len(u), NEW j \in 1 .. Len(u), i < j
               PROVE  \/ u[i][1] < u[j][1]
                      \/ u[i][1] = u[j][1] /\ u[j][2] - u[i][2] = j - i
    BY DEF Ordered
  <2>1. \/ t[i][1] < t[j][1]
        \/ t[i][1] = t[j][1] /\ t[j][2] - t[i][2] = j - i
    BY <1>2, <1>5 DEF Ordered
  <2>2. u[i] = t[i] /\ u[j] = t[j]
    BY <1>2
  <2> QED
    BY <2>1, <2>2
<1>6. ASSUME Headed(t) PROVE Headed(u)
  <2> SUFFICES ASSUME NEW i \in 1 .. Len(u)
               PROVE  \E head \in 1 .. i : u[head] = <<u[i][1], 1>> /\ u[i][2] = i - head + 1
    BY DEF Headed
  <2>1. PICK head \in 1 .. i : t[head] = <<t[i][1], 1>> /\ t[i][2] = i - head + 1
    BY <1>2, <1>6 DEF Headed
  <2>2. u[head] = t[head] /\ u[i] = t[i]
    BY <1>2, <1>3
  <2> QED
    BY <2>1, <2>2
<1>7. Unbroken(t) => Unbroken(u)
  BY <1>2 DEF Unbroken
<1> QED
  BY <1>4, <1>5, <1>6, <1>7

\* One sequence after another.
LEMMA JoinedIs ==
    ASSUME NEW t \in Seq(Nat \X Nat), NEW u \in Seq(Nat \X Nat)
    PROVE  /\ t \o u \in Seq(Nat \X Nat) /\ Len(t \o u) = Len(t) + Len(u)
           /\ \A i \in 1 .. Len(t) : (t \o u)[i] = t[i]
           /\ \A i \in 1 .. Len(u) : (t \o u)[Len(t) + i] = u[i]
           /\ StartsAs(t, t \o u)
<1>1. /\ t \o u \in Seq(Nat \X Nat) /\ Len(t \o u) = Len(t) + Len(u)
      /\ \A i \in 1 .. Len(t) + Len(u) :
            (t \o u)[i] = IF i <= Len(t) THEN t[i] ELSE u[i - Len(t)]
  BY ConcatProperties
<1>2. Len(t) \in Nat /\ Len(u) \in Nat
  BY CellsAre
<1>3. \A i \in 1 .. Len(t) : (t \o u)[i] = t[i]
  BY <1>1, <1>2
<1>4. ASSUME NEW i \in 1 .. Len(u) PROVE (t \o u)[Len(t) + i] = u[i]
  <2> DEFINE j == Len(t) + i
  <2>1. j \in 1 .. Len(t) + Len(u) /\ ~(j <= Len(t)) /\ j - Len(t) = i
    BY <1>2
  <2> HIDE DEF j
  <2>2. (t \o u)[j] = u[i]
    BY <1>1, <2>1
  <2> QED
    BY <2>2 DEF j
<1> QED
  BY <1>1, <1>2, <1>3, <1>4 DEF StartsAs

LEMMA Joined3Is ==
    ASSUME NEW t \in Seq(Nat \X Nat), NEW u \in Seq(Nat \X Nat), NEW v \in Seq(Nat \X Nat)
    PROVE  (t \o u) \o v = t \o (u \o v)
<1> DEFINE x == (t \o u) \o v
           y == t \o (u \o v)
<1>1. Len(t) \in Nat /\ Len(u) \in Nat /\ Len(v) \in Nat
  BY CellsAre
<1>2. /\ t \o u \in Seq(Nat \X Nat) /\ Len(t \o u) = Len(t) + Len(u)
      /\ \A i \in 1 .. Len(t) + Len(u) :
            (t \o u)[i] = IF i <= Len(t) THEN t[i] ELSE u[i - Len(t)]
  BY ConcatProperties
<1>3. /\ u \o v \in Seq(Nat \X Nat) /\ Len(u \o v) = Len(u) + Len(v)
      /\ \A i \in 1 .. Len(u) + Len(v) :
            (u \o v)[i] = IF i <= Len(u) THEN u[i] ELSE v[i - Len(u)]
  BY ConcatProperties
<1>4. /\ x \in Seq(Nat \X Nat) /\ Len(x) = Len(t \o u) + Len(v)
      /\ \A i \in 1 .. Len(t \o u) + Len(v) :
            x[i] = IF i <= Len(t \o u) THEN (t \o u)[i] ELSE v[i - Len(t \o u)]
  BY <1>2, ConcatProperties
<1>5. /\ y \in Seq(Nat \X Nat) /\ Len(y) = Len(t) + Len(u \o v)
      /\ \A i \in 1 .. Len(t) + Len(u \o v) :
            y[i] = IF i <= Len(t) THEN t[i] ELSE (u \o v)[i - Len(t)]
  BY <1>3, ConcatProperties
<1> HIDE DEF x, y
<1>6. Len(x) = Len(y) /\ Len(x) = Len(t) + Len(u) + Len(v)
  BY <1>1, <1>2, <1>3, <1>4, <1>5
<1>7. ASSUME NEW i \in 1 .. Len(x) PROVE x[i] = y[i]
  <2> DEFINE j == i - Len(t)
             k == i - (Len(t) + Len(u))
  <2>1. CASE i <= Len(t)
    <3>1. i \in 1 .. Len(t) + Len(u) /\ i \in 1 .. Len(t) + Len(u \o v) /\ i <= Len(t \o u)
          /\ i \in 1 .. Len(t \o u) + Len(v)
      BY <1>1, <1>2, <1>3, <1>6, <2>1
    <3>2. (t \o u)[i] = t[i]
      BY <1>2, <2>1, <3>1
    <3>3. y[i] = t[i]
      BY <1>5, <2>1, <3>1
    <3>4. x[i] = (t \o u)[i]
      BY <1>4, <3>1
    <3> QED
      BY <3>2, <3>3, <3>4
  <2>2. CASE i > Len(t) /\ i <= Len(t) + Len(u)
    <3>1. j \in 1 .. Len(u) + Len(v) /\ j <= Len(u)
      BY <1>1, <2>2
    <3>2. i \in 1 .. Len(t) + Len(u) /\ i \in 1 .. Len(t) + Len(u \o v) /\ i <= Len(t \o u)
          /\ i \in 1 .. Len(t \o u) + Len(v) /\ ~(i <= Len(t))
      BY <1>1, <1>2, <1>3, <1>6, <2>2
    <3>3. (t \o u)[i] = u[j]
      BY <1>2, <3>2
    <3>4. y[i] = (u \o v)[j]
      BY <1>5, <3>2
    <3> HIDE DEF j
    <3>5. (u \o v)[j] = u[j]
      BY <1>3, <3>1
    <3>6. x[i] = (t \o u)[i]
      BY <1>4, <3>2
    <3> QED
      BY <3>3, <3>4, <3>5, <3>6
  <2>3. CASE i > Len(t) + Len(u)
    <3>1. j \in 1 .. Len(u) + Len(v) /\ ~(j <= Len(u)) /\ j - Len(u) = k
      BY <1>1, <1>6, <2>3
    <3> HIDE DEF j
    <3>2. y[i] = (u \o v)[j]
      <4>1. i \in 1 .. Len(t) + Len(u \o v) /\ ~(i <= Len(t))
        BY <1>1, <1>3, <1>6, <2>3
      <4> QED
        BY <1>5, <4>1 DEF j
    <3>3. x[i] = v[k]
      <4>1. i \in 1 .. Len(t \o u) + Len(v) /\ ~(i <= Len(t \o u)) /\ i - Len(t \o u) = k
        BY <1>1, <1>2, <1>6, <2>3
      <4>2. x[i] = v[i - Len(t \o u)]
        BY <1>4, <4>1
      <4> QED
        BY <4>1, <4>2
    <3> HIDE DEF k
    <3> QED
      BY <1>3, <3>1, <3>2, <3>3
  <2> QED
    BY <1>1, <1>6, <2>1, <2>2, <2>3
<1>8. x = y
  BY <1>4, <1>5, <1>6, <1>7, SeqEqual
<1> QED
  BY <1>8 DEF x, y

LEMMA TapeIs ==
    JTypeOK => /\ Tape \in Seq(Nat \X Nat) /\ Len(Tape) = Len(file) + Len(buffer)
               /\ Len(file) \in Nat /\ Len(buffer) \in Nat
               /\ \A i \in 1 .. Len(file) : Tape[i] = file[i]
               /\ \A i \in 1 .. Len(buffer) : Tape[Len(file) + i] = buffer[i]
               /\ StartsAs(file, Tape)
BY JoinedIs, CellsAre DEF JTypeOK, Tape

-----------------------------------------------------------------------------
(* Records *)

\* The length of a record that was logged is its own for ever.
LEMMA LengthIs ==
    ASSUME JTypeOK, NEW k \in DOMAIN logged
    PROVE  /\ k \in Nat \ {0} /\ logged[k] \in Record /\ PayloadCells[logged[k].type] \in Nat \ {0}
           /\ Length(k) = HeaderCells + PayloadCells[logged[k].type]
           /\ Length(k) \in Nat /\ Length(k) > HeaderCells
<1>1. logged[k] \in Record /\ k \in Nat \ {0}
  BY LenProperties, ElementOfSeq DEF JTypeOK
<1>2. PayloadCells[logged[k].type] \in Nat \ {0} /\ HeaderCells \in Nat
  BY <1>1, JournalConstants DEF Record
<1> QED
  BY <1>1, <1>2 DEF Length

\* Logging a record leaves the others what they are.
LEMMA LogIs ==
    ASSUME JTypeOK, NEW type \in EventTypes,
           logged' = Append(logged, [sequence |-> sequence, type |-> type]),
           NEW n, n = Len(logged) + 1
    PROVE  /\ Len(logged) \in Nat /\ logged' \in Seq(Record) /\ Len(logged') = Len(logged) + 1
           /\ DOMAIN logged = 1 .. Len(logged) /\ DOMAIN logged' = 1 .. n
           /\ \A k \in DOMAIN logged : logged'[k] = logged[k] /\ Length(k)' = Length(k)
           /\ Length(n)' = HeaderCells + PayloadCells[type]
<1> DEFINE r == [sequence |-> sequence, type |-> type]
<1>1. r \in Record
  BY DEF JTypeOK, Record
<1>2. r.type = type
  OBVIOUS
<1> HIDE DEF r
<1>3. /\ logged' \in Seq(Record) /\ Len(logged') = Len(logged) + 1
      /\ \A k \in 1 .. Len(logged) : logged'[k] = logged[k]
      /\ logged'[Len(logged) + 1] = r
  BY <1>1, AppendProperties DEF JTypeOK, r
<1>4. Len(logged) \in Nat /\ DOMAIN logged = 1 .. Len(logged) /\ DOMAIN logged' = 1 .. Len(logged')
  BY <1>3, LenProperties DEF JTypeOK
<1>5. \A k \in DOMAIN logged : logged'[k] = logged[k] /\ Length(k)' = Length(k)
  BY <1>3, <1>4 DEF Length
<1>6. Length(n)' = HeaderCells + PayloadCells[type]
  <2>1. logged'[n] = r
    BY <1>3
  <2>2. PayloadCells[logged'[n].type] = PayloadCells[type]
    BY <1>2, <2>1
  <2> QED
    BY <2>2 DEF Length
<1> QED
  BY <1>3, <1>4, <1>5, <1>6

\* The cells of a new record behind those of the others.
Follows(u, t, k, length) ==
    /\ u \in Seq(Nat \X Nat) /\ Len(u) = Len(t) + length
    /\ \A i \in 1 .. Len(t) : u[i] = t[i]
    /\ \A i \in 1 .. Len(u) : i > Len(t) => u[i] = <<k, i - Len(t)>>

LEMMA CellsFollow ==
    ASSUME NEW t \in Seq(Nat \X Nat), NEW k \in Nat, NEW length \in Nat
    PROVE  Follows(t \o Cells(k, length), t, k, length)
<1> DEFINE c == Cells(k, length)
<1>1. c \in Seq(Nat \X Nat) /\ Len(c) = length /\ \A i \in 1 .. length : c[i] = <<k, i>>
  <2>1. c = [i \in 1 .. length |-> <<k, i>>]
    BY DEF Cells
  <2>2. \A i \in 1 .. length : <<k, i>> \in Nat \X Nat
    OBVIOUS
  <2>3. c \in [1 .. length -> Nat \X Nat]
    BY <2>1, <2>2
  <2>4. c \in Seq(Nat \X Nat)
    BY <2>3, SeqDef
  <2>5. DOMAIN c = 1 .. length
    BY <2>1
  <2>6. Len(c) = length
    BY <2>4, <2>5, LenProperties
  <2> QED
    BY <2>1, <2>4, <2>6
<1> HIDE DEF c
<1>2. /\ t \o c \in Seq(Nat \X Nat) /\ Len(t \o c) = Len(t) + length
      /\ \A i \in 1 .. Len(t) : (t \o c)[i] = t[i]
      /\ \A i \in 1 .. length : (t \o c)[Len(t) + i] = c[i]
  BY <1>1, JoinedIs
<1>3. Len(t) \in Nat
  BY CellsAre
<1>4. ASSUME NEW i \in 1 .. Len(t \o c), i > Len(t)
      PROVE  (t \o c)[i] = <<k, i - Len(t)>>
  <2> DEFINE j == i - Len(t)
  <2>1. j \in 1 .. length /\ i = Len(t) + j
    BY <1>2, <1>3, <1>4
  <2> HIDE DEF j
  <2>2. (t \o c)[i] = <<k, j>>
    BY <1>1, <1>2, <2>1
  <2> QED
    BY <2>2 DEF j
<1> QED
  BY <1>2, <1>4 DEF Follows, c

\* A record is added to an orderly sequence.
LEMMA LogKeepsOrder ==
    ASSUME JTypeOK, NEW type \in EventTypes,
           logged' = Append(logged, [sequence |-> sequence, type |-> type]),
           NEW n, n = Len(logged) + 1,
           NEW t \in Seq(Nat \X Nat), Pieces(t), Ordered(t), Headed(t),
           NEW u, Follows(u, t, n, HeaderCells + PayloadCells[type])
    PROVE  Pieces(u)' /\ Ordered(u) /\ Headed(u)
<1> DEFINE length == HeaderCells + PayloadCells[type]
           m == Len(t)
<1>1. /\ Len(logged) \in Nat /\ DOMAIN logged = 1 .. Len(logged) /\ DOMAIN logged' = 1 .. n
      /\ \A k \in DOMAIN logged : Length(k)' = Length(k)
      /\ Length(n)' = length
  BY LogIs
<1>2. length \in Nat /\ m \in Nat /\ Len(u) = m + length
  BY JournalConstants, CellsAre DEF Follows
<1>3. /\ \A i \in 1 .. m : u[i] = t[i]
      /\ \A i \in 1 .. Len(u) : i > m => u[i] = <<n, i - m>>
  BY DEF Follows
<1> HIDE DEF length, m
<1>3a. ASSUME NEW i \in 1 .. Len(u)
       PROVE  \/ i \in 1 .. m /\ u[i] = t[i]
              \/ i > m /\ i - m \in 1 .. length /\ u[i] = <<n, i - m>>
  BY <1>2, <1>3
<1>4. n \in Nat /\ \A k \in DOMAIN logged : k < n /\ k \in Nat /\ k \in 1 .. n
  BY <1>1
<1>5. n \in 1 .. n
  BY <1>1
<1>6. \A i \in 1 .. m : /\ t[i][1] \in DOMAIN logged /\ t[i][2] \in 1 .. Length(t[i][1])
  BY DEF Pieces, m
<1>7. ASSUME NEW i \in 1 .. Len(u)
      PROVE  u[i][1] \in DOMAIN logged' /\ u[i][2] \in 1 .. Length(u[i][1])'
  <2>1. CASE i \in 1 .. m /\ u[i] = t[i]
    BY <1>1, <1>4, <1>6, <2>1
  <2>2. CASE i > m /\ i - m \in 1 .. length /\ u[i] = <<n, i - m>>
    BY <1>1, <1>5, <2>2
  <2> QED
    BY <1>3a, <2>1, <2>2
<1>8. Pieces(u)'
  BY <1>7 DEF Pieces, Length
<1>9. Ordered(u)
  <2> SUFFICES ASSUME NEW i \in 1 .. Len(u), NEW j \in 1 .. Len(u), i < j
               PROVE  \/ u[i][1] < u[j][1]
                      \/ u[i][1] = u[j][1] /\ u[j][2] - u[i][2] = j - i
    BY DEF Ordered
  <2>1. CASE j \in 1 .. m /\ u[j] = t[j]
    <3>1. i \in 1 .. m /\ u[i] = t[i]
      BY <1>2, <1>3a, <2>1
    <3>2. \/ t[i][1] < t[j][1]
          \/ t[i][1] = t[j][1] /\ t[j][2] - t[i][2] = j - i
      BY <2>1, <3>1 DEF Ordered, m
    <3> QED
      BY <2>1, <3>1, <3>2
  <2>2. CASE j > m /\ u[j] = <<n, j - m>>
    <3>1. CASE i \in 1 .. m /\ u[i] = t[i]
      BY <1>4, <1>6, <2>2, <3>1
    <3>2. CASE i > m /\ u[i] = <<n, i - m>>
      BY <1>2, <2>2, <3>2
    <3> QED
      BY <1>3a, <3>1, <3>2
  <2> QED
    BY <1>3a, <2>1, <2>2
<1>10. Headed(u)
  <2> SUFFICES ASSUME NEW i \in 1 .. Len(u)
               PROVE  \E head \in 1 .. i : u[head] = <<u[i][1], 1>> /\ u[i][2] = i - head + 1
    BY DEF Headed
  <2>1. CASE i \in 1 .. m /\ u[i] = t[i]
    <3>1. PICK head \in 1 .. i : t[head] = <<t[i][1], 1>> /\ t[i][2] = i - head + 1
      BY <2>1 DEF Headed, m
    <3>2. head \in 1 .. Len(u) /\ head \in 1 .. m
      BY <1>2, <2>1
    <3>3. u[head] = t[head]
      BY <1>2, <1>3a, <3>2
    <3> QED
      BY <2>1, <3>1, <3>3
  <2>2. CASE i > m /\ i - m \in 1 .. length /\ u[i] = <<n, i - m>>
    <3> DEFINE head == m + 1
    <3>1. head \in 1 .. i /\ head \in 1 .. Len(u) /\ head > m /\ head - m = 1 /\ i - m = i - head + 1
      BY <1>2, <2>2
    <3> HIDE DEF head
    <3>2. u[head] = <<n, 1>>
      BY <1>2, <1>3a, <3>1
    <3> QED
      BY <2>2, <3>1, <3>2
  <2> QED
    BY <1>3a, <2>1, <2>2
<1> QED
  BY <1>8, <1>9, <1>10

\* And to one of whole records.
LEMMA LogKeepsWhole ==
    ASSUME JTypeOK, NEW type \in EventTypes,
           logged' = Append(logged, [sequence |-> sequence, type |-> type]),
           NEW n, n = Len(logged) + 1,
           NEW t \in Seq(Nat \X Nat), Pieces(t), Unbroken(t), EndsWhole(t),
           NEW u, Follows(u, t, n, HeaderCells + PayloadCells[type])
    PROVE  Unbroken(u)' /\ EndsWhole(u)'
<1> DEFINE length == HeaderCells + PayloadCells[type]
           m == Len(t)
<1>1. /\ \A k \in DOMAIN logged : Length(k)' = Length(k)
      /\ Length(n)' = length
  BY LogIs
<1>2. length \in Nat \ {0} /\ m \in Nat /\ Len(u) = m + length
  BY JournalConstants, CellsAre DEF Follows
<1>3. /\ \A i \in 1 .. m : u[i] = t[i]
      /\ \A i \in 1 .. Len(u) : i > m => u[i] = <<n, i - m>>
  BY DEF Follows
<1>4. t # <<>> <=> m # 0
  BY EmptySeq DEF m
<1> HIDE DEF length, m
<1>5. \A i \in 1 .. m : t[i][1] \in DOMAIN logged /\ t[i][2] \in 1 .. Length(t[i][1])
  BY DEF Pieces, m
<1>6. ASSUME NEW head \in 1 .. Len(u), NEW i \in 1 .. Len(u), head <= i, u[head][2] = 1,
             i - head < Length(u[head][1])'
      PROVE  u[i] = <<u[head][1], i - head + 1>>
  <2>1. CASE head > m
    <3>1. u[head] = <<n, head - m>> /\ u[i] = <<n, i - m>>
      BY <1>2, <1>3, <1>6, <2>1
    <3>2. head - m = 1
      BY <1>6, <3>1
    <3>3. i - m = i - head + 1
      BY <1>2, <3>2
    <3> QED
      BY <3>1, <3>3
  <2>2. CASE head <= m
    <3>1. head \in 1 .. m /\ u[head] = t[head]
      BY <1>2, <1>3, <2>2
    <3>2. t[head][1] \in DOMAIN logged /\ Length(t[head][1])' = Length(t[head][1])
      BY <1>1, <1>5, <3>1
    <3>3. t[head][2] = 1 /\ i - head < Length(t[head][1])
      BY <1>6, <3>1, <3>2
    <3>4. Length(t[head][1]) \in Nat
      BY <3>2, LengthIs
    <3>5. \A j \in 1 .. m : head <= j /\ j - head < Length(t[head][1])
                                => t[j] = <<t[head][1], j - head + 1>>
      BY <3>1, <3>3 DEF Unbroken, m
    <3>6. CASE i <= m
      <4>1. i \in 1 .. m /\ u[i] = t[i]
        BY <1>2, <1>3, <3>6
      <4> QED
        BY <1>6, <3>1, <3>3, <3>5, <4>1
    <3>7. CASE i > m
      <4>1. m \in 1 .. m /\ head <= m /\ m - head < Length(t[head][1])
        BY <1>2, <3>1, <3>3, <3>4, <3>7
      <4>2. t[m] = <<t[head][1], m - head + 1>>
        BY <3>5, <4>1
      <4>3. t[m][2] = Length(t[m][1])
        BY <1>2, <1>4, <4>1 DEF EndsWhole, m
      <4>4. m - head + 1 = Length(t[head][1])
        BY <4>2, <4>3
      <4> QED
        BY <1>2, <3>1, <3>3, <3>4, <3>7, <4>4
    <3> QED
      BY <1>2, <3>6, <3>7
  <2> QED
    BY <1>2, <2>1, <2>2
<1>7. Unbroken(u)'
  BY <1>6 DEF Unbroken, Length
<1>8. EndsWhole(u)'
  <2>1. Len(u) \in 1 .. Len(u) /\ Len(u) > m /\ Len(u) - m = length
    BY <1>2
  <2>2. u[Len(u)] = <<n, length>>
    BY <1>3, <2>1
  <2> QED
    BY <1>1, <2>2 DEF EndsWhole, Length
<1> QED
  BY <1>7, <1>8

\* Where the last piece of a record is, among whole records.
LEMMA RecordEnds ==
    ASSUME JTypeOK, NEW t \in Seq(Nat \X Nat),
           Pieces(t), Headed(t), Unbroken(t), EndsWhole(t), NEW i \in 1 .. Len(t)
    PROVE  t[i][1] \in DOMAIN logged
           /\ \E e \in i .. Len(t) : t[e] = <<t[i][1], Length(t[i][1])>>
<1> DEFINE k == t[i][1]
           m == Len(t)
           length == Length(k)
<1>1. k \in DOMAIN logged /\ t[i][2] \in 1 .. length /\ m \in Nat /\ t # <<>>
  BY CellsAre, EmptySeq DEF Pieces
<1>2. PICK head \in 1 .. i : t[head] = <<k, 1>> /\ t[i][2] = i - head + 1
  BY DEF Headed
<1>3. length \in Nat \ {0}
  BY <1>1, LengthIs
<1> HIDE DEF k, m, length
<1>4. i \in 1 .. m /\ head \in 1 .. m
  BY <1>1 DEF m
<1>5. \A j \in 1 .. m : head <= j /\ j - head < length => t[j] = <<k, j - head + 1>>
  <2>1. t[head][1] = k /\ t[head][2] = 1
    BY <1>2
  <2> QED
    BY <2>1, <1>4 DEF Unbroken, m, length
<1> DEFINE e == head + length - 1
<1>6. e \in i .. m
  <2>1. SUFFICES ASSUME e > m PROVE FALSE
    BY <1>1, <1>2, <1>3, <1>4
  <2>2. m \in 1 .. m /\ head <= m /\ m - head < length
    BY <1>1, <1>3, <1>4, <2>1
  <2>3. t[m] = <<k, m - head + 1>>
    BY <1>5, <2>2
  <2>4. t[m][2] = Length(t[m][1])
    BY <1>1 DEF EndsWhole, m
  <2>5. m - head + 1 = length
    BY <2>3, <2>4 DEF length
  <2> QED
    BY <1>1, <1>3, <1>4, <2>1, <2>5
<1>7. head <= e /\ e - head < length /\ e - head + 1 = length /\ e \in 1 .. m
  BY <1>1, <1>3, <1>4, <1>6
<1> HIDE DEF e
<1>8. t[e] = <<k, e - head + 1>>
  BY <1>5, <1>7
<1>9. t[e] = <<k, length>>
  BY <1>7, <1>8
<1> QED
  BY <1>1, <1>6, <1>9 DEF k, m, length

-----------------------------------------------------------------------------
(* What a step of the journal does *)

\* The journal forgets nothing: the file only grows, records keep what they are,
\* and what was appended behind a torn record is never undone.
Grown ==
    /\ StartsAs(file, file')
    /\ DOMAIN logged \subseteq DOMAIN logged'
    /\ \A k \in DOMAIN logged : logged'[k] = logged[k] /\ Length(k)' = Length(k)
    /\ torn => torn'

\* Nothing is logged and the cells to be written are the same.
LEMMA SpillIs ==
    ASSUME JTypeOK, NEW length \in 1 .. Len(buffer), Spill(length)
    PROVE  /\ file' \in Seq(Nat \X Nat) /\ buffer' \in Seq(Nat \X Nat)
           /\ Tape' = Tape /\ StartsAs(file, file')
<1> DEFINE s == SubSeq(buffer, 1, length)
           r == SubSeq(buffer, length + 1, Len(buffer))
<1>1. buffer \in Seq(Nat \X Nat) /\ file \in Seq(Nat \X Nat) /\ Len(buffer) \in Nat
  BY CellsAre DEF JTypeOK
<1>2. \A i \in 1 .. Len(buffer) : buffer[i] \in Nat \X Nat
  BY <1>1, CellsAre
<1>3. /\ 1 \in Int /\ length \in Int /\ length + 1 \in Int /\ Len(buffer) \in Int
      /\ \A i \in 1 .. length : i \in 1 .. Len(buffer)
      /\ \A i \in length + 1 .. Len(buffer) : i \in 1 .. Len(buffer)
  BY <1>1
<1>4. s \in Seq(Nat \X Nat)
  BY <1>2, <1>3, SubSeqProperties
<1>5. r \in Seq(Nat \X Nat)
  BY <1>2, <1>3, SubSeqProperties
<1>6. s \o r = buffer
  <2>1. SubSeq(buffer, 1, Len(buffer)) = buffer
    BY <1>1, SubSeqFull
  <2>2. 1 \in 1 .. Len(buffer) + 1 /\ length \in 1 - 1 .. Len(buffer) /\ Len(buffer) \in length .. Len(buffer)
    BY <1>1
  <2>3. s \o r = SubSeq(buffer, 1, Len(buffer))
    BY <1>1, <2>2, ConcatAdjacentSubSeq
  <2> QED
    BY <2>1, <2>3
<1>7. file' = file \o s /\ buffer' = r
  BY DEF Spill
<1> HIDE DEF s, r
<1>8. (file \o s) \o r = file \o (s \o r)
  BY <1>1, <1>4, <1>5, Joined3Is, ZenonT(60)
<1>9. Tape' = Tape
  BY <1>6, <1>7, <1>8 DEF Tape
<1>10. file \o s \in Seq(Nat \X Nat) /\ StartsAs(file, file \o s)
  BY <1>1, <1>4, JoinedIs
<1> QED
  BY <1>5, <1>7, <1>9, <1>10

LEMMA EmptyIs ==
    ASSUME JTypeOK, Empty
    PROVE  /\ file' = Tape /\ file' \in Seq(Nat \X Nat) /\ buffer' = <<>> /\ buffer' \in Seq(Nat \X Nat)
           /\ Tape' = Tape /\ StartsAs(file, file')
<1>1. Tape \in Seq(Nat \X Nat) /\ StartsAs(file, Tape)
  BY TapeIs
<1>2. file' = Tape /\ buffer' = <<>>
  BY DEF Empty, Tape
<1>3. Tape \o <<>> = Tape
  BY <1>1, ConcatEmptySeq
<1>4. Tape' = file' \o buffer'
  BY DEF Tape
<1> QED
  BY <1>1, <1>2, <1>3, <1>4, EmptySeq

LEMMA LogTape ==
    ASSUME JTypeOK, NEW type \in EventTypes, Log(type), NEW n, n = Len(logged) + 1
    PROVE  /\ n \in Nat /\ buffer' \in Seq(Nat \X Nat) /\ file' = file
           /\ logged' = Append(logged, [sequence |-> sequence, type |-> type])
           /\ Follows(Tape', Tape, n, HeaderCells + PayloadCells[type])
<1> DEFINE c == Cells(n, HeaderCells + PayloadCells[type])
<1>1. /\ logged' = Append(logged, [sequence |-> sequence, type |-> type])
      /\ buffer' = buffer \o Cells(Len(logged'), HeaderCells + PayloadCells[type])
      /\ file' = file
  BY DEF Log
<1>2. Len(logged') = n /\ n \in Nat
  BY <1>1, LogIs
<1>3. buffer' = buffer \o c
  BY <1>1, <1>2
<1>4. HeaderCells + PayloadCells[type] \in Nat
  BY JournalConstants
<1>5. Tape \in Seq(Nat \X Nat) /\ file \in Seq(Nat \X Nat) /\ buffer \in Seq(Nat \X Nat)
  BY TapeIs DEF JTypeOK
<1>6. Follows(Tape \o c, Tape, n, HeaderCells + PayloadCells[type])
  BY <1>2, <1>4, <1>5, CellsFollow
<1>7. c \in Seq(Nat \X Nat)
  <2>1. c = [i \in 1 .. HeaderCells + PayloadCells[type] |-> <<n, i>>]
    BY DEF Cells
  <2>2. \A i \in 1 .. HeaderCells + PayloadCells[type] : <<n, i>> \in Nat \X Nat
    BY <1>2, <1>4
  <2>3. c \in [1 .. HeaderCells + PayloadCells[type] -> Nat \X Nat]
    BY <2>1, <2>2
  <2> QED
    BY <1>4, <2>3, SeqDef
<1> HIDE DEF c
<1>8. buffer \o c \in Seq(Nat \X Nat) /\ (file \o buffer) \o c = file \o (buffer \o c)
  <2>1. buffer \o c \in Seq(Nat \X Nat)
    BY <1>5, <1>7, JoinedIs
  <2>2. (file \o buffer) \o c = file \o (buffer \o c)
    BY <1>5, <1>7, Joined3Is, ZenonT(60)
  <2> QED
    BY <2>1, <2>2
<1>9. Tape' = Tape \o c
  BY <1>1, <1>3, <1>8 DEF Tape
<1> QED
  BY <1>1, <1>2, <1>3, <1>6, <1>8, <1>9

LEMMA CrashIs ==
    ASSUME JTypeOK, file' = file, buffer' = <<>>
    PROVE  Tape' = file /\ file' \in Seq(Nat \X Nat) /\ buffer' \in Seq(Nat \X Nat)
<1>1. file \o <<>> = file
  BY ConcatEmptySeq DEF JTypeOK
<1>2. Tape' = file' \o buffer'
  BY DEF Tape
<1> QED
  BY <1>1, <1>2, EmptySeq DEF JTypeOK

\* The types of the other variables of the journal.
LEMMA TypedStep ==
    ASSUME JTypeOK, JNext \/ UNCHANGED jvars,
           file' \in Seq(Nat \X Nat), buffer' \in Seq(Nat \X Nat), logged' \in Seq(Record),
           flushed' \in SUBSET Nat
    PROVE  JTypeOK'
<1>1. sequence \in Nat /\ lives \in Nat /\ writer \in {"none", "open", "closed"} /\ torn \in BOOLEAN
  BY DEF JTypeOK
<1>2. sequence' \in Nat /\ lives' \in Nat /\ writer' \in {"none", "open", "closed"}
  <2>1. CASE JNext
    <3>1. CASE Open \/ LogUnwritten
      BY <1>1, <3>1 DEF Open, LogUnwritten
    <3>2. CASE Flush \/ Close \/ Destroy \/ Crash
      BY <1>1, <3>2 DEF Flush, Close, Destroy, Crash
    <3>3. ASSUME NEW type \in EventTypes, Log(type)
          PROVE  sequence' = sequence + 1 /\ lives' = lives /\ writer' = writer
      BY <3>3 DEF Log
    <3>4. ASSUME NEW length \in 1 .. Len(buffer), Spill(length)
          PROVE  UNCHANGED <<sequence, lives, writer>>
      BY <3>4 DEF Spill
    <3> QED
      BY <1>1, <2>1, <3>1, <3>2, <3>3, <3>4 DEF JNext
  <2>2. CASE UNCHANGED jvars
    BY <1>1, <2>2 DEF jvars
  <2> QED
    BY <2>1, <2>2
<1>3. torn' \in BOOLEAN
  <2>1. CASE Open
    BY <2>1 DEF Open
  <2>2. CASE torn' = torn
    BY <1>1, <2>2
  <2>3. Open \/ torn' = torn
    BY DEF JNext, jvars, Log, LogUnwritten, Spill, Flush, Close, Destroy, Crash
  <2> QED
    BY <2>1, <2>2, <2>3
<1> QED
  BY <1>2, <1>3 DEF JTypeOK

\* Nothing is logged: what was orderly and is kept is orderly still.
LEMMA CutKeepsOrder ==
    ASSUME Written, logged' = logged, NEW u \in Seq(Nat \X Nat), StartsAs(u, Tape)
    PROVE  /\ Pieces(u)' /\ Ordered(u) /\ Headed(u)
           /\ Unbroken(Tape) => Unbroken(u)'
           /\ EndsWhole(u) => EndsWhole(u)'
<1>1. Tape \in Seq(Nat \X Nat) /\ Pieces(Tape) /\ Ordered(Tape) /\ Headed(Tape)
  BY TapeIs DEF Written
<1>2. Pieces(u) /\ Ordered(u) /\ Headed(u) /\ (Unbroken(Tape) => Unbroken(u))
  BY <1>1, BeginningIsCut
<1>3. Pieces(u)'
  BY <1>2 DEF Pieces, Length
<1>4. Unbroken(u) => Unbroken(u)'
  BY DEF Unbroken, Length
<1>5. EndsWhole(u) => EndsWhole(u)'
  BY DEF EndsWhole, Length
<1> QED
  BY <1>2, <1>3, <1>4, <1>5

LEMMA GrownIfKept ==
    ASSUME JTypeOK, logged' = logged, StartsAs(file, file'), torn => torn'
    PROVE  Grown
BY DEF Grown, Length

LEMMA StartsAsItself ==
    ASSUME NEW t \in Seq(Nat \X Nat)
    PROVE  StartsAs(t, t)
BY CellsAre DEF StartsAs

LEMMA WholeIs ==
    ASSUME JTypeOK, NEW t \in Seq(Nat \X Nat)
    PROVE  Whole(t) = {k \in DOMAIN logged : \E i \in 1 .. Len(t) : t[i] = <<k, Length(k)>>}
BY CellsAre DEF Whole, Range

\* A record that is whole stays so.
LEMMA WholeGrows ==
    ASSUME JTypeOK, Grown, file' \in Seq(Nat \X Nat)
    PROVE  Whole(file) \subseteq Whole(file)'
<1> SUFFICES ASSUME NEW k \in Whole(file) PROVE k \in Whole(file)'
  OBVIOUS
<1>1. k \in DOMAIN logged /\ \E i \in DOMAIN file : file[i] = <<k, Length(k)>>
  BY DEF Whole, Range
<1>2. DOMAIN file = 1 .. Len(file) /\ DOMAIN file' = 1 .. Len(file')
      /\ Len(file) \in Nat /\ Len(file') \in Nat
  BY CellsAre DEF JTypeOK
<1>3. PICK i \in DOMAIN file : file[i] = <<k, Length(k)>>
  BY <1>1
<1>4. i \in DOMAIN file' /\ file'[i] = file[i]
  BY <1>2, <1>3 DEF Grown, StartsAs
<1>5. k \in DOMAIN logged' /\ Length(k)' = Length(k)
  BY <1>1 DEF Grown
<1>6. file'[i] = <<k, Length(k)'>>
  BY <1>3, <1>4, <1>5
<1> QED
  BY <1>4, <1>5, <1>6 DEF Whole, Range

\* What is committed is whole once the buffer is written.
LEMMA CommittedIsWhole ==
    ASSUME Written, ~torn, writer # "none"
    PROVE  Committed \subseteq Whole(Tape)
<1>4. JTypeOK /\ Pieces(Tape) /\ Headed(Tape) /\ Unbroken(Tape) /\ EndsWhole(Tape)
  BY DEF Written
<1>1. /\ Tape \in Seq(Nat \X Nat) /\ Len(Tape) = Len(file) + Len(buffer)
      /\ Len(file) \in Nat /\ Len(buffer) \in Nat
      /\ \A i \in 1 .. Len(file) : Tape[i] = file[i]
      /\ \A i \in 1 .. Len(buffer) : Tape[Len(file) + i] = buffer[i]
      /\ file \in Seq(Nat \X Nat) /\ buffer \in Seq(Nat \X Nat)
  BY <1>4, TapeIs DEF JTypeOK
<1>2. ASSUME NEW k \in Whole(file) PROVE k \in Whole(Tape)
  <2>1. k \in DOMAIN logged
    BY DEF Whole
  <2>2. PICK i \in 1 .. Len(file) : file[i] = <<k, Length(k)>>
    BY <1>1, <1>4, WholeIs
  <2>3. i \in 1 .. Len(Tape)
    BY <1>1
  <2>4. Tape[i] = <<k, Length(k)>>
    BY <1>1, <2>2
  <2> QED
    BY <1>1, <1>4, <2>1, <2>3, <2>4, WholeIs
<1>3. ASSUME NEW cell \in Range(buffer) PROVE cell[1] \in Whole(Tape)
  <2>1. PICK j \in 1 .. Len(buffer) : cell = buffer[j]
    BY <1>1, <1>3, CellsAre DEF Range
  <2> DEFINE i == Len(file) + j
  <2>2. i \in 1 .. Len(Tape)
    <3>1. Len(file) \in Nat /\ Len(buffer) \in Nat /\ Len(Tape) = Len(file) + Len(buffer)
      BY <1>1
    <3> QED
      BY <3>1
  <2>6. Tape[i] = cell
    BY <1>1, <2>1
  <2> HIDE DEF i
  <2>3. Tape[i][1] \in DOMAIN logged /\ \E e \in i .. Len(Tape) : Tape[e] = <<Tape[i][1], Length(Tape[i][1])>>
    BY <1>1, <2>2, <1>4, RecordEnds
  <2>4. PICK e \in i .. Len(Tape) : Tape[e] = <<cell[1], Length(cell[1])>>
    BY <2>2, <2>3, <2>6
  <2>5. e \in 1 .. Len(Tape)
    BY <1>1, <2>2
  <2> DEFINE k == cell[1]
  <2>7. k \in DOMAIN logged /\ Tape[e] = <<k, Length(k)>>
    BY <2>3, <2>4, <2>6
  <2> HIDE DEF k
  <2>8. k \in Whole(Tape)
    BY <1>1, <1>4, <2>5, <2>7, WholeIs
  <2> QED
    BY <2>8 DEF k
<1> QED
  BY <1>2, <1>3 DEF Committed

-----------------------------------------------------------------------------
(* The journal keeps what it has written *)

LEMMA WrittenFirst == JInit => Written
<1> SUFFICES ASSUME JInit PROVE Written
  OBVIOUS
<1>1. file = <<>> /\ buffer = <<>> /\ logged = <<>> /\ flushed = {} /\ torn = FALSE
      /\ writer = "none" /\ sequence = 0 /\ lives = 0
  BY DEF JInit
<1>2. JTypeOK
  BY <1>1, EmptySeq DEF JTypeOK
<1>3. Tape = <<>> /\ Len(Tape) = 0
  BY <1>1, EmptySeq, ConcatEmptySeq, TapeIs, <1>2 DEF Tape
<1>4. Pieces(Tape) /\ Ordered(Tape) /\ Headed(Tape) /\ Unbroken(Tape)
  BY <1>3 DEF Pieces, Ordered, Headed, Unbroken
<1> QED
  BY <1>1, <1>2, <1>4 DEF Written

\* A step that logs nothing and writes and forgets no more than the end.
LEMMA KeepWritten ==
    ASSUME Written, JTypeOK', logged' = logged, StartsAs(Tape', Tape),
           writer' # "open" => buffer' = <<>>,
           ~torn' => /\ ~torn
                     /\ writer' # "none" => EndsWhole(Tape')
                     /\ flushed' \subseteq Whole(file)'
    PROVE  Written'
<1> PICK u : u = Tape'
  OBVIOUS
<1>1. u \in Seq(Nat \X Nat) /\ StartsAs(u, Tape)
  <2>1. (JTypeOK => Tape \in Seq(Nat \X Nat))'
    BY TapeIs, PTL
  <2> QED
    BY <2>1
<1>2. /\ Pieces(u)' /\ Ordered(u) /\ Headed(u)
      /\ Unbroken(Tape) => Unbroken(u)'
      /\ EndsWhole(u) => EndsWhole(u)'
  BY <1>1, CutKeepsOrder
<1>3. Pieces(Tape)' /\ Ordered(Tape)' /\ Headed(Tape)'
  BY <1>2 DEF Pieces, Ordered, Headed, Length
<1>4. ~torn' => Unbroken(Tape)'
  BY <1>2 DEF Unbroken, Length, Written
<1>5. ~torn' /\ writer' # "none" => EndsWhole(Tape)'
  BY <1>2 DEF EndsWhole, Length
<1> QED
  BY <1>3, <1>4, <1>5 DEF Written

\* A record is logged.
LEMMA LogWritten ==
    ASSUME Written, NEW type \in EventTypes, Log(type)
    PROVE  Written' /\ Grown
<1>1. /\ JTypeOK /\ Pieces(Tape) /\ Ordered(Tape) /\ Headed(Tape)
      /\ ~torn => Unbroken(Tape) /\ EndsWhole(Tape) /\ flushed \subseteq Whole(file)
      /\ Tape \in Seq(Nat \X Nat) /\ file \in Seq(Nat \X Nat)
      /\ writer' = "open" /\ torn' = torn /\ flushed' = flushed /\ torn \in BOOLEAN
  BY TapeIs DEF Written, Log, JTypeOK
<1> PICK n : n = Len(logged) + 1
  OBVIOUS
<1>2. /\ n \in Nat /\ buffer' \in Seq(Nat \X Nat) /\ file' = file
      /\ logged' = Append(logged, [sequence |-> sequence, type |-> type])
      /\ Follows(Tape', Tape, n, HeaderCells + PayloadCells[type])
  BY <1>1, LogTape
<1>3. /\ Len(logged) \in Nat /\ logged' \in Seq(Record) /\ DOMAIN logged' = 1 .. n
      /\ DOMAIN logged = 1 .. Len(logged)
      /\ \A k \in DOMAIN logged : logged'[k] = logged[k] /\ Length(k)' = Length(k)
  BY <1>1, <1>2, LogIs
<1>4. JTypeOK'
  <2>1. flushed' \in SUBSET Nat
    BY <1>1 DEF JTypeOK
  <2>2. JNext
    BY DEF JNext
  <2> QED
    BY <1>1, <1>2, <1>3, <2>1, <2>2, TypedStep
<1>5. Grown
  BY <1>1, <1>2, <1>3, StartsAsItself DEF Grown
<1> PICK u : u = Tape'
  OBVIOUS
<1> PICK t : t = Tape
  OBVIOUS
<1>6. /\ t \in Seq(Nat \X Nat) /\ Pieces(t) /\ Ordered(t) /\ Headed(t)
      /\ Follows(u, t, n, HeaderCells + PayloadCells[type])
      /\ ~torn => Unbroken(t) /\ EndsWhole(t)
  BY <1>1, <1>2
<1>7. Pieces(u)' /\ Ordered(u) /\ Headed(u)
  BY <1>1, <1>2, <1>6, LogKeepsOrder
<1>8. ~torn => Unbroken(u)' /\ EndsWhole(u)'
  BY <1>1, <1>2, <1>6, LogKeepsWhole
<1>9. Pieces(Tape)' /\ Ordered(Tape)' /\ Headed(Tape)'
  BY <1>7 DEF Pieces, Ordered, Headed, Length
<1>10. ~torn => Unbroken(Tape)' /\ EndsWhole(Tape)'
  BY <1>8 DEF Unbroken, EndsWhole, Length
<1>11. ~torn => flushed' \subseteq Whole(file)'
  BY <1>1, <1>2, <1>5, WholeGrows
<1> QED
  BY <1>1, <1>4, <1>5, <1>9, <1>10, <1>11 DEF Written

LEMMA EmptyWritten ==
    ASSUME Written, writer = "open", Empty, JNext,
           logged' = logged, torn' = torn, writer' \in {"open", "closed"}
    PROVE  Written' /\ Grown
<1>1. JTypeOK /\ torn \in BOOLEAN /\ (~torn => EndsWhole(Tape) /\ flushed \subseteq Whole(file))
  BY DEF Written, JTypeOK
<1>2. /\ file' = Tape /\ file' \in Seq(Nat \X Nat) /\ buffer' = <<>> /\ buffer' \in Seq(Nat \X Nat)
      /\ Tape' = Tape /\ StartsAs(file, file')
  BY <1>1, EmptyIs
<1>3. Committed \in SUBSET Nat
  <2>1. Whole(file) \subseteq Nat
    BY <1>1, LenProperties DEF Whole, JTypeOK
  <2>2. \A cell \in Range(buffer) : cell[1] \in Nat
    BY <1>1, CellsAre DEF Range, JTypeOK
  <2> QED
    BY <2>1, <2>2 DEF Committed
<1>4. flushed' = flushed \cup Committed /\ flushed' \in SUBSET Nat
  BY <1>1, <1>3 DEF Empty, JTypeOK
<1>5. logged' \in Seq(Record)
  BY <1>1 DEF JTypeOK
<1>6. JTypeOK'
  BY <1>1, <1>2, <1>4, <1>5, TypedStep
<1>7. Grown
  BY <1>1, <1>2, GrownIfKept
<1>8. ASSUME ~torn PROVE flushed' \subseteq Whole(file)'
  <2>1. Committed \subseteq Whole(Tape)
    BY <1>8, CommittedIsWhole
  <2>2. Whole(file)' = Whole(Tape)
    BY <1>2 DEF Whole, Length
  <2>3. Whole(file) \subseteq Whole(file)'
    BY <1>1, <1>2, <1>7, WholeGrows
  <2> QED
    BY <1>1, <1>4, <1>8, <2>1, <2>2, <2>3
<1>9. StartsAs(Tape', Tape)
  BY <1>1, <1>2, TapeIs, StartsAsItself
<1> QED
  BY <1>1, <1>2, <1>6, <1>7, <1>8, <1>9, KeepWritten

\* The other steps.
LEMMA KeptWritten ==
    ASSUME Written, Open \/ LogUnwritten \/ Destroy \/ Crash \/ UNCHANGED jvars
    PROVE  Written' /\ Grown
<1>1. /\ JTypeOK /\ torn \in BOOLEAN /\ file \in Seq(Nat \X Nat) /\ Pieces(Tape)
      /\ writer # "open" => buffer = <<>>
      /\ ~torn => /\ writer # "none" => EndsWhole(Tape)
                  /\ flushed \subseteq Whole(file)
  BY DEF Written, JTypeOK
<1>2. file' = file /\ logged' = logged /\ flushed' = flushed /\ (torn => torn')
  <2>1. file' = file /\ logged' = logged /\ flushed' = flushed
    BY DEF Open, LogUnwritten, Destroy, Crash, jvars
  <2>2. Open \/ torn' = torn
    BY DEF LogUnwritten, Destroy, Crash, jvars
  <2>3. Open => (torn => torn')
    BY DEF Open
  <2> QED
    BY <2>1, <2>2, <2>3
<1>3. buffer' = buffer \/ buffer' = <<>>
  BY DEF Open, LogUnwritten, Destroy, Crash, jvars
<1>4. Grown
  BY <1>1, <1>2, StartsAsItself, GrownIfKept
<1>5. JTypeOK'
  <2>1. buffer' \in Seq(Nat \X Nat) /\ file' \in Seq(Nat \X Nat) /\ logged' \in Seq(Record)
        /\ flushed' \in SUBSET Nat
    BY <1>1, <1>2, <1>3, EmptySeq DEF JTypeOK
  <2>2. JNext \/ UNCHANGED jvars
    BY DEF JNext
  <2> QED
    BY <1>1, <2>1, <2>2, TypedStep
<1>6. StartsAs(Tape', Tape)
  <2>1. CASE buffer' = buffer
    <3>1. Tape' = Tape
      BY <1>2, <2>1 DEF Tape
    <3> QED
      BY <1>1, <3>1, TapeIs, StartsAsItself
  <2>2. CASE buffer' = <<>>
    <3>1. Tape' = file
      BY <1>1, <1>2, <2>2, CrashIs
    <3> QED
      BY <1>1, <3>1, TapeIs
  <2> QED
    BY <1>3, <2>1, <2>2
<1>7. writer' # "open" => buffer' = <<>>
  BY <1>1 DEF Open, LogUnwritten, Destroy, Crash, jvars
<1>8. ASSUME ~torn' PROVE flushed' \subseteq Whole(file)'
  BY <1>1, <1>2, <1>4, <1>8, WholeGrows
<1>9. ASSUME ~torn', writer' # "none" PROVE EndsWhole(Tape')
  <2>1. CASE Open
    <3>1. writer = "none" /\ buffer = <<>> /\ buffer' = <<>> /\ ~EndsTorn
      BY <1>1, <1>9, <2>1 DEF Open
    <3>2. Tape = file /\ Tape' = file
      BY <1>1, <1>2, <3>1, CrashIs, ConcatEmptySeq DEF Tape
    <3>3. SUFFICES ASSUME file # <<>> PROVE file[Len(file)][2] = Length(file[Len(file)][1])
      BY <3>2 DEF EndsWhole
    <3>4. Len(file) \in 1 .. Len(file)
      BY <1>1, <3>3, EmptySeq
    <3>5. file[Len(file)][1] \in DOMAIN logged
          /\ file[Len(file)][2] \in 1 .. Length(file[Len(file)][1])
      BY <1>1, <3>2, <3>4 DEF Pieces
    <3>6. Length(file[Len(file)][1]) \in Nat
      BY <1>1, <3>5, LengthIs
    <3>7. ~(file[Len(file)][2] < Length(file[Len(file)][1]))
      BY <3>1, <3>3 DEF EndsTorn, Last
    <3> QED
      BY <3>5, <3>6, <3>7
  <2>2. CASE ~Open
    <3>1. Tape' = Tape /\ writer # "none" /\ ~torn
      BY <1>2, <1>9, <2>2 DEF LogUnwritten, Destroy, Crash, jvars, Tape
    <3> QED
      BY <1>1, <3>1
  <2> QED
    BY <2>1, <2>2
<1> QED
  BY <1>1, <1>2, <1>4, <1>5, <1>6, <1>7, <1>8, <1>9, KeepWritten

LEMMA SpillWritten ==
    ASSUME Written, NEW length \in 1 .. Len(buffer), Spill(length)
    PROVE  Written' /\ Grown
<1>1. /\ JTypeOK /\ torn \in BOOLEAN /\ file \in Seq(Nat \X Nat)
      /\ writer # "open" => buffer = <<>>
      /\ ~torn => /\ writer # "none" => EndsWhole(Tape)
                  /\ flushed \subseteq Whole(file)
  BY DEF Written, JTypeOK
<1>2. UNCHANGED <<writer, sequence, lives, logged, flushed, torn>>
  BY DEF Spill
<1>3. /\ file' \in Seq(Nat \X Nat) /\ buffer' \in Seq(Nat \X Nat)
      /\ Tape' = Tape /\ StartsAs(file, file')
  BY <1>1, SpillIs
<1>4. Grown
  BY <1>1, <1>2, <1>3, GrownIfKept
<1>5. JTypeOK'
  BY <1>1, <1>2, <1>3 DEF JTypeOK
<1>6. writer = "open"
  <2>1. buffer # <<>>
    BY EmptySeq
  <2> QED
    BY <1>1, <2>1
<1>7. ~torn => flushed' \subseteq Whole(file)'
  BY <1>1, <1>2, <1>3, <1>4, WholeGrows
<1>8. StartsAs(Tape', Tape)
  BY <1>1, <1>3, TapeIs, StartsAsItself
<1> QED
  BY <1>1, <1>2, <1>3, <1>4, <1>5, <1>6, <1>7, <1>8, KeepWritten

LEMMA WrittenStep ==
    ASSUME Written, JNext \/ UNCHANGED jvars
    PROVE  Written' /\ Grown
<1>1. CASE Open \/ LogUnwritten \/ Destroy \/ Crash \/ UNCHANGED jvars
  BY <1>1, KeptWritten
<1>2. CASE \E type \in EventTypes : Log(type)
  BY <1>2, LogWritten
<1>3. CASE \E length \in 1 .. Len(buffer) : Spill(length)
  BY <1>3, SpillWritten
<1>4. CASE Flush \/ Close
  <2>1. /\ writer = "open" /\ Empty /\ JNext /\ logged' = logged /\ torn' = torn
        /\ writer' \in {"open", "closed"}
    BY <1>4 DEF Flush, Close, JNext
  <2> QED
    BY <2>1, EmptyWritten
<1> QED
  BY <1>1, <1>2, <1>3, <1>4 DEF JNext

-----------------------------------------------------------------------------
(* Records on file *)

LEMMA FileIs ==
    ASSUME Written
    PROVE  /\ JTypeOK /\ file \in Seq(Nat \X Nat) /\ Len(file) \in Nat /\ DOMAIN file = 1 .. Len(file)
           /\ Pieces(file) /\ Ordered(file) /\ Headed(file)
           /\ ~torn => Unbroken(file)
           /\ \A i \in 1 .. Len(file) : file[i] \in Nat \X Nat /\ file[i][1] \in Nat /\ file[i][2] \in Nat
<1>1. JTypeOK /\ file \in Seq(Nat \X Nat)
  BY DEF Written, JTypeOK
<1>2. Tape \in Seq(Nat \X Nat) /\ StartsAs(file, Tape)
  BY <1>1, TapeIs
<1>3. Pieces(Tape) /\ Ordered(Tape) /\ Headed(Tape) /\ (~torn => Unbroken(Tape))
  BY DEF Written
<1>4. Pieces(file) /\ Ordered(file) /\ Headed(file) /\ (~torn => Unbroken(file))
  BY <1>1, <1>2, <1>3, BeginningIsCut
<1> QED
  BY <1>1, <1>4, CellsAre

\* The record behind a boundary, as far as it is on file, and those before it.
LEMMA RecordAt ==
    ASSUME Written, ~torn, NEW b, Boundary(b), b < Len(file), NEW k, k = file[b + 1][1]
    PROVE  /\ k \in DOMAIN logged /\ file[b + 1] = <<k, 1>>
           /\ \A j \in 1 .. Length(k) : b + j <= Len(file) => file[b + j] = <<k, j>>
           /\ \A i \in 1 .. b : file[i][1] < k
<1>1. /\ JTypeOK /\ Len(file) \in Nat /\ Pieces(file) /\ Ordered(file) /\ Headed(file) /\ Unbroken(file)
      /\ \A i \in 1 .. Len(file) : file[i] \in Nat \X Nat /\ file[i][1] \in Nat /\ file[i][2] \in Nat
  BY FileIs
<1> DEFINE c == b + 1
           m == Len(file)
<1>2. b \in Nat /\ m \in Nat /\ c = b + 1 /\ c \in 1 .. m /\ c > b /\ c - b = 1 /\ \A i \in 1 .. c : i \in 1 .. m /\ (i \in 1 .. b \/ i = c)
  BY <1>1 DEF Boundary
<1>3. b # 0 => b \in 1 .. m /\ file[b][2] = Length(file[b][1])
  BY <1>1 DEF Boundary
<1> HIDE DEF c, m
<1>4. file[c][1] = k /\ k \in Nat
  BY <1>1, <1>2 DEF c, m
<1>5. ASSUME b # 0 PROVE file[b][1] < k
  <2>1. file[b][1] \in DOMAIN logged /\ file[b][2] \in 1 .. Length(file[b][1])
    BY <1>1, <1>3, <1>5 DEF Pieces, m
  <2>2. file[c][2] \in 1 .. Length(file[c][1])
    BY <1>1, <1>2 DEF Pieces, m
  <2>3. \/ file[b][1] < file[c][1]
        \/ file[b][1] = file[c][1] /\ file[c][2] - file[b][2] = c - b
    BY <1>1, <1>2, <1>3, <1>5 DEF Ordered, m
  <2>4. Length(file[b][1]) \in Nat
    BY <1>1, <2>1, LengthIs
  <2>5. CASE file[b][1] = file[c][1] /\ file[c][2] - file[b][2] = c - b
    <3>1. file[c][2] = Length(file[b][1]) + 1 /\ file[c][2] <= Length(file[b][1])
      BY <1>1, <1>2, <1>3, <1>5, <2>2, <2>4, <2>5
    <3> QED
      BY <2>4, <3>1
  <2> QED
    BY <1>4, <2>3, <2>5
<1>6. ASSUME NEW i \in 1 .. b PROVE file[i][1] < k
  <2>1. b # 0 /\ i \in 1 .. m /\ b \in 1 .. m /\ i <= b
    BY <1>2, <1>3
  <2>2. CASE i = b
    BY <1>5, <2>1, <2>2
  <2>3. CASE i < b
    <3>1. file[i][1] < file[b][1] \/ file[i][1] = file[b][1]
      BY <1>1, <2>1, <2>3 DEF Ordered, m
    <3>2. file[i][1] \in Nat /\ file[b][1] \in Nat
      BY <1>1, <2>1 DEF m
    <3> QED
      BY <1>4, <1>5, <2>1, <3>1, <3>2
  <2> QED
    BY <1>2, <2>1, <2>2, <2>3
<1>7. file[c] = <<k, 1>>
  <2>1. PICK head \in 1 .. c : file[head] = <<file[c][1], 1>>
    BY <1>1, <1>2 DEF Headed, m
  <2>2. file[head][1] = k
    BY <1>4, <2>1
  <2>3. ~(head \in 1 .. b)
    <3>1. SUFFICES ASSUME head \in 1 .. b PROVE FALSE
      OBVIOUS
    <3>2. file[head][1] < k
      BY <1>6, <3>1
    <3> QED
      BY <1>4, <2>2, <3>2
  <2> QED
    BY <1>2, <1>4, <2>1, <2>3
<1>8. k \in DOMAIN logged
  BY <1>1, <1>2, <1>4 DEF Pieces, m
<1> DEFINE length == Length(k)
<1>9. length \in Nat
  BY <1>1, <1>8, LengthIs
<1> HIDE DEF length
<1>10. ASSUME NEW j \in 1 .. length, b + j <= m PROVE file[b + j] = <<k, j>>
  <2> DEFINE i == b + j
  <2>5. b \in Nat /\ m \in Nat /\ c = b + 1
    BY <1>2
  <2>1. i \in 1 .. m /\ c <= i /\ i - c < length /\ i - c + 1 = j
    BY ONLY <2>5, <1>9, <1>10, j \in 1 .. length DEF i
  <2> HIDE DEF i
  <2>2. file[c][1] = k /\ file[c][2] = 1
    BY <1>7
  <2>3. file[i] = <<k, i - c + 1>>
    BY <1>1, <1>2, <2>1, <2>2 DEF Unbroken, m, length
  <2>4. file[i] = <<k, j>>
    BY <2>1, <2>3
  <2> QED
    BY <2>4 DEF i
<1> QED
  BY <1>6, <1>7, <1>8, <1>10 DEF c, m, length

\* If it is all there, it ends at a boundary, and is the next to have begun.
LEMMA RecordPassed ==
    ASSUME Written, ~torn, NEW b, Boundary(b), b < Len(file), NEW k, k = file[b + 1][1],
           NEW e, e = b + Length(k), e <= Len(file), NEW s \in 0 .. b
    PROVE  /\ Boundary(e) /\ b < e
           /\ \A i \in b + 1 .. e : file[i][1] = k
           /\ Begun(s, e) = Begun(s, b) \cup {k}
           /\ k \in Whole(file)
<1>1. /\ k \in DOMAIN logged /\ file[b + 1] = <<k, 1>>
      /\ \A j \in 1 .. Length(k) : b + j <= Len(file) => file[b + j] = <<k, j>>
  BY RecordAt
<1>2. JTypeOK /\ Len(file) \in Nat /\ file \in Seq(Nat \X Nat) /\ b \in Nat
  BY FileIs DEF Boundary
<1> DEFINE length == Length(k)
<1>3. length \in Nat /\ length > 0
  BY <1>1, <1>2, LengthIs, JournalConstants
<1>4. \A j \in 1 .. length : b + j <= Len(file) => file[b + j] = <<k, j>>
  BY <1>1
<1>5. e = b + length
  OBVIOUS
<1> HIDE DEF length
<1>6. ASSUME NEW i \in b + 1 .. e PROVE file[i] = <<k, i - b>>
  <2> DEFINE j == i - b
  <2>1. j \in 1 .. length /\ b + j = i /\ b + j <= Len(file)
    <3>1. b \in Nat /\ Len(file) \in Nat /\ length \in Nat /\ e \in Nat
      BY <1>2, <1>3, <1>5
    <3> QED
      BY <1>5, <3>1
  <2> HIDE DEF j
  <2>2. file[b + j] = <<k, j>>
    BY <1>4, <2>1
  <2> QED
    BY <2>1, <2>2 DEF j
<1>7. e \in b + 1 .. e /\ e \in 1 .. Len(file) /\ e - b = length
  BY <1>2, <1>3, <1>5
<1>8. file[e] = <<k, length>>
  BY <1>6, <1>7
<1>9. Boundary(e)
  BY <1>7, <1>8 DEF Boundary, length
<1>10. k \in Whole(file)
  <2>1. \E i \in 1 .. Len(file) : file[i] = <<k, Length(k)>>
    BY <1>7, <1>8 DEF length
  <2> QED
    BY <1>1, <1>2, <2>1, WholeIs
<1>11. Begun(s, e) = Begun(s, b) \cup {k}
  <2>1. ASSUME NEW x \in Begun(s, e) PROVE x \in Begun(s, b) \cup {k}
    <3>1. PICK i \in s + 1 .. e : file[i][2] = 1 /\ x = file[i][1]
      BY <2>1 DEF Begun
    <3>2. CASE i \in b + 1 .. e
      BY <1>6, <3>1, <3>2
    <3>3. CASE i \in s + 1 .. b
      BY <3>1, <3>3 DEF Begun
    <3> QED
      BY <1>2, <1>7, <3>2, <3>3
  <2>2. ASSUME NEW x \in Begun(s, b) PROVE x \in Begun(s, e)
    <3>1. PICK i \in s + 1 .. b : file[i][2] = 1 /\ x = file[i][1]
      BY <2>2 DEF Begun
    <3>2. i \in s + 1 .. e
      BY <1>2, <1>7
    <3> QED
      BY <3>1, <3>2 DEF Begun
  <2>3. k \in Begun(s, e)
    <3> DEFINE c == b + 1
    <3>1. c \in s + 1 .. e /\ file[c] = <<k, 1>>
      BY <1>1, <1>2, <1>7
    <3> HIDE DEF c
    <3> QED
      BY <3>1 DEF Begun
  <2> QED
    BY <2>1, <2>2, <2>3
<1>12. \A i \in b + 1 .. e : file[i][1] = k
  BY <1>6
<1>13. b < e
  BY <1>2, <1>3, <1>5
<1> QED
  BY <1>9, <1>10, <1>11, <1>12, <1>13

\* A record that is whole has begun in front of any boundary the rest of the file
\* is too short to reach the next one from.
LEMMA WholeBefore ==
    ASSUME Written, ~torn, NEW b, Boundary(b),
           b < Len(file) => b + Length(file[b + 1][1]) > Len(file)
    PROVE  \A k \in Whole(file) : k \in Begun(0, b) /\ \E i \in 1 .. b : file[i][1] = k
<1>1. /\ JTypeOK /\ Len(file) \in Nat /\ file \in Seq(Nat \X Nat) /\ Headed(file) /\ b \in Nat
  BY FileIs DEF Boundary
<1> SUFFICES ASSUME NEW k \in Whole(file)
             PROVE  k \in Begun(0, b) /\ \E i \in 1 .. b : file[i][1] = k
  OBVIOUS
<1>2. PICK e \in 1 .. Len(file) : file[e] = <<k, Length(k)>>
  BY <1>1, WholeIs
<1>3. e <= b
  <2>1. SUFFICES ASSUME e > b PROVE FALSE
    BY <1>1
  <2> DEFINE q == file[b + 1][1]
             length == Length(q)
             j == e - b
  <2>2. b < Len(file)
    BY <1>1, <2>1
  <2>3. /\ q \in DOMAIN logged
        /\ \A i \in 1 .. Length(q) : b + i <= Len(file) => file[b + i] = <<q, i>>
    BY <2>2, RecordAt
  <2>4. length \in Nat /\ b + length > Len(file)
    BY <1>1, <2>2, <2>3, LengthIs
  <2> HIDE DEF q, length
  <2>5. j \in 1 .. length /\ b + j = e /\ j < length
    <3>1. b \in Nat /\ e \in Nat /\ e <= Len(file) /\ Len(file) \in Nat
      BY <1>1, <1>2
    <3> QED
      BY <2>1, <2>4, <3>1
  <2> HIDE DEF j
  <2>6. file[b + j] = <<q, j>>
    BY <1>2, <2>3, <2>5 DEF length
  <2>7. q = k /\ j = Length(k)
    BY <1>2, <2>5, <2>6
  <2> QED
    BY <2>4, <2>5, <2>7 DEF length
<1>4. PICK head \in 1 .. e : file[head] = <<file[e][1], 1>>
  BY <1>1, <1>2 DEF Headed
<1>5. head \in 0 + 1 .. b /\ head \in 1 .. b /\ file[head][1] = k /\ file[head][2] = 1
  BY <1>1, <1>2, <1>3, <1>4
<1> QED
  BY <1>5 DEF Begun

\* A whole record that begins behind a boundary is not logged before the one there.
LEMMA WholeBehind ==
    ASSUME Written, ~torn, NEW b, Boundary(b), b < Len(file), NEW k \in Whole(file), k \notin Begun(0, b)
    PROVE  file[b + 1][1] <= k
<1>1. /\ JTypeOK /\ Len(file) \in Nat /\ file \in Seq(Nat \X Nat) /\ Headed(file) /\ Ordered(file)
      /\ b \in Nat
      /\ \A i \in 1 .. Len(file) : file[i][1] \in Nat
  BY FileIs DEF Boundary
<1>2. PICK e \in 1 .. Len(file) : file[e] = <<k, Length(k)>>
  BY <1>1, WholeIs
<1>3. PICK head \in 1 .. e : file[head] = <<file[e][1], 1>>
  BY <1>1, <1>2 DEF Headed
<1> DEFINE c == b + 1
<1>4. head \in 1 .. Len(file) /\ c \in 1 .. Len(file) /\ file[head][1] = k /\ file[head][2] = 1
  BY <1>1, <1>2, <1>3
<1>5. head >= c
  <2>1. SUFFICES ASSUME head \in 0 + 1 .. b PROVE FALSE
    BY <1>1, <1>4
  <2> QED
    BY <1>4, <2>1 DEF Begun
<1> HIDE DEF c
<1>6. file[c][1] < file[head][1] \/ file[c][1] = file[head][1]
  <2>1. CASE c = head
    BY <2>1
  <2>2. CASE c < head
    BY <1>1, <1>4, <2>2 DEF Ordered
  <2>3. c \in Nat /\ head \in Nat
    BY <1>1, <1>4
  <2> QED
    BY <1>5, <2>1, <2>2, <2>3
<1>7. file[c][1] \in Nat /\ file[head][1] \in Nat
  BY <1>1, <1>4
<1>8. file[c][1] <= k
  BY <1>4, <1>6, <1>7
<1> QED
  BY <1>8 DEF c

-----------------------------------------------------------------------------
(* Readers while the journal is written *)

\* Grown, cell by cell.
LEMMA GrownIs ==
    ASSUME Written, Written', Grown
    PROVE  /\ JTypeOK /\ Len(file) \in Nat /\ Len(file') \in Nat /\ Len(file) <= Len(file')
           /\ file \in Seq(Nat \X Nat) /\ file' \in Seq(Nat \X Nat)
           /\ \A i \in 1 .. Len(file) : file'[i] = file[i] /\ file[i][1] \in DOMAIN logged
           /\ \A k \in DOMAIN logged : /\ k \in DOMAIN logged'
                                       /\ logged'[k] = logged[k] /\ Length(k)' = Length(k)
           /\ torn => torn'
<1>1. /\ JTypeOK /\ Len(file) \in Nat /\ file \in Seq(Nat \X Nat) /\ Pieces(file)
  BY FileIs
<1>2. file' \in Seq(Nat \X Nat) /\ Len(file') \in Nat
  <2>1. file' \in Seq(Nat \X Nat)
    BY DEF Written, JTypeOK
  <2> QED
    BY <2>1, CellsAre
<1> QED
  BY <1>1, <1>2 DEF Grown, StartsAs, Pieces

LEMMA BoundaryKept ==
    ASSUME Written, Written', Grown, NEW b, Boundary(b)
    PROVE  Boundary(b)'
<1>1. /\ Len(file) \in Nat /\ Len(file') \in Nat /\ Len(file) <= Len(file')
      /\ \A i \in 1 .. Len(file) : file'[i] = file[i] /\ file[i][1] \in DOMAIN logged
      /\ \A k \in DOMAIN logged : Length(k)' = Length(k)
  BY GrownIs
<1>2. b \in 0 .. Len(file) /\ b \in 0 .. Len(file')
  BY <1>1 DEF Boundary
<1>3. CASE b = 0
  BY <1>2, <1>3 DEF Boundary
<1>4. CASE b # 0
  <2>1. b \in 1 .. Len(file) /\ file[b][2] = Length(file[b][1])
    BY <1>1, <1>2, <1>4 DEF Boundary
  <2> PICK k : k = file[b][1]
    OBVIOUS
  <2>2. Length(k)' = Length(k) /\ file'[b] = file[b] /\ file[b][2] = Length(k)
    BY <1>1, <2>1
  <2>3. file'[b][2] = Length(k)' /\ file'[b][1] = k
    BY <2>2
  <2> QED
    BY <1>2, <2>3 DEF Boundary, Length
<1> QED
  BY <1>3, <1>4

LEMMA BegunKept ==
    ASSUME Written, Written', Grown, NEW s \in Nat, NEW e \in 0 .. Len(file)
    PROVE  Begun(s, e)' = Begun(s, e)
<1>1. \A i \in s + 1 .. e : file'[i] = file[i]
  <2>1. Len(file) \in Nat /\ \A i \in 1 .. Len(file) : file'[i] = file[i]
    BY GrownIs
  <2>2. s + 1 .. e \subseteq 1 .. Len(file)
    BY <2>1
  <2> QED
    BY <2>1, <2>2
<1> QED
  BY <1>1 DEF Begun

\* What a reader knows after a step, said of the file before it.
ReadNext(b) ==
    /\ start' \in Nat /\ start' <= Len(file)
    /\ good' => Boundary(b) /\ start' <= b
    /\ header' # NoHeader => /\ good' /\ header'.of # 0
                             /\ position' \in Nat /\ position' <= Len(file)
                             /\ b < Len(file) /\ file[b + 1] = <<header'.of, 1>>
    /\ \A i, j \in DOMAIN replayed' : i < j => replayed'[i] < replayed'[j]
    /\ \E end \in start' .. Len(file) : Range(replayed') = Begun(start', end)
    /\ good' /\ call' \notin {"seek", "verify"} => Range(replayed') = Begun(start', b)
    /\ call' \in {"seek", "verify"} => good' /\ start' = 0 /\ replayed' = <<>>
    /\ call' = "seek" => \A i \in 1 .. b : logged[file[i][1]].sequence < target'
    /\ call' = "verify" => /\ Begun(0, b) = 1 .. expected'.read
                           /\ expected'.read > 0 => expected'.checkable

LEMMA NextReads ==
    ASSUME Written, Written', Grown, ReadNext(Base')
    PROVE  Aligned' /\ Replayed' /\ Sought' /\ Verified'
<1> PICK b : b = Base'
  OBVIOUS
<1> PICK s : s = start'
  OBVIOUS
<1>1. /\ Len(file) \in Nat /\ Len(file') \in Nat /\ Len(file) <= Len(file')
      /\ \A i \in 1 .. Len(file) : file'[i] = file[i] /\ file[i][1] \in DOMAIN logged
      /\ \A k \in DOMAIN logged : logged'[k] = logged[k]
  BY GrownIs
<1>2. /\ s \in Nat /\ s <= Len(file)
      /\ good' => Boundary(b) /\ s <= b /\ b \in 0 .. Len(file)
  BY DEF ReadNext, Boundary
<1>3. Aligned'
  <2>1. good' => Boundary(b)'
    BY <1>2, BoundaryKept
  <2>2. ASSUME header' # NoHeader
        PROVE  /\ good' /\ header'.of # 0 /\ file'[b + 1] = <<header'.of, 1>>
               /\ position' <= Len(file')
    <3>1. /\ good' /\ header'.of # 0 /\ position' \in Nat /\ position' <= Len(file)
          /\ b < Len(file) /\ file[b + 1] = <<header'.of, 1>>
      BY <2>2 DEF ReadNext
    <3>2. b + 1 \in 1 .. Len(file)
      BY <1>1, <1>2, <3>1
    <3>3. file'[b + 1] = file[b + 1]
      BY <1>1, <3>2
    <3> QED
      BY <1>1, <3>1, <3>3
  <2>3. good' => Boundary(Base)'
    BY <2>1 DEF Boundary, Length
  <2>4. s <= Len(file')
    BY <1>1, <1>2
  <2> QED
    BY <1>2, <2>2, <2>3, <2>4 DEF Aligned, NoHeader
<1>4. Replayed'
  <2>1. \A i, j \in DOMAIN replayed' : i < j => replayed'[i] < replayed'[j]
    BY DEF ReadNext
  <2>2. \E end \in start' .. Len(file') : Range(replayed') = Begun(start, end)'
    <3>1. PICK end \in s .. Len(file) : Range(replayed') = Begun(s, end)
      BY DEF ReadNext
    <3>2. end \in 0 .. Len(file) /\ end \in s .. Len(file')
      BY <1>1, <1>2
    <3>3. Begun(s, end)' = Begun(s, end)
      BY <1>2, <3>2, BegunKept
    <3>4. Begun(start, end)' = Begun(s, end)'
      BY DEF Begun
    <3> QED
      BY <3>1, <3>2, <3>3, <3>4
  <2>3. ASSUME good', call' \notin {"seek", "verify"} PROVE Range(replayed') = Begun(start, Base)'
    <3>1. Range(replayed') = Begun(s, b)
      BY <2>3 DEF ReadNext
    <3>2. Begun(s, b)' = Begun(s, b)
      BY <1>2, <2>3, BegunKept
    <3>3. Begun(start, Base)' = Begun(s, b)'
      BY DEF Begun
    <3> QED
      BY <3>1, <3>2, <3>3
  <2>4. call' \in {"seek", "verify"} => good' /\ start' = 0 /\ replayed' = <<>>
    BY DEF ReadNext
  <2>5. Range(replayed)' = Range(replayed')
    BY DEF Range
  <2> QED
    BY <2>1, <2>2, <2>3, <2>4, <2>5 DEF Replayed
<1>5. Sought'
  <2> SUFFICES ASSUME call' = "seek", NEW i \in 1 .. b
               PROVE  logged'[file'[i][1]].sequence < target'
    BY DEF Sought
  <2>1. good' /\ logged[file[i][1]].sequence < target'
    BY DEF ReadNext
  <2>2. i \in 1 .. Len(file)
    BY <1>1, <1>2, <2>1
  <2>3. file'[i] = file[i] /\ logged'[file[i][1]] = logged[file[i][1]]
    BY <1>1, <2>2
  <2> QED
    BY <2>1, <2>3
<1>6. Verified'
  <2> SUFFICES ASSUME call' = "verify"
               PROVE  /\ Begun(0, Base)' = 1 .. expected'.read
                      /\ expected'.read > 0 => expected'.checkable
    BY DEF Verified
  <2>1. /\ good' /\ Begun(0, b) = 1 .. expected'.read
        /\ expected'.read > 0 => expected'.checkable
    BY DEF ReadNext
  <2>2. Begun(0, b)' = Begun(0, b)
    BY <1>2, <2>1, BegunKept
  <2>3. Begun(0, Base)' = Begun(0, b)'
    BY DEF Begun
  <2> QED
    BY <2>1, <2>2, <2>3
<1> QED
  BY <1>3, <1>4, <1>5, <1>6

\* A step of the journal takes nothing from a reader.
LEMMA ReadWhileWritten ==
    ASSUME Written, Written', Grown, Read, UNCHANGED rvars
    PROVE  Read'
<1>1. /\ position' = position /\ good' = good /\ call' = call /\ target' = target
      /\ header' = header /\ current' = current /\ replayed' = replayed /\ start' = start
      /\ expected' = expected /\ agrees' = agrees
  BY DEF rvars
<1>2. /\ JTypeOK /\ Len(file) \in Nat /\ file' \in Seq(Nat \X Nat)
      /\ \A k \in DOMAIN logged : k \in DOMAIN logged' /\ logged'[k] = logged[k]
      /\ torn => torn'
  BY GrownIs
<1>3. Whole(file) \subseteq Whole(file)'
  BY <1>2, WholeGrows
<1>4. RTypeOK'
  <2>1. RTypeOK /\ (HeaderRight => HeaderRight')
    BY <1>1, <1>2 DEF Read, HeaderRight
  <2> QED
    BY <1>1, <1>3, <2>1 DEF RTypeOK, NoHeader
<1>5. ASSUME ~torn' PROVE Aligned' /\ Replayed' /\ Sought' /\ Verified'
  <2>1. RTypeOK /\ Aligned /\ Replayed /\ Sought /\ Verified
    BY <1>2, <1>5 DEF Read
  <2>2. Base' = Base
    BY <1>1 DEF Base, NoHeader
  <2>3. header # NoHeader => position \in Nat /\ Base < Len(file)
    <3>1. header # NoHeader => /\ position \in Nat /\ position <= Len(file)
                               /\ Base = position - HeaderCells
      BY <2>1 DEF Aligned, RTypeOK, Base
    <3> QED
      BY <1>2, <3>1, JournalConstants
  <2>4. ReadNext(Base)
    BY <1>1, <2>1, <2>3 DEF ReadNext, Aligned, Replayed, Sought, Verified, RTypeOK
  <2>5. ReadNext(Base')
    BY <2>2, <2>4
  <2> QED
    BY <2>5, NextReads
<1> QED
  BY <1>4, <1>5 DEF Read

-----------------------------------------------------------------------------
(* What a reader reads *)

\* Cells ahead of the reader.
LEMMA AheadIs ==
    ASSUME JTypeOK, position \in Nat, NEW length \in Nat, position + length <= Len(file)
    PROVE  /\ Ahead(length) \in Seq(Nat \X Nat) /\ Len(Ahead(length)) = length
           /\ \A i \in 1 .. length : Ahead(length)[i] = file[position + i]
<1> DEFINE m == position + 1
           n == position + length
<1>1. file \in Seq(Nat \X Nat) /\ Len(file) \in Nat
      /\ \A i \in 1 .. Len(file) : file[i] \in Nat \X Nat
  BY CellsAre DEF JTypeOK
<1>2. m \in Int /\ n \in Int /\ n - m + 1 = length /\ (m <= n <=> length # 0)
      /\ \A i \in m .. n : i \in 1 .. Len(file)
  BY <1>1
<1>3. \A i \in m .. n : file[i] \in Nat \X Nat
  BY <1>1, <1>2
<1>4. Ahead(length) = SubSeq(file, m, n)
  BY DEF Ahead
<1>5. \A i \in 1 .. length : m + i - 1 = position + i
  OBVIOUS
<1> HIDE DEF m, n
<1>6. /\ SubSeq(file, m, n) \in Seq(Nat \X Nat)
      /\ Len(SubSeq(file, m, n)) = IF m <= n THEN n - m + 1 ELSE 0
      /\ \A i \in 1 .. n - m + 1 : SubSeq(file, m, n)[i] = file[m + i - 1]
  BY <1>2, <1>3, SubSeqProperties
<1>7. Len(Ahead(length)) = length
  BY <1>2, <1>4, <1>6
<1>8. \A i \in 1 .. length : Ahead(length)[i] = file[position + i]
  BY <1>2, <1>4, <1>5, <1>6
<1> QED
  BY <1>4, <1>6, <1>7, <1>8

\* Whatever the file is like, a header that is one is that of a logged record.
LEMMA HeaderIs ==
    ASSUME Written, RTypeOK, position + HeaderCells <= Len(file),
           NEW h \in HeadersAt(Ahead(HeaderCells))
    PROVE  /\ h.of \in Nat /\ h.size \in Nat /\ h.sequence \in Nat
           /\ h.of # 0 => /\ h.of \in DOMAIN logged /\ h.sequence = logged[h.of].sequence
                          /\ h.type = logged[h.of].type /\ h.size = PayloadCells[h.type]
<1> DEFINE c == Ahead(HeaderCells)
           k == c[1][1]
<1>1. JTypeOK /\ Pieces(file) /\ position \in Nat /\ HeaderCells \in Nat \ {0} /\ Len(file) \in Nat
  BY FileIs, JournalConstants DEF RTypeOK
<1>2. c[1] = file[position + 1]
  <2>1. 1 \in 1 .. HeaderCells
    BY <1>1
  <2> QED
    BY <1>1, <2>1, AheadIs
<1>3. k \in DOMAIN logged
  <2>1. position + 1 \in 1 .. Len(file)
    BY <1>1
  <2>2. file[position + 1][1] \in DOMAIN logged
    BY <1>1, <2>1 DEF Pieces
  <2> QED
    BY <1>2, <2>2
<1>4. k \in Nat \ {0} /\ logged[k] \in Record /\ PayloadCells[logged[k].type] \in Nat
  BY <1>1, <1>3, LengthIs
<1>5. \/ h = [of |-> k, sequence |-> logged[k].sequence, type |-> logged[k].type,
              size |-> PayloadCells[logged[k].type]]
      \/ h \in StrayHeaders
  BY DEF HeadersAt
<1> HIDE DEF c, k
<1>6. CASE h \in StrayHeaders
  BY <1>6, ReaderConstants
<1>7. CASE h = [of |-> k, sequence |-> logged[k].sequence, type |-> logged[k].type,
                size |-> PayloadCells[logged[k].type]]
  BY <1>3, <1>4, <1>7 DEF Record
<1> QED
  BY <1>5, <1>6, <1>7

\* At a boundary there is no other.
LEMMA HeaderAtBoundary ==
    ASSUME Written, RTypeOK, ~torn, Boundary(position), position + HeaderCells <= Len(file),
           NEW h \in HeadersAt(Ahead(HeaderCells))
    PROVE  h.of # 0 /\ file[position + 1] = <<h.of, 1>>
<1> DEFINE c == Ahead(HeaderCells)
           k == c[1][1]
           q == file[position + 1][1]
<1>1. JTypeOK /\ position \in Nat /\ HeaderCells \in Nat \ {0} /\ Len(file) \in Nat
  BY FileIs, JournalConstants DEF RTypeOK
<1>2. c \in Seq(Nat \X Nat) /\ Len(c) = HeaderCells
      /\ \A i \in 1 .. HeaderCells : c[i] = file[position + i]
  BY <1>1, AheadIs
<1>3. position < Len(file)
  BY <1>1
<1>4. /\ q \in DOMAIN logged /\ file[position + 1] = <<q, 1>>
      /\ \A j \in 1 .. Length(q) : position + j <= Len(file) => file[position + j] = <<q, j>>
  BY <1>3, RecordAt
<1>5. q \in Nat \ {0} /\ Length(q) \in Nat /\ Length(q) > HeaderCells
  BY <1>1, <1>4, LengthIs
<1>6. k = q
  <2>1. 1 \in 1 .. HeaderCells
    BY <1>1
  <2> QED
    BY <1>2, <2>1
<1>7. \A i \in 1 .. HeaderCells : c[i] = <<q, i>>
  <2> SUFFICES ASSUME NEW i \in 1 .. HeaderCells PROVE c[i] = <<q, i>>
    OBVIOUS
  <2> HIDE DEF c, q
  <2> DEFINE length == Length(q)
  <2>0. length \in Nat /\ length > HeaderCells
    BY <1>5
  <2>1. i \in 1 .. length /\ position + i <= Len(file)
    <3> HIDE DEF length
    <3> QED
      BY <1>1, <2>0
  <2>2. file[position + i] = <<q, i>>
    BY <1>4, <2>1
  <2> QED
    BY <1>2, <2>2
<1>8. c = Cells(k, HeaderCells)
  <2> HIDE DEF c, k, q
  <2>1. DOMAIN c = 1 .. HeaderCells /\ c = [i \in DOMAIN c |-> c[i]]
    BY <1>2, LenProperties
  <2>2. c = [i \in 1 .. HeaderCells |-> <<k, i>>]
    BY <1>6, <1>7, <2>1
  <2> QED
    BY <2>2 DEF Cells
<1>9. h = [of |-> k, sequence |-> logged[k].sequence, type |-> logged[k].type,
           size |-> PayloadCells[logged[k].type]]
  BY <1>8 DEF HeadersAt
<1> HIDE DEF c, k, q
<1>10. h.of = q
  BY <1>6, <1>9
<1> QED
  BY <1>4, <1>5, <1>10

\* Where a reader that has read a header is.
LEMMA AtRecord ==
    ASSUME Written, Read, ~torn, header # NoHeader, NEW b, b = Base, NEW k, k = header.of
    PROVE  /\ good /\ b \in Nat /\ start <= b /\ position = b + HeaderCells
           /\ Boundary(b) /\ b < Len(file) /\ file[b + 1] = <<k, 1>>
           /\ k \in DOMAIN logged /\ k # 0 /\ header.sequence = logged[k].sequence
           /\ header.type \in EventTypes /\ header.size = PayloadCells[header.type]
           /\ Length(k) = HeaderCells + header.size
           /\ position + header.size = b + Length(k)
           /\ \A j \in 1 .. Length(k) : b + j <= Len(file) => file[b + j] = <<k, j>>
<1>1. /\ JTypeOK /\ HeaderCells \in Nat \ {0} /\ Len(file) \in Nat
      /\ position \in Nat /\ position >= HeaderCells /\ position <= Len(file)
      /\ header.size \in Nat
  BY FileIs, JournalConstants DEF Read, RTypeOK, Aligned
<1>2. /\ good /\ Boundary(b) /\ start <= b /\ k # 0 /\ file[b + 1] = <<k, 1>> /\ HeaderRight
  BY DEF Read, RTypeOK, Aligned
<1>3. b = position - HeaderCells
  BY DEF Base
<1>4. b \in Nat /\ position = b + HeaderCells /\ b < Len(file)
  BY <1>1, <1>3
<1>5. k = file[b + 1][1]
  BY <1>2
<1>6. \A j \in 1 .. Length(k) : b + j <= Len(file) => file[b + j] = <<k, j>>
  BY <1>2, <1>4, <1>5, RecordAt
<1>7. /\ k \in DOMAIN logged /\ header.sequence = logged[k].sequence
      /\ header.type = logged[k].type /\ header.size = PayloadCells[header.type]
  BY <1>2 DEF HeaderRight
<1>8. header.type \in EventTypes /\ Length(k) = HeaderCells + header.size
  <2>1. logged[k] \in Record /\ Length(k) = HeaderCells + PayloadCells[logged[k].type]
    BY <1>1, <1>7, LengthIs
  <2> QED
    BY <1>7, <2>1 DEF Record
<1>9. position + header.size = b + Length(k)
  BY <1>1, <1>4, <1>8
<1> QED
  BY <1>2, <1>4, <1>6, <1>7, <1>8, <1>9

\* The payload of a record that is all there is its own.
LEMMA GenuineThere ==
    ASSUME Written, Read, ~torn, header # NoHeader, position + header.size <= Len(file)
    PROVE  Genuine
<1> PICK b : b = Base
  OBVIOUS
<1> PICK k : k = header.of
  OBVIOUS
<1>1. /\ b \in Nat /\ position = b + HeaderCells /\ k # 0
      /\ Length(k) = HeaderCells + header.size
      /\ \A j \in 1 .. Length(k) : b + j <= Len(file) => file[b + j] = <<k, j>>
  BY AtRecord
<1>2. JTypeOK /\ HeaderCells \in Nat \ {0} /\ header.size \in Nat /\ position \in Nat /\ Len(file) \in Nat
  BY FileIs, JournalConstants DEF Read, RTypeOK
<1>3. \A i \in 1 .. header.size : Ahead(header.size)[i] = file[position + i]
  BY <1>2, AheadIs
<1>4. ASSUME NEW i \in 1 .. header.size PROVE Ahead(header.size)[i] = <<k, HeaderCells + i>>
  <2> DEFINE j == HeaderCells + i
             size == header.size
             length == Length(k)
  <2>1. length = HeaderCells + size /\ size \in Nat /\ i \in 1 .. size /\ position + size <= Len(file)
    BY <1>1, <1>2
  <2> HIDE DEF size, length
  <2>2. j \in 1 .. length /\ b + j <= Len(file) /\ b + j = position + i
    BY <1>1, <1>2, <2>1
  <2> HIDE DEF j
  <2>3. file[b + j] = <<k, j>>
    BY <1>1, <2>2 DEF length
  <2>4. file[position + i] = <<k, j>>
    BY <2>2, <2>3
  <2> QED
    BY <1>3, <2>4 DEF j
<1> QED
  BY <1>1, <1>4 DEF Genuine

\* A record whose header and whose own payload were read is whole.
LEMMA GenuineWhole ==
    ASSUME Written, RTypeOK, header # NoHeader, position + header.size <= Len(file), Genuine
    PROVE  header.of \in Whole(file)
<1> DEFINE k == header.of
           size == header.size
<1>1. /\ k # 0 /\ HeaderRight /\ position \in Nat /\ size \in Nat /\ position + size <= Len(file)
      /\ \A i \in 1 .. size : Ahead(size)[i] = <<k, HeaderCells + i>>
  BY DEF Genuine, RTypeOK
<1>2. JTypeOK /\ Len(file) \in Nat /\ file \in Seq(Nat \X Nat)
  BY FileIs
<1>3. k \in DOMAIN logged /\ size = PayloadCells[logged[k].type]
  BY <1>1 DEF HeaderRight
<1>4. size > 0 /\ Length(k) = HeaderCells + size
  <2>1. PayloadCells[logged[k].type] \in Nat \ {0} /\ Length(k) = HeaderCells + PayloadCells[logged[k].type]
    BY <1>2, <1>3, LengthIs
  <2> QED
    BY <1>3, <2>1
<1> HIDE DEF k, size
<1>5. \A i \in 1 .. size : Ahead(size)[i] = file[position + i]
  BY <1>1, <1>2, AheadIs
<1>6. size \in 1 .. size /\ position + size \in 1 .. Len(file)
  BY <1>1, <1>2, <1>4
<1>7. file[position + size] = <<k, Length(k)>>
  BY <1>1, <1>4, <1>5, <1>6
<1>8. k \in Whole(file)
  BY <1>2, <1>3, <1>6, <1>7, WholeIs
<1> QED
  BY <1>8 DEF k

-----------------------------------------------------------------------------
(* The steps of a reader *)

\* The journal is where it was.
LEMMA JournalKept ==
    ASSUME Written, UNCHANGED jvars
    PROVE  /\ Written' /\ Grown /\ file' = file /\ logged' = logged /\ torn' = torn
           /\ flushed' = flushed
           /\ Whole(file)' = Whole(file) /\ Len(file) \in Nat /\ HeaderCells \in Nat \ {0}
<1>1. file' = file /\ logged' = logged /\ torn' = torn /\ flushed' = flushed
  BY DEF jvars
<1>2. Written' /\ Grown
  BY WrittenStep
<1>3. Whole(file)' = Whole(file)
  BY <1>1 DEF Whole, Length
<1> QED
  BY <1>1, <1>2, <1>3, FileIs, JournalConstants

LEMMA ReaderStep ==
    ASSUME Written, UNCHANGED jvars, RTypeOK', ~torn => ReadNext(Base')
    PROVE  Read'
<1>1. Written' /\ Grown /\ torn' = torn
  BY JournalKept
<1>2. ~torn' => Aligned' /\ Replayed' /\ Sought' /\ Verified'
  BY <1>1, NextReads
<1> QED
  BY <1>2 DEF Read

\* Nothing has been read since the start.
LEMMA NothingBegun == \A s \in Nat : Begun(s, s) = {} /\ Range(<<>>) = {}
BY DEF Begun, Range

LEMMA BoundaryFirst ==
    ASSUME Written
    PROVE  Boundary(0)
BY FileIs DEF Boundary

\* The reader is at the first record.
LEMMA FirstReads ==
    ASSUME Written, good' = TRUE, replayed' = <<>>, start' = 0, header' = NoHeader,
           call' = "verify" => expected'.read = 0
    PROVE  ReadNext(0)
<1>1. Boundary(0) /\ Begun(0, 0) = {} /\ Range(<<>>) = {} /\ Len(file) \in Nat /\ 0 \in Nat
  BY BoundaryFirst, NothingBegun, FileIs
<1>2. \A i, j \in DOMAIN <<>> : i < j => <<>>[i] < <<>>[j]
  OBVIOUS
<1>3. 0 \in 0 .. Len(file) /\ 0 <= Len(file) /\ 0 <= 0
  BY <1>1
<1>4. \E end \in 0 .. Len(file) : Range(<<>>) = Begun(0, end)
  BY <1>1, <1>3
<1>5. (\A i \in 1 .. 0 : logged[file[i][1]].sequence < target') /\ 1 .. 0 = {} /\ ~(0 > 0)
  OBVIOUS
<1> QED
  BY <1>1, <1>2, <1>3, <1>4, <1>5 DEF ReadNext

LEMMA LoadReads ==
    ASSUME Written, Read, Load
    PROVE  Read'
<1>1. /\ UNCHANGED jvars /\ UNCHANGED <<call, target, header, expected>>
      /\ position' = 0 /\ good' = TRUE /\ replayed' = <<>> /\ start' = 0 /\ call = "none"
  BY DEF Load
<1>2. /\ logged' = logged /\ Whole(file)' = Whole(file) /\ Len(file) \in Nat
  BY <1>1, JournalKept
<1>3. header = NoHeader
  BY <1>1 DEF Read, RTypeOK
<1>4. RTypeOK'
  BY <1>1, <1>2, <1>3, EmptySeq DEF Read, RTypeOK, HeaderRight, NoHeader
<1>5. Base' = 0
  BY <1>1, <1>3 DEF Base, NoHeader
<1>6. ReadNext(0)
  BY <1>1, <1>3, FirstReads
<1> QED
  BY <1>1, <1>4, <1>5, <1>6, ReaderStep

LEMMA BeginReads ==
    ASSUME Written, Read, NEW kind \in {"step", "all", "until", "seek"}, NEW sought \in Nat,
           Begin(kind, sought)
    PROVE  Read'
<1>1. /\ UNCHANGED jvars /\ UNCHANGED <<header, expected>>
      /\ call' = kind /\ target' = sought /\ call = "none"
      /\ kind = "seek" => position' = 0 /\ good' = TRUE /\ replayed' = <<>> /\ start' = 0
      /\ kind # "seek" => UNCHANGED <<position, good, replayed, start>>
  BY DEF Begin
<1>2. /\ logged' = logged /\ Whole(file)' = Whole(file) /\ Len(file) \in Nat
  BY <1>1, JournalKept
<1>3. header = NoHeader /\ Base' = position'
  BY <1>1 DEF Read, RTypeOK, Base, NoHeader
<1>4. RTypeOK'
  BY <1>1, <1>2, <1>3, EmptySeq DEF Read, RTypeOK, HeaderRight, NoHeader
<1>5. ASSUME ~torn PROVE ReadNext(Base')
  <2>1. CASE kind = "seek"
    <3>1. ReadNext(0) /\ Base' = 0
      BY <1>1, <1>3, <2>1, FirstReads
    <3> QED
      BY <3>1
  <2>2. CASE kind # "seek"
    <3>1. /\ RTypeOK /\ Aligned /\ Replayed /\ Base = position /\ position' = position
      BY <1>1, <1>3, <1>5, <2>2 DEF Read, Base
    <3>2. ReadNext(position)
      BY <1>1, <1>3, <2>2, <3>1 DEF ReadNext, Aligned, Replayed, RTypeOK
    <3> QED
      BY <1>3, <3>1, <3>2
  <2> QED
    BY <2>1, <2>2
<1> QED
  BY <1>1, <1>4, <1>5, ReaderStep

LEMMA BeginVerifyReads ==
    ASSUME Written, Read, NEW length \in 0 .. Len(logged), NEW checkable \in BOOLEAN,
           NEW differs \in {0, length}, BeginVerify(length, differs, checkable)
    PROVE  Read'
<1>1. /\ UNCHANGED jvars /\ UNCHANGED <<target, header>>
      /\ call' = "verify" /\ call = "none"
      /\ expected'.length = length /\ expected'.differs = differs /\ expected'.read = 0
      /\ position' = 0 /\ good' = TRUE /\ replayed' = <<>> /\ start' = 0
  BY DEF BeginVerify
<1>2. /\ logged' = logged /\ Whole(file)' = Whole(file) /\ Len(file) \in Nat
  BY <1>1, JournalKept
<1>3. header = NoHeader /\ Base' = 0
  BY <1>1 DEF Read, RTypeOK, Base, NoHeader
<1>4. length \in Nat /\ 1 .. 0 = {}
  OBVIOUS
<1>7. expected' \in Comparison
  <2>1. expected' = [length |-> length, differs |-> differs, checkable |-> checkable, read |-> 0]
    BY DEF BeginVerify
  <2>2. differs \in Nat
    BY <1>4
  <2> QED
    BY <1>4, <2>1, <2>2 DEF Comparison
<1>5. RTypeOK'
  BY <1>1, <1>2, <1>3, <1>4, <1>7, EmptySeq DEF Read, RTypeOK, HeaderRight, NoHeader
<1>6. ReadNext(0)
  BY <1>1, <1>3, FirstReads
<1> QED
  BY <1>1, <1>3, <1>5, <1>6, ReaderStep

\* The call fails.
LEMMA FailReads ==
    ASSUME Written, Read, UNCHANGED jvars, UNCHANGED <<position, target, replayed, start>>,
           Fail, good' = FALSE
    PROVE  Read'
<1>1. call' = "none" /\ header' = NoHeader /\ (expected' = expected \/ expected' = NoJournal)
  BY DEF Fail, Conclude
<1>2. /\ logged' = logged /\ Whole(file)' = Whole(file) /\ Len(file) \in Nat
  BY JournalKept
<1>3. expected'.length \in Nat /\ expected'.read \in Nat /\ expected'.differs \in {0, expected'.length}
  BY <1>1 DEF Read, RTypeOK, NoJournal
<1>6. expected' \in Comparison
  <2>1. NoJournal \in Comparison
    BY DEF NoJournal, Comparison
  <2> QED
    BY <1>1, <2>1 DEF Read, RTypeOK
<1>4. RTypeOK'
  BY <1>1, <1>2, <1>3, <1>6 DEF Read, RTypeOK, NoHeader
<1>5. ASSUME ~torn PROVE ReadNext(Base')
  BY <1>1, <1>5 DEF Read, RTypeOK, Aligned, Replayed, ReadNext
<1> QED
  BY <1>4, <1>5, ReaderStep

\* A header is read, if there is one.
LEMMA ReadHeaderReads ==
    ASSUME Written, Read, ReadHeader
    PROVE  Read'
<1>1. /\ UNCHANGED jvars /\ UNCHANGED <<target, current, replayed, start>>
      /\ call # "none" /\ header = NoHeader
  BY DEF ReadHeader
<1>2. CASE ~good /\ Fail /\ UNCHANGED <<position, good>>
  <2>1. good' = FALSE /\ Fail /\ position' = position
    BY <1>2 DEF Read, RTypeOK
  <2> QED
    BY <1>1, <2>1, FailReads
<1>3. CASE good /\ position + HeaderCells > Len(file) /\ Fail /\ good' = FALSE /\ UNCHANGED position
  BY <1>1, <1>3, FailReads
<1>4. CASE /\ good /\ position + HeaderCells <= Len(file)
           /\ header' \in HeadersAt(Ahead(HeaderCells))
           /\ position' = position + HeaderCells
           /\ UNCHANGED <<good, call, expected, agrees>>
  <2> PICK h : h = header'
    OBVIOUS
  <2>1. h \in HeadersAt(Ahead(HeaderCells)) /\ position + HeaderCells <= Len(file) /\ good
        /\ position' = position + HeaderCells
        /\ good' = good /\ call' = call /\ expected' = expected
    BY <1>4
  <2>2. /\ logged' = logged /\ Whole(file)' = Whole(file) /\ Len(file) \in Nat
        /\ HeaderCells \in Nat \ {0}
    BY <1>1, JournalKept
  <2>3. RTypeOK /\ position \in Nat
    BY DEF Read, RTypeOK
  <2>4. /\ h.of \in Nat /\ h.size \in Nat /\ h.sequence \in Nat
        /\ h.of # 0 => /\ h.of \in DOMAIN logged /\ h.sequence = logged[h.of].sequence
                       /\ h.type = logged[h.of].type /\ h.size = PayloadCells[h.type]
    BY <2>1, <2>3, HeaderIs
  <2>5. position' \in Nat /\ position' >= HeaderCells
    BY <2>1, <2>2, <2>3
  <2>6. h.of # 0 => HeaderRight'
    BY <2>2, <2>4 DEF HeaderRight
  <2>7. RTypeOK'
    BY <1>1, <2>1, <2>2, <2>3, <2>4, <2>5, <2>6 DEF RTypeOK
  <2>8. ASSUME ~torn PROVE ReadNext(Base')
    <3>1. Aligned /\ Replayed /\ Sought /\ Verified /\ Base = position
      BY <1>1, <2>8 DEF Read, Base
    <3>2. Boundary(position) /\ start <= position
      BY <2>1, <3>1 DEF Aligned
    <3>3. h.of # 0 /\ file[position + 1] = <<h.of, 1>>
      BY <2>1, <2>3, <2>8, <3>2, HeaderAtBoundary
    <3>4. Base' = position
      <4>1. h # NoHeader
        BY <3>3 DEF NoHeader
      <4>2. position' - HeaderCells = position
        BY <2>1, <2>2, <2>3
      <4> QED
        BY <4>1, <4>2 DEF Base, NoHeader
    <3>5. position < Len(file) /\ position' <= Len(file)
      BY <2>1, <2>2, <2>3
    <3>6. ReadNext(position)
      BY <1>1, <2>1, <2>3, <2>5, <3>1, <3>2, <3>3, <3>5
      DEF ReadNext, Aligned, Replayed, Sought, Verified, RTypeOK
    <3> QED
      BY <3>4, <3>6
  <2> QED
    BY <1>1, <2>7, <2>8, ReaderStep
<1> QED
  BY <1>2, <1>3, <1>4 DEF ReadHeader

LEMMA PayloadMissingReads ==
    ASSUME Written, Read, PayloadMissing
    PROVE  Read'
BY FailReads DEF PayloadMissing

\* Where the reader is behind a record that is all there.
LEMMA PastRecord ==
    ASSUME Written, Read, ~torn, header # NoHeader, NEW b, b = Base, NEW k, k = header.of,
           NEW e, e = position + header.size, e <= Len(file), NEW s \in 0 .. b
    PROVE  /\ Boundary(e) /\ b < e /\ e \in Nat /\ b \in Nat
           /\ \A i \in b + 1 .. e : file[i][1] = k
           /\ Begun(s, e) = Begun(s, b) \cup {k}
           /\ \A i \in 1 .. b : file[i][1] < k
           /\ k \in Whole(file) /\ k \in Nat
<1>1. /\ b \in Nat /\ Boundary(b) /\ b < Len(file) /\ k = file[b + 1][1] /\ k \in DOMAIN logged
      /\ e = b + Length(k)
  <2>1. /\ b \in Nat /\ Boundary(b) /\ b < Len(file) /\ file[b + 1] = <<k, 1>> /\ k \in DOMAIN logged
        /\ position + header.size = b + Length(k)
    BY AtRecord
  <2> QED
    BY <2>1
<1>2. /\ Boundary(e) /\ b < e
      /\ \A i \in b + 1 .. e : file[i][1] = k
      /\ Begun(s, e) = Begun(s, b) \cup {k}
      /\ k \in Whole(file)
  <2>1. Boundary(b) /\ b < Len(file) /\ k = file[b + 1][1] /\ e = b + Length(k) /\ e <= Len(file)
    BY <1>1
  <2> QED
    BY ONLY Written, ~torn, s \in 0 .. b, <2>1, RecordPassed
<1>3. \A i \in 1 .. b : file[i][1] < k
  BY <1>1, RecordAt
<1>4. k \in Nat
  BY <1>1, FileIs, LengthIs
<1>5. e \in Nat
  BY <1>2, FileIs DEF Boundary
<1> QED
  BY <1>1, <1>2, <1>3, <1>4, <1>5

\* One more record is delivered.
LEMMA AppendedIs ==
    ASSUME NEW r \in Seq(Nat), NEW k \in Nat, NEW b \in Nat,
           \A i, j \in DOMAIN r : i < j => r[i] < r[j], \A x \in Range(r) : x < k
    PROVE  /\ \A i, j \in DOMAIN Append(r, k) : i < j => Append(r, k)[i] < Append(r, k)[j]
           /\ Range(Append(r, k)) = Range(r) \cup {k}
           /\ Append(r, k) \in Seq(Nat)
<1> PICK q : q = Append(r, k)
  OBVIOUS
<1>1. /\ q \in Seq(Nat) /\ Len(q) = Len(r) + 1 /\ Len(r) \in Nat
      /\ \A i \in 1 .. Len(r) : q[i] = r[i]
      /\ q[Len(r) + 1] = k
  BY AppendProperties, LenProperties
<1>2. DOMAIN r = 1 .. Len(r) /\ DOMAIN q = 1 .. Len(r) + 1
  BY <1>1, LenProperties
<1>3. ASSUME NEW i \in DOMAIN q, NEW j \in DOMAIN q, i < j PROVE q[i] < q[j]
  <2>1. i \in DOMAIN r /\ q[i] = r[i]
    BY <1>1, <1>2, <1>3
  <2>2. CASE j \in DOMAIN r
    BY <1>1, <1>2, <1>3, <2>1, <2>2
  <2>3. CASE j = Len(r) + 1
    <3>1. r[i] \in Range(r)
      BY <2>1 DEF Range
    <3> QED
      BY <1>1, <2>1, <2>3, <3>1
  <2> QED
    BY <1>1, <1>2, <2>2, <2>3
<1>4. Range(q) = Range(r) \cup {k}
  <2>1. ASSUME NEW x \in Range(q) PROVE x \in Range(r) \cup {k}
    <3>1. PICK i \in DOMAIN q : x = q[i]
      BY <2>1 DEF Range
    <3>2. CASE i \in DOMAIN r
      BY <1>1, <1>2, <3>1, <3>2 DEF Range
    <3>3. CASE i = Len(r) + 1
      BY <1>1, <3>1, <3>3
    <3> QED
      BY <1>1, <1>2, <3>2, <3>3
  <2>2. ASSUME NEW x \in Range(r) PROVE x \in Range(q)
    <3>1. PICK i \in DOMAIN r : x = r[i]
      BY <2>2 DEF Range
    <3>2. i \in DOMAIN q /\ q[i] = x
      BY <1>1, <1>2, <3>1
    <3> QED
      BY <3>2 DEF Range
  <2>3. k \in Range(q)
    <3>1. Len(r) + 1 \in DOMAIN q
      BY <1>1, <1>2
    <3> QED
      BY <1>1, <3>1 DEF Range
  <2> QED
    BY <2>1, <2>2, <2>3
<1> QED
  BY <1>1, <1>3, <1>4

\* step() delivers the record the reader is at.
LEMMA ReadPayloadReads ==
    ASSUME Written, Read, ReadPayload
    PROVE  Read'
<1>1. /\ UNCHANGED jvars /\ UNCHANGED <<good, target, start, expected, agrees>>
      /\ header # NoHeader /\ call \notin {"seek", "verify"}
      /\ position + header.size <= Len(file) /\ position' = position + header.size
      /\ replayed' = Delivered /\ header' = NoHeader /\ call' \in {call, "none"}
  BY DEF ReadPayload
<1>2. /\ logged' = logged /\ Whole(file)' = Whole(file) /\ Len(file) \in Nat
  BY <1>1, JournalKept
<1>3. /\ RTypeOK /\ position \in Nat /\ header.size \in Nat /\ header.of \in Nat /\ replayed \in Seq(Nat)
      /\ start \in Nat
  BY DEF Read, RTypeOK
<1>4. RTypeOK'
  <2>1. Delivered \in Seq(Nat)
    <3>1. (IF Genuine THEN header.of ELSE 0) \in Nat
      BY <1>3
    <3>2. Append(replayed, IF Genuine THEN header.of ELSE 0) \in Seq(Nat)
      BY <1>3, <3>1, AppendProperties
    <3> QED
      BY <1>3, <3>2 DEF Delivered
  <2>2. NoHeader.of = 0 /\ NoHeader.size = 0 /\ NoHeader.sequence = 0
    BY DEF NoHeader
  <2>3. position' \in Nat /\ call' # "verify"
        /\ call' \in {"none", "step", "all", "until", "seek", "verify"}
    BY <1>1, <1>3 DEF RTypeOK
  <2>4. (header # NoHeader => call # "none" /\ position >= HeaderCells)'
    BY <1>1 DEF NoHeader
  <2> QED
    BY <1>1, <1>2, <1>3, <2>1, <2>2, <2>3, <2>4 DEF RTypeOK
<1>5. ASSUME ~torn PROVE ReadNext(Base')
  <2> PICK b : b = Base
    OBVIOUS
  <2> PICK k : k = header.of
    OBVIOUS
  <2> PICK e : e = position + header.size
    OBVIOUS
  <2> PICK s : s = start
    OBVIOUS
  <2>1. /\ b \in Nat /\ good /\ s <= b /\ header.type \in EventTypes
        /\ header.size = PayloadCells[header.type]
    BY <1>1, <1>5, AtRecord
  <2>2. s \in 0 .. b
    BY <1>3, <2>1
  <2>3. /\ Boundary(e) /\ b < e /\ e \in Nat /\ k \in Nat
        /\ Begun(s, e) = Begun(s, b) \cup {k}
        /\ \A i \in 1 .. b : file[i][1] < k
    BY <1>1, <1>5, <2>2, PastRecord
  <2>4. replayed' = Append(replayed, k)
    <3>1. Genuine
      BY <1>1, <1>5, GenuineThere
    <3>2. header.size >= PayloadCells[header.type]
      BY <1>3, <2>1
    <3> QED
      BY <1>1, <2>1, <3>1, <3>2 DEF Delivered
  <2>5. /\ Range(replayed) = Begun(s, b)
        /\ \A i, j \in DOMAIN replayed : i < j => replayed[i] < replayed[j]
    BY <1>1, <1>5, <2>1 DEF Read, Replayed
  <2>6. \A x \in Range(replayed) : x < k
    <3>1. s + 1 .. b \subseteq 1 .. b
      BY <2>2
    <3> QED
      BY <2>3, <2>5, <3>1 DEF Begun
  <2>7. /\ \A i, j \in DOMAIN replayed' : i < j => replayed'[i] < replayed'[j]
        /\ Range(replayed') = Begun(s, e)
    BY <1>3, <2>1, <2>3, <2>4, <2>5, <2>6, AppendedIs
  <2>8. e \in s .. Len(file) /\ s <= e /\ s <= Len(file)
    <3>1. e <= Len(file)
      BY <1>1
    <3>2. s \in Nat
      BY <1>3
    <3> QED
      BY ONLY <3>1, <3>2, <1>2, <2>1, <2>3
  <2>9. Base' = e
    BY <1>1 DEF Base, NoHeader
  <2>10. call' \notin {"seek", "verify"}
    BY <1>1
  <2>11. header' = NoHeader /\ start' = s /\ good'
    BY <1>1, <2>1
  <2>12. \E end \in s .. Len(file) : Range(replayed') = Begun(s, end)
    BY <2>7, <2>8
  <2>13. ReadNext(e)
    BY <1>3, <2>3, <2>7, <2>8, <2>10, <2>11, <2>12 DEF ReadNext
  <2> QED
    BY <2>9, <2>13
<1> QED
  BY <1>1, <1>4, <1>5, ReaderStep

\* seek_to_sequence stops in front of the record, or passes it.
LEMMA SeekPayloadReads ==
    ASSUME Written, Read, SeekPayload
    PROVE  Read'
<1>1. /\ UNCHANGED jvars /\ UNCHANGED <<good, target, current, replayed, expected, agrees>>
      /\ header # NoHeader /\ call = "seek" /\ position + header.size <= Len(file)
      /\ header' = NoHeader
      /\ \/ position' = position - HeaderCells /\ start' = position' /\ call' = "none"
         \/ /\ header.sequence < target /\ position' = position + header.size
            /\ start' = start /\ call' = call
  BY DEF SeekPayload, Found
<1>2. /\ logged' = logged /\ Whole(file)' = Whole(file) /\ Len(file) \in Nat
      /\ HeaderCells \in Nat \ {0}
  BY <1>1, JournalKept
<1>3. /\ RTypeOK /\ position \in Nat /\ header.size \in Nat /\ position >= HeaderCells
      /\ start \in Nat
  BY <1>1 DEF Read, RTypeOK
<1>4. RTypeOK'
  <2>1. position' \in Nat /\ start' \in Nat /\ call' \in {"none", "seek"}
    BY <1>1, <1>2, <1>3
  <2> QED
    BY <1>1, <1>2, <1>3, <2>1 DEF RTypeOK, NoHeader
<1>5. ASSUME ~torn PROVE ReadNext(Base')
  <2> PICK b : b = Base
    OBVIOUS
  <2> PICK k : k = header.of
    OBVIOUS
  <2> PICK e : e = position + header.size
    OBVIOUS
  <2>1. /\ b \in Nat /\ good /\ position = b + HeaderCells /\ Boundary(b) /\ b < Len(file)
        /\ header.sequence = logged[k].sequence
    BY <1>1, <1>5, AtRecord
  <2>2. Replayed /\ Sought
    BY <1>5 DEF Read
  <2>3. /\ start = 0 /\ replayed = <<>> /\ replayed' = <<>> /\ good' /\ header' = NoHeader
        /\ target' = target
        /\ \A i \in 1 .. b : logged[file[i][1]].sequence < target
    BY <1>1, <2>1, <2>2 DEF Replayed, Sought
  <2>4. \A i, j \in DOMAIN <<>> : i < j => <<>>[i] < <<>>[j]
    OBVIOUS
  <2>5. Base' = position'
    BY <1>1 DEF Base, NoHeader
  <2>6. CASE position' = position - HeaderCells /\ start' = position' /\ call' = "none"
    <3>1. start' = b /\ Base' = b
      BY <1>2, <2>1, <2>5, <2>6
    <3>2. Begun(b, b) = {} /\ Range(<<>>) = {}
      BY <2>1, NothingBegun
    <3>3. b \in b .. Len(file) /\ b <= b /\ b <= Len(file)
      BY <1>2, <2>1
    <3>4. \E end \in b .. Len(file) : Range(<<>>) = Begun(b, end)
      BY <3>2, <3>3
    <3>5. ReadNext(b)
      BY <2>1, <2>3, <2>4, <2>6, <3>1, <3>2, <3>3, <3>4 DEF ReadNext
    <3> QED
      BY <3>1, <3>5
  <2>7. CASE /\ header.sequence < target /\ position' = position + header.size
             /\ start' = start /\ call' = call
    <3>1. 0 \in 0 .. b /\ e <= Len(file)
      BY <1>1, <2>1
    <3>2. Boundary(e) /\ b < e /\ e \in Nat /\ \A i \in b + 1 .. e : file[i][1] = k
      BY <1>1, <1>5, <3>1, PastRecord
    <3>3. ASSUME NEW i \in 1 .. e PROVE logged[file[i][1]].sequence < target
      <4>1. CASE i \in 1 .. b
        BY <2>3, <4>1
      <4>2. CASE i \in b + 1 .. e
        BY <2>1, <2>7, <3>2, <4>2
      <4> QED
        BY <2>1, <3>2, <4>1, <4>2
    <3>4. Base' = e
      BY <2>5, <2>7
    <3>5. \E end \in 0 .. Len(file) : Range(<<>>) = Begun(0, end)
      <4>1. 0 \in 0 .. Len(file) /\ Begun(0, 0) = {} /\ Range(<<>>) = {}
        BY <1>2, NothingBegun
      <4> QED
        BY <4>1
    <3>6. 0 <= Len(file) /\ 0 <= e
      BY <1>2, <3>2
    <3>7. ReadNext(e)
      BY <1>1, <2>3, <2>4, <2>7, <3>2, <3>3, <3>5, <3>6 DEF ReadNext
    <3> QED
      BY <3>4, <3>7
  <2> QED
    BY <1>1, <2>6, <2>7
<1> QED
  BY <1>1, <1>4, <1>5, ReaderStep

\* verify_against compares a record, and goes on if the two are the same.
LEMMA VerifyPayloadReads ==
    ASSUME Written, Read, VerifyPayload
    PROVE  Read'
<1>1. /\ UNCHANGED jvars /\ UNCHANGED <<good, target, current, replayed>>
      /\ header # NoHeader /\ call = "verify" /\ position + header.size <= Len(file)
      /\ position' = position + header.size /\ header' = NoHeader
      /\ \/ Matches /\ expected' = [expected EXCEPT !.read = @ + 1] /\ call' = "verify" /\ start' = start
         \/ expected' = NoJournal /\ call' = "none" /\ start' = position'
  BY DEF VerifyPayload, Conclude
<1>2. /\ logged' = logged /\ Whole(file)' = Whole(file) /\ Len(file) \in Nat
      /\ HeaderCells \in Nat \ {0}
  BY <1>1, JournalKept
<1>3. /\ RTypeOK /\ position \in Nat /\ header.size \in Nat /\ position >= HeaderCells
      /\ start \in Nat /\ expected.length \in Nat /\ expected.read \in Nat
      /\ expected.read <= expected.length /\ 1 .. expected.read \subseteq Whole(file)
      /\ expected.differs \notin 1 .. expected.read
      /\ expected.differs \in {0, expected.length}
  BY <1>1 DEF Read, RTypeOK
<1>4. ASSUME Matches
      PROVE  /\ expected.read < expected.length /\ header.of = expected.read + 1
             /\ header.of # expected.differs /\ Genuine /\ expected.checkable
  BY <1>4 DEF Matches, ChecksumRight
<1>5. CASE /\ Matches /\ expected' = [expected EXCEPT !.read = @ + 1]
           /\ call' = "verify" /\ start' = start
  <2> PICK r : r = expected.read
    OBVIOUS
  <2> PICK k : k = header.of
    OBVIOUS
  <2> PICK n : n = expected.length
    OBVIOUS
  <2>1. r \in Nat /\ n \in Nat /\ r < n /\ k = r + 1 /\ 1 .. r + 1 = 1 .. r \cup {k}
    BY <1>3, <1>4, <1>5
  <2>2. /\ expected'.read = r + 1 /\ expected'.length = n /\ expected'.differs = expected.differs
        /\ expected'.checkable = expected.checkable /\ expected' \in Comparison
    <3>1. expected \in Comparison
      BY <1>3 DEF RTypeOK
    <3> DEFINE m == expected.read + 1
    <3>2. m = r + 1 /\ m \in Nat /\ expected' = [expected EXCEPT !.read = m]
      BY <1>5, <2>1
    <3> HIDE DEF m
    <3>3. /\ expected'.read = m /\ expected'.length = n /\ expected'.differs = expected.differs
          /\ expected'.checkable = expected.checkable
      BY <3>1, <3>2 DEF Comparison
    <3>4. expected' \in Comparison
      BY <3>1, <3>2 DEF Comparison
    <3> QED
      BY <3>2, <3>3, <3>4
  <2>3. RTypeOK'
    <3>1. k \in Whole(file)
      BY <1>1, <1>3, <1>4, <1>5, GenuineWhole
    <3>2. r + 1 <= n /\ 1 .. r + 1 \subseteq Whole(file) /\ expected.differs \notin 1 .. r + 1
      BY <1>3, <1>4, <1>5, <2>1, <3>1
    <3>3. position' \in Nat
      BY <1>1, <1>3
    <3> QED
      BY <1>1, <1>2, <1>3, <1>5, <2>1, <2>2, <3>2, <3>3 DEF RTypeOK, NoHeader
  <2>4. ASSUME ~torn PROVE ReadNext(Base')
    <3> PICK b : b = Base
      OBVIOUS
    <3> PICK e : e = position + header.size
      OBVIOUS
    <3>1. b \in Nat /\ good
      BY <1>1, <2>4, AtRecord
    <3>2. 0 \in 0 .. b /\ e <= Len(file)
      BY <1>1, <3>1
    <3>3. Boundary(e) /\ e \in Nat /\ Begun(0, e) = Begun(0, b) \cup {k}
      BY <1>1, <2>4, <3>2, PastRecord
    <3>4. /\ start = 0 /\ replayed = <<>> /\ Begun(0, b) = 1 .. r
          /\ start' = 0 /\ replayed' = <<>> /\ good' /\ header' = NoHeader
      BY <1>1, <1>5, <2>4, <3>1 DEF Read, Replayed, Verified
    <3>5. Begun(0, e) = 1 .. r + 1
      BY <2>1, <3>3, <3>4
    <3>6. Base' = e
      BY <1>1 DEF Base, NoHeader
    <3>7. \A i, j \in DOMAIN <<>> : i < j => <<>>[i] < <<>>[j]
      OBVIOUS
    <3>8. \E end \in 0 .. Len(file) : Range(<<>>) = Begun(0, end)
      <4>1. 0 \in 0 .. Len(file) /\ Begun(0, 0) = {} /\ Range(<<>>) = {}
        BY <1>2, NothingBegun
      <4> QED
        BY <4>1
    <3>9. 0 <= Len(file) /\ 0 <= e
      BY <1>2, <3>3
    <3>10. expected'.checkable
      BY <1>4, <1>5, <2>2
    <3>11. ReadNext(e)
      BY <1>5, <2>2, <3>3, <3>4, <3>5, <3>7, <3>8, <3>9, <3>10 DEF ReadNext
    <3> QED
      BY <3>6, <3>11
  <2> QED
    BY <1>1, <2>3, <2>4, ReaderStep
<1>6. CASE expected' = NoJournal /\ call' = "none" /\ start' = position'
  <2>1. expected'.length = 0 /\ expected'.read = 0 /\ expected'.differs = 0
    BY <1>6 DEF NoJournal
  <2>5. expected' \in Comparison
    BY <1>6 DEF NoJournal, Comparison
  <2>2. position' \in Nat
    BY <1>1, <1>3
  <2>3. RTypeOK'
    BY <1>1, <1>2, <1>3, <1>6, <2>1, <2>2, <2>5 DEF RTypeOK, NoHeader
  <2>4. ASSUME ~torn PROVE ReadNext(Base')
    <3> PICK b : b = Base
      OBVIOUS
    <3> PICK e : e = position + header.size
      OBVIOUS
    <3> PICK k : k = header.of
      OBVIOUS
    <3>1. b \in Nat /\ good
      BY <1>1, <2>4, AtRecord
    <3>2. 0 \in 0 .. b /\ e <= Len(file)
      BY <1>1, <3>1
    <3>3. Boundary(e) /\ e \in Nat
      BY <1>1, <2>4, <3>2, PastRecord
    <3>4. replayed = <<>> /\ replayed' = <<>> /\ good' /\ header' = NoHeader /\ start' = e
      BY <1>1, <1>6, <2>4, <3>1 DEF Read, Replayed
    <3>5. Begun(e, e) = {} /\ Range(<<>>) = {}
      BY <3>3, NothingBegun
    <3>6. Base' = e
      BY <1>1 DEF Base, NoHeader
    <3>7. \A i, j \in DOMAIN <<>> : i < j => <<>>[i] < <<>>[j]
      OBVIOUS
    <3>8. e \in e .. Len(file) /\ e <= e /\ e <= Len(file)
      BY <1>2, <3>2, <3>3
    <3>9. \E end \in e .. Len(file) : Range(<<>>) = Begun(e, end)
      BY <3>5, <3>8
    <3>10. ReadNext(e)
      BY <1>6, <3>3, <3>4, <3>5, <3>7, <3>8, <3>9 DEF ReadNext
    <3> QED
      BY <3>6, <3>10
  <2> QED
    BY <1>1, <2>3, <2>4, ReaderStep
<1> QED
  BY <1>1, <1>5, <1>6

LEMMA ReadFirst == Init => Written /\ Read
<1> SUFFICES ASSUME Init PROVE Written /\ Read
  OBVIOUS
<1>1. /\ JInit /\ position = 0 /\ good = TRUE /\ call = "none" /\ target = 0 /\ header = NoHeader
      /\ replayed = <<>> /\ start = 0 /\ expected = NoJournal
  BY DEF Init
<1>2. Written
  BY <1>1, WrittenFirst
<1>3. Boundary(0) /\ Begun(0, 0) = {} /\ Range(<<>>) = {} /\ Len(file) \in Nat
  BY <1>2, BoundaryFirst, NothingBegun, FileIs
<1>4. NoJournal \in Comparison /\ NoJournal.length = 0 /\ NoJournal.read = 0 /\ NoJournal.differs = 0
  BY DEF NoJournal, Comparison
<1>5. RTypeOK
  BY <1>1, <1>4, EmptySeq DEF RTypeOK, NoHeader
<1>6. Base = 0
  BY <1>1 DEF Base
<1>7. Aligned
  BY <1>1, <1>3, <1>6 DEF Aligned
<1>8. Replayed
  <2>1. \A i, j \in DOMAIN <<>> : i < j => <<>>[i] < <<>>[j]
    OBVIOUS
  <2>2. 0 \in 0 .. Len(file)
    BY <1>3
  <2> QED
    BY <1>1, <1>3, <1>6, <2>1, <2>2 DEF Replayed
<1>9. Sought /\ Verified
  BY <1>1 DEF Sought, Verified
<1> QED
  BY <1>2, <1>5, <1>7, <1>8, <1>9 DEF Read

LEMMA ReadStep == Written /\ Read /\ [Next]_vars => (Written /\ Read)'
<1> SUFFICES ASSUME Written, Read, [Next]_vars PROVE Written' /\ Read'
  OBVIOUS
<1>1. CASE (JNext /\ UNCHANGED rvars) \/ UNCHANGED vars
  <2>1. (JNext \/ UNCHANGED jvars) /\ UNCHANGED rvars
    BY <1>1 DEF vars
  <2> QED
    BY <2>1, WrittenStep, ReadWhileWritten
<1>2. CASE RNext
  <2>1. CASE Load
    BY <2>1, LoadReads, JournalKept DEF Load
  <2>2. CASE Begin("step", 0) \/ Begin("all", 0)
    BY <2>2, BeginReads, JournalKept DEF Begin
  <2>3. ASSUME NEW sought \in Targets, NEW kind \in {"until", "seek"}, Begin(kind, sought)
        PROVE  Written' /\ Read'
    <3>1. sought \in Nat
      BY ReaderConstants
    <3> QED
      BY <2>3, <3>1, BeginReads, JournalKept DEF Begin
  <2>4. ASSUME NEW length \in 0 .. Len(logged), NEW checkable \in BOOLEAN,
               NEW differs \in {0, length}, BeginVerify(length, differs, checkable)
        PROVE  Written' /\ Read'
    BY <2>4, BeginVerifyReads, JournalKept DEF BeginVerify
  <2>5. CASE ReadHeader
    BY <2>5, ReadHeaderReads, JournalKept DEF ReadHeader
  <2>6. CASE PayloadMissing
    BY <2>6, PayloadMissingReads, JournalKept DEF PayloadMissing
  <2>7. CASE ReadPayload
    BY <2>7, ReadPayloadReads, JournalKept DEF ReadPayload
  <2>8. CASE SeekPayload
    BY <2>8, SeekPayloadReads, JournalKept DEF SeekPayload
  <2>9. CASE VerifyPayload
    BY <2>9, VerifyPayloadReads, JournalKept DEF VerifyPayload
  <2> QED
    BY <1>2, <2>1, <2>2, <2>3, <2>4, <2>5, <2>6, <2>7, <2>8, <2>9 DEF RNext, Reading
<1> QED
  BY <1>1, <1>2 DEF Next

\* In every reachable state the journal's file is as written and the reader
\* knows where in it it is.
THEOREM ReadCorrect == Spec => [](Written /\ Read)
<1>1. Init => Written /\ Read
  BY ReadFirst
<1>2. Written /\ Read /\ [Next]_vars => (Written /\ Read)'
  BY ReadStep
<1> QED
  BY <1>1, <1>2, PTL DEF Spec

\* The type invariant of the journal: the sequence number, the state of the writer,
\* what was logged and the cells in the buffer and in the file.
THEOREM JournalTypeCorrect == Spec => []JTypeOK
<1>1. Written => JTypeOK
  BY DEF Written
<1> QED
  BY <1>1, ReadCorrect, PTL

\* Unless somebody wrote on behind a torn record, a replay delivers whole records in
\* the order they were logged, without a gap from where it started: step,
\* replay_all, replay_until and whatever the file's last record is cut to.
THEOREM ReplayFaithfulAlways == Spec => []ReplayFaithful
<1>1. Read => ReplayFaithful
  BY DEF Read, Replayed, ReplayFaithful
<1> QED
  BY <1>1, ReadCorrect, PTL

-----------------------------------------------------------------------------
(* How the calls end *)

\* A call that runs ends by failing, by a record delivered or found, or by a verdict.
LEMMA CallEnds ==
    ASSUME [Next]_vars, call # "none", call' = "none"
    PROVE  /\ UNCHANGED jvars
           /\ \/ ReadHeader /\ Fail
              \/ PayloadMissing
              \/ ReadPayload /\ call \notin {"seek", "verify"}
              \/ SeekPayload \/ VerifyPayload
<1>1. ~((JNext /\ UNCHANGED rvars) \/ UNCHANGED vars)
  BY DEF rvars, vars
<1>2. ~Load
  BY DEF Load
<1>3. \A kind, sought : ~Begin(kind, sought)
  BY DEF Begin
<1>4. \A length, differs, checkable : ~BeginVerify(length, differs, checkable)
  BY DEF BeginVerify
<1>5. Reading
  BY <1>1, <1>2, <1>3, <1>4 DEF Next, RNext
<1>6. ReadHeader => Fail
  BY DEF ReadHeader
<1>7. Reading => UNCHANGED jvars
  BY DEF Reading, ReadHeader, PayloadMissing, ReadPayload, SeekPayload, VerifyPayload
<1>8. ReadPayload => call \notin {"seek", "verify"}
  BY DEF ReadPayload
<1> QED
  BY <1>5, <1>6, <1>7, <1>8 DEF Reading

\* Where a call fails, every whole record has begun in front of the reader.
LEMMA FailsBehindAll ==
    ASSUME Written, Read, ~torn, good, (ReadHeader /\ Fail) \/ PayloadMissing,
           call # "none", NEW b, b = Base
    PROVE  /\ b \in 0 .. Len(file) /\ good' = FALSE
           /\ \A k \in Whole(file) : k \in Begun(0, b) /\ \E i \in 1 .. b : file[i][1] = k
<1>1. RTypeOK /\ Boundary(b) /\ b \in 0 .. Len(file) /\ Len(file) \in Nat /\ HeaderCells \in Nat \ {0}
      /\ position \in Nat /\ JTypeOK
  BY FileIs, JournalConstants DEF Read, RTypeOK, Aligned, Boundary
<1>2. CASE ReadHeader /\ Fail
  <2>1. header = NoHeader /\ position + HeaderCells > Len(file) /\ good' = FALSE
    <3>1. header = NoHeader
      BY <1>2 DEF ReadHeader
    <3>2. ~(good /\ position + HeaderCells <= Len(file) /\ UNCHANGED <<good, call, expected, agrees>>)
      BY <1>2 DEF Fail
    <3> QED
      BY <1>2, <3>1, <3>2 DEF ReadHeader
  <2>2. b = position
    BY <2>1 DEF Base
  <2>3. b < Len(file) => b + Length(file[b + 1][1]) > Len(file)
    <3> SUFFICES ASSUME b < Len(file) PROVE b + Length(file[b + 1][1]) > Len(file)
      OBVIOUS
    <3> PICK k : k = file[b + 1][1]
      OBVIOUS
    <3>1. k \in DOMAIN logged
      BY <1>1, RecordAt
    <3>2. Length(k) \in Nat /\ Length(k) > HeaderCells
      BY <1>1, <3>1, LengthIs
    <3> QED
      BY <1>1, <2>1, <2>2, <3>2
  <2> QED
    BY <1>1, <2>1, <2>3, WholeBefore
<1>3. CASE PayloadMissing
  <2>1. header # NoHeader /\ position + header.size > Len(file) /\ good' = FALSE
    BY <1>3 DEF PayloadMissing
  <2> PICK k : k = header.of
    OBVIOUS
  <2>2. file[b + 1] = <<k, 1>> /\ position + header.size = b + Length(k)
    BY <2>1, AtRecord
  <2>3. b + Length(file[b + 1][1]) > Len(file)
    BY <2>1, <2>2
  <2> QED
    BY <1>1, <2>1, <2>3, WholeBefore
<1> QED
  BY <1>2, <1>3

\* replay_all from the beginning delivers every event a flush returned for, before
\* and after crashes.
THEOREM FlushedReplayedAlways == Spec => FlushedReplayed
<1>1. ASSUME Written, Read, [Next]_vars, ~torn, start = 0, good, call = "all", call' = "none"
      PROVE  flushed \subseteq Range(replayed)
  <2> PICK b : b = Base
    OBVIOUS
  <2>1. (ReadHeader /\ Fail) \/ PayloadMissing
    BY <1>1, CallEnds DEF ReadPayload, SeekPayload, VerifyPayload
  <2>2. \A k \in Whole(file) : k \in Begun(0, b)
    BY <1>1, <2>1, FailsBehindAll
  <2>3. Range(replayed) = Begun(0, b)
    BY <1>1 DEF Read, Replayed
  <2>4. flushed \subseteq Whole(file)
    BY <1>1 DEF Written
  <2> QED
    BY <2>2, <2>3, <2>4
<1>2. Written /\ Read /\ [Next]_vars =>
          [~torn /\ start = 0 /\ good /\ call = "all" /\ call' = "none"
               => flushed \subseteq Range(replayed)]_vars
  BY <1>1
<1> QED
  BY <1>2, ReadCorrect, PTL DEF Spec, FlushedReplayed

\* seek_to_sequence stops in front of the first record that is not before the number
\* sought, and fails only if there is none.
THEOREM SeekFindsAlways == Spec => SeekFinds
<1> DEFINE reached(k) == logged[k].sequence >= target
           FoundFirst == IF good'
                     THEN /\ position' \in 0 .. Len(file) - 1
                          /\ file[position' + 1][2] = 1 /\ reached(file[position' + 1][1])
                          /\ \A i \in 1 .. position' : ~reached(file[i][1])
                     ELSE \A k \in Whole(file) : ~reached(k)
<1>1. ASSUME Written, Read, [Next]_vars, ~torn, call = "seek", call' = "none"
      PROVE  FoundFirst
  <2> PICK b : b = Base
    OBVIOUS
  <2>1. /\ good /\ Boundary(b) /\ b \in 0 .. Len(file) /\ target \in Nat
        /\ \A i \in 1 .. b : logged[file[i][1]].sequence < target
    BY <1>1 DEF Read, RTypeOK, Aligned, Replayed, Sought, Boundary
  <2>2. JTypeOK /\ Len(file) \in Nat /\ Pieces(file) /\ HeaderCells \in Nat
    BY <1>1, FileIs, JournalConstants
  <2>3. \A i \in 1 .. b : ~reached(file[i][1])
    <3> SUFFICES ASSUME NEW i \in 1 .. b PROVE ~reached(file[i][1])
      OBVIOUS
    <3> PICK k : k = file[i][1]
      OBVIOUS
    <3>1. i \in 1 .. Len(file)
      BY <2>1, <2>2
    <3>2. k \in DOMAIN logged
      BY <2>2, <3>1 DEF Pieces
    <3>3. logged[k].sequence \in Nat
      BY <2>2, <3>2, LengthIs DEF Record
    <3>4. logged[k].sequence < target
      BY <2>1
    <3> QED
      BY <2>1, <3>3, <3>4
  <2> HIDE DEF reached
  <2>4. CASE (ReadHeader /\ Fail) \/ PayloadMissing
    <3>1. /\ good' = FALSE
          /\ \A k \in Whole(file) : \E i \in 1 .. b : file[i][1] = k
      BY <1>1, <2>1, <2>4, FailsBehindAll
    <3>2. \A k \in Whole(file) : ~reached(k)
      BY <2>3, <3>1
    <3> QED
      BY <3>1, <3>2
  <2>5. CASE SeekPayload
    <3>1. /\ header # NoHeader /\ header.sequence >= target /\ position' = position - HeaderCells
          /\ good' = good
      BY <1>1, <2>5 DEF SeekPayload, Found
    <3> PICK k : k = header.of
      OBVIOUS
    <3>2. /\ b \in Nat /\ position = b + HeaderCells /\ b < Len(file) /\ file[b + 1] = <<k, 1>>
          /\ header.sequence = logged[k].sequence
      BY <1>1, <3>1, AtRecord
    <3>3. position' = b /\ b \in 0 .. Len(file) - 1
      BY <2>2, <3>1, <3>2
    <3>4. file[b + 1][2] = 1 /\ file[b + 1][1] = k /\ reached(k)
      BY <3>1, <3>2 DEF reached
    <3> QED
      BY <2>1, <2>3, <3>1, <3>3, <3>4
  <2> QED
    BY <1>1, <2>4, <2>5, CallEnds DEF VerifyPayload
<1>2. Written /\ Read /\ [Next]_vars =>
          [~torn /\ call = "seek" /\ call' = "none" => FoundFirst]_vars
  BY <1>1
<1> QED
  BY <1>2, ReadCorrect, PTL DEF Spec, SeekFinds

\* What a comparison that says yes has seen, whatever the file is like.
LEMMA AgreeingIsWhole ==
    ASSUME RTypeOK, call = "verify", expected.read = expected.length
    PROVE  expected.differs = 0 /\ 1 .. expected.length \subseteq Whole(file)
<1>1. /\ expected.length \in Nat /\ 1 .. expected.length \subseteq Whole(file)
      /\ expected.differs \notin 1 .. expected.length
      /\ expected.differs \in {0, expected.length}
  BY DEF RTypeOK
<1> QED
  BY <1>1

\* verify_against finds that the two differ only if they do.
LEMMA DifferingIsSeen ==
    ASSUME Written, Read, ~torn, call = "verify", header # NoHeader,
           position + header.size <= Len(file), ~Matches,
           expected.checkable, expected.differs = 0, Whole(file) = 1 .. expected.length
    PROVE  FALSE
<1> PICK b : b = Base
  OBVIOUS
<1> PICK k : k = header.of
  OBVIOUS
<1> PICK e : e = position + header.size
  OBVIOUS
<1> PICK n : n = expected.length
  OBVIOUS
<1> PICK r : r = expected.read
  OBVIOUS
<1>1. /\ b \in Nat /\ Boundary(b) /\ b < Len(file) /\ file[b + 1] = <<k, 1>> /\ Genuine
  BY AtRecord, GenuineThere
<1>2. 0 \in 0 .. b /\ e <= Len(file)
  BY <1>1
<1>3. k \in Whole(file) /\ k \in Nat /\ \A i \in 1 .. b : file[i][1] < k
  BY <1>2, PastRecord
<1>4. Begun(0, b) = 1 .. r /\ r \in Nat /\ n \in Nat
  BY DEF Read, RTypeOK, Verified
<1>5. k \in 1 .. n
  BY <1>3
<1>6. k > r
  <2>1. SUFFICES ASSUME k <= r PROVE FALSE
    BY <1>3, <1>4
  <2>2. k \in Begun(0, b)
    BY <1>4, <1>5, <2>1
  <2>3. PICK i \in 0 + 1 .. b : file[i][1] = k
    BY <2>2 DEF Begun
  <2>4. file[i][1] < k
    BY <1>3, <2>3
  <2> QED
    BY <1>3, <2>3, <2>4
<1>7. k = r + 1
  <2> DEFINE m == r + 1
  <2>1. m \in Whole(file) /\ m \notin Begun(0, b) /\ m \in Nat
    BY <1>4, <1>5, <1>6
  <2> HIDE DEF m
  <2>2. file[b + 1][1] <= m
    BY <1>1, <2>1, WholeBehind
  <2>3. k <= m
    BY <1>1, <2>2
  <2> QED
    BY <1>3, <1>4, <1>6, <2>1, <2>3 DEF m
<1>8. r < n /\ k # 0
  BY <1>4, <1>5, <1>7
<1>9. Matches
  BY <1>1, <1>7, <1>8 DEF Matches, ChecksumRight
<1> QED
  BY <1>9

\* With a filled table of checksums verify_against says yes if and only if the
\* journal has just the records expected; with an empty table, or a torn record in
\* the file, it may say no to them, but never yes to any others.
THEOREM VerifyExactAlways == Spec => VerifyExact
<1> DEFINE records == 1 .. expected.length
           same == expected.differs = 0
           Exact == /\ ~torn /\ expected.checkable => (agrees' <=> same /\ Whole(file) = records)
                    /\ agrees' => same /\ records \subseteq Whole(file)
<1>1. ASSUME Written, Read, [Next]_vars, call = "verify", call' = "none"
      PROVE  Exact
  <2> PICK r : r = expected.read
    OBVIOUS
  <2> PICK n : n = expected.length
    OBVIOUS
  <2>1. RTypeOK /\ r \in Nat /\ n \in Nat /\ 1 .. r \subseteq Whole(file) /\ (1 .. r = 1 .. n => r = n)
    <3>1. RTypeOK /\ r \in Nat /\ n \in Nat /\ 1 .. r \subseteq Whole(file)
      BY <1>1 DEF Read, RTypeOK
    <3> QED
      BY <3>1
  <2>2. r = n => same /\ records \subseteq Whole(file)
    BY <1>1, <2>1, AgreeingIsWhole
  <2>3. CASE (ReadHeader /\ Fail) \/ PayloadMissing
    <3>1. agrees' = (r = n)
      BY <1>1, <2>3 DEF PayloadMissing, Fail, Conclude, Verdict
    <3>2. ASSUME ~torn
          PROVE  r = n <=> same /\ Whole(file) = records
      <4> PICK b : b = Base
        OBVIOUS
      <4>1. good /\ Begun(0, b) = 1 .. r
        BY <1>1, <3>2 DEF Read, Replayed, Verified
      <4>2. \A k \in Whole(file) : k \in Begun(0, b)
        BY <1>1, <2>3, <3>2, <4>1, FailsBehindAll
      <4>3. Whole(file) = 1 .. r
        BY <2>1, <4>1, <4>2
      <4>4. Whole(file) = records => r = n
        BY <2>1, <4>3
      <4> QED
        BY <2>2, <4>3, <4>4
    <3> QED
      BY <2>2, <3>1, <3>2
  <2>4. CASE VerifyPayload
    <3>1. /\ header # NoHeader /\ position + header.size <= Len(file) /\ ~Matches /\ agrees' = FALSE
      BY <1>1, <2>4 DEF VerifyPayload, Conclude
    <3>2. ASSUME ~torn, expected.checkable, same, Whole(file) = records
          PROVE  FALSE
      BY <1>1, <3>1, <3>2, DifferingIsSeen
    <3> QED
      BY <3>1, <3>2
  <2> QED
    BY <1>1, <2>3, <2>4, CallEnds DEF SeekPayload
<1>2. Written /\ Read /\ [Next]_vars => [call = "verify" /\ call' = "none" => Exact]_vars
  BY <1>1
<1> QED
  BY <1>2, ReadCorrect, PTL DEF Spec, VerifyExact
=============================================================================
