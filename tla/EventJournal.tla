---------------------------- MODULE EventJournal ----------------------------
(***************************************************************************)
(* exchange::EventJournal: an append-only file of records, each a header   *)
(* and a payload, written through the buffer of an ofstream.               *)
(*                                                                         *)
(* A file is a sequence of cells; cell <<k, part>> is a piece of the k-th  *)
(* record that was ever logged.  The buffer may spill any prefix of what   *)
(* it holds at any time, and a crash of the process loses the rest: a      *)
(* record may be torn anywhere.                                            *)
(***************************************************************************)
EXTENDS Integers, Sequences, SequencesExt

CONSTANTS
    HeaderCells,    \* length of a JournalHeader
    PayloadCells,   \* length of the payload, by type of event
    MaxRecords,     \* bound of the model: records logged
    MaxLives        \* bound of the model: journals opened on the file

EventTypes == DOMAIN PayloadCells

ASSUME JournalConstants ==
    /\ HeaderCells \in Nat \ {0}
    /\ PayloadCells \in [EventTypes -> Nat \ {0}]
    /\ MaxRecords \in Nat /\ MaxLives \in Nat

VARIABLES
    file,       \* the cells the operating system has, in order
    buffer,     \* the cells still in the stream buffer of the process
    writer,     \* the EventJournal object: "none", "open" or "closed"
    sequence,   \* sequence_
    lives,      \* how many journals were opened on the file
    logged,     \* every record ever logged: its sequence number and type
    flushed,    \* the records a flush returned for
    torn        \* was the file ever appended to behind an incomplete record?

jvars == <<file, buffer, writer, sequence, lives, logged, flushed, torn>>

Length(k) == HeaderCells + PayloadCells[logged[k].type]

Cells(k, length) == [part \in 1 .. length |-> <<k, part>>]

\* The record the file ends with is not all there.
EndsTorn == file # <<>> /\ Last(file)[2] < Length(Last(file)[1])

JInit ==
    /\ file = <<>> /\ buffer = <<>>
    /\ writer = "none" /\ sequence = 0 /\ lives = 0
    /\ logged = <<>> /\ flushed = {}
    /\ torn = FALSE

\* The constructor appends to whatever is there and numbers from 0.
Open ==
    /\ writer = "none"
    /\ lives < MaxLives
    /\ writer' = "open" /\ sequence' = 0
    /\ lives' = lives + 1
    /\ torn' = (torn \/ EndsTorn)
    /\ UNCHANGED <<file, buffer, logged, flushed>>

\* Faulty: the payload is written before its header.
LogPayloadFirst(type) ==
    /\ writer = "open"
    /\ Len(logged) < MaxRecords
    /\ logged' = Append(logged, [sequence |-> sequence, type |-> type])
    /\ sequence' = sequence + 1
    /\ buffer' = buffer \o
          LET cells == Cells(Len(logged'), HeaderCells + PayloadCells[type])
          IN  SubSeq(cells, HeaderCells + 1, Len(cells)) \o SubSeq(cells, 1, HeaderCells)
    /\ UNCHANGED <<file, writer, lives, flushed, torn>>

\* log_order, log_trade.
Log(type) ==
    /\ writer = "open"
    /\ Len(logged) < MaxRecords
    /\ logged' = Append(logged, [sequence |-> sequence, type |-> type])
    /\ sequence' = sequence + 1
    /\ buffer' = buffer \o Cells(Len(logged'), HeaderCells + PayloadCells[type])
    /\ UNCHANGED <<file, writer, lives, flushed, torn>>

\* A closed stream swallows the event; the number is used up all the same.
LogUnwritten ==
    /\ writer = "closed"
    /\ sequence < MaxRecords
    /\ sequence' = sequence + 1
    /\ UNCHANGED <<file, buffer, writer, lives, logged, flushed, torn>>

\* The stream buffer is full: part of it goes to the file.
Spill(length) ==
    /\ length \in 1 .. Len(buffer)
    /\ file' = file \o SubSeq(buffer, 1, length)
    /\ buffer' = SubSeq(buffer, length + 1, Len(buffer))
    /\ UNCHANGED <<writer, sequence, lives, logged, flushed, torn>>

\* The records that are on file from the first cell to the last.
Whole(cells) == {k \in DOMAIN logged : <<k, Length(k)>> \in Range(cells)}

Committed == Whole(file) \cup {cell[1] : cell \in Range(buffer)}

\* Faulty: the buffer stays where it is.
EmptyLater ==
    /\ flushed' = flushed \cup Committed
    /\ UNCHANGED <<file, buffer>>

\* flush() and sync(), which does no more than flush.
Empty ==
    /\ file' = file \o buffer
    /\ buffer' = <<>>
    /\ flushed' = flushed \cup Committed

Flush ==
    /\ writer = "open"
    /\ Empty
    /\ UNCHANGED <<writer, sequence, lives, logged, torn>>

\* close(); closing twice does nothing more.
Close ==
    /\ writer = "open"
    /\ Empty
    /\ writer' = "closed"
    /\ UNCHANGED <<sequence, lives, logged, torn>>

Destroy ==
    /\ writer = "closed"
    /\ writer' = "none"
    /\ UNCHANGED <<file, buffer, sequence, lives, logged, flushed, torn>>

Crash ==
    /\ writer # "none"
    /\ writer' = "none"
    /\ buffer' = <<>>
    /\ UNCHANGED <<file, sequence, lives, logged, flushed, torn>>

JNext ==
    \/ Open \/ LogUnwritten \/ Flush \/ Close \/ Destroy \/ Crash
    \/ \E type \in EventTypes : Log(type)
    \/ \E length \in 1 .. Len(buffer) : Spill(length)
=============================================================================
