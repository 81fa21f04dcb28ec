---------------------------- MODULE JournalReplay ---------------------------
(***************************************************************************)
(* exchange::JournalReader and ReplayHarness over the file EventJournal    *)
(* writes, while it is being written or after a crash.                     *)
(*                                                                         *)
(* A step of the reader is one read from the stream.  Behind a torn record *)
(* the reader takes payload for headers: such a header holds anything.     *)
(* A call of the harness (step, replay_all, replay_until) or of the reader *)
(* (seek_to_sequence) is a loop of read_next.                              *)
(***************************************************************************)
EXTENDS EventJournal

CONSTANTS
    Targets,        \* sequence numbers clients seek or replay until
    StrayHeaders    \* what cells that are no header may be read as

ASSUME ReaderConstants ==
    /\ Targets \subseteq Nat
    /\ \A header \in StrayHeaders :
          header.of = 0 /\ header.sequence \in Nat /\ header.size \in Nat

VARIABLES
    position,   \* where the stream is
    good,       \* the stream has neither failed nor met the end of the file
    call,       \* the call that runs: "none", "step", "all", "until", "seek", "verify"
    target,     \* its argument
    header,     \* the header read_next has read, if it is about to read a payload
    current,    \* current_seq_
    replayed,   \* the events delivered since the reader was last positioned
    start,      \* where that was
    expected,   \* the journal verify_against compares with, or NoJournal
    agrees      \* verify_against has just returned true

rvars == <<position, good, call, target, header, current, replayed, start,
           expected, agrees>>
vars  == <<jvars, rvars>>

NoHeader == [of |-> 0, sequence |-> 0, size |-> 0, type |-> "None"]

\* Another journal of the logged events up to a length, one of which may differ,
\* and the number of its records that are read.  Checksums are right only if an
\* EventJournal was ever constructed in the process of the reader.
NoJournal == [length |-> 0, differs |-> 0, checkable |-> FALSE, read |-> 0]

Init ==
    /\ JInit
    /\ position = 0 /\ good = TRUE
    /\ call = "none" /\ target = 0 /\ header = NoHeader
    /\ current = 0 /\ replayed = <<>> /\ start = 0
    /\ expected = NoJournal /\ agrees = FALSE

-----------------------------------------------------------------------------
\* load_journal, which builds a new reader.
Load ==
    /\ call = "none"
    /\ position' = 0 /\ good' = TRUE
    /\ current' = 0 /\ replayed' = <<>> /\ start' = 0
    /\ agrees' = FALSE
    /\ UNCHANGED <<jvars, call, target, header, expected>>

Begin(kind, sought) ==
    /\ call = "none"
    /\ kind = "until" => current < sought
    /\ call' = kind /\ target' = sought
    /\ IF kind = "seek"
       THEN position' = 0 /\ good' = TRUE /\ replayed' = <<>> /\ start' = 0
       ELSE UNCHANGED <<position, good, replayed, start>>
    /\ agrees' = FALSE
    /\ UNCHANGED <<jvars, header, current, expected>>

BeginVerify(length, differs, checkable) ==
    /\ call = "none"
    /\ call' = "verify"
    /\ expected' = [length |-> length, differs |-> differs, checkable |-> checkable,
                    read |-> 0]
    /\ position' = 0 /\ good' = TRUE /\ replayed' = <<>> /\ start' = 0
    /\ agrees' = FALSE
    /\ UNCHANGED <<jvars, target, header, current>>

\* What the cells behind the position read as.
HeadersAt(cells) ==
    LET k == cells[1][1]
    IN  IF cells = Cells(k, HeaderCells)
        THEN {[of |-> k, sequence |-> logged[k].sequence, type |-> logged[k].type,
               size |-> PayloadCells[logged[k].type]]}
        ELSE StrayHeaders

Ahead(length) == SubSeq(file, position + 1, position + length)

\* Faulty: the journal may stop before the one expected.
VerdictOnPrefix == TRUE

\* What verify_against says when the journal has no further record: whether the
\* one expected has none either.
Verdict == expected.read = expected.length

\* verify_against returns.
Conclude(verdict) == agrees' = verdict /\ expected' = NoJournal

\* read_next returns false, and so does the call, but for verify_against.
Fail ==
    /\ call' = "none" /\ header' = NoHeader
    /\ IF call = "verify" THEN Conclude(Verdict) ELSE UNCHANGED <<expected, agrees>>

ReadHeader ==
    /\ call # "none" /\ header = NoHeader
    /\ \/ ~good /\ Fail /\ UNCHANGED <<position, good>>
       \/ /\ good /\ position + HeaderCells > Len(file)
          /\ Fail /\ good' = FALSE
          /\ UNCHANGED position
       \/ /\ good /\ position + HeaderCells <= Len(file)
          /\ header' \in HeadersAt(Ahead(HeaderCells))
          /\ position' = position + HeaderCells
          /\ UNCHANGED <<good, call, expected, agrees>>
    /\ UNCHANGED <<jvars, target, current, replayed, start>>

\* The payload is that of the record the header belongs to.
Genuine == header.of # 0
           /\ \A i \in 1 .. header.size : Ahead(header.size)[i] = <<header.of, HeaderCells + i>>

\* step() delivers what is long enough for its type, verified or not.
Delivered ==
    IF header.type \in EventTypes /\ header.size >= PayloadCells[header.type]
    THEN Append(replayed, IF Genuine THEN header.of ELSE 0)
    ELSE replayed

PayloadMissing ==
    /\ header # NoHeader
    /\ position + header.size > Len(file)
    /\ Fail /\ good' = FALSE
    /\ UNCHANGED <<jvars, position, target, current, replayed, start>>

\* step(), and the loops of replay_all and replay_until around it.
ReadPayload ==
    /\ header # NoHeader /\ call \notin {"seek", "verify"}
    /\ position + header.size <= Len(file)
    /\ position' = position + header.size
    /\ current' = header.sequence
    /\ replayed' = Delivered
    /\ header' = NoHeader
    /\ call' = IF call = "all" \/ (call = "until" /\ header.sequence < target)
               THEN call ELSE "none"
    /\ UNCHANGED <<jvars, good, target, start, expected, agrees>>

\* Faulty: the reader goes back over the payload only.
FoundShort == position' = position

\* seek_to_sequence goes back to the start of the record.
Found == position' = position - HeaderCells

SeekPayload ==
    /\ header # NoHeader /\ call = "seek"
    /\ position + header.size <= Len(file)
    /\ \/ /\ header.sequence >= target
          /\ Found
          /\ start' = position' /\ call' = "none"
       \/ /\ header.sequence < target
          /\ position' = position + header.size
          /\ UNCHANGED <<start, call>>
    /\ header' = NoHeader
    /\ UNCHANGED <<jvars, good, target, current, replayed, expected, agrees>>

\* verify_checksum.  Payload taken for a record has not the checksum it says.
ChecksumRight == expected.checkable /\ Genuine

\* The other journal has a record too, and the two are the same.
Matches ==
    /\ expected.read < expected.length
    /\ ChecksumRight
    /\ header.of = expected.read + 1 /\ header.of # expected.differs

VerifyPayload ==
    /\ header # NoHeader /\ call = "verify"
    /\ position + header.size <= Len(file)
    /\ position' = position + header.size
    /\ header' = NoHeader
    /\ \/ Matches /\ expected' = [expected EXCEPT !.read = @ + 1] /\ UNCHANGED <<call, agrees>>
       \/ ~Matches /\ Conclude(FALSE) /\ call' = "none"
    /\ start' = IF call' = "none" THEN position' ELSE start
    /\ UNCHANGED <<jvars, good, target, current, replayed>>

Reading == ReadHeader \/ PayloadMissing \/ ReadPayload \/ SeekPayload \/ VerifyPayload

RNext ==
    \/ Load \/ Reading
    \/ Begin("step", 0) \/ Begin("all", 0)
    \/ \E sought \in Targets, kind \in {"until", "seek"} : Begin(kind, sought)
    \/ \E length \in 0 .. Len(logged), checkable \in BOOLEAN :
          \E differs \in {0, length} : BeginVerify(length, differs, checkable)

Next == (JNext /\ UNCHANGED rvars) \/ RNext

Spec == Init /\ [][Next]_vars /\ WF_vars(Reading)

-----------------------------------------------------------------------------
(***************************************************************************)
(* Properties                                                              *)
(***************************************************************************)

\* The records that begin in a part of the file.
Begun(from, to) == {file[i][1] : i \in {j \in from + 1 .. to : file[j][2] = 1}}

\* Unless somebody wrote on behind a torn record, replaying delivers the logged
\* events, whole, in the order they were logged and without a gap from where it
\* started, whether the journal is still being written, was closed or was cut
\* short by a crash.
ReplayFaithful ==
    ~torn =>
        /\ \A i, j \in DOMAIN replayed : i < j => replayed[i] < replayed[j]
        /\ \E end \in start .. Len(file) : Range(replayed) = Begun(start, end)

\* replay_all from the beginning delivers every event a flush returned for,
\* crash or no crash.
FlushedReplayed ==
    [][~torn /\ start = 0 /\ good /\ call = "all" /\ call' = "none"
          => flushed \subseteq Range(replayed)]_vars

\* seek_to_sequence stops in front of the first record that is not before the
\* number sought, and fails only if there is none.
SeekFinds ==
    [][~torn /\ call = "seek" /\ call' = "none" =>
          LET reached(k) == logged[k].sequence >= target
          IN  IF good'
              THEN /\ position' \in 0 .. Len(file) - 1
                   /\ file[position' + 1][2] = 1 /\ reached(file[position' + 1][1])
                   /\ \A i \in 1 .. position' : ~reached(file[i][1])
              ELSE \A k \in Whole(file) : ~reached(k)]_vars

\* In a process that has filled the table of checksums, verify_against returns
\* true if and only if the journal has just the records expected.  What follows a
\* torn record may be hidden from it, nothing before is; and in no process does
\* it accept a journal in which a record differs or is missing.
VerifyExact ==
    [][call = "verify" /\ call' = "none" =>
          LET records == 1 .. expected.length
              same == expected.differs = 0
          IN  /\ ~torn /\ expected.checkable => (agrees' <=> same /\ Whole(file) = records)
              /\ agrees' => same /\ records \subseteq Whole(file)]_vars

\* verify_against accepts a journal that is identical to the one expected ("Verify
\* replay produces identical output", include/replay/event_journal.hpp:168), in any
\* process.  Only the constructor of EventJournal fills the table of checksums: in
\* a process that only reads, verify_checksum is wrong about every record.
IdenticalVerifies ==
    [][call = "verify" /\ call' = "none" /\ ~torn
       /\ expected.differs = 0 /\ Whole(file) = 1 .. expected.length => agrees']_vars
=============================================================================
