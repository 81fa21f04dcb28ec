-------------------------- MODULE MCJournalReplay ---------------------------
(* A journal small enough for TLC. *)
EXTENDS JournalReplay

\* Payloads are longer than headers, trades longer than orders, as in the code.
PayloadSizes == [type \in {"OrderNew", "Trade"} |-> IF type = "OrderNew" THEN 2 ELSE 3]

Stray(seq, size, type) == [of |-> 0, sequence |-> seq, size |-> size, type |-> type]

\* No payload, one that fits, one that runs into the next record, and one that
\* runs past the end of any file.
StrayReadings ==
    {Stray(9, 0, "Unknown"), Stray(0, 2, "OrderNew"), Stray(1, 3, "OrderNew"),
     Stray(0, 99, "Trade")}
=============================================================================
