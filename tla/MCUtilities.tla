---------------------------- MODULE MCUtilities -----------------------------
(***************************************************************************)
(* The two utilities that keep state, SPSCQueue and LatencyHistogram.  They *)
(* share nothing and neither calls the other, so a behaviour uses one of   *)
(* them, chosen at its start, and every interleaving of their steps is a   *)
(* shuffle of two such behaviours.                                         *)
(***************************************************************************)
EXTENDS SPSCQueue, MCLatencyHistogram

VARIABLE subject    \* the utility this behaviour uses

mvars == <<vars, hvars, subject>>

UseRing == subject = "ring" /\ Next /\ UNCHANGED <<hvars, subject>>
UseHistogram == subject = "histogram" /\ HNext /\ UNCHANGED <<vars, subject>>

MCInit == Init /\ HInit /\ subject \in {"ring", "histogram"}

\* The fairness of the ring, where a ring is used.
MCSpec ==
    /\ MCInit /\ [][UseRing \/ UseHistogram]_mvars
    /\ subject = "ring" => Fairness
=============================================================================
