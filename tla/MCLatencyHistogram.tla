------------------------ MODULE MCLatencyHistogram --------------------------
(* Latencies on both sides of every kind of boundary between buckets. *)
EXTENDS LatencyHistogram

Boundaries ==
    {0, 127} \cup                   \* linear
    {128, 135, 136} \cup            \* the first two sixteenths
    {255, 256} \cup                 \* the next power of two
    {31743, 31744} \cup             \* the last two buckets
    {1000000} \cup                  \* a millisecond
    {MaxValue, MaxValue + 1}        \* one second
=============================================================================
