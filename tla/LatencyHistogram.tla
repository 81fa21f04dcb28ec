-------------------------- MODULE LatencyHistogram --------------------------
(***************************************************************************)
(* exchange::LatencyHistogram: counters of buckets that are one nanosecond *)
(* wide up to LinearBuckets and a sixteenth of a power of two from there   *)
(* on, from which percentiles are read.  main() records the ticks in one   *)
(* and several may be merged.                                              *)
(*                                                                         *)
(* The buckets that count something form a bag of bucket numbers.          *)
(***************************************************************************)
EXTENDS Integers, Bags, FiniteSetsExt

CONSTANTS
    Histograms,     \* objects of the class
    Latencies,      \* values recorded
    Percentiles,    \* asked for, in tenths of a percent
    MaxRecords,     \* bound of the model: records one histogram counts
    MaxSum          \* bound of the model: nanoseconds one histogram adds up

LinearBuckets == 128
NumBuckets == 256
MaxValue == 1000000000

ASSUME HistogramConstants ==
    /\ Latencies \subseteq Nat /\ MaxRecords \in Nat /\ MaxSum \in Nat
    /\ Percentiles \subseteq 0 .. 1000

VARIABLES
    members,    \* the members of every histogram
    recorded    \* history: the bag of values that went into it

hvars == <<members, recorded>>

-----------------------------------------------------------------------------
\* The number of the highest bit.
Log2(value) == CHOOSE log \in 0 .. 30 : 2^log <= value /\ value < 2^(log + 1)

\* Faulty: values are rounded up to the next sixteenth.
RoundedBucket(value) ==
    IF value < LinearBuckets THEN value
    ELSE IF value >= MaxValue THEN NumBuckets - 1
    ELSE LET log == Log2(value)
             bucket == LinearBuckets + (log - 7) * 16 + ((value \div 2^(log - 4)) % 16) + 1
         IN  Min({bucket, NumBuckets - 1})

\* value_to_bucket.  The last bucket takes everything there is no bucket for.
Bucket(value) ==
    IF value < LinearBuckets THEN value
    ELSE IF value >= MaxValue THEN NumBuckets - 1
    ELSE LET log == Log2(value)
             bucket == LinearBuckets + (log - 7) * 16 + ((value \div 2^(log - 4)) % 16)
         IN  Min({bucket, NumBuckets - 1})

\* bucket_to_value: the least value of a bucket.
LowerBound(bucket) ==
    IF bucket < LinearBuckets THEN bucket
    ELSE IF bucket >= NumBuckets THEN MaxValue
    ELSE LET log == 7 + (bucket - LinearBuckets) \div 16
             sixteenths == (bucket - LinearBuckets) % 16
         IN  2^log + sixteenths * 2^(log - 4)

\* The number of copies of least, ..., most in a bag of numbers.
CountUpTo(bag, most) == MapThenSumSet(LAMBDA n : IF n <= most THEN bag[n] ELSE 0, DOMAIN bag)

-----------------------------------------------------------------------------
Empty == [count |-> 0, sum |-> 0, min |-> MaxValue, max |-> 0, buckets |-> EmptyBag]

HInit ==
    /\ members = [h \in Histograms |-> Empty]
    /\ recorded = [h \in Histograms |-> EmptyBag]

Reset(h) ==
    /\ members' = [members EXCEPT ![h] = Empty]
    /\ recorded' = [recorded EXCEPT ![h] = EmptyBag]

Record(h, value) ==
    LET old == members[h]
    IN  /\ old.count < MaxRecords /\ value <= MaxSum - old.sum
        /\ members' = [members EXCEPT ![h] =
              [count |-> old.count + 1, sum |-> old.sum + value,
               min |-> Min({old.min, value}), max |-> Max({old.max, value}),
               buckets |-> old.buckets (+) SetToBag({Bucket(value)})]]
        /\ recorded' = [recorded EXCEPT ![h] = @ (+) SetToBag({value})]

\* Faulty: the extremes stay those of the histogram merged into.
MergeCounters(h, g) ==
    LET old == members[h] other == members[g]
    IN  /\ old.count + other.count <= MaxRecords /\ other.sum <= MaxSum - old.sum
        /\ members' = [members EXCEPT ![h] =
              [old EXCEPT !.count = @ + other.count, !.sum = @ + other.sum,
                          !.buckets = @ (+) other.buckets]]
        /\ recorded' = [recorded EXCEPT ![h] = @ (+) recorded[g]]

Merge(h, g) ==
    LET old == members[h] other == members[g]
    IN  /\ old.count + other.count <= MaxRecords /\ other.sum <= MaxSum - old.sum
        /\ members' = [members EXCEPT ![h] =
              [count |-> old.count + other.count, sum |-> old.sum + other.sum,
               min |-> Min({old.min, other.min}), max |-> Max({old.max, other.max}),
               buckets |-> old.buckets (+) other.buckets]]
        /\ recorded' = [recorded EXCEPT ![h] = @ (+) recorded[g]]

HNext ==
    \E h \in Histograms :
        \/ Reset(h)
        \/ \E value \in Latencies : Record(h, value)
        \/ \E g \in Histograms : Merge(h, g)

HSpec == HInit /\ [][HNext]_hvars

-----------------------------------------------------------------------------
\* The rank percentile() looks for.
Rank(h, p) == (members[h].count * p) \div 1000

\* percentile(): the first bucket that, with those before it, counts as many
\* records as the rank.  For rank 0 that is the first of all.
Percentile(h, p) ==
    LET buckets == members[h].buckets
        reached == {b \in DOMAIN buckets : CountUpTo(buckets, b) >= Rank(h, p)}
    IN  IF Rank(h, p) = 0 THEN 0 ELSE LowerBound(Min(reached))

Least(h) == IF members[h].count > 0 THEN members[h].min ELSE 0

-----------------------------------------------------------------------------
(***************************************************************************)
(* Properties                                                              *)
(***************************************************************************)

\* The least latency that as many records as the rank do not exceed.
Ranked(h, p) == Min({v \in DOMAIN recorded[h] : CountUpTo(recorded[h], v) >= Rank(h, p)})

\* From here on all latencies share the last bucket.
LastBound == LowerBound(NumBuckets - 1)

\* Whatever was recorded, merged and reset, a percentile is never above the latency
\* of its rank, and below the last bucket at most a sixteenth under it.
PercentileAccurate ==
    \A h \in Histograms, p \in Percentiles :
        Rank(h, p) > 0 =>
            LET exact == Ranked(h, p)
                shown == Percentile(h, p)
            IN  /\ shown <= exact
                /\ exact < LastBound => 16 * (exact - shown) <= exact

\* The histogram tracks latencies "from 1ns to ~1 second"
\* (include/utils/histogram.hpp:12): a percentile in that range is at least of the
\* order of the latency of its rank.  There are buckets up to 31 microseconds only.
TracksToMaxValue ==
    \A h \in Histograms, p \in Percentiles :
        Rank(h, p) > 0 /\ Ranked(h, p) < MaxValue => 2 * Percentile(h, p) >= Ranked(h, p)

\* The figures main() prints agree with each other and with what was recorded:
\* the extremes are those of the records, of all histograms merged, except that
\* nothing is shown as more than a second at least; percentiles are in the order
\* of their ranks and between the extremes, but for a rank of 0 and for what
\* buckets round off.
SummaryConsistent ==
    \A h \in Histograms :
        LET records == DOMAIN recorded[h]
        IN  records # {} =>
                /\ Least(h) = Min(records \cup {MaxValue}) /\ members[h].max = Max(records)
                /\ \A p, q \in Percentiles :
                      p <= q => Percentile(h, p) <= Percentile(h, q)
                /\ \A p \in Percentiles :
                      /\ Percentile(h, p) <= members[h].max
                      /\ Rank(h, p) > 0 => Percentile(h, p) >= LowerBound(Bucket(Least(h)))
=============================================================================
