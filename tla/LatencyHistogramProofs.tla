----------------------- MODULE LatencyHistogramProofs -----------------------
(***************************************************************************)
(* Theorems about LatencyHistogram, for every set of histograms and of     *)
(* latencies, without bounds: what its percentiles and its extremes have   *)
(* to do with the latencies that were recorded.  The sums over sets are    *)
(* those of LevelQueueProofs.                                              *)
(***************************************************************************)
EXTENDS LatencyHistogram, LevelQueueProofs

-----------------------------------------------------------------------------
(* Buckets *)

\* The powers of two below 2^32, as a function.
Pow == [n \in 0 .. 31 |-> 2^n]

LEMMA Powers ==
    /\ Pow[0] = 1 /\ Pow[1] = 2 /\ Pow[2] = 4 /\ Pow[3] = 8 /\ Pow[4] = 16
    /\ Pow[5] = 32 /\ Pow[6] = 64 /\ Pow[7] = 128 /\ Pow[8] = 256 /\ Pow[9] = 512
    /\ Pow[10] = 1024 /\ Pow[11] = 2048 /\ Pow[12] = 4096 /\ Pow[13] = 8192
    /\ Pow[14] = 16384 /\ Pow[15] = 32768 /\ Pow[16] = 65536 /\ Pow[17] = 131072
    /\ Pow[18] = 262144 /\ Pow[19] = 524288 /\ Pow[20] = 1048576
    /\ Pow[21] = 2097152 /\ Pow[22] = 4194304 /\ Pow[23] = 8388608
    /\ Pow[24] = 16777216 /\ Pow[25] = 33554432 /\ Pow[26] = 67108864
    /\ Pow[27] = 134217728 /\ Pow[28] = 268435456 /\ Pow[29] = 536870912
    /\ Pow[30] = 1073741824 /\ Pow[31] = 2147483648
BY SMTT(30) DEF Pow

LEMMA PowIs ==
    \A n \in 0 .. 30 : /\ 2^n = Pow[n] /\ 2^(n + 1) = Pow[n + 1]
                       /\ Pow[n] \in Nat /\ Pow[n + 1] = 2 * Pow[n]
<1>1. \A n \in 0 .. 31 : 2^n = Pow[n]
  BY SMTT(30) DEF Pow
<1>2. ASSUME NEW n \in 0 .. 30 PROVE 2^n = Pow[n] /\ 2^(n + 1) = Pow[n + 1]
  <2>1. n \in 0 .. 31 /\ n + 1 \in 0 .. 31
    OBVIOUS
  <2> QED
    BY <1>1, <2>1
<1>3. \A n \in 0 .. 30 : Pow[n] \in Nat /\ Pow[n + 1] = 2 * Pow[n]
  BY Powers, SMTT(60)
<1> QED
  BY <1>2, <1>3

\* The numbers with a highest bit that matters have one.
LEMMA HighestBit ==
    ASSUME NEW value \in Nat, LinearBuckets <= value, value < MaxValue
    PROVE  /\ Log2(value) \in 7 .. 29
           /\ Pow[Log2(value)] <= value /\ value < Pow[Log2(value) + 1]
<1>1. \E log \in 0 .. 30 : Pow[log] <= value /\ value < Pow[log + 1]
  BY Powers, SMTT(30) DEF LinearBuckets, MaxValue
<1>2. \E log \in 0 .. 30 : 2^log <= value /\ value < 2^(log + 1)
  BY <1>1, PowIs
<1>3. Log2(value) \in 0 .. 30 /\ 2^Log2(value) <= value /\ value < 2^(Log2(value) + 1)
  BY <1>2 DEF Log2
<1> DEFINE log == Log2(value)
<1> HIDE DEF log
<1>4. log \in 0 .. 30 /\ Pow[log] <= value /\ value < Pow[log + 1]
  BY <1>3, PowIs DEF log
<1>5. log \in 0 .. 6 => Pow[log + 1] <= LinearBuckets
  BY Powers, SMTT(30) DEF LinearBuckets
<1>6. log # 30
  BY <1>4, Powers, SMTT(30) DEF MaxValue
<1>7. log \in 7 .. 29
  BY <1>4, <1>5, <1>6, PowIs, SMTT(30) DEF LinearBuckets
<1> QED
  BY <1>4, <1>7 DEF log

LEMMA MinOfTwo ==
    ASSUME NEW a \in Int, NEW b \in Int
    PROVE  Min({a, b}) = IF a <= b THEN a ELSE b
<1> DEFINE least == IF a <= b THEN a ELSE b
<1>1. least \in {a, b} /\ \A y \in {a, b} : least <= y
  OBVIOUS
<1>2. \A x \in {a, b} : (\A y \in {a, b} : x <= y) => x = least
  OBVIOUS
<1> QED
  BY <1>1, <1>2 DEF Min

\* A value from 16 to 32 times a unit is a number of units and something.
LEMMA Sixteenths ==
    ASSUME NEW value \in Nat, NEW unit \in {8, 16, 32, 64, 128, 256, 512, 1024},
           16 * unit <= value, value < 32 * unit
    PROVE  /\ value \div unit \in 16 .. 31 /\ (value \div unit) % 16 = (value \div unit) - 16
           /\ (value \div unit) * unit <= value
           /\ value < ((value \div unit) + 1) * unit
<1> DEFINE q == value \div unit
<1>1. q \in 16 .. 31 /\ q * unit <= value /\ value < (q + 1) * unit
  <2>1. CASE unit = 8
    BY <2>1, SMTT(30)
  <2>2. CASE unit = 16
    BY <2>2, SMTT(30)
  <2>3. CASE unit = 32
    BY <2>3, SMTT(30)
  <2>4. CASE unit = 64
    BY <2>4, SMTT(30)
  <2>5. CASE unit = 128
    BY <2>5, SMTT(30)
  <2>6. CASE unit = 256
    BY <2>6, SMTT(30)
  <2>7. CASE unit = 512
    BY <2>7, SMTT(30)
  <2>8. CASE unit = 1024
    BY <2>8, SMTT(30)
  <2> QED
    BY <2>1, <2>2, <2>3, <2>4, <2>5, <2>6, <2>7, <2>8
<1> HIDE DEF q
<1>2. q % 16 = q - 16
  BY <1>1, SMTT(30)
<1> QED
  BY <1>1, <1>2 DEF q

\* What Bucket computes.
LEMMA BucketIs ==
    /\ \A value \in Nat : value < LinearBuckets => Bucket(value) = value
    /\ \A value \in Nat : value >= MaxValue => Bucket(value) = 255
    /\ \A value \in Nat : LinearBuckets <= value /\ value < MaxValue =>
          LET log == Log2(value)
              place == 128 + (log - 7) * 16 + ((value \div Pow[log - 4]) % 16)
          IN  Bucket(value) = Min({place, 255})
<1>1. LinearBuckets = 128 /\ NumBuckets - 1 = 255 /\ MaxValue \in Nat /\ MaxValue > 128
  BY SMTT(30) DEF LinearBuckets, NumBuckets, MaxValue
<1>2. ASSUME NEW value \in Nat, LinearBuckets <= value, value < MaxValue
      PROVE  2^(Log2(value) - 4) = Pow[Log2(value) - 4]
  <2>1. Log2(value) - 4 \in 0 .. 30
    BY <1>2, HighestBit
  <2> QED
    BY <2>1, PowIs
<1> HIDE DEF LinearBuckets, NumBuckets, MaxValue
<1>3. \A value \in Nat : value < LinearBuckets => Bucket(value) = value
  BY DEF Bucket
<1>4. \A value \in Nat : value >= MaxValue => Bucket(value) = 255
  BY <1>1 DEF Bucket
<1>5. ASSUME NEW value \in Nat, LinearBuckets <= value, value < MaxValue
      PROVE  Bucket(value) = Min({128 + (Log2(value) - 7) * 16
                                     + ((value \div Pow[Log2(value) - 4]) % 16), 255})
  <2>1. ~(value < LinearBuckets) /\ ~(value >= MaxValue)
    BY <1>1, <1>5
  <2> QED
    BY <1>1, <1>2, <1>5, <2>1 DEF Bucket
<1> QED
  BY <1>3, <1>4, <1>5

LEMMA SixteenTimes ==
    \A n \in 7 .. 30 : Pow[n] = 16 * Pow[n - 4] /\ Pow[n - 4] \in Nat \ {0}
BY Powers, SMTT(60)

LEMMA Units == \A n \in 7 .. 14 : Pow[n - 4] \in {8, 16, 32, 64, 128, 256, 512, 1024}
BY Powers, SMTT(30)

\* The buckets of a power of two begin at its sixteenths.
LEMMA LowerBoundIs ==
    ASSUME NEW log \in 7 .. 14, NEW q \in 16 .. 31
    PROVE  LET bucket == 128 + (log - 7) * 16 + (q - 16)
           IN  bucket \in 128 .. 255 /\ LowerBound(bucket) = q * Pow[log - 4]
<1> DEFINE bucket == 128 + (log - 7) * 16 + (q - 16)
<1>1. /\ bucket \in 128 .. 255
      /\ 7 + (bucket - 128) \div 16 = log /\ (bucket - 128) % 16 = q - 16
  BY SMTT(30)
<1> HIDE DEF bucket
<1>2. log \in 0 .. 30 /\ log - 4 \in 0 .. 30 /\ log \in 7 .. 30
  OBVIOUS
<1>3. 2^log = 16 * Pow[log - 4] /\ 2^(log - 4) = Pow[log - 4] /\ Pow[log - 4] \in Nat
  BY <1>2, PowIs, SixteenTimes
<1>4. LowerBound(bucket) = 2^log + (q - 16) * 2^(log - 4)
  <2>1. ~(bucket < 128) /\ ~(bucket >= 256)
    BY <1>1
  <2>2. LowerBound(bucket)
           = 2^(7 + (bucket - 128) \div 16)
                + ((bucket - 128) % 16) * 2^((7 + (bucket - 128) \div 16) - 4)
    BY <2>1, Zenon DEF LowerBound, LinearBuckets, NumBuckets
  <2> QED
    BY <1>1, <2>2, Zenon
<1>5. LowerBound(bucket) = q * Pow[log - 4]
  <2> DEFINE u == Pow[log - 4]
  <2>1. u \in Nat /\ LowerBound(bucket) = 16 * u + (q - 16) * u
    BY <1>3, <1>4
  <2> HIDE DEF u
  <2>2. 16 * u + (q - 16) * u = q * u
    BY <2>1, SMTT(30)
  <2> QED
    BY <2>1, <2>2 DEF u
<1> QED
  BY <1>1, <1>5 DEF bucket

\* The next bucket begins a sixteenth later, in the next power of two too.
LEMMA NextLowerBound ==
    ASSUME NEW log \in 7 .. 14, NEW q \in 16 .. 31
    PROVE  LET bucket == 128 + (log - 7) * 16 + (q - 16)
           IN  bucket < 255 => LowerBound(bucket + 1) = (q + 1) * Pow[log - 4]
<1> DEFINE bucket == 128 + (log - 7) * 16 + (q - 16)
<1> SUFFICES ASSUME bucket < 255 PROVE LowerBound(bucket + 1) = (q + 1) * Pow[log - 4]
  OBVIOUS
<1>1. CASE q < 31
  <2> DEFINE r == q + 1
  <2>1. r \in 16 .. 31 /\ bucket + 1 = 128 + (log - 7) * 16 + (r - 16)
    BY <1>1
  <2> HIDE DEF r
  <2>2. LowerBound(bucket + 1) = r * Pow[log - 4]
    BY <2>1, LowerBoundIs
  <2> QED
    BY <2>2 DEF r
<1>2. CASE q = 31
  <2> DEFINE next == log + 1
  <2>1. next \in 7 .. 14 /\ bucket + 1 = 128 + (next - 7) * 16 + (16 - 16)
    BY <1>2
  <2>2. LowerBound(bucket + 1) = 16 * Pow[next - 4]
    <3> HIDE DEF next, bucket
    <3>1. 16 \in 16 .. 31
      OBVIOUS
    <3> QED
      BY <2>1, <3>1, LowerBoundIs
  <2>3. next - 4 = (log - 4) + 1 /\ log - 4 \in 0 .. 30
    OBVIOUS
  <2>4. Pow[next - 4] = 2 * Pow[log - 4] /\ Pow[log - 4] \in Nat
    BY <2>3, PowIs
  <2> QED
    BY <1>2, <2>2, <2>4
<1> QED
  BY <1>1, <1>2

\* Buckets from the first sixteenth on, by power of two and sixteenth.
LEMMA BucketsNumbered ==
    ASSUME NEW bucket \in 128 .. 255
    PROVE  \E log \in 7 .. 14, q \in 16 .. 31 : bucket = 128 + (log - 7) * 16 + (q - 16)
<1> DEFINE place == bucket - 128
           power == place \div 16
           rest == place % 16
           q == 16 + rest
           log == 7 + power
<1>1. place \in 0 .. 127 /\ bucket = 128 + place
  OBVIOUS
<1> HIDE DEF place
<1>2. power \in 0 .. 7 /\ rest \in 0 .. 15 /\ place = 16 * power + rest
  BY <1>1, SMTT(30)
<1> HIDE DEF power, rest
<1>3. q \in 16 .. 31 /\ place = 16 * power + (q - 16)
  BY <1>2
<1> HIDE DEF q
<1>4. log \in 7 .. 14 /\ bucket = 128 + (log - 7) * 16 + (q - 16)
  BY <1>1, <1>2, <1>3
<1> QED
  BY <1>3, <1>4

\* Each bucket begins above the one before it.
LEMMA LowerBoundGrows ==
    ASSUME NEW bucket \in 0 .. 254
    PROVE  LowerBound(bucket) \in Nat /\ LowerBound(bucket + 1) \in Nat
           /\ LowerBound(bucket) < LowerBound(bucket + 1)
<1>1. \A b \in 0 .. 127 : LowerBound(b) = b
  BY DEF LowerBound, LinearBuckets
<1>2. CASE bucket < 127
  BY <1>1, <1>2
<1>3. CASE bucket = 127
  <2>1. 7 \in 7 .. 14 /\ 16 \in 16 .. 31 /\ 128 + (7 - 7) * 16 + (16 - 16) = 128 /\ 7 - 4 = 3
    OBVIOUS
  <2>2. LowerBound(128) = 16 * Pow[3]
    BY <2>1, LowerBoundIs
  <2>3. Pow[3] = 8
    BY Powers, SMTT(30)
  <2>4. LowerBound(128) = 128 /\ LowerBound(127) = 127
    BY <1>1, <2>2, <2>3
  <2> QED
    BY <1>3, <2>4
<1>4. CASE bucket \in 128 .. 254
  <2>1. PICK log \in 7 .. 14, q \in 16 .. 31 : bucket = 128 + (log - 7) * 16 + (q - 16)
    BY <1>4, BucketsNumbered
  <2> DEFINE u == Pow[log - 4]
  <2>2. u \in Nat \ {0}
    BY SixteenTimes
  <2>3. LowerBound(bucket) = q * u /\ LowerBound(bucket + 1) = (q + 1) * u
    BY <1>4, <2>1, LowerBoundIs, NextLowerBound
  <2> HIDE DEF u
  <2>4. q * u \in Nat /\ (q + 1) * u = q * u + u
    BY <2>2, SMTT(30)
  <2> QED
    BY <2>2, <2>3, <2>4
<1> QED
  BY <1>2, <1>3, <1>4

LEMMA LowerBoundIsNat == \A bucket \in 0 .. 255 : LowerBound(bucket) \in Nat
<1>1. \A bucket \in 0 .. 254 : LowerBound(bucket) \in Nat /\ LowerBound(bucket + 1) \in Nat
  BY LowerBoundGrows
<1>2. 254 \in 0 .. 254 /\ 254 + 1 = 255
  OBVIOUS
<1>3. LowerBound(255) \in Nat
  BY <1>1, <1>2
<1> QED
  BY <1>1, <1>3

LEMMA LowerBoundOrder ==
    ASSUME NEW low \in 0 .. 255, NEW high \in 0 .. 255, low <= high
    PROVE  LowerBound(low) <= LowerBound(high)
<1> DEFINE n == high - low
           K == {i \in 0 .. n : LowerBound(low) <= LowerBound(low + i)}
<1>1. n \in Nat
  OBVIOUS
<1>2. 0 \in K
  <2>1. low + 0 = low /\ LowerBound(low) \in Nat
    BY LowerBoundIsNat
  <2> QED
    BY <1>1, <2>1
<1>3. ASSUME NEW i \in 0 .. n - 1, i \in K PROVE i + 1 \in K
  <2> DEFINE bucket == low + i
  <2>1. bucket \in 0 .. 254 /\ low + (i + 1) = bucket + 1 /\ i + 1 \in 0 .. n
    OBVIOUS
  <2>2. LowerBound(low) \in Nat /\ LowerBound(low) <= LowerBound(bucket)
    BY <1>3, LowerBoundIsNat
  <2> HIDE DEF bucket
  <2>3. LowerBound(low) <= LowerBound(bucket + 1)
    BY <2>1, <2>2, LowerBoundGrows
  <2> QED
    BY <2>1, <2>3
<1>4. n \in 0 .. n /\ low + n = high
  OBVIOUS
<1> HIDE DEF n, K
<1>5. n \in K
  BY <1>1, <1>2, <1>3, <1>4, InductionUpTo
<1> QED
  BY <1>4, <1>5 DEF K

\* A value is in the last bucket that begins no later, a sixteenth of it above
\* the beginning at most, unless it is in the very last.
LEMMA BucketHolds ==
    ASSUME NEW value \in Nat
    PROVE  /\ Bucket(value) \in 0 .. 255
           /\ LowerBound(Bucket(value)) <= value
           /\ Bucket(value) < 255 =>
                 /\ value < LowerBound(Bucket(value) + 1)
                 /\ 16 * (value - LowerBound(Bucket(value))) <= value
           /\ value < LowerBound(255) <=> Bucket(value) < 255
<1>1. LinearBuckets = 128 /\ MaxValue \in Nat
  BY SMTT(30) DEF LinearBuckets, MaxValue
<1>2. LowerBound(255) = 31 * Pow[10] /\ LowerBound(255) \in Nat
  <2>1. 14 \in 7 .. 14 /\ 31 \in 16 .. 31 /\ 128 + (14 - 7) * 16 + (31 - 16) = 255 /\ 14 - 4 = 10
    OBVIOUS
  <2> QED
    BY <2>1, LowerBoundIs, LowerBoundIsNat
<1>3. LowerBound(255) >= 128 /\ LowerBound(255) <= Pow[15] /\ LowerBound(255) <= MaxValue
      /\ Pow[15] \in Nat
  BY <1>2, Powers, SMTT(30) DEF MaxValue
<1>4. CASE value < 128
  <2>1. Bucket(value) = value /\ LowerBound(value) = value /\ value \in 0 .. 254
    BY <1>1, <1>4, BucketIs DEF LowerBound
  <2>2. LowerBound(value) < LowerBound(value + 1) /\ LowerBound(value + 1) \in Nat
    BY <2>1, LowerBoundGrows
  <2> HIDE DEF LinearBuckets
  <2> QED
    BY <1>2, <1>3, <1>4, <2>1, <2>2
<1>5. CASE value >= MaxValue
  <2>1. Bucket(value) = 255
    BY <1>5, BucketIs
  <2> QED
    BY <1>1, <1>2, <1>3, <1>5, <2>1
<1>6. CASE 128 <= value /\ value < MaxValue
  <2> DEFINE log == Log2(value)
             unit == Pow[log - 4]
             q == value \div unit
  <2>1. log \in 7 .. 29 /\ Pow[log] <= value /\ value < Pow[log + 1]
    BY <1>1, <1>6, HighestBit
  <2>2. Bucket(value) = Min({128 + (log - 7) * 16 + (q % 16), 255})
    BY <1>1, <1>6, BucketIs
  <2> HIDE DEF log
  <2>3. /\ Pow[log] = 16 * unit /\ unit \in Nat \ {0}
        /\ Pow[log + 1] = 2 * Pow[log]
    <3>1. log \in 7 .. 30 /\ log \in 0 .. 30
      BY <2>1
    <3> QED
      BY <3>1, SixteenTimes, PowIs
  <2>4. CASE log >= 15
    <3> HIDE DEF unit
    <3>1. q \in Int
      BY <2>3, SMTT(30)
    <3> HIDE DEF q
    <3>2. q % 16 \in 0 .. 15
      BY <3>1
    <3>3. 128 + (log - 7) * 16 + (q % 16) > 255 /\ 128 + (log - 7) * 16 + (q % 16) \in Int
      BY <2>1, <2>4, <3>2
    <3>4. Bucket(value) = 255
      BY <2>2, <3>3, MinOfTwo
    <3>5. Pow[log] >= Pow[15]
      BY <2>1, <2>4, Powers, SMTT(60)
    <3> QED
      BY <1>2, <1>3, <2>1, <2>3, <3>4, <3>5
  <2>5. CASE log \in 7 .. 14
    <3>1. unit \in {8, 16, 32, 64, 128, 256, 512, 1024}
      BY <2>5, Units
    <3> HIDE DEF unit
    <3>2. 16 * unit <= value /\ value < 32 * unit
      BY <2>1, <2>3
    <3>3. /\ q \in 16 .. 31 /\ q % 16 = q - 16
          /\ q * unit <= value /\ value < (q + 1) * unit
      BY <3>1, <3>2, Sixteenths
    <3> HIDE DEF q
    <3> DEFINE bucket == 128 + (log - 7) * 16 + (q - 16)
    <3>4. /\ bucket \in 128 .. 255 /\ LowerBound(bucket) = q * unit
          /\ bucket < 255 => LowerBound(bucket + 1) = (q + 1) * unit
      BY <2>5, <3>3, LowerBoundIs, NextLowerBound DEF unit
    <3>5. Bucket(value) = bucket
      <4>1. 128 + (log - 7) * 16 + (q % 16) = bucket
        BY <3>3
      <4> HIDE DEF bucket
      <4>2. bucket \in Int /\ bucket <= 255
        BY <3>4
      <4>3. Bucket(value) = Min({bucket, 255})
        BY <2>2, <4>1
      <4> QED
        BY <4>2, <4>3, MinOfTwo
    <3> HIDE DEF bucket
    <3>6. LowerBound(bucket) \in Nat /\ LowerBound(bucket) <= value
          /\ (bucket < 255 => value < LowerBound(bucket + 1))
      BY <3>3, <3>4, LowerBoundIsNat
    <3>7. 16 * (value - LowerBound(bucket)) <= value
      <4>1. (q + 1) * unit = q * unit + unit /\ q * unit \in Nat
        BY <2>3, <3>3, SMTT(30)
      <4> QED
        BY <2>3, <3>2, <3>3, <3>4, <4>1
    <3>8. bucket < 255 => value < LowerBound(255)
      <4> SUFFICES ASSUME bucket < 255 PROVE value < LowerBound(255)
        OBVIOUS
      <4>1. bucket + 1 \in 0 .. 255 /\ 255 \in 0 .. 255 /\ bucket + 1 <= 255
        BY <3>4
      <4>2. LowerBound(bucket + 1) <= LowerBound(255) /\ LowerBound(bucket + 1) \in Nat
        BY <4>1, LowerBoundOrder, LowerBoundIsNat
      <4> QED
        BY <1>2, <3>6, <4>2
    <3>9. bucket = 255 => ~(value < LowerBound(255))
      BY <1>2, <3>6
    <3> QED
      BY <3>4, <3>5, <3>6, <3>7, <3>8, <3>9
  <2> QED
    BY <2>1, <2>4, <2>5
<1> QED
  BY <1>1, <1>4, <1>5, <1>6

LEMMA BucketOrder ==
    ASSUME NEW low \in Nat, NEW high \in Nat, low <= high
    PROVE  Bucket(low) <= Bucket(high)
<1>0. Bucket(low) \in 0 .. 255 /\ Bucket(high) \in 0 .. 255
  BY BucketHolds
<1> SUFFICES ASSUME ~(Bucket(low) <= Bucket(high)) PROVE FALSE
  OBVIOUS
<1> DEFINE a == Bucket(high)
           b == Bucket(low)
<1>1. a \in 0 .. 255 /\ b \in 0 .. 255 /\ ~(b <= a)
  BY ONLY <1>0, ~(Bucket(low) <= Bucket(high))
<1>2. LowerBound(b) <= low
  BY BucketHolds
<1>3. a < 255 => high < LowerBound(a + 1)
  BY BucketHolds
<1> HIDE DEF a, b
<1>4. a + 1 \in 0 .. 255 /\ a + 1 <= b /\ a < 255
  BY <1>1
<1>5. LowerBound(a + 1) <= LowerBound(b) /\ LowerBound(a + 1) \in Nat /\ LowerBound(b) \in Nat
  BY <1>1, <1>4, LowerBoundOrder, LowerBoundIsNat
<1> QED
  BY <1>2, <1>3, <1>4, <1>5

-----------------------------------------------------------------------------
(* Bags of numbers *)

\* A finite bag of numbers.
Numbers(bag) ==
    /\ IsFiniteSet(DOMAIN bag) /\ DOMAIN bag \in SUBSET Nat
    /\ bag \in [DOMAIN bag -> Nat \ {0}]

\* A family of subsets that has the empty set, and with a set every set of one
\* element more, has them all.
LEMMA InductionOnSubsets ==
    ASSUME NEW S, IsFiniteSet(S), NEW K, {} \in K,
           \A s \in SUBSET S : \A x \in S \ s : s \in K => s \cup {x} \in K
    PROVE  \A s \in SUBSET S : s \in K
<1> DEFINE most == Cardinality(S)
           Holds(n) == \A s \in SUBSET S : Cardinality(s) = n => s \in K
           N == {n \in 0 .. most : Holds(n)}
<1>1. most \in Nat
  BY FS_CardinalityType
<1>2. ASSUME NEW s \in SUBSET S
      PROVE  /\ IsFiniteSet(s) /\ Cardinality(s) \in Nat /\ Cardinality(s) <= most
             /\ Cardinality(s) = 0 <=> s = {}
  BY FS_Subset, FS_CardinalityType, FS_EmptySet
<1>3. 0 \in N
  <2>1. Holds(0)
    BY <1>2
  <2> QED
    BY <1>1, <2>1
<1>4. ASSUME NEW n \in 0 .. most - 1, n \in N PROVE n + 1 \in N
  <2>1. n \in Nat /\ n + 1 \in 0 .. most /\ n + 1 # 0
    BY <1>1
  <2>2. ASSUME NEW s \in SUBSET S, Cardinality(s) = n + 1 PROVE s \in K
    <3>1. PICK x \in s : TRUE
      BY <1>2, <2>1, <2>2
    <3> DEFINE rest == s \ {x}
    <3>2. rest \in SUBSET S /\ x \in S \ rest /\ rest \cup {x} = s
      BY <3>1
    <3>3. Cardinality(rest) = Cardinality(s) - 1
      BY <1>2, FS_RemoveElement
    <3> HIDE DEF rest
    <3>4. Cardinality(rest) = n
      BY <2>1, <2>2, <3>3
    <3>5. rest \in K
      BY <1>4, <3>2, <3>4
    <3> QED
      BY <3>2, <3>5
  <2> QED
    BY <2>1, <2>2
<1> HIDE DEF N
<1>5. \A n \in 0 .. most : n \in N
  BY <1>1, <1>3, <1>4, InductionUpTo
<1> HIDE DEF most
<1>6. ASSUME NEW s \in SUBSET S PROVE s \in K
  <2>1. Cardinality(s) \in 0 .. most
    BY <1>1, <1>2
  <2>2. Cardinality(s) \in N
    BY <1>5, <2>1
  <2> QED
    BY <2>2 DEF N
<1> QED
  BY <1>6

\* One element more.
LEMMA SumWith ==
    ASSUME NEW S, IsFiniteSet(S), NEW f, \A x \in S : f[x] \in Nat,
           NEW h, AddsUp(h, f, S)
    PROVE  /\ h[{}] = 0
           /\ \A s \in SUBSET S : h[s] \in Nat
           /\ \A s \in SUBSET S : \A x \in S \ s : h[s \cup {x}] = f[x] + h[s]
<1>1. h[{}] = 0 /\ \A s \in SUBSET S : h[s] \in Nat
  BY DEF AddsUp
<1>2. ASSUME NEW s \in SUBSET S, NEW x \in S \ s PROVE h[s \cup {x}] = f[x] + h[s]
  <2> DEFINE t == s \cup {x}
  <2>1. t \in SUBSET S /\ x \in t /\ t \ {x} = s
    OBVIOUS
  <2> HIDE DEF t
  <2>2. h[t] = f[x] + h[t \ {x}]
    BY <2>1, SumWithout
  <2> QED
    BY <2>1, <2>2 DEF t
<1> QED
  BY <1>1, <1>2

\* g has the numbers of f for the elements of a part, and 0 for the others.
Chosen(g, f, part, S) == \A x \in S : g[x] = IF x \in part THEN f[x] ELSE 0

\* A sum over the elements of a part.
LEMMA SumOfChosen ==
    ASSUME NEW S, IsFiniteSet(S), NEW f, \A x \in S : f[x] \in Nat, NEW part,
           NEW g, Chosen(g, f, part, S),
           NEW h, AddsUp(h, f, S), NEW k, AddsUp(k, g, S)
    PROVE  \A s \in SUBSET S : k[s] = h[s \cap part]
<1> DEFINE K == {s \in SUBSET S : k[s] = h[s \cap part]}
<1>0. \A x \in S : (x \in part => g[x] = f[x]) /\ (x \notin part => g[x] = 0)
  BY DEF Chosen
<1>1. \A x \in S : g[x] \in Nat
  BY <1>0
<1>2. /\ h[{}] = 0
      /\ \A s \in SUBSET S : h[s] \in Nat
      /\ \A s \in SUBSET S : \A x \in S \ s : h[s \cup {x}] = f[x] + h[s]
  BY SumWith
<1>3. /\ k[{}] = 0
      /\ \A s \in SUBSET S : \A x \in S \ s : k[s \cup {x}] = g[x] + k[s]
  BY <1>1, SumWith
<1>4. {} \in K
  BY <1>2, <1>3
<1>5. ASSUME NEW s \in SUBSET S, NEW x \in S \ s, s \in K PROVE s \cup {x} \in K
  <2>1. k[s \cup {x}] = g[x] + h[s \cap part] /\ h[s \cap part] \in Nat
    BY <1>2, <1>3, <1>5
  <2>2. CASE x \in part
    <3> DEFINE t == s \cap part
    <3>1. t \in SUBSET S /\ x \in S \ t /\ (s \cup {x}) \cap part = t \cup {x}
      BY <2>2
    <3>2. h[t \cup {x}] = f[x] + h[t]
      BY <1>2, <3>1
    <3>3. g[x] = f[x]
      BY <1>0, <2>2
    <3> QED
      BY <2>1, <3>1, <3>2, <3>3
  <2>3. CASE x \notin part
    <3>1. (s \cup {x}) \cap part = s \cap part /\ g[x] = 0
      BY <1>0, <2>3
    <3>2. k[s \cup {x}] = h[s \cap part]
      BY <2>1, <3>1
    <3> QED
      BY <3>1, <3>2
  <2> QED
    BY <2>2, <2>3
<1> HIDE DEF K
<1>6. \A s \in SUBSET S : s \in K
  BY <1>4, <1>5, InductionOnSubsets
<1> QED
  BY <1>6 DEF K

\* CountUpTo counts what the sums over the bag count.
LEMMA CountIs ==
    ASSUME NEW bag, Numbers(bag), NEW h, AddsUp(h, bag, DOMAIN bag), NEW most
    PROVE  CountUpTo(bag, most) = h[{n \in DOMAIN bag : n <= most}]
<1> DEFINE S == DOMAIN bag
           V(n) == IF n <= most THEN bag[n] ELSE 0
           chosen == [n \in S |-> V(n)]
           part == {n \in S : n <= most}
           Sum(g) == [s \in SUBSET S |->
                        IF s = {} THEN 0
                        ELSE V(CHOOSE x \in s : TRUE) + g[s \ {CHOOSE x \in s : TRUE}]]
           k == CHOOSE g : g = Sum(g)
<1>1. IsFiniteSet(S) /\ \A x \in S : bag[x] \in Nat
  BY DEF Numbers
<1>2. \A x \in S : chosen[x] = V(x) /\ V(x) \in Nat
  BY <1>1
<1>3. Chosen(chosen, bag, part, S)
  BY DEF Chosen
<1>4. CountUpTo(bag, most) = k[S]
  BY DEF CountUpTo, MapThenSumSet, MapThenFoldSet
<1> HIDE DEF S, V, chosen, part
<1>5. PICK g : AddsUp(g, chosen, S)
  BY <1>1, <1>2, AddsUpExists
<1>6. \A s \in (SUBSET S) \ {{}} : OneOf(s) \in s /\ chosen[OneOf(s)] = V(OneOf(s))
  BY <1>2 DEF OneOf
<1>7. g = Sum(g)
  <2>1. ASSUME NEW s \in SUBSET S
        PROVE  g[s] = IF s = {} THEN 0
                      ELSE V(CHOOSE x \in s : TRUE) + g[s \ {CHOOSE x \in s : TRUE}]
    <3>1. CASE s = {}
      BY <1>5, <3>1 DEF AddsUp
    <3>2. CASE s # {}
      BY <1>5, <1>6, <3>2 DEF AddsUp, OneOf
    <3> QED
      BY <3>1, <3>2
  <2>2. g \in [SUBSET S -> Nat]
    BY <1>5 DEF AddsUp
  <2> QED
    BY <2>1, <2>2
<1>8. k = Sum(k)
  <2> HIDE DEF Sum
  <2> QED
    BY <1>7
<1> HIDE DEF k
<1>9. \A s \in (SUBSET S) \ {{}} : k[s] = chosen[OneOf(s)] + k[s \ {OneOf(s)}]
  BY <1>6, <1>8 DEF OneOf
<1>10. k[{}] = 0
  BY <1>8
<1>11. \A x \in S : chosen[x] \in Nat
  BY <1>2
<1>12. \A s \in SUBSET S : k[s] \in Nat
  BY <1>1, <1>9, <1>10, <1>11, SumsOverSets
<1>13. k \in [SUBSET S -> Nat]
  BY <1>8, <1>12
<1>14. AddsUp(k, chosen, S)
  BY <1>9, <1>10, <1>13 DEF AddsUp
<1>15. AddsUp(h, bag, S)
  BY DEF S
<1> HIDE DEF k
<1>16. k[S] = h[S \cap part]
  <2>1. \A s \in SUBSET S : k[s] = h[s \cap part]
    BY <1>1, <1>3, <1>14, <1>15, SumOfChosen
  <2> QED
    BY <2>1
<1>17. S \cap part = {n \in DOMAIN bag : n <= most}
  BY DEF S, part
<1> QED
  BY <1>4, <1>16, <1>17

LEMMA NoneIs == Numbers(EmptyBag) /\ DOMAIN EmptyBag = {}
BY FS_EmptySet DEF EmptyBag, SetToBag, Numbers

LEMMA OneIs ==
    ASSUME NEW x \in Nat
    PROVE  /\ Numbers(SetToBag({x}))
           /\ DOMAIN SetToBag({x}) = {x} /\ SetToBag({x})[x] = 1
<1>1. IsFiniteSet({x})
  BY FS_Singleton
<1> QED
  BY <1>1 DEF SetToBag, Numbers

LEMMA JoinIs ==
    ASSUME NEW a, Numbers(a), NEW b, Numbers(b)
    PROVE  /\ Numbers(a (+) b) /\ DOMAIN (a (+) b) = DOMAIN a \cup DOMAIN b
           /\ \A x \in DOMAIN a \cup DOMAIN b :
                 (a (+) b)[x] = (IF x \in DOMAIN a THEN a[x] ELSE 0)
                                   + (IF x \in DOMAIN b THEN b[x] ELSE 0)
<1> DEFINE c == a (+) b
<1>1. /\ c = [x \in DOMAIN c |-> c[x]] /\ DOMAIN c = DOMAIN a \cup DOMAIN b
      /\ \A x \in DOMAIN a \cup DOMAIN b :
            c[x] = (IF x \in DOMAIN a THEN a[x] ELSE 0) + (IF x \in DOMAIN b THEN b[x] ELSE 0)
  BY DEF (+)
<1> HIDE DEF c
<1>2. \A x \in DOMAIN a : a[x] \in Nat \ {0}
  BY DEF Numbers
<1>3. \A x \in DOMAIN b : b[x] \in Nat \ {0}
  BY DEF Numbers
<1>4. ASSUME NEW x \in DOMAIN c PROVE c[x] \in Nat \ {0}
  BY <1>1, <1>2, <1>3
<1>5. IsFiniteSet(DOMAIN c) /\ DOMAIN c \in SUBSET Nat
  <2>1. /\ IsFiniteSet(DOMAIN a) /\ DOMAIN a \in SUBSET Nat
        /\ IsFiniteSet(DOMAIN b) /\ DOMAIN b \in SUBSET Nat
    BY DEF Numbers
  <2>2. IsFiniteSet((DOMAIN a) \cup (DOMAIN b))
    BY <2>1, FS_Union
  <2> QED
    BY <1>1, <2>1, <2>2
<1>6. Numbers(c)
  BY <1>1, <1>4, <1>5 DEF Numbers
<1> QED
  BY <1>1, <1>6 DEF c

\* A joined bag counts what both count.
LEMMA SumOfJoin ==
    ASSUME NEW a, Numbers(a), NEW b, Numbers(b),
           NEW f, AddsUp(f, a, DOMAIN a), NEW g, AddsUp(g, b, DOMAIN b),
           NEW h, AddsUp(h, a (+) b, DOMAIN (a (+) b))
    PROVE  \A s \in SUBSET DOMAIN (a (+) b) : h[s] = f[s \cap DOMAIN a] + g[s \cap DOMAIN b]
<1> DEFINE c == a (+) b
           A == DOMAIN a
           B == DOMAIN b
           S == DOMAIN c
           K == {s \in SUBSET S : h[s] = f[s \cap A] + g[s \cap B]}
<1>1. /\ IsFiniteSet(A) /\ \A x \in A : a[x] \in Nat
      /\ IsFiniteSet(B) /\ \A x \in B : b[x] \in Nat
  BY DEF Numbers
<1>a. Numbers(a (+) b) /\ DOMAIN (a (+) b) = DOMAIN a \cup DOMAIN b
  BY JoinIs
<1>b. \A x \in DOMAIN a \cup DOMAIN b :
         (a (+) b)[x] = (IF x \in DOMAIN a THEN a[x] ELSE 0)
                           + (IF x \in DOMAIN b THEN b[x] ELSE 0)
  BY JoinIs
<1>2. /\ Numbers(c) /\ S = A \cup B
      /\ \A x \in A \cup B : c[x] = (IF x \in A THEN a[x] ELSE 0)
                                        + (IF x \in B THEN b[x] ELSE 0)
  BY <1>a, <1>b, Zenon
<1>3. AddsUp(f, a, A) /\ AddsUp(g, b, B) /\ AddsUp(h, c, S)
  OBVIOUS
<1> HIDE DEF c, A, B
<1>4. IsFiniteSet(S) /\ \A x \in S : c[x] \in Nat
  BY <1>2 DEF Numbers
<1> HIDE DEF S
<1>5. /\ f[{}] = 0 /\ \A s \in SUBSET A : f[s] \in Nat
      /\ \A s \in SUBSET A : \A x \in A \ s : f[s \cup {x}] = a[x] + f[s]
  BY <1>1, <1>3, SumWith
<1>6. /\ g[{}] = 0 /\ \A s \in SUBSET B : g[s] \in Nat
      /\ \A s \in SUBSET B : \A x \in B \ s : g[s \cup {x}] = b[x] + g[s]
  BY <1>1, <1>3, SumWith
<1>7. /\ h[{}] = 0
      /\ \A s \in SUBSET S : \A x \in S \ s : h[s \cup {x}] = c[x] + h[s]
  BY <1>3, <1>4, SumWith
<1>8. {} \in K
  BY <1>5, <1>6, <1>7
<1>9. ASSUME NEW s \in SUBSET S, NEW x \in S \ s, s \in K PROVE s \cup {x} \in K
  <2> DEFINE t == s \cap A
             u == s \cap B
  <2>1. t \in SUBSET A /\ u \in SUBSET B /\ x \notin t /\ x \notin u
    OBVIOUS
  <2>2. (s \cup {x}) \cap A = IF x \in A THEN t \cup {x} ELSE t
    OBVIOUS
  <2>3. (s \cup {x}) \cap B = IF x \in B THEN u \cup {x} ELSE u
    OBVIOUS
  <2>4. h[s \cup {x}] = c[x] + (f[t] + g[u])
    BY <1>7, <1>9
  <2> HIDE DEF t, u
  <2>5. f[t] \in Nat /\ (x \in A => f[t \cup {x}] = a[x] + f[t] /\ a[x] \in Nat)
    BY <1>1, <1>5, <2>1
  <2>6. g[u] \in Nat /\ (x \in B => g[u \cup {x}] = b[x] + g[u] /\ b[x] \in Nat)
    BY <1>1, <1>6, <2>1
  <2>7. f[(s \cup {x}) \cap A] = (IF x \in A THEN a[x] ELSE 0) + f[t]
    <3>1. CASE x \in A
      <4>1. (s \cup {x}) \cap A = t \cup {x}
        BY <2>2, <3>1
      <4> QED
        BY <2>5, <3>1, <4>1
    <3>2. CASE x \notin A
      <4>1. (s \cup {x}) \cap A = t
        BY <2>2, <3>2
      <4>2. f[t] \in Nat
        BY <2>5
      <4>3. (IF x \in A THEN a[x] ELSE 0) + f[t] = f[t]
        BY <3>2, <4>2
      <4> QED
        BY <4>1, <4>3
    <3> QED
      BY <3>1, <3>2
  <2>8. g[(s \cup {x}) \cap B] = (IF x \in B THEN b[x] ELSE 0) + g[u]
    <3>1. CASE x \in B
      <4>1. (s \cup {x}) \cap B = u \cup {x}
        BY <2>3, <3>1
      <4> QED
        BY <2>6, <3>1, <4>1
    <3>2. CASE x \notin B
      <4>1. (s \cup {x}) \cap B = u
        BY <2>3, <3>2
      <4>2. g[u] \in Nat
        BY <2>6
      <4>3. (IF x \in B THEN b[x] ELSE 0) + g[u] = g[u]
        BY <3>2, <4>2
      <4> QED
        BY <4>1, <4>3
    <3> QED
      BY <3>1, <3>2
  <2>9. c[x] = (IF x \in A THEN a[x] ELSE 0) + (IF x \in B THEN b[x] ELSE 0)
    BY <1>2
  <2>10. h[s \cup {x}] = f[(s \cup {x}) \cap A] + g[(s \cup {x}) \cap B]
    BY <2>4, <2>5, <2>6, <2>7, <2>8, <2>9
  <2> QED
    BY <2>10
<1> HIDE DEF K
<1>10. \A s \in SUBSET S : s \in K
  BY <1>4, <1>8, <1>9, InductionOnSubsets
<1> QED
  BY <1>10 DEF K, S, A, B, c

-----------------------------------------------------------------------------
(* What a histogram knows of its records *)

Fiber(values, bucket) == {v \in DOMAIN values : Bucket(v) = bucket}

\* Every bucket counts the values that belong into it.
Fits(buckets, values) ==
    /\ Numbers(buckets) /\ Numbers(values)
    /\ DOMAIN buckets = {Bucket(v) : v \in DOMAIN values}
    /\ \A h : AddsUp(h, values, DOMAIN values) =>
          \A bucket \in DOMAIN buckets : buckets[bucket] = h[Fiber(values, bucket)]

CountsAll(count, values) ==
    \A h : AddsUp(h, values, DOMAIN values) => count = h[DOMAIN values]

\* The extremes; of no records, those of a new histogram.
Extremes(min, max, values) ==
    /\ min \in DOMAIN values \cup {MaxValue}
    /\ \A v \in DOMAIN values \cup {MaxValue} : min <= v
    /\ max \in DOMAIN values \cup {0}
    /\ \A v \in DOMAIN values : v <= max

Summary(m, values) ==
    /\ Fits(m.buckets, values) /\ CountsAll(m.count, values)
    /\ Extremes(m.min, m.max, values)

HistogramInv ==
    /\ members = [h \in Histograms |-> members[h]]
    /\ recorded = [h \in Histograms |-> recorded[h]]
    /\ \A h \in Histograms : Summary(members[h], recorded[h])

LEMMA SumsOfBag ==
    ASSUME NEW bag, Numbers(bag)
    PROVE  /\ \E h : AddsUp(h, bag, DOMAIN bag)
           /\ IsFiniteSet(DOMAIN bag) /\ \A x \in DOMAIN bag : bag[x] \in Nat \ {0}
<1>1. IsFiniteSet(DOMAIN bag) /\ \A x \in DOMAIN bag : bag[x] \in Nat \ {0}
  BY DEF Numbers
<1> QED
  BY <1>1, AddsUpExists

\* Joined buckets fit joined values.
LEMMA FitsJoin ==
    ASSUME NEW b, NEW r, Fits(b, r), NEW c, NEW s, Fits(c, s)
    PROVE  Fits(b (+) c, r (+) s)
<1> DEFINE buckets == b (+) c
           values == r (+) s
<1>1. Numbers(b) /\ Numbers(r) /\ Numbers(c) /\ Numbers(s)
  BY DEF Fits
<1>2. /\ Numbers(buckets) /\ DOMAIN buckets = DOMAIN b \cup DOMAIN c
      /\ \A x \in DOMAIN b \cup DOMAIN c :
            buckets[x] = (IF x \in DOMAIN b THEN b[x] ELSE 0) + (IF x \in DOMAIN c THEN c[x] ELSE 0)
  <2>1. Numbers(b (+) c) /\ DOMAIN (b (+) c) = DOMAIN b \cup DOMAIN c
    BY <1>1, JoinIs
  <2>2. \A x \in DOMAIN b \cup DOMAIN c :
           (b (+) c)[x] = (IF x \in DOMAIN b THEN b[x] ELSE 0)
                             + (IF x \in DOMAIN c THEN c[x] ELSE 0)
    BY <1>1, JoinIs
  <2> QED
    BY <2>1, <2>2, Zenon
<1>3. Numbers(values) /\ DOMAIN values = DOMAIN r \cup DOMAIN s
  BY <1>1, JoinIs
<1>4. /\ DOMAIN b = {Bucket(v) : v \in DOMAIN r}
      /\ DOMAIN c = {Bucket(v) : v \in DOMAIN s}
  BY DEF Fits
<1>5. ASSUME NEW h, AddsUp(h, values, DOMAIN values), NEW bucket \in DOMAIN buckets
      PROVE  buckets[bucket] = h[Fiber(values, bucket)]
  <2>1. PICK f : AddsUp(f, r, DOMAIN r)
    BY <1>1, SumsOfBag
  <2>2. PICK g : AddsUp(g, s, DOMAIN s)
    BY <1>1, SumsOfBag
  <2> DEFINE all == Fiber(values, bucket)
             ofR == Fiber(r, bucket)
             ofS == Fiber(s, bucket)
  <2>3. /\ all \in SUBSET DOMAIN values
        /\ all \cap DOMAIN r = ofR /\ all \cap DOMAIN s = ofS
    BY <1>3 DEF Fiber
  <2>4. h[all] = f[ofR] + g[ofS]
    BY <1>1, <1>5, <2>1, <2>2, <2>3, SumOfJoin
  <2>5. f[ofR] = IF bucket \in DOMAIN b THEN b[bucket] ELSE 0
    <3>1. CASE bucket \in DOMAIN b
      BY <2>1, <3>1 DEF Fits
    <3>2. CASE bucket \notin DOMAIN b
      <4>1. ofR = {}
        BY <1>4, <3>2 DEF Fiber
      <4> QED
        BY <2>1, <3>2, <4>1 DEF AddsUp
    <3> QED
      BY <3>1, <3>2
  <2>6. g[ofS] = IF bucket \in DOMAIN c THEN c[bucket] ELSE 0
    <3>1. CASE bucket \in DOMAIN c
      BY <2>2, <3>1 DEF Fits
    <3>2. CASE bucket \notin DOMAIN c
      <4>1. ofS = {}
        BY <1>4, <3>2 DEF Fiber
      <4> QED
        BY <2>2, <3>2, <4>1 DEF AddsUp
    <3> QED
      BY <3>1, <3>2
  <2>7. bucket \in DOMAIN b \cup DOMAIN c
    BY <1>2
  <2> HIDE DEF buckets, values, all, ofR, ofS
  <2>8. buckets[bucket] = f[ofR] + g[ofS]
    BY <1>2, <2>5, <2>6, <2>7
  <2>9. h[all] = buckets[bucket]
    BY <2>4, <2>8
  <2> QED
    BY <2>9 DEF all
<1> HIDE DEF buckets, values
<1>6. DOMAIN buckets = {Bucket(v) : v \in DOMAIN values}
  BY <1>2, <1>3, <1>4
<1>7. Fits(buckets, values)
  BY <1>2, <1>3, <1>5, <1>6 DEF Fits
<1> QED
  BY <1>7 DEF buckets, values

LEMMA CountJoin ==
    ASSUME NEW r, Numbers(r), NEW s, Numbers(s), NEW a, CountsAll(a, r), NEW b, CountsAll(b, s)
    PROVE  CountsAll(a + b, r (+) s)
<1> DEFINE values == r (+) s
<1>0. Numbers(r) /\ Numbers(s)
  OBVIOUS
<1>1. ASSUME NEW h, AddsUp(h, values, DOMAIN values) PROVE a + b = h[DOMAIN values]
  <2>1. PICK f : AddsUp(f, r, DOMAIN r)
    BY <1>0, SumsOfBag
  <2>2. PICK g : AddsUp(g, s, DOMAIN s)
    BY <1>0, SumsOfBag
  <2> DEFINE all == DOMAIN values
  <2>3. all \in SUBSET DOMAIN values
    OBVIOUS
  <2>4. h[all] = f[all \cap DOMAIN r] + g[all \cap DOMAIN s]
    BY <1>0, <1>1, <2>1, <2>2, <2>3, SumOfJoin
  <2>5. all = DOMAIN r \cup DOMAIN s
    BY <1>0, JoinIs
  <2> HIDE DEF all
  <2>6. all \cap DOMAIN r = DOMAIN r /\ all \cap DOMAIN s = DOMAIN s
    BY <2>5
  <2>7. a = f[DOMAIN r] /\ b = g[DOMAIN s]
    BY <2>1, <2>2 DEF CountsAll
  <2> QED
    BY <2>4, <2>6, <2>7 DEF all
<1> QED
  BY <1>1 DEF CountsAll

LEMMA MaxOfTwo ==
    ASSUME NEW a \in Int, NEW b \in Int
    PROVE  Max({a, b}) = IF a >= b THEN a ELSE b
<1> DEFINE most == IF a >= b THEN a ELSE b
<1>1. most \in {a, b} /\ \A y \in {a, b} : most >= y
  OBVIOUS
<1>2. \A x \in {a, b} : (\A y \in {a, b} : x >= y) => x = most
  OBVIOUS
<1> QED
  BY <1>1, <1>2 DEF Max

LEMMA MaxValueIsNat == MaxValue \in Nat
BY SMTT(30) DEF MaxValue

LEMMA ExtremesAreNat ==
    ASSUME NEW r, Numbers(r), NEW min, NEW max, Extremes(min, max, r)
    PROVE  min \in Nat /\ max \in Nat /\ min <= MaxValue
BY MaxValueIsNat DEF Extremes, Numbers

LEMMA ExtremesJoin ==
    ASSUME NEW r, Numbers(r), NEW a, NEW b, Extremes(a, b, r),
           NEW s, Numbers(s), NEW c, NEW d, Extremes(c, d, s)
    PROVE  Extremes(Min({a, c}), Max({b, d}), r (+) s)
<1>1. a \in Nat /\ b \in Nat /\ c \in Nat /\ d \in Nat /\ MaxValue \in Nat
  BY ExtremesAreNat, MaxValueIsNat
<1>2. Min({a, c}) = IF a <= c THEN a ELSE c
  BY <1>1, MinOfTwo
<1>3. Max({b, d}) = IF b >= d THEN b ELSE d
  BY <1>1, MaxOfTwo
<1>4. DOMAIN (r (+) s) = DOMAIN r \cup DOMAIN s
  BY JoinIs
<1>5. DOMAIN r \in SUBSET Nat /\ DOMAIN s \in SUBSET Nat
  BY DEF Numbers
<1> DEFINE low == Min({a, c})
           high == Max({b, d})
           all == DOMAIN (r (+) s)
<1>6. /\ a \in DOMAIN r \cup {MaxValue} /\ \A v \in DOMAIN r \cup {MaxValue} : a <= v
      /\ b \in DOMAIN r \cup {0} /\ \A v \in DOMAIN r : v <= b
      /\ c \in DOMAIN s \cup {MaxValue} /\ \A v \in DOMAIN s \cup {MaxValue} : c <= v
      /\ d \in DOMAIN s \cup {0} /\ \A v \in DOMAIN s : v <= d
  BY DEF Extremes
<1>7. all = DOMAIN r \cup DOMAIN s
  BY <1>4
<1> HIDE DEF low, high, all
<1>8. low \in Nat /\ high \in Nat /\ low <= a /\ low <= c /\ low \in {a, c}
      /\ b <= high /\ d <= high /\ high \in {b, d}
  BY <1>1, <1>2, <1>3 DEF low, high
<1>9. low \in all \cup {MaxValue} /\ high \in all \cup {0}
  BY <1>6, <1>7, <1>8
<1>10. ASSUME NEW v \in all \cup {MaxValue} PROVE low <= v
  <2>1. v \in Nat /\ (a <= v \/ c <= v)
    BY <1>1, <1>5, <1>6, <1>7
  <2> QED
    BY <1>1, <1>8, <2>1
<1>11. ASSUME NEW v \in all PROVE v <= high
  <2>1. v \in Nat /\ (v <= b \/ v <= d)
    BY <1>5, <1>6, <1>7
  <2> QED
    BY <1>1, <1>8, <2>1
<1>12. Extremes(low, high, r (+) s)
  BY <1>9, <1>10, <1>11 DEF Extremes, all
<1> QED
  BY <1>12 DEF low, high

\* One record, as a bag and as the extremes it has.
LEMMA OneRecord ==
    ASSUME NEW value \in Nat
    PROVE  /\ Fits(SetToBag({Bucket(value)}), SetToBag({value}))
           /\ CountsAll(1, SetToBag({value}))
           /\ Extremes(Min({MaxValue, value}), value, SetToBag({value}))
<1> DEFINE one == SetToBag({value})
           counted == SetToBag({Bucket(value)})
<1>1. Bucket(value) \in Nat
  BY BucketHolds
<1>2. /\ Numbers(one) /\ DOMAIN one = {value} /\ one[value] = 1
      /\ Numbers(counted) /\ DOMAIN counted = {Bucket(value)} /\ counted[Bucket(value)] = 1
  BY <1>1, OneIs
<1> HIDE DEF one, counted
<1>3. ASSUME NEW h, AddsUp(h, one, DOMAIN one) PROVE h[{value}] = 1
  <2>1. /\ h[{}] = 0
        /\ \A s \in SUBSET DOMAIN one : \A x \in DOMAIN one \ s : h[s \cup {x}] = one[x] + h[s]
    <3>1. IsFiniteSet(DOMAIN one) /\ \A x \in DOMAIN one : one[x] \in Nat
      BY <1>2 DEF Numbers
    <3> QED
      BY <1>3, <3>1, SumWith
  <2>2. {} \in SUBSET DOMAIN one /\ value \in DOMAIN one \ {} /\ {} \cup {value} = {value}
    BY <1>2
  <2>3. h[{value}] = one[value] + h[{}]
    BY <2>1, <2>2
  <2> QED
    BY <1>2, <2>1, <2>3
<1>4. Fits(counted, one)
  <2>1. DOMAIN counted = {Bucket(v) : v \in DOMAIN one}
    BY <1>2
  <2>2. \A bucket \in DOMAIN counted : Fiber(one, bucket) = {value} /\ counted[bucket] = 1
    BY <1>2 DEF Fiber
  <2> QED
    BY <1>2, <1>3, <2>1, <2>2 DEF Fits
<1>5. CountsAll(1, one)
  BY <1>2, <1>3 DEF CountsAll
<1>6. Extremes(Min({MaxValue, value}), value, one)
  <2>1. Min({MaxValue, value}) = IF MaxValue <= value THEN MaxValue ELSE value
    BY MaxValueIsNat, MinOfTwo
  <2> QED
    BY <1>2, <2>1, MaxValueIsNat DEF Extremes
<1> QED
  BY <1>4, <1>5, <1>6 DEF one, counted

\* A new histogram.
LEMMA NoRecords == Summary(Empty, EmptyBag)
<1>1. Numbers(EmptyBag) /\ DOMAIN EmptyBag = {}
  BY NoneIs
<1>2. /\ Empty.buckets = EmptyBag /\ Empty.count = 0
      /\ Empty.min = MaxValue /\ Empty.max = 0
  BY DEF Empty
<1> HIDE DEF Empty
<1>3. Fits(EmptyBag, EmptyBag)
  BY <1>1 DEF Fits
<1>4. CountsAll(0, EmptyBag)
  BY <1>1 DEF CountsAll, AddsUp
<1>5. Extremes(MaxValue, 0, EmptyBag)
  BY <1>1, MaxValueIsNat DEF Extremes
<1> QED
  BY <1>2, <1>3, <1>4, <1>5 DEF Summary

\* One more record.
LEMMA SummaryRecord ==
    ASSUME NEW m, NEW r, Summary(m, r), NEW value \in Nat, NEW n,
           n.count = m.count + 1, n.min = Min({m.min, value}), n.max = Max({m.max, value}),
           n.buckets = m.buckets (+) SetToBag({Bucket(value)})
    PROVE  Summary(n, r (+) SetToBag({value}))
<1> DEFINE one == SetToBag({value})
           counted == SetToBag({Bucket(value)})
<1>1. Fits(m.buckets, r) /\ CountsAll(m.count, r) /\ Extremes(m.min, m.max, r)
  BY DEF Summary
<1>2. Fits(counted, one) /\ CountsAll(1, one) /\ Extremes(Min({MaxValue, value}), value, one)
  BY OneRecord
<1>3. Numbers(r) /\ Numbers(one)
  BY <1>1, <1>2 DEF Fits
<1> HIDE DEF one, counted
<1>4. Fits(m.buckets (+) counted, r (+) one)
  BY <1>1, <1>2, FitsJoin
<1>5. CountsAll(m.count + 1, r (+) one)
  BY <1>1, <1>2, <1>3, CountJoin
<1>6. Extremes(Min({m.min, Min({MaxValue, value})}), Max({m.max, value}), r (+) one)
  BY <1>1, <1>2, <1>3, ExtremesJoin
<1>7. Min({m.min, Min({MaxValue, value})}) = Min({m.min, value})
  <2>1. m.min \in Nat /\ m.min <= MaxValue /\ MaxValue \in Nat
    BY <1>1, <1>3, ExtremesAreNat, MaxValueIsNat
  <2>2. Min({MaxValue, value}) = IF MaxValue <= value THEN MaxValue ELSE value
    BY <2>1, MinOfTwo
  <2>3. Min({m.min, value}) = IF m.min <= value THEN m.min ELSE value
    BY <2>1, MinOfTwo
  <2> DEFINE least == Min({MaxValue, value})
  <2>4. least \in Nat /\ least = IF MaxValue <= value THEN MaxValue ELSE value
    BY <2>1, <2>2
  <2> HIDE DEF least
  <2>5. Min({m.min, least}) = IF m.min <= least THEN m.min ELSE least
    BY <2>1, <2>4, MinOfTwo
  <2>6. Min({m.min, least}) = Min({m.min, value})
    BY <2>1, <2>3, <2>4, <2>5
  <2> QED
    BY <2>6 DEF least
<1>8. n.buckets = m.buckets (+) counted
  BY DEF counted
<1>9. Summary(n, r (+) one)
  BY <1>4, <1>5, <1>6, <1>7, <1>8 DEF Summary
<1> QED
  BY <1>9 DEF one

\* The records of two histograms.
LEMMA SummaryMerge ==
    ASSUME NEW m, NEW r, Summary(m, r), NEW k, NEW s, Summary(k, s), NEW n,
           n.count = m.count + k.count, n.min = Min({m.min, k.min}), n.max = Max({m.max, k.max}),
           n.buckets = m.buckets (+) k.buckets
    PROVE  Summary(n, r (+) s)
<1>1. /\ Fits(m.buckets, r) /\ CountsAll(m.count, r) /\ Extremes(m.min, m.max, r)
      /\ Fits(k.buckets, s) /\ CountsAll(k.count, s) /\ Extremes(k.min, k.max, s)
  BY DEF Summary
<1>2. Numbers(r) /\ Numbers(s)
  BY <1>1 DEF Fits
<1>3. Fits(n.buckets, r (+) s)
  BY <1>1, FitsJoin
<1>4. CountsAll(n.count, r (+) s)
  BY <1>1, <1>2, CountJoin
<1>5. Extremes(n.min, n.max, r (+) s)
  BY <1>1, <1>2, ExtremesJoin
<1> QED
  BY <1>3, <1>4, <1>5 DEF Summary

LEMMA HistogramInductive == HistogramInv /\ [HNext]_hvars => HistogramInv'
<1> SUFFICES ASSUME HistogramInv, [HNext]_hvars PROVE HistogramInv'
  OBVIOUS
<1>1. ASSUME NEW h \in Histograms, NEW m, NEW r, Summary(m, r),
             members' = [members EXCEPT ![h] = m], recorded' = [recorded EXCEPT ![h] = r]
      PROVE  HistogramInv'
  <2>1. /\ members' = [g \in Histograms |-> members'[g]]
        /\ recorded' = [g \in Histograms |-> recorded'[g]]
    BY <1>1 DEF HistogramInv
  <2>2. ASSUME NEW g \in Histograms PROVE Summary(members'[g], recorded'[g])
    <3>1. CASE g = h
      <4>1. members'[g] = m /\ recorded'[g] = r
        BY <1>1, <3>1 DEF HistogramInv
      <4> QED
        BY <1>1, <4>1
    <3>2. CASE g # h
      <4>1. members'[g] = members[g] /\ recorded'[g] = recorded[g]
        BY <1>1, <3>2 DEF HistogramInv
      <4> QED
        BY <4>1 DEF HistogramInv
    <3> QED
      BY <3>1, <3>2
  <2> QED
    BY <2>1, <2>2 DEF HistogramInv, Summary, Fits, CountsAll, Extremes, Fiber
<1>2. CASE UNCHANGED hvars
  <2>1. members' = members /\ recorded' = recorded
    BY <1>2 DEF hvars
  <2>2. /\ members' = [g \in Histograms |-> members'[g]]
        /\ recorded' = [g \in Histograms |-> recorded'[g]]
        /\ \A g \in Histograms : Summary(members'[g], recorded'[g])
    BY <2>1 DEF HistogramInv
  <2> QED
    BY <2>2 DEF HistogramInv, Summary, Fits, CountsAll, Extremes, Fiber
<1>3. ASSUME NEW h \in Histograms, Reset(h) PROVE HistogramInv'
  BY <1>1, <1>3, NoRecords DEF Reset
<1>4. ASSUME NEW h \in Histograms, NEW value \in Latencies, Record(h, value) PROVE HistogramInv'
  <2> DEFINE old == members[h]
             n == [count |-> old.count + 1, sum |-> old.sum + value,
                   min |-> Min({old.min, value}), max |-> Max({old.max, value}),
                   buckets |-> old.buckets (+) SetToBag({Bucket(value)})]
             r == recorded[h] (+) SetToBag({value})
  <2>1. members' = [members EXCEPT ![h] = n]
    BY <1>4 DEF Record
  <2>2. recorded' = [recorded EXCEPT ![h] = r]
    BY <1>4 DEF Record
  <2>3. /\ n.count = old.count + 1 /\ n.min = Min({old.min, value})
        /\ n.max = Max({old.max, value})
        /\ n.buckets = old.buckets (+) SetToBag({Bucket(value)})
    OBVIOUS
  <2>4. Summary(old, recorded[h]) /\ value \in Nat
    BY HistogramConstants DEF HistogramInv
  <2> HIDE DEF n, old
  <2>5. Summary(n, r)
    BY <2>3, <2>4, SummaryRecord
  <2> HIDE DEF r
  <2> QED
    BY <1>1, <2>1, <2>2, <2>5
<1>5. ASSUME NEW h \in Histograms, NEW g \in Histograms, Merge(h, g) PROVE HistogramInv'
  <2> DEFINE old == members[h]
             other == members[g]
             n == [count |-> old.count + other.count, sum |-> old.sum + other.sum,
                   min |-> Min({old.min, other.min}), max |-> Max({old.max, other.max}),
                   buckets |-> old.buckets (+) other.buckets]
             r == recorded[h] (+) recorded[g]
  <2>1. members' = [members EXCEPT ![h] = n]
    BY <1>5 DEF Merge
  <2>2. recorded' = [recorded EXCEPT ![h] = r]
    BY <1>5 DEF Merge
  <2>3. /\ n.count = old.count + other.count /\ n.min = Min({old.min, other.min})
        /\ n.max = Max({old.max, other.max}) /\ n.buckets = old.buckets (+) other.buckets
    OBVIOUS
  <2>4. Summary(old, recorded[h]) /\ Summary(other, recorded[g])
    BY DEF HistogramInv
  <2> HIDE DEF n, old, other
  <2>5. Summary(n, r)
    BY <2>3, <2>4, SummaryMerge
  <2> HIDE DEF r
  <2> QED
    BY <1>1, <2>1, <2>2, <2>5
<1> QED
  BY <1>2, <1>3, <1>4, <1>5 DEF HNext

\* What a histogram knows of its records, after any records, merges and resets.
LEMMA HistogramInvAlways == HSpec => []HistogramInv
<1>1. HInit => HistogramInv
  BY NoRecords DEF HInit, HistogramInv
<1> QED
  BY <1>1, HistogramInductive, PTL DEF HSpec

-----------------------------------------------------------------------------
(* Reading a percentile *)

LEMMA MinIs ==
    ASSUME NEW S \in SUBSET Nat, NEW x \in S, \A y \in S : x <= y
    PROVE  Min(S) = x
<1>1. \A z \in S : (\A y \in S : z <= y) => z = x
  OBVIOUS
<1> QED
  BY <1>1 DEF Min

LEMMA MinOfNumbers ==
    ASSUME NEW S \in SUBSET Nat, S # {}
    PROVE  Min(S) \in S /\ \A y \in S : Min(S) <= y
<1>1. PICK x \in S : \A y \in S : x <= y
  BY LeastNumber
<1> QED
  BY <1>1, MinIs

LEMMA LargestNumber ==
    ASSUME NEW S \in SUBSET Nat, S # {}, NEW bound \in Nat, \A y \in S : y <= bound
    PROVE  \E x \in S : \A y \in S : y <= x
<1> DEFINE T == {n \in Nat : \A y \in S : y <= n}
<1>1. T \in SUBSET Nat /\ T # {}
  OBVIOUS
<1>2. PICK x \in T : \A n \in T : x <= n
  BY <1>1, LeastNumber
<1>3. x \in Nat /\ \A y \in S : y <= x
  BY <1>2
<1>4. x \in S
  <2> SUFFICES ASSUME x \notin S PROVE FALSE
    OBVIOUS
  <2>1. \A y \in S : y \in Nat /\ y <= x /\ y # x
    BY <1>3
  <2>2. x # 0
    <3>1. PICK y \in S : TRUE
      OBVIOUS
    <3>2. y \in Nat /\ y <= x /\ y # x
      BY <2>1
    <3> QED
      BY <1>3, <3>2
  <2>3. x - 1 \in Nat /\ \A y \in S : y <= x - 1
    BY <1>3, <2>1, <2>2
  <2>4. x - 1 \in T
    BY <2>3
  <2>5. x <= x - 1
    BY <1>2, <2>4
  <2> QED
    BY <1>3, <2>5
<1> QED
  BY <1>3, <1>4

\* Disjoint sets add up.
LEMMA SumOfUnion ==
    ASSUME NEW S, IsFiniteSet(S), NEW f, \A x \in S : f[x] \in Nat,
           NEW h, AddsUp(h, f, S), NEW s \in SUBSET S
    PROVE  \A t \in SUBSET S : s \cap t = {} => h[s \cup t] = h[s] + h[t]
<1> DEFINE K == {t \in SUBSET S : s \cap t = {} => h[s \cup t] = h[s] + h[t]}
<1>1. /\ h[{}] = 0
      /\ \A t \in SUBSET S : h[t] \in Nat
      /\ \A t \in SUBSET S : \A x \in S \ t : h[t \cup {x}] = f[x] + h[t]
  BY SumWith
<1>2. {} \in K
  <2>1. s \cup {} = s /\ h[s] \in Nat
    BY <1>1
  <2> QED
    BY <1>1, <2>1
<1>3. ASSUME NEW t \in SUBSET S, NEW x \in S \ t, t \in K PROVE t \cup {x} \in K
  <2> SUFFICES ASSUME s \cap (t \cup {x}) = {}
               PROVE  h[s \cup (t \cup {x})] = h[s] + h[t \cup {x}]
    BY <1>3
  <2> DEFINE both == s \cup t
  <2>1. s \cap t = {} /\ x \notin both /\ both \in SUBSET S /\ s \cup (t \cup {x}) = both \cup {x}
    OBVIOUS
  <2>2. h[both] = h[s] + h[t]
    BY <1>3, <2>1
  <2> HIDE DEF both
  <2>3. h[both \cup {x}] = f[x] + h[both]
    BY <1>1, <2>1
  <2>4. h[t \cup {x}] = f[x] + h[t]
    BY <1>1
  <2>5. f[x] \in Nat /\ h[s] \in Nat /\ h[t] \in Nat
    BY <1>1
  <2>6. h[both \cup {x}] = h[s] + h[t \cup {x}]
    BY <2>2, <2>3, <2>4, <2>5
  <2> QED
    BY <2>1, <2>6
<1> HIDE DEF K
<1>4. \A t \in SUBSET S : t \in K
  BY <1>2, <1>3, InductionOnSubsets
<1> QED
  BY <1>4 DEF K

\* Some buckets count the values that belong into one of them.
LEMMA BucketsCount ==
    ASSUME NEW buckets, NEW values, Fits(buckets, values),
           NEW g, AddsUp(g, buckets, DOMAIN buckets), NEW h, AddsUp(h, values, DOMAIN values)
    PROVE  \A s \in SUBSET DOMAIN buckets : g[s] = h[{v \in DOMAIN values : Bucket(v) \in s}]
<1> DEFINE S == DOMAIN buckets
           D == DOMAIN values
           Of(s) == {v \in D : Bucket(v) \in s}
           K == {s \in SUBSET S : g[s] = h[Of(s)]}
<1>1. /\ IsFiniteSet(S) /\ \A x \in S : buckets[x] \in Nat
      /\ IsFiniteSet(D) /\ \A x \in D : values[x] \in Nat
  BY DEF Fits, Numbers
<1>2. AddsUp(g, buckets, S) /\ AddsUp(h, values, D)
  OBVIOUS
<1>3. \A bucket \in S : buckets[bucket] = h[Fiber(values, bucket)]
  BY DEF Fits
<1>4. \A bucket : Fiber(values, bucket) = {v \in D : Bucket(v) = bucket}
  BY DEF Fiber
<1> HIDE DEF S, D
<1>5. /\ g[{}] = 0
      /\ \A s \in SUBSET S : \A x \in S \ s : g[s \cup {x}] = buckets[x] + g[s]
  BY <1>1, <1>2, SumWith
<1>6. h[{}] = 0 /\ \A s \in SUBSET D : h[s] \in Nat
  BY <1>2 DEF AddsUp
<1>7. {} \in K
  <2>1. Of({}) = {}
    OBVIOUS
  <2> QED
    BY <1>5, <1>6, <2>1
<1>8. ASSUME NEW s \in SUBSET S, NEW x \in S \ s, s \in K PROVE s \cup {x} \in K
  <2> DEFINE old == Of(s)
             new == Fiber(values, x)
  <2>1. old \in SUBSET D /\ new \in SUBSET D /\ old \cap new = {} /\ Of(s \cup {x}) = old \cup new
    BY <1>4, <1>8
  <2>2. g[s \cup {x}] = h[new] + h[old]
    BY <1>3, <1>5, <1>8
  <2> HIDE DEF old, new
  <2>3. h[old \cup new] = h[old] + h[new]
    BY <1>1, <1>2, <2>1, SumOfUnion
  <2>4. h[old] \in Nat /\ h[new] \in Nat
    BY <1>6, <2>1
  <2>5. g[s \cup {x}] = h[old \cup new]
    BY <2>2, <2>3, <2>4
  <2>6. g[s \cup {x}] = h[Of(s \cup {x})]
    BY <2>1, <2>5
  <2>7. s \cup {x} \in SUBSET S
    OBVIOUS
  <2> HIDE DEF Of
  <2> QED
    BY <2>6, <2>7
<1> HIDE DEF K
<1>9. \A s \in SUBSET S : s \in K
  BY <1>1, <1>7, <1>8, InductionOnSubsets
<1> QED
  BY <1>9 DEF K, S, D

\* A percentile reads the bucket of the value that has its rank.
LEMMA ReadIs ==
    ASSUME NEW m, NEW values, Summary(m, values), NEW rank \in Nat \ {0}, rank <= m.count,
           m.count \in Nat
    PROVE  LET ranked == {v \in DOMAIN values : CountUpTo(values, v) >= rank}
               reached == {b \in DOMAIN m.buckets : CountUpTo(m.buckets, b) >= rank}
           IN  /\ Min(ranked) \in DOMAIN values /\ \A v \in ranked : Min(ranked) <= v
               /\ ranked # {} /\ Min(ranked) \in ranked
               /\ Min(reached) = Bucket(Min(ranked))
<1> DEFINE D == DOMAIN values
           B == DOMAIN m.buckets
           ranked == {v \in D : CountUpTo(values, v) >= rank}
           reached == {b \in B : CountUpTo(m.buckets, b) >= rank}
           UpTo(v) == {u \in D : u <= v}
           Below(b) == {u \in D : Bucket(u) <= b}
<1>1. /\ Fits(m.buckets, values) /\ CountsAll(m.count, values)
      /\ Extremes(m.min, m.max, values)
      /\ Numbers(m.buckets) /\ Numbers(values)
  BY DEF Summary, Fits
<1>2. PICK h : AddsUp(h, values, D)
  BY <1>1, SumsOfBag
<1>3. PICK g : AddsUp(g, m.buckets, B)
  BY <1>1, SumsOfBag
<1>4. \A v : CountUpTo(values, v) = h[UpTo(v)]
  BY <1>1, <1>2, CountIs
<1>5. /\ IsFiniteSet(D) /\ D \in SUBSET Nat /\ \A v \in D : values[v] \in Nat
      /\ B = {Bucket(v) : v \in D} /\ B \in SUBSET Nat
  BY <1>1 DEF Fits, Numbers
<1>6. \A v \in D : Bucket(v) \in B /\ Bucket(v) \in Nat
  BY <1>5
<1>7. \A b \in B : CountUpTo(m.buckets, b) = h[Below(b)]
  <2>1. ASSUME NEW b \in B PROVE CountUpTo(m.buckets, b) = h[Below(b)]
    <3> DEFINE low == {n \in B : n <= b}
    <3>1. CountUpTo(m.buckets, b) = g[low]
      BY <1>1, <1>3, CountIs
    <3>2. low \in SUBSET B
      OBVIOUS
    <3>3. Below(b) = {v \in D : Bucket(v) \in low}
      BY <1>6
    <3> HIDE DEF low
    <3>4. g[low] = h[{v \in D : Bucket(v) \in low}]
      BY <1>1, <1>2, <1>3, <3>2, BucketsCount
    <3> QED
      BY <3>1, <3>3, <3>4
  <2> QED
    BY <2>1
<1>8. h[{}] = 0 /\ h[D] = m.count /\ \A s \in SUBSET D : h[s] \in Nat
  BY <1>1, <1>2 DEF AddsUp, CountsAll
<1>9. \A s, t \in SUBSET D : s \subseteq t => h[s] <= h[t]
  <2> SUFFICES ASSUME NEW s \in SUBSET D, NEW t \in SUBSET D, s \subseteq t PROVE h[s] <= h[t]
    OBVIOUS
  <2> DEFINE more == t \ s
  <2>1. more \in SUBSET D /\ s \cap more = {} /\ s \cup more = t
    OBVIOUS
  <2> HIDE DEF more
  <2>2. h[s \cup more] = h[s] + h[more]
    BY <1>2, <1>5, <2>1, SumOfUnion
  <2>3. h[t] = h[s] + h[more] /\ h[s] \in Nat /\ h[more] \in Nat
    BY <1>8, <2>1, <2>2
  <2> QED
    BY <2>3
<1>10. ranked # {} /\ ranked \in SUBSET Nat
  <2>1. D # {}
    <3> SUFFICES ASSUME D = {} PROVE FALSE
      OBVIOUS
    <3>1. m.count = 0
      BY <1>8
    <3> QED
      BY <3>1
  <2>2. m.max \in Nat /\ \A v \in D : v <= m.max
    BY <1>1, ExtremesAreNat DEF Extremes
  <2>3. m.max \in D
    <3>1. PICK v \in D : TRUE
      BY <2>1
    <3>2. v \in Nat /\ v <= m.max /\ m.max \in D \cup {0}
      BY <1>1, <1>5, <2>2 DEF Extremes
    <3> QED
      BY <3>2
  <2>4. UpTo(m.max) = D
    BY <2>2
  <2>5. CountUpTo(values, m.max) = m.count
    BY <1>4, <1>8, <2>4
  <2>6. m.max \in ranked
    BY <2>3, <2>5
  <2> QED
    BY <1>5, <2>6
<1> DEFINE exact == Min(ranked)
<1>11. exact \in ranked /\ \A v \in ranked : exact <= v
  BY <1>10, MinOfNumbers
<1>12. exact \in D /\ exact \in Nat /\ h[UpTo(exact)] >= rank
  BY <1>4, <1>5, <1>11
<1>13. \A v \in D : h[UpTo(v)] >= rank => exact <= v
  BY <1>4, <1>11
<1> HIDE DEF exact
<1>14. Bucket(exact) \in reached
  <2>1. UpTo(exact) \subseteq Below(Bucket(exact))
    BY <1>5, <1>12, BucketOrder
  <2>2. h[UpTo(exact)] <= h[Below(Bucket(exact))]
    BY <1>9, <2>1
  <2>3. h[Below(Bucket(exact))] >= rank
    <3>1. h[UpTo(exact)] \in Nat /\ h[Below(Bucket(exact))] \in Nat
      BY <1>8
    <3> QED
      BY <1>12, <2>2, <3>1
  <2> QED
    BY <1>6, <1>7, <1>12, <2>3
<1>15. ASSUME NEW b \in reached PROVE Bucket(exact) <= b
  <2>1. b \in B /\ b \in Nat /\ h[Below(b)] >= rank
    BY <1>5, <1>7
  <2> DEFINE S == Below(b)
  <2>2. S \in SUBSET D /\ S \in SUBSET Nat /\ h[S] >= rank
    BY <1>5, <2>1
  <2>3. S # {}
    <3> SUFFICES ASSUME S = {} PROVE FALSE
      OBVIOUS
    <3>1. 0 >= rank
      BY <1>8, <2>2
    <3> QED
      BY <3>1
  <2>4. m.max \in Nat /\ \A v \in S : v <= m.max
    BY <1>1, <2>2, ExtremesAreNat DEF Extremes
  <2>5. \A v \in S : Bucket(v) <= b
    OBVIOUS
  <2> HIDE DEF S
  <2>6. PICK top \in S : \A v \in S : v <= top
    BY <2>2, <2>3, <2>4, LargestNumber
  <2>7. top \in D /\ top \in Nat /\ S \subseteq UpTo(top) /\ UpTo(top) \in SUBSET D
    BY <2>2, <2>6
  <2>8. h[S] <= h[UpTo(top)] /\ h[S] \in Nat /\ h[UpTo(top)] \in Nat
    BY <1>8, <1>9, <2>2, <2>7
  <2>9. h[UpTo(top)] >= rank
    BY <2>2, <2>8
  <2>10. exact <= top
    BY <1>13, <2>7, <2>9
  <2>11. Bucket(exact) <= Bucket(top)
    BY <1>12, <2>7, <2>10, BucketOrder
  <2>12. Bucket(top) <= b /\ Bucket(top) \in Nat /\ Bucket(exact) \in Nat
    BY <1>6, <1>12, <2>5, <2>6, <2>7
  <2> QED
    BY <2>1, <2>11, <2>12
<1>16. reached \in SUBSET Nat
  BY <1>5
<1> HIDE DEF reached
<1>17. Min(reached) = Bucket(exact)
  BY <1>14, <1>15, <1>16, MinIs
<1> QED
  BY <1>10, <1>11, <1>12, <1>17 DEF exact, reached

\* The rank that p tenths of a percent are, among so many.
RankAmong(count, p) == (count * p) \div 1000

\* What a rank is, and that a larger percentage has no lower one.
LEMMA RankIs ==
    ASSUME NEW count \in Nat, NEW p \in 0 .. 1000
    PROVE  RankAmong(count, p) \in 0 .. count
<1>1. count * p \in Nat /\ count * p <= count * 1000
  BY SMTT(30)
<1> DEFINE product == count * p
<1> HIDE DEF product
<1>2. product \in Nat /\ product <= count * 1000
  BY <1>1 DEF product
<1>3. product \div 1000 \in 0 .. count
  BY <1>2, SMTT(30)
<1> QED
  BY <1>3 DEF product, RankAmong

LEMMA RankOrder ==
    ASSUME NEW count \in Nat, NEW p \in 0 .. 1000, NEW q \in 0 .. 1000, p <= q
    PROVE  RankAmong(count, p) <= RankAmong(count, q)
<1> DEFINE low == count * p
           high == count * q
<1>1. low \in Nat /\ high \in Nat /\ low <= high
  BY SMTT(30)
<1> HIDE DEF low, high
<1>2. low \div 1000 <= high \div 1000
  BY <1>1, SMTT(30)
<1> QED
  BY <1>2 DEF low, high, RankAmong

LEMMA CountIsNat ==
    ASSUME NEW m, NEW values, Summary(m, values)
    PROVE  m.count \in Nat /\ (m.count = 0 <=> DOMAIN values = {})
<1>1. Numbers(values) /\ CountsAll(m.count, values)
  BY DEF Summary, Fits
<1>2. PICK h : AddsUp(h, values, DOMAIN values)
  BY <1>1, SumsOfBag
<1>3. m.count = h[DOMAIN values] /\ h[{}] = 0 /\ \A s \in SUBSET DOMAIN values : h[s] \in Nat
  BY <1>1, <1>2 DEF CountsAll, AddsUp
<1>4. ASSUME NEW v \in DOMAIN values PROVE m.count # 0
  <2> DEFINE rest == DOMAIN values \ {v}
  <2>1. IsFiniteSet(DOMAIN values) /\ \A x \in DOMAIN values : values[x] \in Nat \ {0}
    BY <1>1 DEF Numbers
  <2>2. h[DOMAIN values] = values[v] + h[rest]
    BY <1>2, <2>1, SumWithout
  <2>3. values[v] \in Nat \ {0} /\ h[rest] \in Nat
    BY <1>3, <2>1
  <2> QED
    BY <1>3, <2>2, <2>3
<1>5. m.count \in Nat
  BY <1>3
<1>6. DOMAIN values = {} => m.count = 0
  BY <1>3
<1> QED
  BY <1>4, <1>5, <1>6

LEMMA CountUpToIsNat ==
    ASSUME NEW bag, Numbers(bag), NEW most
    PROVE  CountUpTo(bag, most) \in Nat
<1>1. PICK h : AddsUp(h, bag, DOMAIN bag)
  BY SumsOfBag
<1>2. CountUpTo(bag, most) = h[{n \in DOMAIN bag : n <= most}]
  BY <1>1, CountIs
<1>3. \A s \in SUBSET DOMAIN bag : h[s] \in Nat
  BY <1>1 DEF AddsUp
<1> QED
  BY <1>2, <1>3

\* What percentile() returns, for a percentage asked for.
LEMMA PercentileIs ==
    ASSUME HistogramInv, NEW h \in Histograms, NEW p \in Percentiles
    PROVE  /\ Rank(h, p) \in Nat
           /\ Rank(h, p) = 0 => Percentile(h, p) = 0
           /\ Rank(h, p) > 0 =>
                 /\ Ranked(h, p) \in DOMAIN recorded[h]
                 /\ CountUpTo(recorded[h], Ranked(h, p)) >= Rank(h, p)
                 /\ \A v \in DOMAIN recorded[h] :
                       CountUpTo(recorded[h], v) >= Rank(h, p) => Ranked(h, p) <= v
                 /\ Percentile(h, p) = LowerBound(Bucket(Ranked(h, p)))
<1> DEFINE m == members[h]
           values == recorded[h]
           rank == Rank(h, p)
           ranked == {v \in DOMAIN values : CountUpTo(values, v) >= rank}
           reached == {b \in DOMAIN m.buckets : CountUpTo(m.buckets, b) >= rank}
<1>1. Summary(m, values)
  BY DEF HistogramInv
<1>2. m.count \in Nat
  BY <1>1, CountIsNat
<1>3. p \in 0 .. 1000
  BY HistogramConstants
<1> DEFINE count == m.count
<1>a. rank = RankAmong(count, p)
  BY Zenon DEF Rank, RankAmong
<1>4. rank \in Nat /\ rank <= m.count
  <2> HIDE DEF rank, m
  <2>1. count \in Nat
    BY <1>2
  <2> HIDE DEF count
  <2>2. RankAmong(count, p) \in 0 .. count
    BY <1>3, <2>1, RankIs
  <2>3. rank \in 0 .. count
    BY <1>a, <2>2
  <2>4. rank \in Nat /\ rank <= count
    BY <2>1, <2>3
  <2> QED
    BY <2>4 DEF count
<1>5. Percentile(h, p) = IF rank = 0 THEN 0 ELSE LowerBound(Min(reached))
  BY Zenon DEF Percentile
<1>6. Ranked(h, p) = Min(ranked)
  BY Zenon DEF Ranked
<1> HIDE DEF m, values, rank
<1>7. ASSUME rank > 0
      PROVE  /\ Min(ranked) \in DOMAIN values /\ \A v \in ranked : Min(ranked) <= v
             /\ Min(ranked) \in ranked /\ Min(reached) = Bucket(Min(ranked))
  <2>1. rank \in Nat \ {0}
    BY <1>4, <1>7
  <2> QED
    BY <1>1, <1>2, <1>4, <2>1, ReadIs
<1> DEFINE exact == Min(ranked)
<1>8. ASSUME rank > 0
      PROVE  /\ exact \in DOMAIN values /\ CountUpTo(values, exact) >= rank
             /\ \A v \in DOMAIN values : CountUpTo(values, v) >= rank => exact <= v
             /\ Percentile(h, p) = LowerBound(Bucket(exact))
  <2>1. rank # 0
    BY <1>4, <1>8
  <2> QED
    BY <1>5, <1>7, <1>8, <2>1
<1> HIDE DEF ranked, reached
<1>9. rank = 0 => Percentile(h, p) = 0
  BY <1>5
<1> QED
  BY <1>4, <1>6, <1>8, <1>9 DEF m, values, rank, exact

-----------------------------------------------------------------------------
(* Theorems *)

\* A percentile is never above the recorded latency of its rank, and below the
\* last bucket at most a sixteenth under it: for any latencies, histograms and
\* percentages, whatever was recorded, merged and reset in whatever order.
THEOREM PercentileAccurateAlways == HSpec => []PercentileAccurate
<1>1. HistogramInv => PercentileAccurate
  <2> SUFFICES ASSUME HistogramInv, NEW h \in Histograms, NEW p \in Percentiles, Rank(h, p) > 0
               PROVE  /\ Percentile(h, p) <= Ranked(h, p)
                      /\ Ranked(h, p) < LastBound =>
                            16 * (Ranked(h, p) - Percentile(h, p)) <= Ranked(h, p)
    BY DEF PercentileAccurate
  <2> DEFINE exact == Ranked(h, p)
             shown == Percentile(h, p)
  <2>1. exact \in DOMAIN recorded[h] /\ shown = LowerBound(Bucket(exact))
    BY PercentileIs
  <2>2. DOMAIN recorded[h] \in SUBSET Nat
    BY DEF HistogramInv, Summary, Fits, Numbers
  <2>3. LastBound = LowerBound(255)
    BY DEF LastBound, NumBuckets
  <2> HIDE DEF exact, shown
  <2>4. exact \in Nat
    BY <2>1, <2>2
  <2>5. shown <= exact
    BY <2>1, <2>4, BucketHolds
  <2>6. ASSUME exact < LastBound PROVE 16 * (exact - shown) <= exact
    <3>1. Bucket(exact) < 255
      BY <2>3, <2>4, <2>6, BucketHolds
    <3> QED
      BY <2>1, <2>4, <3>1, BucketHolds
  <2> QED
    BY <2>5, <2>6 DEF exact, shown
<1> QED
  BY <1>1, HistogramInvAlways, PTL

\* The extremes are those of the records, percentiles are in the order of their
\* percentages, none is above the largest record, and none that has a rank is
\* below the bucket of the least.
THEOREM SummaryConsistentAlways == HSpec => []SummaryConsistent
<1>1. HistogramInv => SummaryConsistent
  <2> SUFFICES ASSUME HistogramInv, NEW h \in Histograms, DOMAIN recorded[h] # {}
               PROVE  /\ Least(h) = Min(DOMAIN recorded[h] \cup {MaxValue})
                      /\ members[h].max = Max(DOMAIN recorded[h])
                      /\ \A p, q \in Percentiles : p <= q => Percentile(h, p) <= Percentile(h, q)
                      /\ \A p \in Percentiles :
                            /\ Percentile(h, p) <= members[h].max
                            /\ Rank(h, p) > 0 => Percentile(h, p) >= LowerBound(Bucket(Least(h)))
    BY DEF SummaryConsistent
  <2> DEFINE m == members[h]
             values == recorded[h]
             D == DOMAIN values
  <2>1. Summary(m, values) /\ Numbers(values) /\ Extremes(m.min, m.max, values)
    BY DEF HistogramInv, Summary, Fits
  <2>2. m.count \in Nat /\ m.count # 0
    BY <2>1, CountIsNat
  <2>3. D \in SUBSET Nat /\ D # {}
    BY <2>1 DEF Numbers
  <2>4. /\ m.min \in D \cup {MaxValue} /\ \A v \in D \cup {MaxValue} : m.min <= v
        /\ m.max \in D \cup {0} /\ \A v \in D : v <= m.max
        /\ m.min \in Nat /\ m.max \in Nat
    <3> DEFINE min == m.min
               max == m.max
    <3>1. Numbers(values) /\ Extremes(min, max, values)
      BY <2>1
    <3> HIDE DEF min, max, m, values
    <3>2. min \in Nat /\ max \in Nat
      BY <3>1, ExtremesAreNat
    <3>3. /\ min \in D \cup {MaxValue} /\ \A v \in D \cup {MaxValue} : min <= v
          /\ max \in D \cup {0} /\ \A v \in D : v <= max
      BY <3>1 DEF Extremes
    <3> QED
      BY <3>2, <3>3 DEF min, max
  <2>5. Least(h) = m.min
    BY <2>2 DEF Least
  <2>6. \A p \in Percentiles :
           /\ Rank(h, p) \in Nat
           /\ Rank(h, p) = 0 => Percentile(h, p) = 0
           /\ Rank(h, p) > 0 =>
                 /\ Ranked(h, p) \in D /\ CountUpTo(values, Ranked(h, p)) >= Rank(h, p)
                 /\ \A v \in D : CountUpTo(values, v) >= Rank(h, p) => Ranked(h, p) <= v
                 /\ Percentile(h, p) = LowerBound(Bucket(Ranked(h, p)))
    BY PercentileIs
  <2> HIDE DEF m, values, D
  <2>7. Min(D \cup {MaxValue}) = m.min
    <3>1. D \cup {MaxValue} \in SUBSET Nat
      BY <2>3, MaxValueIsNat
    <3> QED
      BY <2>4, <3>1, MinIs
  <2>8. Max(D) = m.max
    <3>1. m.max \in D
      <4>1. PICK v \in D : TRUE
        BY <2>3
      <4>2. v \in Nat /\ v <= m.max
        BY <2>3, <2>4
      <4> QED
        BY <2>4, <4>2
    <3>2. \A z \in D : (\A y \in D : z >= y) => z = m.max
      BY <2>3, <2>4, <3>1
    <3>3. \A y \in D : m.max >= y
      BY <2>3, <2>4
    <3> QED
      BY <3>1, <3>2, <3>3 DEF Max
  <2>9. ASSUME NEW p \in Percentiles, Rank(h, p) > 0
        PROVE  /\ Ranked(h, p) \in Nat /\ Bucket(Ranked(h, p)) \in 0 .. 255
               /\ Percentile(h, p) \in Nat /\ Percentile(h, p) <= Ranked(h, p)
    <3>1. Ranked(h, p) \in Nat /\ Percentile(h, p) = LowerBound(Bucket(Ranked(h, p)))
      BY <2>3, <2>6, <2>9
    <3> DEFINE exact == Ranked(h, p)
    <3> HIDE DEF exact
    <3>2. Bucket(exact) \in 0 .. 255 /\ LowerBound(Bucket(exact)) <= exact
      BY <3>1, BucketHolds DEF exact
    <3>3. LowerBound(Bucket(exact)) \in Nat
      BY <3>2, LowerBoundIsNat
    <3> QED
      BY <3>1, <3>2, <3>3 DEF exact
  <2>10. ASSUME NEW p \in Percentiles, NEW q \in Percentiles, p <= q
         PROVE  Percentile(h, p) <= Percentile(h, q)
    <3>1. p \in 0 .. 1000 /\ q \in 0 .. 1000
      BY HistogramConstants
    <3> DEFINE count == m.count
    <3>a. Rank(h, p) = RankAmong(count, p) /\ Rank(h, q) = RankAmong(count, q)
      BY Zenon DEF Rank, RankAmong, m
    <3>b. count \in Nat
      BY <2>2
    <3> HIDE DEF count
    <3>c. RankAmong(count, p) <= RankAmong(count, q)
      BY <2>10, <3>1, <3>b, RankOrder, ZenonT(60)
    <3>2. Rank(h, p) <= Rank(h, q) /\ Rank(h, p) \in Nat /\ Rank(h, q) \in Nat
      BY <2>6, <3>a, <3>c
    <3>3. CASE Rank(h, p) = 0
      <4>1. Percentile(h, p) = 0 /\ Percentile(h, q) \in Nat
        <5>1. Rank(h, q) = 0 \/ Rank(h, q) > 0
          BY <3>2
        <5> QED
          BY <2>6, <2>9, <3>3, <5>1
      <4> QED
        BY <4>1
    <3>4. CASE Rank(h, p) > 0
      <4> DEFINE a == Ranked(h, p)
                 b == Ranked(h, q)
                 low == Rank(h, p)
                 high == Rank(h, q)
      <4>1. high > 0
        BY <3>2, <3>4
      <4>2. /\ b \in D /\ CountUpTo(values, b) >= high
            /\ \A v \in D : CountUpTo(values, v) >= low => a <= v
            /\ Percentile(h, p) = LowerBound(Bucket(a)) /\ Percentile(h, q) = LowerBound(Bucket(b))
        BY <2>6, <3>4, <4>1
      <4>3. a \in Nat /\ b \in Nat
        BY <2>9, <3>4, <4>1
      <4> HIDE DEF a, b, low, high
      <4>4. CountUpTo(values, b) \in Nat
        BY <2>1, <4>3, CountUpToIsNat
      <4>5. CountUpTo(values, b) >= low
        BY <3>2, <4>2, <4>4 DEF low, high
      <4>6. a <= b
        BY <4>2, <4>5
      <4>7. Bucket(a) <= Bucket(b) /\ Bucket(a) \in 0 .. 255 /\ Bucket(b) \in 0 .. 255
        BY <4>3, <4>6, BucketOrder, BucketHolds
      <4>8. LowerBound(Bucket(a)) <= LowerBound(Bucket(b))
        BY <4>7, LowerBoundOrder
      <4> QED
        BY <4>2, <4>8
    <3> QED
      BY <3>2, <3>3, <3>4
  <2>11. ASSUME NEW p \in Percentiles PROVE Percentile(h, p) <= m.max
    <3>1. CASE Rank(h, p) = 0
      BY <2>4, <2>6, <3>1
    <3>2. CASE Rank(h, p) > 0
      <4>1. Ranked(h, p) <= m.max
        BY <2>4, <2>6, <3>2
      <4> QED
        BY <2>4, <2>9, <3>2, <4>1
    <3> QED
      BY <2>6, <3>1, <3>2
  <2>12. ASSUME NEW p \in Percentiles, Rank(h, p) > 0
         PROVE  Percentile(h, p) >= LowerBound(Bucket(m.min))
    <3> DEFINE exact == Ranked(h, p)
    <3>1. exact \in D /\ exact \in Nat /\ Percentile(h, p) = LowerBound(Bucket(exact))
      BY <2>6, <2>9, <2>12
    <3> HIDE DEF exact
    <3>2. m.min <= exact
      BY <2>4, <3>1
    <3>3. Bucket(m.min) <= Bucket(exact) /\ Bucket(m.min) \in 0 .. 255 /\ Bucket(exact) \in 0 .. 255
      BY <2>4, <3>1, <3>2, BucketOrder, BucketHolds
    <3>4. /\ LowerBound(Bucket(m.min)) <= LowerBound(Bucket(exact))
          /\ LowerBound(Bucket(m.min)) \in Nat /\ LowerBound(Bucket(exact)) \in Nat
      BY <3>3, LowerBoundOrder, LowerBoundIsNat
    <3> QED
      BY <3>1, <3>4
  <2> QED
    BY <2>5, <2>7, <2>8, <2>10, <2>11, <2>12 DEF m, values, D
<1> QED
  BY <1>1, HistogramInvAlways, PTL
=============================================================================
