-------------------------- MODULE RateLimitProofs --------------------------
(***************************************************************************)
(* Proofs about RateLimit, for any rate, burst, clocks and number of       *)
(* requests.                                                               *)
(***************************************************************************)
EXTENDS RateLimit, TLAPS

\* The part of the bucket that can still be given out, and since when the bucket
\* has been filling: the last grant; a bucket that is not there is full now.
Credit == IF bucket = NoBucket THEN Whole ELSE bucket.tokens
Since == IF bucket = NoBucket THEN now ELSE bucket.stamp + age

\* A bucket stays for Ttl from the last grant on.
BucketIsTimed ==
    bucket # NoBucket =>
        /\ bucket.stamp + age <= now
        /\ now < bucket.until
        /\ bucket.until = bucket.stamp + age + Ttl

\* Nodes are behind.
StampsArePast == Start <= now /\ \A q \in LimitedCall : limited[q].stamp <= now

\* What has been given and what is left come from full buckets and from the time
\* up to Since.
Budget ==
    granted * Second + Credit <= Whole * (1 + losses) + Rate * (Since - Start + late)

\* When the promised moment comes the bucket holds a token.
PromiseIsKept ==
    promised # Nothing /\ bucket # NoBucket =>
        /\ bucket.stamp <= promised
        /\ bucket.tokens + Rate * (promised - bucket.stamp) >= Second

RateInv == RateTypeOK /\ StampsArePast /\ BucketIsTimed /\ Budget /\ PromiseIsKept

----------------------------------------------------------------------------
(* Arithmetic *)

\* Multiplication by a natural number respects the order.
LEMMA TimesMonotone ==
  ASSUME NEW k \in Nat, NEW a \in Int, NEW b \in Int, a <= b
  PROVE  k * a <= k * b
<1>1. b - a \in Nat
  OBVIOUS
<1>2. k * (b - a) >= 0
  BY <1>1
<1>3. k * (b - a) = k * b - k * a
  OBVIOUS
<1> QED
  BY <1>2, <1>3

\* Start is the lag of the slowest clock.
LEMMA StartLemma == Start \in Nat /\ \A l \in Lags : l <= Start
<1>1. \E most \in Lags : \A l \in Lags : l <= most
  BY RateAssumption
<1>2. Start \in Lags /\ \A l \in Lags : l <= Start
  BY <1>1 DEF Start
<1> QED
  BY <1>2, RateAssumption

\* A bucket is full again before its key expires: the time to live brings at
\* least Burst tokens.
LEMMA TtlIsLongEnough ==
  /\ Ttl \in Nat /\ Ttl > 0
  /\ Whole \in Nat /\ Whole > 0
  /\ Rate * Ttl >= Whole
<1> DEFINE q == (2 * Burst) \div Rate
           seconds == Larger(1, q)
<1>1. /\ Rate \in Nat /\ Rate > 0 /\ Burst \in Nat /\ Burst > 0
      /\ Second \in Nat /\ Second > 0
  BY RateAssumption
<1>2. q \in Nat /\ 2 * Burst < Rate * q + Rate
  <2> DEFINE n == 2 * Burst
  <2>1. n \in Nat
    BY <1>1
  <2>2. q = n \div Rate
    OBVIOUS
  <2> HIDE DEF n, q
  <2>3. n = Rate * (n \div Rate) + (n % Rate)
    BY <1>1, <2>1
  <2>4. n % Rate \in 0 .. Rate - 1 /\ n \div Rate \in Int
    BY <1>1, <2>1
  <2>5. n \div Rate >= 0
    BY <1>1, <2>1
  <2>6. q \in Nat /\ n < Rate * q + Rate
    BY <1>1, <2>1, <2>2, <2>3, <2>4, <2>5
  <2> QED
    BY <2>6 DEF n
<1>3. seconds \in Nat /\ seconds >= 1 /\ Rate * seconds >= Burst
  <2>1. CASE q >= 1
    <3>1. seconds = q
      BY <1>2, <2>1 DEF Larger
    <3>2. Rate * q >= Rate
      <4> HIDE DEF q
      <4> QED BY <1>1, <1>2, <2>1, TimesMonotone
    <3>3. Rate * q \in Nat
      <4> HIDE DEF q
      <4> QED BY <1>1, <1>2
    <3>4. Rate * q >= Burst
      <4> DEFINE p == Rate * q
      <4>1. 2 * Burst < p + Rate /\ p >= Rate /\ p \in Nat
        BY <1>2, <3>2, <3>3
      <4> HIDE DEF p, q
      <4> QED BY <4>1, <1>1 DEF p
    <3> QED
      BY <1>2, <2>1, <3>1, <3>4
  <2>2. CASE q < 1
    <3>1. q = 0 /\ seconds = 1
      BY <1>2, <2>2 DEF Larger
    <3>2. 2 * Burst < Rate
      BY <1>1, <1>2, <3>1
    <3> QED
      BY <1>1, <3>1, <3>2
  <2> QED
    BY <1>2, <2>1, <2>2
<1>4. Ttl = seconds * Second /\ Whole = Burst * Second
  BY DEF Ttl, Whole
<1> HIDE DEF seconds, q
<1>5. Ttl \in Nat /\ Ttl > 0 /\ Whole \in Nat /\ Whole > 0
  BY <1>1, <1>3, <1>4
<1>6. Rate * Ttl = Second * (Rate * seconds) /\ Whole = Second * Burst
  BY <1>1, <1>3, <1>4
<1>7. Rate * seconds \in Nat
  BY <1>1, <1>3
<1>8. Second * (Rate * seconds) >= Second * Burst
  <2> DEFINE p == Rate * seconds
  <2>1. p \in Nat /\ p >= Burst
    BY <1>3, <1>7
  <2> HIDE DEF p
  <2>2. Second * p >= Second * Burst
    BY <1>1, <2>1, TimesMonotone
  <2> QED BY <2>2 DEF p
<1> QED
  BY <1>5, <1>6, <1>8

----------------------------------------------------------------------------
(* The steps of the script *)

\* What the bucket holds is at most what it held at its last grant and what came
\* since, and never more than a full bucket.
LEMMA FilledLemma ==
  ASSUME RateTypeOK, NEW stamp \in Nat
  PROVE  /\ Filled(stamp) \in 0 .. Whole
         /\ Filled(stamp) <= Credit + Rate * (IF bucket = NoBucket THEN 0
                                             ELSE Larger(0, stamp - bucket.stamp))
<1>1. Rate \in Nat /\ Whole \in Nat
  BY RateAssumption, TtlIsLongEnough
<1>2. CASE bucket = NoBucket
  <2>1. Filled(stamp) = Whole /\ Credit = Whole
    BY <1>2 DEF Filled, Credit
  <2>2. Rate * 0 = 0
    BY <1>1
  <2> QED
    BY <1>1, <1>2, <2>1, <2>2
<1>3. CASE bucket # NoBucket
  <2>1. bucket.tokens \in 0 .. Whole /\ bucket.stamp \in Nat
    BY <1>3 DEF RateTypeOK
  <2> DEFINE d == Larger(0, stamp - bucket.stamp)
  <2>2. d \in Nat
    BY <2>1 DEF Larger
  <2>3. Filled(stamp) = Smaller(Whole, bucket.tokens + d * Rate) /\ Credit = bucket.tokens
    BY <1>3 DEF Filled, Credit
  <2> HIDE DEF d
  <2>4. d * Rate = Rate * d /\ Rate * d \in Nat
    BY <1>1, <2>2
  <2>5. /\ Smaller(Whole, bucket.tokens + Rate * d) \in 0 .. Whole
        /\ Smaller(Whole, bucket.tokens + Rate * d) <= bucket.tokens + Rate * d
    <3> DEFINE p == Rate * d
    <3>1. p \in Nat
      BY <2>4
    <3> HIDE DEF p
    <3>2. Smaller(Whole, bucket.tokens + p) \in 0 .. Whole
      BY <1>1, <2>1, <3>1 DEF Smaller
    <3>3. Smaller(Whole, bucket.tokens + p) <= bucket.tokens + p
      BY <1>1, <2>1, <3>1 DEF Smaller
    <3> QED BY <3>2, <3>3 DEF p
  <2>6. Filled(stamp) \in 0 .. Whole /\ Filled(stamp) <= Credit + Rate * d
    BY <2>3, <2>4, <2>5
  <2> QED
    BY <1>3, <2>6 DEF d
<1> QED
  BY <1>2, <1>3

\* A grant spends what the bucket held, and counts a late stamp.
LEMMA GrantKeepsInv ==
  ASSUME RateInv, NEW stamp \in Nat, stamp <= now,
         Grant(Filled(stamp), stamp), UNCHANGED <<now, losses>>,
         limited' \in [LimitedCall -> [pc : {"idle", "sha", "script"}, stamp : Nat]],
         \A q \in LimitedCall : limited'[q].stamp <= now,
         loaded' \in BOOLEAN
  PROVE  RateInv'
<1> DEFINE filled == Filled(stamp)
           fresh == [tokens |-> filled - Second, stamp |-> stamp, until |-> now + Ttl]
           more == Larger(0, age - (now - stamp))
<1>1. /\ now \in Nat /\ granted \in Nat /\ late \in Nat /\ age \in Nat /\ losses \in Nat
      /\ Rate \in Nat /\ Whole \in Nat /\ Start \in Nat /\ Second \in Nat /\ Second > 0
      /\ Ttl \in Nat /\ Ttl > 0
  BY RateAssumption, StartLemma, TtlIsLongEnough DEF RateInv, RateTypeOK
<1>2. filled \in 0 .. Whole /\ filled >= Second
  BY FilledLemma DEF RateInv, Grant
<1>3. /\ bucket' = fresh /\ granted' = granted + 1 /\ late' = late + more
      /\ age' = now - stamp /\ promised' = Nothing /\ now' = now /\ losses' = losses
  BY DEF Grant
<1>4. more \in Nat /\ more >= age - (now - stamp)
  BY <1>1 DEF Larger
<1> HIDE DEF more, filled
<1>5. /\ fresh \in [tokens : 0 .. Whole, stamp : Nat, until : Nat]
      /\ fresh # NoBucket
  BY <1>1, <1>2 DEF NoBucket, Nothing
<1>6. RateTypeOK'
  <2>1. granted' \in Nat /\ late' \in Nat /\ age' \in Nat /\ losses' \in Nat /\ now' \in Nat
    BY <1>1, <1>3, <1>4
  <2>2. promised' \in Nat \cup {Nothing}
    BY <1>3
  <2> QED
    BY <1>3, <1>5, <2>1, <2>2 DEF RateTypeOK
<1>7. StampsArePast'
  BY <1>1, <1>3 DEF RateInv, StampsArePast
<1>8. BucketIsTimed'
  BY <1>1, <1>3 DEF BucketIsTimed
<1>9. Budget'
  <2>1. Credit' = filled - Second /\ Since' = now
    BY <1>1, <1>2, <1>3, <1>5 DEF Credit, Since
  <2>2. granted' * Second + Credit' = granted * Second + filled
    BY <1>1, <1>2, <1>3, <2>1
  <2> DEFINE d == IF bucket = NoBucket THEN 0 ELSE Larger(0, stamp - bucket.stamp)
  <2>3. d \in Nat /\ Since \in Nat /\ d + Since <= now + more
    <3>1. CASE bucket = NoBucket
      BY <1>1, <1>4, <3>1 DEF Since
    <3>2. CASE bucket # NoBucket
      <4>1. bucket.stamp \in Nat /\ bucket.stamp + age <= now /\ Since = bucket.stamp + age
        BY <3>2 DEF RateInv, RateTypeOK, BucketIsTimed, Since
      <4>2. d = Larger(0, stamp - bucket.stamp)
        BY <3>2
      <4>3. CASE stamp > bucket.stamp
        BY <1>1, <1>4, <4>1, <4>2, <4>3 DEF Larger
      <4>4. CASE stamp <= bucket.stamp
        BY <1>1, <1>4, <4>1, <4>2, <4>4 DEF Larger
      <4> QED
        BY <4>1, <4>3, <4>4
    <3> QED
      BY <3>1, <3>2
  <2>4. Credit \in Nat
    BY <1>1 DEF Credit, RateInv, RateTypeOK
  <2>5. filled <= Credit + Rate * d
    BY FilledLemma DEF filled, RateInv
  <2> HIDE DEF d
  <2>6. granted * Second + filled <= Whole * (1 + losses) + Rate * (Since - Start + late) + Rate * d
    <3> DEFINE g == granted * Second
               w == Whole * (1 + losses)
               r == Rate * (Since - Start + late)
               x == Rate * d
    <3>1. g \in Int /\ w \in Int /\ r \in Int /\ x \in Int
      BY <1>1, <2>3
    <3>2. g + Credit <= w + r /\ filled <= Credit + x
      BY <2>5 DEF RateInv, Budget
    <3> HIDE DEF g, w, r, x
    <3>3. g + filled <= w + r + x
      BY <1>2, <2>4, <3>1, <3>2
    <3> QED BY <3>3 DEF g, w, r, x
  <2>7. Rate * (Since - Start + late) + Rate * d = Rate * (Since - Start + late + d)
    BY <1>1, <2>3
  <2>8. Rate * (Since - Start + late + d) <= Rate * (now - Start + (late + more))
    BY <1>1, <1>4, <2>3, TimesMonotone
  <2>9. granted * Second + filled <= Whole * (1 + losses) + Rate * (now - Start + (late + more))
    <3> DEFINE g == granted * Second
               w == Whole * (1 + losses)
               r == Rate * (Since - Start + late)
               x == Rate * d
               y == Rate * (Since - Start + late + d)
               z == Rate * (now - Start + (late + more))
    <3>1. g \in Int /\ w \in Int /\ r \in Int /\ x \in Int /\ y \in Int /\ z \in Int
      BY <1>1, <1>4, <2>3
    <3>2. g + filled <= w + r + x /\ r + x = y /\ y <= z
      BY <2>6, <2>7, <2>8
    <3> HIDE DEF g, w, r, x, y, z
    <3>3. g + filled <= w + z
      BY <1>2, <3>1, <3>2
    <3> QED BY <3>3 DEF g, w, z
  <2> QED
    BY <1>3, <2>1, <2>2, <2>9 DEF Budget
<1>10. PromiseIsKept'
  BY <1>3 DEF PromiseIsKept
<1> QED
  BY <1>6, <1>7, <1>8, <1>9, <1>10 DEF RateInv

\* A step that leaves the budget alone keeps it.
LEMMA OthersKeepInv ==
  ASSUME RateInv,
         UNCHANGED <<now, bucket, granted, late, age, losses>>,
         limited' \in [LimitedCall -> [pc : {"idle", "sha", "script"}, stamp : Nat]],
         \A q \in LimitedCall : limited'[q].stamp <= now,
         loaded' \in BOOLEAN,
         promised' \in Nat \cup {Nothing},
         PromiseIsKept'
  PROVE  RateInv'
BY DEF RateInv, RateTypeOK, StampsArePast, BucketIsTimed, Budget, Credit, Since

\* After Retry-After seconds what was missing has come.
LEMMA RetryLemma ==
  ASSUME NEW filled \in Nat, filled < Second
  PROVE  /\ RetryAfter(filled) \in Nat
         /\ Rate * (RetryAfter(filled) * Second) >= Second - filled
<1>1. Rate \in Nat /\ Rate > 0 /\ Second \in Nat /\ Second > 0
  BY RateAssumption
<1> DEFINE p == Rate * Second
           n == Second - filled + p - 1
<1>2. p \in Nat /\ p > 0
  BY <1>1
<1> HIDE DEF p
<1>3. n \in Nat
  BY <1>1, <1>2
<1> HIDE DEF n
<1>4. n \div p \in Nat
  BY <1>2, <1>3
<1>5. n = p * (n \div p) + (n % p) /\ n % p \in 0 .. p - 1
  BY <1>2, <1>3
<1>6. p * (n \div p) >= n - p + 1
  <2> DEFINE x == p * (n \div p)
             y == n % p
  <2>1. x \in Int /\ n = x + y /\ y \in 0 .. p - 1
    BY <1>2, <1>4, <1>5
  <2> HIDE DEF x, y
  <2>2. x >= n - p + 1
    BY <1>2, <1>3, <2>1
  <2> QED BY <2>2 DEF x
<1>7. RetryAfter(filled) = n \div p
  BY DEF RetryAfter, n, p
<1>8. n - p + 1 = Second - filled
  BY <1>1, <1>2 DEF n
<1>9. Rate * ((n \div p) * Second) = p * (n \div p)
  <2> DEFINE k == n \div p
  <2>1. k \in Nat
    BY <1>4
  <2> HIDE DEF k
  <2>2. Rate * (k * Second) = (Rate * Second) * k
    BY <1>1, <2>1
  <2> QED BY <2>2 DEF k, p
<1> QED
  BY <1>4, <1>6, <1>7, <1>8, <1>9

\* The script keeps the invariant.
LEMMA ScriptKeepsInv ==
  ASSUME RateInv, NEW q \in LimitedCall, RunScript(q), UNCHANGED <<now, losses>>
  PROVE  RateInv'
<1> DEFINE stamp == limited[q].stamp
<1>1. stamp \in Nat /\ stamp <= now
  BY DEF RateInv, RateTypeOK, StampsArePast
<1>2. /\ limited' \in [LimitedCall -> [pc : {"idle", "sha", "script"}, stamp : Nat]]
      /\ \A k \in LimitedCall : limited'[k].stamp <= now
      /\ loaded' \in BOOLEAN
  BY DEF RateInv, RateTypeOK, StampsArePast, RunScript, CallIdle
<1>3. CASE Grant(Filled(stamp), stamp)
  BY <1>1, <1>2, <1>3, GrantKeepsInv
<1>4. CASE Refuse(Filled(stamp), stamp)
  <2>1. UNCHANGED <<bucket, granted, late, age>>
    BY <1>4 DEF Refuse
  <2>2. Filled(stamp) \in Nat /\ Filled(stamp) < Second
    BY <1>1, <1>4, FilledLemma, TtlIsLongEnough DEF RateInv, Refuse
  <2>3. RetryAfter(Filled(stamp)) \in Nat
    BY <2>2, RetryLemma
  <2>4. stamp + RetryAfter(Filled(stamp)) * Second \in Nat
    BY <1>1, <2>3, RateAssumption
  <2>5. promised' \in Nat \cup {Nothing}
    BY <1>4, <2>4 DEF Refuse, RateInv, RateTypeOK
  <2>6. PromiseIsKept'
    <3>1. CASE bucket = NoBucket \/ stamp < bucket.stamp
      BY <1>4, <2>1, <3>1 DEF Refuse, PromiseIsKept, RateInv
    <3>2. CASE bucket # NoBucket /\ stamp >= bucket.stamp
      <4> DEFINE until == RetryAfter(Filled(stamp)) * Second
                 filled == Filled(stamp)
                 here == stamp - bucket.stamp
      <4>1. /\ bucket.stamp \in Nat /\ bucket.tokens \in Nat
            /\ Rate \in Nat /\ Second \in Nat /\ Whole \in Nat /\ Second <= Whole
        <5>1. Second <= Burst * Second
          BY RateAssumption, TimesMonotone
        <5> QED
          BY <3>2, <5>1, RateAssumption, TtlIsLongEnough DEF RateInv, RateTypeOK, Whole
      <4>2. here \in Nat /\ Larger(0, here) = here
        BY <1>1, <3>2, <4>1 DEF Larger
      <4>3. filled = bucket.tokens + here * Rate /\ here * Rate = Rate * here /\ Rate * here \in Nat
        <5>1. filled = Smaller(Whole, bucket.tokens + here * Rate) /\ filled < Second
          BY <2>2, <3>2, <4>2 DEF Filled
        <5>2. here * Rate \in Nat /\ here * Rate = Rate * here
          BY <4>1, <4>2
        <5> DEFINE x == here * Rate
        <5> HIDE DEF x
        <5>3. Smaller(Whole, bucket.tokens + x) < Second => Smaller(Whole, bucket.tokens + x) = bucket.tokens + x
          BY <4>1 DEF Smaller
        <5> QED
          BY <5>1, <5>2, <5>3 DEF x
      <4>4. until \in Nat /\ Rate * until >= Second - filled
        BY <2>2, <2>3, <4>1, RetryLemma
      <4>5. promised' = stamp + until
        BY <1>4, <3>2, <4>1, <1>1 DEF Refuse
      <4>6. promised' - bucket.stamp = here + until
        BY <1>1, <4>1, <4>4, <4>5
      <4> HIDE DEF until, filled, here
      <4>7. Rate * (here + until) = Rate * here + Rate * until /\ Rate * until \in Nat
        BY <4>1, <4>2, <4>4
      <4>8. bucket.tokens + Rate * (here + until) >= Second
        <5> DEFINE x == Rate * here
                   y == Rate * until
                   z == Rate * (here + until)
        <5>1. /\ x \in Nat /\ y \in Nat /\ z = x + y
              /\ filled = bucket.tokens + x /\ y >= Second - filled
          BY <4>3, <4>4, <4>7
        <5> HIDE DEF x, y, z
        <5>2. bucket.tokens + z >= Second
          BY <4>1, <5>1
        <5> QED BY <5>2 DEF z
      <4>9. bucket.tokens + Rate * (promised' - bucket.stamp) >= Second
        BY <4>6, <4>8
      <4>10. bucket.stamp <= promised'
        BY <1>1, <3>2, <4>1, <4>4, <4>5
      <4> QED
        BY <2>1, <4>9, <4>10 DEF PromiseIsKept
    <3> QED
      BY <1>1, <3>1, <3>2 DEF RateInv, RateTypeOK
  <2> QED
    BY <1>2, <2>1, <2>5, <2>6, OthersKeepInv
<1> QED
  BY <1>3, <1>4 DEF RunScript

----------------------------------------------------------------------------
(* The steps of Next *)

LEMMA InitEstablishesInv == RateInit => RateInv
<1> SUFFICES ASSUME RateInit PROVE RateInv
  OBVIOUS
<1>1. Start \in Nat /\ Whole \in Nat /\ Rate \in Nat /\ Second \in Nat
  BY StartLemma, TtlIsLongEnough, RateAssumption
<1>2. RateTypeOK /\ StampsArePast /\ BucketIsTimed
  BY <1>1 DEF RateInit, RateTypeOK, StampsArePast, BucketIsTimed, CallIdle
<1>3. Budget
  <2>1. granted = 0 /\ losses = 0 /\ late = 0 /\ Credit = Whole /\ Since - Start = 0
    BY <1>1 DEF RateInit, Credit, Since
  <2>2. 0 * Second = 0 /\ Whole * (1 + 0) = Whole /\ Rate * (0 + 0) = 0
    BY <1>1
  <2> QED
    BY <1>1, <2>1, <2>2 DEF Budget
<1> QED
  BY <1>2, <1>3 DEF RateInv, RateInit, PromiseIsKept

\* What a bucket holds is worth no more than a full one, and its last grant is past.
LEMMA CreditLemma ==
  ASSUME RateInv
  PROVE  Credit \in 0 .. Whole /\ Since \in Nat /\ Since <= now
<1>1. Whole \in Nat
  BY TtlIsLongEnough
<1>2. CASE bucket = NoBucket
  BY <1>1, <1>2 DEF Credit, Since, RateInv, RateTypeOK
<1>3. CASE bucket # NoBucket
  BY <1>1, <1>3 DEF Credit, Since, RateInv, RateTypeOK, BucketIsTimed
<1> QED
  BY <1>2, <1>3

\* Keys that are lost cost at most a full bucket.
LEMMA FailoverKeepsInv == ASSUME RateInv, Failover PROVE RateInv'
<1>1. /\ now \in Nat /\ granted \in Nat /\ late \in Nat /\ losses \in Nat
      /\ Rate \in Nat /\ Whole \in Nat /\ Start \in Nat /\ Second \in Nat
  BY RateAssumption, StartLemma, TtlIsLongEnough DEF RateInv, RateTypeOK
<1>2. RateTypeOK' /\ StampsArePast' /\ BucketIsTimed'
  <2>1. bucket' = NoBucket /\ losses' = losses + 1 /\ losses' \in Nat
    BY <1>1 DEF Failover
  <2>2. RateTypeOK'
    BY <2>1 DEF RateInv, RateTypeOK, Failover
  <2> QED
    BY <2>1, <2>2 DEF RateInv, StampsArePast, BucketIsTimed, Failover
<1>3. /\ Credit' = Whole /\ Since' = now /\ losses' = losses + 1
      /\ granted' = granted /\ late' = late
  BY DEF Failover, Credit, Since
<1>4. Rate * (Since - Start + late) <= Rate * (now - Start + late)
  BY <1>1, CreditLemma, TimesMonotone
<1>5. Whole * (1 + (losses + 1)) = Whole * (1 + losses) + Whole
  BY <1>1
<1>6. granted * Second + Whole <= Whole * (1 + (losses + 1)) + Rate * (now - Start + late)
  <2> DEFINE g == granted * Second
             w == Whole * (1 + losses)
             v == Whole * (1 + (losses + 1))
             r == Rate * (Since - Start + late)
             z == Rate * (now - Start + late)
  <2>1. g \in Int /\ w \in Int /\ v \in Int /\ r \in Int /\ z \in Int
    BY <1>1, CreditLemma
  <2>2. g + Credit <= w + r /\ r <= z /\ v = w + Whole /\ Credit \in Nat
    BY <1>1, <1>4, <1>5, CreditLemma DEF RateInv, Budget
  <2> HIDE DEF g, w, v, r, z
  <2>3. g + Whole <= v + z
    BY <1>1, <2>1, <2>2
  <2> QED BY <2>3 DEF g, v, z
<1>7. Budget'
  BY <1>3, <1>6 DEF Budget, Failover
<1>8. PromiseIsKept'
  BY DEF Failover, PromiseIsKept
<1> QED
  BY <1>2, <1>7, <1>8 DEF RateInv

\* A key that expires was due a full bucket by then.
LEMMA TimeKeepsInv == ASSUME RateInv, TimePasses PROVE RateInv'
<1>1. /\ now \in Nat /\ granted \in Nat /\ late \in Nat /\ losses \in Nat /\ age \in Nat
      /\ Rate \in Nat /\ Whole \in Nat /\ Start \in Nat /\ Second \in Nat /\ Ttl \in Nat
  BY RateAssumption, StartLemma, TtlIsLongEnough DEF RateInv, RateTypeOK
<1>2. RateTypeOK' /\ StampsArePast'
  BY <1>1 DEF RateInv, RateTypeOK, StampsArePast, TimePasses
<1>3. now' = now + 1 /\ granted' = granted /\ late' = late /\ losses' = losses /\ age' = age
  BY DEF TimePasses
<1>4. CASE bucket = NoBucket
  <2>1. bucket' = NoBucket
    BY <1>4 DEF TimePasses
  <2>2. BucketIsTimed'
    BY <2>1 DEF BucketIsTimed
  <2>3. Credit = Whole /\ Credit' = Whole /\ Since = now /\ Since' = now + 1
    BY <1>3, <1>4, <2>1 DEF Credit, Since
  <2>4. Rate * (now - Start + late) <= Rate * (now + 1 - Start + late)
    BY <1>1, TimesMonotone
  <2>5. granted * Second + Whole <= Whole * (1 + losses) + Rate * (now + 1 - Start + late)
    <3> DEFINE g == granted * Second
               w == Whole * (1 + losses)
               r == Rate * (now - Start + late)
               z == Rate * (now + 1 - Start + late)
    <3>1. g \in Int /\ w \in Int /\ r \in Int /\ z \in Int
      BY <1>1
    <3>2. g + Whole <= w + r /\ r <= z
      BY <2>3, <2>4 DEF RateInv, Budget
    <3> HIDE DEF g, w, r, z
    <3>3. g + Whole <= w + z
      BY <1>1, <3>1, <3>2
    <3> QED BY <3>3 DEF g, w, z
  <2>6. Budget'
    <3>1. Since' - Start + late' = now + 1 - Start + late
      BY <1>1, <1>3, <2>3
    <3>2. Rate * (Since' - Start + late') = Rate * (now + 1 - Start + late)
      BY <3>1
    <3>3. /\ granted' * Second = granted * Second
          /\ Whole * (1 + losses') = Whole * (1 + losses)
      BY <1>3
    <3> QED
      BY <2>3, <2>5, <3>2, <3>3 DEF Budget
  <2> QED
    BY <1>2, <2>1, <2>2, <2>6 DEF RateInv, PromiseIsKept
<1>5. CASE bucket # NoBucket /\ bucket.until # now + 1
  <2>1. bucket' = bucket
    BY <1>5 DEF TimePasses
  <2>2. bucket.until \in Nat /\ now < bucket.until
    BY <1>5 DEF RateInv, RateTypeOK, BucketIsTimed
  <2>3. BucketIsTimed'
    <3>1. bucket.stamp \in Nat /\ bucket.stamp + age <= now
      BY <1>5 DEF RateInv, RateTypeOK, BucketIsTimed
    <3> QED
      BY <1>1, <1>3, <1>5, <2>1, <2>2, <3>1 DEF RateInv, BucketIsTimed, Ttl
  <2>4. Credit' = Credit /\ Since' = Since
    BY <1>3, <1>5, <2>1 DEF Credit, Since
  <2>5. Budget'
    BY <1>3, <2>4 DEF RateInv, Budget
  <2> QED
    BY <1>2, <2>1, <2>3, <2>5 DEF RateInv, PromiseIsKept, TimePasses
<1>6. CASE bucket # NoBucket /\ bucket.until = now + 1
  <2>1. bucket' = NoBucket
    BY <1>6 DEF TimePasses
  <2>2. BucketIsTimed'
    BY <2>1 DEF BucketIsTimed
  <2>3. Credit' = Whole /\ Since' = now + 1
    BY <1>3, <2>1 DEF Credit, Since
  <2>4. now + 1 = Since + Ttl /\ Since \in Nat
    BY <1>6, CreditLemma DEF RateInv, BucketIsTimed, Since
  <2>5. Rate * (now + 1 - Start + late) = Rate * (Since - Start + late) + Rate * Ttl
    BY <1>1, <2>4
  <2>6. granted * Second + Whole <= Whole * (1 + losses) + Rate * (now + 1 - Start + late)
    <3> DEFINE g == granted * Second
               w == Whole * (1 + losses)
               r == Rate * (Since - Start + late)
               t == Rate * Ttl
               z == Rate * (now + 1 - Start + late)
    <3>1. g \in Int /\ w \in Int /\ r \in Int /\ t \in Int /\ z \in Int
      BY <1>1, <2>4
    <3>2. g + Credit <= w + r /\ z = r + t /\ t >= Whole /\ Credit \in Nat
      BY <1>1, <2>5, CreditLemma, TtlIsLongEnough DEF RateInv, Budget
    <3> HIDE DEF g, w, r, t, z
    <3>3. g + Whole <= w + z
      BY <1>1, <3>1, <3>2
    <3> QED BY <3>3 DEF g, w, z
  <2>7. Budget'
    <3>1. Since' - Start + late' = now + 1 - Start + late
      BY <1>1, <1>3, <2>3
    <3>2. Rate * (Since' - Start + late') = Rate * (now + 1 - Start + late)
      BY <3>1
    <3>3. /\ granted' * Second = granted * Second
          /\ Whole * (1 + losses') = Whole * (1 + losses)
      BY <1>3
    <3> QED
      BY <2>3, <2>6, <3>2, <3>3 DEF Budget
  <2> QED
    BY <1>2, <2>1, <2>2, <2>7 DEF RateInv, PromiseIsKept
<1> QED
  BY <1>4, <1>5, <1>6

\* A request takes the time of a node, which is not ahead.
LEMMA HandleKeepsInv == ASSUME RateInv, NEW q \in LimitedCall, Handle(q) PROVE RateInv'
<1>1. PICK l \in Lags : limited' = [limited EXCEPT ![q] = [pc |-> "sha", stamp |-> now - l]]
  BY DEF Handle
<1>2. now - l \in Nat /\ now - l <= now
  BY StartLemma, RateAssumption DEF RateInv, RateTypeOK, StampsArePast
<1> QED
  BY <1>1, <1>2, OthersKeepInv DEF RateInv, RateTypeOK, StampsArePast, PromiseIsKept, Handle

\* The invariant is inductive.
LEMMA NextKeepsInv == RateInv /\ [RateNext]_rateVars => RateInv'
<1> SUFFICES ASSUME RateInv, [RateNext]_rateVars PROVE RateInv'
  OBVIOUS
<1>1. CASE TimePasses
  BY <1>1, TimeKeepsInv
<1>2. CASE Failover
  BY <1>2, FailoverKeepsInv
<1>3. ASSUME NEW q \in LimitedCall, Handle(q) PROVE RateInv'
  BY <1>3, HandleKeepsInv
<1>4. ASSUME NEW q \in LimitedCall, EvalSha(q) PROVE RateInv'
  BY <1>4, ScriptKeepsInv DEF EvalSha
<1>5. ASSUME NEW q \in LimitedCall, NoScript(q) PROVE RateInv'
  <2>1. /\ limited' \in [LimitedCall -> [pc : {"idle", "sha", "script"}, stamp : Nat]]
        /\ \A k \in LimitedCall : limited'[k].stamp <= now
    BY <1>5 DEF NoScript, RateInv, RateTypeOK, StampsArePast
  <2> QED
    BY <1>5, <2>1, OthersKeepInv DEF NoScript, RateInv, RateTypeOK, PromiseIsKept
<1>6. ASSUME NEW q \in LimitedCall, Eval(q) PROVE RateInv'
  BY <1>6, ScriptKeepsInv DEF Eval
<1>7. ASSUME NEW q \in LimitedCall, EvalFails(q) PROVE RateInv'
  <2>1. CASE RunScript(q)
    BY <1>7, <2>1, ScriptKeepsInv DEF EvalFails
  <2>2. CASE /\ limited' = [limited EXCEPT ![q] = CallIdle]
             /\ UNCHANGED <<bucket, loaded, granted, late, age, promised>>
    <3>1. /\ limited' \in [LimitedCall -> [pc : {"idle", "sha", "script"}, stamp : Nat]]
          /\ \A k \in LimitedCall : limited'[k].stamp <= now
      BY <2>2 DEF CallIdle, RateInv, RateTypeOK, StampsArePast
    <3> QED
      BY <1>7, <2>2, <3>1, OthersKeepInv DEF EvalFails, RateInv, RateTypeOK, PromiseIsKept
  <2> QED
    BY <1>7, <2>1, <2>2 DEF EvalFails
<1>8. CASE UNCHANGED rateVars
  BY <1>8, OthersKeepInv DEF rateVars, RateInv, RateTypeOK, StampsArePast, PromiseIsKept
<1> QED
  BY <1>1, <1>2, <1>3, <1>4, <1>5, <1>6, <1>7, <1>8 DEF RateNext

\* The tokens given are within the budget.
LEMMA InvImpliesRate == RateInv => GrantedWithinRate
<1> SUFFICES ASSUME RateInv PROVE GrantedWithinRate
  OBVIOUS
<1>1. /\ now \in Nat /\ granted \in Nat /\ late \in Nat /\ losses \in Nat
      /\ Rate \in Nat /\ Whole \in Nat /\ Start \in Nat /\ Second \in Nat
  BY RateAssumption, StartLemma, TtlIsLongEnough DEF RateInv, RateTypeOK
<1>2. Rate * (Since - Start + late) <= Rate * (now - Start + late)
  BY <1>1, CreditLemma, TimesMonotone
<1> DEFINE g == granted * Second
           w == Whole * (1 + losses)
           r == Rate * (Since - Start + late)
           z == Rate * (now - Start + late)
<1>3. g \in Int /\ w \in Int /\ r \in Int /\ z \in Int
  BY <1>1, CreditLemma
<1>4. g + Credit <= w + r /\ r <= z /\ Credit \in Nat
  BY <1>1, <1>2, CreditLemma DEF RateInv, Budget
<1> HIDE DEF g, w, r, z
<1>5. g <= w + z
  BY <1>3, <1>4
<1> QED
  BY <1>5 DEF g, w, z, GrantedWithinRate

----------------------------------------------------------------------------
(* The theorems *)

\* The bucket, the requests and the counters keep their types.
THEOREM RateTypeCorrect == RateSpec => []RateTypeOK
<1>1. RateInv => RateTypeOK
  BY DEF RateInv
<1> QED
  BY <1>1, InitEstablishesInv, NextKeepsInv, PTL DEF RateSpec

\* The limiter (ratelimit_middleware.go:15-52) gives a user no more tokens than a
\* full bucket, one more for each loss of the keys, and the rate over the time that
\* has passed and that late stamps have repeated: for any rate and burst, clocks
\* of any lag, and any number of requests, refusals and failures.
THEOREM GrantedWithinRateHolds == RateSpec => []GrantedWithinRate
<1> QED
  BY InvImpliesRate, InitEstablishesInv, NextKeepsInv, PTL DEF RateSpec

\* A request that comes when it was told to, or later, is not refused.
LEMMA NotRefused ==
  ASSUME RateInv, promised # Nothing, NEW stamp \in Nat, stamp >= promised
  PROVE  Filled(stamp) >= Second
<1>1. /\ Rate \in Nat /\ Second \in Nat /\ Whole \in Nat /\ Second <= Whole /\ promised \in Nat
  <2>1. Second <= Burst * Second
    BY RateAssumption, TimesMonotone
  <2> QED
    BY <2>1, RateAssumption, TtlIsLongEnough DEF RateInv, RateTypeOK, Whole
<1>2. CASE bucket = NoBucket
  BY <1>1, <1>2 DEF Filled
<1>3. CASE bucket # NoBucket
  <2> DEFINE here == stamp - bucket.stamp
             then == promised - bucket.stamp
  <2>1. /\ bucket.stamp \in Nat /\ bucket.tokens \in Nat /\ bucket.stamp <= promised
        /\ bucket.tokens + Rate * then >= Second
    BY <1>1, <1>3 DEF RateInv, RateTypeOK, PromiseIsKept
  <2>2. here \in Nat /\ then \in Nat /\ then <= here /\ Larger(0, here) = here
    BY <1>1, <2>1 DEF Larger
  <2>3. Filled(stamp) = Smaller(Whole, bucket.tokens + here * Rate)
    BY <1>3, <2>2 DEF Filled
  <2> HIDE DEF here, then
  <2>4. Rate * then <= Rate * here /\ here * Rate = Rate * here
    BY <1>1, <2>2, TimesMonotone
  <2>5. Rate * then \in Nat /\ Rate * here \in Nat
    BY <1>1, <2>2
  <2>6. bucket.tokens + Rate * here >= Second
    <3> DEFINE x == Rate * then
               y == Rate * here
    <3>1. x \in Nat /\ y \in Nat /\ x <= y /\ bucket.tokens + x >= Second
      BY <2>1, <2>4, <2>5
    <3> HIDE DEF x, y
    <3>2. bucket.tokens + y >= Second
      BY <1>1, <2>1, <3>1
    <3> QED BY <3>2 DEF y
  <2> QED
    BY <1>1, <2>3, <2>4, <2>6 DEF Smaller
<1> QED
  BY <1>2, <1>3

\* Retry-After (ratelimit_middleware.go:48-51, 120-128) is long enough: for any
\* rate, rounded up to whole seconds, and whatever is lost or expires meanwhile.
THEOREM RetryAfterIsEnoughHolds == RateSpec => RetryAfterIsEnough
<1>1. ASSUME RateInv, [RateNext]_rateVars, NEW q \in LimitedCall,
             limited[q].pc \in {"sha", "script"}, limited'[q].pc = "idle",
             promised # Nothing, limited[q].stamp >= promised
      PROVE  promised' \in {promised, Nothing}
  <2> DEFINE stamp == limited[q].stamp
  <2>1. stamp \in Nat /\ limited \in [LimitedCall -> [pc : {"idle", "sha", "script"}, stamp : Nat]]
    BY <1>1 DEF RateInv, RateTypeOK
  <2>2. Filled(stamp) >= Second /\ Filled(stamp) \in Nat /\ Second \in Nat
    BY <1>1, <2>1, NotRefused, FilledLemma, TtlIsLongEnough, RateAssumption DEF RateInv
  <2>3. \A k \in LimitedCall : RunScript(k) => k = q
    BY <1>1, <2>1 DEF RunScript, CallIdle
  <2>4. RunScript(q) => promised' = Nothing
    BY <2>2 DEF RunScript, Grant, Refuse
  <2>5. \A k \in LimitedCall :
            EvalSha(k) \/ Eval(k) \/ EvalFails(k) => promised' \in {promised, Nothing}
    BY <2>3, <2>4 DEF EvalSha, Eval, EvalFails
  <2>6. TimePasses \/ Failover \/ (\E k \in LimitedCall : Handle(k) \/ NoScript(k))
        \/ UNCHANGED rateVars => promised' = promised
    BY DEF TimePasses, Failover, Handle, NoScript, rateVars
  <2> QED
    BY <1>1, <2>5, <2>6 DEF RateNext
<1>2. RateInv /\ [RateNext]_rateVars =>
        [\A q \in LimitedCall :
            /\ limited[q].pc \in {"sha", "script"} /\ limited'[q].pc = "idle"
            /\ promised # Nothing /\ limited[q].stamp >= promised
            => promised' \in {promised, Nothing}]_rateVars
  BY <1>1
<1> QED
  BY <1>2, InitEstablishesInv, NextKeepsInv, PTL DEF RateSpec, RetryAfterIsEnough
=============================================================================
