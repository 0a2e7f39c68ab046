-------------------------- MODULE RateLimiterProofs --------------------------
(***************************************************************************)
(* Proofs about RateLimiter for any limit, any length of a window and any  *)
(* keys, whatever the order in which requests come to be counted.          *)
(***************************************************************************)
EXTENDS RateLimiter, TLAPS

USE LimiterAssumption

-----------------------------------------------------------------------------
(* Arithmetic: products of two variables are dealt with here only *)

LEMMA TimesMonotone ==
    ASSUME NEW a \in Nat, NEW x \in Nat, NEW y \in Nat, x <= y
    PROVE  a * x <= a * y
  <1> DEFINE d == y - x
  <1>1. d \in Nat /\ y = x + d
    OBVIOUS
  <1> HIDE DEF d
  <1>2. a * (x + d) = a * x + a * d
    BY <1>1
  <1>3. a * d \in Nat /\ a * x \in Nat
    BY <1>1
  <1> QED
    BY <1>1, <1>2, <1>3

LEMMA TimesIsNat == ASSUME NEW a \in Nat, NEW b \in Nat PROVE a * b \in Nat
  OBVIOUS

\* A window that has let g pass, at most the limit, adds its length to the budget.
LEMMA WindowAdds ==
    ASSUME NEW p \in Nat, NEW g \in Nat, NEW m \in Nat, NEW l \in Nat, NEW x \in Nat,
           g <= p, g <= l, (p - g) * m <= l * x
    PROVE  p * m <= l * (x + m)
  <1> DEFINE d == p - g
  <1>1. d \in Nat /\ p = d + g
    OBVIOUS
  <1>2. d * m <= l * x
    OBVIOUS
  <1> HIDE DEF d
  <1>3. (d + g) * m = d * m + g * m
    BY <1>1
  <1>4. m * g <= m * l
    BY TimesMonotone
  <1>5. g * m <= l * m
    BY <1>4
  <1>6. l * (x + m) = l * x + l * m
    OBVIOUS
  <1>7. d * m \in Nat /\ g * m \in Nat /\ l * m \in Nat /\ l * x \in Nat
    BY <1>1, TimesIsNat
  <1> QED
    BY <1>1, <1>2, <1>3, <1>5, <1>6, <1>7

LEMMA NextMinute ==
    ASSUME NEW r \in Nat, NEW m \in Nat
    PROVE  (r + 1) * m = r * m + m
  OBVIOUS

-----------------------------------------------------------------------------
(* Types *)

LEMMA CurrentType ==
    ASSUME LimiterTypeOK, NEW key \in BucketKeys, NEW at \in Nat
    PROVE  /\ Current(key, at) \in Bucket
           /\ Current(key, at).start \in Nat /\ Current(key, at).count \in Nat
  <1>1. buckets[key] \in Bucket
    BY DEF LimiterTypeOK
  <1>2. [start |-> at, count |-> 0] \in Bucket
    BY DEF Bucket
  <1> QED
    BY <1>1, <1>2 DEF Current, Bucket

LEMMA InitTypes == LimiterInit => LimiterTypeOK
  BY DEF LimiterInit, LimiterTypeOK, Bucket, NoBucket

LEMMA CountTypes ==
    ASSUME LimiterTypeOK, NEW key \in BucketKeys, NEW at \in born..now, Count(key, at), UNCHANGED now
    PROVE  LimiterTypeOK'
  <1>1. at \in Nat
    BY DEF LimiterTypeOK
  <1>2. [Current(key, at) EXCEPT !.count = Current(key, at).count + 1] \in Bucket
    BY <1>1, CurrentType DEF Bucket
  <1>3. buckets' \in [BucketKeys -> Bucket]
    BY <1>2 DEF Count, LimiterTypeOK
  <1>4. passed' \in [BucketKeys -> Nat]
    BY DEF Count, LimiterTypeOK
  <1> QED
    BY <1>3, <1>4 DEF Count, LimiterTypeOK

LEMMA StepTypes == LimiterTypeOK /\ [LimiterNext]_limiterVars => LimiterTypeOK'
  <1> SUFFICES ASSUME LimiterTypeOK, [LimiterNext]_limiterVars PROVE LimiterTypeOK'
    OBVIOUS
  <1>1. ASSUME NEW key \in BucketKeys, NEW at \in born..now, Count(key, at), UNCHANGED now
        PROVE  LimiterTypeOK'
    BY <1>1, CountTypes
  <1>2. CASE Forget /\ UNCHANGED now
    BY <1>2 DEF Forget, LimiterTypeOK, Bucket, NoBucket
  <1>3. CASE now' = now + 1 /\ UNCHANGED limiter
    BY <1>3 DEF limiter, LimiterTypeOK
  <1>4. CASE UNCHANGED limiterVars
    BY <1>4 DEF limiterVars, limiter, LimiterTypeOK
  <1> QED
    BY <1>1, <1>2, <1>3, <1>4 DEF LimiterNext

-----------------------------------------------------------------------------
(* The inductive invariant *)

\* How many of the requests counted in the present window were let pass.
Granted(key) == IF buckets[key].count <= Limit THEN buckets[key].count ELSE Limit

\* Before the present window no more had passed than the time until its beginning
\* and the starts of the backend explain; it began after the last of those.
Earned(key) ==
    IF buckets[key].start = NoTime
    THEN passed[key] * Minute <= Limit * (born + restarts * Minute)
    ELSE /\ buckets[key].start \in born..now
         /\ Granted(key) <= passed[key]
         /\ (passed[key] - Granted(key)) * Minute <= Limit * (buckets[key].start + restarts * Minute)

IndInv == LimiterTypeOK /\ \A key \in BucketKeys : Earned(key)

LEMMA KeyTypes ==
    ASSUME LimiterTypeOK, NEW key \in BucketKeys
    PROVE  /\ passed[key] \in Nat /\ buckets[key].count \in Nat
           /\ buckets[key].start \in Nat \cup {NoTime}
           /\ Granted(key) \in Nat /\ Granted(key) <= Limit
           /\ born \in Nat /\ now \in Nat /\ restarts \in Nat /\ born <= now
           /\ restarts * Minute \in Nat
  <1>1. buckets[key] \in Bucket
    BY DEF LimiterTypeOK
  <1> QED
    BY <1>1, TimesIsNat DEF LimiterTypeOK, Bucket, Granted

\* When the present window is over, its requests are paid for by its length.
LEMMA WindowPaid ==
    ASSUME LimiterTypeOK, NEW key \in BucketKeys, Earned(key),
           NEW at \in Nat, buckets[key].start # NoTime, buckets[key].start + Minute <= at
    PROVE  passed[key] * Minute <= Limit * (at + restarts * Minute)
  <1> DEFINE x == buckets[key].start + restarts * Minute
  <1>1. x \in Nat
    BY KeyTypes
  <1>2. (passed[key] - Granted(key)) * Minute <= Limit * x /\ Granted(key) <= passed[key]
    BY DEF Earned
  <1>3. x + Minute <= at + restarts * Minute /\ at + restarts * Minute \in Nat
    BY KeyTypes
  <1> HIDE DEF x
  <1>4. passed[key] * Minute <= Limit * (x + Minute)
    BY <1>1, <1>2, KeyTypes, WindowAdds
  <1>5. Limit * (x + Minute) <= Limit * (at + restarts * Minute)
    BY <1>1, <1>3, TimesMonotone
  <1>6. /\ passed[key] * Minute \in Nat /\ Limit * (x + Minute) \in Nat
        /\ Limit * (at + restarts * Minute) \in Nat
    BY <1>1, <1>3, KeyTypes, TimesIsNat
  <1> QED
    BY <1>4, <1>5, <1>6

\* At any time, one more minute pays for all that has passed.
LEMMA AlwaysPaid ==
    ASSUME LimiterTypeOK, NEW key \in BucketKeys, Earned(key)
    PROVE  passed[key] * Minute <= Limit * (now + (restarts + 1) * Minute)
  <1>1. now + (restarts + 1) * Minute = (now + Minute) + restarts * Minute
    BY NextMinute, KeyTypes
  <1>2. CASE buckets[key].start = NoTime
    <2>1. passed[key] * Minute <= Limit * (born + restarts * Minute)
      BY <1>2 DEF Earned
    <2>2. /\ born + restarts * Minute \in Nat /\ (now + Minute) + restarts * Minute \in Nat
          /\ born + restarts * Minute <= (now + Minute) + restarts * Minute
      BY KeyTypes
    <2>3. Limit * (born + restarts * Minute) <= Limit * ((now + Minute) + restarts * Minute)
      BY <2>2, TimesMonotone
    <2>4. /\ passed[key] * Minute \in Nat /\ Limit * (born + restarts * Minute) \in Nat
          /\ Limit * ((now + Minute) + restarts * Minute) \in Nat
      BY <2>2, KeyTypes, TimesIsNat
    <2> QED
      BY <1>1, <2>1, <2>3, <2>4
  <1>3. CASE buckets[key].start # NoTime
    <2>1. buckets[key].start + Minute <= now + Minute /\ now + Minute \in Nat
      BY <1>3, KeyTypes DEF Earned
    <2>2. passed[key] * Minute <= Limit * ((now + Minute) + restarts * Minute)
      BY <1>3, <2>1, WindowPaid
    <2> QED
      BY <1>1, <2>2
  <1> QED
    BY <1>2, <1>3

LEMMA InitEarns == LimiterInit => IndInv
  <1> SUFFICES ASSUME LimiterInit, NEW key \in BucketKeys PROVE Earned(key)
    BY InitTypes DEF IndInv
  <1>1. buckets[key].start = NoTime /\ passed[key] = 0 /\ born = 0 /\ restarts = 0
    BY DEF LimiterInit, NoBucket
  <1>2. passed[key] * Minute = 0 /\ restarts * Minute = 0
    BY <1>1
  <1> QED
    BY <1>1, <1>2 DEF Earned

\* A request that opens a window does so when the one before has been paid for.
LEMMA OpeningEarns ==
    ASSUME IndInv, NEW key \in BucketKeys, NEW at \in born..now, Count(key, at), UNCHANGED now,
           buckets[key].start = NoTime \/ at >= buckets[key].start + Minute
    PROVE  Earned(key)'
  <1>1. LimiterTypeOK /\ Earned(key) /\ at \in Nat /\ born <= at /\ at <= now
    BY KeyTypes DEF IndInv
  <1>2. Current(key, at) = [start |-> at, count |-> 0]
    BY DEF Current
  <1>3. buckets'[key] = [start |-> at, count |-> 1]
    BY <1>1, <1>2 DEF Count, LimiterTypeOK
  <1>4. passed'[key] = passed[key] + (IF 0 >= Limit THEN 0 ELSE 1)
    BY <1>1, <1>2 DEF Count, Exceeded, LimiterTypeOK
  <1>5. born' = born /\ restarts' = restarts /\ now' = now
    BY DEF Count
  <1>6. Granted(key)' = IF 0 >= Limit THEN 0 ELSE 1
    BY <1>3 DEF Granted
  <1>7. passed[key] * Minute <= Limit * (at + restarts * Minute)
    <2>1. CASE buckets[key].start = NoTime
      <3>1. passed[key] * Minute <= Limit * (born + restarts * Minute)
        BY <1>1, <2>1 DEF Earned
      <3>2. /\ born + restarts * Minute \in Nat /\ at + restarts * Minute \in Nat
            /\ born + restarts * Minute <= at + restarts * Minute
        BY <1>1, KeyTypes
      <3>3. Limit * (born + restarts * Minute) <= Limit * (at + restarts * Minute)
        BY <3>2, TimesMonotone
      <3>4. /\ passed[key] * Minute \in Nat /\ Limit * (born + restarts * Minute) \in Nat
            /\ Limit * (at + restarts * Minute) \in Nat
        BY <1>1, <3>2, KeyTypes, TimesIsNat
      <3> QED
        BY <3>1, <3>3, <3>4
    <2>2. CASE buckets[key].start # NoTime
      <3>1. buckets[key].start + Minute <= at
        BY <1>1, <2>2, KeyTypes
      <3> QED
        BY <1>1, <2>2, <3>1, WindowPaid
    <2> QED
      BY <2>1, <2>2
  <1>8. passed'[key] - Granted(key)' = passed[key] /\ Granted(key)' <= passed'[key]
    BY <1>1, <1>4, <1>6, KeyTypes
  <1>9. at # NoTime /\ buckets'[key].start = at
    BY <1>1, <1>3
  <1> QED
    BY <1>1, <1>5, <1>7, <1>8, <1>9 DEF Earned

\* A request counted in the present window is granted as long as the limit lasts.
LEMMA CountingEarns ==
    ASSUME IndInv, NEW key \in BucketKeys, NEW at \in born..now, Count(key, at), UNCHANGED now,
           ~(buckets[key].start = NoTime \/ at >= buckets[key].start + Minute)
    PROVE  Earned(key)'
  <1>1. LimiterTypeOK /\ Earned(key) /\ buckets[key] \in Bucket
    BY DEF IndInv, LimiterTypeOK
  <1>2. Current(key, at) = buckets[key]
    BY DEF Current
  <1>3. /\ buckets'[key].start = buckets[key].start
        /\ buckets'[key].count = buckets[key].count + 1
    BY <1>1, <1>2 DEF Count, LimiterTypeOK, Bucket
  <1>4. passed'[key] = passed[key] + (IF buckets[key].count >= Limit THEN 0 ELSE 1)
    BY <1>1, <1>2 DEF Count, Exceeded, LimiterTypeOK
  <1>5. born' = born /\ restarts' = restarts /\ now' = now
    BY DEF Count
  <1>6. Granted(key)' = Granted(key) + (IF buckets[key].count >= Limit THEN 0 ELSE 1)
    <2>1. Granted(key)' = IF buckets'[key].count <= Limit THEN buckets'[key].count ELSE Limit
      BY DEF Granted
    <2>2. buckets[key].count \in Nat
      BY <1>1, KeyTypes
    <2> QED
      BY <1>3, <2>1, <2>2 DEF Granted
  <1>7. passed'[key] - Granted(key)' = passed[key] - Granted(key) /\ Granted(key)' <= passed'[key]
    BY <1>1, <1>4, <1>6, KeyTypes DEF Earned
  <1> QED
    BY <1>1, <1>3, <1>5, <1>7 DEF Earned

LEMMA StepEarns == IndInv /\ [LimiterNext]_limiterVars => IndInv'
  <1> SUFFICES ASSUME IndInv, [LimiterNext]_limiterVars, NEW key \in BucketKeys PROVE Earned(key)'
    BY StepTypes DEF IndInv
  <1>1. LimiterTypeOK /\ Earned(key)
    BY DEF IndInv
  <1>2. ASSUME NEW k \in BucketKeys, NEW at \in born..now, Count(k, at), UNCHANGED now
        PROVE  Earned(key)'
    <2>1. CASE k = key
      BY <1>2, <2>1, OpeningEarns, CountingEarns
    <2>2. CASE k # key
      <3>1. /\ buckets'[key] = buckets[key] /\ passed'[key] = passed[key]
            /\ born' = born /\ restarts' = restarts /\ now' = now
        BY <1>1, <1>2, <2>2 DEF Count, LimiterTypeOK
      <3> QED
        BY <1>1, <3>1 DEF Earned, Granted
    <2> QED
      BY <2>1, <2>2
  <1>3. CASE Forget /\ UNCHANGED now
    <2>1. /\ buckets'[key].start = NoTime /\ passed'[key] = passed[key]
          /\ born' = now /\ restarts' = restarts + 1
      BY <1>3 DEF Forget, NoBucket
    <2>2. passed[key] * Minute <= Limit * (now + (restarts + 1) * Minute)
      BY <1>1, AlwaysPaid
    <2> QED
      BY <2>1, <2>2 DEF Earned
  <1>4. CASE now' = now + 1 /\ UNCHANGED limiter
    <2>1. now \in Nat
      BY <1>1, KeyTypes
    <2> QED
      BY <1>1, <1>4, <2>1, KeyTypes DEF limiter, Earned, Granted
  <1>5. CASE UNCHANGED limiterVars
    BY <1>1, <1>5 DEF limiterVars, limiter, Earned, Granted
  <1> QED
    BY <1>2, <1>3, <1>4, <1>5 DEF LimiterNext

-----------------------------------------------------------------------------
(* Theorems *)

\* The buckets and the clock keep their types.
THEOREM TypeCorrectness == LimiterSpec => []LimiterTypeOK
  BY InitTypes, StepTypes, PTL DEF LimiterSpec

\* No caller is let pass more often than the limit for every minute of the clock, for
\* the one that has begun, and for every start of the backend, although requests are
\* counted in another order than they have read the clock in.
THEOREM PassesStayBounded == LimiterSpec => []PassesBounded
  <1>1. IndInv => PassesBounded
    BY AlwaysPaid DEF IndInv, PassesBounded
  <1> QED
    BY InitEarns, StepEarns, <1>1, PTL DEF LimiterSpec

=============================================================================
