----------------------------- MODULE RateLimiter -----------------------------
(***************************************************************************)
(* The rate limiters of the backend (middleware/auth.go): a bucket for     *)
(* every scope and caller counts the requests of a window.                 *)
(*                                                                         *)
(* A request reads the clock before it takes the lock, so by the time it   *)
(* is counted its reading may be any time ago, and requests may be counted *)
(* in another order than they read the clock in.                           *)
(***************************************************************************)
EXTENDS Naturals

CONSTANTS
    BucketKeys,    \* scope:username, or scope:IP before anyone has signed in
    Limit,         \* requests per window
    Minute,        \* the length of a window
    NoTime

ASSUME LimiterAssumption ==
    /\ Limit \in Nat /\ Minute \in Nat
    /\ NoTime \notin Nat

VARIABLES
    now,
    buckets,    \* what the limiter remembers of each key
    born,       \* when the backend was started
    restarts,   \* history: how often it was started again
    passed      \* history: how many requests of each key were let pass

limiter == <<buckets, born, restarts, passed>>

Bucket == [start : Nat \cup {NoTime}, count : Nat]

NoBucket == [start |-> NoTime, count |-> 0]

LimiterTypeOK ==
    /\ now \in Nat
    /\ buckets \in [BucketKeys -> Bucket]
    /\ born \in 0..now
    /\ restarts \in Nat
    /\ passed \in [BucketKeys -> Nat]

LimiterInit ==
    /\ now = 0
    /\ buckets = [key \in BucketKeys |-> NoBucket]
    /\ born = 0 /\ restarts = 0
    /\ passed = [key \in BucketKeys |-> 0]

\* Fault: a reading from before the window opens a new one.
CurrentUnordered(key, at) ==
    IF buckets[key].start = NoTime \/ at < buckets[key].start \/ at >= buckets[key].start + Minute
    THEN [start |-> at, count |-> 0]
    ELSE buckets[key]

\* The bucket a request that read the clock at a time is counted in.
Current(key, at) ==
    IF buckets[key].start = NoTime \/ at >= buckets[key].start + Minute
    THEN [start |-> at, count |-> 0]
    ELSE buckets[key]

Exceeded(key, at) == Current(key, at).count >= Limit

\* Refused requests are counted too.
Count(key, at) ==
    /\ buckets' = [buckets EXCEPT ![key] =
         [Current(key, at) EXCEPT !.count = Current(key, at).count + 1]]
    /\ passed' = [passed EXCEPT ![key] = passed[key] + (IF Exceeded(key, at) THEN 0 ELSE 1)]
    /\ UNCHANGED <<born, restarts>>

\* The backend is started again: the buckets were in memory.
Forget ==
    /\ buckets' = [key \in BucketKeys |-> NoBucket]
    /\ born' = now /\ restarts' = restarts + 1
    /\ UNCHANGED passed

LimiterNext ==
    \/ \E key \in BucketKeys, at \in born..now : Count(key, at) /\ UNCHANGED now
    \/ Forget /\ UNCHANGED now
    \/ now' = now + 1 /\ UNCHANGED limiter

limiterVars == <<now, limiter>>

LimiterSpec == LimiterInit /\ [][LimiterNext]_limiterVars

\* In the long run no more than the limit pass in a minute, in whatever order the
\* requests are counted: a window is never shorter than a minute, and its count is
\* never reset before.  (Around the end of a window twice the limit may pass, and
\* a start of the backend opens a new window.)
PassesBounded ==
    \A key \in BucketKeys : passed[key] * Minute <= Limit * (now + (restarts + 1) * Minute)

=============================================================================
