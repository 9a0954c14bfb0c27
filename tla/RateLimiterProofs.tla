-------------------------- MODULE RateLimiterProofs --------------------------
(***************************************************************************)
(* The limiter keeps its promise for every policy, every number of users   *)
(* and threads, and every wait for the lock shorter than the window.       *)
(***************************************************************************)
EXTENDS RateLimiter, TLAPS

Bucket == [count : 1 .. MaxRequests, left : - MaxDelay .. Window]

Request == [key : Keys, age : 0 .. MaxDelay]

Places == 1 .. 2 * MaxRequests

LimiterTypeOK ==
    /\ buckets \in [Keys -> Bucket \cup {None}]
    /\ waiting \in [Threads -> Request \cup {None}]
    /\ recent \in [Keys -> [Places -> 0 .. Span]]

NewestFirst(ages) == \A m, n \in Places : m <= n => ages[m] <= ages[n]

Counted(bucket) == IF bucket = None THEN 0 ELSE bucket.count

(* Of the admissions a bucket has not counted, at most as many as one      *)
(* bucket admits are within the span ...                                   *)
OneBucketBefore(bucket, ages) ==
    \A n \in Places : n > Counted(bucket) + MaxRequests => ages[n] = Span

(* ... and none is younger than the bucket, whose age is at least the      *)
(* window less the wait of its first request less what the bucket lasts.   *)
OlderThanBucket(bucket, ages) ==
    bucket # None =>
        \A n \in Places : n > bucket.count => ages[n] = Span \/ ages[n] >= Span - bucket.left

KeyInv(bucket, ages) ==
    /\ NewestFirst(ages)
    /\ OneBucketBefore(bucket, ages)
    /\ OlderThanBucket(bucket, ages)

LimiterInv == LimiterTypeOK /\ \A k \in Keys : KeyInv(buckets[k], recent[k])

-----------------------------------------------------------------------------
(* Lemmas on one bucket and the admissions of its key. *)

LEMMA Constants ==
    /\ MaxRequests \in Nat \ {0} /\ Window \in Nat \ {0}
    /\ MaxDelay \in Nat /\ MaxDelay < Window
    /\ Span \in Nat \ {0} /\ Span = Window - MaxDelay
    /\ 1 \in Places /\ 2 * MaxRequests \in Places
BY PolicyAssumption DEF Span, Places

(* Buckets and requests are records, and None is not one.                  *)
LEMMA Shapes == None \notin Bucket /\ None \notin Request
BY NoneAssumption, Constants DEF Bucket, Request

(* A bucket that has ended for some thread is as old as the span: what is  *)
(* left within the span are its own admissions, and they fit one bucket.   *)
LEMMA EndedBucket ==
    ASSUME NEW bucket \in Bucket, NEW ages \in [Places -> 0 .. Span],
           KeyInv(bucket, ages), bucket.left <= 0
    PROVE  KeyInv(None, ages)
<1>1. \A n \in Places : n > MaxRequests => ages[n] = Span
  <2> TAKE n \in Places
  <2> HAVE n > MaxRequests
  <2>1. bucket # None /\ bucket.count \in 1 .. MaxRequests /\ bucket.left \in Int
    BY Constants, Shapes DEF Bucket
  <2>2. n > bucket.count
    BY <2>1, Constants DEF Places
  <2>3. ages[n] = Span \/ ages[n] >= Span - bucket.left
    BY <2>1, <2>2 DEF KeyInv, OlderThanBucket
  <2>4. ages[n] \in 0 .. Span
    OBVIOUS
  <2>5. QED
    BY <2>1, <2>3, <2>4, Constants
<1>2. QED
  BY <1>1, Constants DEF KeyInv, OneBucketBefore, OlderThanBucket, Counted

Shifted(ages) == [n \in Places |-> IF n = 1 THEN 0 ELSE ages[n - 1]]

(* A request admitted without a bucket starts one.                         *)
LEMMA FirstAdmission ==
    ASSUME NEW bucket \in Bucket, NEW ages \in [Places -> 0 .. Span],
           KeyInv(None, ages), bucket.count = 1, bucket.left >= Span
    PROVE  /\ ages[2 * MaxRequests] = Span
           /\ Shifted(ages) \in [Places -> 0 .. Span]
           /\ KeyInv(bucket, Shifted(ages))
<1>1. \A n \in Places : n > MaxRequests => ages[n] = Span
  BY Constants DEF KeyInv, OneBucketBefore, Counted, Places
<1>2. \A n \in Places : n # 1 => n - 1 \in Places
  BY Constants DEF Places
<1>3. Shifted(ages) \in [Places -> 0 .. Span]
  BY <1>2, Constants DEF Shifted
<1>4. NewestFirst(Shifted(ages))
  BY <1>2, <1>3, Constants DEF KeyInv, NewestFirst, Shifted, Places
<1>5. OneBucketBefore(bucket, Shifted(ages))
  BY <1>1, <1>2, Constants, Shapes DEF OneBucketBefore, Counted, Shifted, Bucket, Places
<1>6. OlderThanBucket(bucket, Shifted(ages))
  BY <1>3, Constants DEF OlderThanBucket, Bucket
<1>7. QED
  BY <1>1, <1>3, <1>4, <1>5, <1>6, Constants DEF KeyInv

(* A request admitted by a bucket that is not full is counted in it.       *)
LEMMA NextAdmission ==
    ASSUME NEW bucket \in Bucket, NEW ages \in [Places -> 0 .. Span],
           KeyInv(bucket, ages), bucket.count < MaxRequests
    PROVE  LET counted == [bucket EXCEPT !.count = @ + 1]
           IN  /\ ages[2 * MaxRequests] = Span
               /\ counted \in Bucket
               /\ Shifted(ages) \in [Places -> 0 .. Span]
               /\ KeyInv(counted, Shifted(ages))
<1> DEFINE counted == [bucket EXCEPT !.count = @ + 1]
<1>1. \A n \in Places : n > bucket.count + MaxRequests => ages[n] = Span
  BY Shapes DEF KeyInv, OneBucketBefore, Counted
<1>2. \A n \in Places : n # 1 => n - 1 \in Places
  BY Constants DEF Places
<1>3. Shifted(ages) \in [Places -> 0 .. Span]
  BY <1>2, Constants DEF Shifted
<1>4. counted \in Bucket /\ counted.count = bucket.count + 1 /\ counted.left = bucket.left
  BY Constants DEF Bucket
<1>5. NewestFirst(Shifted(ages))
  BY <1>2, <1>3, Constants DEF KeyInv, NewestFirst, Shifted, Places
<1>6. OneBucketBefore(counted, Shifted(ages))
  <2> SUFFICES ASSUME NEW n \in Places, n > bucket.count + 1 + MaxRequests
               PROVE  Shifted(ages)[n] = Span
    BY <1>4, Shapes DEF OneBucketBefore, Counted
  <2>1. n # 1 /\ n - 1 > bucket.count + MaxRequests
    BY Constants DEF Bucket, Places
  <2>2. QED
    BY <1>1, <1>2, <2>1 DEF Shifted
<1>7. OlderThanBucket(counted, Shifted(ages))
  <2> SUFFICES ASSUME NEW n \in Places, n > bucket.count + 1
               PROVE  Shifted(ages)[n] = Span \/ Shifted(ages)[n] >= Span - bucket.left
    BY <1>4 DEF OlderThanBucket
  <2>1. n # 1 /\ n - 1 > bucket.count
    BY Constants DEF Bucket, Places
  <2>2. QED
    BY <1>2, <2>1, Shapes DEF Shifted, KeyInv, OlderThanBucket
<1>8. ages[2 * MaxRequests] = Span
  BY <1>1, Constants DEF Bucket
<1>9. QED
  BY <1>3, <1>4, <1>5, <1>6, <1>7, <1>8 DEF KeyInv

Later(age) == IF age < Span THEN age + 1 ELSE Span

(* Time makes the bucket and the admissions older alike; a bucket is no    *)
(* longer told apart once it is older than the oldest reading.             *)
LEMMA AgedKey ==
    ASSUME NEW bucket \in Bucket \cup {None}, NEW ages \in [Places -> 0 .. Span],
           KeyInv(bucket, ages)
    PROVE  LET later == [n \in Places |-> Later(ages[n])]
           IN  /\ Aged(bucket) \in Bucket \cup {None}
               /\ later \in [Places -> 0 .. Span]
               /\ KeyInv(Aged(bucket), later)
<1> DEFINE later == [n \in Places |-> Later(ages[n])]
<1>1. \A n \in Places : later[n] \in 0 .. Span /\ later[n] = Later(ages[n])
  BY Constants DEF Later
<1>2. later \in [Places -> 0 .. Span]
  BY <1>1
<1>3. NewestFirst(later)
  BY <1>1, Constants DEF KeyInv, NewestFirst, Later
<1>4. CASE bucket = None
  <2>1. OneBucketBefore(None, later)
    BY <1>1, <1>4, Constants DEF KeyInv, OneBucketBefore, Later
  <2>2. QED
    BY <1>2, <1>3, <1>4, <2>1 DEF Aged, KeyInv, OlderThanBucket
<1>5. CASE bucket \in Bucket
  <2>1. /\ Aged(bucket) \in Bucket /\ Aged(bucket).count = bucket.count
        /\ Aged(bucket).left = IF bucket.left > - MaxDelay THEN bucket.left - 1 ELSE bucket.left
    BY <1>5, Constants, Shapes DEF Aged, Bucket
  <2>2. bucket # None /\ Aged(bucket) # None
    BY <1>5, <2>1, Shapes
  <2>3. OneBucketBefore(Aged(bucket), later)
    BY <1>1, <2>1, <2>2, Constants DEF KeyInv, OneBucketBefore, Counted, Later
  <2>4. OlderThanBucket(Aged(bucket), later)
    <3> SUFFICES ASSUME NEW n \in Places, n > bucket.count
                 PROVE  later[n] = Span \/ later[n] >= Span - Aged(bucket).left
      BY <2>1 DEF OlderThanBucket
    <3>1. ages[n] = Span \/ ages[n] >= Span - bucket.left
      BY <2>2 DEF KeyInv, OlderThanBucket
    <3>2. bucket.left \in - MaxDelay .. Window /\ ages[n] \in 0 .. Span
      BY <1>5 DEF Bucket
    <3>3. QED
      BY <1>1, <2>1, <3>1, <3>2, Constants DEF Later
  <2>5. QED
    BY <1>2, <1>3, <2>1, <2>3, <2>4 DEF KeyInv
<1>6. QED
  BY <1>4, <1>5

-----------------------------------------------------------------------------
(* The steps of the limiter. *)

LEMMA InitLimiterInv == LimiterInit => LimiterInv
<1> SUFFICES ASSUME LimiterInit
             PROVE  LimiterInv
  OBVIOUS
<1>1. recent = [k \in Keys |-> [n \in Places |-> Span]]
  BY DEF LimiterInit, Promise!NothingRecent, Promise!Places, Places
<1>2. LimiterTypeOK
  BY <1>1, Constants DEF LimiterInit, LimiterTypeOK
<1>3. ASSUME NEW k \in Keys
      PROVE  KeyInv(buckets[k], recent[k])
  BY <1>1, Constants
     DEF LimiterInit, KeyInv, NewestFirst, OneBucketBefore, OlderThanBucket
<1>4. QED
  BY <1>2, <1>3 DEF LimiterInv

(* Dropping the buckets that have ended leaves every key as it must be:    *)
(* what a thread drops has ended, however old its reading is.              *)
LEMMA UnexpiredShape ==
    ASSUME LimiterInv, NEW p \in Threads, waiting[p] # None, NEW k \in Keys
    PROVE  /\ Unexpired(p) \in [Keys -> Bucket \cup {None}]
           /\ KeyInv(Unexpired(p)[k], recent[k])
<1>1. waiting[p] \in Request /\ waiting[p].age \in 0 .. MaxDelay
  BY DEF LimiterInv, LimiterTypeOK, Request
<1>2. Unexpired(p) \in [Keys -> Bucket \cup {None}]
  BY DEF LimiterInv, LimiterTypeOK, Unexpired
<1>3. buckets[k] \in Bucket \cup {None} /\ recent[k] \in [Places -> 0 .. Span]
  BY DEF LimiterInv, LimiterTypeOK
<1>4. KeyInv(buckets[k], recent[k])
  BY DEF LimiterInv
<1>5. CASE buckets[k] # None /\ buckets[k].left <= - waiting[p].age
  <2>1. Unexpired(p)[k] = None
    BY <1>5 DEF Unexpired
  <2>2. buckets[k] \in Bucket /\ buckets[k].left \in Int
    BY <1>3, <1>5, Constants DEF Bucket
  <2>3. buckets[k].left <= 0
    BY <1>1, <1>5, <2>2, Constants
  <2>4. QED
    BY <1>2, <1>3, <1>4, <2>1, <2>2, <2>3, EndedBucket
<1>6. CASE ~(buckets[k] # None /\ buckets[k].left <= - waiting[p].age)
  <2>1. Unexpired(p)[k] = buckets[k]
    BY <1>6 DEF Unexpired
  <2>2. QED
    BY <1>2, <1>4, <2>1
<1>7. QED
  BY <1>5, <1>6

(* An admission keeps the invariant, and the promise allows it.            *)
LEMMA AdmitKeepsInv ==
    ASSUME LimiterInv, NEW p \in Threads, AdmitRequest(p)
    PROVE  LimiterInv' /\ \E k \in Keys : Promise!Admit(k)
<1> DEFINE k == waiting[p].key
           bucket == Unexpired(p)[k]
           new == IF bucket = None THEN NewBucket(p) ELSE [bucket EXCEPT !.count = @ + 1]
<1>1. /\ waiting[p] # None
      /\ bucket # None => bucket.count < MaxRequests
      /\ buckets' = [Unexpired(p) EXCEPT ![k] = new]
      /\ recent' = Promise!WithAdmission(k)
      /\ waiting' = [waiting EXCEPT ![p] = None]
  BY DEF AdmitRequest
<1>2. waiting[p] \in Request /\ k \in Keys /\ waiting[p].age \in 0 .. MaxDelay
  BY <1>1 DEF LimiterInv, LimiterTypeOK, Request
<1>3. \A c \in Keys : /\ Unexpired(p) \in [Keys -> Bucket \cup {None}]
                      /\ KeyInv(Unexpired(p)[c], recent[c])
  BY <1>1, UnexpiredShape
<1>4. recent \in [Keys -> [Places -> 0 .. Span]]
  BY DEF LimiterInv, LimiterTypeOK
<1>5. /\ recent[k][2 * MaxRequests] = Span
      /\ new \in Bucket
      /\ Shifted(recent[k]) \in [Places -> 0 .. Span]
      /\ KeyInv(new, Shifted(recent[k]))
  <2>1. CASE bucket = None
    <3>1. NewBucket(p) \in Bucket
      BY <1>2, Constants DEF NewBucket, Bucket
    <3>2. NewBucket(p).count = 1 /\ NewBucket(p).left >= Span
      BY <1>2, Constants DEF NewBucket
    <3>3. QED
      BY <1>2, <1>3, <1>4, <2>1, <3>1, <3>2, FirstAdmission
  <2>2. CASE bucket # None
    <3>1. bucket \in Bucket /\ bucket.count < MaxRequests
      BY <1>1, <1>2, <1>3, <2>2
    <3>2. QED
      BY <1>2, <1>3, <1>4, <2>2, <3>1, NextAdmission
  <2>3. QED
    BY <2>1, <2>2
<1>6. recent' = [recent EXCEPT ![k] = Shifted(recent[k])]
  BY <1>1 DEF Promise!WithAdmission, Promise!Places, Places, Shifted
<1>7. LimiterTypeOK'
  <2>1. buckets' \in [Keys -> Bucket \cup {None}]
    BY <1>1, <1>2, <1>3, <1>5
  <2>2. recent' \in [Keys -> [Places -> 0 .. Span]]
    BY <1>4, <1>5, <1>6
  <2>3. waiting' \in [Threads -> Request \cup {None}]
    BY <1>1 DEF LimiterInv, LimiterTypeOK
  <2>4. QED
    BY <2>1, <2>2, <2>3 DEF LimiterTypeOK, Span
<1>8. ASSUME NEW c \in Keys
      PROVE  KeyInv(buckets'[c], recent'[c])
  <2>1. CASE c = k
    BY <1>1, <1>2, <1>3, <1>4, <1>5, <1>6, <2>1
  <2>2. CASE c # k
    BY <1>1, <1>3, <1>4, <1>6, <2>2
  <2>3. QED
    BY <2>1, <2>2
<1>9. Promise!Admit(k)
  BY <1>1, <1>5 DEF Promise!Admit
<1>10. LimiterInv'
  BY <1>7, <1>8 DEF LimiterInv, KeyInv, NewestFirst, OneBucketBefore, OlderThanBucket, Span
<1>11. QED
  BY <1>2, <1>9, <1>10

\* A refusal changes no admitted request.
LEMMA RefuseKeepsInv ==
    ASSUME LimiterInv, NEW p \in Threads, RefuseRequest(p)
    PROVE  LimiterInv' /\ UNCHANGED recent
<1>1. /\ waiting[p] # None
      /\ buckets' = Unexpired(p)
      /\ waiting' = [waiting EXCEPT ![p] = None]
      /\ recent' = recent
  BY DEF RefuseRequest, AfterRefusal
<1>2. \A k \in Keys : /\ Unexpired(p) \in [Keys -> Bucket \cup {None}]
                      /\ KeyInv(Unexpired(p)[k], recent[k])
  BY <1>1, UnexpiredShape
<1>3. buckets' \in [Keys -> Bucket \cup {None}]
  <2>1. Unexpired(p) \in [Keys -> Bucket \cup {None}]
    BY DEF LimiterInv, LimiterTypeOK, Unexpired
  <2>2. QED
    BY <1>1, <2>1
<1>4. LimiterTypeOK'
  BY <1>1, <1>3 DEF LimiterInv, LimiterTypeOK, Span
<1>5. QED
  BY <1>1, <1>2, <1>4 DEF LimiterInv

\* Time passes in the limiter and in its promise alike.
LEMMA TickKeepsInv ==
    ASSUME LimiterInv, Tick
    PROVE  LimiterInv' /\ Promise!Pass
<1>1. recent' = [k \in Keys |-> [n \in Places |-> Later(recent[k][n])]]
  BY DEF Tick, Promise!Pass, Promise!Places, Promise!Older, Places, Later
<1>2. \A k \in Keys : /\ buckets'[k] = Aged(buckets[k])
                      /\ recent'[k] = [n \in Places |-> Later(recent[k][n])]
  BY <1>1 DEF Tick
<1>3. ASSUME NEW k \in Keys
      PROVE  /\ buckets'[k] \in Bucket \cup {None}
             /\ recent'[k] \in [Places -> 0 .. Span]
             /\ KeyInv(buckets'[k], recent'[k])
  <2> DEFINE later == [n \in Places |-> Later(recent[k][n])]
  <2>1. /\ buckets[k] \in Bucket \cup {None}
        /\ recent[k] \in [Places -> 0 .. Span]
        /\ KeyInv(buckets[k], recent[k])
    BY DEF LimiterInv, LimiterTypeOK
  <2>2. /\ Aged(buckets[k]) \in Bucket \cup {None}
        /\ later \in [Places -> 0 .. Span]
        /\ KeyInv(Aged(buckets[k]), later)
    BY <2>1, AgedKey, Zenon
  <2>3. buckets'[k] = Aged(buckets[k]) /\ recent'[k] = later
    BY <1>2
  <2>4. QED
    BY <2>2, <2>3
<1>4. waiting' \in [Threads -> Request \cup {None}]
  <2> SUFFICES ASSUME NEW p \in Threads
               PROVE  waiting'[p] \in Request \cup {None}
    BY DEF Tick
  <2>1. CASE waiting[p] = None
    BY <2>1 DEF Tick
  <2>2. CASE waiting[p] # None
    <3>1. waiting[p] \in Request /\ waiting[p].age < MaxDelay
      BY <2>2 DEF Tick, LimiterInv, LimiterTypeOK
    <3>2. waiting'[p] = [waiting[p] EXCEPT !.age = @ + 1]
      BY <2>2 DEF Tick
    <3>3. QED
      BY <3>1, <3>2, Constants DEF Request
  <2>3. QED
    BY <2>1, <2>2
<1>5. LimiterTypeOK'
  BY <1>1, <1>3, <1>4 DEF Tick, LimiterTypeOK, Span
<1>6. QED
  BY <1>3, <1>5 DEF LimiterInv, Tick

(* Every step of the limiter is a step of the promise, or none of it.      *)
LEMMA StepKeepsPromise ==
    ASSUME LimiterInv, [LimiterNext]_limiterVars
    PROVE  LimiterInv' /\ [Promise!Next]_recent
<1>1. CASE Tick
  BY <1>1, TickKeepsInv DEF Promise!Next
<1>2. CASE Restart
  <2>1. recent' = [k \in Keys |-> [n \in Places |-> Span]]
    BY <1>2 DEF Restart, Promise!Forget, Promise!NothingRecent, Promise!Places, Places
  <2>2. LimiterTypeOK'
    BY <1>2, <2>1, Constants DEF Restart, LimiterTypeOK, Span
  <2>3. \A k \in Keys : KeyInv(buckets'[k], recent'[k])
    BY <1>2, <2>1, Constants
       DEF Restart, KeyInv, NewestFirst, OneBucketBefore, OlderThanBucket
  <2>4. QED
    BY <1>2, <2>2, <2>3 DEF LimiterInv, Restart, Promise!Next
<1>3. ASSUME NEW p \in Threads, Ask(p)
      PROVE  LimiterInv' /\ UNCHANGED recent
  <2>1. PICK k \in Keys : waiting' = [waiting EXCEPT ![p] = [key |-> k, age |-> 0]]
    BY <1>3 DEF Ask
  <2>2. [key |-> k, age |-> 0] \in Request
    BY Constants DEF Request
  <2>3. LimiterTypeOK'
    BY <1>3, <2>1, <2>2 DEF Ask, LimiterInv, LimiterTypeOK, Span
  <2>4. QED
    BY <1>3, <2>3 DEF Ask, LimiterInv
<1>4. ASSUME NEW p \in Threads, AdmitRequest(p)
      PROVE  LimiterInv' /\ Promise!Next
  BY <1>4, AdmitKeepsInv DEF Promise!Next
<1>5. ASSUME NEW p \in Threads, RefuseRequest(p)
      PROVE  LimiterInv' /\ UNCHANGED recent
  BY <1>5, RefuseKeepsInv
<1>6. CASE UNCHANGED limiterVars
  BY <1>6 DEF limiterVars, LimiterInv, LimiterTypeOK, Span
<1>7. QED
  BY <1>1, <1>2, <1>3, <1>4, <1>5, <1>6 DEF LimiterNext, Check

(* The bucket of a key and the admissions it answers for stay in step, at  *)
(* every moment and for every wait for the lock: what KeepsPromise rests   *)
(* on (InMemoryRateLimiter.check).                                         *)
THEOREM LimiterInvariant == LimiterSpec => []LimiterInv
<1>1. LimiterInv /\ [LimiterNext]_limiterVars => LimiterInv'
  BY StepKeepsPromise
<1>2. QED
  BY <1>1, InitLimiterInv, PTL DEF LimiterSpec

(* The fixed windows of the limiter, read with clocks that waited for the  *)
(* lock, admit no more than two buckets' requests in any span of a window  *)
(* less the longest wait: the limiter implements Throttle                  *)
(* (InMemoryRateLimiter.check, _remove_expired_buckets).                   *)
THEOREM LimiterKeepsPromise == LimiterSpec => KeepsPromise
<1>1. LimiterInit => Promise!Init
  BY DEF LimiterInit, Promise!Init
<1>2. LimiterInv /\ [LimiterNext]_limiterVars => [Promise!Next]_recent
  BY StepKeepsPromise
<1>3. QED
  BY <1>1, <1>2, LimiterInvariant, PTL DEF LimiterSpec, KeepsPromise, Promise!Spec

=============================================================================
