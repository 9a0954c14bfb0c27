------------------------------ MODULE RateLimiter ------------------------------
(***************************************************************************)
(* The limiter of expensive requests (rate_limit.py): a bucket per policy  *)
(* and user counts the requests of a fixed window and is dropped once the  *)
(* window has ended.  A thread reads the clock before it waits for the     *)
(* lock, so the time it applies may be older than the one another thread   *)
(* has applied before it.                                                  *)
(*                                                                         *)
(* All times are relative to now: a bucket knows how long it still lasts,  *)
(* a waiting thread how old its reading is.  Time is then unbounded.       *)
(***************************************************************************)
EXTENDS Integers

CONSTANTS
    None,           \* no bucket, no request
    Keys,           \* the pairs of a policy and a user
    Threads,        \* the threads that handle requests
    MaxRequests,    \* requests a bucket admits
    Window,         \* how long a bucket lasts
    MaxDelay        \* how long a thread waits for the lock at most

ASSUME PolicyAssumption ==
    /\ MaxRequests \in Nat \ {0}
    /\ Window \in Nat \ {0}
    /\ MaxDelay \in 0 .. Window - 1

ASSUME NoneAssumption ==
    None \notin [count : Nat, left : Int] /\ None \notin [key : Keys, age : Nat]

VARIABLES
    buckets,    \* the bucket of each key
    waiting,    \* the request each thread checks, with the age of its reading
    recent      \* ages of the last admissions: what the limiter promises about

limiterVars == <<buckets, waiting, recent>>

Span == Window - MaxDelay

Promise == INSTANCE Throttle WITH Bound <- 2 * MaxRequests

LimiterInit ==
    /\ buckets = [k \in Keys |-> None]
    /\ waiting = [p \in Threads |-> None]
    /\ recent = Promise!NothingRecent

(* A request reads the clock.                                              *)
Ask(p) ==
    /\ waiting[p] = None
    /\ \E k \in Keys : waiting' = [waiting EXCEPT ![p] = [key |-> k, age |-> 0]]
    /\ UNCHANGED <<buckets, recent>>

(* The buckets that have not ended at the time the thread has read.        *)
Unexpired(p) ==
    [k \in Keys |->
        IF buckets[k] # None /\ buckets[k].left <= - waiting[p].age
          THEN None ELSE buckets[k]]

(* The first request is not counted, used by a mutant.                     *)
UncountedBucket(p) == [count |-> 0, left |-> Window - waiting[p].age]

NewBucket(p) == [count |-> 1, left |-> Window - waiting[p].age]

(* A refusal starts the window again, used by a mutant.                    *)
RefusalsExtend(p) ==
    [Unexpired(p) EXCEPT ![waiting[p].key] = [@ EXCEPT !.left = Window]]

AfterRefusal(p) == Unexpired(p)

IsFull(bucket) == bucket # None /\ bucket.count >= MaxRequests

AdmitRequest(p) ==
    /\ waiting[p] # None
    /\ LET k == waiting[p].key
           bucket == Unexpired(p)[k]
       IN  /\ bucket # None => bucket.count < MaxRequests
           /\ buckets' = [Unexpired(p) EXCEPT ![k] =
                IF bucket = None THEN NewBucket(p) ELSE [bucket EXCEPT !.count = @ + 1]]
           /\ recent' = Promise!WithAdmission(k)
    /\ waiting' = [waiting EXCEPT ![p] = None]

RefuseRequest(p) ==
    /\ waiting[p] # None
    /\ IsFull(Unexpired(p)[waiting[p].key])
    /\ buckets' = AfterRefusal(p)
    /\ waiting' = [waiting EXCEPT ![p] = None]
    /\ UNCHANGED recent

Check(p) == AdmitRequest(p) \/ RefuseRequest(p)

(* One unit of time.  How long ago a bucket ended is not told apart beyond *)
(* the age of the oldest reading.                                          *)
Aged(bucket) ==
    IF bucket # None /\ bucket.left > - MaxDelay
      THEN [bucket EXCEPT !.left = @ - 1] ELSE bucket

Tick ==
    /\ \A p \in Threads : waiting[p] # None => waiting[p].age < MaxDelay
    /\ buckets' = [k \in Keys |-> Aged(buckets[k])]
    /\ waiting' = [p \in Threads |->
                      IF waiting[p] = None THEN None ELSE [waiting[p] EXCEPT !.age = @ + 1]]
    /\ Promise!Pass

(* The process restarts; the buckets are in its memory only.               *)
Restart ==
    /\ buckets' = [k \in Keys |-> None]
    /\ waiting' = [p \in Threads |-> None]
    /\ Promise!Forget

LimiterNext ==
    Tick \/ Restart \/ \E p \in Threads : Ask(p) \/ Check(p)

(* Time passes and a thread that waits for the lock gets it.               *)
LimiterFairness == WF_limiterVars(Tick) /\ \A p \in Threads : WF_limiterVars(Check(p))

LimiterSpec == LimiterInit /\ [][LimiterNext]_limiterVars /\ LimiterFairness

-----------------------------------------------------------------------------
(* Properties. *)

(* The limiter keeps what a limit promises, for twice the requests of the  *)
(* policy and a span shorter than the window by the wait for the lock: a   *)
(* fixed window admits a full bucket at its end and another one at the     *)
(* start of the next, and a late reading ends a window early               *)
(* (InMemoryRateLimiter.check).                                            *)
KeepsPromise == Promise!Spec

(* A user who keeps asking keeps being let in: refusals never prolong the  *)
(* window they are refused in, and no bucket stays for good.               *)
Asked(k) == \E p \in Threads : waiting[p] # None /\ waiting[p].key = k /\ Check(p)

LetIn(k) == recent'[k] # recent[k] /\ recent'[k][1] = 0

AskingGetsIn ==
    \A k \in Keys :
        []<><<Asked(k)>>_limiterVars => []<><<LetIn(k)>>_limiterVars
=============================================================================
