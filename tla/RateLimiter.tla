---------------------------- MODULE RateLimiter ----------------------------
(***************************************************************************)
(* security/ratelimit.py: one SlidingWindowLimiter for every category of   *)
(* calls.  A bucket holds the times of the calls it has accepted, oldest   *)
(* first.  acquire and prune await nothing but a lock that is never held   *)
(* across an await, so each is one step.                                   *)
(*                                                                         *)
(* The code measures time in fractions of a second and tells the caller    *)
(* whole seconds: the clock counts Second parts to the second, and so does *)
(* every duration below.                                                   *)
(***************************************************************************)
EXTENDS Integers, Sequences

CONSTANTS
  Keys,       \* the buckets: a category and a user
  MaxCalls,   \* RateLimit.max_calls of the category of a key
  Window,     \* RateLimit.window_seconds of the category of a key
  PruneAge,   \* the age at which prune drops a bucket
  Second,     \* clock units in a second
  MaxTime,    \* bound on the clock
  MaxAccepts  \* bound on the calls a bucket ever accepts

ASSUME LimiterAssumption ==
  /\ MaxCalls \in [Keys -> Nat \ {0}]
  /\ Window \in [Keys -> Nat \ {0}]
  /\ PruneAge \in Nat /\ \A k \in Keys : Window[k] <= PruneAge
  /\ Second \in Nat \ {0} /\ MaxTime \in Nat /\ MaxAccepts \in Nat

VARIABLES
  hits,      \* _hits: the deque of every bucket, empty where there is none
  clock,     \* time.monotonic()
  accepted,  \* history: the times of all the calls a bucket has accepted
  retryAt    \* history: when the last refusal told the caller to come back,
             \* -1 when a call was accepted since

vars == <<hits, clock, accepted, retryAt>>

TypeOK ==
  /\ hits     \in [Keys -> Seq(Nat)]
  /\ clock    \in Nat
  /\ accepted \in [Keys -> Seq(Nat)]
  /\ retryAt  \in [Keys -> Int]

Init ==
  /\ hits     = [k \in Keys |-> << >>]
  /\ clock    = 0
  /\ accepted = [k \in Keys |-> << >>]
  /\ retryAt  = [k \in Keys |-> -1]

(* Bug: a hit counts only for the seconds that are over. *)
PopsEarly(k, n) ==
  /\ n \in 0..Len(hits[k])
  /\ \A i \in 1..n : hits[k][i] <= clock + 1 - Window[k]
  /\ n < Len(hits[k]) => hits[k][n + 1] > clock + 1 - Window[k]

(* The while loop of acquire pops n hits: all that are as old as the       *)
(* window, up to the first that is not. *)
Pops(k, n) ==
  /\ n \in 0..Len(hits[k])
  /\ \A i \in 1..n : hits[k][i] <= clock - Window[k]
  /\ n < Len(hits[k]) => hits[k][n + 1] > clock - Window[k]

Kept(k, n) == SubSeq(hits[k], n + 1, Len(hits[k]))

Larger(a, b) == IF a > b THEN a ELSE b

(* Bug: the time that was waited instead of the time to wait. *)
RetryAfterWaited(k, oldest) == Larger(1, (clock - oldest) \div Second) * Second

(* RateLimitExceeded rounds the time down, but never to 0 seconds. *)
RetryAfter(k, oldest) ==
  Larger(1, (Window[k] - (clock - oldest)) \div Second) * Second

(* Bug: the cutoff is entered in place of the time of the call. *)
AcceptCutoff(k) ==
  /\ Len(accepted[k]) < MaxAccepts
  /\ hits' = [hits EXCEPT ![k] = Append(@, clock - Window[k])]
  /\ accepted' = [accepted EXCEPT ![k] = Append(@, clock)]
  /\ retryAt' = [retryAt EXCEPT ![k] = -1]
  /\ UNCHANGED clock

Accept(k) ==
  /\ Len(accepted[k]) < MaxAccepts
  /\ \E n \in 0..Len(hits[k]) :
       /\ Pops(k, n)
       /\ Len(Kept(k, n)) < MaxCalls[k]
       /\ hits' = [hits EXCEPT ![k] = Append(Kept(k, n), clock)]
  /\ accepted' = [accepted EXCEPT ![k] = Append(@, clock)]
  /\ retryAt' = [retryAt EXCEPT ![k] = -1]
  /\ UNCHANGED clock

Refuse(k) ==
  /\ \E n \in 0..Len(hits[k]) :
       /\ Pops(k, n)
       /\ Len(Kept(k, n)) >= MaxCalls[k]
       /\ hits' = [hits EXCEPT ![k] = Kept(k, n)]
       /\ retryAt' = [retryAt EXCEPT ![k] = clock + RetryAfter(k, hits[k][n + 1])]
  /\ UNCHANGED <<clock, accepted>>

Acquire(k) == Accept(k) \/ Refuse(k)

(* Bug: the age is measured from the first hit of the bucket. *)
StaleSinceFirst(k) ==
  hits[k] = << >> \/ hits[k][1] < clock - PruneAge

Stale(k) ==
  hits[k] = << >> \/ hits[k][Len(hits[k])] < clock - PruneAge

(* The job of the scheduler; a bucket that is deleted reads as empty. *)
Prune ==
  /\ hits' = [k \in Keys |-> IF Stale(k) THEN << >> ELSE hits[k]]
  /\ UNCHANGED <<clock, accepted, retryAt>>

Tick ==
  /\ clock < MaxTime
  /\ clock' = clock + 1
  /\ UNCHANGED <<hits, accepted, retryAt>>

Next == (\E k \in Keys : Acquire(k)) \/ Prune \/ Tick

Spec == Init /\ [][Next]_vars

-----------------------------------------------------------------------------
(* Properties                                                              *)

(* In no stretch of time shorter than the window does a bucket accept more *)
(* than max_calls calls, however calls, pruning and time interleave: a     *)
(* call and the one max_calls before it are a window apart. *)
WindowRespected ==
  \A k \in Keys : \A i \in 1..(Len(accepted[k]) - MaxCalls[k]) :
    accepted[k][i + MaxCalls[k]] - accepted[k][i] >= Window[k]

(* The times a bucket forgets, in acquire or in prune, can no longer count *)
(* against anybody: what it keeps are the last calls it accepted, and all  *)
(* the earlier ones are out of the window. *)
ForgetsOnlyTheOld ==
  \A k \in Keys :
    LET gone == Len(accepted[k]) - Len(hits[k])
    IN /\ gone >= 0
       /\ \A i \in 1..Len(hits[k]) : hits[k][i] = accepted[k][gone + i]
       /\ \A i \in 1..gone : accepted[k][i] <= clock - Window[k]

(* The number of seconds in the refusal is honest to within the second it  *)
(* was rounded to: who waits that long and one second more finds room,     *)
(* unless other calls were accepted meanwhile. *)
RetryFindsRoom ==
  \A k \in Keys :
    (retryAt[k] >= 0 /\ clock >= retryAt[k] + Second /\ Len(hits[k]) >= MaxCalls[k])
      => hits[k][Len(hits[k]) - MaxCalls[k] + 1] <= clock - Window[k]
=============================================================================
