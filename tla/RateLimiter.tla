---------------------------- MODULE RateLimiter ----------------------------
(***************************************************************************)
(* The sliding window of attempts per address that login, register and the *)
(* code endpoints go through.  The endpoints run in a pool of threads:     *)
(* check reads the clock first and takes the limiter's lock then, so that  *)
(* attempts may come under the lock in another order than they were timed. *)
(***************************************************************************)
EXTENDS Integers, Sequences, FiniteSetsExt

CONSTANTS
  Thread,         \* threads of the pool
  Key,            \* addresses
  Limit,          \* attempts let through ...
  Window,         \* ... in so many seconds
  MaxWindow,      \* _MAX_WINDOW_S: keys idle for so long are swept
  SweepEvery,     \* _SWEEP_EVERY_S
  Skew,           \* seconds that a thread that has read the clock waits for the lock, at most
  MaxClock        \* a bound of the model

ASSUME LimiterAssumption ==
  /\ Limit \in Nat \ {0} /\ Window \in Nat \ {0} /\ Skew \in Nat /\ MaxClock \in Nat
  /\ MaxWindow \in Nat /\ SweepEvery \in Nat /\ Window <= MaxWindow

VARIABLES
  clock,       \* time.time(), from the start of the server
  attempt,     \* thread -> the attempt that it waits for the lock with
  hits,        \* key -> the attempts that are remembered, as they came
  lastSweep,   \* _last_sweep
  passed       \* key -> all attempts let through, as they came: what happened, not what is kept

limiterVars == <<clock, attempt, hits, lastSweep, passed>>

NoAttempt == [key |-> "", at |-> -1]

-----------------------------------------------------------------------------
InWindow(h, t) == h > t - Window

\* The oldest attempts go until one is met that counts.
Recent(dq, t) ==
  LET counts == {i \in 1..Len(dq) : InWindow(dq[i], t)} IN
  IF counts = {} THEN <<>> ELSE SubSeq(dq, Min(counts), Len(dq))

\* _sweep forgets the keys that nothing came from for the longest window.
\* Slip: for as long as there is between two sweeps.
SweptSooner(t) ==
  [k \in Key |-> IF hits[k] = <<>> \/ hits[k][Len(hits[k])] <= t - SweepEvery
                   THEN <<>> ELSE hits[k]]

Swept(t) ==
  [k \in Key |-> IF hits[k] = <<>> \/ hits[k][Len(hits[k])] <= t - MaxWindow
                   THEN <<>> ELSE hits[k]]

SweepDue(t) == t - lastSweep > SweepEvery

RetryAfter(dq, t) ==
  LET wait == dq[1] + Window - t + 1 IN IF wait > 1 THEN wait ELSE 1

LimiterInit ==
  /\ clock = 0
  /\ attempt = [r \in Thread |-> NoAttempt]
  /\ hits = [k \in Key |-> <<>>]
  /\ lastSweep = -SweepEvery - 1
  /\ passed = [k \in Key |-> <<>>]

\* check reads the clock.
Begin(r, k) ==
  /\ attempt[r] = NoAttempt
  /\ attempt' = [attempt EXCEPT ![r] = [key |-> k, at |-> clock]]
  /\ UNCHANGED <<clock, hits, lastSweep, passed>>

\* check under the lock: sweep, forget what is out of the window, then let
\* through or not.  What is refused is not remembered.
Check(r) ==
  LET k    == attempt[r].key
      t    == attempt[r].at
      kept == IF SweepDue(t) THEN Swept(t) ELSE hits
      dq   == Recent(kept[k], t)
      ok   == Len(dq) < Limit
  IN
  /\ attempt[r] # NoAttempt
  /\ attempt' = [attempt EXCEPT ![r] = NoAttempt]
  /\ lastSweep' = IF SweepDue(t) THEN t ELSE lastSweep
  /\ hits' = [kept EXCEPT ![k] = IF ok THEN Append(dq, t) ELSE dq]
  /\ passed' = [passed EXCEPT ![k] = IF ok THEN Append(@, t) ELSE @]
  /\ UNCHANGED clock

ClockTurns ==
  /\ clock < MaxClock /\ clock' = clock + 1
  /\ \A r \in Thread : attempt[r] # NoAttempt => clock' <= attempt[r].at + Skew
  /\ UNCHANGED <<attempt, hits, lastSweep, passed>>

LimiterNext == (\E r \in Thread : Check(r) \/ \E k \in Key : Begin(r, k)) \/ ClockTurns

LimiterSpec == LimiterInit /\ [][LimiterNext]_limiterVars

-----------------------------------------------------------------------------
\* Properties.

\* The process lets no more than Limit attempts of an address through in a
\* row before a window has passed, but for the time that threads wait: who
\* sweeps or forgets by a clock that runs ahead, and who comes after him with
\* one that is behind.  Neither the sweep nor other addresses make check
\* forget an attempt that still counts.
LimitKept ==
  \A k \in Key : \A i, j \in 1..Len(passed[k]) :
    i + Limit <= j => passed[k][j] - passed[k][i] >= Window - 2 * Skew

\* The Retry-After of a refusal is long enough: an address that waits so long
\* and sends nothing else is let through.
RetryEnough ==
  \A k \in Key, t \in 0..clock :
    LET dq == Recent(hits[k], t) IN
    Len(dq) >= Limit => Len(Recent(hits[k], t + RetryAfter(dq, t))) < Limit

\* What the limiter promises of an address (check of api/ratelimit.py).
WindowKept == LimitKept /\ RetryEnough
=============================================================================
