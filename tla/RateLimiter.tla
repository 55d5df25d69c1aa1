---------------------------- MODULE RateLimiter ----------------------------
(***************************************************************************)
(* The request limiter of the Upstox client (data/upstox/ratelimit.py):    *)
(* several limits at once, each on the requests of a sliding window, asked *)
(* by any number of coroutines.  From reading the clock to appending the   *)
(* hit nothing is awaited, so one turn of the loop is one step.            *)
(*                                                                         *)
(* Time is counted in readings of the monotonic clock, and no two of them  *)
(* are equal: a hit is its time, and the deque a set.                      *)
(***************************************************************************)
EXTENDS Integers, FiniteSets, FiniteSetsExt

CONSTANTS
  Callers,            \* coroutines
  Windows,            \* _WINDOWS: pairs of a length and a limit
  MaxReadings         \* bound: the clock

ASSUME WindowsAssumption ==
  /\ Windows # {} /\ IsFiniteSet(Windows)
  /\ \A w \in Windows : w[1] \in Nat \ {0} /\ w[2] \in Nat \ {0}
  /\ MaxReadings \in Nat

VARIABLES
  reading,            \* the next reading of the clock
  hits,               \* the deque
  asleep,             \* each coroutine: when its sleep is over
  admitted            \* every request ever let through, for the property

limiter_vars == <<reading, hits, asleep, admitted>>

LimiterInit ==
  /\ reading = 0 /\ hits = {} /\ asleep = [c \in Callers |-> 0] /\ admitted = {}

InWindow(w, now, kept) == {t \in kept : now - t <= w[1]}

(* Hits older than the longest window are dropped; by a faulty variant     *)
(* those older than the shortest.                                          *)
ForgetEarly(now) == {t \in hits : \A w \in Windows : now - t <= w[1]}

Remembered(now)  == {t \in hits : \E w \in Windows : now - t <= w[1]}

(* Until the oldest hit of a window that is full has left it, for every    *)
(* window.                                                                 *)
WaitFor(w, now, kept) ==
  IF Cardinality(InWindow(w, now, kept)) >= w[2]
  THEN w[1] - (now - Min(InWindow(w, now, kept))) ELSE 0

Wait(now, kept) == Max({WaitFor(w, now, kept) : w \in Windows})

(* One turn of acquire: the first, or the one after a sleep.               *)
Acquire(c) ==
  LET kept == Remembered(reading)
      wait == Wait(reading, kept)
  IN  /\ reading < MaxReadings /\ asleep[c] <= reading
      /\ reading' = reading + 1
      /\ IF wait <= 0
         THEN /\ hits' = kept \cup {reading} /\ admitted' = admitted \cup {reading}
              /\ UNCHANGED asleep
         ELSE /\ asleep' = [asleep EXCEPT ![c] = reading + wait]
              /\ hits' = kept /\ UNCHANGED admitted

TimeGoesOn ==
  /\ reading < MaxReadings /\ reading' = reading + 1
  /\ UNCHANGED <<hits, asleep, admitted>>

LimiterNext == TimeGoesOn \/ \E c \in Callers : Acquire(c)

LimiterSpec == LimiterInit /\ [][LimiterNext]_limiter_vars

-----------------------------------------------------------------------------
(* However the coroutines interleave, sleep and are late to wake, no       *)
(* window holds more requests than its limit, wherever it begins.  Of a    *)
(* window one end counts: a hit exactly one window old lets another in.    *)
WindowsKept ==
  \A w \in Windows : \A end \in 0..MaxReadings :
    Cardinality({t \in admitted : end - w[1] < t /\ t <= end}) <= w[2]
=============================================================================
