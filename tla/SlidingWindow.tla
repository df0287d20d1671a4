---------------------------- MODULE SlidingWindow ----------------------------
(***************************************************************************)
(* What the rate limiter promises (backend/app/services/rate_limit.py:     *)
(* "429s once `max_attempts` requests land from the same client IP within  *)
(* `window_seconds` for this bucket"), without saying how it remembers:    *)
(* the whole history of admitted requests of every key is kept, and a      *)
(* request is refused exactly when `MaxAttempts` of them are still within  *)
(* the window.  RateLimit is shown to implement this module.               *)
(***************************************************************************)
EXTENDS Integers, Sequences

CONSTANTS
  Keys,          \* "<bucket>:<client ip>" strings
  MaxAttempts,   \* max_attempts
  Window         \* window_seconds

VARIABLES
  now,           \* the wall clock, time.time()
  admitted,      \* per key, the times of all requests let through
  verdict        \* what the last request of each key was told

slidingVars == <<now, admitted, verdict>>

\* The MaxAttempts-th most recent admission is still within the window.
Exhausted(k, t) ==
  /\ Len(admitted[k]) >= MaxAttempts
  /\ admitted[k][Len(admitted[k]) - MaxAttempts + 1] >= t - Window

AbstractInit ==
  /\ now \in Nat
  /\ admitted = [k \in Keys |-> << >>]
  /\ verdict = [k \in Keys |-> "none"]

AbstractTick ==
  /\ now' \in {t \in Nat : t > now}
  /\ UNCHANGED <<admitted, verdict>>

AbstractAdmit(k) ==
  /\ ~Exhausted(k, now)
  /\ admitted' = [admitted EXCEPT ![k] = Append(@, now)]
  /\ verdict' = [verdict EXCEPT ![k] = "ok"]
  /\ UNCHANGED now

AbstractRefuse(k) ==
  /\ Exhausted(k, now)
  /\ verdict' = [verdict EXCEPT ![k] = "429"]
  /\ UNCHANGED <<now, admitted>>

AbstractNext == AbstractTick \/ \E k \in Keys : AbstractAdmit(k) \/ AbstractRefuse(k)

SlidingSpec == AbstractInit /\ [][AbstractNext]_slidingVars
==============================================================================
