------------------------------ MODULE RateLimit ------------------------------
(***************************************************************************)
(* backend/app/services/rate_limit.py: the in-memory sliding-window        *)
(* limiter in front of the login, claim, refresh and admin endpoints.      *)
(* `dependency` contains no await, so one request's check runs             *)
(* atomically in the single event loop; the dictionary `_attempts` is      *)
(* `attempts` here, and it forgets: old entries are popped off the front.  *)
(*                                                                         *)
(* `admitted` and `verdict` are history variables: the code does not keep  *)
(* them, the properties speak about them.                                  *)
(***************************************************************************)
EXTENDS Integers, Sequences

CONSTANTS Keys, MaxAttempts, Window

ASSUME RateLimitAssumption ==
  /\ MaxAttempts \in Nat \ {0}
  /\ Window \in Nat

VARIABLES
  now,        \* time.time(), assumed never to step back
  attempts,   \* _attempts: per key, the remembered times, oldest first
  admitted,   \* history: per key, the times of all requests let through
  verdict     \* history: what the last request of each key was told

vars == <<now, attempts, admitted, verdict>>

\* Mutant: an entry exactly as old as the window is popped too.
PopsTooMany(w, cutoff, d) ==
  /\ \A i \in 1 .. d : w[i] <= cutoff
  /\ d < Len(w) => w[d + 1] > cutoff

\* `while window and window[0] < cutoff: window.pop(0)` pops the first d
\* entries of w, those in front of the first one that is not too old.
PopsExactly(w, cutoff, d) ==
  /\ \A i \in 1 .. d : w[i] < cutoff
  /\ d < Len(w) => w[d + 1] >= cutoff

Remaining(k, d) == SubSeq(attempts[k], d + 1, Len(attempts[k]))

Init ==
  /\ now = 0
  /\ attempts = [k \in Keys |-> << >>]
  /\ admitted = [k \in Keys |-> << >>]
  /\ verdict = [k \in Keys |-> "none"]

Tick ==
  /\ now' = now + 1
  /\ UNCHANGED <<attempts, admitted, verdict>>

\* Mutant: one request more than max_attempts is let through.
AdmitOneMore(k, d) ==
  /\ PopsExactly(attempts[k], now - Window, d)
  /\ Len(attempts[k]) - d <= MaxAttempts
  /\ attempts' = [attempts EXCEPT ![k] = Append(Remaining(k, d), now)]
  /\ admitted' = [admitted EXCEPT ![k] = Append(@, now)]
  /\ verdict' = [verdict EXCEPT ![k] = "ok"]
  /\ UNCHANGED now

\* A request below the limit once d old entries are popped: recorded and
\* let through.
Admit(k, d) ==
  /\ PopsExactly(attempts[k], now - Window, d)
  /\ Len(attempts[k]) - d < MaxAttempts
  /\ attempts' = [attempts EXCEPT ![k] = Append(Remaining(k, d), now)]
  /\ admitted' = [admitted EXCEPT ![k] = Append(@, now)]
  /\ verdict' = [verdict EXCEPT ![k] = "ok"]
  /\ UNCHANGED now

\* Mutant: a refused request is recorded as well.
RefuseRecording(k, d) ==
  /\ PopsExactly(attempts[k], now - Window, d)
  /\ Len(attempts[k]) - d >= MaxAttempts
  /\ attempts' = [attempts EXCEPT ![k] = Append(Remaining(k, d), now)]
  /\ verdict' = [verdict EXCEPT ![k] = "429"]
  /\ UNCHANGED <<now, admitted>>

\* A request at the limit: 429, and not recorded (the pops are kept).
Refuse(k, d) ==
  /\ PopsExactly(attempts[k], now - Window, d)
  /\ Len(attempts[k]) - d >= MaxAttempts
  /\ attempts' = [attempts EXCEPT ![k] = Remaining(k, d)]
  /\ verdict' = [verdict EXCEPT ![k] = "429"]
  /\ UNCHANGED <<now, admitted>>

Request(k) ==
  \E d \in 0 .. Len(attempts[k]) : Admit(k, d) \/ Refuse(k, d)

Next == Tick \/ \E k \in Keys : Request(k)

Spec == Init /\ [][Next]_vars

-----------------------------------------------------------------------------

\* Of a history h the limiter remembers the log w.
Spaced(h) ==
  \A i \in 1 .. Len(h) - MaxAttempts : h[i + MaxAttempts] > h[i] + Window

EndOf(w, h, cutoff) ==
  /\ Len(w) <= Len(h)
  /\ \A i \in 1 .. Len(w) : w[i] = h[Len(h) - Len(w) + i]
  /\ \A i \in 1 .. Len(h) - Len(w) : h[i] < cutoff

Ordered(h, t) ==
  /\ \A i \in 1 .. Len(h) : h[i] <= t
  /\ \A i, j \in 1 .. Len(h) : i <= j => h[i] <= h[j]

\* Types: clocks and logs are times, verdicts are HTTP outcomes.
TypeOK ==
  /\ now \in Nat
  /\ attempts \in [Keys -> Seq(Nat)]
  /\ admitted \in [Keys -> Seq(Nat)]
  /\ verdict \in [Keys -> {"none", "ok", "429"}]

\* The budget: between any admission and the MaxAttempts-th one after it more
\* than `window_seconds` pass, so no window, wherever it is placed, holds more
\* than MaxAttempts admitted requests -- although the limiter forgets.
NoBurst == \A k \in Keys : Spaced(admitted[k])

\* What the limiter remembers is the end of the true history, and all that it
\* has forgotten had left the window when it was popped, and stays out of it.
RemembersTheWindow ==
  \A k \in Keys : EndOf(attempts[k], admitted[k], now - Window)

\* Times are recorded in order and never lie ahead of the clock.
InOrder == \A k \in Keys : Ordered(admitted[k], now)

\* The inductive invariant behind NoBurst and the refinement.
IInv == TypeOK /\ InOrder /\ RemembersTheWindow /\ NoBurst

\* The limiter implements the sliding window that never forgets: a request
\* is refused if and only if MaxAttempts requests of this very key were
\* admitted within the window that ends now.  So refused requests do not
\* prolong a lockout, other keys do not count, and forgetting is invisible.
Abstract == INSTANCE SlidingWindow WITH now <- now, admitted <- admitted, verdict <- verdict

ImplementsSlidingWindow == Abstract!SlidingSpec
==============================================================================
