--------------------------- MODULE RateLimitProofs ---------------------------
(***************************************************************************)
(* Proofs about RateLimit for every set of keys, every limit and every     *)
(* window: the inductive invariant, NoBurst, and the refinement of the     *)
(* sliding window that keeps the whole history.                            *)
(***************************************************************************)
EXTENDS RateLimit, TLAPS

\* What popping the first d entries of a log leaves: a log, its length, and
\* entry by entry which of the old ones it is.
LEMMA RemainingFacts ==
  ASSUME NEW s \in Seq(Nat), NEW d \in 0 .. Len(s)
  PROVE  /\ SubSeq(s, d + 1, Len(s)) \in Seq(Nat)
         /\ Len(SubSeq(s, d + 1, Len(s))) = Len(s) - d
         /\ \A i \in 1 .. Len(s) - d : SubSeq(s, d + 1, Len(s))[i] = s[d + i]
  OBVIOUS

LEMMA AppendFacts ==
  ASSUME NEW s \in Seq(Nat), NEW t \in Nat
  PROVE  /\ Append(s, t) \in Seq(Nat)
         /\ Len(Append(s, t)) = Len(s) + 1
         /\ \A i \in 1 .. Len(s) : Append(s, t)[i] = s[i]
         /\ Append(s, t)[Len(s) + 1] = t
  OBVIOUS

\* A log w that is the end of a history h is still the end of it after the d
\* entries older than the cutoff are popped.
LEMMA PopKeepsEnd ==
  ASSUME NEW w \in Seq(Nat), NEW h \in Seq(Nat), NEW c \in Int,
         NEW d \in 0 .. Len(w),
         EndOf(w, h, c), PopsExactly(w, c, d)
  PROVE  EndOf(SubSeq(w, d + 1, Len(w)), h, c)
<1> DEFINE f == Len(h) - Len(w)
           v == SubSeq(w, d + 1, Len(w))
<1>1. /\ f \in Nat
      /\ v \in Seq(Nat)
      /\ Len(v) = Len(w) - d
      /\ \A i \in 1 .. Len(v) : v[i] = w[d + i]
  BY RemainingFacts DEF EndOf
<1>2. /\ \A i \in 1 .. Len(w) : w[i] = h[f + i]
      /\ \A i \in 1 .. f : h[i] < c
  BY DEF EndOf
<1>3. Len(h) - Len(v) = f + d
  <2>1. Len(h) - (Len(w) - d) = (Len(h) - Len(w)) + d
    OBVIOUS
  <2> QED BY <1>1, <2>1
<1> HIDE DEF f, v
<1>4. ASSUME NEW i \in 1 .. f + d
      PROVE  h[i] < c
  <2>1. CASE i <= f
    BY <1>1, <1>2, <2>1
  <2>2. CASE i > f
    <3>1. i - f \in 1 .. d /\ i - f \in 1 .. Len(w)
      BY <1>1, <2>2
    <3>2. w[i - f] < c
      BY <3>1 DEF PopsExactly
    <3>3. w[i - f] = h[f + (i - f)]
      BY <1>2, <3>1
    <3>4. f + (i - f) = i
      BY <1>1
    <3> QED BY <3>2, <3>3, <3>4
  <2> QED BY <1>1, <2>1, <2>2
<1>5. ASSUME NEW i \in 1 .. Len(v)
      PROVE  v[i] = h[f + d + i]
  <2>1. d + i \in 1 .. Len(w)
    BY <1>1
  <2>2. w[d + i] = h[f + (d + i)]
    BY <1>2, <2>1
  <2> QED BY <1>1, <2>2
<1>6. Len(v) <= Len(h)
  BY <1>1, <1>3
<1>7. EndOf(v, h, c)
  BY <1>3, <1>4, <1>5, <1>6 DEF EndOf
<1> QED BY <1>7 DEF v

\* Recording one more admission at both ends keeps the log the end of it.
LEMMA AppendKeepsEnd ==
  ASSUME NEW w \in Seq(Nat), NEW h \in Seq(Nat), NEW c \in Int, NEW t \in Nat,
         EndOf(w, h, c)
  PROVE  EndOf(Append(w, t), Append(h, t), c)
<1> DEFINE x == Append(w, t)
           y == Append(h, t)
<1>1. /\ x \in Seq(Nat) /\ Len(x) = Len(w) + 1 /\ x[Len(w) + 1] = t
      /\ \A i \in 1 .. Len(w) : x[i] = w[i]
  BY AppendFacts
<1>2. /\ y \in Seq(Nat) /\ Len(y) = Len(h) + 1 /\ y[Len(h) + 1] = t
      /\ \A i \in 1 .. Len(h) : y[i] = h[i]
  BY AppendFacts
<1> HIDE DEF x, y
<1>3. Len(y) - Len(x) = Len(h) - Len(w)
  BY <1>1, <1>2
<1>4. ASSUME NEW i \in 1 .. Len(x)
      PROVE  x[i] = y[Len(h) - Len(w) + i]
  <2>1. CASE i = Len(w) + 1
    BY <1>1, <1>2, <2>1
  <2>2. CASE i # Len(w) + 1
    <3>1. i \in 1 .. Len(w) /\ Len(h) - Len(w) + i \in 1 .. Len(h)
      BY <1>1, <2>2 DEF EndOf
    <3> QED BY <1>1, <1>2, <3>1 DEF EndOf
  <2> QED BY <2>1, <2>2
<1>5. ASSUME NEW i \in 1 .. Len(h) - Len(w)
      PROVE  y[i] < c
  <2>1. i \in 1 .. Len(h)
    OBVIOUS
  <2> QED BY <1>2, <2>1 DEF EndOf
<1>6. Len(x) <= Len(y)
  BY <1>1, <1>2 DEF EndOf
<1>7. \A i \in 1 .. Len(x) : x[i] = y[Len(y) - Len(x) + i]
  BY <1>3, <1>4
<1>8. \A i \in 1 .. Len(y) - Len(x) : y[i] < c
  BY <1>3, <1>5
<1>9. EndOf(x, y, c)
  BY <1>6, <1>7, <1>8 DEF EndOf
<1> QED BY <1>9 DEF x, y

\* With fewer than MaxAttempts entries left in the log, the MaxAttempts-th
\* most recent admission, if there is one, has left the window: one more
\* admission keeps the history spaced.
LEMMA AppendKeepsSpaced ==
  ASSUME NEW w \in Seq(Nat), NEW h \in Seq(Nat), NEW t \in Nat,
         EndOf(w, h, t - Window), Spaced(h), Len(w) < MaxAttempts
  PROVE  Spaced(Append(h, t))
<1>0. MaxAttempts \in Nat /\ MaxAttempts >= 1 /\ Window \in Nat
  BY RateLimitAssumption
<1> DEFINE y == Append(h, t)
<1>1. /\ y \in Seq(Nat) /\ Len(y) = Len(h) + 1 /\ y[Len(h) + 1] = t
      /\ \A i \in 1 .. Len(h) : y[i] = h[i]
  BY AppendFacts
<1> HIDE DEF y
<1>2. ASSUME NEW i \in 1 .. Len(y) - MaxAttempts
      PROVE  y[i + MaxAttempts] > y[i] + Window
  <2>1. i \in 1 .. Len(h) /\ y[i] = h[i] /\ h[i] \in Nat
    BY <1>0, <1>1, SMTT(30)
  <2>2. CASE i + MaxAttempts = Len(h) + 1
    <3>1. i \in 1 .. Len(h) - Len(w)
      BY <1>0, <2>1, <2>2
    <3>2. h[i] < t - Window
      BY <3>1 DEF EndOf
    <3>3. y[i + MaxAttempts] = t
      BY <1>1, <2>2
    <3> QED BY <1>0, <2>1, <3>2, <3>3
  <2>3. CASE i + MaxAttempts # Len(h) + 1
    <3>0. /\ i \in Nat /\ i >= 1 /\ Len(h) \in Nat
          /\ i <= Len(h) + 1 - MaxAttempts /\ i + MaxAttempts # Len(h) + 1
      BY <1>0, <1>1, <2>3
    <3>1. i \in 1 .. Len(h) - MaxAttempts /\ i + MaxAttempts \in 1 .. Len(h)
      BY <1>0, <3>0, SMTT(30)
    <3> QED BY <1>1, <2>1, <3>1 DEF Spaced
  <2> QED BY <2>2, <2>3
<1> QED BY <1>2 DEF Spaced, y

\* An admission now is the latest of all.
LEMMA AppendKeepsOrdered ==
  ASSUME NEW h \in Seq(Nat), NEW t \in Nat, Ordered(h, t)
  PROVE  Ordered(Append(h, t), t)
<1> DEFINE y == Append(h, t)
<1>1. /\ y \in Seq(Nat) /\ Len(y) = Len(h) + 1 /\ y[Len(h) + 1] = t
      /\ \A i \in 1 .. Len(h) : y[i] = h[i]
  BY AppendFacts
<1> HIDE DEF y
<1>2. ASSUME NEW i \in 1 .. Len(y)
      PROVE  i = Len(h) + 1 \/ i \in 1 .. Len(h)
  BY <1>1
<1>3. \A i \in 1 .. Len(y) : y[i] <= t
  BY <1>1, <1>2 DEF Ordered
<1>4. \A i, j \in 1 .. Len(y) : i <= j => y[i] <= y[j]
  BY <1>1, <1>2, <1>3, SMTT(30) DEF Ordered
<1> QED BY <1>3, <1>4 DEF Ordered, y

\* Initially nothing is remembered and nothing was admitted.
THEOREM InitIInv == Init => IInv
  BY RateLimitAssumption
  DEF Init, IInv, TypeOK, InOrder, RemembersTheWindow, NoBurst, Ordered, EndOf, Spaced

\* A later cutoff leaves even more of the forgotten entries behind.
LEMMA LaterKeepsEnd ==
  ASSUME NEW w \in Seq(Nat), NEW h \in Seq(Nat), NEW c \in Int, NEW e \in Int,
         c <= e, EndOf(w, h, c)
  PROVE  EndOf(w, h, e)
<1>1. ASSUME NEW i \in 1 .. Len(h) - Len(w)
      PROVE  h[i] < e
  <2>1. i \in 1 .. Len(h) /\ h[i] \in Nat
    OBVIOUS
  <2>2. h[i] < c
    BY DEF EndOf
  <2> QED BY <2>1, <2>2
<1> QED BY <1>1 DEF EndOf

\* Time only moves remembered and forgotten entries further into the past.
LEMMA TickIInv == IInv /\ Tick => IInv'
<1> SUFFICES ASSUME IInv, Tick PROVE IInv'
  OBVIOUS
<1>0. /\ now \in Nat /\ now' = now + 1 /\ attempts' = attempts
      /\ admitted' = admitted /\ Window \in Nat
  BY RateLimitAssumption DEF IInv, TypeOK, Tick
<1>1. TypeOK'
  BY DEF IInv, TypeOK, Tick
<1>2. ASSUME NEW k \in Keys
      PROVE  /\ Ordered(admitted[k], now')
             /\ EndOf(attempts[k], admitted[k], now' - Window)
  <2>1. admitted[k] \in Seq(Nat) /\ attempts[k] \in Seq(Nat)
    BY DEF IInv, TypeOK
  <2>2. Ordered(admitted[k], now) /\ EndOf(attempts[k], admitted[k], now - Window)
    BY DEF IInv, InOrder, RemembersTheWindow
  <2>3. \A i \in 1 .. Len(admitted[k]) : admitted[k][i] \in Nat
    BY <2>1
  <2>4. Ordered(admitted[k], now')
    BY <1>0, <2>2, <2>3 DEF Ordered
  <2>5. now - Window \in Int /\ now' - Window \in Int /\ now - Window <= now' - Window
    BY <1>0
  <2>6. EndOf(attempts[k], admitted[k], now' - Window)
    BY <2>1, <2>2, <2>5, LaterKeepsEnd
  <2> QED BY <2>4, <2>6
<1>3. InOrder' /\ RemembersTheWindow' /\ NoBurst'
  BY <1>0, <1>2 DEF IInv, InOrder, RemembersTheWindow, NoBurst
<1> QED BY <1>1, <1>3 DEF IInv

\* What both outcomes of a request share: the pruned log.
LEMMA PrunedLog ==
  ASSUME IInv, NEW k \in Keys, NEW d \in 0 .. Len(attempts[k]),
         PopsExactly(attempts[k], now - Window, d)
  PROVE  /\ Remaining(k, d) \in Seq(Nat)
         /\ Len(Remaining(k, d)) = Len(attempts[k]) - d
         /\ EndOf(Remaining(k, d), admitted[k], now - Window)
<1>1. attempts[k] \in Seq(Nat) /\ admitted[k] \in Seq(Nat) /\ now - Window \in Int
  BY RateLimitAssumption DEF IInv, TypeOK
<1>2. EndOf(attempts[k], admitted[k], now - Window)
  BY DEF IInv, RemembersTheWindow
<1>3. Remaining(k, d) \in Seq(Nat) /\ Len(Remaining(k, d)) = Len(attempts[k]) - d
  BY <1>1, RemainingFacts DEF Remaining
<1>4. EndOf(SubSeq(attempts[k], d + 1, Len(attempts[k])), admitted[k], now - Window)
  BY <1>1, <1>2, PopKeepsEnd
<1> QED BY <1>3, <1>4 DEF Remaining

LEMMA AdmitIInv ==
  ASSUME IInv, NEW k \in Keys, NEW d \in 0 .. Len(attempts[k]), Admit(k, d)
  PROVE  IInv'
<1>1. /\ now \in Nat /\ now' = now
      /\ attempts \in [Keys -> Seq(Nat)] /\ admitted \in [Keys -> Seq(Nat)]
      /\ attempts' = [attempts EXCEPT ![k] = Append(Remaining(k, d), now)]
      /\ admitted' = [admitted EXCEPT ![k] = Append(admitted[k], now)]
      /\ verdict' = [verdict EXCEPT ![k] = "ok"]
      /\ Len(attempts[k]) - d < MaxAttempts
  BY DEF IInv, TypeOK, Admit
<1>2. /\ Remaining(k, d) \in Seq(Nat)
      /\ Len(Remaining(k, d)) < MaxAttempts
      /\ EndOf(Remaining(k, d), admitted[k], now - Window)
  BY <1>1, PrunedLog DEF Admit
<1>3. /\ Append(Remaining(k, d), now) \in Seq(Nat)
      /\ Append(admitted[k], now) \in Seq(Nat)
  BY <1>1, <1>2, AppendFacts
<1>4. TypeOK'
  BY <1>1, <1>3 DEF IInv, TypeOK
<1>5. now - Window \in Int
  BY <1>1, RateLimitAssumption
<1>6. EndOf(Append(Remaining(k, d), now), Append(admitted[k], now), now - Window)
  BY <1>1, <1>2, <1>5, AppendKeepsEnd
<1>7. Spaced(Append(admitted[k], now))
  BY <1>1, <1>2, AppendKeepsSpaced DEF IInv, NoBurst
<1>8. Ordered(Append(admitted[k], now), now)
  BY <1>1, AppendKeepsOrdered DEF IInv, InOrder
<1>9. InOrder' /\ RemembersTheWindow' /\ NoBurst'
  BY <1>1, <1>6, <1>7, <1>8 DEF IInv, InOrder, RemembersTheWindow, NoBurst
<1> QED BY <1>4, <1>9 DEF IInv

LEMMA RefuseIInv ==
  ASSUME IInv, NEW k \in Keys, NEW d \in 0 .. Len(attempts[k]), Refuse(k, d)
  PROVE  IInv'
<1>1. /\ now' = now /\ admitted' = admitted
      /\ attempts \in [Keys -> Seq(Nat)]
      /\ attempts' = [attempts EXCEPT ![k] = Remaining(k, d)]
      /\ verdict' = [verdict EXCEPT ![k] = "429"]
  BY DEF IInv, TypeOK, Refuse
<1>2. /\ Remaining(k, d) \in Seq(Nat)
      /\ EndOf(Remaining(k, d), admitted[k], now - Window)
  BY PrunedLog DEF Refuse
<1>3. TypeOK'
  BY <1>1, <1>2 DEF IInv, TypeOK
<1>4. InOrder' /\ RemembersTheWindow' /\ NoBurst'
  BY <1>1, <1>2 DEF IInv, InOrder, RemembersTheWindow, NoBurst
<1> QED BY <1>3, <1>4 DEF IInv

LEMMA NextIInv == IInv /\ [Next]_vars => IInv'
<1> SUFFICES ASSUME IInv, [Next]_vars PROVE IInv'
  OBVIOUS
<1>1. CASE Tick
  BY <1>1, TickIInv
<1>2. CASE \E k \in Keys : Request(k)
  BY <1>2, AdmitIInv, RefuseIInv DEF Request
<1>3. CASE UNCHANGED vars
  BY <1>3 DEF vars, IInv, TypeOK, InOrder, RemembersTheWindow, NoBurst
<1> QED BY <1>1, <1>2, <1>3 DEF Next

\* The inductive invariant holds for every set of keys, limit and window.
THEOREM Invariance == Spec => []IInv
<1> QED BY InitIInv, NextIInv, PTL DEF Spec

\* rate_limit.py: no window of `window_seconds`, wherever it is placed in
\* time, holds more than `max_attempts` admitted requests of one key.
THEOREM BurstBound == Spec => []NoBurst
<1>1. IInv => NoBurst
  BY DEF IInv
<1> QED BY Invariance, <1>1, PTL

\* rate_limit.py: what `_attempts` has forgotten no longer matters.
THEOREM RemembersEnough == Spec => []RemembersTheWindow
<1>1. IInv => RemembersTheWindow
  BY DEF IInv
<1> QED BY Invariance, <1>1, PTL

-----------------------------------------------------------------------------
(* The refinement: the forgetful log decides as the full history would. *)

\* With fewer than MaxAttempts entries in the pruned log, the full history
\* holds fewer than MaxAttempts admissions within the window.
LEMMA AdmitNotExhausted ==
  ASSUME IInv, NEW k \in Keys, NEW d \in 0 .. Len(attempts[k]), Admit(k, d)
  PROVE  ~Abstract!Exhausted(k, now)
<1>0. MaxAttempts \in Nat /\ MaxAttempts >= 1 /\ Window \in Nat /\ now \in Nat
  BY RateLimitAssumption DEF IInv, TypeOK
<1> DEFINE h == admitted[k]
           v == Remaining(k, d)
<1>1. h \in Seq(Nat) /\ v \in Seq(Nat) /\ Len(v) < MaxAttempts /\ EndOf(v, h, now - Window)
  BY PrunedLog DEF Admit, IInv, TypeOK
<1> HIDE DEF h, v
<1>2. ASSUME Len(h) >= MaxAttempts
      PROVE  h[Len(h) - MaxAttempts + 1] < now - Window
  <2>1. Len(h) - MaxAttempts + 1 \in 1 .. Len(h) - Len(v)
    BY <1>0, <1>1, <1>2
  <2> QED BY <1>1, <2>1 DEF EndOf
<1>3. ASSUME Len(h) >= MaxAttempts
      PROVE  h[Len(h) - MaxAttempts + 1] \in Nat
  <2>1. Len(h) - MaxAttempts + 1 \in 1 .. Len(h)
    BY <1>0, <1>1, <1>3
  <2> QED BY <1>1, <2>1
<1>4. ~(Len(h) >= MaxAttempts /\ h[Len(h) - MaxAttempts + 1] >= now - Window)
  BY <1>0, <1>2, <1>3
<1> QED BY <1>4 DEF Abstract!Exhausted, h

\* With MaxAttempts entries or more in the pruned log, the oldest of the last
\* MaxAttempts admissions is among them, hence within the window.
LEMMA RefuseExhausted ==
  ASSUME IInv, NEW k \in Keys, NEW d \in 0 .. Len(attempts[k]), Refuse(k, d)
  PROVE  Abstract!Exhausted(k, now)
<1>0. MaxAttempts \in Nat /\ MaxAttempts >= 1 /\ Window \in Nat /\ now \in Nat
  BY RateLimitAssumption DEF IInv, TypeOK
<1> DEFINE h == admitted[k]
           w == attempts[k]
           v == Remaining(k, d)
           c == now - Window
<1>1. /\ h \in Seq(Nat) /\ w \in Seq(Nat) /\ v \in Seq(Nat) /\ c \in Int
      /\ Len(v) = Len(w) - d /\ Len(v) >= MaxAttempts
      /\ EndOf(v, h, c) /\ Ordered(h, now)
      /\ d \in 0 .. Len(w) /\ PopsExactly(w, c, d)
  BY <1>0, PrunedLog DEF Refuse, IInv, TypeOK, InOrder
<1>2. v[1] = w[d + 1]
  <2>1. 1 \in 1 .. Len(w) - d
    BY <1>0, <1>1
  <2>2. SubSeq(w, d + 1, Len(w))[1] = w[d + 1]
    BY <1>1, <2>1, RemainingFacts
  <2> QED BY <2>2 DEF Remaining
<1> HIDE DEF h, w, v, c
<1>3. d < Len(w)
  BY <1>0, <1>1
<1>4. w[d + 1] >= c
  BY <1>1, <1>3 DEF PopsExactly
<1>5. v[1] = h[Len(h) - Len(v) + 1]
  BY <1>0, <1>1 DEF EndOf
<1>6. Len(h) >= MaxAttempts
  BY <1>0, <1>1 DEF EndOf
<1> DEFINE i == Len(h) - Len(v) + 1
           j == Len(h) - MaxAttempts + 1
<1>7. i \in 1 .. Len(h) /\ j \in 1 .. Len(h) /\ i <= j
  <2>1. Len(v) <= Len(h)
    BY <1>1 DEF EndOf
  <2> QED BY <1>0, <1>1, <1>6, <2>1, SMTT(30)
<1> HIDE DEF i, j
<1>8. h[i] <= h[j] /\ h[i] \in Nat /\ h[j] \in Nat
  BY <1>1, <1>7 DEF Ordered
<1>9. h[i] >= c
  BY <1>2, <1>4, <1>5 DEF i
<1>10. h[j] >= c
  BY <1>1, <1>8, <1>9
<1> QED BY <1>6, <1>10 DEF Abstract!Exhausted, h, j, c

LEMMA RefinementStep ==
  IInv /\ [Next]_vars => [Abstract!AbstractNext]_(Abstract!slidingVars)
<1> SUFFICES ASSUME IInv, [Next]_vars
             PROVE  [Abstract!AbstractNext]_(Abstract!slidingVars)
  OBVIOUS
<1>1. CASE Tick
  <2>1. Abstract!AbstractTick
    BY <1>1 DEF Tick, IInv, TypeOK, Abstract!AbstractTick
  <2> QED BY <2>1 DEF Abstract!AbstractNext
<1>2. ASSUME NEW k \in Keys, NEW d \in 0 .. Len(attempts[k]), Admit(k, d)
      PROVE  Abstract!AbstractNext
  <2>1. Abstract!AbstractAdmit(k)
    BY <1>2, AdmitNotExhausted DEF Admit, Abstract!AbstractAdmit
  <2> QED BY <2>1 DEF Abstract!AbstractNext
<1>3. ASSUME NEW k \in Keys, NEW d \in 0 .. Len(attempts[k]), Refuse(k, d)
      PROVE  Abstract!AbstractNext
  <2>1. Abstract!AbstractRefuse(k)
    BY <1>3, RefuseExhausted DEF Refuse, Abstract!AbstractRefuse
  <2> QED BY <2>1 DEF Abstract!AbstractNext
<1>4. CASE UNCHANGED vars
  BY <1>4 DEF vars, Abstract!slidingVars
<1> QED BY <1>1, <1>2, <1>3, <1>4 DEF Next, Request

\* rate_limit.py implements the sliding window over the full history: it
\* refuses exactly the requests that window refuses.
THEOREM Refinement == Spec => ImplementsSlidingWindow
<1>1. Init => Abstract!AbstractInit
  BY DEF Init, Abstract!AbstractInit
<1> QED BY <1>1, RefinementStep, Invariance, PTL
        DEF Spec, ImplementsSlidingWindow, Abstract!SlidingSpec
==============================================================================
