----------------------------- MODULE MCRateLimit -----------------------------
(* A small instance of RateLimit for TLC: the clock stops at MaxTime, and    *)
(* then the limiter itself bounds the history.                               *)
EXTENDS RateLimit

CONSTANT MaxTime

BoundedTick == now < MaxTime /\ Tick

MCNext == BoundedTick \/ \E k \in Keys : Request(k)

MCSpec == Init /\ [][MCNext]_vars
==============================================================================
