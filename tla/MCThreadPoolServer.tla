------------------------ MODULE MCThreadPoolServer ------------------------
(* An instance of ThreadPoolServer for TLC: fewer workers than peers, so that *)
(* one connection waits in the queue.                                         *)
EXTENDS ThreadPoolServer, TLC

CONSTANTS p, q, r, w1, w2

Peers    == {p, q, r}
Pool     == {w1, w2}
Quotas   == p :> 2 @@ q :> 1 @@ r :> 0
============================================================================
