--------------------------- MODULE MCIoUringServer ---------------------------
(* An instance of IoUringServer for TLC: one peer that sends, two that only  *)
(* connect, and descriptors for two of the three at a time.                  *)
EXTENDS IoUringServer, TLC

CONSTANTS p, q, r

Peers    == {p, q, r}
Quitters == {p}
Quotas   == p :> 2 @@ q :> 0 @@ r :> 0

\* Enough bytes for a SEND that is cut short to be followed by another one.
MoreQuotas == p :> 3 @@ q :> 0 @@ r :> 0
============================================================================
