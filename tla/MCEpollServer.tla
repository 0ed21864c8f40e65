--------------------------- MODULE MCEpollServer ---------------------------
(* An instance of EpollServer for TLC: one peer that sends several bytes, one *)
(* that sends a single byte, and one that only connects.                      *)
EXTENDS EpollServer, TLC

CONSTANTS p, q, r

Peers    == {p, q, r}
Quitters == {p, q}
Quotas   == p :> 2 @@ q :> 1 @@ r :> 0
============================================================================
