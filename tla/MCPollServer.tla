---------------------------- MODULE MCPollServer ----------------------------
(* An instance of PollServer for TLC: one peer that sends several bytes, one *)
(* that sends a single byte, and one that only connects.                     *)
EXTENDS PollServer, TLC

CONSTANTS p, q, r

Peers    == {p, q, r}
Quitters == {p, q}
Quotas   == p :> 2 @@ q :> 1 @@ r :> 0
============================================================================
