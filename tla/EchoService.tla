---------------------------- MODULE EchoService ----------------------------
(***************************************************************************)
(* What a TCP echo service promises, whatever its I/O model: on every      *)
(* connection the bytes written back are, at any moment, a prefix of the   *)
(* bytes received on that same connection, and nothing is written on a     *)
(* connection the server has closed.  partB/README.md, "All servers        *)
(* implement a simple TCP echo service"; the four servers are shown to     *)
(* implement this specification.                                           *)
(***************************************************************************)
EXTENDS Naturals, Sequences

CONSTANTS
    Clients,    \* the peers
    Quota       \* how many bytes each peer sends

VARIABLES
    status,     \* idle, open, or closed by the server
    sent,       \* bytes the peer has sent
    echoed      \* bytes written back to it

vars == <<status, sent, echoed>>

Prefix(c, n) == [i \in 1 .. n |-> <<c, i>>]

Init ==
    /\ status = [c \in Clients |-> "idle"]
    /\ sent = [c \in Clients |-> 0]
    /\ echoed = [c \in Clients |-> <<>>]

Open(c) ==
    /\ status[c] = "idle"
    /\ status' = [status EXCEPT ![c] = "open"]
    /\ UNCHANGED <<sent, echoed>>

Arrive(c) ==
    /\ status[c] = "open"
    /\ sent[c] < Quota[c]
    /\ sent' = [sent EXCEPT ![c] = @ + 1]
    /\ UNCHANGED <<status, echoed>>

Echo(c) ==
    /\ status[c] = "open"
    /\ \E n \in (Len(echoed[c]) + 1) .. sent[c] :
           echoed' = [echoed EXCEPT ![c] = Prefix(c, n)]
    /\ UNCHANGED <<status, sent>>

Close(c) ==
    /\ status[c] = "open"
    /\ status' = [status EXCEPT ![c] = "closed"]
    /\ UNCHANGED <<sent, echoed>>

Next == \E c \in Clients : Open(c) \/ Arrive(c) \/ Echo(c) \/ Close(c)

Spec == Init /\ [][Next]_vars
============================================================================
