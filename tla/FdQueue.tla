------------------------------ MODULE FdQueue ------------------------------
(***************************************************************************)
(* What queue_push() and queue_pop() of partB/src/threadpool_server.c      *)
(* promise: a first-in first-out queue of accepted connections.  Each one  *)
(* is handed to one worker, which keeps it until it is done with it.       *)
(***************************************************************************)
EXTENDS Sequences

CONSTANTS
    Items,      \* what is queued
    Workers,    \* who takes it
    None        \* what an idle worker holds

VARIABLES
    queue,      \* items pushed and not taken, oldest first
    held        \* the item each worker has taken

vars == <<queue, held>>

Init ==
    /\ queue = <<>>
    /\ held = [w \in Workers |-> None]

Push(x) ==
    /\ queue' = Append(queue, x)
    /\ UNCHANGED held

Pop(w) ==
    /\ held[w] = None
    /\ queue # <<>>
    /\ held' = [held EXCEPT ![w] = Head(queue)]
    /\ queue' = Tail(queue)

Done(w) ==
    /\ held[w] # None
    /\ held' = [held EXCEPT ![w] = None]
    /\ UNCHANGED queue

Next ==
    \/ \E x \in Items : Push(x)
    \/ \E w \in Workers : Pop(w) \/ Done(w)

Spec == Init /\ [][Next]_vars
============================================================================
