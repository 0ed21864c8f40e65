---------------------------- MODULE MCWorkQueue ----------------------------
(* An instance of WorkQueue for TLC: three workers, and more connections than *)
(* the heap has blocks, so that blocks are reused.                            *)
EXTENDS WorkQueue

CONSTANTS w1, w2, w3

Pool   == {w1, w2, w3}
Blocks == 1 .. 3
============================================================================
