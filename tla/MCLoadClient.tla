---------------------------- MODULE MCLoadClient ----------------------------
(* An instance of LoadClient for TLC: one or three connections on one or two  *)
(* threads (more threads than connections, and a division with a remainder,   *)
(* included), payloads that fit in the buffers, that may, and that do not,    *)
(* and narrow ints: numbers that become zero, negative or another positive    *)
(* number, and products that are no ints.  The numbers of requests are small, *)
(* or at 100, where the rank of the percentile is no longer the last one.     *)
EXTENDS LoadClient

Line(c, r, t) == [connections |-> c, requests |-> r, threads |-> t, payload |-> 1]

MCCommandLines ==
    [connections : {1, 3}, requests : {1, 2}, threads : {1, 2}, payload : {1, 3, 4, 5}]
        \cup {Line(0, 1, 1), Line(1, 0, 1), Line(1, 1, -1),
              Line(IntSize, 1, 2), Line(1, IntSize, 2), Line(1, 1, IntSize),
              Line(IntSize - 1, 1, 1), Line(2, IntSize - 1, 2), Line(2, 1, IntSize - 1),
              Line(IntSize - 1, IntSize - 1, 1), Line(IntSize + 2, 1, 2),
              Line(3, IntSize \div 4, 2), Line(20, 5, 1), Line(1, 101, 1),
              Line(IntSize \div 198 + 1, 1, 1)}
============================================================================
