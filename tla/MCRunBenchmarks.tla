-------------------------- MODULE MCRunBenchmarks --------------------------
(* An instance of RunBenchmarks for TLC: up to three invocations, so that two *)
(* servers left behind can compete for one port.                              *)
EXTENDS RunBenchmarks
============================================================================
