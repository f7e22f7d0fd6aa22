-------------------------- MODULE MCThroughputBench --------------------------
(***************************************************************************)
(* ThroughputBench for TLC: the three programs.                            *)
(***************************************************************************)
EXTENDS ThroughputBench

MCTools == {"bench_baseline", "valkey_microbench", "connector_compare"}
=============================================================================
