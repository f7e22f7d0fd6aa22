----------------------------- MODULE MCTestBed -----------------------------
(***************************************************************************)
(* TestBed for TLC: a sweep of two attempts in two zones, the first of     *)
(* them not the default zone.                                              *)
(***************************************************************************)
EXTENDS TestBed

MCAttempts == <<2, 1>>
MCBenchStages == {"all"}
MCStages == {"setup", "deploy"}
=============================================================================
