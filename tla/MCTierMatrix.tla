---------------------------- MODULE MCTierMatrix ----------------------------
(***************************************************************************)
(* TierMatrix for TLC: one local tier that outlives the server process and *)
(* the shared one; the cpu tier comes with the sanity stage.               *)
(***************************************************************************)
EXTENDS TierMatrix

MCTiers == <<"disk", "valkey">>
MCStages == {"sanity", "fleet"}
MCResumed == {"fleet", "single"}
MCOneTier == <<"valkey">>
=============================================================================
