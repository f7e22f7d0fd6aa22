---------------------------- MODULE MCCorpusE2E ----------------------------
(***************************************************************************)
(* CorpusE2E for TLC.  The values of the constants and the bounds on runs  *)
(* and restarts are in the configurations.                                 *)
(***************************************************************************)
EXTENDS CorpusE2E

MCShared == {"valkey"}
MCLocal == {"cpu"}
MCOff == {FALSE}
MCEither == BOOLEAN
=============================================================================
