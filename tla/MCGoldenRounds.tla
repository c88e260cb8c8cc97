---------------------------- MODULE MCGoldenRounds ----------------------------
(***************************************************************************)
(* The instances of MCGoldenTable with the history of turns.               *)
(***************************************************************************)
EXTENDS MCGoldenTable, GoldenRounds
=============================================================================
