----------------------------- MODULE MCSession ------------------------------
(* The program with every production of the grammar, for TLC. *)
EXTENDS CliSession, CliGrammar

MCCommands == AllCommands
MCSlotMasks == {1, 2}
=============================================================================
