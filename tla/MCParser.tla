------------------------------ MODULE MCParser ------------------------------
(* The parser with every production of the grammar, for TLC. *)
EXTENDS RpcRequest, CliGrammar

MCCommands == AllCommands
MCSlotMasks == {1, 2}
=============================================================================
