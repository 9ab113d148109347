----------------------------- MODULE RpcRequest ------------------------------
(***************************************************************************)
(* The requests of the rpc library.  It has a builder of its own, a copy of*)
(* the one of the command line whose three flags and whose buffer are local*)
(* to each function, and its functions send some of the opcodes the command*)
(* line sends.  A slot decodes a request by its opcode alone, so the two   *)
(* programs have to write the same text for it; nothing in the code ties   *)
(* them together.                                                          *)
(*                                                                         *)
(* The functions that write keys or strings have no caller outside #if 0.  *)
(***************************************************************************)
EXTENDS CliPayload

\* Faulty variant: the comma of every further value is forgotten.
RpcConvertValBare(b) ==
  [b EXCEPT !.text = @ \o (IF ~b.in_list THEN <<"[">> ELSE <<>>) \o <<"v">>,
            !.in_list = TRUE, !.in_pair = FALSE]

\* rpc_convert_val_to_json.
RpcConvertVal(b) ==
  [b EXCEPT !.text = @ \o (IF ~b.in_list THEN <<"[">> ELSE IF b.in_pair THEN <<>> ELSE <<",">>)
                       \o <<"v">>,
            !.in_list = TRUE, !.in_pair = FALSE]

\* rpc_close_json, which knows no sections.
RpcCloseJson(b) ==
  [b EXCEPT !.text = @ \o (IF b.in_map THEN <<"}">> ELSE <<>>)
                       \o (IF b.in_list THEN <<"]">> ELSE <<>>)]

\* slots, modules and the four words of a port mask, spelled out in every
\* function where the parser loops up to MAX_PORTS_WIDTH.
Area == 2 + 4

\* Values that each function writes; a function without any sends no text.
Values ==
  [get_system |-> 0, get_info |-> 0, get_config |-> 0,
   get_board_info |-> 1,
   get_snmp_trap_info |-> 2, olp_show_status |-> 2,
   get_interface_info |-> Area, get_interface_status |-> Area,
   clear_interface_counter |-> Area, get_snmp_entry |-> Area,
   get_interface_counter |-> Area + 1, set_port_mode |-> Area + 1]

\* The text of a function's request, as rpc_process_msg sends it.
RpcText(function) ==
  LET Written[n \in 0..Values[function]] ==
        IF n = 0 THEN EmptyBuilder ELSE RpcConvertVal(Written[n - 1])
  IN  RpcCloseJson(Written[Values[function]]).text

\* Commands and functions with the same opcode.  rpc_oe_set_port_mode and
\* rpc_oe_save_or_get_config take theirs from their caller, who is outside the
\* library; the pairs name the commands they are named after.
SameOpcode ==
  {<<"SHOW CONFIGURATION", "get_config">>,
   <<"SAVE CONFIGURATION", "get_config">>,
   <<"SHOW SYSTEM", "get_system">>,
   <<"SHOW BOARD INFO", "get_board_info">>,
   <<"SHOW INTERFACE INFO", "get_interface_info">>,
   <<"SHOW INTERFACE COUNTER", "get_interface_counter">>,
   <<"CLEAR INTERFACE COUNTER", "clear_interface_counter">>,
   <<"SET INTERFACE MODE", "set_port_mode">>,
   <<"SNMP SHOW TRAP", "get_snmp_trap_info">>,
   <<"LINK_PROTECT STATUS", "olp_show_status">>}

\* What those commands read before they send comes to as many values as the
\* function writes, and no key, id, ud data or range is among it.
ASSUME SameOpcodeAssumption ==
  \A c \in Commands : \A pair \in SameOpcode : \A j \in 1..Len(c.ops) :
    pair[1] = c.name /\ c.ops[j] = "send" /\ "send" \notin Before(c.ops, j) =>
      /\ Said(c.ops, j, "val") = Values[pair[2]]
      /\ Before(c.ops, j) \cap {"key", "hashvals", "ud", "range"} = {}

-----------------------------------------------------------------------------
\* A command and the function of the rpc library that sends the same opcode
\* write texts of the same shape, whatever the parser has read and refused before
\* and whichever way the command's values were typed: a slot that serves both
\* programs finds the same number of values, in one list.  Values are one symbol,
\* so which of them stands where is not compared.
SameTextForOpcode ==
  mode = "command" /\ ~tainted /\ sent # <<>> =>
    \A pair \in SameOpcode :
      pair[1] = cmd.name => sent[1].text = RpcText(pair[2])
=============================================================================
