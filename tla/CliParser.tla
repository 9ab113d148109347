------------------------------ MODULE CliParser ------------------------------
(***************************************************************************)
(* The command parser: the state that the semantic actions of parser.y keep*)
(* in globals, and what happens to it while yyparse works through one line.*)
(*                                                                         *)
(* A line is a sequence of commands, each closed by an EOS (a semicolon, or*)
(* the newline every caller appends).  The parser runs the ops of a command*)
(* one by one (CliGrammar says what they stand for).  It is the user who   *)
(* decides which command comes next, whether a token is a wrong one and    *)
(* whether a value passes its test, so those choices are nondeterministic. *)
(*                                                                         *)
(* mode tells where yyparse is:                                            *)
(*   "idle"      not running                                               *)
(*   "boundary"  in front of a command, or of the end of the line          *)
(*   "command"   inside a command, pc the next op                          *)
(*   "discard"   the error token is shifted: tokens go until the next EOS  *)
(*                                                                         *)
(* EN, the number of the last error, is left out: SAVE CONFIGURATION alone *)
(* reads it, right after it has assigned it.  The bytes of a value are left*)
(* out too; what is kept of a request is the shape of its text.            *)
(***************************************************************************)
EXTENDS JsonBuilder

CONSTANTS
  Commands,     \* the commands a user may type, records [name, ops]
  SlotMasks,    \* the slot masks that can be named on a command line
  OwnMask,      \* the mask of the slot the board itself stands in
  RangeLimit,   \* the number range_num is compared with (32 in the code)
  MaxItems,     \* commands that fit on a line (CMD_LEN_MAX characters)
  MaxResidue    \* bound on the text a late rejection may leave in g_sb

Ops == {"tok", "eos", "check", "guard", "slot", "own", "val", "key", "ud", "range",
        "flag", "hash", "hashvals", "close", "send", "accept"}

\* The bare EOS, production line: EOS.
EmptyLine == [name |-> "EMPTY", ops |-> <<"eos">>]

\* In every command of the grammar YYACCEPT is reached before anything was
\* written, and no token is read and no value tested after a request has left.
ASSUME ParserAssumption ==
  /\ \A c \in Commands :
       /\ c.ops \in Seq(Ops)
       /\ \A i, j \in 1..Len(c.ops) :
            /\ c.ops[j] = "accept" /\ i < j => c.ops[i] \in {"tok", "eos"}
            /\ c.ops[i] = "send" /\ i < j => c.ops[j] \in {"val", "close", "send"}
  /\ EmptyLine \in Commands
  /\ SlotMasks \subseteq Nat /\ OwnMask \in SlotMasks
  /\ RangeLimit \in Nat
  /\ MaxItems \in Nat \ {0}
  /\ MaxResidue \in Nat

\* The ops in front of the j-th, and whether a key among them waits for its value.
Before(ops, j) == {ops[i] : i \in 1..(j - 1)}
Pending(ops, j) ==
  \E i \in 1..(j - 1) : ops[i] = "key" /\ \A k \in (i + 1)..(j - 1) : ops[k] # "val"

\* Up to its first request a command writes its values and then its pairs, a
\* value directly behind each key; ud data and ranges need a value in front of
\* them; what was written is closed, once, and sent.
ASSUME RequestAssumption ==
  \A c \in Commands : \A j \in 1..Len(c.ops) :
    LET op == c.ops[j]
        before == Before(c.ops, j)
    IN  "send" \notin before =>
          /\ op \in {"val", "key", "hashvals", "close"} => "close" \notin before
          /\ op = "val" /\ "key" \in before => Pending(c.ops, j)
          /\ op \in {"key", "close"} => ~Pending(c.ops, j)
          /\ op = "hashvals" => "val" \in before /\ "key" \notin before
          /\ op = "close" /\ ("ud" \in before \/ "range" \in before) => "val" \in before
          /\ op = "send" /\ ("val" \in before \/ "key" \in before) => "close" \in before

VARIABLES
  mode, cmd, pc,
  eos,          \* the last token that was read is an EOS
  items,        \* commands read on this line
  rv,           \* what the last yyparse returned
  json,         \* g_sb with in_list, in_map and in_pair
  ud_flag, range_flag, range_num, tcpflag, outports_num,
  slot_mask,
  sent,         \* history: the requests of the current command
  assigned,     \* history: what the current command has assigned to slot_mask
  tainted       \* history: yyparse aborted and no cli_reset_command since

readVars == <<mode, cmd, pc, eos, items, rv>>
resetVars == <<json, ud_flag, range_flag, range_num, tcpflag, outports_num>>
history == <<sent, assigned, tainted>>
vars == <<readVars, resetVars, slot_mask, history>>

Request == [text: Seq(Symbol), mask: Nat]

TypeOK ==
  /\ mode \in {"idle", "boundary", "command", "discard"}
  /\ cmd \in Commands /\ pc \in Nat \ {0}
  /\ eos \in BOOLEAN /\ items \in 0..MaxItems /\ rv \in {0, 1}
  /\ json \in Builder
  /\ ud_flag \in BOOLEAN /\ range_flag \in BOOLEAN /\ tcpflag \in BOOLEAN
  /\ range_num \in 0..(RangeLimit + 1) /\ outports_num \in Nat
  /\ slot_mask \in SlotMasks \cup {0}
  /\ sent \in Seq(Request) /\ assigned \subseteq SlotMasks /\ tainted \in BOOLEAN

Init ==
  /\ mode = "idle" /\ cmd = EmptyLine /\ pc = 1 /\ eos = FALSE /\ items = 0 /\ rv = 0
  /\ json = EmptyBuilder /\ ud_flag = FALSE /\ range_flag = FALSE /\ range_num = 0
  /\ tcpflag = FALSE /\ outports_num = 0
  /\ slot_mask = 0
  /\ sent = <<>> /\ assigned = {} /\ tainted = FALSE

-----------------------------------------------------------------------------
(* cli_reset_command: every global of a command except slot_mask. *)

\* Faulty variants, which the properties below must tell from the code.
ResetCommandKeepsUd ==
  /\ json' = EmptyBuilder
  /\ range_flag' = FALSE /\ range_num' = 0 /\ tcpflag' = FALSE /\ outports_num' = 0
  /\ tainted' = FALSE
  /\ UNCHANGED ud_flag

ResetCommandKeepsOutports ==
  /\ json' = EmptyBuilder
  /\ ud_flag' = FALSE /\ range_flag' = FALSE /\ range_num' = 0 /\ tcpflag' = FALSE
  /\ tainted' = FALSE
  /\ UNCHANGED outports_num

ResetCommand ==
  /\ json' = EmptyBuilder
  /\ ud_flag' = FALSE
  /\ range_flag' = FALSE
  /\ range_num' = 0
  /\ tcpflag' = FALSE
  /\ outports_num' = 0
  /\ tainted' = FALSE

(* What cli_reset_command leaves behind. *)
Clean ==
  /\ json = EmptyBuilder
  /\ ~ud_flag /\ ~range_flag /\ range_num = 0
  /\ ~tcpflag /\ outports_num = 0

\* Between commands cmd holds the empty line and the history starts afresh.
NoCommand == cmd' = EmptyLine /\ pc' = 1 /\ sent' = <<>> /\ assigned' = {}

-----------------------------------------------------------------------------
(* Reading the line. *)

\* start_cli_cmd: the buffer is switched to the line and yyparse entered.
StartParse ==
  /\ mode = "idle"
  /\ mode' = "boundary"
  /\ UNCHANGED <<cmd, pc, eos, items, rv, resetVars, slot_mask, history>>

\* A command begins.  The line has room for MaxItems of them; its last one is
\* followed by the newline, so a bare EOS is always possible after a command
\* that did not take its own.
Begin(c) ==
  /\ mode = "boundary"
  /\ \/ items < MaxItems /\ items' = items + 1
     \/ items = MaxItems /\ ~eos /\ c = EmptyLine /\ items' = items
  /\ mode' = "command" /\ cmd' = c /\ eos' = FALSE
  /\ UNCHANGED <<pc, rv, resetVars, slot_mask, history>>

\* The end of the line after an EOS: yyparse accepts and returns 0.
EndOfLine ==
  /\ mode = "boundary" /\ eos
  /\ mode' = "idle" /\ rv' = 0 /\ eos' = FALSE /\ items' = 0
  /\ UNCHANGED <<cmd, pc, resetVars, slot_mask, history>>

\* The production is reduced to a command and the command to a line.
EndCommand ==
  /\ mode = "command" /\ pc > Len(cmd.ops)
  /\ mode' = "boundary" /\ NoCommand
  /\ ResetCommand
  /\ UNCHANGED <<eos, items, rv, slot_mask>>

-----------------------------------------------------------------------------
(* Errors and recovery. *)

At(op) == mode = "command" /\ pc <= Len(cmd.ops) /\ cmd.ops[pc] = op

Advance == pc' = pc + 1 /\ UNCHANGED <<mode, cmd, items, rv>>

\* A terminal that fits no production: yyerror, then the error token.
SyntaxError ==
  /\ At("tok") \/ At("eos")
  /\ mode' = "discard" /\ eos' = FALSE
  /\ UNCHANGED <<cmd, pc, items, rv, resetVars, slot_mask, history>>

\* Faulty variant: a request that fails makes the action give up.
RejectBetweenRequests ==
  /\ At("check") \/ (At("range") /\ range_num > RangeLimit) \/ (At("val") /\ sent # <<>>)
  /\ eos => Len(json.text) <= MaxResidue
  /\ mode' = "discard"
  /\ UNCHANGED <<cmd, pc, eos, items, rv, resetVars, slot_mask, history>>

\* A value fails its test, or there is no room for another range: YYERROR.
\* Whether an EOS is still to come depends on where in the command this is.
\* Late rejections, line after line, pile up text without end; MaxResidue stops
\* the model from following them.
Reject ==
  /\ At("check") \/ (At("range") /\ range_num > RangeLimit)
  /\ eos => Len(json.text) <= MaxResidue
  /\ mode' = "discard"
  /\ UNCHANGED <<cmd, pc, eos, items, rv, resetVars, slot_mask, history>>

\* line: error EOS.  When the failing command had its EOS already, the EOS
\* that ends the recovery is the one of the next command on the line, which
\* is discarded with it.
Resync ==
  /\ mode = "discard"
  /\ \/ ~eos /\ items' = items
     \/ eos /\ items < MaxItems /\ items' = items + 1
  /\ mode' = "boundary" /\ eos' = TRUE /\ NoCommand
  /\ ResetCommand
  /\ UNCHANGED <<rv, slot_mask>>

\* Faulty variant: the error token waits for its EOS past the end of the line.
AbortWaits ==
  /\ mode = "discard" /\ eos
  /\ rv' = 1
  /\ UNCHANGED <<mode, cmd, pc, eos, items, resetVars, slot_mask, history>>

\* The line ends while an EOS is awaited: yyparse returns 1, nothing is reset.
Abort ==
  /\ mode = "discard" /\ eos
  /\ mode' = "idle" /\ rv' = 1 /\ eos' = FALSE /\ items' = 0 /\ NoCommand
  /\ tainted' = TRUE
  /\ UNCHANGED <<resetVars, slot_mask>>

\* EXIT EOS: YYACCEPT drops the rest of the line and resets nothing.
Accept ==
  /\ At("accept")
  /\ mode' = "idle" /\ rv' = 0 /\ eos' = FALSE /\ items' = 0 /\ NoCommand
  /\ UNCHANGED <<resetVars, slot_mask, tainted>>

-----------------------------------------------------------------------------
(* The ops of a command. *)

ReadToken ==
  /\ At("tok") /\ Advance /\ eos' = FALSE
  /\ UNCHANGED <<resetVars, slot_mask, history>>

ReadEos ==
  /\ At("eos") /\ Advance /\ eos' = TRUE
  /\ UNCHANGED <<resetVars, slot_mask, history>>

\* A test that passes, or the board's own slot or ports, which change nothing.
Pass ==
  /\ At("check") \/ At("guard") \/ At("own")
  /\ Advance
  /\ UNCHANGED <<eos, resetVars, slot_mask, history>>

\* A guard that fails skips the rest of the action, and the command is reduced
\* as if it had run.
Skip ==
  /\ At("guard")
  /\ pc' = Len(cmd.ops) + 1
  /\ UNCHANGED <<mode, cmd, items, rv, eos, resetVars, slot_mask, history>>

\* Faulty variant: the mask is assigned by the first command that names a slot.
SetSlotOnce(m) ==
  /\ At("slot") /\ Advance
  /\ slot_mask' = IF slot_mask = 0 THEN m ELSE slot_mask
  /\ assigned' = assigned \cup {m}
  /\ UNCHANGED <<eos, resetVars, sent, tainted>>

\* Faulty variant: the slots are added to those of the commands before.
SetSlotAdds(m) ==
  /\ At("slot") /\ Advance
  /\ slot_mask' = slot_mask + m
  /\ assigned' = assigned \cup {m}
  /\ UNCHANGED <<eos, resetVars, sent, tainted>>

\* smps, slot_id and SHOW BOARD <slot> INFO.
SetSlot(m) ==
  /\ At("slot") /\ Advance
  /\ slot_mask' = m /\ assigned' = assigned \cup {m}
  /\ UNCHANGED <<eos, resetVars, sent, tainted>>

WriteVal ==
  /\ At("val") /\ Advance
  /\ json' = ConvertVal(json)
  /\ UNCHANGED <<eos, ud_flag, range_flag, range_num, tcpflag, outports_num,
                 slot_mask, history>>

WriteKey ==
  /\ At("key") /\ Advance
  /\ json' = ConvertKey(json)
  /\ UNCHANGED <<eos, ud_flag, range_flag, range_num, tcpflag, outports_num,
                 slot_mask, history>>

\* convert_ud_data_to_json and convert_range_data_to_json write into g_ud and
\* g_range, whose content close_json copies.
AddUd ==
  /\ At("ud") /\ Advance
  /\ ud_flag' = TRUE
  /\ UNCHANGED <<eos, json, range_flag, range_num, tcpflag, outports_num,
                 slot_mask, history>>

\* Faulty variant: the number of ranges is not compared with its limit.
AddRangeUnlimited ==
  /\ At("range") /\ Advance
  /\ range_flag' = TRUE /\ range_num' = range_num + 1
  /\ UNCHANGED <<eos, json, ud_flag, tcpflag, outports_num, slot_mask, history>>

AddRange ==
  /\ At("range") /\ range_num <= RangeLimit /\ Advance
  /\ range_flag' = TRUE /\ range_num' = range_num + 1
  /\ UNCHANGED <<eos, json, ud_flag, tcpflag, outports_num, slot_mask, history>>

\* One flag name is set or, with an exclamation mark, cleared.
SetTcpflag ==
  /\ At("flag") /\ Advance
  /\ tcpflag' \in BOOLEAN
  /\ UNCHANGED <<eos, json, ud_flag, range_flag, range_num, outports_num,
                 slot_mask, history>>

AddOutport ==
  /\ At("hash") /\ Advance
  /\ outports_num' = outports_num + 1
  /\ UNCHANGED <<eos, json, ud_flag, range_flag, range_num, tcpflag,
                 slot_mask, history>>

\* The loop over hash_outports: the count was written before it, so every id
\* is a comma and a value.
WriteOutports ==
  /\ At("hashvals") /\ Advance
  /\ json' = [json EXCEPT !.text = @ \o [i \in 1..(2 * outports_num) |->
                                           IF i % 2 = 1 THEN "," ELSE "v"]]
  /\ UNCHANGED <<eos, ud_flag, range_flag, range_num, tcpflag, outports_num,
                 slot_mask, history>>

Close ==
  /\ At("close") /\ Advance
  /\ json' = CloseJson(json, ud_flag, range_flag)
  /\ UNCHANGED <<eos, ud_flag, range_flag, range_num, tcpflag, outports_num,
                 slot_mask, history>>

\* process_msg: the text goes out and is freed.
Send ==
  /\ At("send") /\ Advance
  /\ sent' = Append(sent, [text |-> json.text, mask |-> slot_mask])
  /\ json' = FreeText(json)
  /\ UNCHANGED <<eos, ud_flag, range_flag, range_num, tcpflag, outports_num,
                 slot_mask, assigned, tainted>>

-----------------------------------------------------------------------------
Write == WriteVal \/ WriteKey \/ AddUd \/ AddRange \/ SetTcpflag \/ AddOutport
           \/ WriteOutports \/ Close

\* One step of yyparse.
ParserStep ==
  \/ \E c \in Commands : Begin(c)
  \/ EndOfLine \/ EndCommand \/ SyntaxError \/ Reject \/ Resync \/ Abort \/ Accept
  \/ ReadToken \/ ReadEos \/ Pass \/ Skip \/ Write \/ Send
  \/ \E m \in SlotMasks : SetSlot(m)

Next == StartParse \/ ParserStep

Spec == Init /\ [][Next]_vars

-----------------------------------------------------------------------------
(* Properties. *)

\* No command inherits a value, a flag or a count from the one before it: in
\* front of a command everything cli_reset_command is responsible for is at
\* its start value, whatever the commands before it wrote and wherever they
\* were given up.  The exception is a yyparse that returned 1: it has left the
\* values of its last command behind (tainted).
CleanBetweenCommands ==
  mode \in {"idle", "boundary"} /\ ~tainted => Clean

\* A command that the parser gives up, at a wrong token or a refused value, has
\* sent nothing: requests leave only when nothing can be refused any more.
RejectedSendsNothing == mode = "discard" => sent = <<>>

\* A command with slots that the parser stores (smps, slot_id, SHOW BOARD n INFO)
\* sends all its requests to them, never to those of an earlier line, although
\* slot_mask is a global that no reset clears.  Nothing is said here of commands
\* that name this board's slot or ports alone (op "own"): OwnBoardAddressed.
AddressedAsAssigned ==
  assigned # {} => \A i \in 1..Len(sent) : sent[i].mask \in assigned

\* Contradicted by the code: a command that names nothing but this board's slot
\* (LINK_PROTECT SLOT n) or ports (SHOW, CLEAR and SET INTERFACE with a port list)
\* is addressed to this board, or as in a fresh session.
OwnBoardAddressed ==
  mode = "command" /\ "own" \in Before(cmd.ops, pc) /\ assigned = {} =>
    \A i \in 1..Len(sent) : sent[i].mask \in {0, OwnMask}

\* The first request of a command is an empty buffer or one complete list,
\* with every bracket closed, no key without a value and at most one map, in
\* whatever order class entries, ud data and ranges were typed.
FirstPayloadWellFormed ==
  mode = "command" /\ ~tainted /\ sent # <<>> =>
    sent[1].text = <<>> \/ WellFormed(sent[1].text)

\* Contradicted by the code: RESET SYSTEM restarts the system, so that its
\* request is addressed as in a fresh session, to no slot in particular.
ResetReachesSystem ==
  cmd.name = "RESET SYSTEM" => \A i \in 1..Len(sent) : sent[i].mask = 0
=============================================================================
